----------------------------- MODULE FileManager -----------------------------
(***************************************************************************)
(* The File Manager traps, with ReadDateTime and SysEnvirons, on top of    *)
(* the emulated memory.  All files are one buffer and one offset.          *)
(* A parameter block is a row of fields of a byte each: those the traps    *)
(* set, at the offsets the constants give them, and others.  WithType      *)
(* reads all of them before the trap's work and writes all of them back    *)
(* after it, a field at a time.                                            *)
(***************************************************************************)
EXTENDS MemoryMap

CONSTANTS
  SaveBufferSize,   \* sizeof(save_buffer)
  ParamSize,        \* fields of a parameter block, of whichever trap
  ioResult, ioRefNum, ioReqCount, ioActCount,  \* which of them these are
  ioVFrBlk, ioVAlBlkSiz,
  FreeBlocks, AllocationSize,  \* the values GetVolInfo gives the last two
  EnvironsSize,     \* fields of a SysEnvRecord
  hasColorQD,       \* which of them this is
  TimeAddress,      \* GlobalVars::Time
  TimeSize,         \* its bytes
  \* Bounds.
  Params,           \* where parameter blocks lie
  Transfers         \* ioReqCount of the reads and writes

ASSUME FileAssumption ==
  /\ SaveBufferSize \in Nat
  /\ ParamSize \in Nat \ {0} /\ EnvironsSize \in Nat \ {0}
  /\ TimeAddress + TimeSize <= Size
  /\ TimeAddress \in Nat /\ TimeSize \in Nat \ {0}
  /\ Params \subseteq Nat /\ Transfers \subseteq Nat \ {0}

ASSUME FieldsAssumption ==
  /\ {ioResult, ioRefNum, ioReqCount, ioActCount, ioVFrBlk, ioVAlBlkSiz} \subseteq 1..ParamSize
  /\ ioResult \notin {ioRefNum, ioReqCount, ioActCount, ioVFrBlk, ioVAlBlkSiz}
  /\ ioReqCount # ioActCount
  /\ hasColorQD \in 1..EnvironsSize
  /\ {FreeBlocks, AllocationSize} \subseteq Values

VARIABLES
  save_buffer,
  f_offset

vars == <<mapVars, save_buffer, f_offset>>

noErr == 0

FileInit ==
  /\ Init
  /\ save_buffer = [i \in 0..SaveBufferSize-1 |-> 0]
  /\ f_offset = 0

MapUnchanged == UNCHANGED <<regions, restrictions, restricted, a5>>
FileUnchanged == UNCHANGED <<save_buffer, f_offset>>

\* A sequence of bytes, written one at a time.
WriteEach(s, a, vs) ==
  FoldLeft(LAMBDA acc, i : WriteByte(acc, a + i - 1, vs[i]), s, [i \in 1..Len(vs) |-> i])

\* WithType: ReadType before the trap's work, WriteType after it.
ReadBlock(ptr, size) == [i \in 1..size |-> store.bytes[ptr + i - 1]]

ResultOnly(s, ptr, block) ==  \* mutant: the other fields are left
  WriteByte(s, ptr + ioResult - 1, block[ioResult])

WriteBack(s, ptr, block) == WriteEach(s, ptr, block)

\* What the traps set in the block.
Done(block)     == [block EXCEPT ![ioResult] = noErr]
Opened(block)   == [Done(block) EXCEPT ![ioRefNum] = 0]
Counted(block)  == [Done(block) EXCEPT ![ioActCount] = block[ioReqCount]]
Measured(block) ==
  [Done(block) EXCEPT ![ioVFrBlk] = FreeBlocks, ![ioVAlBlkSiz] = AllocationSize]
Equipped(record) == [record EXCEPT ![hasColorQD] = 0]  \* kSupportColorQD

\* ReadType<string_view> at ioNamePtr: only the length byte is checked.
NameIsReadable(name) == InMemory(name, 1)

\* A trap that leaves `block' at `ptr', `whole' unless a read fails before.
BlockTrap(trap, ptr, size, whole, block) ==
  /\ Step(<<trap, ptr>>)
  /\ halted' = ~(InMemory(ptr, size) /\ whole)
  /\ store' = IF halted' THEN store ELSE WriteBack(store, ptr, block)
  /\ MapUnchanged /\ FileUnchanged

NamedTrap(trap, ptr, name, block) == BlockTrap(trap, ptr, ParamSize, NameIsReadable(name), block)
PlainTrap(trap, ptr, block)       == BlockTrap(trap, ptr, ParamSize, TRUE, block)

Param(ptr) == ReadBlock(ptr, ParamSize)

GetVolInfo(ptr, name)  == NamedTrap("GetVolInfo", ptr, name, Measured(Param(ptr)))
FileCreate(ptr, name)  == NamedTrap("FileCreate", ptr, name, Done(Param(ptr)))
Open(ptr, name)        == NamedTrap("Open", ptr, name, Opened(Param(ptr)))
GetFileInfo(ptr, name) == NamedTrap("GetFileInfo", ptr, name, Done(Param(ptr)))
SetFileInfo(ptr, name) == NamedTrap("SetFileInfo", ptr, name, Done(Param(ptr)))

SetEOF(ptr)   == PlainTrap("SetEOF", ptr, Done(Param(ptr)))
Allocate(ptr) == PlainTrap("Allocate", ptr, Counted(Param(ptr)))
Close(ptr)    == PlainTrap("Close", ptr, Done(Param(ptr)))

SysEnvirons(ptr) ==
  BlockTrap("SysEnvirons", ptr, EnvironsSize, TRUE, Equipped(ReadBlock(ptr, EnvironsSize)))

\* What lies behind the buffer is not the program's: the model ends there.
InBuffer(count) == f_offset + count <= SaveBufferSize

Delivered(s, buffer, count) ==
  WriteEach(s, buffer, [i \in 1..count |-> save_buffer[f_offset + i - 1]])

\* The count of a transfer is its block's; where its buffer lies is free, as a
\* byte does not hold an address.
Asks(ptr, count) == InMemory(ptr, ParamSize) => Param(ptr)[ioReqCount] = count

\* Read: the bytes reach memory before the parameter block is written back.
\* What a failing transfer has moved before it ends the process is left out.
Read(ptr, buffer, count) ==
  /\ Asks(ptr, count)
  /\ Step(<<"Read", ptr, buffer, count>>)
  /\ halted' = ~(InMemory(ptr, ParamSize) /\ InMemory(buffer, count) /\ InBuffer(count))
  /\ IF halted' THEN UNCHANGED <<store, f_offset>>
     ELSE /\ store' = WriteBack(Delivered(store, buffer, count), ptr, Counted(Param(ptr)))
          /\ f_offset' = f_offset + count
  /\ UNCHANGED save_buffer
  /\ MapUnchanged

\* Write: the offset moves on, as it does in Read.
Written(buffer, count) ==
  [i \in DOMAIN save_buffer |->
     IF i >= f_offset /\ i < f_offset + count THEN store.bytes[buffer + i - f_offset]
     ELSE save_buffer[i]]

Stays(count) == f_offset  \* mutant: the offset does not move

Advanced(count) == f_offset + count

Write(ptr, buffer, count) ==
  /\ Asks(ptr, count)
  /\ Step(<<"Write", ptr, buffer, count>>)
  /\ halted' = ~(InMemory(ptr, ParamSize) /\ InMemory(buffer, count) /\ InBuffer(count))
  /\ IF halted' THEN UNCHANGED <<store, save_buffer, f_offset>>
     ELSE /\ save_buffer' = Written(buffer, count)
          /\ f_offset' = Advanced(count)
          /\ store' = WriteBack(store, ptr, Counted(Param(ptr)))
  /\ MapUnchanged

\* ReadDateTime: the global is copied as one number.
ReadDateTime(time) ==
  /\ Step(<<"other">>)
  /\ halted' = ~InMemory(time, TimeSize)
  /\ store' = IF halted' THEN store
              ELSE WriteRaw(store, Base, time,
                            [i \in 1..TimeSize |-> store.bytes[TimeAddress + i - 1]])
  /\ MapUnchanged /\ FileUnchanged

FileNext ==
  \/ MapNext /\ FileUnchanged
  \/ \E ptr \in Params, name \in Blocks :
       \/ GetVolInfo(ptr, name) \/ FileCreate(ptr, name) \/ Open(ptr, name)
       \/ GetFileInfo(ptr, name) \/ SetFileInfo(ptr, name)
  \/ \E ptr \in Params :
       SetEOF(ptr) \/ Allocate(ptr) \/ Close(ptr) \/ SysEnvirons(ptr) \/ ReadDateTime(ptr)
  \/ \E ptr \in Params, buffer \in Blocks, n \in Transfers : Read(ptr, buffer, n) \/ Write(ptr, buffer, n)

Spec == FileInit /\ [][FileNext]_vars

-----------------------------------------------------------------------------
\* One offset serves reading and writing and no trap resets it, not even Open:
\* the buffer is a tape on which nothing behind the offset changes any more and
\* nothing before it was ever written.  So no file byte is overwritten, and a
\* Read never returns what a Write has stored, only zeros.
NothingIsRewritten ==
  /\ f_offset' >= f_offset
  /\ \A i \in 0..SaveBufferSize-1 :
       /\ i < f_offset => save_buffer'[i] = save_buffer[i]
       /\ i >= f_offset' => save_buffer'[i] = 0
OnlyZerosAreRead ==
  last'[1] = "Read" /\ ~halted' =>
    LET ptr == last'[2]
        delivered == last'[3] .. (last'[3] + last'[4]) - 1
    IN  \A a \in delivered \ (ptr .. ptr + ParamSize - 1) : store'.bytes[a] = 0
TheTapeOnlyMovesOn == [][NothingIsRewritten /\ OnlyZerosAreRead]_vars

\* A trap changes of its parameter block what it returns there and no more: the
\* caller's other fields survive, also where a Read delivers its bytes over them
\* (WithType writes last what it read first); the result is that of no error;
\* and ioActCount tells how far the tape has moved.
Returned(trap) ==
  CASE trap = "SysEnvirons" -> {hasColorQD}
    [] trap = "GetVolInfo" -> {ioResult, ioVFrBlk, ioVAlBlkSiz}
    [] trap = "Open" -> {ioResult, ioRefNum}
    [] trap \in {"Allocate", "Read", "Write"} -> {ioResult, ioActCount}
    [] OTHER -> {ioResult}
SizeFor(trap) == IF trap = "SysEnvirons" THEN EnvironsSize ELSE ParamSize

ParametersSurvive ==
  [][LET trap == last'[1]
     IN  trap \notin {"other", "BlockMove"} /\ ~halted' =>
           LET ptr == last'[2]
               before(i) == store.bytes[ptr + i - 1]
               after(i)  == store'.bytes[ptr + i - 1]
           IN  /\ \A i \in 1..SizeFor(trap) : i \in Returned(trap) \/ after(i) = before(i)
               /\ trap # "SysEnvirons" => after(ioResult) = noErr
               /\ trap \in {"Read", "Write"} => after(ioActCount) = f_offset' - f_offset]_vars
=============================================================================
