--------------------------- MODULE MemoryManager ---------------------------
(***************************************************************************)
(* The application heap of emu/memory/memory_manager.{h,cc}: a bump         *)
(* allocator that never takes memory back, and a table of master pointers   *)
(* at the bottom of the heap.  A handle is the address of its master        *)
(* pointer; `handle_to_metadata' holds what the emulator itself knows of    *)
(* it.  The traps of emu/trap/trap_dispatcher.cc reach it on behalf of the  *)
(* application, the managers call it directly.  Every call is made by the   *)
(* emulator thread, so a call is one step.                                  *)
(***************************************************************************)
EXTENDS Naturals, FiniteSets

CONSTANTS
  HeapStart,   (* kHeapStart: the address the heap begins at                *)
  HeapEnd,     (* kHeapEnd: the address the stack's reserve begins at       *)
  TableSize,   (* kHeapHandleOffset: bytes kept for master pointers         *)
  HandleSize,  (* sizeof(Handle)                                            *)
  Sizes,       (* the block sizes asked for                                 *)
  Limits,      (* the addresses passed to SetApplLimit                      *)
  MaxHandles   (* bound: how many master pointers are written               *)

ASSUME HeapAssumption ==
  /\ HeapStart \in Nat /\ HeapEnd \in Nat /\ TableSize \in Nat
  /\ HandleSize \in Nat \ {0}
  /\ MaxHandles \in Nat
  /\ Sizes \subseteq Nat /\ Limits \subseteq Nat
  /\ TableSize < HeapEnd

VARIABLES
  heap_offset, handle_offset,
  handle_to_metadata,  (* HandleMetadata of every handle not deallocated    *)
  master,      (* the master pointers written, by address                   *)
  appl_limit,  (* the low-memory global ApplLimit, 0 until it is set        *)
  blocks,      (* history: every block handed out                           *)
  status,      (* what the last trap left in D0                             *)
  halted       (* a CHECK failed: the process aborted                       *)

mmVars == <<heap_offset, handle_offset, handle_to_metadata, master,
            appl_limit, blocks, status, halted>>

Block == [start : Nat, size : Nat]
HandleMetadata == [start : Nat, end : Nat, size : Nat]

MemoryManagerInit ==
  /\ heap_offset = TableSize /\ handle_offset = 0
  /\ handle_to_metadata = [h \in {} |-> 0]
  /\ master = [h \in {} |-> 0]
  /\ appl_limit = 0
  /\ blocks = {}
  /\ status = "none"
  /\ halted = FALSE

(* kSystemMemory.Write of a master pointer                                  *)
Write(handle, ptr) ==
  master' = [h \in DOMAIN master \cup {handle} |->
               IF h = handle THEN ptr ELSE master[h]]

(* std::map::insert keeps an entry that is there already                    *)
Insert(handle, metadata) ==
  handle_to_metadata' =
    [h \in DOMAIN handle_to_metadata \cup {handle} |->
       IF h \in DOMAIN handle_to_metadata THEN handle_to_metadata[h]
                                          ELSE metadata]

Found(handle) == handle \in DOMAIN handle_to_metadata
-----------------------------------------------------------------------------
NextBlock == HeapStart + heap_offset
WrapsAround ==  \* mutant: a full table is used again from its start
  HeapStart + (handle_offset % TableSize)
NextHandle == HeapStart + handle_offset

RoomUpToTheEnd(size) == heap_offset + size <= HeapEnd  \* mutant: off by one
HasSpaceForAllocation(size) == heap_offset + size < HeapEnd
GetFreeMemorySize == HeapEnd - heap_offset

ShortBump(size) ==  \* mutant: one byte short
  heap_offset + (IF size = 0 THEN 0 ELSE size - 1)
Bump(size) == heap_offset + size

(* the CHECK of Allocate follows the assignment                             *)
AllocateFails(size) == ~(Bump(size) < HeapEnd)

(* takes `size' bytes and leaves the rest of the step to its caller         *)
Allocate(size) ==
  /\ heap_offset' = Bump(size)
  /\ blocks' = blocks \cup {[start |-> NextBlock, size |-> size]}

(* the CHECK of AllocateHandle on the table                                 *)
TableFull == ~(handle_offset < TableSize)

MetadataOf(size) ==
  [start |-> NextBlock, end |-> NextBlock + size, size |-> size]

(* with either CHECK failing nothing after it is done                       *)
AllocateHandle(size) ==
  /\ Cardinality(DOMAIN master) < MaxHandles
  /\ Allocate(size)
  /\ UNCHANGED appl_limit
  /\ IF AllocateFails(size) \/ TableFull
     THEN /\ halted' = TRUE
          /\ UNCHANGED <<handle_offset, handle_to_metadata, master>>
     ELSE /\ handle_offset' = handle_offset + HandleSize
          /\ Write(NextHandle, NextBlock)
          /\ Insert(NextHandle, MetadataOf(size))
          /\ UNCHANGED halted

(* the new pointer replaces `start' and `size', and leaves `end' alone      *)
Moved(handle, ptr, size) ==
  [handle_to_metadata EXCEPT ![handle].start = ptr, ![handle].size = size]
MasterLeftBehind(handle, ptr, size) ==  \* mutant: the master pointer stays
  /\ handle_to_metadata' = Moved(handle, ptr, size)
  /\ UNCHANGED master
UpdateHandle(handle, ptr, size) ==
  /\ Write(handle, ptr)
  /\ handle_to_metadata' = Moved(handle, ptr, size)
-----------------------------------------------------------------------------
(* The traps of the application                                             *)

NewPtr(size) ==
  /\ IF HasSpaceForAllocation(size)
     THEN /\ Allocate(size)
          /\ halted' = AllocateFails(size)
          /\ status' = "noErr"
     ELSE /\ status' = "memFullErr"
          /\ UNCHANGED <<heap_offset, blocks, halted>>
  /\ UNCHANGED <<handle_offset, handle_to_metadata, master, appl_limit>>

NewHandle(size) ==
  IF HasSpaceForAllocation(size)
  THEN AllocateHandle(size) /\ status' = "noErr"
  ELSE /\ status' = "memFullErr"
       /\ UNCHANGED <<heap_offset, handle_offset, handle_to_metadata, master,
                      appl_limit, blocks, halted>>

(* writes a master pointer of its own for a block that has one: neither the *)
(* table's limit nor the metadata is looked at                              *)
RecoverHandle(ptr) ==
  /\ Cardinality(DOMAIN master) < MaxHandles
  /\ Write(NextHandle, ptr)
  /\ handle_offset' = handle_offset + HandleSize
  /\ status' = "noErr"
  /\ UNCHANGED <<heap_offset, handle_to_metadata, appl_limit, blocks, halted>>

SetApplLimit(limit) ==
  /\ IF limit < HeapEnd
     THEN appl_limit' = limit /\ status' = "noErr"
     ELSE status' = "memFullErr" /\ UNCHANGED appl_limit
  /\ UNCHANGED <<heap_offset, handle_offset, handle_to_metadata, master,
                 blocks, halted>>

(* GetHandleSize aborts on a handle it does not know                        *)
GetHandleSize(handle) ==
  /\ halted' = ~Found(handle)
  /\ UNCHANGED <<heap_offset, handle_offset, handle_to_metadata, master,
                 appl_limit, blocks, status>>

(* AppendResMenu reads the menu through GetRegionForHandle, whose CHECK     *)
(* compares master pointer and metadata, writes the longer menu in a block  *)
(* of its own and moves the handle to it                                    *)
Resolves(handle) ==
  Found(handle) /\ master[handle] = handle_to_metadata[handle].start

AppendResMenu(handle, size) ==
  /\ IF ~Resolves(handle)
     THEN /\ halted' = TRUE
          /\ UNCHANGED <<heap_offset, handle_to_metadata, master, blocks>>
     ELSE /\ Allocate(size)
          /\ IF AllocateFails(size)
             THEN halted' = TRUE /\ UNCHANGED <<handle_to_metadata, master>>
             ELSE UpdateHandle(handle, NextBlock, size) /\ UNCHANGED halted
  /\ UNCHANGED <<handle_offset, appl_limit, status>>

(* The calls of the managers, and Deallocate, which nothing calls yet       *)

LoadHandle(size) == AllocateHandle(size) /\ UNCHANGED status

LoadBlock(size) ==
  /\ Allocate(size)
  /\ halted' = AllocateFails(size)
  /\ UNCHANGED <<handle_offset, handle_to_metadata, master, appl_limit, status>>

Deallocate(handle) ==
  /\ Found(handle)
  /\ handle_to_metadata' =
       [h \in DOMAIN handle_to_metadata \ {handle} |-> handle_to_metadata[h]]
  /\ UNCHANGED <<heap_offset, handle_offset, master, appl_limit, blocks,
                 status, halted>>
-----------------------------------------------------------------------------
Traps ==
  /\ ~halted
  /\ \/ \E size \in Sizes : NewPtr(size) \/ NewHandle(size)
     \/ \E block \in blocks : RecoverHandle(block.start)
     \/ \E limit \in Limits : SetApplLimit(limit)
     \/ \E handle \in DOMAIN master :
          \/ GetHandleSize(handle)
          \/ \E size \in Sizes : AppendResMenu(handle, size)

Managers ==
  /\ ~halted
  /\ \/ \E size \in Sizes : LoadHandle(size) \/ LoadBlock(size)
     \/ \E handle \in DOMAIN handle_to_metadata : Deallocate(handle)

TrapSpec == MemoryManagerInit /\ [][Traps]_mmVars
MemoryManagerSpec == MemoryManagerInit /\ [][Traps \/ Managers]_mmVars
-----------------------------------------------------------------------------
(* The variables hold values of their types.                                *)
MemoryTypeOK ==
  /\ heap_offset \in Nat /\ handle_offset \in Nat
  /\ DOMAIN handle_to_metadata \subseteq Nat /\ DOMAIN master \subseteq Nat
  /\ handle_to_metadata \in [DOMAIN handle_to_metadata -> HandleMetadata]
  /\ master \in [DOMAIN master -> Nat]
  /\ appl_limit \in Nat
  /\ blocks \subseteq Block
  /\ status \in {"none", "noErr", "memFullErr"}
  /\ halted \in BOOLEAN

(* Whatever traps and managers ask for, no two blocks ever handed out share *)
(* a byte, and none reaches into the table of master pointers: "All         *)
(* allocated pointers are cleared (and never reallocated)" in NewPtr of     *)
(* trap_dispatcher.cc rests on it.                                          *)
Apart(b, c) == b.start + b.size <= c.start \/ c.start + c.size <= b.start
BlocksApart ==
  /\ \A b, c \in blocks : b # c => Apart(b, c)
  /\ \A b \in blocks : HeapStart + TableSize <= b.start

(* The CHECK_EQ of GetPtrForHandle and GetRegionForHandle never fails, and  *)
(* the region they return is a block that was handed out whole: master      *)
(* pointer, metadata and block agree through allocation, AppendResMenu's    *)
(* move and recovered handles.                                              *)
HandlesAgree ==
  \A h \in DOMAIN handle_to_metadata :
    /\ h \in DOMAIN master /\ Resolves(h)
    /\ [start |-> handle_to_metadata[h].start,
        size |-> handle_to_metadata[h].size] \in blocks

(* GetHandleThatContains, which scans the metadata in order, has at most    *)
(* one handle to choose from, and the block of that handle does contain the *)
(* address, although UpdateHandle leaves a stale `end' behind.              *)
Claims(h, address) ==
  /\ address >= handle_to_metadata[h].start
  /\ address < handle_to_metadata[h].end
LookupIsSound ==
  \A g, h \in DOMAIN handle_to_metadata :
    \A address \in handle_to_metadata[h].start .. handle_to_metadata[h].end :
      Claims(h, address) =>
        /\ address < handle_to_metadata[h].start + handle_to_metadata[h].size
        /\ Claims(g, address) => g = h

(* A full heap is an error code for NewPtr and never an abort: its test and *)
(* the CHECK of Allocate draw the same line.                                *)
FullHeapIsReported ==
  [][\A size \in Sizes : ~halted /\ NewPtr(size) => ~halted']_mmVars

(* Blocks do not move: "MemoryManager currently does not move or purge      *)
(* blocks so assume success", says HLock in trap_dispatcher.cc.  Only       *)
(* AppendResMenu gives a handle another block, and never one that another   *)
(* handle has or had.                                                       *)
BlocksStayPut ==
  [][\A h \in DOMAIN handle_to_metadata \cap DOMAIN handle_to_metadata' :
       \/ /\ handle_to_metadata'[h] = handle_to_metadata[h]
          /\ master'[h] = master[h]
       \/ /\ \E size \in Sizes : AppendResMenu(h, size)
          /\ \A b \in blocks :
               Apart(b, [start |-> master'[h],
                         size |-> handle_to_metadata'[h].size])]_mmVars
=============================================================================
