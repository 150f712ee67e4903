------------------------------ MODULE MemoryMap ------------------------------
(***************************************************************************)
(* kSystemMemory and what memory_map.cc knows of it: which addresses the   *)
(* emulated CPU may write, which records are restricted, where the A5      *)
(* world lies, which bytes were ever written, and through the watcher the  *)
(* DebugManager's spans.  The state at Init is that of Main once           *)
(* InstallMemoryWatcher has run (main.cc:315-319).                         *)
(* LOG(FATAL), a failed CHECK and a trap that returns an error end the     *)
(* process: `halted'.                                                      *)
(***************************************************************************)
EXTENDS MemoryRegion, DebugManager

CONSTANTS
  \* The sections of the memory map, in ascending order.
  InterruptVectorTableEnd, SystemGlobalsLowEnd, SystemTrapTableEnd,
  SystemGlobalsHighStart, SystemGlobalsHighEnd, ToolboxTrapTableEnd,
  SystemHeapEnd, StackEnd, StackStart, LastEmulatedSubroutineAddress,
  WriteGlobals, ReadGlobals,   \* addresses within the whitelisted globals
  WordSize,                    \* 2^32: A5 positions are uint32_t
  Values,                      \* what a byte may hold
  \* Bounds: what the program asks for, and how many steps it takes.
  Payloads,                    \* sequences of bytes written at once
  Addresses,                   \* addresses the CPU accesses
  Blocks,                      \* addresses given to traps
  A5Sizes,                     \* sizes of the A5 world above and below
  Records,                     \* [start, end, fields] restricted by a trap
  Chunks,                      \* <<start, end>> tagged by the Segment Loader
  Cuts,                        \* <<offset, size>> of regions made
  MaxRegions, MaxSteps

ASSUME SectionsAssumption ==
  /\ 0 < InterruptVectorTableEnd
  /\ InterruptVectorTableEnd < SystemGlobalsLowEnd
  /\ SystemGlobalsLowEnd < SystemTrapTableEnd
  /\ SystemTrapTableEnd < SystemGlobalsHighStart
  /\ SystemGlobalsHighStart < SystemGlobalsHighEnd
  /\ SystemGlobalsHighEnd < ToolboxTrapTableEnd
  /\ ToolboxTrapTableEnd < SystemHeapEnd
  /\ SystemHeapEnd < StackEnd
  /\ StackEnd < StackStart
  /\ StackStart < LastEmulatedSubroutineAddress
  /\ LastEmulatedSubroutineAddress < Size
  /\ Size < WordSize
  /\ 0 \in Values
  /\ {InterruptVectorTableEnd, StackEnd, StackStart, LastEmulatedSubroutineAddress, WordSize} \subseteq Nat

ASSUME RequestsAssumption ==
  /\ \A record \in Records : record.start \in Nat /\ record.end \in Nat
  /\ A5Sizes \subseteq 0..WordSize-1
  /\ \A c \in Cuts \cup Chunks : c[1] \in Nat /\ c[2] \in Nat
  /\ Addresses \subseteq Nat /\ Blocks \subseteq Nat
  /\ Payloads \subseteq Seq(Values) \ {<<>>}
  /\ "Stack" \in Tags
  /\ MaxSteps \in Nat

VARIABLES
  store,         \* bytes, tags and initialized, and a log of the writes
  regions,       \* MemoryRegions in use besides the base
  restrictions,  \* log_read_regions, which log_write_regions always equals
  restricted,    \* history: every call of LogRegionAccess
  a5,            \* above_a5_size, below_a5_size and a5_world
  halted,        \* the process has ended
  steps,         \* operations so far
  last           \* history: what the last operation was given

mapVars == <<store, regions, restrictions, restricted, a5, halted, steps, last>>

Init ==
  /\ store = [bytes |-> [a \in 0..Size-1 |-> 0],
              tags |-> TagMemory({}, StackEnd, StackStart, "Stack"),
              initialized |-> {},
              log |-> <<>>]
  /\ regions = {}
  /\ restrictions = <<>>
  /\ restricted = <<>>
  /\ a5 = [above |-> 0, below |-> 0, world |-> 0]
  /\ halted = FALSE
  /\ steps = 0
  /\ last = <<"start">>

Step(operation) ==
  /\ ~halted /\ steps < MaxSteps
  /\ steps' = steps + 1
  /\ last' = operation

-----------------------------------------------------------------------------
\* Writes.  The watcher hears of every one, whoever makes it.
OnWrite(s, offset, length) ==
  [s EXCEPT !.tags = RecordWrite(@, offset, offset + length),
            !.initialized = @ \cup (offset .. (offset + length) - 1)]

WriteRaw(s, r, offset, vs) ==
  LET at == r.data + offset
      written == [s EXCEPT !.bytes = [a \in DOMAIN @ |->
                               IF a \in Touched(r, offset, Len(vs)) THEN vs[a - at + 1] ELSE @[a]],
                           !.log = Append(@, <<at, at + Len(vs)>>)]
  IN  OnWrite(written, ReportedStart(r, offset), Len(vs))

WriteByte(s, a, v) == WriteRaw(s, Base, a, <<v>>)

InMemory(address, length) == CheckSafeAccess(Base, address, length)

-----------------------------------------------------------------------------
\* The rules of CheckReadAccess and CheckWriteAccess.
WithinRegion(a, lower, upper) == a >= lower /\ a < upper

InGlobals(a) ==
  \/ WithinRegion(a, InterruptVectorTableEnd, SystemGlobalsLowEnd)
  \/ WithinRegion(a, SystemGlobalsHighStart, SystemGlobalsHighEnd)

InTrapTables(a) ==
  \/ WithinRegion(a, SystemGlobalsLowEnd, SystemTrapTableEnd)
  \/ WithinRegion(a, SystemGlobalsHighEnd, ToolboxTrapTableEnd)

InSystemHeap(a) == WithinRegion(a, ToolboxTrapTableEnd, SystemHeapEnd)

InHeapOrStack(a) == WithinRegion(a, SystemHeapEnd, StackStart)

BelowA5(a) == WithinRegion(a, (a5.world - a5.below) % WordSize, a5.world)

InA5World(a) ==
  \/ a = a5.world
  \/ BelowA5(a)
  \/ WithinRegion(a, a5.world, (a5.world + a5.above) % WordSize)

ShouldLogAccess(entry, a) ==
  ~\E f \in entry.fields : f.offset <= a - entry.start /\ a - entry.start < f.offset + f.size

Protected(a) ==
  \E i \in DOMAIN restrictions :
    /\ WithinRegion(a, restrictions[i].start, restrictions[i].end)
    /\ ShouldLogAccess(restrictions[i], a)

CheckReadAccess(a) ==
  /\ ~Protected(a)
  /\ \/ a < InterruptVectorTableEnd
     \/ InGlobals(a) /\ a \in ReadGlobals
     \/ InSystemHeap(a) \/ InHeapOrStack(a)
     \/ InA5World(a) /\ ~InGlobals(a) /\ ~InTrapTables(a)
     \/ a >= LastEmulatedSubroutineAddress

CheckWriteAccess(a) ==
  /\ ~Protected(a)
  /\ a >= InterruptVectorTableEnd
  /\ \/ InGlobals(a) /\ a \in WriteGlobals
     \/ InSystemHeap(a) \/ InHeapOrStack(a)
     \/ InA5World(a) /\ ~InGlobals(a) /\ ~InTrapTables(a)

\* CheckWriteAccess itself marks what the CPU writes in these two sections.
Marked(a) ==
  IF InSystemHeap(a) \/ (BelowA5(a) /\ a # a5.world /\ ~InHeapOrStack(a)) THEN {a} ELSE {}

-----------------------------------------------------------------------------
\* The operations.

\* m68k_read_memory_n: CheckReadAccess is commented out there, MUST is not.
CpuRead(a, vs) ==
  /\ Step(<<"other">>)
  /\ halted' = ~InMemory(a, Len(vs))
  /\ UNCHANGED <<store, regions, restrictions, restricted, a5>>

\* m68k_write_memory_n: only the first byte is checked.
CpuWrite(a, vs) ==
  /\ Step(<<"other">>)
  /\ halted' = ~(CheckWriteAccess(a) /\ InMemory(a, Len(vs)))
  /\ store' = IF halted' THEN store
              ELSE WriteRaw([store EXCEPT !.initialized = @ \cup Marked(a)], Base, a, vs)
  /\ UNCHANGED <<regions, restrictions, restricted, a5>>

\* MemoryRegion::Create of part of a region; an error leaves everything alone.
Create(parent, offset, size) ==
  /\ Step(<<"other">>)
  /\ CheckSafeAccess(parent, offset, size)
  /\ regions' = regions \cup {SubRegion(parent, offset, size)}
  /\ Cardinality(regions') <= MaxRegions
  /\ UNCHANGED <<store, restrictions, restricted, a5, halted>>

CreateRest(parent, offset) == Create(parent, offset, RestOfParent(parent, offset))

\* MemoryRegion::WriteRaw through any region.
RegionWrite(r, offset, vs) ==
  /\ Step(<<"other">>)
  /\ store' = IF CheckSafeAccess(r, offset, Len(vs)) THEN WriteRaw(store, r, offset, vs) ELSE store
  /\ UNCHANGED <<regions, restrictions, restricted, a5, halted>>

\* SegmentLoader::Load tags the segment it has loaded.
Tag(start, end, tag) ==
  /\ Step(<<"other">>)
  /\ store' = [store EXCEPT !.tags = TagMemory(@, start, end, tag)]
  /\ UNCHANGED <<regions, restrictions, restricted, a5, halted>>

World(below) == (StackStart + below) % WordSize

TooLarge(above, world) == (above + world) % WordSize > LastEmulatedSubroutineAddress

\* An error of SetA5WorldBounds ends the process, with the sizes already set.
SetA5WorldBounds(above, below) ==
  /\ Step(<<"other">>)
  /\ a5 = [above |-> 0, below |-> 0, world |-> 0]
  /\ a5' = [above |-> above, below |-> below, world |-> World(below)]
  /\ halted' = TooLarge(above, World(below))
  /\ UNCHANGED <<store, regions, restrictions, restricted>>

OverlapsOrTouches(entry, new) ==  \* mutant: neighbours count
  Larger(entry.start, new.start) <= Smaller(entry.end, new.end)

Overlaps(entry, new) == Larger(entry.start, new.start) < Smaller(entry.end, new.end)

\* The first entry that overlaps goes, whole; others stay.
MaybeRemoveOverlappingEntry(entries, new) ==
  LET hits == {i \in DOMAIN entries : Overlaps(entries[i], new)}
  IN  IF hits = {} THEN entries
      ELSE RemoveAt(entries, CHOOSE i \in hits : \A j \in hits : i <= j)

\* RESTRICT_FIELD_ACCESS.
LogRegionAccess(record) ==
  /\ Step(<<"other">>)
  /\ restrictions' = Append(MaybeRemoveOverlappingEntry(restrictions, record), record)
  /\ restricted' = Append(restricted, record)
  /\ UNCHANGED <<store, regions, a5, halted>>

\* The copy of BlockMove, a byte at a time from the first.
CopyByte(s, source, dest, i) == WriteByte(s, dest + i, s.bytes[source + i])

CopyFromTheEnd(s, source, dest, count) ==  \* mutant: the last byte first
  FoldLeft(LAMBDA acc, i : CopyByte(acc, source, dest, count - i), s, [i \in 1..count |-> i])

CopyBytes(s, source, dest, count) ==
  FoldLeft(LAMBDA acc, i : CopyByte(acc, source, dest, i - 1), s, [i \in 1..count |-> i])

\* A byte outside memory ends the copy where it is, and the process.
BlockMove(source, dest, count) ==
  /\ Step(<<"BlockMove", source, dest, count>>)
  /\ LET inside == {n \in 0..count : n = 0 \/ (InMemory(source, n) /\ InMemory(dest, n))}
         copied == CHOOSE n \in inside : \A m \in inside : m <= n
     IN  /\ store' = CopyBytes(store, source, dest, copied)
         /\ halted' = (copied < count)
  /\ UNCHANGED <<regions, restrictions, restricted, a5>>

MapNext ==
  \/ \E a \in Addresses, vs \in Payloads : CpuRead(a, vs) \/ CpuWrite(a, vs)
  \/ \E r \in regions \cup {Base}, c \in Cuts : Create(r, c[1], c[2]) \/ CreateRest(r, c[1])
  \/ \E r \in regions, c \in Cuts, vs \in Payloads : RegionWrite(r, c[1], vs)
  \/ \E c \in Chunks, tag \in Tags \ {"Stack"} : Tag(c[1], c[2], tag)
  \/ \E above, below \in A5Sizes : SetA5WorldBounds(above, below)
  \/ \E record \in Records : LogRegionAccess(record)
  \/ \E source, dest \in Blocks, n \in 2..3 : BlockMove(source, dest, n)

-----------------------------------------------------------------------------
\* Every component of the state has the shape the code gives it.
MemoryMapTypeOK ==
  /\ store.bytes \in [0..Size-1 -> Values]
  /\ store.tags \subseteq Spans
  /\ store.initialized \subseteq Nat
  /\ store.log \in Seq(Nat \X Nat)
  /\ regions \subseteq MemoryRegions
  /\ \A i \in DOMAIN restrictions : restrictions[i] \in Records
  /\ a5 \in [above : 0..WordSize-1, below : 0..WordSize-1, world : 0..WordSize-1]
  /\ halted \in BOOLEAN
  /\ steps \in 0..MaxSteps

Counters == {s \in store.tags : s.tag = Untagged}
Covered(s) == s.start .. s.end - 1
LoggedBytes == UNION {store.log[i][1] .. store.log[i][2] - 1 : i \in DOMAIN store.log}

\* What the watcher reports is what was written, whatever region it was
\* written through: the bytes marked initialized and the bytes covered by the
\* DebugManager's counters are those the writes landed on, and no two counters
\* overlap or touch (RecordWrite merges while its new span grows).
WritesAreRecorded ==
  /\ store.initialized = LoggedBytes
  /\ UNION {Covered(s) : s \in Counters} = LoggedBytes
  /\ \A s, t \in Counters : s # t => s.end < t.start \/ t.end < s.start

\* The counter of a merged span adds up: it has counted one for every write
\* that landed inside it, but the first.
WriteCountsAddUp ==
  \A s \in Counters :
    s.writes + 1 =
      Cardinality({i \in DOMAIN store.log : store.log[i][1] >= s.start /\ store.log[i][2] <= s.end})

\* The watcher accounts for every write, where it landed and how often.
WritesAreAccounted == WritesAreRecorded /\ WriteCountsAddUp

Laminar(spans) ==
  \A s, t \in spans :
    \/ s.end <= t.start \/ t.end <= s.start
    \/ s.start <= t.start /\ t.end <= s.end
    \/ t.start <= s.start /\ s.end <= t.end

\* The map the debugger prints shows nesting: while no two spans cross, a span
\* is indented under exactly the spans that enclose it.  It needs the order of
\* MemorySpan::operator< (outer spans first) as much as the stack.
MapShowsNesting ==
  Laminar(store.tags) =>
    \A i \in 1..Cardinality(store.tags) :
      LET spans == Sorted(store.tags)
      IN  PrintMemoryMap(store.tags)[i] =
            Cardinality({j \in 1..i-1 : spans[j].end > spans[i].start})

Bytes(record) == record.start .. record.end - 1

\* Restricting one record never frees another: every restriction that no later
\* one overlaps is in force, and none is but those that were asked for.
RestrictionsInForce ==
  /\ \A i \in DOMAIN restricted :
       (\A j \in i+1 .. Len(restricted) : Bytes(restricted[i]) \cap Bytes(restricted[j]) = {})
         => \E k \in DOMAIN restrictions : restrictions[k] = restricted[i]
  /\ \A k \in DOMAIN restrictions : \E i \in DOMAIN restricted : restrictions[k] = restricted[i]

\* A region never leaves the base region, however deep it is nested and however
\* large it is said to be: whatever CheckSafeAccess lets through lies within
\* memory, is reported where it happens, and the hex dump shows every byte of
\* the region and no byte outside memory.
RegionsStayInside ==
  \A r \in regions \cup {Base} :
    /\ \A offset \in 0..Size, length \in 1..Size :
         CheckSafeAccess(r, offset, length) =>
           /\ Touched(r, offset, length) \subseteq 0..Size-1
           /\ ReportedStart(r, offset) = r.data + offset
    /\ r.data .. (r.data + r.size) - 1 \subseteq Dumped(r)
    /\ Dumped(r) \subseteq 0..Size-1

\* An A5 world that is accepted lies between the stack and the addresses of the
\* native routines, unless its size wraps a 32-bit sum.
A5WorldFits ==
  ~halted /\ a5.world # 0 /\ a5.world + a5.above < WordSize =>
    a5.world + a5.above <= LastEmulatedSubroutineAddress

\* Nothing reaches out of what was laid out for it: a region out of memory, the
\* A5 world out of its place, a variable out of its type.
NothingLeavesItsPlace == MemoryMapTypeOK /\ RegionsStayInside /\ A5WorldFits

\* BlockMove copies forwards: the destination gets the source, except that a
\* block moved up over itself repeats the bytes between the two addresses.
\* Nothing else in memory changes.
BlockMoveCopies ==
  [][last'[1] = "BlockMove" /\ ~halted' =>
       LET source == last'[2]
           dest   == last'[3]
           n      == last'[4]
       IN  \A a \in 0..Size-1 :
             store'.bytes[a] =
               IF a < dest \/ a >= dest + n THEN store.bytes[a]
               ELSE IF dest <= source THEN store.bytes[source + (a - dest)]
               ELSE store.bytes[source + ((a - dest) % (dest - source))]]_mapVars
=============================================================================
