---------------------------- MODULE MemoryRegion ----------------------------
(***************************************************************************)
(* core::MemoryRegion: a view of the emulated memory.  A region is made    *)
(* from another one, offsets are relative to it, and its size is only a    *)
(* preference: accesses past it are logged, accesses past the base region  *)
(* are refused.  `data' is where data_ points, counted from the first byte *)
(* of the base region; `base' is base_offset_, which the watcher and the   *)
(* hex dump go by.  size_t has 64 bits and every operand at most 32, so no *)
(* sum wraps.                                                              *)
(***************************************************************************)
EXTENDS Naturals

CONSTANTS Size,       \* kSystemMemorySize, bytes of the base region
          LineWidth   \* bytes_per_line of the hex dump

ASSUME SizeAssumption ==
  /\ Size \in Nat /\ LineWidth \in Nat \ {0}
  /\ Size % LineWidth = 0

MemoryRegions == [data : Nat, size : Nat, maximum : Nat, base : Nat]

Base == [data |-> 0, size |-> Size, maximum |-> Size, base |-> 0]

CheckSafeAccess(r, offset, size) == ~(r.maximum < offset + size)

SubRegionOfWholeSize(r, offset, size) ==  \* mutant: the parent's maximum size
  [data |-> r.data + offset, size |-> size, maximum |-> r.maximum, base |-> r.base + offset]

\* The region Create makes when CheckSafeAccess lets it.
SubRegion(r, offset, size) ==
  [data    |-> r.data + offset,
   size    |-> size,
   maximum |-> r.maximum - offset,
   base    |-> r.base + offset]

\* The size of the overloads of Create that take none: the rest of the parent.
RestOfParent(r, offset) == IF r.size > offset THEN r.size - offset ELSE 0

\* The bytes ReadRaw and WriteRaw touch, and those they report to the watcher.
Touched(r, offset, length) == r.data + offset .. (r.data + offset + length) - 1

ReportedStart(r, offset) == r.base + offset

-----------------------------------------------------------------------------
\* operator<<: the bytes of memory it shows, line by line.
FirstIndex(r) == (r.base \div LineWidth) * LineWidth

TotalFromStart(r) == r.base - FirstIndex(r) + r.size

LineCount(r) ==
  TotalFromStart(r) \div LineWidth + (IF TotalFromStart(r) % LineWidth # 0 THEN 1 ELSE 0)

Dumped(r) ==
  {r.data + (i - r.base) :
     i \in {i \in FirstIndex(r) .. (FirstIndex(r) + LineCount(r) * LineWidth) - 1 :
              i >= r.base /\ i <= FirstIndex(r) + TotalFromStart(r)}}
=============================================================================
