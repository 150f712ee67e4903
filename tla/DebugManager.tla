---------------------------- MODULE DebugManager ----------------------------
(***************************************************************************)
(* The DebugManager's record of the memory: spans [start, end) that carry  *)
(* a tag, or count writes and have none.  memory_tags_ is sorted after     *)
(* every change and holds no span twice, so it is the set of its spans,    *)
(* and Sorted gives the vector back.                                       *)
(***************************************************************************)
EXTENDS Integers, FiniteSets, Sequences, SequencesExt

CONSTANTS Tags,       \* the tags of named spans
          TagOrder    \* <<t, u>> when tag t sorts before tag u

Untagged == "untagged"   \* the empty string, which sorts before every tag

\* Strings are compared lexicographically.
ASSUME TagsAssumption ==
  /\ Untagged \notin Tags /\ TagOrder \subseteq Tags \X Tags
  /\ \A t \in Tags : <<t, t>> \notin TagOrder
  /\ \A t, u \in Tags : t # u => <<t, u>> \in TagOrder \/ <<u, t>> \in TagOrder
  /\ \A t, u, v \in Tags : <<t, u>> \in TagOrder /\ <<u, v>> \in TagOrder => <<t, v>> \in TagOrder

Spans == [start : Nat, end : Nat, tag : Tags \cup {Untagged}, writes : Nat]

Smaller(a, b) == IF a < b THEN a ELSE b
Larger(a, b)  == IF a < b THEN b ELSE a

InnerBefore(s, t) ==  \* mutant: ends in ascending order
  \/ s.start < t.start
  \/ s.start = t.start /\ s.end < t.end
  \/ s.start = t.start /\ s.end = t.end /\ s.tag # t.tag /\ s.tag = Untagged
  \/ s.start = t.start /\ s.end = t.end /\ <<s.tag, t.tag>> \in TagOrder

\* MemorySpan::operator<: outer spans come before those that start with them.
SpanBefore(s, t) ==
  \/ s.start < t.start
  \/ s.start = t.start /\ s.end > t.end
  \/ /\ s.start = t.start /\ s.end = t.end
     /\ s.tag # t.tag
     /\ s.tag = Untagged \/ <<s.tag, t.tag>> \in TagOrder

Sorted(spans) ==
  [i \in 1..Cardinality(spans) |->
     CHOOSE s \in spans : Cardinality({t \in spans : SpanBefore(t, s)}) = i - 1]

MergeForgets(acc, s) ==  \* mutant: the merged span itself is not counted
  LET new == acc.new
  IN  IF s.tag # Untagged \/ s.end < new.start \/ s.start > new.end
        THEN [acc EXCEPT !.kept = @ \cup {s}]
        ELSE [acc EXCEPT !.new = [start  |-> Smaller(new.start, s.start),
                                  end    |-> Larger(new.end, s.end),
                                  tag    |-> Untagged,
                                  writes |-> new.writes + s.writes]]

\* A span met by RecordWrite: one that touches the new span joins it.
Merge(acc, s) ==
  LET new == acc.new
  IN  IF s.tag # Untagged \/ s.end < new.start \/ s.start > new.end
        THEN [acc EXCEPT !.kept = @ \cup {s}]
        ELSE [acc EXCEPT !.new = [start  |-> Smaller(new.start, s.start),
                                  end    |-> Larger(new.end, s.end),
                                  tag    |-> Untagged,
                                  writes |-> new.writes + s.writes + 1]]

RecordWrite(spans, start, end) ==
  LET first == [start |-> start, end |-> end, tag |-> Untagged, writes |-> 0]
      acc   == FoldLeft(Merge, [new |-> first, kept |-> {}], Sorted(spans))
  IN  acc.kept \cup {acc.new}

TagMemory(spans, start, end, tag) ==
  IF \E s \in spans : s.start = start /\ s.end = end /\ s.tag = tag
    THEN spans
    ELSE spans \cup {[start |-> start, end |-> end, tag |-> tag, writes |-> 0]}

\* PrintMemoryMap: the stack of open spans after the first n spans; a span is
\* indented by the number of spans that are open when it is printed.
PopClosed(depth, s) ==
  LET open == {k \in 1..Len(depth) : s.start < depth[k].end}
  IN  SubSeq(depth, 1, IF open = {} THEN 0 ELSE CHOOSE k \in open : \A j \in open : j <= k)

Printed(acc, s) ==
  LET depth == PopClosed(acc.depth, s)
  IN  [depth |-> Append(depth, s), indents |-> Append(acc.indents, Len(depth))]

PrintMemoryMap(spans) ==
  FoldLeft(Printed, [depth |-> <<>>, indents |-> <<>>], Sorted(spans)).indents
=============================================================================
