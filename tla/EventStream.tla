---------------------------- MODULE EventStream ----------------------------
(***************************************************************************)
(* What the event queue promises its callers, without lists, locks or       *)
(* condition variable: a set of pending events, each in one of three        *)
(* classes.  A caller that gives a mask is handed the first pending event   *)
(* the mask admits, by class and then by age, and is told "nothing" only    *)
(* when no pending event is admitted or the stream is closed.  An event     *)
(* leaves the stream only by being handed out.                              *)
(***************************************************************************)
EXTENDS Naturals

CONSTANTS
  Masks,       (* the masks a caller may pass                               *)
  Event,       (* the events that can be posted: [what, arg, when]          *)
  NoEvent      (* what a caller is told when there is nothing for it        *)

VARIABLES pending, reply, closed
vars == <<pending, reply, closed>>

Rank == [activate |-> 1, input |-> 2, update |-> 3]
Pending == [class : DOMAIN Rank, event : Event]

Admits(mask, p) ==
  CASE p.class = "activate" -> 8 \in mask
    [] p.class = "update" -> 6 \in mask
    [] p.class = "input" -> p.event.what \in mask /\ mask \cap 1..4 # {}

Before(p, q) ==
  \/ Rank[p.class] < Rank[q.class]
  \/ p.class = q.class /\ p.event.when < q.event.when

Init == pending = {} /\ reply = NoEvent /\ closed = FALSE

Post == /\ \E p \in Pending :
             /\ \A q \in pending : q.event.when < p.event.when
             /\ pending' = pending \cup {p}
        /\ UNCHANGED <<reply, closed>>

Take(mask) ==
  /\ \E p \in pending :
       /\ Admits(mask, p)
       /\ \A q \in pending \ {p} : Admits(mask, q) => Before(p, q)
       /\ pending' = pending \ {p}
       /\ reply' = p.event
  /\ UNCHANGED closed

FindNothing(mask) ==
  /\ closed \/ \A p \in pending : ~Admits(mask, p)
  /\ reply' = NoEvent
  /\ UNCHANGED <<pending, closed>>

Close == closed' = TRUE /\ UNCHANGED <<pending, reply>>

Next == \/ Post \/ Close
        \/ \E mask \in Masks : Take(mask) \/ FindNothing(mask)

Spec == Init /\ [][Next]_vars
=============================================================================
