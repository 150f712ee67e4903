---------------------------- MODULE CyderProofs ----------------------------
(***************************************************************************)
(* The event queue, for any masks, windows, places, raw event numbers and   *)
(* number of events: its types, that no wakeup is lost, and that it is an   *)
(* EventStream.                                                             *)
(*                                                                          *)
(* Then two facts about the threads of Cyder, for any number of buttons,    *)
(* clicks and events, any windows, any modal loops, with the debugger or    *)
(* without.                                                                 *)
(*                                                                          *)
(*   - Whatever masks the application passes, the threads use the event     *)
(*     queue as EventManager supposes.  Cyder's steps are therefore steps   *)
(*     of EventManager, and what is proved of those holds of Cyder too.     *)
(*   - If the application takes presses and releases alike, what it tracks  *)
(*     ends with a younger release, and with the press's own if no other    *)
(*     button was down with it.  The queue's lists are looked at as the     *)
(*     story of one mouse: what was pressed and released, in what order,    *)
(*     and which release is left for which press.                           *)
(***************************************************************************)
EXTENDS Cyder, SequenceTheorems, WellFoundedInduction, TLAPS

(* No update or activate event can be waiting for a thread that is inside   *)
(* WaitNextEvent: only that thread queues them, and its first probe found   *)
(* none.  This is why the predicate may stop at the input events.           *)
WaiterSawWindowEvents ==
  call # "none" => /\ ~mouse_move_enabled
                   /\ ~ActivateEnabled(call_mask)
                   /\ ~UpdateEnabled(call_mask)

NotifiedOnlyBlocked == notified => call = "blocked"

IInv ==
  /\ TypeOK
  /\ NotifiedOnlyBlocked
  /\ WaiterSawWindowEvents
  /\ NoLostWakeup
  /\ RetryFindsEvent
-----------------------------------------------------------------------------
(* a non-empty set of naturals has a least element, which Min returns       *)
LEMMA MinInSet ==
  ASSUME NEW S, S \subseteq Nat, S # {}
  PROVE  Min(S) \in S /\ \A y \in S : Min(S) <= y
  <1> DEFINE R == {ss \in Nat \X Nat : ss[1] < ss[2]}
  <1>1. R = OpToRel(<, Nat)
    BY Zenon DEF OpToRel
  <1>2. IsWellFoundedOn(R, Nat)
    BY <1>1, NatLessThanWellFounded
  <1>3. PICK x \in S : \A y \in S : ~(<<y, x>> \in R)
    BY <1>2, WFMin
  <1>4. \A y, z \in Nat : y < z => <<y, z>> \in R
    OBVIOUS
  <1> HIDE DEF R
  <1>5. ASSUME NEW y \in S PROVE x <= y
    <2>1. x \in Nat /\ y \in Nat
      OBVIOUS
    <2>2. ~(y < x)
      BY <1>3, <1>4, <2>1, Zenon
    <2> QED BY <2>1, <2>2
  <1> QED BY <1>5 DEF Min

(* FirstIn finds a position whose event the mask has, whenever there is one *)
LEMMA FirstInFinds ==
  ASSUME NEW q \in Seq(Event), NEW mask
  PROVE  /\ FirstIn(q, mask) # 0 <=> \E i \in 1..Len(q) : q[i].what \in mask
         /\ FirstIn(q, mask) # 0 => /\ FirstIn(q, mask) \in 1..Len(q)
                                    /\ q[FirstIn(q, mask)].what \in mask
  <1> DEFINE I == {i \in 1..Len(q) : q[i].what \in mask}
  <1>1. FirstIn(q, mask) = IF I # {} THEN Min(I) ELSE 0
    BY DEF FirstIn, SelectInSeq
  <1>2. I # {} => Min(I) \in I
    BY MinInSet
  <1> HIDE DEF I
  <1>3. FirstIn(q, mask) # 0 <=> I # {}
    BY <1>1, <1>2 DEF I
  <1>4. FirstIn(q, mask) # 0 => FirstIn(q, mask) \in I
    BY <1>1, <1>2
  <1> QED BY <1>3, <1>4 DEF I

(* appending an event hides none of those already in the list               *)
LEMMA FirstInAppend ==
  ASSUME NEW q \in Seq(Event), NEW e \in Event, NEW mask,
         FirstIn(q, mask) # 0
  PROVE  FirstIn(Append(q, e), mask) # 0
  <1>1. Append(q, e) \in Seq(Event) /\ Len(Append(q, e)) = Len(q) + 1
    OBVIOUS
  <1>2. PICK i \in 1..Len(q) : q[i].what \in mask
    BY FirstInFinds
  <1>3. i \in 1..Len(Append(q, e)) /\ Append(q, e)[i] = q[i]
    OBVIOUS
  <1> QED BY <1>1, <1>2, <1>3, FirstInFinds

LEMMA RemoveAtType ==
  ASSUME NEW S, NEW q \in Seq(S), NEW i \in 1..Len(q)
  PROVE  RemoveAt(q, i) \in Seq(S)
  <1>1. SubSeq(q, 1, i - 1) \in Seq(S) /\ SubSeq(q, i + 1, Len(q)) \in Seq(S)
    OBVIOUS
  <1> QED BY <1>1 DEF RemoveAt
(* FirstIn finds the first                                                  *)
LEMMA FirstInIsFirst ==
  ASSUME NEW q \in Seq(Event), NEW mask, FirstIn(q, mask) # 0,
         NEW j \in 1..Len(q), q[j].what \in mask
  PROVE  FirstIn(q, mask) <= j
  <1> DEFINE I == {i \in 1..Len(q) : q[i].what \in mask}
  <1>1. FirstIn(q, mask) = IF I # {} THEN Min(I) ELSE 0
    BY DEF FirstIn, SelectInSeq
  <1>2. j \in I /\ I \subseteq Nat
    OBVIOUS
  <1> HIDE DEF I
  <1> QED
    BY <1>1, <1>2, MinInSet

(* t is q without its i-th event                                            *)
Without(q, i, t) ==
  /\ Len(t) = Len(q) - 1
  /\ \A j \in 1..Len(t) : t[j] = IF j < i THEN q[j] ELSE q[j + 1]

(* which is what RemoveAt makes of it                                       *)
LEMMA RemoveAtIsWithout ==
  ASSUME NEW q \in Seq(Event), NEW i \in 1..Len(q)
  PROVE  RemoveAt(q, i) \in Seq(Event) /\ Without(q, i, RemoveAt(q, i))
<1>1. PICK n \in Nat : n = Len(q) /\ i \in 1..n
  BY LenProperties
<1>2. PICK s \in Seq(Event) : /\ s = SubSeq(q, 1, i - 1) /\ Len(s) = i - 1
                             /\ \A j \in 1 .. i - 1 : s[j] = q[j]
  <2>1. \A j \in 1 .. i - 1 : q[j] \in Event
    BY <1>1, ElementOfSeq
  <2>2. /\ SubSeq(q, 1, i - 1) \in Seq(Event)
        /\ Len(SubSeq(q, 1, i - 1)) = IF 1 <= i - 1 THEN i - 1 - 1 + 1 ELSE 0
        /\ \A j \in 1 .. i - 1 - 1 + 1 : SubSeq(q, 1, i - 1)[j] = q[1 + j - 1]
    BY <1>1, <2>1, SubSeqProperties
  <2>3. (IF 1 <= i - 1 THEN i - 1 - 1 + 1 ELSE 0) = i - 1 /\ i - 1 - 1 + 1 = i - 1
    BY <1>1
  <2>4. \A j \in 1 .. i - 1 : 1 + j - 1 = j
    OBVIOUS
  <2> QED
    BY <2>2, <2>3, <2>4
<1>3. PICK u \in Seq(Event) : /\ u = SubSeq(q, i + 1, n) /\ Len(u) = n - i
                             /\ \A j \in 1 .. n - i : u[j] = q[i + j]
  <2>1. \A j \in i + 1 .. n : q[j] \in Event
    BY <1>1, ElementOfSeq
  <2>2. /\ SubSeq(q, i + 1, n) \in Seq(Event)
        /\ Len(SubSeq(q, i + 1, n)) = IF i + 1 <= n THEN n - (i + 1) + 1 ELSE 0
        /\ \A j \in 1 .. n - (i + 1) + 1 : SubSeq(q, i + 1, n)[j] = q[i + 1 + j - 1]
    BY <1>1, <2>1, SubSeqProperties
  <2>3. /\ (IF i + 1 <= n THEN n - (i + 1) + 1 ELSE 0) = n - i
        /\ n - (i + 1) + 1 = n - i
    BY <1>1
  <2>4. PICK v \in Seq(Event) : v = SubSeq(q, i + 1, n)
    BY <2>2
  <2>5. Len(v) = n - i
    BY <2>2, <2>3, <2>4
  <2>6. ASSUME NEW j \in 1 .. n - i
        PROVE  v[j] = q[i + j]
    <3>1. v[j] = q[i + 1 + j - 1]
      BY <2>2, <2>3, <2>4
    <3>2. i + 1 + j - 1 = i + j
      BY <1>1
    <3> QED
      BY <3>1, <3>2
  <2> QED
    BY <2>4, <2>5, <2>6
<1>4. PICK t \in Seq(Event) : t = s \o u
  BY ConcatProperties
<1>5. t = RemoveAt(q, i)
  BY <1>1, <1>2, <1>3, <1>4 DEF RemoveAt
<1>7. /\ Len(t) = (i - 1) + (n - i)
      /\ \A j \in 1 .. (i - 1) + (n - i) : t[j] = IF j <= i - 1 THEN s[j] ELSE u[j - (i - 1)]
  <2>1. /\ Len(t) = Len(s) + Len(u)
        /\ \A j \in 1 .. Len(s) + Len(u) : t[j] = IF j <= Len(s) THEN s[j] ELSE u[j - Len(s)]
    BY <1>4, ConcatProperties
  <2> QED
    BY <1>2, <1>3, <2>1
<1>8. Len(t) = n - 1
  BY <1>1, <1>7
<1>9. ASSUME NEW j \in 1 .. n - 1
      PROVE  t[j] = IF j < i THEN q[j] ELSE q[j + 1]
  <2>1. t[j] = IF j <= i - 1 THEN s[j] ELSE u[j - (i - 1)]
    BY <1>1, <1>7
  <2>2. CASE j < i
    BY <1>1, <1>2, <2>1, <2>2
  <2>3. CASE ~(j < i)
    <3>1. PICK k \in 1 .. n - i : k = j - (i - 1) /\ i + k = j + 1
      BY <1>1, <2>3
    <3> QED
      <4>1. u[k] = q[j + 1]
        BY <1>3, <3>1
      <4>2. ~(j <= i - 1)
        BY <1>1, <2>3
      <4> QED
        BY <2>1, <2>3, <3>1, <4>1, <4>2
  <2> QED
    BY <2>2, <2>3
<1> QED
  BY <1>1, <1>5, <1>8, <1>9 DEF Without
-----------------------------------------------------------------------------
(* What a probe of the queue keeps, and that it answers null only when no   *)
(* event is enabled: no event in the lists is itself a null event.          *)
LEMMA ProbeAnswer ==
  ASSUME TypeOK, NEW mask, Probe(mask)
  PROVE  /\ activate_events' \in Seq(Event)
         /\ input_events' \in Seq(Event)
         /\ update_events' \in Seq(Event)
         /\ reply' \in Event \cup {NoEvent}
         /\ reply'.what = NullEvent => ~HasEvent(mask) /\ UNCHANGED queues
  <1>1. \A e \in Event : e.what # NullEvent
    BY EventAssumption DEF Event, Types, NullEvent, MouseDown, MouseUp,
         KeyDown, KeyUp, WindowUpdate, WindowActivate, MouseMove
  <1>2. CASE TakeActivate(mask)
    <2>1. reply' \in Event
      BY <1>2 DEF TakeActivate, ActivateEnabled, TypeOK
    <2> QED BY <1>1, <1>2, <2>1 DEF TakeActivate, ActivateEnabled, TypeOK
  <1>3. CASE TakeInput(mask)
    <2>1. FirstIn(input_events, mask) \in 1..Len(input_events)
      BY <1>3, FirstInFinds DEF TakeInput, InputEnabled, TypeOK
    <2>2. reply' \in Event
      BY <1>3, <2>1 DEF TakeInput, TypeOK
    <2>3. input_events' \in Seq(Event)
      BY <1>3, <2>1, RemoveAtType DEF TakeInput, TypeOK
    <2> QED BY <1>1, <1>3, <2>2, <2>3 DEF TakeInput, TypeOK
  <1>4. CASE TakeUpdate(mask)
    <2>1. reply' \in Event
      BY <1>4 DEF TakeUpdate, UpdateEnabled, TypeOK
    <2> QED BY <1>1, <1>4, <2>1 DEF TakeUpdate, UpdateEnabled, TypeOK
  <1>5. CASE TakeNothing(mask)
    BY <1>5 DEF TakeNothing, TypeOK, queues
  <1> QED BY <1>2, <1>3, <1>4, <1>5 DEF Probe

(* Queueing an input event hides none that a sleeping or woken caller could *)
(* have.                                                                    *)
LEMMA QueueingKeepsEvents ==
  ASSUME TypeOK, NEW e \in Event, HasEvent(call_mask),
         input_events' = Append(input_events, e),
         UNCHANGED <<activate_events, update_events, call_mask>>
  PROVE  HasEvent(call_mask)'
  <1>1. CASE ActivateEnabled(call_mask) \/ UpdateEnabled(call_mask)
    BY <1>1 DEF HasEvent, ActivateEnabled, UpdateEnabled
  <1>2. CASE InputEnabled(call_mask)
    <2>1. FirstIn(input_events', call_mask') # 0
      BY <1>2, FirstInAppend DEF InputEnabled, TypeOK
    <2>2. input_events' # <<>>
      BY DEF TypeOK
    <2> QED BY <1>2, <2>1, <2>2 DEF HasEvent, InputEnabled, InputSearched
  <1> QED BY <1>1, <1>2 DEF HasEvent

(* an event stamped now is an event                                         *)
LEMMA NewEventType ==
  ASSUME TypeOK, Stamp, NEW type \in Types, NEW arg \in Args
  PROVE  NewEvent(type, arg) \in Event /\ clock' \in 0..MaxEvents
  BY EventAssumption DEF TypeOK, Stamp, NewEvent, Event

LEMMA InitIInv == EventManagerInit => IInv
  <1> SUFFICES ASSUME EventManagerInit PROVE IInv
    OBVIOUS
  <1>1. TypeOK
    <2>1. /\ mouse_move_enabled \in BOOLEAN /\ is_shutting_down \in BOOLEAN
          /\ notified \in BOOLEAN /\ reply \in Event \cup {NoEvent}
          /\ call \in {"none", "locking", "blocked", "retrying"}
          /\ call_mask \in Masks \cup {{}}
      BY DEF EventManagerInit
    <2>2. clock \in 0..MaxEvents
      BY EventAssumption DEF EventManagerInit
    <2>3. /\ activate_events \in Seq(Event) /\ input_events \in Seq(Event)
          /\ update_events \in Seq(Event)
      BY DEF EventManagerInit
    <2> QED BY <2>1, <2>2, <2>3 DEF TypeOK
  <1>2. NotifiedOnlyBlocked /\ WaiterSawWindowEvents
    BY DEF EventManagerInit, NotifiedOnlyBlocked, WaiterSawWindowEvents
  <1>3. NoLostWakeup /\ RetryFindsEvent
    BY DEF EventManagerInit, NoLostWakeup, RetryFindsEvent
  <1> QED BY <1>1, <1>2, <1>3 DEF IInv
-----------------------------------------------------------------------------
(* The UI thread's steps keep the invariant.                                *)
LEMMA QueueInputKeeps ==
  ASSUME IInv, NEW type \in Types, NEW arg \in Args, QueueInput(type, arg)
  PROVE  IInv'
  <1> USE DEF IInv
  <1> DEFINE e == NewEvent(type, arg)
  <1>1. e \in Event /\ clock' \in 0..MaxEvents
    BY NewEventType DEF QueueInput
  <1> HIDE DEF e
  <1>2. /\ input_events' = Append(input_events, e)
        /\ UNCHANGED <<activate_events, update_events, mouse_move_enabled,
                       is_shutting_down, reply, call, call_mask>>
        /\ notified' = (call = "blocked")
    BY DEF QueueInput, NotifyAll, flags, e
  <1>3. TypeOK'
    BY <1>1, <1>2 DEF TypeOK
  <1>4. NotifiedOnlyBlocked' /\ WaiterSawWindowEvents' /\ NoLostWakeup'
    BY <1>2 DEF NotifiedOnlyBlocked, WaiterSawWindowEvents, NoLostWakeup,
         ActivateEnabled, UpdateEnabled
  <1>5. RetryFindsEvent'
    BY <1>1, <1>2, QueueingKeepsEvents DEF RetryFindsEvent
  <1> QED BY <1>3, <1>4, <1>5

(* mouse moves are queued only while no call of WaitNextEvent is open       *)
LEMMA OnMouseMoveKeeps ==
  ASSUME IInv, NEW p \in Places, OnMouseMove(p)
  PROVE  IInv'
  <1> USE DEF IInv
  <1> DEFINE e == NewEvent(MouseMove, p)
  <1>1. e \in Event /\ clock' \in 0..MaxEvents
    BY NewEventType DEF OnMouseMove, Types, Args
  <1> HIDE DEF e
  <1>2. /\ input_events' = IF mouse_move_enabled THEN Append(input_events, e)
                           ELSE input_events
        /\ UNCHANGED <<activate_events, update_events, mouse_move_enabled,
                       is_shutting_down, reply, call, call_mask, notified>>
    BY DEF OnMouseMove, flags, waiting, e
  <1>3. TypeOK'
    BY <1>1, <1>2 DEF TypeOK
  <1>4. CASE call = "none"
    BY <1>2, <1>3, <1>4 DEF NotifiedOnlyBlocked, WaiterSawWindowEvents,
         NoLostWakeup, RetryFindsEvent
  <1>5. CASE call # "none"
    <2>1. input_events' = input_events
      BY <1>2, <1>5 DEF WaiterSawWindowEvents
    <2> QED BY <1>2, <1>3, <2>1 DEF NotifiedOnlyBlocked, NoLostWakeup,
              WaiterSawWindowEvents, RetryFindsEvent, HasEvent,
              ActivateEnabled, UpdateEnabled, InputEnabled, InputSearched
  <1> QED BY <1>4, <1>5

LEMMA ShutdownKeeps ==
  ASSUME IInv, Shutdown
  PROVE  IInv'
  BY DEF IInv, Shutdown, NotifyAll, queues, TypeOK, NotifiedOnlyBlocked,
       WaiterSawWindowEvents, NoLostWakeup, RetryFindsEvent, ActivateEnabled,
       UpdateEnabled

LEMMA UIThreadKeeps ==
  ASSUME IInv, UIThread
  PROVE  IInv'
  <1>1. {MouseDown, MouseUp, KeyDown} \subseteq Types
    BY DEF Types
  <1>2. Places \cup {Nothing} \subseteq Args
    BY DEF Args
  <1>3. CASE \E p \in Places : QueueMouseDown(p) \/ QueueMouseUp(p)
    BY <1>1, <1>2, <1>3, QueueInputKeeps DEF QueueMouseDown, QueueMouseUp
  <1>4. CASE \E p \in Places : OnMouseMove(p)
    BY <1>4, OnMouseMoveKeeps
  <1>5. CASE QueueKeyDown
    BY <1>1, <1>2, <1>5, QueueInputKeeps DEF QueueKeyDown
  <1>6. CASE Shutdown
    BY <1>6, ShutdownKeeps
  <1> QED BY <1>3, <1>4, <1>5, <1>6 DEF UIThread
-----------------------------------------------------------------------------
(* The emulator thread's steps outside WaitNextEvent, and its entry.  Only  *)
(* the type of the state and the state of the call matter to the invariant  *)
(* there: while call = "none" the rest of it says nothing.                  *)
LEMMA OutsideKeeps ==
  ASSUME TypeOK', IInv, call' = "none", notified' = FALSE
  PROVE  IInv'
  BY DEF IInv, NotifiedOnlyBlocked, WaiterSawWindowEvents, NoLostWakeup,
       RetryFindsEvent

LEMMA OutsideIsUnnotified ==
  ASSUME IInv, call = "none"
  PROVE  notified = FALSE
  BY DEF IInv, TypeOK, NotifiedOnlyBlocked

LEMMA QueueOutsideKeeps ==
  ASSUME IInv, call = "none",
         \/ \E w \in Windows : QueueWindowActivate(w) \/ QueueWindowUpdate(w)
         \/ \E t \in RawTypes : QueueRawEvent(t)
  PROVE  IInv'
  <1> USE DEF IInv
  <1>1. /\ {WindowActivate, WindowUpdate} \cup RawTypes \subseteq Types
        /\ Windows \cup {Nothing} \subseteq Args
    BY DEF Types, Args
  <1>2. ASSUME NEW w \in Windows, QueueWindowActivate(w)
        PROVE  TypeOK' /\ call' = "none" /\ notified' = FALSE
    <2> DEFINE e == NewEvent(WindowActivate, w)
    <2>1. e \in Event /\ clock' \in 0..MaxEvents
      BY <1>1, <1>2, NewEventType DEF QueueWindowActivate
    <2>2. /\ activate_events' = Append(activate_events, e)
          /\ UNCHANGED <<input_events, update_events, mouse_move_enabled,
                         is_shutting_down, reply, call, call_mask>>
      BY <1>2 DEF QueueWindowActivate, NotifyAll, flags
    <2>3. notified' = FALSE /\ notified' \in BOOLEAN
      BY <1>2 DEF QueueWindowActivate, NotifyAll
    <2> HIDE DEF e
    <2>4. TypeOK'
      BY <2>1, <2>2, <2>3 DEF TypeOK
    <2> QED BY <2>2, <2>3, <2>4
  <1>3. ASSUME NEW w \in Windows, QueueWindowUpdate(w)
        PROVE  TypeOK' /\ call' = "none" /\ notified' = FALSE
    <2> DEFINE e == NewEvent(WindowUpdate, w)
    <2>1. e \in Event /\ clock' \in 0..MaxEvents
      BY <1>1, <1>3, NewEventType DEF QueueWindowUpdate
    <2>2. /\ update_events' = Append(update_events, e)
          /\ UNCHANGED <<activate_events, input_events, mouse_move_enabled,
                         is_shutting_down, reply, call, call_mask>>
      BY <1>3 DEF QueueWindowUpdate, NotifyAll, flags
    <2>3. notified' = FALSE /\ notified' \in BOOLEAN
      BY <1>3 DEF QueueWindowUpdate, NotifyAll
    <2> HIDE DEF e
    <2>4. TypeOK'
      BY <2>1, <2>2, <2>3 DEF TypeOK
    <2> QED BY <2>2, <2>3, <2>4
  <1>4. ASSUME NEW t \in RawTypes, QueueRawEvent(t)
        PROVE  TypeOK' /\ call' = "none" /\ notified' = FALSE
    <2> DEFINE e == NewEvent(t, Nothing)
    <2>1. e \in Event /\ clock' \in 0..MaxEvents
      BY <1>1, <1>4, NewEventType DEF QueueRawEvent
    <2>2. /\ activate_events' = Append(activate_events, e)
          /\ UNCHANGED <<input_events, update_events, mouse_move_enabled,
                         is_shutting_down, reply, call, call_mask>>
      BY <1>4 DEF QueueRawEvent, flags, waiting
    <2>3. notified' = FALSE /\ notified' \in BOOLEAN
      BY <1>4, OutsideIsUnnotified DEF QueueRawEvent, waiting
    <2> HIDE DEF e
    <2>4. TypeOK'
      BY <2>1, <2>2, <2>3 DEF TypeOK
    <2> QED BY <2>2, <2>3, <2>4
  <1> QED BY <1>2, <1>3, <1>4, OutsideKeeps

LEMMA GetNextEventKeeps ==
  ASSUME IInv, NEW m \in Masks, GetNextEvent(m)
  PROVE  IInv'
  <1>1. TypeOK'
    BY ProbeAnswer DEF IInv, GetNextEvent, Probe, TypeOK, flags, waiting
  <1> QED BY <1>1, OutsideKeeps, OutsideIsUnnotified DEF GetNextEvent, waiting

LEMMA MoveFlagKeeps ==
  ASSUME IInv, call = "none", EnableMouseMove \/ RejectMouseMove
  PROVE  IInv'
  <1>1. TypeOK'
    BY DEF IInv, EnableMouseMove, RejectMouseMove, TypeOK, queues, waiting
  <1> QED BY <1>1, OutsideKeeps, OutsideIsUnnotified
          DEF EnableMouseMove, RejectMouseMove, waiting

(* the first probe found nothing when the call goes on to wait              *)
LEMMA WaitNextEventKeeps ==
  ASSUME IInv, ~mouse_move_enabled, NEW m \in Masks, NEW timeout \in {0, 1},
         WaitNextEvent(m, timeout)
  PROVE  IInv'
  <1>1. /\ TypeOK /\ Probe(m) /\ call = "none" /\ notified = FALSE
    BY OutsideIsUnnotified DEF IInv, WaitNextEvent
  <1>2. CASE UNCHANGED waiting
    <2>1. TypeOK'
      BY <1>1, <1>2, ProbeAnswer DEF Probe, TypeOK, flags, waiting
    <2> QED BY <1>1, <1>2, <2>1, OutsideKeeps DEF waiting
  <1>3. CASE reply'.what = NullEvent /\ call' = "locking" /\ call_mask' = m
             /\ notified' = FALSE
    <2>1. ~HasEvent(m) /\ UNCHANGED <<queues, mouse_move_enabled>>
      BY <1>1, <1>3, ProbeAnswer DEF Probe, flags
    <2>2. TypeOK'
      BY <1>1, <1>3, ProbeAnswer DEF Probe, TypeOK, flags
    <2>3. WaiterSawWindowEvents'
      BY <1>3, <2>1 DEF WaiterSawWindowEvents, HasEvent, ActivateEnabled,
           UpdateEnabled, queues
    <2> QED BY <1>3, <2>2, <2>3 DEF IInv, NotifiedOnlyBlocked, NoLostWakeup,
              RetryFindsEvent
  <1> QED BY <1>2, <1>3 DEF WaitNextEvent
-----------------------------------------------------------------------------
(* The steps inside WaitNextEvent.                                          *)

(* the predicate decides between going back to sleep and the second probe   *)
LEMMA PredicateDecides ==
  ASSUME IInv, call \in {"locking", "blocked"},
         GoTo(IF HasEventPred(call_mask) THEN "retrying" ELSE "blocked"),
         UNCHANGED <<queues, flags, clock, reply>>
  PROVE  IInv'
  <1>1. /\ UNCHANGED <<activate_events, input_events, update_events,
                       mouse_move_enabled, is_shutting_down, clock, reply,
                       call_mask>>
        /\ notified' = FALSE
    BY DEF GoTo, queues, flags
  <1>2. TypeOK' /\ NotifiedOnlyBlocked' /\ WaiterSawWindowEvents'
    BY <1>1 DEF IInv, TypeOK, GoTo, NotifiedOnlyBlocked, ActivateEnabled,
         WaiterSawWindowEvents, UpdateEnabled
  <1>3. HasEventPred(call_mask) <=> HasEvent(call_mask) \/ is_shutting_down
    BY DEF IInv, WaiterSawWindowEvents, HasEventPred, HasEvent
  <1>4. HasEvent(call_mask)' <=> HasEvent(call_mask)
    BY <1>1 DEF HasEvent, ActivateEnabled, InputEnabled, InputSearched,
         UpdateEnabled
  <1>5. NoLostWakeup' /\ RetryFindsEvent'
    BY <1>1, <1>3, <1>4 DEF GoTo, NoLostWakeup, RetryFindsEvent
  <1> QED BY <1>2, <1>5 DEF IInv

LEMMA ReturnNullKeeps ==
  ASSUME IInv, ReturnNull
  PROVE  IInv'
  <1>1. TypeOK'
    BY DEF IInv, ReturnNull, Return, TypeOK, queues, flags
  <1> QED BY <1>1, OutsideKeeps DEF ReturnNull, Return

LEMMA RetryKeeps ==
  ASSUME IInv, Retry
  PROVE  IInv'
  <1>1. TypeOK'
    BY ProbeAnswer DEF IInv, Retry, Return, Probe, TypeOK, flags
  <1> QED BY <1>1, OutsideKeeps DEF Retry, Return

LEMMA StepKeepsIInv == IInv /\ [Next]_emVars => IInv'
  <1> SUFFICES ASSUME IInv, [Next]_emVars
               PROVE  IInv'
    OBVIOUS
  <1>1. CASE UIThread
    BY <1>1, UIThreadKeeps
  <1>2. CASE EmulatorCalls
    BY <1>2, QueueOutsideKeeps, GetNextEventKeeps, MoveFlagKeeps,
       WaitNextEventKeeps DEF EmulatorCalls
  <1>3. CASE StartWait
    BY <1>3, ReturnNullKeeps, PredicateDecides DEF StartWait
  <1>4. CASE Wake
    BY <1>4, PredicateDecides DEF Wake
  <1>5. CASE TimeOut
    BY <1>4, <1>5, ReturnNullKeeps, PredicateDecides DEF TimeOut, Wake
  <1>6. CASE Retry
    BY <1>6, RetryKeeps
  <1>7. CASE UNCHANGED emVars
    BY <1>7 DEF emVars, queues, flags, waiting, IInv, TypeOK,
         NotifiedOnlyBlocked, WaiterSawWindowEvents, NoLostWakeup,
         RetryFindsEvent, HasEvent, ActivateEnabled, InputEnabled,
         InputSearched, UpdateEnabled
  <1> QED BY <1>1, <1>2, <1>3, <1>4, <1>5, <1>6, <1>7 DEF Next, NotifiedWake
-----------------------------------------------------------------------------
(* Every reachable state of the event queue satisfies the inductive         *)
(* invariant.                                                               *)
THEOREM Invariance == Spec => []IInv
  <1>1. EventManagerInit => IInv
    BY InitIInv
  <1>2. IInv /\ [Next]_emVars => IInv'
    BY StepKeepsIInv
  <1> QED BY <1>1, <1>2, PTL DEF Spec

(* The lists always hold events, and the answer is an event or null.        *)
THEOREM TypeCorrectness == Spec => []TypeOK
  <1>1. IInv => TypeOK
    BY DEF IInv
  <1> QED BY <1>1, Invariance, PTL

(* QueueMouseDown, QueueMouseUp, QueueKeyDown and Shutdown always reach a   *)
(* sleeping WaitNextEvent, whatever the mask and the interleaving.          *)
THEOREM NoWakeupIsLost == Spec => []NoLostWakeup
  <1>1. IInv => NoLostWakeup
    BY DEF IInv
  <1> QED BY <1>1, Invariance, PTL

(* A WaitNextEvent that stops sleeping because of its predicate finds the   *)
(* event the predicate saw, or is shutting down.                            *)
THEOREM WakingFindsAnEvent == Spec => []RetryFindsEvent
  <1>1. IInv => RetryFindsEvent
    BY DEF IInv
  <1> QED BY <1>1, Invariance, PTL
-----------------------------------------------------------------------------
(* The queue implements EventStream: all of ImplementsStream, as            *)
(* EventStream promises no progress.  The lists need two facts for it that  *)
(* the abstract set has by definition: they are in order of age, and what   *)
(* is queued is younger than everything that was queued before, in          *)
(* whichever list.                                                          *)

Ordered(q, now) ==
  /\ \A i \in 1..Len(q) : q[i].when <= now
  /\ \A i, j \in 1..Len(q) : i < j => q[i].when < q[j].when

(* the mask of a call inside WaitNextEvent is the one it was passed         *)
CallsHaveMasks == call # "none" => call_mask \in Masks

StreamInv ==
  /\ IInv
  /\ Ordered(activate_events, clock)
  /\ Ordered(input_events, clock)
  /\ Ordered(update_events, clock)
  /\ CallsHaveMasks

Listed(class, e) == [class |-> class, event |-> e]
Classes == {"activate", "input", "update"}
-----------------------------------------------------------------------------
(* Lists and the sets they stand for                                        *)

LEMMA Members ==
  ASSUME NEW class, NEW q \in Seq(Event)
  PROVE  \A x : x \in InClass(class, q) <=> \E i \in 1..Len(q) : x = Listed(class, q[i])
<1>1. DOMAIN q = 1..Len(q)
  OBVIOUS
<1> QED
  BY <1>1 DEF InClass, Listed

LEMMA ListedFields ==
  \A class, e : Listed(class, e).class = class /\ Listed(class, e).event = e
BY DEF Listed

LEMMA EventWhen == \A e \in Event : e.when \in Nat
BY DEF Event

(* appending the youngest event                                             *)
Gains(class, q, e, now) ==
  /\ Ordered(Append(q, e), now)
  /\ InClass(class, Append(q, e)) = InClass(class, q) \cup {Listed(class, e)}

LEMMA AppendListed ==
  ASSUME NEW class, NEW q \in Seq(Event), NEW now \in Nat, Ordered(q, now),
         NEW e \in Event, e.when = now + 1
  PROVE  Gains(class, q, e, now + 1)
<1>1. PICK t \in Seq(Event) : t = Append(q, e)
  BY AppendProperties
<1>2. PICK n \in Nat : n = Len(q)
  OBVIOUS
<1>3. /\ Len(t) = n + 1 /\ t[n + 1] = e
      /\ \A i \in 1..n : t[i] = q[i]
  BY <1>1, <1>2, AppendProperties
<1>4. Ordered(t, now + 1)
  <2>1. \A i \in 1..n : t[i].when \in Nat /\ t[i].when <= now
    BY <1>2, <1>3, EventWhen DEF Ordered
  <2>2. \A i, j \in 1..n : i < j => t[i].when < t[j].when
    BY <1>2, <1>3 DEF Ordered
  <2>3. ASSUME NEW i \in 1 .. n + 1, NEW j \in 1 .. n + 1, i < j
        PROVE  t[i].when < t[j].when
    <3>1. CASE j = n + 1
      <4>1. i \in 1..n
        BY <2>3, <3>1
      <4>2. t[j].when = now + 1
        BY <1>3, <3>1
      <4> QED
        BY <2>1, <4>1, <4>2
    <3>2. CASE j # n + 1
      <4>1. i \in 1..n /\ j \in 1..n
        BY <2>3, <3>2
      <4> QED
        BY <2>2, <2>3, <4>1
    <3> QED
      BY <3>1, <3>2
  <2>4. ASSUME NEW i \in 1 .. n + 1
        PROVE  t[i].when <= now + 1
    BY <1>3, <2>1
  <2> QED
    BY <1>3, <2>3, <2>4 DEF Ordered
<1>5. InClass(class, t) = InClass(class, q) \cup {Listed(class, e)}
  <2>1. ASSUME NEW x
        PROVE  x \in InClass(class, t) <=> x \in InClass(class, q) \/ x = Listed(class, e)
    <3>1. /\ x \in InClass(class, t) <=> \E i \in 1 .. n + 1 : x = Listed(class, t[i])
          /\ x \in InClass(class, q) <=> \E i \in 1 .. n : x = Listed(class, q[i])
      BY <1>2, <1>3, Members
    <3>2. \A i \in 1 .. n + 1 : i \in 1..n \/ i = n + 1
      OBVIOUS
    <3>3. n + 1 \in 1 .. n + 1 /\ \A i \in 1..n : i \in 1 .. n + 1
      OBVIOUS
    <3> QED
      BY <1>3, <3>1, <3>2, <3>3, Zenon
  <2> QED
    BY <2>1
<1> QED
  BY <1>1, <1>4, <1>5 DEF Gains

Leaves(class, q, i, t, now) ==
  /\ Ordered(t, now)
  /\ InClass(class, t) = InClass(class, q) \ {Listed(class, q[i])}

LEMMA RemoveListed ==
  ASSUME NEW class, NEW q \in Seq(Event), NEW now \in Nat, Ordered(q, now),
         NEW i \in 1..Len(q), NEW t \in Seq(Event), Without(q, i, t)
  PROVE  Leaves(class, q, i, t, now)
<1>1. PICK n \in Nat : n = Len(q)
  OBVIOUS
<1>2. /\ Len(t) = n - 1 /\ i \in 1..n
      /\ \A j \in 1 .. n - 1 : t[j] = IF j < i THEN q[j] ELSE q[j + 1]
  BY <1>1 DEF Without
<1>3. \A j \in 1..n : q[j].when \in Nat /\ q[j].when <= now
  BY <1>1, EventWhen DEF Ordered
<1>4. \A j, k \in 1..n : j < k => q[j].when < q[k].when
  BY <1>1 DEF Ordered
<1>5. Ordered(t, now)
  <2>1. ASSUME NEW j \in 1 .. n - 1
        PROVE  t[j].when <= now
    <3>1. j \in 1..n /\ j + 1 \in 1..n
      OBVIOUS
    <3>2. t[j] = q[j] \/ t[j] = q[j + 1]
      BY <1>2
    <3> QED
      BY <1>3, <3>1, <3>2
  <2>2. ASSUME NEW j \in 1 .. n - 1, NEW k \in 1 .. n - 1, j < k
        PROVE  t[j].when < t[k].when
    <3>1. PICK a \in 1..n : t[j] = q[a] /\ a = IF j < i THEN j ELSE j + 1
      BY <1>2
    <3>2. PICK b \in 1..n : t[k] = q[b] /\ b = IF k < i THEN k ELSE k + 1
      BY <1>2
    <3>3. a < b
      BY <2>2, <3>1, <3>2
    <3> QED
      BY <1>4, <3>1, <3>2, <3>3
  <2> QED
    BY <1>2, <2>1, <2>2 DEF Ordered
<1>6. \A j \in 1..n : j # i => q[j] # q[i]
  <2>1. ASSUME NEW j \in 1..n, j # i, q[j] = q[i]
        PROVE  FALSE
    <3>1. PICK w \in Nat : w = q[i].when
      BY <1>2, <1>3
    <3>2. w < w
      <4>1. CASE j < i
        BY <1>2, <1>4, <2>1, <3>1, <4>1
      <4>2. CASE i < j
        BY <1>2, <1>4, <2>1, <3>1, <4>2
      <4> QED
        BY <1>2, <2>1, <4>1, <4>2
    <3> QED
      BY <3>2
  <2> QED
    BY <2>1
<1>7. ASSUME NEW x
      PROVE  x \in InClass(class, t) <=> x \in InClass(class, q) /\ x # Listed(class, q[i])
  <2>1. /\ x \in InClass(class, t) <=> \E j \in 1 .. n - 1 : x = Listed(class, t[j])
        /\ x \in InClass(class, q) <=> \E j \in 1 .. n : x = Listed(class, q[j])
    <3>1. /\ x \in InClass(class, t) <=> \E j \in 1..Len(t) : x = Listed(class, t[j])
          /\ x \in InClass(class, q) <=> \E j \in 1..Len(q) : x = Listed(class, q[j])
      BY Members
    <3> QED
      BY <1>1, <1>2, <3>1
  <2>2. \A j \in 1 .. n - 1 : \E k \in 1..n : k # i /\ t[j] = q[k]
    <3>1. ASSUME NEW j \in 1 .. n - 1
          PROVE  \E k \in 1..n : k # i /\ t[j] = q[k]
      <4>1. CASE j < i
        BY <1>2, <4>1
      <4>2. CASE ~(j < i)
        <5>1. j + 1 \in 1..n /\ j + 1 # i /\ t[j] = q[j + 1]
          BY <1>2, <4>2
        <5> QED
          BY <5>1
      <4> QED
        BY <4>1, <4>2
    <3> QED
      BY <3>1
  <2>3. \A k \in 1..n : k # i => \E j \in 1 .. n - 1 : t[j] = q[k]
    <3>1. ASSUME NEW k \in 1..n, k # i
          PROVE  \E j \in 1 .. n - 1 : t[j] = q[k]
      <4>1. CASE k < i
        <5>1. k \in 1 .. n - 1 /\ t[k] = q[k]
          BY <1>2, <4>1
        <5> QED
          BY <5>1
      <4>2. CASE ~(k < i)
        <5>1. PICK j \in 1 .. n - 1 : j = k - 1 /\ ~(j < i) /\ j + 1 = k
          BY <1>2, <3>1, <4>2
        <5>2. t[j] = q[k]
          BY <1>2, <5>1
        <5> QED
          BY <5>2
      <4> QED
        BY <4>1, <4>2
    <3> QED
      BY <3>1
  <2>4. \A k \in 1..n : x = Listed(class, q[k]) => (x # Listed(class, q[i]) <=> k # i)
    BY <1>2, <1>6, ListedFields
  <2> QED
    BY <2>1, <2>2, <2>3, <2>4, Zenon
<1> QED
  BY <1>5, <1>7 DEF Leaves

LEMMA TailIsWithout ==
  ASSUME NEW q \in Seq(Event), q # <<>>
  PROVE  1 \in 1..Len(q) /\ Head(q) = q[1] /\ Tail(q) \in Seq(Event) /\ Without(q, 1, Tail(q))
BY DEF Without

-----------------------------------------------------------------------------
(* The abstract stream's operators on what is in a list                     *)

LEMMA AdmitsListed ==
  \A mask, e : /\ Stream!Admits(mask, Listed("activate", e)) <=> 8 \in mask
               /\ Stream!Admits(mask, Listed("update", e)) <=> 6 \in mask
               /\ Stream!Admits(mask, Listed("input", e)) <=>
                    e.what \in mask /\ mask \cap 1..4 # {}
BY DEF Listed, Stream!Admits

LEMMA BeforeListed ==
  \A d, e : /\ Stream!Before(Listed("activate", d), Listed("input", e))
            /\ Stream!Before(Listed("activate", d), Listed("update", e))
            /\ Stream!Before(Listed("input", d), Listed("update", e))
            /\ \A class \in Classes :
                 d.when < e.when => Stream!Before(Listed(class, d), Listed(class, e))
BY DEF Listed, Stream!Before, Stream!Rank, Classes

LEMMA QueuedMembers ==
  ASSUME TypeOK
  PROVE  \A x : x \in QueuedEvents <=>
           \/ \E i \in 1..Len(activate_events) : x = Listed("activate", activate_events[i])
           \/ \E i \in 1..Len(input_events) : x = Listed("input", input_events[i])
           \/ \E i \in 1..Len(update_events) : x = Listed("update", update_events[i])
<1>1. /\ activate_events \in Seq(Event) /\ input_events \in Seq(Event)
      /\ update_events \in Seq(Event)
  BY DEF TypeOK
<1> QED
  BY <1>1, Members DEF QueuedEvents

LEMMA InClassHasClass ==
  ASSUME NEW class, NEW q \in Seq(Event)
  PROVE  \A x \in InClass(class, q) : x.class = class
BY Members, ListedFields

(* what TakeInput's two tests say of the mask                               *)
LEMMA InputAdmitted ==
  ASSUME TypeOK, NEW mask
  PROVE  InputEnabled(mask) <=>
           \E i \in 1..Len(input_events) :
             Stream!Admits(mask, Listed("input", input_events[i]))
<1>1. input_events \in Seq(Event)
  BY DEF TypeOK
<1>2. InputTypes = 1..4
  BY DEF InputTypes, MouseDown, MouseUp, KeyDown, KeyUp
<1>3. (\E i \in 1..Len(input_events) : input_events[i].what \in mask) => input_events # <<>>
  BY <1>1
<1> QED
  BY <1>1, <1>2, <1>3, FirstInFinds, AdmitsListed DEF InputEnabled, InputSearched

LEMMA WindowEventsAdmitted ==
  ASSUME TypeOK, NEW mask
  PROVE  /\ ActivateEnabled(mask) <=>
              \E i \in 1..Len(activate_events) :
                Stream!Admits(mask, Listed("activate", activate_events[i]))
         /\ UpdateEnabled(mask) <=>
              \E i \in 1..Len(update_events) :
                Stream!Admits(mask, Listed("update", update_events[i]))
<1>1. /\ activate_events \in Seq(Event) /\ update_events \in Seq(Event)
      /\ WindowActivate = 8 /\ WindowUpdate = 6
  BY DEF TypeOK, WindowActivate, WindowUpdate
<1>2. \A q \in Seq(Event) : q # <<>> <=> \E i \in 1..Len(q) : TRUE
  <2>1. ASSUME NEW q \in Seq(Event)
        PROVE  q # <<>> <=> \E i \in 1..Len(q) : TRUE
    BY EmptySeq, LenProperties
  <2> QED
    BY <2>1
<1> QED
  BY <1>1, <1>2, AdmitsListed DEF ActivateEnabled, UpdateEnabled

(* a mask admits something queued exactly when GetNextEvent finds something *)
LEMMA SomethingAdmitted ==
  ASSUME TypeOK, NEW mask
  PROVE  HasEvent(mask) <=> \E x \in QueuedEvents : Stream!Admits(mask, x)
BY QueuedMembers, InputAdmitted, WindowEventsAdmitted DEF HasEvent
-----------------------------------------------------------------------------
(* Steps of the stream                                                      *)

LEMMA Taken ==
  ASSUME NEW mask, NEW x \in QueuedEvents, Stream!Admits(mask, x),
         \A y \in QueuedEvents \ {x} : Stream!Admits(mask, y) => Stream!Before(x, y),
         QueuedEvents' = QueuedEvents \ {x}, reply' = x.event, is_shutting_down' = is_shutting_down
  PROVE  Stream!Take(mask)
BY DEF Stream!Take, QueuedEvents

LEMMA NothingFound ==
  ASSUME TypeOK, NEW mask, ~HasEvent(mask) \/ is_shutting_down,
         reply' = NoEvent, UNCHANGED <<queues, is_shutting_down>>
  PROVE  Stream!FindNothing(mask)
<1>1. is_shutting_down \/ \A x \in QueuedEvents : ~Stream!Admits(mask, x)
  BY SomethingAdmitted
<1>2. QueuedEvents' = QueuedEvents
  BY DEF QueuedEvents, InClass, queues
<1> QED
  BY <1>1, <1>2 DEF Stream!FindNothing, QueuedEvents

LEMMA Posted ==
  ASSUME StreamInv, Stamp, NEW class \in Classes, NEW e \in Event, e.when = clock',
         QueuedEvents' = QueuedEvents \cup {Listed(class, e)}, UNCHANGED <<reply, is_shutting_down>>
  PROVE  Stream!Post
<1>1. clock \in Nat /\ clock' = clock + 1 /\ clock' \in 0..MaxEvents
  BY EventAssumption DEF StreamInv, IInv, TypeOK, Stamp
<1>2. Listed(class, e) \in Stream!Pending
  BY <1>1 DEF Listed, Classes, Event, Stream!Pending, Stream!Rank
<1>3. ASSUME NEW x \in QueuedEvents
      PROVE  x.event.when < e.when
  <2>1. \E q \in {activate_events, input_events, update_events} :
          \E i \in 1..Len(q) : x.event = q[i]
    BY QueuedMembers, ListedFields DEF StreamInv, IInv
  <2>2. PICK q \in {activate_events, input_events, update_events} :
          \E i \in 1..Len(q) : x.event = q[i]
    BY <2>1
  <2>3. PICK i \in 1..Len(q) : x.event = q[i]
    BY <2>2
  <2>4. q \in Seq(Event) /\ Ordered(q, clock)
    BY DEF StreamInv, IInv, TypeOK
  <2>5. q[i].when \in Nat /\ q[i].when <= clock
    BY <2>4, EventWhen DEF Ordered
  <2> QED
    BY <1>1, <2>3, <2>5
<1> QED
  BY <1>2, <1>3, ListedFields DEF Stream!Post, QueuedEvents
-----------------------------------------------------------------------------
(* Taking an event                                                          *)

OrderedLists ==
  /\ Ordered(activate_events, clock)
  /\ Ordered(input_events, clock)
  /\ Ordered(update_events, clock)

LEMMA Lists ==
  ASSUME StreamInv
  PROVE  /\ TypeOK /\ OrderedLists
         /\ activate_events \in Seq(Event) /\ input_events \in Seq(Event)
         /\ update_events \in Seq(Event)
         /\ clock \in Nat
  BY EventAssumption DEF StreamInv, IInv, TypeOK, OrderedLists

(* the oldest of a list that is removed from it leaves the other classes    *)
LEMMA RemovedFromQueued ==
  ASSUME NEW x, NEW A, NEW B, NEW C,
         \A y \in B \cup C : y # x
  PROVE  (A \ {x}) \cup B \cup C = (A \cup B \cup C) \ {x}
  OBVIOUS

LEMMA TakeActivateStep ==
  ASSUME StreamInv, NEW mask, TakeActivate(mask), UNCHANGED <<flags, clock>>
  PROVE  OrderedLists' /\ Stream!Take(mask)
<1>1. /\ TypeOK /\ OrderedLists /\ activate_events \in Seq(Event) /\ activate_events # <<>>
      /\ input_events \in Seq(Event) /\ update_events \in Seq(Event) /\ clock \in Nat
  BY Lists DEF TakeActivate, ActivateEnabled
<1>2. PICK q \in Seq(Event) : q = activate_events
  BY <1>1
<1>3. PICK e \in Event : e = q[1]
  BY <1>1, <1>2
<1>4. PICK x : x = Listed("activate", e)
  OBVIOUS
<1>5. reply' = x.event /\ activate_events' = Tail(q)
      /\ UNCHANGED <<input_events, update_events, is_shutting_down, clock>>
  BY <1>1, <1>2, <1>3, <1>4, TailIsWithout, ListedFields DEF TakeActivate, flags
<1>6. /\ Ordered(Tail(q), clock)
      /\ InClass("activate", Tail(q)) = InClass("activate", q) \ {x}
  <2>1. /\ 1 \in 1..Len(q) /\ Tail(q) \in Seq(Event) /\ Without(q, 1, Tail(q))
        /\ Ordered(q, clock)
    BY <1>1, <1>2, TailIsWithout DEF OrderedLists
  <2>2. PICK t \in Seq(Event), now \in Nat : t = Tail(q) /\ now = clock
    BY <1>1, <2>1
  <2>3. Leaves("activate", q, 1, t, now)
    <3>1. 1 \in 1..Len(q) /\ Without(q, 1, t) /\ Ordered(q, now)
      BY <2>1, <2>2
    <3> QED
      BY <3>1, RemoveListed
  <2> QED
    BY <1>3, <1>4, <2>2, <2>3 DEF Leaves
<1>7. QueuedEvents' = QueuedEvents \ {x}
  <2>1. \A y \in InClass("input", input_events) \cup InClass("update", update_events) : y # x
    BY <1>1, <1>4, InClassHasClass, ListedFields
  <2> QED
    BY <1>2, <1>5, <1>6, <2>1, RemovedFromQueued DEF QueuedEvents, InClass
<1>8. x \in QueuedEvents /\ Stream!Admits(mask, x)
  <2>1. 1 \in 1..Len(q) /\ x = Listed("activate", q[1])
    BY <1>1, <1>2, <1>3, <1>4, TailIsWithout
  <2> QED
    BY <1>1, <1>2, <1>4, <2>1, QueuedMembers, AdmitsListed
      DEF TakeActivate, ActivateEnabled, WindowActivate
<1>9. ASSUME NEW y \in QueuedEvents \ {x}
      PROVE  Stream!Before(x, y)
  <2>1. CASE \E i \in 1..Len(q) : y = Listed("activate", q[i])
    <3>1. PICK i \in 1..Len(q) : y = Listed("activate", q[i])
      BY <2>1
    <3>2. i # 1 /\ 1 \in 1..Len(q) /\ i > 1
      BY <1>1, <1>2, <1>3, <1>4, <1>9, <3>1, TailIsWithout
    <3>3. e.when < q[i].when
      BY <1>1, <1>2, <1>3, <3>2 DEF OrderedLists, Ordered
    <3> QED
      BY <1>4, <3>1, <3>3, BeforeListed DEF Classes
  <2>2. CASE ~ \E i \in 1..Len(q) : y = Listed("activate", q[i])
    <3>1. \/ \E i \in 1..Len(input_events) : y = Listed("input", input_events[i])
          \/ \E i \in 1..Len(update_events) : y = Listed("update", update_events[i])
      BY <1>1, <1>2, <1>9, <2>2, QueuedMembers
    <3> QED
      BY <1>4, <3>1, BeforeListed
  <2> QED
    BY <2>1, <2>2
<1> QED
  BY <1>1, <1>5, <1>6, <1>7, <1>8, <1>9, Taken DEF OrderedLists

LEMMA TakeUpdateStep ==
  ASSUME StreamInv, NEW mask, TakeUpdate(mask), UNCHANGED <<flags, clock>>
  PROVE  OrderedLists' /\ Stream!Take(mask)
<1>1. /\ TypeOK /\ OrderedLists /\ update_events \in Seq(Event) /\ update_events # <<>>
      /\ input_events \in Seq(Event) /\ activate_events \in Seq(Event) /\ clock \in Nat
  BY Lists DEF TakeUpdate, UpdateEnabled
<1>2. PICK q \in Seq(Event) : q = update_events
  BY <1>1
<1>3. PICK e \in Event : e = q[1]
  BY <1>1, <1>2
<1>4. PICK x : x = Listed("update", e)
  OBVIOUS
<1>5. reply' = x.event /\ update_events' = Tail(q)
      /\ UNCHANGED <<input_events, activate_events, is_shutting_down, clock>>
  BY <1>1, <1>2, <1>3, <1>4, TailIsWithout, ListedFields DEF TakeUpdate, flags
<1>6. /\ Ordered(Tail(q), clock)
      /\ InClass("update", Tail(q)) = InClass("update", q) \ {x}
  <2>1. /\ 1 \in 1..Len(q) /\ Tail(q) \in Seq(Event) /\ Without(q, 1, Tail(q))
        /\ Ordered(q, clock)
    BY <1>1, <1>2, TailIsWithout DEF OrderedLists
  <2>2. PICK t \in Seq(Event), now \in Nat : t = Tail(q) /\ now = clock
    BY <1>1, <2>1
  <2>3. Leaves("update", q, 1, t, now)
    <3>1. 1 \in 1..Len(q) /\ Without(q, 1, t) /\ Ordered(q, now)
      BY <2>1, <2>2
    <3> QED
      BY <3>1, RemoveListed
  <2> QED
    BY <1>3, <1>4, <2>2, <2>3 DEF Leaves
<1>7. QueuedEvents' = QueuedEvents \ {x}
  <2>1. \A y \in InClass("activate", activate_events) \cup InClass("input", input_events) : y # x
    BY <1>1, <1>4, InClassHasClass, ListedFields
  <2> QED
    BY <1>2, <1>5, <1>6, <2>1, RemovedFromQueued DEF QueuedEvents, InClass
<1>8. x \in QueuedEvents /\ Stream!Admits(mask, x)
  <2>1. 1 \in 1..Len(q) /\ x = Listed("update", q[1])
    BY <1>1, <1>2, <1>3, <1>4, TailIsWithout
  <2> QED
    BY <1>1, <1>2, <1>4, <2>1, QueuedMembers, AdmitsListed
      DEF TakeUpdate, UpdateEnabled, WindowUpdate
<1>9. ASSUME NEW y \in QueuedEvents \ {x}, Stream!Admits(mask, y)
      PROVE  Stream!Before(x, y)
  <2>1. PICK i \in 1..Len(q) : y = Listed("update", q[i])
    BY <1>1, <1>2, <1>9, QueuedMembers, InputAdmitted, WindowEventsAdmitted DEF TakeUpdate
  <2>2. i # 1 /\ 1 \in 1..Len(q) /\ i > 1
    BY <1>1, <1>2, <1>3, <1>4, <1>9, <2>1, TailIsWithout
  <2>3. e.when < q[i].when
    BY <1>1, <1>2, <1>3, <2>2 DEF OrderedLists, Ordered
  <2> QED
    BY <1>4, <2>1, <2>3, BeforeListed DEF Classes
<1> QED
  BY <1>1, <1>5, <1>6, <1>7, <1>8, <1>9, Taken DEF OrderedLists

LEMMA TakeInputStep ==
  ASSUME StreamInv, NEW mask, TakeInput(mask), UNCHANGED <<flags, clock>>
  PROVE  OrderedLists' /\ Stream!Take(mask)
<1>1. /\ TypeOK /\ OrderedLists /\ update_events \in Seq(Event)
      /\ input_events \in Seq(Event) /\ activate_events \in Seq(Event) /\ clock \in Nat
      /\ ~ActivateEnabled(mask) /\ InputEnabled(mask)
  BY Lists DEF TakeInput
<1>2. PICK q \in Seq(Event) : q = input_events
  BY <1>1
<1>3. PICK f \in 1..Len(q) : f = FirstIn(q, mask)
  BY <1>1, <1>2, FirstInFinds DEF InputEnabled
<1>4. q[f].what \in mask /\ \A i \in 1..Len(q) : q[i].what \in mask => f <= i
  BY <1>3, FirstInFinds, FirstInIsFirst
<1>5. PICK e \in Event : e = q[f]
  OBVIOUS
<1>6. PICK x : x = Listed("input", e)
  OBVIOUS
<1>7. reply' = x.event /\ input_events' = RemoveAt(q, f)
      /\ UNCHANGED <<activate_events, update_events, is_shutting_down, clock>>
  BY <1>2, <1>3, <1>5, <1>6, ListedFields DEF TakeInput, flags
<1>8. /\ Ordered(RemoveAt(q, f), clock)
      /\ InClass("input", RemoveAt(q, f)) = InClass("input", q) \ {x}
  <2>1. /\ RemoveAt(q, f) \in Seq(Event) /\ Without(q, f, RemoveAt(q, f))
        /\ Ordered(q, clock)
    BY <1>1, <1>2, RemoveAtIsWithout DEF OrderedLists
  <2>2. PICK t \in Seq(Event), now \in Nat : t = RemoveAt(q, f) /\ now = clock
    BY <1>1, <2>1
  <2>3. Leaves("input", q, f, t, now)
    <3>1. f \in 1..Len(q) /\ Without(q, f, t) /\ Ordered(q, now)
      BY <2>1, <2>2
    <3> QED
      BY <3>1, RemoveListed
  <2> QED
    BY <1>5, <1>6, <2>2, <2>3 DEF Leaves
<1>9. QueuedEvents' = QueuedEvents \ {x}
  <2>1. \A y \in InClass("activate", activate_events) \cup InClass("update", update_events) : y # x
    BY <1>1, <1>6, InClassHasClass, ListedFields
  <2> QED
    BY <1>2, <1>7, <1>8, <2>1, RemovedFromQueued DEF QueuedEvents, InClass
<1>10. x \in QueuedEvents /\ Stream!Admits(mask, x)
  <2>1. x \in QueuedEvents
    BY <1>1, <1>2, <1>5, <1>6, QueuedMembers
  <2>2. mask \cap 1..4 # {}
    BY <1>1 DEF InputEnabled, InputSearched, InputTypes, MouseDown, MouseUp, KeyDown, KeyUp
  <2> QED
    BY <1>4, <1>5, <1>6, <2>1, <2>2, AdmitsListed
<1>11. ASSUME NEW y \in QueuedEvents \ {x}, Stream!Admits(mask, y)
       PROVE  Stream!Before(x, y)
  <2>1. CASE \E i \in 1..Len(q) : y = Listed("input", q[i])
    <3>1. PICK i \in 1..Len(q) : y = Listed("input", q[i])
      BY <2>1
    <3>2. i # f
      BY <1>5, <1>6, <1>11, <3>1
    <3>3. f < i
      BY <1>4, <1>11, <3>1, <3>2, AdmitsListed
    <3>4. e.when < q[i].when
      BY <1>1, <1>2, <1>5, <3>3 DEF OrderedLists, Ordered
    <3> QED
      BY <1>6, <3>1, <3>4, BeforeListed DEF Classes
  <2>2. CASE ~ \E i \in 1..Len(q) : y = Listed("input", q[i])
    <3>1. \E i \in 1..Len(update_events) : y = Listed("update", update_events[i])
      BY <1>1, <1>2, <1>11, <2>2, QueuedMembers, WindowEventsAdmitted
    <3> QED
      BY <1>6, <3>1, BeforeListed
  <2> QED
    BY <2>1, <2>2
<1> QED
  BY <1>1, <1>7, <1>8, <1>9, <1>10, <1>11, Taken DEF OrderedLists

(* a probe hands out the first event the mask admits, or nothing            *)
LEMMA ProbeStep ==
  ASSUME StreamInv, NEW mask \in Masks, Probe(mask)
  PROVE  OrderedLists' /\ Stream!Next
<1>1. TakeActivate(mask) \/ TakeInput(mask) \/ TakeUpdate(mask) \/ TakeNothing(mask)
  BY DEF Probe
<1>2. UNCHANGED <<flags, clock>>
  BY DEF Probe
<1>3. CASE TakeNothing(mask)
  <2>1. Stream!FindNothing(mask)
    BY <1>2, <1>3, Lists, NothingFound DEF TakeNothing, flags
  <2>2. OrderedLists'
    BY <1>2, <1>3, Lists DEF TakeNothing, OrderedLists, queues
  <2> QED
    BY <2>1, <2>2 DEF Stream!Next
<1> QED
  BY <1>1, <1>2, <1>3, TakeActivateStep, TakeInputStep, TakeUpdateStep DEF Stream!Next
-----------------------------------------------------------------------------
(* Queueing an event                                                        *)

(* a younger clock leaves the lists in order                                *)
LEMMA StillOrdered ==
  ASSUME NEW q \in Seq(Event), NEW now \in Nat, Ordered(q, now)
  PROVE  Ordered(q, now + 1)
<1>1. \A i \in 1..Len(q) : q[i].when \in Nat /\ q[i].when <= now
  BY EventWhen DEF Ordered
<1> QED
  BY <1>1 DEF Ordered

LEMMA PostStep ==
  ASSUME StreamInv, Stamp, NEW class \in Classes, NEW type \in Types, NEW arg \in Args,
         UNCHANGED <<reply, is_shutting_down>>,
         activate_events' = IF class = "activate"
                            THEN Append(activate_events, NewEvent(type, arg))
                            ELSE activate_events,
         input_events' = IF class = "input"
                         THEN Append(input_events, NewEvent(type, arg))
                         ELSE input_events,
         update_events' = IF class = "update"
                          THEN Append(update_events, NewEvent(type, arg))
                          ELSE update_events
  PROVE  OrderedLists' /\ Stream!Post
<1>1. /\ TypeOK /\ activate_events \in Seq(Event) /\ input_events \in Seq(Event)
      /\ update_events \in Seq(Event)
  BY Lists
<1>2. PICK now \in Nat : now = clock
  BY Lists
<1>3. clock' = now + 1
  BY <1>2 DEF Stamp
<1>4. PICK e \in Event : e = NewEvent(type, arg) /\ e.when = now + 1
  BY <1>1, <1>3, NewEventType DEF NewEvent
<1>5. Ordered(activate_events, now) /\ Ordered(input_events, now) /\ Ordered(update_events, now)
  BY <1>2, Lists DEF OrderedLists
<1>6. /\ Ordered(activate_events, now + 1) /\ Ordered(input_events, now + 1)
      /\ Ordered(update_events, now + 1)
  BY <1>1, <1>5, StillOrdered
<1>7. OrderedLists' /\ QueuedEvents' = QueuedEvents \cup {Listed(class, e)}
  <2>1. CASE class = "activate"
    <3>1. /\ activate_events' = Append(activate_events, e)
          /\ input_events' = input_events /\ update_events' = update_events
      BY <1>4, <2>1
    <3>2. Gains(class, activate_events, e, now + 1)
      BY <1>1, <1>4, <1>5, AppendListed
    <3> QED
      BY <1>3, <1>6, <2>1, <3>1, <3>2 DEF Gains, OrderedLists, QueuedEvents, InClass
  <2>2. CASE class = "input"
    <3>1. /\ input_events' = Append(input_events, e)
          /\ activate_events' = activate_events /\ update_events' = update_events
      BY <1>4, <2>2
    <3>2. Gains(class, input_events, e, now + 1)
      BY <1>1, <1>4, <1>5, AppendListed
    <3> QED
      BY <1>3, <1>6, <2>2, <3>1, <3>2 DEF Gains, OrderedLists, QueuedEvents, InClass
  <2>3. CASE class = "update"
    <3>1. /\ update_events' = Append(update_events, e)
          /\ activate_events' = activate_events /\ input_events' = input_events
      BY <1>4, <2>3
    <3>2. Gains(class, update_events, e, now + 1)
      BY <1>1, <1>4, <1>5, AppendListed
    <3> QED
      BY <1>3, <1>6, <2>3, <3>1, <3>2 DEF Gains, OrderedLists, QueuedEvents, InClass
  <2> QED
    BY <2>1, <2>2, <2>3 DEF Classes
<1> QED
  BY <1>3, <1>2, <1>4, <1>7, Posted

LEMMA QueueingPosts ==
  ASSUME StreamInv,
         \/ \E p \in Places : QueueMouseDown(p) \/ QueueMouseUp(p)
         \/ \E p \in Places : mouse_move_enabled /\ OnMouseMove(p)
         \/ QueueKeyDown
         \/ \E w \in Windows : QueueWindowActivate(w) \/ QueueWindowUpdate(w)
         \/ \E t \in RawTypes : QueueRawEvent(t)
  PROVE  OrderedLists' /\ Stream!Post
<1>1. /\ {MouseDown, MouseUp, MouseMove, KeyDown, WindowActivate, WindowUpdate} \subseteq Types
      /\ RawTypes \subseteq Types
      /\ Places \subseteq Args /\ Windows \subseteq Args /\ Nothing \in Args
      /\ "activate" \in Classes /\ "input" \in Classes /\ "update" \in Classes
  BY DEF Types, Args, Classes
<1>2. ASSUME NEW type \in Types, NEW arg \in Args, QueueInput(type, arg)
      PROVE  OrderedLists' /\ Stream!Post
  BY <1>1, <1>2, PostStep DEF QueueInput, flags
<1>3. CASE \E p \in Places : QueueMouseDown(p) \/ QueueMouseUp(p)
  BY <1>1, <1>2, <1>3 DEF QueueMouseDown, QueueMouseUp
<1>4. CASE QueueKeyDown
  BY <1>1, <1>2, <1>4 DEF QueueKeyDown
<1>5. ASSUME NEW p \in Places, mouse_move_enabled, OnMouseMove(p)
      PROVE  OrderedLists' /\ Stream!Post
  BY <1>1, <1>5, PostStep DEF OnMouseMove, flags
<1>6. ASSUME NEW w \in Windows, QueueWindowActivate(w)
      PROVE  OrderedLists' /\ Stream!Post
  BY <1>1, <1>6, PostStep DEF QueueWindowActivate, flags
<1>7. ASSUME NEW w \in Windows, QueueWindowUpdate(w)
      PROVE  OrderedLists' /\ Stream!Post
  BY <1>1, <1>7, PostStep DEF QueueWindowUpdate, flags
<1>8. ASSUME NEW t \in RawTypes, QueueRawEvent(t)
      PROVE  OrderedLists' /\ Stream!Post
  BY <1>1, <1>8, PostStep DEF QueueRawEvent, flags
<1> QED
  BY <1>3, <1>4, <1>5, <1>6, <1>7, <1>8
-----------------------------------------------------------------------------
(* Every step                                                               *)

(* what the stream does not see                                             *)
LEMMA Unseen ==
  ASSUME StreamInv, UNCHANGED <<queues, is_shutting_down, reply>>,
         clock' = clock \/ clock' = clock + 1
  PROVE  OrderedLists' /\ UNCHANGED Stream!vars
<1>1. /\ activate_events' = activate_events /\ input_events' = input_events
      /\ update_events' = update_events
  BY DEF queues
<1>2. OrderedLists'
  <2>1. PICK now \in Nat : now = clock
    BY Lists
  <2>2. /\ Ordered(activate_events, now) /\ Ordered(input_events, now)
        /\ Ordered(update_events, now)
    BY <2>1, Lists DEF OrderedLists
  <2>3. /\ Ordered(activate_events, now + 1) /\ Ordered(input_events, now + 1)
        /\ Ordered(update_events, now + 1)
    BY <2>2, Lists, StillOrdered
  <2>4. clock' = now \/ clock' = now + 1
    BY <2>1
  <2> QED
    BY <1>1, <2>2, <2>3, <2>4 DEF OrderedLists
<1> QED
  BY <1>1, <1>2 DEF Stream!vars, QueuedEvents, InClass

(* a wait that ends with null was shut down or found nothing                *)
LEMMA ReturnNullStep ==
  ASSUME StreamInv, call # "none", ReturnNull, is_shutting_down \/ ~HasEvent(call_mask)
  PROVE  OrderedLists' /\ Stream!Next
<1>1. call_mask \in Masks /\ TypeOK /\ OrderedLists
  BY Lists DEF StreamInv, CallsHaveMasks
<1>2. reply' = NoEvent /\ UNCHANGED <<queues, is_shutting_down, clock>>
  BY DEF ReturnNull, flags
<1>3. Stream!FindNothing(call_mask)
  BY <1>1, <1>2, NothingFound
<1> QED
  BY <1>1, <1>2, <1>3 DEF Stream!Next, OrderedLists, queues

LEMMA Predicate ==
  ASSUME StreamInv, call # "none"
  PROVE  HasEventPred(call_mask) <=> HasEvent(call_mask) \/ is_shutting_down
BY DEF StreamInv, IInv, WaiterSawWindowEvents, HasEventPred, HasEvent

LEMMA StreamStep ==
  ASSUME StreamInv, [Next]_emVars
  PROVE  OrderedLists' /\ (Stream!Next \/ UNCHANGED Stream!vars)
<1>1. CASE UIThread
  <2>1. CASE Shutdown
    <3>1. Stream!Close
      BY <2>1 DEF Shutdown, Stream!Close, queues, QueuedEvents, InClass
    <3>2. OrderedLists'
      BY <2>1, Lists DEF Shutdown, OrderedLists, queues
    <3> QED
      BY <3>1, <3>2 DEF Stream!Next
  <2>2. CASE \E p \in Places : ~mouse_move_enabled /\ OnMouseMove(p)
    <3>1. UNCHANGED <<queues, is_shutting_down, reply>> /\ clock' = clock + 1
      BY <2>2 DEF OnMouseMove, Stamp, flags, queues
    <3> QED
      BY <3>1, Unseen
  <2>3. CASE ~Shutdown /\ ~ \E p \in Places : ~mouse_move_enabled /\ OnMouseMove(p)
    BY <1>1, <2>3, QueueingPosts DEF UIThread, Stream!Next
  <2> QED
    BY <2>1, <2>2, <2>3
<1>2. CASE EmulatorCalls
  <2>1. CASE \/ \E w \in Windows : QueueWindowActivate(w) \/ QueueWindowUpdate(w)
             \/ \E t \in RawTypes : QueueRawEvent(t)
    BY <2>1, QueueingPosts DEF Stream!Next
  <2>2. CASE \E m \in Masks : GetNextEvent(m)
    BY <2>2, ProbeStep DEF GetNextEvent
  <2>3. CASE EnableMouseMove \/ RejectMouseMove
    BY <2>3, Unseen DEF EnableMouseMove, RejectMouseMove
  <2>4. CASE \E m \in Masks, timeout \in {0, 1} : WaitNextEvent(m, timeout)
    BY <2>4, ProbeStep DEF WaitNextEvent
  <2> QED
    BY <1>2, <2>1, <2>2, <2>3, <2>4 DEF EmulatorCalls
<1>3. CASE StartWait
  <2>1. CASE is_shutting_down /\ ReturnNull
    BY <1>3, <2>1, ReturnNullStep DEF StartWait
  <2>2. CASE UNCHANGED <<queues, flags, clock, reply>>
    BY <2>2, Unseen DEF flags
  <2> QED
    BY <1>3, <2>1, <2>2 DEF StartWait
<1>4. CASE Wake
  BY <1>4, Unseen DEF Wake, flags
<1>5. CASE TimeOut
  BY <1>4, <1>5, Predicate, ReturnNullStep DEF TimeOut
<1>6. CASE Retry
  <2>1. call_mask \in Masks
    BY <1>6 DEF Retry, StreamInv, CallsHaveMasks
  <2> QED
    BY <1>6, <2>1, ProbeStep DEF Retry
<1>7. CASE UNCHANGED emVars
  BY <1>7, Unseen DEF emVars, flags
<1> QED
  BY <1>1, <1>2, <1>3, <1>4, <1>5, <1>6, <1>7 DEF Next, NotifiedWake

LEMMA MasksStay ==
  ASSUME CallsHaveMasks, [Next]_emVars
  PROVE  CallsHaveMasks'
<1>1. CASE UNCHANGED <<call, call_mask>> \/ call' = "none"
  BY <1>1 DEF CallsHaveMasks
<1>2. CASE UIThread
  <2>1. UNCHANGED <<call, call_mask>>
    BY <1>2 DEF UIThread, QueueMouseDown, QueueMouseUp, QueueKeyDown, QueueInput,
           OnMouseMove, Shutdown, NotifyAll, waiting
  <2> QED
    BY <1>1, <2>1
<1>3. CASE EmulatorCalls
  <2>1. CASE \E m \in Masks, timeout \in {0, 1} : WaitNextEvent(m, timeout)
    BY <2>1 DEF WaitNextEvent, waiting, CallsHaveMasks
  <2>2. CASE ~ \E m \in Masks, timeout \in {0, 1} : WaitNextEvent(m, timeout)
    <3>1. UNCHANGED <<call, call_mask>>
      BY <1>3, <2>2 DEF EmulatorCalls, QueueWindowActivate, QueueWindowUpdate,
             QueueRawEvent, GetNextEvent, EnableMouseMove, RejectMouseMove, NotifyAll, waiting
    <3> QED
      BY <1>1, <3>1
  <2> QED
    BY <2>1, <2>2
<1>4. CASE StartWait \/ Wake \/ TimeOut \/ Retry
  BY <1>4 DEF StartWait, Wake, TimeOut, Retry, ReturnNull, Return, GoTo, CallsHaveMasks
<1>5. CASE UNCHANGED emVars
  BY <1>1, <1>5 DEF emVars, waiting
<1> QED
  BY <1>2, <1>3, <1>4, <1>5 DEF Next, NotifiedWake

LEMMA StreamInit == EventManagerInit => StreamInv /\ Stream!Init
<1> SUFFICES ASSUME EventManagerInit
             PROVE  StreamInv /\ Stream!Init
  OBVIOUS
<1>1. Ordered(<<>>, 0) /\ \A class : InClass(class, <<>>) = {}
  BY DEF Ordered, InClass
<1>2. StreamInv
  BY <1>1, InitIInv DEF EventManagerInit, StreamInv, CallsHaveMasks
<1>3. Stream!Init
  BY <1>1 DEF EventManagerInit, Stream!Init, QueuedEvents
<1> QED
  BY <1>2, <1>3

(* Callers are handed the first event their mask admits, by class and age,  *)
(* none twice, none lost and none invented, and null only when nothing is   *)
(* admitted or the queue shuts down: every step of the queue is a step of   *)
(* EventStream or invisible to it.                                          *)
THEOREM TheQueueIsAStream == Spec => ImplementsStream
<1>1. EventManagerInit => StreamInv /\ Stream!Init
  BY StreamInit
<1>2. StreamInv /\ [Next]_emVars => StreamInv'
  BY StepKeepsIInv, StreamStep, MasksStay DEF StreamInv, OrderedLists
<1>3. StreamInv /\ [Next]_emVars => [Stream!Next]_(Stream!vars)
  BY StreamStep
<1> QED
  BY <1>1, <1>2, <1>3, PTL DEF Spec, ImplementsStream, Stream!Spec
-----------------------------------------------------------------------------
(* where the emulator thread is when it is inside WaitNextEvent and when    *)
(* mouse moves are asked for                                                *)
CallsAndScopes ==
  /\ call # "none" => emu = "guest" /\ call_mask \in AppMasks
  /\ mouse_move_enabled <=> emu \in {"drag", "menu", "dialog", "leaving"}

(* the threads' variables have their types, but for `tracked'               *)
ThreadsTypeOK ==
  /\ main \in {"polling", "stopping", "signalling", "closing", "joining",
               "joined"}
  /\ is_running \in BOOLEAN
  /\ emu \in {"start", "prompt", "reading", "guest", "drag", "menu",
              "draining", "drained", "dialog", "leaving", "finished"}
  /\ should_enter_debug \in BOOLEAN /\ stdin_failed \in BOOLEAN
  /\ clicks \in 0..MaxClicks /\ held \subseteq 1..clicks /\ alone \subseteq 1..clicks

ThreadsInv == IInv /\ ThreadsTypeOK /\ CallsAndScopes
-----------------------------------------------------------------------------
(* The threads' steps are steps of the event queue.                         *)

LEMMA MasksPassed ==
  /\ AppMasks \subseteq Masks
  /\ TrackingMask \in Masks /\ DrainMask \in Masks /\ DialogMask \in Masks
BY CyderAssumption

LEMMA UIStepsAreUIThread ==
  ASSUME ThreadsInv, Poll \/ Quit \/ StopEmulator \/ Signal \/ CloseQueue \/ Join
  PROVE  [Next]_emVars
<1>1. 0 \in Places /\ MaxClicks \in Nat /\ Places = 0..MaxClicks
  BY CyderAssumption
<1>2. Click => clicks + 1 \in Places /\ clicks' = clicks + 1
  BY <1>1 DEF ThreadsInv, ThreadsTypeOK, Click
<1>3. CASE Press
  <2>1. QueueMouseDown(clicks + 1) /\ Click
    BY <1>2, <1>3 DEF Press, QueueMouseDown, QueueInput, NewEvent
  <2> QED
    BY <1>2, <2>1, Zenon DEF Next, UIThread
<1>4. CASE Release
  <2>1. QueueMouseUp(clicks + 1) /\ Click
    BY <1>2, <1>4 DEF Release, QueueMouseUp, QueueInput, NewEvent
  <2> QED
    BY <1>2, <2>1, Zenon DEF Next, UIThread
<1>5. CASE MoveOrKey
  BY <1>1, <1>5, Zenon DEF MoveOrKey, Next, UIThread
<1>6. CASE CloseQueue
  BY <1>6, Zenon DEF CloseQueue, Next, UIThread
<1>7. CASE Break \/ Quit \/ StopEmulator \/ Signal \/ Join
  BY <1>7, Zenon DEF Break, Quit, StopEmulator, Signal, Join
<1> QED
  BY <1>3, <1>4, <1>5, <1>6, <1>7 DEF Poll

(* the steps of the two event traps                                         *)
InEventTrap ==
  \/ \E m \in AppMasks : GetNextEvent(m)
  \/ \E m \in AppMasks, timeout \in {0, 1} : WaitNextEvent(m, timeout)
  \/ StartWait \/ NotifiedWake \/ Retry \/ TimeOut \/ Wake

LEMMA TrapStepIsNext ==
  ASSUME ThreadsInv, emu = "guest", InEventTrap
  PROVE  Next
<1>1. ~mouse_move_enabled
  BY DEF ThreadsInv, CallsAndScopes
<1>2. CASE \E m \in AppMasks : GetNextEvent(m)
  <2>1. PICK m \in Masks : GetNextEvent(m)
    BY <1>2, MasksPassed
  <2>2. call = "none"
    BY <2>1 DEF GetNextEvent
  <2> QED
    BY <2>1, <2>2, Zenon DEF Next, EmulatorCalls
<1>3. CASE \E m \in AppMasks, timeout \in {0, 1} : WaitNextEvent(m, timeout)
  <2>1. PICK m \in Masks, timeout \in {0, 1} : WaitNextEvent(m, timeout)
    BY <1>3, MasksPassed
  <2>2. call = "none"
    BY <2>1 DEF WaitNextEvent
  <2> QED
    BY <1>1, <2>1, <2>2, Zenon DEF Next, EmulatorCalls
<1> QED
  BY <1>2, <1>3, Zenon DEF InEventTrap, Next

EventTrapStep ==
  /\ emu = "guest"
  /\ InEventTrap
  /\ emu' = IF call' = "none" THEN "start" ELSE "guest"
  /\ tracked' = IF call' = "none" /\ reply'.what = MouseDown
                THEN reply'.arg ELSE 0
  /\ UNCHANGED <<uiVars, is_running, debugVars>>

LEMMA EventTrapSteps == GetTrap \/ WaitTrap \/ WaitTimesOut => EventTrapStep
<1>1. ASSUME NEW m \in AppMasks, EventTrap(GetNextEvent(m))
      PROVE  EventTrapStep
  <2>1. InEventTrap
    BY <1>1, Zenon DEF EventTrap, InEventTrap
  <2> QED
    BY <1>1, <2>1, Zenon DEF EventTrap, EventTrapStep
<1>2. ASSUME NEW m \in AppMasks, NEW timeout \in {0, 1},
             EventTrap(WaitNextEvent(m, timeout))
      PROVE  EventTrapStep
  <2>1. InEventTrap
    BY <1>2, Zenon DEF EventTrap, InEventTrap
  <2> QED
    BY <1>2, <2>1, Zenon DEF EventTrap, EventTrapStep
<1>3. CASE \/ EventTrap(StartWait) \/ EventTrap(NotifiedWake) \/ EventTrap(Retry)
           \/ EventTrap(TimeOut) \/ EventTrap(Wake)
  <2>1. InEventTrap
    BY <1>3, Zenon DEF EventTrap, InEventTrap
  <2> QED
    BY <1>3, <2>1, Zenon DEF EventTrap, EventTrapStep
<1> QED
  BY <1>1, <1>2, <1>3, Zenon DEF GetTrap, WaitTrap, WaitTimesOut

(* what the emulator thread does of its own, by the part of the queue that  *)
(* it touches                                                               *)
EmulatorStep ==
  \/ LoopTest \/ Prompt \/ Command \/ QueueTrap \/ EventTrapStep
  \/ BeginTracking \/ TrackMouse
  \/ BeginDialog \/ DrainEvents \/ RunDialog \/ DialogEvent
  \/ LeaveModal

LEMMA CyderSteps ==
  [CyderNext]_cyderVars =>
    \/ Poll \/ Quit \/ StopEmulator \/ Signal \/ CloseQueue \/ Join
    \/ EmulatorStep \/ UNCHANGED cyderVars
BY EventTrapSteps, Zenon
   DEF CyderNext, EmulatorThread, MainThread, Done, CommandOnInterrupt, EmulatorStep

LEMMA EmulatorStepsAreEmulatorCalls ==
  ASSUME ThreadsInv, EmulatorStep
  PROVE  [Next]_emVars
<1>1. CASE LoopTest \/ Prompt \/ Command \/ BeginDialog
  BY <1>1, Zenon DEF LoopTest, Prompt, Command, BeginDialog
<1>2. CASE QueueTrap
  BY <1>2, Zenon DEF QueueTrap, Next, EmulatorCalls
<1>3. CASE EventTrapStep
  BY <1>3, TrapStepIsNext, Zenon DEF EventTrapStep
<1>4. CASE BeginTracking
  <2>1. call = "none" /\ ~mouse_move_enabled
    BY <1>4 DEF BeginTracking, EmuStep, ThreadsInv, CallsAndScopes
  <2> QED
    BY <1>4, <2>1, Zenon DEF BeginTracking, Next, EmulatorCalls
<1>5. CASE TrackMouse \/ DrainEvents \/ DialogEvent
  <2>1. PICK m \in Masks : GetNextEvent(m)
    BY <1>5, MasksPassed, Zenon DEF TrackMouse, DrainEvents, DialogEvent
  <2>2. call = "none"
    BY <2>1 DEF GetNextEvent
  <2> QED
    BY <2>1, <2>2, Zenon DEF Next, EmulatorCalls
<1>6. CASE RunDialog
  <2>1. call = "none" /\ ~mouse_move_enabled
    BY <1>6 DEF RunDialog, EmuStep, ThreadsInv, CallsAndScopes
  <2> QED
    BY <1>6, <2>1, Zenon DEF RunDialog, Next, EmulatorCalls
<1>7. CASE LeaveModal
  <2>1. call = "none" /\ mouse_move_enabled
    BY <1>7 DEF LeaveModal, EmuStep, ThreadsInv, CallsAndScopes
  <2> QED
    BY <1>7, <2>1, Zenon DEF LeaveModal, Next, EmulatorCalls
<1> QED
  BY <1>1, <1>2, <1>3, <1>4, <1>5, <1>6, <1>7, Zenon DEF EmulatorStep
-----------------------------------------------------------------------------
(* The threads' invariant                                                   *)

LEMMA InitThreadsInv == CyderInit => ThreadsInv
<1> SUFFICES ASSUME CyderInit PROVE ThreadsInv
  OBVIOUS
<1>1. IInv
  BY InitIInv DEF CyderInit
<1>2. ThreadsTypeOK
  <2>1. clicks \in 0..MaxClicks
    BY CyderAssumption DEF CyderInit
  <2> QED
    BY <2>1 DEF CyderInit, ThreadsTypeOK
<1>3. CallsAndScopes
  BY DEF CyderInit, EventManagerInit, CallsAndScopes
<1> QED
  BY <1>1, <1>2, <1>3 DEF ThreadsInv

LEMMA ThreadsTypeKeeps ==
  ASSUME ThreadsInv, [CyderNext]_cyderVars
  PROVE  ThreadsTypeOK'
<1>1. ThreadsTypeOK
  BY DEF ThreadsInv
<1>2. CASE Poll
  <2>1. CASE Press
    <3>1. /\ clicks' = clicks + 1 /\ clicks < MaxClicks
          /\ held' = held \cup {clicks + 1}
          /\ alone' = IF held = {} THEN alone \cup {clicks + 1} ELSE alone \ held
      BY <2>1 DEF Press, Click
    <3>2. /\ clicks' \in 0..MaxClicks
          /\ held' \subseteq 1..clicks' /\ alone' \subseteq 1..clicks'
      BY <1>1, <3>1, CyderAssumption DEF ThreadsTypeOK
    <3> QED
      BY <1>1, <1>2, <2>1, <3>2 DEF Poll, Press, ThreadsTypeOK, debugVars
  <2>2. CASE Release
    <3>1. /\ clicks' = clicks + 1 /\ clicks < MaxClicks
          /\ held' \subseteq held /\ alone' = alone
      BY <2>2 DEF Release, Click
    <3>2. /\ clicks' \in 0..MaxClicks
          /\ held' \subseteq 1..clicks' /\ alone' \subseteq 1..clicks'
      BY <1>1, <3>1, CyderAssumption DEF ThreadsTypeOK
    <3> QED
      BY <1>1, <1>2, <2>2, <3>2 DEF Poll, Release, ThreadsTypeOK, debugVars
  <2>3. CASE MoveOrKey
    BY <1>1, <1>2, <2>3 DEF Poll, MoveOrKey, ThreadsTypeOK, debugVars, mouse
  <2>4. CASE Break
    BY <1>1, <1>2, <2>4 DEF Poll, Break, ThreadsTypeOK, mouse
  <2> QED
    BY <1>2, <2>1, <2>2, <2>3, <2>4 DEF Poll
<1>3. CASE Quit \/ StopEmulator \/ Signal \/ CloseQueue \/ Join
  BY <1>1, <1>3 DEF Quit, StopEmulator, Signal, CloseQueue, Join, UIStep,
    ThreadsTypeOK, mouse, debugVars
<1>4. CASE LoopTest \/ Prompt \/ Command
  BY <1>1, <1>4 DEF LoopTest, Prompt, Command, EmuStep, ThreadsTypeOK, uiVars, mouse, debugVars
<1>5. CASE QueueTrap \/ BeginTracking \/ BeginDialog \/ RunDialog \/ LeaveModal
  BY <1>1, <1>5 DEF QueueTrap, BeginTracking, BeginDialog, RunDialog, LeaveModal,
    EmuStep, ThreadsTypeOK, uiVars, mouse, debugVars
<1>6. CASE EventTrapStep \/ TrackMouse \/ DrainEvents \/ DialogEvent
  BY <1>1, <1>6 DEF EventTrapStep, TrackMouse, DrainEvents, DialogEvent,
    ThreadsTypeOK, uiVars, mouse, debugVars
<1>7. CASE UNCHANGED cyderVars
  BY <1>1, <1>7 DEF cyderVars, ThreadsTypeOK, uiVars, mouse, debugVars
<1> QED
  BY <1>2, <1>3, <1>4, <1>5, <1>6, <1>7, CyderSteps DEF EmulatorStep

(* what the UI thread's queueing leaves to the emulator thread              *)
LEMMA UIKeepsScopes ==
  ASSUME ThreadsInv, Poll \/ Quit \/ StopEmulator \/ Signal \/ CloseQueue \/ Join
  PROVE  UNCHANGED <<call, call_mask, mouse_move_enabled, emu, tracked, reply,
                     activate_events, update_events>>
<1>1. CASE Poll /\ (Press \/ Release \/ MoveOrKey)
  BY <1>1 DEF Press, Release, MoveOrKey, QueueMouseDown, QueueMouseUp,
    QueueKeyDown, QueueInput, OnMouseMove, NotifyAll, flags, waiting, Poll
<1>2. CASE Poll /\ Break
  BY <1>2 DEF Break, Poll, emVars, queues, flags, waiting
<1>3. CASE CloseQueue
  BY <1>3 DEF CloseQueue, UIStep, Shutdown, NotifyAll, queues
<1>4. CASE Quit \/ StopEmulator \/ Signal \/ Join
  BY <1>4 DEF Quit, StopEmulator, Signal, Join, UIStep, emVars, queues, flags, waiting
<1> QED
  BY <1>1, <1>2, <1>3, <1>4 DEF Poll

LEMMA TrapKeepsScopes ==
  ASSUME ThreadsInv, InEventTrap, emu = "guest"
  PROVE  /\ UNCHANGED mouse_move_enabled
         /\ call' # "none" => call_mask' \in AppMasks
<1>1. CASE \E m \in AppMasks : GetNextEvent(m)
  BY <1>1 DEF GetNextEvent, Probe, flags, waiting, ThreadsInv, CallsAndScopes
<1>2. CASE \E m \in AppMasks, timeout \in {0, 1} : WaitNextEvent(m, timeout)
  BY <1>2 DEF WaitNextEvent, Probe, flags, waiting, ThreadsInv, CallsAndScopes
<1>3. CASE StartWait \/ NotifiedWake \/ Wake \/ TimeOut
  BY <1>3 DEF StartWait, NotifiedWake, Wake, TimeOut, ReturnNull, Return, GoTo,
    flags, ThreadsInv, CallsAndScopes
<1>4. CASE Retry
  BY <1>4 DEF Retry, Return, Probe, flags
<1> QED
  BY <1>1, <1>2, <1>3, <1>4 DEF InEventTrap

LEMMA ScopesKeep ==
  ASSUME ThreadsInv, [CyderNext]_cyderVars
  PROVE  CallsAndScopes'
<1>1. CallsAndScopes /\ emu \in {"start", "prompt", "reading", "guest", "drag", "menu",
              "draining", "drained", "dialog", "leaving", "finished"}
  BY DEF ThreadsInv, ThreadsTypeOK
<1>2. CASE Poll \/ Quit \/ StopEmulator \/ Signal \/ CloseQueue \/ Join
  BY <1>1, <1>2, UIKeepsScopes DEF CallsAndScopes
<1>3. CASE LoopTest \/ Prompt \/ Command \/ BeginDialog
  BY <1>1, <1>3 DEF LoopTest, Prompt, Command, BeginDialog, EmuStep, emVars, flags,
    waiting, CallsAndScopes
<1>4. CASE QueueTrap
  <2>1. UNCHANGED <<call, call_mask, mouse_move_enabled>>
    BY <1>4 DEF QueueTrap, QueueWindowActivate, QueueWindowUpdate, QueueRawEvent,
      NotifyAll, flags, waiting, emVars
  <2> QED
    BY <1>1, <1>4, <2>1 DEF QueueTrap, EmuStep, CallsAndScopes
<1>5. CASE EventTrapStep
  BY <1>1, <1>5, TrapKeepsScopes DEF EventTrapStep, CallsAndScopes
<1>6. CASE BeginTracking \/ RunDialog
  BY <1>1, <1>6 DEF BeginTracking, RunDialog, EmuStep, EnableMouseMove, waiting,
    CallsAndScopes
<1>7. CASE TrackMouse \/ DrainEvents \/ DialogEvent
  BY <1>1, <1>7 DEF TrackMouse, DrainEvents, DialogEvent, GetNextEvent, Probe, flags,
    waiting, CallsAndScopes
<1>8. CASE LeaveModal
  BY <1>1, <1>8 DEF LeaveModal, EmuStep, RejectMouseMove, waiting, CallsAndScopes
<1>9. CASE UNCHANGED cyderVars
  BY <1>1, <1>9 DEF cyderVars, emVars, flags, waiting, CallsAndScopes
<1> QED
  BY <1>2, <1>3, <1>4, <1>5, <1>6, <1>7, <1>8, <1>9, CyderSteps DEF EmulatorStep

LEMMA ThreadsStep ==
  ASSUME ThreadsInv, [CyderNext]_cyderVars
  PROVE  [Next]_emVars /\ ThreadsInv'
<1>1. [Next]_emVars
  BY CyderSteps, UIStepsAreUIThread, EmulatorStepsAreEmulatorCalls DEF cyderVars
<1>2. IInv'
  BY <1>1, StepKeepsIInv DEF ThreadsInv
<1> QED
  BY <1>1, <1>2, ThreadsTypeKeeps, ScopesKeep DEF ThreadsInv

(* The queue is used as EventManager supposes: one emulator thread in it,   *)
(* no WaitNextEvent in the scope of a MouseMoveEnabler, no nested scope.    *)
THEOREM TheQueueIsUsedAsSupposed == CyderSpec => UsesEventManager
<1>1. CyderInit => EventManagerInit /\ ThreadsInv
  BY InitThreadsInv DEF CyderInit
<1>2. ThreadsInv /\ [CyderNext]_cyderVars => [Next]_emVars /\ ThreadsInv'
  BY ThreadsStep
<1> QED
  BY <1>1, <1>2, PTL DEF CyderSpec, UsesEventManager

(* so the UI thread's notifications are enough in the whole program         *)
THEOREM NoWakeupIsLostInCyder == CyderSpec => []NoLostWakeup
<1>1. CyderInit => ThreadsInv
  BY InitThreadsInv
<1>2. ThreadsInv /\ [CyderNext]_cyderVars => ThreadsInv'
  BY ThreadsStep
<1>3. ThreadsInv => NoLostWakeup
  BY DEF ThreadsInv, IInv
<1> QED
  BY <1>1, <1>2, <1>3, PTL DEF CyderSpec
-----------------------------------------------------------------------------
(* The story of the mouse                                                   *)

IsDown(e) == e.what = MouseDown
IsUp(e) == e.what = MouseUp
IsMouse(e) == IsDown(e) \/ IsUp(e)

Queued == 1..Len(input_events)
DownQueued(p) ==
  \E i \in Queued : IsDown(input_events[i]) /\ input_events[i].arg = p
UpQueued(n) ==
  \E i \in Queued : IsUp(input_events[i]) /\ input_events[i].arg = n

(* The mouse events queued carry the numbers of clicks that were made, in   *)
(* the order they were made in.                                             *)
Numbered ==
  \A i \in Queued : IsMouse(input_events[i]) => input_events[i].arg \in 1..clicks
InOrder ==
  \A i, j \in Queued :
    i < j /\ IsMouse(input_events[i]) /\ IsMouse(input_events[j]) =>
      input_events[i].arg < input_events[j].arg

(* A press that was alone from its beginning and is still held was the last *)
(* click; no press has the number of a release.                             *)
ButtonsHeld ==
  /\ held \subseteq 1..clicks /\ alone \subseteq 1..clicks
  /\ \A p \in held : ~UpQueued(p)
  /\ \A p \in alone \cap held : held = {p} /\ p = clicks

(* The presses that still have a release to come for them: those queued,    *)
(* and the one tracked, t, if there is one (0 if not).                      *)
Open(t) == {p \in 1..clicks : DownQueued(p) \/ p = t}

(* everything queued is younger than press t                                *)
Oldest(t) ==
  /\ t \in 1..clicks
  /\ \A i \in Queued : IsMouse(input_events[i]) => input_events[i].arg > t

(* a press that was alone is held, or the next click, its release, is queued *)
OwnReleasesQueued(O) == \A d \in O \cap alone : d \in held \/ UpQueued(d + 1)

(* A release for each press of O, no two with the same: one queued that is  *)
(* younger than the press, or the one of a button still held.  Those of the *)
(* presses before one that was alone were all made before it.               *)
Pays(f, O) ==
  /\ f \in [O -> 1..clicks]
  /\ \A p, q \in O : f[p] = f[q] => p = q
  /\ \A p \in O : f[p] \in held \/ (UpQueued(f[p]) /\ f[p] > p)
  /\ \A p, d \in O : d \in alone /\ p < d => UpQueued(f[p]) /\ f[p] < d

Paid(O) == \E f : Pays(f, O)

(* the user's story in the list of input events, while press t is tracked   *)
Story(t) ==
  /\ Numbered /\ InOrder /\ ButtonsHeld
  /\ t # 0 => Oldest(t)
  /\ OwnReleasesQueued(Open(t))
  /\ Paid(Open(t))

(* only the UI thread queues mouse events                                   *)
NoMouse(q) == \A i \in 1..Len(q) : ~IsMouse(q[i])

Following == IF emu = "leaving" THEN 0 ELSE tracked

(* what the drag or the menu that is over has found                         *)
FoundRelease ==
  /\ tracked \in 1..clicks /\ IsUp(reply) /\ reply.arg > tracked
  /\ tracked \in alone => reply.arg = tracked + 1

TrackedWhenNeeded ==
  /\ emu \in {"drag", "menu"} => tracked # 0
  /\ emu \in {"draining", "drained", "dialog"} => tracked = 0
  /\ emu = "leaving" /\ tracked # 0 => FoundRelease

MouseInv ==
  /\ NoMouse(activate_events) /\ NoMouse(update_events)
  /\ \E t \in Nat : t = Following /\ Story(t)
  /\ TrackedWhenNeeded

LEMMA UpIsNotDown == \A e : ~(IsDown(e) /\ IsUp(e))
BY DEF IsDown, IsUp, MouseDown, MouseUp

(* Who pays for some presses pays for fewer of them, while the releases     *)
(* that count stay queued.                                                  *)
LEMMA FewerArePaid ==
  ASSUME NEW f, NEW O, Pays(f, O), NEW P, P \subseteq O,
         UNCHANGED <<held, clicks, alone>>,
         \A p \in P : UpQueued(f[p]) => UpQueued(f[p])'
  PROVE  Paid(P)'
<1> DEFINE g == [p \in P |-> f[p]]
<1>1. g \in [P -> 1..clicks'] /\ \A p \in P : g[p] = f[p]
  BY DEF Pays
<1> HIDE DEF g
<1>2. \A p, q \in P : g[p] = g[q] => p = q
  BY <1>1 DEF Pays
<1>3. \A p \in P : g[p] \in held' \/ (UpQueued(g[p])' /\ g[p] > p)
  BY <1>1 DEF Pays
<1>4. \A p, d \in P : d \in alone' /\ p < d => UpQueued(g[p])' /\ g[p] < d
  BY <1>1 DEF Pays
<1>5. Pays(g, P)'
  BY <1>1, <1>2, <1>3, <1>4 DEF Pays
<1> QED
  BY <1>5 DEF Paid

(* a list and that list with one more event                                 *)
Extended(q, e, t) ==
  /\ Len(q) \in Nat /\ Len(t) = Len(q) + 1
  /\ t[Len(q) + 1] = e
  /\ \A i \in 1..Len(q) : t[i] = q[i]

LEMMA AppendExtends ==
  ASSUME NEW q \in Seq(Event), NEW e \in Event
  PROVE  Extended(q, e, Append(q, e))
BY DEF Extended

(* one more event, not of the mouse or of the latest click                  *)
LEMMA Appended ==
  ASSUME Numbered, InOrder, clicks \in Nat, clicks' \in Nat, clicks <= clicks',
         NEW e, Extended(input_events, e, input_events'),
         IsMouse(e) => e.arg = clicks' /\ clicks < clicks'
  PROVE  /\ Numbered' /\ InOrder'
         /\ \A p : DownQueued(p)' <=> DownQueued(p) \/ (IsDown(e) /\ e.arg = p)
         /\ \A p : UpQueued(p)' <=> UpQueued(p) \/ (IsUp(e) /\ e.arg = p)
         /\ \A t : t <= clicks /\ Oldest(t) => Oldest(t)'
<1>1. PICK n \in Nat : n = Len(input_events) /\ Len(input_events') = n + 1
  BY DEF Extended
<1>2. \A i \in 1..n : input_events'[i] = input_events[i]
  BY <1>1 DEF Extended
<1>3. input_events'[n + 1] = e
  BY <1>1 DEF Extended
<1>4. \A i \in 1..n : IsMouse(input_events[i]) => input_events[i].arg \in 1..clicks
  BY <1>1 DEF Numbered, Queued
<1>5. Numbered'
  BY <1>1, <1>2, <1>3, <1>4 DEF Numbered, Queued
<1>6. InOrder'
  BY <1>1, <1>2, <1>3, <1>4 DEF InOrder, Queued
<1>7. \A p : DownQueued(p)' <=> DownQueued(p) \/ (IsDown(e) /\ e.arg = p)
  BY <1>1, <1>2, <1>3 DEF DownQueued, Queued
<1>8. \A p : UpQueued(p)' <=> UpQueued(p) \/ (IsUp(e) /\ e.arg = p)
  BY <1>1, <1>2, <1>3 DEF UpQueued, Queued
<1>9. ASSUME NEW t, t <= clicks, Oldest(t)
      PROVE  Oldest(t)'
  BY <1>1, <1>2, <1>3, <1>9 DEF Oldest, Queued
<1> QED
  BY <1>5, <1>6, <1>7, <1>8, <1>9

(* an event that is not of the mouse changes nothing of the story           *)
LEMMA QuietAppend ==
  ASSUME NEW t, Story(t), clicks \in Nat, NEW e, ~IsMouse(e),
         Extended(input_events, e, input_events'), UNCHANGED mouse
  PROVE  Story(t)'
<1>1. UNCHANGED <<held, clicks, alone>>
  BY DEF mouse
<1>2. /\ Numbered' /\ InOrder'
      /\ \A p : DownQueued(p)' <=> DownQueued(p)
      /\ \A p : UpQueued(p)' <=> UpQueued(p)
      /\ \A s : s <= clicks /\ Oldest(s) => Oldest(s)'
  BY <1>1, Appended DEF Story, IsMouse
<1>3. Open(t)' = Open(t)
  BY <1>1, <1>2 DEF Open
<1>4. ButtonsHeld'
  BY <1>1, <1>2 DEF Story, ButtonsHeld
<1>5. t # 0 => Oldest(t)'
  BY <1>2 DEF Story, Oldest
<1>6. OwnReleasesQueued(Open(t))'
  BY <1>1, <1>2, <1>3 DEF Story, OwnReleasesQueued
<1>7. PICK f : Pays(f, Open(t))
  BY DEF Story, Paid
<1>8. Paid(Open(t))'
  BY <1>1, <1>2, <1>3, <1>7, FewerArePaid DEF Paid
<1> QED
  BY <1>2, <1>4, <1>5, <1>6, <1>8 DEF Story

(* A press is paid with the button it holds down.                           *)
LEMMA PressTells ==
  ASSUME NEW t \in Nat, Story(t), clicks \in Nat, NEW e, IsDown(e), e.arg = clicks + 1,
         Extended(input_events, e, input_events'),
         clicks' = clicks + 1, held' = held \cup {clicks + 1},
         alone' = IF held = {} THEN alone \cup {clicks + 1} ELSE alone \ held
  PROVE  Story(t)'
<1>1. PICK n \in Nat : n = clicks + 1 /\ n \notin 1..clicks
  OBVIOUS
<1>2. /\ Numbered' /\ InOrder'
      /\ \A p : DownQueued(p)' <=> DownQueued(p) \/ p = n
      /\ \A p : UpQueued(p)' <=> UpQueued(p)
      /\ \A s : s <= clicks /\ Oldest(s) => Oldest(s)'
  BY <1>1, Appended, UpIsNotDown DEF Story, IsMouse
<1>3. \A p : UpQueued(p) => p \in 1..clicks
  BY DEF Story, Numbered, UpQueued, IsMouse
<1>4. held \subseteq 1..clicks /\ alone \subseteq 1..clicks /\ \A p \in held : ~UpQueued(p)
  BY DEF Story, ButtonsHeld
<1>5. ButtonsHeld'
  <2>1. held' \subseteq 1..clicks' /\ alone' \subseteq 1..clicks'
    BY <1>1, <1>4
  <2>2. \A p \in held' : ~UpQueued(p)'
    BY <1>1, <1>2, <1>3, <1>4
  <2>3. \A p \in alone' \cap held' : held' = {p} /\ p = clicks'
    BY <1>1, <1>4
  <2> QED
    BY <2>1, <2>2, <2>3 DEF ButtonsHeld
<1>6. t # 0 => Oldest(t)'
  BY <1>2 DEF Story, Oldest
<1>7. t \in 0..clicks
  BY DEF Story, Oldest
<1>8. Open(t)' = Open(t) \cup {n} /\ Open(t) \subseteq 1..clicks
  BY <1>1, <1>2, <1>7 DEF Open
<1>9. OwnReleasesQueued(Open(t))'
  <2>1. ASSUME NEW d \in Open(t), d \in alone'
        PROVE  d \in held' \/ UpQueued(d + 1)'
    BY <1>1, <1>2, <1>8, <2>1 DEF Story, OwnReleasesQueued
  <2> QED
    BY <1>1, <1>8, <2>1 DEF OwnReleasesQueued
<1>10. PICK f : Pays(f, Open(t))
  BY DEF Story, Paid
<1>11. PICK g : g = [p \in Open(t) \cup {n} |-> IF p = n THEN n ELSE f[p]]
  OBVIOUS
<1>12. f \in [Open(t) -> 1..clicks] /\ n \notin Open(t)
  BY <1>1, <1>8, <1>10 DEF Pays
<1>13. /\ g \in [Open(t) \cup {n} -> 1..clicks']
       /\ g[n] = n /\ \A p \in Open(t) : g[p] = f[p] /\ f[p] \in 1..clicks
  BY <1>1, <1>12, <1>11
<1>14. \A p, q \in Open(t) \cup {n} : g[p] = g[q] => p = q
  BY <1>1, <1>10, <1>13 DEF Pays
<1>15. \A p \in Open(t) \cup {n} : g[p] \in held' \/ (UpQueued(g[p])' /\ g[p] > p)
  BY <1>1, <1>2, <1>10, <1>13 DEF Pays
<1>16. ASSUME NEW p \in Open(t) \cup {n}, NEW d \in Open(t) \cup {n}, d \in alone', p < d
       PROVE  UpQueued(g[p])' /\ g[p] < d
  <2>1. p \in Open(t) /\ g[p] = f[p] /\ f[p] \in 1..clicks
    BY <1>1, <1>8, <1>13, <1>16
  <2>2. CASE d = n
    <3>1. held = {}
      BY <1>1, <1>4, <1>16, <2>2
    <3> QED
      BY <1>1, <1>2, <1>10, <2>1, <2>2, <3>1 DEF Pays
  <2>3. CASE d # n
    BY <1>1, <1>2, <1>10, <1>16, <2>1, <2>3 DEF Pays
  <2> QED
    BY <2>2, <2>3
<1>17. Pays(g, Open(t))'
  BY <1>8, <1>13, <1>14, <1>15, <1>16 DEF Pays
<1> QED
  BY <1>2, <1>5, <1>6, <1>9, <1>17 DEF Story, Paid

(* A release pays for the press that its button paid for till then.         *)
LEMMA ReleaseTells ==
  ASSUME NEW t \in Nat, Story(t), clicks \in Nat, NEW e, IsUp(e), e.arg = clicks + 1,
         Extended(input_events, e, input_events'),
         clicks' = clicks + 1, UNCHANGED alone,
         NEW h \in held, held' = held \ {h}
  PROVE  Story(t)'
<1>1. PICK n \in Nat : n = clicks + 1 /\ n \notin 1..clicks
  OBVIOUS
<1>2. /\ Numbered' /\ InOrder'
      /\ \A p : DownQueued(p)' <=> DownQueued(p)
      /\ \A p : UpQueued(p)' <=> UpQueued(p) \/ p = n
      /\ \A s : s <= clicks /\ Oldest(s) => Oldest(s)'
  BY <1>1, Appended, UpIsNotDown DEF Story, IsMouse
<1>3. \A p : DownQueued(p) => p \in 1..clicks
  BY DEF Story, Numbered, DownQueued, IsMouse
<1>4. /\ held \subseteq 1..clicks /\ alone \subseteq 1..clicks
      /\ \A p \in held : ~UpQueued(p)
      /\ \A p \in alone \cap held : held = {p} /\ p = clicks
  BY DEF Story, ButtonsHeld
<1>5. ButtonsHeld'
  <2>1. held' \subseteq 1..clicks' /\ alone' \subseteq 1..clicks'
    BY <1>1, <1>4
  <2>2. \A p \in held' : ~UpQueued(p)'
    BY <1>1, <1>2, <1>4
  <2>3. \A p \in alone' \cap held' : held' = {p} /\ p = clicks'
    BY <1>4
  <2> QED
    BY <2>1, <2>2, <2>3 DEF ButtonsHeld
<1>6. t # 0 => Oldest(t)'
  BY <1>2 DEF Story, Oldest
<1>7. t \in 0..clicks
  BY DEF Story, Oldest
<1>8. Open(t)' = Open(t) /\ Open(t) \subseteq 1..clicks
  BY <1>1, <1>2, <1>3, <1>7 DEF Open
<1>9. OwnReleasesQueued(Open(t))'
  <2>1. ASSUME NEW d \in Open(t), d \in alone
        PROVE  d \in held' \/ UpQueued(d + 1)'
    BY <1>1, <1>2, <1>4, <2>1 DEF Story, OwnReleasesQueued
  <2> QED
    BY <1>8, <2>1 DEF OwnReleasesQueued
<1>10. PICK f : Pays(f, Open(t))
  BY DEF Story, Paid
<1>11. PICK g : g = [p \in Open(t) |-> IF f[p] = h THEN n ELSE f[p]]
  OBVIOUS
<1>12. f \in [Open(t) -> 1..clicks]
  BY <1>10 DEF Pays
<1>13. /\ g \in [Open(t) -> 1..clicks']
       /\ \A p \in Open(t) : f[p] \in 1..clicks /\ g[p] = IF f[p] = h THEN n ELSE f[p]
  BY <1>1, <1>12, <1>11
<1>14. \A p, q \in Open(t) : g[p] = g[q] => p = q
  BY <1>1, <1>10, <1>13 DEF Pays
<1>15. ASSUME NEW p \in Open(t)
       PROVE  g[p] \in held' \/ (UpQueued(g[p])' /\ g[p] > p)
  <2>1. p \in 1..clicks /\ (f[p] \in held \/ (UpQueued(f[p]) /\ f[p] > p))
    BY <1>8, <1>10 DEF Pays
  <2> QED
    BY <1>1, <1>2, <1>13, <2>1
<1>16. ASSUME NEW p \in Open(t), NEW d \in Open(t), d \in alone, p < d
       PROVE  UpQueued(g[p])' /\ g[p] < d
  <2>1. UpQueued(f[p]) /\ f[p] < d
    BY <1>10, <1>16 DEF Pays
  <2>2. f[p] # h
    BY <1>4, <2>1
  <2> QED
    BY <1>2, <1>13, <2>1, <2>2
<1>17. Pays(g, Open(t))'
  BY <1>8, <1>13, <1>14, <1>15, <1>16 DEF Pays
<1> QED
  BY <1>2, <1>5, <1>6, <1>9, <1>17 DEF Story, Paid

(* the list without its k-th event: what remains, and in which order        *)
LEMMA WhatRemains ==
  ASSUME input_events \in Seq(Event), NEW k \in Queued,
         Without(input_events, k, input_events')
  PROVE  /\ \A i \in Queued : i # k => \E j \in Queued' : input_events'[j] = input_events[i]
         /\ \A j \in Queued' : \E i \in Queued :
              i # k /\ input_events'[j] = input_events[i]
         /\ \A j, m \in Queued' : j < m =>
              \E i, l \in Queued : /\ i < l /\ i # k /\ l # k
                                   /\ input_events'[j] = input_events[i]
                                   /\ input_events'[m] = input_events[l]
<1>1. PICK n \in Nat : n = Len(input_events) /\ k \in 1..n /\ Len(input_events') = n - 1
  BY LenProperties DEF Without, Queued
<1>2. \A j \in 1..n - 1 :
        input_events'[j] = IF j < k THEN input_events[j] ELSE input_events[j + 1]
  BY <1>1 DEF Without
<1>3. ASSUME NEW i \in 1..n, i # k
      PROVE  \E j \in 1..n - 1 : input_events'[j] = input_events[i]
  <2>1. CASE i < k
    <3>1. i \in 1..n - 1
      BY <1>1, <2>1
    <3> QED
      BY <1>2, <2>1, <3>1
  <2>2. CASE ~(i < k)
    <3>1. i - 1 \in 1..n - 1 /\ ~(i - 1 < k) /\ (i - 1) + 1 = i
      BY <1>1, <1>3, <2>2
    <3> QED
      BY <1>2, <3>1
  <2> QED
    BY <2>1, <2>2
<1> DEFINE Was(j) == IF j < k THEN j ELSE j + 1
<1>4. \A j \in 1..n - 1 :
        Was(j) \in 1..n /\ Was(j) # k /\ input_events'[j] = input_events[Was(j)]
  BY <1>1, <1>2
<1>5. \A j, m \in 1..n - 1 : j < m => Was(j) < Was(m)
  BY <1>1
<1> HIDE DEF Was
<1>6. Queued = 1..n /\ Queued' = 1..n - 1
  BY <1>1 DEF Queued
<1>7. \A j \in Queued' : \E i \in Queued : i # k /\ input_events'[j] = input_events[i]
  BY <1>4, <1>6, Zenon
<1>8. ASSUME NEW j \in Queued', NEW m \in Queued', j < m
      PROVE  \E i, l \in Queued : /\ i < l /\ i # k /\ l # k
                                   /\ input_events'[j] = input_events[i]
                                   /\ input_events'[m] = input_events[l]
  BY <1>4, <1>5, <1>6, <1>8, Zenon
<1>9. \A i \in Queued : i # k => \E j \in Queued' : input_events'[j] = input_events[i]
  BY <1>3, <1>6
<1> QED
  BY <1>7, <1>8, <1>9

(* what taking the k-th event does to the queued clicks                     *)
LEMMA Removed ==
  ASSUME Numbered, InOrder, input_events \in Seq(Event), NEW k \in Queued,
         Without(input_events, k, input_events'), UNCHANGED clicks
  PROVE  /\ Numbered' /\ InOrder'
         /\ \A p : DownQueued(p)' => DownQueued(p)
         /\ \A p : UpQueued(p)' => UpQueued(p)
         /\ \A p : UpQueued(p) =>
              UpQueued(p)' \/ (IsUp(input_events[k]) /\ input_events[k].arg = p)
         /\ \A t : /\ t \in 1..clicks
                   /\ \A i \in Queued : i # k /\ IsMouse(input_events[i]) =>
                        input_events[i].arg > t
                   => Oldest(t)'
<1>1. \A i \in Queued : i # k => \E j \in Queued' : input_events'[j] = input_events[i]
  BY WhatRemains
<1>2. \A j \in Queued' : \E i \in Queued : i # k /\ input_events'[j] = input_events[i]
  BY WhatRemains
<1>3. \A j, m \in Queued' : j < m =>
        \E i, l \in Queued : /\ i < l
                             /\ input_events'[j] = input_events[i]
                             /\ input_events'[m] = input_events[l]
  BY WhatRemains
<1>4. Numbered'
  BY <1>2 DEF Numbered
<1>5. InOrder'
  BY <1>3 DEF InOrder
<1>6. \A p : DownQueued(p)' => DownQueued(p)
  BY <1>2 DEF DownQueued
<1>7. \A p : UpQueued(p)' => UpQueued(p)
  BY <1>2 DEF UpQueued
<1>8. ASSUME NEW p, UpQueued(p), ~(IsUp(input_events[k]) /\ input_events[k].arg = p)
      PROVE  UpQueued(p)'
  BY <1>1, <1>8 DEF UpQueued
<1>9. ASSUME NEW t \in 1..clicks,
             \A i \in Queued : i # k /\ IsMouse(input_events[i]) => input_events[i].arg > t
      PROVE  Oldest(t)'
  BY <1>2, <1>9 DEF Oldest
<1> QED
  BY <1>4, <1>5, <1>6, <1>7, <1>8, <1>9

(* Taking an event leaves the story, unless it takes a release that is not  *)
(* older than all presses open.  Afterwards press s may be tracked, if it   *)
(* was open and is the oldest, or none.                                     *)
LEMMA TakingTells ==
  ASSUME NEW t \in Nat, Story(t), clicks \in Nat, input_events \in Seq(Event),
         NEW k \in Queued, Without(input_events, k, input_events'), UNCHANGED mouse,
         IsUp(input_events[k]) => \A p \in Open(t) : p > input_events[k].arg,
         NEW s \in Nat,
         s # 0 => /\ s \in Open(t)
                  /\ \A i \in Queued : i # k /\ IsMouse(input_events[i]) =>
                       input_events[i].arg > s
  PROVE  Story(s)'
<1>1. UNCHANGED <<held, clicks, alone>>
  BY DEF mouse
<1>2. PICK u : u = input_events[k].arg
  OBVIOUS
<1>3. /\ Numbered' /\ InOrder'
      /\ \A p : DownQueued(p)' => DownQueued(p)
      /\ \A p : UpQueued(p)' => UpQueued(p)
      /\ \A p : UpQueued(p) => UpQueued(p)' \/ (IsUp(input_events[k]) /\ p = u)
      /\ \A p : /\ p \in 1..clicks
                /\ \A i \in Queued : i # k /\ IsMouse(input_events[i]) =>
                     input_events[i].arg > p
                => Oldest(p)'
  BY <1>1, <1>2, Removed DEF Story
<1>4. Open(s)' \subseteq Open(t) /\ Open(t) \subseteq 1..clicks
  BY <1>1, <1>3 DEF Open
<1>5. IsUp(input_events[k]) => u \in 1..clicks /\ \A p \in Open(t) : p > u
  BY <1>2 DEF Story, Numbered, IsMouse
<1>6. ButtonsHeld'
  BY <1>1, <1>3 DEF Story, ButtonsHeld
<1>7. s # 0 => Oldest(s)'
  BY <1>3, <1>4 DEF Open
<1>8. OwnReleasesQueued(Open(s))'
  <2>1. ASSUME NEW d \in Open(t), d \in alone
        PROVE  d \in held \/ UpQueued(d + 1)'
    <3>1. IsUp(input_events[k]) => d + 1 # u
      BY <1>4, <1>5, <2>1
    <3> QED
      BY <1>3, <2>1, <3>1 DEF Story, OwnReleasesQueued
  <2> QED
    BY <1>1, <1>4, <2>1 DEF OwnReleasesQueued
<1>9. PICK f : Pays(f, Open(t))
  BY DEF Story, Paid
<1>10. ASSUME NEW p \in Open(t), UpQueued(f[p])
       PROVE  UpQueued(f[p])'
  <2>1. f[p] > p /\ f[p] \in 1..clicks
    BY <1>9, <1>10 DEF Pays, Story, ButtonsHeld
  <2>2. IsUp(input_events[k]) => f[p] # u
    BY <1>4, <1>5, <2>1
  <2> QED
    BY <1>3, <1>10, <2>2
<1>11. PICK P : P = Open(s)'
  OBVIOUS
<1>12. Paid(P)'
  BY <1>1, <1>4, <1>9, <1>10, <1>11, FewerArePaid
<1>13. Paid(Open(s))'
  BY <1>11, <1>12 DEF Paid, Pays
<1> QED
  BY <1>3, <1>6, <1>7, <1>8, <1>13 DEF Story
-----------------------------------------------------------------------------
(* What a probe of the queue takes                                          *)

(* the k-th input event, the first one the mask has                         *)
Takes(mask, k) ==
  /\ input_events[k].what \in mask
  /\ \A j \in Queued : input_events[j].what \in mask => k <= j
  /\ reply' = input_events[k]
  /\ Without(input_events, k, input_events')

(* nothing of the user's, and nothing of the user's is queued either        *)
TakesNoInput == UNCHANGED input_events /\ ~IsMouse(reply')

NoMouseElsewhere == NoMouse(activate_events) /\ NoMouse(update_events)

LEMMA TailHasNoMouse ==
  ASSUME NEW q \in Seq(Event), q # <<>>, NoMouse(q)
  PROVE  ~IsMouse(Head(q)) /\ NoMouse(Tail(q))
<1>1. PICK n \in Nat : n = Len(q) /\ n > 0
  OBVIOUS
<1>2. Head(q) = q[1] /\ Len(Tail(q)) = n - 1 /\ \A i \in 1..n - 1 : Tail(q)[i] = q[i + 1]
  BY <1>1
<1>3. \A i \in 1..n : ~IsMouse(q[i])
  BY <1>1 DEF NoMouse
<1>4. ASSUME NEW i \in 1..Len(Tail(q))
      PROVE  ~IsMouse(Tail(q)[i])
  <2>1. i + 1 \in 1..n /\ Tail(q)[i] = q[i + 1]
    BY <1>1, <1>2
  <2> QED
    BY <1>3, <2>1
<1> QED
  BY <1>1, <1>2, <1>3, <1>4 DEF NoMouse

LEMMA ProbeTakes ==
  ASSUME TypeOK, NoMouseElsewhere, NEW mask, Probe(mask)
  PROVE  /\ NoMouseElsewhere'
         /\ TakesNoInput \/ \E k \in Queued : Takes(mask, k)
<1>1. CASE TakeActivate(mask)
  BY <1>1, TailHasNoMouse DEF TakeActivate, ActivateEnabled, TypeOK, NoMouseElsewhere,
    TakesNoInput
<1>2. CASE TakeUpdate(mask)
  BY <1>2, TailHasNoMouse DEF TakeUpdate, UpdateEnabled, TypeOK, NoMouseElsewhere,
    TakesNoInput
<1>3. CASE TakeNothing(mask)
  BY <1>3 DEF TakeNothing, queues, NoMouseElsewhere, TakesNoInput, NoEvent, IsMouse,
    IsDown, IsUp, NullEvent, MouseDown, MouseUp
<1>4. CASE TakeInput(mask)
  <2>1. input_events \in Seq(Event) /\ FirstIn(input_events, mask) # 0
    BY <1>4 DEF TypeOK, TakeInput, InputEnabled
  <2>2. PICK k \in Queued : k = FirstIn(input_events, mask)
    BY <2>1, FirstInFinds DEF Queued
  <2>3. input_events[k].what \in mask
    BY <2>1, <2>2, FirstInFinds
  <2>4. \A j \in Queued : input_events[j].what \in mask => k <= j
    BY <2>1, <2>2, FirstInIsFirst DEF Queued
  <2>5. reply' = input_events[k] /\ input_events' = RemoveAt(input_events, k)
    BY <1>4, <2>2 DEF TakeInput
  <2>6. Without(input_events, k, input_events')
    BY <2>1, <2>5, RemoveAtIsWithout DEF Queued
  <2>7. NoMouseElsewhere'
    BY <1>4 DEF TakeInput, NoMouseElsewhere
  <2> QED
    BY <2>3, <2>4, <2>5, <2>6, <2>7 DEF Takes
<1> QED
  BY <1>1, <1>2, <1>3, <1>4 DEF Probe

TakesPairs(mask) == MouseDown \in mask <=> MouseUp \in mask

(* When nothing is tracked any more the rest of the story is as it was.     *)
LEMMA Forgetting ==
  ASSUME NEW t \in Nat, Story(t), clicks \in Nat
  PROVE  Story(0)
<1>1. Open(0) \subseteq Open(t)
  BY DEF Open
<1>2. OwnReleasesQueued(Open(0))
  BY <1>1 DEF Story, OwnReleasesQueued
<1>3. PICK f : Pays(f, Open(t))
  BY DEF Story, Paid
<1>4. PICK g : g = [p \in Open(0) |-> f[p]]
  OBVIOUS
<1>5. g \in [Open(0) -> 1..clicks] /\ \A p \in Open(0) : g[p] = f[p]
  BY <1>1, <1>3, <1>4 DEF Pays
<1>6. Pays(g, Open(0))
  BY <1>1, <1>3, <1>5 DEF Pays
<1> QED
  BY <1>2, <1>6 DEF Story, Paid

(* A mask with both bits takes the mouse's events in their order, so what   *)
(* is taken is older than everything of the mouse that stays.               *)
LEMMA PairsAreTakenInOrder ==
  ASSUME Story(0), clicks \in Nat, input_events \in Seq(Event),
         UNCHANGED mouse, NEW mask, TakesPairs(mask),
         NEW k \in Queued, Takes(mask, k)
  PROVE  /\ Story(0)'
         /\ IsDown(reply') => \E p \in Nat : p = reply'.arg /\ Story(p)'
<1>1. k \in Nat /\ Queued \subseteq Nat
  BY LenProperties DEF Queued
<1>2. Without(input_events, k, input_events') /\ reply' = input_events[k]
  BY DEF Takes
<1>3. ASSUME IsMouse(input_events[k]), NEW i \in Queued, IsMouse(input_events[i]), i # k
      PROVE  input_events[i].arg > input_events[k].arg
  <2>1. input_events[i].what \in mask
    BY <1>3 DEF Takes, TakesPairs, IsMouse, IsDown, IsUp
  <2>2. k < i
    BY <1>1, <1>3, <2>1 DEF Takes
  <2>3. input_events[i].arg \in Nat /\ input_events[k].arg \in Nat
    BY <1>3 DEF Story, Numbered
  <2> QED
    BY <1>3, <2>2, <2>3 DEF Story, InOrder
<1>4. ASSUME IsUp(input_events[k]), NEW p \in Open(0)
      PROVE  p > input_events[k].arg
  <2>1. PICK i \in Queued : IsDown(input_events[i]) /\ input_events[i].arg = p
    BY <1>4 DEF Open, DownQueued
  <2> QED
    BY <1>3, <1>4, <2>1, UpIsNotDown DEF IsMouse
<1>5. Story(0)'
  BY <1>2, <1>4, TakingTells
<1>6. ASSUME IsDown(input_events[k])
      PROVE  \E p \in Nat : p = reply'.arg /\ Story(p)'
  <2>1. PICK p \in 1..clicks : p = input_events[k].arg
    BY <1>6 DEF Story, Numbered, IsMouse
  <2>2. p \in Open(0)
    BY <1>6, <2>1 DEF Open, DownQueued
  <2>3. \A i \in Queued : i # k /\ IsMouse(input_events[i]) => input_events[i].arg > p
    BY <1>3, <1>6, <2>1 DEF IsMouse
  <2>4. Story(p)'
    BY <1>2, <1>4, <2>1, <2>2, <2>3, TakingTells
  <2> QED
    BY <1>2, <2>1, <2>4
<1> QED
  BY <1>2, <1>5, <1>6

(* The loop of a drag or a menu takes moves and the first release.  That is *)
(* the release left for its press, or an older one left for another press,  *)
(* and the other press is left with this one's.                             *)
LEMMA TrackingTakesARelease ==
  ASSUME NEW t \in Nat, t # 0, Story(t), clicks \in Nat, input_events \in Seq(Event),
         UNCHANGED mouse, NEW k \in Queued, Takes(TrackingMask, k),
         IsUp(input_events[k])
  PROVE  /\ Story(0)'
         /\ input_events[k].arg > t
         /\ t \in alone => input_events[k].arg = t + 1
<1>1. UNCHANGED <<held, clicks, alone>>
  BY DEF mouse
<1>2. PICK u \in 1..clicks : u = input_events[k].arg /\ UpQueued(u)
  BY DEF Story, Numbered, IsMouse, UpQueued
<1>3. /\ k \in Nat /\ Queued \subseteq Nat
      /\ Without(input_events, k, input_events')
  BY LenProperties DEF Queued, Takes
<1>4. /\ Numbered' /\ InOrder'
      /\ \A p : DownQueued(p)' => DownQueued(p)
      /\ \A p : UpQueued(p)' => UpQueued(p)
      /\ \A p : UpQueued(p) => UpQueued(p)' \/ p = u
  BY <1>1, <1>2, <1>3, Removed DEF Story
<1>5. ASSUME NEW p, UpQueued(p)
      PROVE  p \in 1..clicks /\ u <= p
  <2>1. PICK i \in Queued : IsUp(input_events[i]) /\ input_events[i].arg = p
    BY <1>5 DEF UpQueued
  <2>2. k <= i
    BY <2>1 DEF Takes, TrackingMask, IsUp
  <2>3. p \in 1..clicks
    BY <2>1 DEF Story, Numbered, IsMouse
  <2>4. CASE k = i
    BY <1>2, <2>1, <2>3, <2>4
  <2>5. CASE k < i
    <3>1. input_events[k].arg < input_events[i].arg
      BY <2>1, <2>5 DEF Story, InOrder, IsMouse
    <3> QED
      BY <1>2, <2>1, <2>3, <3>1
  <2> QED
    BY <1>3, <2>2, <2>4, <2>5
<1>6. t \in 1..clicks /\ t \in Open(t) /\ Open(t) \subseteq 1..clicks
  BY DEF Story, Oldest, Open
<1>7. u > t
  BY <1>2 DEF Story, Oldest, IsMouse
<1>8. Open(0)' \subseteq Open(t) /\ \A p \in Open(0)' : p > t
  <2>1. Open(0)' \subseteq Open(t)
    BY <1>1, <1>4 DEF Open
  <2>2. ASSUME NEW p \in 1..clicks, DownQueued(p)
        PROVE  p > t
    BY <2>2 DEF DownQueued, Story, Oldest, IsMouse
  <2>3. ASSUME NEW p \in Open(0)'
        PROVE  p > t
    BY <1>1, <1>4, <2>2, <2>3 DEF Open
  <2> QED
    BY <2>1, <2>3
<1>9. t \in alone => u = t + 1
  <2> SUFFICES ASSUME t \in alone PROVE u = t + 1
    OBVIOUS
  <2>1. ~(t \in held)
    BY <1>2, <1>6, <1>7 DEF Story, ButtonsHeld
  <2>2. UpQueued(t + 1)
    BY <1>6, <2>1 DEF Story, OwnReleasesQueued
  <2> QED
    BY <1>2, <1>5, <1>6, <1>7, <2>2
<1>10. PICK f : Pays(f, Open(t))
  BY DEF Story, Paid
<1>11. PICK P : P = Open(0)'
  OBVIOUS
<1>12. /\ \A p \in P : p \in Open(t) /\ p \in 1..clicks /\ p > t /\ f[p] # f[t]
       /\ f \in [Open(t) -> 1..clicks]
  BY <1>6, <1>8, <1>10, <1>11 DEF Pays
<1>13. f[t] \in 1..clicks /\ (f[t] \in held \/ UpQueued(f[t]))
  BY <1>6, <1>10 DEF Pays
<1>14. PICK g : g = [p \in P |-> IF f[p] = u THEN f[t] ELSE f[p]]
  OBVIOUS
<1>15. /\ g \in [P -> 1..clicks']
       /\ \A p \in P : f[p] \in 1..clicks /\ g[p] = IF f[p] = u THEN f[t] ELSE f[p]
  BY <1>1, <1>12, <1>13, <1>14
<1>16. \A p, q \in P : g[p] = g[q] => p = q
  BY <1>10, <1>12, <1>15 DEF Pays
<1>17. ASSUME NEW p \in P
       PROVE  g[p] \in held' \/ (UpQueued(g[p])' /\ g[p] > p)
  <2>1. f[p] \in held \/ (UpQueued(f[p]) /\ f[p] > p)
    BY <1>10, <1>12 DEF Pays
  <2>2. CASE f[p] = u
    <3>1. f[t] # u /\ g[p] = f[t] /\ u > p
      BY <1>2, <1>12, <1>15, <2>1, <2>2 DEF Story, ButtonsHeld
    <3>2. CASE f[t] \in held
      BY <1>1, <3>1, <3>2
    <3>3. CASE UpQueued(f[t])
      <4>1. UpQueued(f[t])' /\ u <= f[t]
        BY <1>4, <1>5, <3>1, <3>3
      <4> QED
        BY <1>2, <1>12, <1>13, <3>1, <4>1
    <3> QED
      BY <1>13, <3>2, <3>3
  <2>3. CASE f[p] # u
    BY <1>1, <1>4, <1>15, <2>1, <2>3
  <2> QED
    BY <2>2, <2>3
<1>18. ASSUME NEW p \in P, NEW d \in P, d \in alone', p < d
       PROVE  UpQueued(g[p])' /\ g[p] < d
  <2>1. /\ UpQueued(f[p]) /\ f[p] < d
        /\ UpQueued(f[t]) /\ f[t] < d
    BY <1>1, <1>6, <1>10, <1>12, <1>18 DEF Pays
  <2>2. CASE f[p] = u
    <3>1. f[t] # u /\ g[p] = f[t]
      BY <1>12, <1>15, <2>2
    <3> QED
      BY <1>4, <2>1, <3>1
  <2>3. CASE f[p] # u
    BY <1>4, <1>15, <2>1, <2>3
  <2> QED
    BY <2>2, <2>3
<1>19. Pays(g, P)'
  BY <1>15, <1>16, <1>17, <1>18 DEF Pays
<1>20. Paid(Open(0))'
  BY <1>11, <1>19 DEF Paid, Pays
<1>21. ButtonsHeld'
  BY <1>1, <1>4 DEF Story, ButtonsHeld
<1>22. OwnReleasesQueued(Open(0))'
  <2>1. ASSUME NEW d \in P, d \in alone
        PROVE  d \in held \/ UpQueued(d + 1)'
    <3>1. UpQueued(f[t]) /\ f[t] < d
      BY <1>6, <1>10, <1>12, <2>1 DEF Pays
    <3>2. d + 1 # u
      BY <1>2, <1>5, <1>12, <1>13, <2>1, <3>1
    <3> QED
      BY <1>4, <1>12, <2>1, <3>2 DEF Story, OwnReleasesQueued
  <2> QED
    BY <1>1, <1>11, <2>1 DEF OwnReleasesQueued
<1> QED
  BY <1>2, <1>4, <1>7, <1>9, <1>20, <1>21, <1>22 DEF Story

LEMMA TrackingTakesOn ==
  ASSUME NEW t \in Nat, t # 0, Story(t), clicks \in Nat, input_events \in Seq(Event),
         UNCHANGED mouse, NEW k \in Queued, Takes(TrackingMask, k)
  PROVE  IF IsUp(reply')
         THEN /\ Story(0)' /\ reply'.arg > t
              /\ t \in alone => reply'.arg = t + 1
         ELSE Story(t)'
<1>1. Without(input_events, k, input_events') /\ reply' = input_events[k]
  BY DEF Takes
<1>2. CASE IsUp(input_events[k])
  BY <1>1, <1>2, TrackingTakesARelease
<1>3. CASE ~IsUp(input_events[k])
  <2>1. t \in Open(t) /\ \A i \in Queued : IsMouse(input_events[i]) => input_events[i].arg > t
    BY DEF Story, Oldest, Open
  <2> QED
    BY <1>1, <1>3, <2>1, TakingTells
<1> QED
  BY <1>2, <1>3
-----------------------------------------------------------------------------
(* The application takes presses and releases alike, as one that takes all  *)
(* events does, and posts no mouse events of its own.                       *)
PairsTaken == \A m \in AppMasks : TakesPairs(m)
NoMousePosted == RawTypes \cap {MouseDown, MouseUp} = {}

LEMMA StoryStays ==
  ASSUME NEW t, Story(t), UNCHANGED input_events, UNCHANGED mouse
  PROVE  Story(t)'
<1>1. UNCHANGED <<input_events, held, clicks, alone>>
  BY DEF mouse
<1>2. /\ \A p : DownQueued(p)' <=> DownQueued(p)
      /\ \A p : UpQueued(p)' <=> UpQueued(p)
      /\ Numbered' /\ InOrder' /\ (t # 0 => Oldest(t))'
  BY <1>1 DEF Story, DownQueued, UpQueued, Numbered, InOrder, Oldest, Queued
<1>3. Open(t)' = Open(t)
  BY <1>1, <1>2 DEF Open
<1>4. ButtonsHeld' /\ OwnReleasesQueued(Open(t))'
  BY <1>1, <1>2, <1>3 DEF Story, ButtonsHeld, OwnReleasesQueued
<1>5. PICK f : Pays(f, Open(t))
  BY DEF Story, Paid
<1>6. Paid(Open(t))'
  BY <1>1, <1>2, <1>3, <1>5, FewerArePaid DEF Paid
<1> QED
  BY <1>2, <1>4, <1>6 DEF Story

LEMMA UITells ==
  ASSUME ThreadsInv, NEW t \in Nat, Story(t),
         Poll \/ Quit \/ StopEmulator \/ Signal \/ CloseQueue \/ Join
  PROVE  /\ Story(t)'
         /\ clicks \in Nat /\ clicks' \in Nat /\ clicks' >= clicks
         /\ alone' \subseteq alone \cup {clicks + 1}
<1>1. /\ clicks \in Nat /\ TypeOK /\ input_events \in Seq(Event)
      /\ 0 \in Places /\ MaxClicks \in Nat /\ Places = 0..MaxClicks
  BY CyderAssumption DEF ThreadsInv, ThreadsTypeOK, IInv, TypeOK
<1>2. /\ {MouseDown, MouseUp, KeyDown, MouseMove} \subseteq Types
      /\ Places \cup {Nothing} \subseteq Args
  BY DEF Types, Args
<1>3. CASE Poll /\ Press
  <2>1. PICK n \in Places : n = clicks + 1
    BY <1>1, <1>3 DEF Press, Click
  <2>2. PICK e : e = NewEvent(MouseDown, n)
    OBVIOUS
  <2>3. QueueInput(MouseDown, n)
    BY <1>3, <2>1 DEF Press, Click, QueueMouseDown, QueueInput, NewEvent
  <2>4. e \in Event
    BY <1>1, <1>2, <2>2, <2>3, NewEventType DEF QueueInput
  <2>5. Extended(input_events, e, input_events')
    BY <1>1, <2>2, <2>3, <2>4, AppendExtends DEF QueueInput
  <2>6. IsDown(e) /\ e.arg = clicks + 1
    BY <2>1, <2>2 DEF NewEvent, IsDown
  <2>7. /\ clicks' = clicks + 1 /\ held' = held \cup {clicks + 1}
        /\ alone' = IF held = {} THEN alone \cup {clicks + 1} ELSE alone \ held
    BY <1>3 DEF Press, Click
  <2>8. Story(t)'
    BY <1>1, <2>5, <2>6, <2>7, PressTells
  <2> QED
    BY <1>1, <2>7, <2>8
<1>4. CASE Poll /\ Release
  <2>1. PICK n \in Places : n = clicks + 1
    BY <1>1, <1>4 DEF Release, Click
  <2>2. PICK e : e = NewEvent(MouseUp, n)
    OBVIOUS
  <2>3. QueueInput(MouseUp, n)
    BY <1>4, <2>1 DEF Release, Click, QueueMouseUp, QueueInput, NewEvent
  <2>4. e \in Event
    BY <1>1, <1>2, <2>2, <2>3, NewEventType DEF QueueInput
  <2>5. Extended(input_events, e, input_events')
    BY <1>1, <2>2, <2>3, <2>4, AppendExtends DEF QueueInput
  <2>6. IsUp(e) /\ e.arg = clicks + 1
    BY <2>1, <2>2 DEF NewEvent, IsUp
  <2>7. clicks' = clicks + 1 /\ UNCHANGED alone /\ \E h \in held : held' = held \ {h}
    BY <1>4 DEF Release, Click
  <2>8. Story(t)'
    BY <1>1, <2>5, <2>6, <2>7, ReleaseTells
  <2> QED
    BY <1>1, <2>7, <2>8
<1>5. CASE Poll /\ MoveOrKey
  <2>1. UNCHANGED mouse /\ UNCHANGED <<held, clicks, alone>>
    BY <1>5 DEF MoveOrKey, mouse
  <2>2. CASE UNCHANGED input_events
    BY <1>1, <2>1, <2>2, StoryStays
  <2>3. CASE \E type \in {KeyDown, MouseMove}, arg \in Args :
               Stamp /\ input_events' = Append(input_events, NewEvent(type, arg))
    <3>1. PICK type \in {KeyDown, MouseMove} : \E arg \in Args :
                 Stamp /\ input_events' = Append(input_events, NewEvent(type, arg))
      BY <2>3
    <3>2. PICK arg \in Args :
                 Stamp /\ input_events' = Append(input_events, NewEvent(type, arg))
      BY <3>1
    <3>3. PICK e : e = NewEvent(type, arg)
      OBVIOUS
    <3>4. e \in Event
      BY <1>1, <1>2, <3>2, <3>3, NewEventType
    <3>5. Extended(input_events, e, input_events')
      BY <1>1, <3>2, <3>3, <3>4, AppendExtends
    <3>6. ~IsMouse(e)
      BY <3>3 DEF NewEvent, IsMouse, IsDown, IsUp, KeyDown, MouseMove, MouseDown, MouseUp
    <3>7. Story(t)'
      BY <1>1, <2>1, <3>5, <3>6, QuietAppend
    <3> QED
      BY <1>1, <2>1, <3>7
  <2>4. CASE OnMouseMove(0)
    BY <1>1, <1>2, <2>2, <2>3, <2>4 DEF OnMouseMove
  <2>5. CASE QueueKeyDown
    BY <1>2, <2>3, <2>5 DEF QueueKeyDown, QueueInput
  <2> QED
    BY <1>5, <2>4, <2>5 DEF MoveOrKey
<1>6. CASE (Poll /\ Break) \/ Quit \/ StopEmulator \/ Signal \/ CloseQueue \/ Join
  <2>1. UNCHANGED input_events /\ UNCHANGED mouse /\ UNCHANGED <<held, clicks, alone>>
    BY <1>6 DEF Break, Quit, StopEmulator, Signal, CloseQueue, Join, UIStep, emVars,
      queues, Shutdown, mouse
  <2> QED
    BY <1>1, <2>1, StoryStays
<1> QED
  BY <1>3, <1>4, <1>5, <1>6 DEF Poll

LEMMA UIKeepsMouseInv ==
  ASSUME ThreadsInv, MouseInv,
         Poll \/ Quit \/ StopEmulator \/ Signal \/ CloseQueue \/ Join
  PROVE  MouseInv'
<1>1. UNCHANGED <<emu, tracked, reply, activate_events, update_events>>
  BY UIKeepsScopes
<1>2. PICK t \in Nat : t = Following /\ Story(t)
  BY DEF MouseInv
<1>3. /\ Story(t)'
      /\ clicks \in Nat /\ clicks' \in Nat /\ clicks' >= clicks
      /\ alone' \subseteq alone \cup {clicks + 1}
  BY <1>2, UITells
<1>4. NoMouse(activate_events)' /\ NoMouse(update_events)'
  BY <1>1 DEF MouseInv, NoMouse
<1>5. t = Following'
  BY <1>1, <1>2 DEF Following
<1>6. TrackedWhenNeeded'
  BY <1>1, <1>3 DEF MouseInv, TrackedWhenNeeded, FoundRelease, IsUp
<1> QED
  BY <1>3, <1>4, <1>5, <1>6 DEF MouseInv

(* The emulator thread's probes, of an application's mask, of ModalDialog's *)
(* and of a drag's or a menu's                                              *)
LEMMA ProbePairs ==
  ASSUME ThreadsInv, MouseInv, UNCHANGED uiVars,
         NEW mask, TakesPairs(mask), Probe(mask)
  PROVE  /\ NoMouseElsewhere' /\ Story(0)'
         /\ IsDown(reply') => \E p \in Nat : p = reply'.arg /\ Story(p)'
<1>1. TypeOK /\ input_events \in Seq(Event) /\ clicks \in Nat
  BY CyderAssumption DEF ThreadsInv, ThreadsTypeOK, IInv, TypeOK
<1>2. NoMouseElsewhere /\ Story(0) /\ UNCHANGED mouse
  BY <1>1, Forgetting DEF MouseInv, NoMouseElsewhere, uiVars
<1>3. NoMouseElsewhere' /\ (TakesNoInput \/ \E k \in Queued : Takes(mask, k))
  BY <1>1, <1>2, ProbeTakes
<1>4. CASE TakesNoInput
  <2>1. Story(0)'
    BY <1>2, <1>4, StoryStays DEF TakesNoInput
  <2>2. ~IsDown(reply')
    BY <1>4 DEF TakesNoInput, IsMouse
  <2> QED
    BY <1>3, <2>1, <2>2
<1>5. CASE \E k \in Queued : Takes(mask, k)
  BY <1>1, <1>2, <1>3, <1>5, PairsAreTakenInOrder
<1> QED
  BY <1>3, <1>4, <1>5

LEMMA ProbeDowns ==
  ASSUME ThreadsInv, MouseInv, UNCHANGED uiVars, Probe(DialogMask)
  PROVE  NoMouseElsewhere' /\ Story(0)'
<1>1. TypeOK /\ input_events \in Seq(Event) /\ clicks \in Nat
  BY CyderAssumption DEF ThreadsInv, ThreadsTypeOK, IInv, TypeOK
<1>2. NoMouseElsewhere /\ Story(0) /\ UNCHANGED mouse
  BY <1>1, Forgetting DEF MouseInv, NoMouseElsewhere, uiVars
<1>3. NoMouseElsewhere' /\ (TakesNoInput \/ \E k \in Queued : Takes(DialogMask, k))
  BY <1>1, <1>2, ProbeTakes
<1>4. CASE TakesNoInput
  BY <1>2, <1>3, <1>4, StoryStays DEF TakesNoInput
<1>5. ASSUME NEW k \in Queued, Takes(DialogMask, k)
      PROVE  Story(0)'
  <2>1. Without(input_events, k, input_events') /\ ~IsUp(input_events[k])
    BY <1>5, UpIsNotDown DEF Takes, DialogMask, IsDown
  <2> QED
    BY <1>1, <1>2, <2>1, TakingTells
<1> QED
  BY <1>3, <1>4, <1>5

LEMMA ProbeTracking ==
  ASSUME ThreadsInv, MouseInv, UNCHANGED uiVars, Probe(TrackingMask),
         NEW t \in Nat, t # 0, Story(t)
  PROVE  /\ NoMouseElsewhere'
         /\ IF IsUp(reply')
            THEN /\ Story(0)' /\ reply'.arg > t
                 /\ t \in alone => reply'.arg = t + 1
            ELSE Story(t)'
<1>1. TypeOK /\ input_events \in Seq(Event) /\ clicks \in Nat
  BY CyderAssumption DEF ThreadsInv, ThreadsTypeOK, IInv, TypeOK
<1>2. NoMouseElsewhere /\ UNCHANGED mouse
  BY DEF MouseInv, NoMouseElsewhere, uiVars
<1>3. NoMouseElsewhere' /\ (TakesNoInput \/ \E k \in Queued : Takes(TrackingMask, k))
  BY <1>1, <1>2, ProbeTakes
<1>4. CASE TakesNoInput
  BY <1>2, <1>3, <1>4, StoryStays DEF TakesNoInput, IsMouse
<1>5. CASE \E k \in Queued : Takes(TrackingMask, k)
  BY <1>1, <1>2, <1>3, <1>5, TrackingTakesOn
<1> QED
  BY <1>3, <1>4, <1>5

(* a press handed to the application is older than all that is queued       *)
LEMMA TrapKeepsMouseInv ==
  ASSUME PairsTaken, ThreadsInv, MouseInv, EventTrapStep
  PROVE  MouseInv'
<1>1. UNCHANGED uiVars /\ UNCHANGED mouse
  BY DEF EventTrapStep, uiVars
<1>2. emu' \in {"start", "guest"}
  BY DEF EventTrapStep
<1>3. SUFFICES /\ NoMouseElsewhere' /\ Story(0)'
               /\ call' = "none" /\ IsDown(reply') =>
                    \E p \in Nat : p = reply'.arg /\ Story(p)'
  <2>1. TrackedWhenNeeded'
    BY <1>2 DEF TrackedWhenNeeded
  <2>2. CASE call' = "none" /\ IsDown(reply')
    <3>1. Following' = reply'.arg
      BY <1>2, <2>2 DEF EventTrapStep, IsDown, Following
    <3> QED
      BY <1>3, <2>1, <2>2, <3>1 DEF MouseInv, NoMouseElsewhere
  <2>3. CASE ~(call' = "none" /\ IsDown(reply'))
    <3>1. Following' = 0
      BY <1>2, <2>3 DEF EventTrapStep, IsDown, Following
    <3> QED
      BY <1>3, <2>1, <3>1 DEF MouseInv, NoMouseElsewhere
  <2> QED
    BY <2>2, <2>3
<1>4. ASSUME NEW m \in AppMasks, Probe(m)
      PROVE  /\ NoMouseElsewhere' /\ Story(0)'
             /\ IsDown(reply') => \E p \in Nat : p = reply'.arg /\ Story(p)'
  BY <1>1, <1>4, ProbePairs DEF PairsTaken
<1>5. CASE \E m \in AppMasks : GetNextEvent(m)
  BY <1>4, <1>5 DEF GetNextEvent
<1>6. CASE \E m \in AppMasks, timeout \in {0, 1} : WaitNextEvent(m, timeout)
  BY <1>4, <1>6 DEF WaitNextEvent
<1>7. CASE Retry
  <2>1. call_mask \in AppMasks
    BY <1>7 DEF Retry, ThreadsInv, CallsAndScopes
  <2> QED
    BY <1>4, <1>7, <2>1 DEF Retry
<1>8. CASE StartWait \/ NotifiedWake \/ TimeOut \/ Wake
  <2>1. UNCHANGED <<activate_events, input_events, update_events>>
    BY <1>8 DEF StartWait, NotifiedWake, TimeOut, Wake, ReturnNull, queues
  <2>2. call' # "none" \/ reply' = NoEvent
    BY <1>8 DEF StartWait, NotifiedWake, TimeOut, Wake, ReturnNull, GoTo
  <2>3. Story(0) /\ NoMouseElsewhere'
    BY <2>1, Forgetting, CyderAssumption
      DEF MouseInv, NoMouseElsewhere, NoMouse, ThreadsInv, ThreadsTypeOK
  <2>4. Story(0)'
    BY <1>1, <2>1, <2>3, StoryStays
  <2>5. ~IsDown(NoEvent)
    BY DEF IsDown, NoEvent, NullEvent, MouseDown
  <2> QED
    BY <2>2, <2>3, <2>4, <2>5
<1> QED
  BY <1>5, <1>6, <1>7, <1>8 DEF EventTrapStep, InEventTrap

(* what the emulator thread queues is not of the mouse                      *)
LEMMA QueueTrapKeepsMouseInv ==
  ASSUME NoMousePosted, ThreadsInv, MouseInv, QueueTrap
  PROVE  MouseInv'
<1>1. TypeOK /\ activate_events \in Seq(Event) /\ update_events \in Seq(Event)
  BY DEF ThreadsInv, IInv, TypeOK
<1>2. UNCHANGED <<input_events, tracked>> /\ UNCHANGED mouse
  BY DEF QueueTrap, EmuStep, uiVars, QueueWindowActivate, QueueWindowUpdate,
    QueueRawEvent, emVars, queues
<1>3. emu = "guest" /\ emu' = "start"
  BY DEF QueueTrap, EmuStep
<1>4. \E t \in Nat : t = Following' /\ Story(t)'
  BY <1>2, <1>3, StoryStays DEF MouseInv, Following
<1>5. TrackedWhenNeeded'
  BY <1>3 DEF TrackedWhenNeeded
<1>6. ASSUME NEW q \in Seq(Event), NoMouse(q), NEW e \in Event, ~IsMouse(e)
      PROVE  NoMouse(Append(q, e))
  <2>1. Extended(q, e, Append(q, e))
    BY AppendExtends
  <2> QED
    BY <1>6, <2>1 DEF NoMouse, Extended
<1>7. ASSUME NEW type \in {WindowActivate, WindowUpdate} \cup RawTypes,
             NEW arg \in Windows \cup {Nothing}, Stamp
      PROVE  NewEvent(type, arg) \in Event /\ ~IsMouse(NewEvent(type, arg))
  <2>1. type \in Types /\ arg \in Args
    BY <1>7 DEF Types, Args
  <2>2. NewEvent(type, arg) \in Event
    BY <1>1, <1>7, <2>1, NewEventType
  <2>3. type # MouseDown /\ type # MouseUp
    BY DEF NoMousePosted, WindowActivate, WindowUpdate, MouseDown, MouseUp
  <2> QED
    BY <2>2, <2>3 DEF NewEvent, IsMouse, IsDown, IsUp
<1>8. CASE \E w \in Windows : QueueWindowActivate(w)
  BY <1>1, <1>4, <1>5, <1>6, <1>7, <1>8 DEF QueueWindowActivate, MouseInv
<1>9. CASE \E w \in Windows : QueueWindowUpdate(w)
  BY <1>1, <1>4, <1>5, <1>6, <1>7, <1>9 DEF QueueWindowUpdate, MouseInv
<1>10. CASE \E t \in RawTypes : QueueRawEvent(t)
  BY <1>1, <1>4, <1>5, <1>6, <1>7, <1>10 DEF QueueRawEvent, MouseInv
<1>11. CASE UNCHANGED emVars
  BY <1>4, <1>5, <1>11 DEF emVars, queues, MouseInv
<1> QED
  BY <1>8, <1>9, <1>10, <1>11 DEF QueueTrap

(* the modal loops                                                          *)
LEMMA TrackMouseKeepsMouseInv ==
  ASSUME ThreadsInv, MouseInv, TrackMouse
  PROVE  MouseInv'
<1>1. /\ Probe(TrackingMask) /\ UNCHANGED uiVars /\ UNCHANGED tracked
      /\ UNCHANGED <<held, clicks, alone>>
  BY DEF TrackMouse, GetNextEvent, uiVars, mouse
<1>2. emu \in {"drag", "menu"} /\ emu' = IF IsUp(reply') THEN "leaving" ELSE emu
  BY DEF TrackMouse, IsUp
<1>3. PICK t \in Nat : t = tracked /\ t # 0 /\ Story(t)
  BY <1>2 DEF MouseInv, TrackedWhenNeeded, Following
<1>4. t \in 1..clicks
  BY <1>3 DEF Story, Oldest
<1>5. /\ NoMouseElsewhere'
      /\ IF IsUp(reply')
         THEN /\ Story(0)' /\ reply'.arg > t
              /\ t \in alone => reply'.arg = t + 1
         ELSE Story(t)'
  BY <1>1, <1>3, ProbeTracking
<1>6. CASE IsUp(reply')
  <2>1. Following' = 0
    BY <1>2, <1>6 DEF Following
  <2>2. TrackedWhenNeeded'
    BY <1>1, <1>2, <1>3, <1>4, <1>5, <1>6 DEF TrackedWhenNeeded, FoundRelease, IsUp
  <2> QED
    BY <1>5, <1>6, <2>1, <2>2 DEF MouseInv, NoMouseElsewhere
<1>7. CASE ~IsUp(reply')
  <2>1. Following' = t
    BY <1>1, <1>2, <1>3, <1>7 DEF Following
  <2>2. TrackedWhenNeeded'
    BY <1>1, <1>2, <1>3, <1>7 DEF TrackedWhenNeeded
  <2> QED
    BY <1>5, <1>7, <2>1, <2>2 DEF MouseInv, NoMouseElsewhere
<1> QED
  BY <1>6, <1>7

LEMMA DialogKeepsMouseInv ==
  ASSUME ThreadsInv, MouseInv, DrainEvents \/ DialogEvent
  PROVE  MouseInv'
<1>1. /\ UNCHANGED uiVars /\ tracked = 0 /\ tracked' = 0
      /\ emu' \notin {"drag", "menu"}
  BY DEF DrainEvents, DialogEvent, MouseInv, TrackedWhenNeeded
<1>2. TrackedWhenNeeded' /\ Following' = 0
  BY <1>1 DEF TrackedWhenNeeded, Following
<1>3. CASE DrainEvents
  <2>1. TakesPairs(DrainMask)
    BY DEF TakesPairs, DrainMask, MouseDown, MouseUp
  <2>2. NoMouseElsewhere' /\ Story(0)'
    BY <1>1, <1>3, <2>1, ProbePairs DEF DrainEvents, GetNextEvent
  <2> QED
    BY <1>2, <2>2 DEF MouseInv, NoMouseElsewhere
<1>4. CASE DialogEvent
  <2>1. NoMouseElsewhere' /\ Story(0)'
    BY <1>1, <1>4, ProbeDowns DEF DialogEvent, GetNextEvent
  <2> QED
    BY <1>2, <2>1 DEF MouseInv, NoMouseElsewhere
<1> QED
  BY <1>3, <1>4

(* the steps that leave the lists alone                                     *)
LEMMA OtherStepsKeepMouseInv ==
  ASSUME ThreadsInv, MouseInv,
         \/ LoopTest \/ Prompt \/ Command \/ BeginTracking \/ BeginDialog
         \/ RunDialog \/ LeaveModal \/ UNCHANGED cyderVars
  PROVE  MouseInv'
<1>1. /\ UNCHANGED <<activate_events, input_events, update_events, reply>>
      /\ UNCHANGED mouse /\ UNCHANGED <<held, clicks, alone>>
  BY DEF LoopTest, Prompt, Command, BeginTracking, BeginDialog, RunDialog, LeaveModal,
    cyderVars, EmuStep, uiVars, emVars, queues, EnableMouseMove, RejectMouseMove, mouse
<1>2. /\ emu' \in {"draining", "drained", "dialog"} => tracked' = 0
      /\ emu' \in {"drag", "menu"} => tracked' # 0
      /\ \/ tracked' = 0
         \/ tracked' = tracked /\ (emu' = "leaving" <=> emu = "leaving")
  BY DEF LoopTest, Prompt, Command, BeginTracking, BeginDialog, RunDialog, LeaveModal,
    cyderVars, EmuStep, MouseInv, TrackedWhenNeeded
<1>3. NoMouse(activate_events)' /\ NoMouse(update_events)'
  BY <1>1 DEF MouseInv, NoMouse
<1>4. TrackedWhenNeeded'
  BY <1>1, <1>2 DEF MouseInv, TrackedWhenNeeded, FoundRelease, IsUp
<1>5. PICK t \in Nat : t = Following /\ Story(t)
  BY DEF MouseInv
<1>6. Story(0) /\ Following' \in {0, t}
  BY <1>2, <1>5, Forgetting, CyderAssumption DEF ThreadsInv, ThreadsTypeOK, Following
<1>7. Story(0)' /\ Story(t)'
  BY <1>1, <1>5, <1>6, StoryStays
<1> QED
  BY <1>3, <1>4, <1>6, <1>7 DEF MouseInv

LEMMA InitMouseInv == CyderInit => MouseInv
<1> SUFFICES ASSUME CyderInit PROVE MouseInv
  OBVIOUS
<1>1. /\ Len(input_events) = 0 /\ Len(activate_events) = 0 /\ Len(update_events) = 0
      /\ held = {} /\ alone = {} /\ clicks = 0 /\ tracked = 0 /\ emu = "start"
  BY DEF CyderInit, EventManagerInit
<1>2. Numbered /\ InOrder /\ ButtonsHeld /\ OwnReleasesQueued(Open(0))
  BY <1>1 DEF Numbered, InOrder, ButtonsHeld, OwnReleasesQueued, Queued
<1>3. Open(0) = {}
  BY <1>1 DEF Open
<1>4. PICK f : f = [p \in {} |-> p]
  OBVIOUS
<1>5. f \in [Open(0) -> 1..clicks]
  BY <1>3, <1>4
<1>6. Pays(f, Open(0))
  BY <1>3, <1>5 DEF Pays
<1>7. Story(0) /\ Following = 0
  BY <1>1, <1>2, <1>6 DEF Story, Paid, Following
<1> QED
  BY <1>1, <1>7 DEF MouseInv, NoMouse, TrackedWhenNeeded

LEMMA StepKeepsMouseInv ==
  ASSUME PairsTaken, NoMousePosted, ThreadsInv, MouseInv, [CyderNext]_cyderVars
  PROVE  MouseInv'
BY CyderSteps, UIKeepsMouseInv, TrapKeepsMouseInv, QueueTrapKeepsMouseInv,
  TrackMouseKeepsMouseInv, DialogKeepsMouseInv, OtherStepsKeepMouseInv, Zenon
  DEF EmulatorStep

LEMMA InvariantGivesTheRelease ==
  ASSUME ThreadsInv, MouseInv
  PROVE  EachPressHasItsRelease
<1>1. clicks \in 0..MaxClicks /\ MaxClicks \in Nat
  BY CyderAssumption DEF ThreadsInv, ThreadsTypeOK
<1>2. tracked = 0 \/ tracked \in 1..clicks
  BY DEF MouseInv, TrackedWhenNeeded, FoundRelease, Following, Story, Oldest
<1>3. tracked \in 0..MaxClicks
  BY <1>1, <1>2
<1>4. CyderTypeOK
  BY <1>3 DEF ThreadsInv, ThreadsTypeOK, IInv, CyderTypeOK
<1>5. TrackingEndsWithItsRelease
  BY DEF MouseInv, TrackedWhenNeeded, FoundRelease, TrackingEndsWithItsRelease, IsUp
<1> QED
  BY <1>4, <1>5 DEF EachPressHasItsRelease

(* A drag or a menu ends with a release made after the press that began it, *)
(* never with one left in the queue by an earlier click, and with the       *)
(* release of that press itself unless another button was down with it: if  *)
(* the application takes presses and releases alike and posts no mouse      *)
(* events of its own, for any number of buttons and clicks.                 *)
THEOREM EachPressEndsWithItsOwnRelease ==
  ASSUME PairsTaken, NoMousePosted
  PROVE  CyderSpec => []EachPressHasItsRelease
<1>1. CyderInit => ThreadsInv /\ MouseInv
  BY InitThreadsInv, InitMouseInv
<1>2. (ThreadsInv /\ MouseInv) /\ [CyderNext]_cyderVars => (ThreadsInv /\ MouseInv)'
  BY ThreadsStep, StepKeepsMouseInv
<1>3. ThreadsInv /\ MouseInv => EachPressHasItsRelease
  BY InvariantGivesTheRelease
<1> QED
  BY <1>1, <1>2, <1>3, PTL DEF CyderSpec
=============================================================================
