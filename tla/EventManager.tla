--------------------------- MODULE EventManager ---------------------------
(***************************************************************************)
(* The event queue of emu/event_manager.{h,cc}.  Two threads share it: the  *)
(* UI thread (the SDL loop of emu/main.cc) posts input and shuts the queue  *)
(* down; the emulator thread posts window and application events and is the *)
(* only one that takes events out.  Every method runs under event_mutex_,   *)
(* so a method is one step, except WaitNextEvent, which takes the mutex     *)
(* three times: a first probe, the wait on event_condition_, and a second   *)
(* probe.  `call' says where the emulator thread is inside it.              *)
(***************************************************************************)
EXTENDS Naturals, Sequences, SequencesExt

CONSTANTS
  Masks,     (* the event masks callers pass, each the set of its bits      *)
  RawTypes,  (* the event numbers the application passes to PostEvent       *)
  Windows,   (* the windows update and activate events are queued for       *)
  Places,    (* what a mouse event carries (its position)                   *)
  Nothing,   (* what the other events carry                                 *)
  MaxEvents  (* bound: how many events are queued in a behaviour            *)

(* EventType of event_manager.h and the native kMouseMove *)
NullEvent == 0
MouseDown == 1
MouseUp == 2
KeyDown == 3
KeyUp == 4
WindowUpdate == 6
WindowActivate == 8
MouseMove == 10

(* Posting the null event is left out: WaitNextEvent would take it from the *)
(* queue and go on to wait as if there had been none.                       *)
ASSUME EventAssumption ==
  /\ Masks \subseteq SUBSET Nat
  /\ RawTypes \subseteq Nat \ {NullEvent}
  /\ MaxEvents \in Nat

Types == {MouseDown, MouseUp, KeyDown, KeyUp, WindowUpdate, WindowActivate,
          MouseMove} \cup RawTypes
Args == Windows \cup Places \cup {Nothing}
Event == [what : Types, arg : Args, when : Nat]

(* what NullEvent() returns *)
NoEvent == [what |-> NullEvent, arg |-> Nothing, when |-> 0]

VARIABLES
  activate_events, input_events, update_events,  (* the three lists         *)
  mouse_move_enabled, is_shutting_down,
  clock,      (* NowTicks: the stamp of the latest event queued             *)
  call,       (* the emulator thread inside WaitNextEvent: "none" (not in   *)
              (* it), "locking", "blocked" on the condition, "retrying"     *)
  call_mask,  (* that call's event_mask                                     *)
  notified,   (* a notify_all reached the blocked emulator thread           *)
  reply       (* the event the last probe of the queue returned             *)

queues == <<activate_events, input_events, update_events>>
flags == <<mouse_move_enabled, is_shutting_down>>
waiting == <<call, call_mask, notified>>
emVars == <<queues, flags, clock, waiting, reply>>

EventManagerInit ==
  /\ activate_events = <<>> /\ input_events = <<>> /\ update_events = <<>>
  /\ mouse_move_enabled = FALSE /\ is_shutting_down = FALSE
  /\ clock = 0
  /\ call = "none" /\ call_mask = {} /\ notified = FALSE
  /\ reply = NoEvent
-----------------------------------------------------------------------------
(* Queueing.  notify_all only reaches a thread already waiting.             *)

NotifyNobody == UNCHANGED waiting  \* mutant: no notify_all

NotifyAll == notified' = (call = "blocked") /\ UNCHANGED <<call, call_mask>>

Stamp == clock < MaxEvents /\ clock' = clock + 1

NewEvent(type, arg) == [what |-> type, arg |-> arg, when |-> clock']

QueueInput(type, place) ==
  /\ Stamp
  /\ input_events' = Append(input_events, NewEvent(type, place))
  /\ NotifyAll
  /\ UNCHANGED <<activate_events, update_events, flags, reply>>

QueueMouseDown(place) == QueueInput(MouseDown, place)
QueueMouseUp(place) == QueueInput(MouseUp, place)
QueueKeyDown == QueueInput(KeyDown, Nothing)

(* dropped unless a modal loop asked for moves; the waiter is not notified  *)
OnMouseMove(place) ==
  /\ Stamp
  /\ input_events' = IF mouse_move_enabled
                     THEN Append(input_events, NewEvent(MouseMove, place))
                     ELSE input_events
  /\ UNCHANGED <<activate_events, update_events, flags, waiting, reply>>

QueueWindowActivate(window) ==
  /\ Stamp
  /\ activate_events' =
       Append(activate_events, NewEvent(WindowActivate, window))
  /\ NotifyAll
  /\ UNCHANGED <<input_events, update_events, flags, reply>>

QueueWindowUpdate(window) ==
  /\ Stamp
  /\ update_events' = Append(update_events, NewEvent(WindowUpdate, window))
  /\ NotifyAll
  /\ UNCHANGED <<activate_events, input_events, flags, reply>>

(* PostEvent: queued with the activate events, and nobody is notified       *)
QueueRawEvent(type) ==
  /\ Stamp
  /\ activate_events' = Append(activate_events, NewEvent(type, Nothing))
  /\ UNCHANGED <<input_events, update_events, flags, waiting, reply>>

EnableMouseMove ==
  /\ mouse_move_enabled' = TRUE
  /\ UNCHANGED <<queues, is_shutting_down, clock, waiting, reply>>

RejectMouseMove ==
  /\ mouse_move_enabled' = FALSE
  /\ UNCHANGED <<queues, is_shutting_down, clock, waiting, reply>>

ShutdownQuietly ==  \* mutant: no notify_all
  is_shutting_down' = TRUE
    /\ UNCHANGED <<queues, mouse_move_enabled, clock, waiting, reply>>

Shutdown ==
  /\ is_shutting_down' = TRUE
  /\ NotifyAll
  /\ UNCHANGED <<queues, mouse_move_enabled, clock, reply>>
-----------------------------------------------------------------------------
(* Taking an event                                                          *)

InputTypes == {MouseDown, MouseUp, KeyDown, KeyUp}

ActivateEnabled(mask) == activate_events # <<>> /\ WindowActivate \in mask
UpdateEnabled(mask) == update_events # <<>> /\ WindowUpdate \in mask

(* input is looked at only under a mask with one of four input bits, but    *)
(* then every type in the mask is taken, kMouseMove included                *)
InputSearched(mask) == input_events # <<>> /\ mask \cap InputTypes # {}
LastIn(q, mask) ==  \* mutant: searches from the back
  SelectLastInSeq(q, LAMBDA e : e.what \in mask)
FirstIn(q, mask) == SelectInSeq(q, LAMBDA e : e.what \in mask)
InputEnabled(mask) == InputSearched(mask) /\ FirstIn(input_events, mask) # 0

HasEvent(mask) ==
  ActivateEnabled(mask) \/ InputEnabled(mask) \/ UpdateEnabled(mask)

TakeActivate(mask) ==
  /\ ActivateEnabled(mask)
  /\ reply' = Head(activate_events)
  /\ activate_events' = Tail(activate_events)
  /\ UNCHANGED <<input_events, update_events>>

TakeInput(mask) ==
  /\ ~ActivateEnabled(mask) /\ InputEnabled(mask)
  /\ reply' = input_events[FirstIn(input_events, mask)]
  /\ input_events' = RemoveAt(input_events, FirstIn(input_events, mask))
  /\ UNCHANGED <<activate_events, update_events>>

TakeUpdate(mask) ==
  /\ ~ActivateEnabled(mask) /\ ~InputEnabled(mask) /\ UpdateEnabled(mask)
  /\ reply' = Head(update_events)
  /\ update_events' = Tail(update_events)
  /\ UNCHANGED <<activate_events, input_events>>

TakeNothing(mask) ==
  ~HasEvent(mask) /\ reply' = NoEvent /\ UNCHANGED queues

(* the body of GetNextEvent; callers say what becomes of `waiting'          *)
Probe(mask) ==
  /\ TakeActivate(mask) \/ TakeInput(mask) \/ TakeUpdate(mask)
       \/ TakeNothing(mask)
  /\ UNCHANGED <<flags, clock>>

GetNextEvent(mask) == call = "none" /\ Probe(mask) /\ UNCHANGED waiting

HasMouseEvent(type) == \E i \in DOMAIN input_events : input_events[i].what = type
-----------------------------------------------------------------------------
(* WaitNextEvent.  has_event_pred returns the result of the input search    *)
(* without going on to the update events.                                   *)

PredIgnoresMask(mask) ==  \* mutant: any input event ends the wait
  \/ is_shutting_down \/ ActivateEnabled(mask) \/ UpdateEnabled(mask)
  \/ InputSearched(mask)

PredIgnoresShutdown(mask) ==  \* mutant: a shutdown looks like a spurious wake
  ActivateEnabled(mask) \/ InputEnabled(mask) \/ UpdateEnabled(mask)

HasEventPred(mask) ==
  \/ is_shutting_down
  \/ ActivateEnabled(mask)
  \/ InputEnabled(mask)
  \/ ~InputSearched(mask) /\ UpdateEnabled(mask)

Return == call' = "none" /\ call_mask' = {} /\ notified' = FALSE
GoTo(where) == call' = where /\ notified' = FALSE /\ UNCHANGED call_mask

ReturnNull ==
  Return /\ reply' = NoEvent /\ UNCHANGED <<queues, flags, clock>>

WaitNextEvent(mask, timeout) ==
  /\ call = "none"
  /\ Probe(mask)
  /\ IF reply'.what # NullEvent \/ timeout = 0
     THEN UNCHANGED waiting
     ELSE call' = "locking" /\ call_mask' = mask /\ notified' = FALSE

(* takes the mutex again: gives up, finds an event, or starts to wait       *)
StartWait ==
  /\ call = "locking"
  /\ \/ is_shutting_down /\ ReturnNull
     \/ /\ ~is_shutting_down
        /\ GoTo(IF HasEventPred(call_mask) THEN "retrying" ELSE "blocked")
        /\ UNCHANGED <<queues, flags, clock, reply>>

(* after a notification, or spuriously: wait_for checks its predicate       *)
Wake ==
  /\ call = "blocked"
  /\ GoTo(IF HasEventPred(call_mask) THEN "retrying" ELSE "blocked")
  /\ UNCHANGED <<queues, flags, clock, reply>>

NotifiedWake == notified /\ Wake

(* wait_for's time is up: the predicate decides once more                   *)
TimeOut ==
  /\ call = "blocked"
  /\ \/ ~HasEventPred(call_mask) /\ ReturnNull
     \/ HasEventPred(call_mask) /\ Wake

Retry == call = "retrying" /\ Probe(call_mask) /\ Return
-----------------------------------------------------------------------------
UIThread ==
  \/ \E p \in Places : QueueMouseDown(p) \/ QueueMouseUp(p) \/ OnMouseMove(p)
  \/ QueueKeyDown
  \/ Shutdown

(* Code of the emulator thread between two probes.  The scopes of           *)
(* EnableMouseMove (DragGrayRegion, MenuSelect, ModalDialog) call only      *)
(* GetNextEvent, never WaitNextEvent and never a nested EnableMouseMove.    *)
EmulatorCalls ==
  /\ call = "none"
  /\ \/ \E w \in Windows : QueueWindowActivate(w) \/ QueueWindowUpdate(w)
     \/ \E t \in RawTypes : QueueRawEvent(t)
     \/ \E m \in Masks : GetNextEvent(m)
     \/ ~mouse_move_enabled /\ EnableMouseMove
     \/ mouse_move_enabled /\ RejectMouseMove
     \/ /\ ~mouse_move_enabled
        /\ \E m \in Masks, timeout \in {0, 1} : WaitNextEvent(m, timeout)

Next ==
  \/ UIThread \/ EmulatorCalls
  \/ StartWait \/ NotifiedWake \/ Wake \/ TimeOut \/ Retry

(* The emulator thread is scheduled, and a notified thread wakes.  Nothing  *)
(* makes the user act, a wait end by itself or a thread wake spuriously.    *)
Spec ==
  /\ EventManagerInit /\ [][Next]_emVars
  /\ WF_emVars(StartWait) /\ WF_emVars(NotifiedWake) /\ WF_emVars(Retry)
-----------------------------------------------------------------------------
TypeOK ==
  /\ activate_events \in Seq(Event)
  /\ input_events \in Seq(Event)
  /\ update_events \in Seq(Event)
  /\ mouse_move_enabled \in BOOLEAN /\ is_shutting_down \in BOOLEAN
  /\ clock \in 0..MaxEvents
  /\ call \in {"none", "locking", "blocked", "retrying"}
  /\ call_mask \in Masks \cup {{}}
  /\ notified \in BOOLEAN
  /\ reply \in Event \cup {NoEvent}

(* No wakeup is lost: while the emulator thread sleeps in WaitNextEvent and *)
(* nobody has notified it, GetNextEvent would find nothing for its mask and *)
(* the queue is not shutting down.  The predicate it sleeps on, what        *)
(* GetNextEvent delivers and who notifies are three pieces of code that     *)
(* must agree.                                                              *)
NoLostWakeup ==
  call = "blocked" /\ ~notified => ~HasEvent(call_mask) /\ ~is_shutting_down

(* A wait that ended because the predicate held does find an event (or the  *)
(* shutdown): no UI step and no earlier probe can take it away.             *)
RetryFindsEvent ==
  call = "retrying" => HasEvent(call_mask) \/ is_shutting_down

(* An event enabled by the mask of a sleeping WaitNextEvent makes it return *)
(* without its timeout.                                                     *)
EventEndsWait == call = "blocked" /\ HasEvent(call_mask) ~> call = "none"

(* Shutdown ends every WaitNextEvent, whenever it comes during the call.    *)
ShutdownEndsWait == is_shutting_down ~> call = "none"

(* So a WaitNextEvent with something to wait for always returns.            *)
WaitsEnd == EventEndsWait /\ ShutdownEndsWait

(* What the queue promises its callers: the lists as one set of events.     *)
InClass(class, q) == {[class |-> class, event |-> q[i]] : i \in DOMAIN q}
QueuedEvents ==
  InClass("activate", activate_events)
    \cup InClass("input", input_events)
    \cup InClass("update", update_events)

Stream == INSTANCE EventStream WITH
  Event <- [what : Types, arg : Args, when : 0..MaxEvents],
  pending <- QueuedEvents,
  closed <- is_shutting_down

(* The three lists, the mask tests and WaitNextEvent's three probes         *)
(* implement the abstract stream: the event returned is always the first    *)
(* one the mask admits, none is lost, duplicated or invented, and null      *)
(* comes back only when nothing is admitted or the queue shuts down.        *)
ImplementsStream == Stream!Spec
=============================================================================
