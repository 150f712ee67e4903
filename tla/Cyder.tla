------------------------------- MODULE Cyder -------------------------------
(***************************************************************************)
(* The two threads of emu/main.cc around the event queue.  The UI thread    *)
(* polls SDL, queues input and, once the window is closed, stops and joins  *)
(* the emulator thread.  The emulator thread loops over the debugger prompt *)
(* and Emulator::Run, which executes the application up to its next A-trap  *)
(* and runs the trap's native code; three traps (DragGrayRegion,            *)
(* MenuSelect, ModalDialog) contain an event loop of their own.             *)
(***************************************************************************)
EXTENDS EventManager, FiniteSets

CONSTANTS
  AppMasks,    (* the masks the application passes                          *)
  Modals,      (* which modal loops the application enters                  *)
  Debugging,   (* --debugger was given                                      *)
  Buttons,     (* how many buttons the mouse has                            *)
  MaxClicks    (* bound: how often a button is pressed or released          *)

MovesOnly == {MouseMove}               \* mutant: kMouseUp not asked for
TrackingMask == {MouseMove, MouseUp}   (* of DragGrayRegion and MenuSelect  *)
DrainMask == 0..15                     (* 0xFFFF, of ModalDialog's drain    *)
DialogMask == {MouseDown}              (* of ModalDialog's loop             *)

(* Every press and every release has a number of its own, in the order the  *)
(* user made them, and its event carries it; a move carries 0.              *)
ASSUME CyderAssumption ==
  /\ Masks = AppMasks \cup {TrackingMask, DrainMask, DialogMask}
  /\ Modals \subseteq {"drag", "menu", "dialog"}
  /\ Debugging \in BOOLEAN
  /\ Buttons \in Nat /\ MaxClicks \in Nat /\ Places = 0..MaxClicks

VARIABLES
  main,         (* the UI thread: "polling", then the steps of the shutdown *)
  is_running,   (* is_emulator_running                                      *)
  emu,          (* the emulator thread: where it is between its steps       *)
  should_enter_debug,
  stdin_failed, (* SIGINT interrupted a read of the console                 *)
  held,         (* the buttons that are down, each known by its press       *)
  clicks,       (* presses and releases so far                              *)
  alone,        (* history: the presses that no other button was down with  *)
  tracked       (* the press whose MouseDown the application was handed     *)
                (* last and may track, 0 if that was another event          *)

mouse == <<held, clicks, alone>>
uiVars == <<main, mouse>>
debugVars == <<should_enter_debug, stdin_failed>>
cyderVars == <<emVars, uiVars, is_running, emu, debugVars, tracked>>

CyderInit ==
  /\ EventManagerInit
  /\ main = "polling" /\ is_running = TRUE
  /\ emu = "start"
  /\ should_enter_debug = TRUE /\ stdin_failed = FALSE
  /\ held = {} /\ clicks = 0 /\ alone = {} /\ tracked = 0
-----------------------------------------------------------------------------
(* The UI thread: main_loop, then the tail of Main                          *)

(* main_loop does not look at which button it was: every button's press and *)
(* release is queued as the press and the release of the Macintosh's one.   *)

Click == clicks < MaxClicks /\ clicks' = clicks + 1

Press ==
  /\ Click
  /\ Cardinality(held) < Buttons
  /\ held' = held \cup {clicks'}
  /\ alone' = IF held = {} THEN alone \cup {clicks'} ELSE alone \ held
  /\ QueueMouseDown(clicks')
  /\ UNCHANGED debugVars

Release ==
  /\ Click
  /\ \E press \in held : held' = held \ {press}
  /\ QueueMouseUp(clicks')
  /\ UNCHANGED <<alone, debugVars>>

MoveOrKey ==
  /\ OnMouseMove(0) \/ QueueKeyDown
  /\ UNCHANGED <<mouse, debugVars>>

(* F10: Debugger::Break, which also ends the emulator's timeslice           *)
Break ==
  /\ should_enter_debug' = TRUE
  /\ UNCHANGED <<emVars, mouse, stdin_failed>>

Poll ==
  /\ main = "polling"
  /\ Press \/ Release \/ MoveOrKey \/ Break
  /\ UNCHANGED <<main, is_running, emu, tracked>>

UIStep(from, to) ==
  main = from /\ main' = to /\ UNCHANGED <<mouse, emu, tracked>>

Quit ==
  /\ UIStep("polling", "stopping")
  /\ UNCHANGED <<emVars, is_running, debugVars>>

StopEmulator ==
  /\ UIStep("stopping", "signalling")
  /\ is_running' = FALSE
  /\ UNCHANGED <<emVars, debugVars>>

(* pthread_kill(SIGINT): only a read in progress notices                    *)
Signal ==
  /\ UIStep("signalling", "closing")
  /\ stdin_failed' = (stdin_failed \/ emu = "reading")
  /\ UNCHANGED <<emVars, is_running, should_enter_debug>>

CloseQueue ==
  /\ UIStep("closing", "joining")
  /\ Shutdown
  /\ UNCHANGED <<is_running, debugVars>>

Join ==
  /\ UIStep("joining", "joined")
  /\ emu = "finished"
  /\ UNCHANGED <<emVars, is_running, debugVars>>
-----------------------------------------------------------------------------
(* The emulator thread: run_emulator_thread and Debugger::Prompt            *)

EmuStep(from, to) ==
  emu = from /\ emu' = to /\ UNCHANGED <<uiVars, is_running>>

LoopTest ==
  /\ EmuStep("start", IF ~is_running THEN "finished"
                      ELSE IF Debugging THEN "prompt" ELSE "guest")
  /\ UNCHANGED <<emVars, debugVars, tracked>>

Prompt ==
  /\ EmuStep("prompt", IF should_enter_debug THEN "reading" ELSE "guest")
  /\ UNCHANGED <<emVars, debugVars, tracked>>

(* A command: "run" leaves the debugger, "step" lets one instruction run,   *)
(* any other prompts again unless the loop was told to stop.                *)

Command ==
  /\ \/ EmuStep("reading", "guest") /\ should_enter_debug' = FALSE
     \/ EmuStep("reading", "guest") /\ UNCHANGED should_enter_debug
     \/ /\ EmuStep("reading", IF is_running THEN "prompt" ELSE "finished")
        /\ UNCHANGED should_enter_debug
  /\ UNCHANGED <<emVars, stdin_failed, tracked>>

(* a failed read gives the empty line, which repeats the last command       *)
CommandOnInterrupt == stdin_failed /\ Command

(* Emulator::Run up to a trap that queues something or only reads the queue *)
QueueTrap ==
  /\ call = "none"
  /\ EmuStep("guest", "start")
  /\ \/ \E w \in Windows : QueueWindowActivate(w) \/ QueueWindowUpdate(w)
     \/ \E t \in RawTypes : QueueRawEvent(t)
     \/ UNCHANGED emVars
  /\ UNCHANGED <<debugVars, tracked>>

(* a step of the GetNextEvent or the WaitNextEvent trap; when it is over    *)
(* the application holds the event and the loop tests is_running again      *)

EventTrap(step) ==
  /\ emu = "guest"
  /\ step
  /\ emu' = IF call' = "none" THEN "start" ELSE "guest"
  /\ tracked' = IF call' = "none" /\ reply'.what = MouseDown
                THEN reply'.arg ELSE 0
  /\ UNCHANGED <<uiVars, is_running, debugVars>>

GetTrap == \E m \in AppMasks : EventTrap(GetNextEvent(m))

WaitTrap ==
  \/ \E m \in AppMasks, timeout \in {0, 1} :
       EventTrap(WaitNextEvent(m, timeout))
  \/ EventTrap(StartWait) \/ EventTrap(NotifiedWake) \/ EventTrap(Retry)

WaitTimesOut == EventTrap(TimeOut) \/ EventTrap(Wake)

(* A MouseDown the application was just handed makes it call DragWindow or  *)
(* MenuSelect, which ask for mouse moves and loop until a MouseUp.          *)
BeginTracking ==
  /\ call = "none" /\ tracked # 0
  /\ \E kind \in Modals \cap {"drag", "menu"} : EmuStep("guest", kind)
  /\ EnableMouseMove
  /\ UNCHANGED <<debugVars, tracked>>

TrackMouse ==
  /\ emu \in {"drag", "menu"}
  /\ GetNextEvent(TrackingMask)
  /\ emu' = IF reply'.what = MouseUp THEN "leaving" ELSE emu
  /\ UNCHANGED <<uiVars, is_running, debugVars, tracked>>

(* ModalDialog first drains the queue, then loops until a MouseDown.        *)
BeginDialog ==
  /\ call = "none" /\ "dialog" \in Modals
  /\ EmuStep("guest", "draining")
  /\ tracked' = 0
  /\ UNCHANGED <<emVars, debugVars>>

DrainEvents ==
  /\ emu = "draining"
  /\ GetNextEvent(DrainMask)
  /\ emu' = IF reply'.what = NullEvent THEN "drained" ELSE emu
  /\ UNCHANGED <<uiVars, is_running, debugVars, tracked>>

RunDialog ==
  /\ EmuStep("drained", "dialog")
  /\ EnableMouseMove
  /\ UNCHANGED <<debugVars, tracked>>

DialogEvent ==
  /\ emu = "dialog"
  /\ GetNextEvent(DialogMask)
  /\ emu' = IF reply'.what = MouseDown THEN "leaving" ELSE emu
  /\ UNCHANGED <<uiVars, is_running, debugVars, tracked>>

(* the MouseMoveEnabler goes out of scope                                   *)
LeaveEnabled ==  \* mutant: the enabler outlives its scope
  /\ EmuStep("leaving", "start")
  /\ tracked' = 0
  /\ UNCHANGED <<emVars, debugVars>>

LeaveModal ==
  /\ EmuStep("leaving", "start")
  /\ RejectMouseMove
  /\ tracked' = 0
  /\ UNCHANGED debugVars
-----------------------------------------------------------------------------
EmulatorThread ==
  \/ LoopTest \/ Prompt \/ CommandOnInterrupt \/ QueueTrap \/ GetTrap \/ WaitTrap
  \/ BeginTracking \/ TrackMouse
  \/ BeginDialog \/ DrainEvents \/ RunDialog \/ DialogEvent
  \/ LeaveModal

MainThread == StopEmulator \/ Signal \/ CloseQueue \/ Join

Done == main = "joined" /\ UNCHANGED cyderVars

CyderNext ==
  \/ Poll \/ Quit \/ MainThread
  \/ EmulatorThread \/ Command \/ WaitTimesOut
  \/ Done

(* Both threads are scheduled.  Not fair: the user (input, console lines,   *)
(* closing the window) and the timeout of a wait.                           *)
CyderSpec ==
  /\ CyderInit /\ [][CyderNext]_cyderVars
  /\ WF_cyderVars(EmulatorThread) /\ WF_cyderVars(MainThread)
-----------------------------------------------------------------------------
Tracking == emu \in {"drag", "menu"}

CyderTypeOK ==
  /\ TypeOK
  /\ main \in {"polling", "stopping", "signalling", "closing", "joining",
               "joined"}
  /\ is_running \in BOOLEAN
  /\ emu \in {"start", "prompt", "reading", "guest", "drag", "menu",
              "draining", "drained", "dialog", "leaving", "finished"}
  /\ should_enter_debug \in BOOLEAN /\ stdin_failed \in BOOLEAN
  /\ clicks \in 0..MaxClicks /\ held \subseteq 1..clicks /\ alone \subseteq 1..clicks
  /\ tracked \in 0..MaxClicks

(* The threads use the queue as its specification supposes: one emulator    *)
(* thread inside it at a time, no WaitNextEvent while mouse moves are asked *)
(* for, no nested EnableMouseMove.  This is what makes up for the queueing  *)
(* methods that notify nobody.                                              *)
UsesEventManager == EventManagerInit /\ [][Next]_emVars

(* A drag or a menu ends with a release made after the press that began it, *)
(* never with one left in the queue by an earlier click; and with the       *)
(* release of that press, the click that followed it, unless another button *)
(* was down with it.  (The release of any button ends them, so with a       *)
(* second button the drag may end while its own is still held.)  It holds   *)
(* for an application that takes every type of event.                       *)
TrackingEndsWithItsRelease ==
  emu = "leaving" /\ tracked # 0 =>
    /\ reply.what = MouseUp /\ reply.arg > tracked
    /\ tracked \in alone => reply.arg = tracked + 1

(* With every variable in its type, the threads' and the queue's.           *)
EachPressHasItsRelease == CyderTypeOK /\ TrackingEndsWithItsRelease

(* Once every button is released, the drag or the menu ends: also when      *)
(* another drag took the release of its press, there is one left for it.    *)
ReleaseEndsTracking == Tracking /\ held = {} ~> ~Tracking

(* After the window is closed the UI thread gets to join the emulator       *)
(* thread and the process ends.                                             *)
QuitEndsTheProcess == main = "stopping" ~> main = "joined"

(* It does, unless the emulator thread stays where only the user can get it *)
(* out: in a modal loop or at the debugger's prompt.                        *)
QuitEndsUnlessUserIsAwaited ==
  QuitEndsTheProcess \/ <>[](emu \in {"reading", "drag", "menu", "dialog"})

(* If SIGINT did interrupt the debugger's read, no prompt keeps it alive.   *)
InterruptEndsPrompt ==
  \/ stdin_failed ~> main = "joined"
  \/ <>[](emu \in {"drag", "menu", "dialog"})

(* Nothing but a user who is awaited keeps the process from ending, neither *)
(* when the window is closed nor when the prompt is interrupted.            *)
OnlyTheUserDelaysTheEnd == QuitEndsUnlessUserIsAwaited /\ InterruptEndsPrompt
=============================================================================
