------------------------------- MODULE Toolbox -------------------------------
(***************************************************************************)
(* An application and the managers it calls through the traps of           *)
(* emu/trap/trap_dispatcher.cc.  It redraws a window when it takes an       *)
(* update event for it, between BeginUpDate and EndUpDate and nowhere else, *)
(* and calls no other trap in between; it ignores events of windows it has  *)
(* disposed of.  All of this is the emulator thread: a trap is one step,    *)
(* except the two that follow the mouse, DragWindow and MenuSelect.         *)
(***************************************************************************)
EXTENDS DialogManager, MenuManager

CONSTANT Backlog  (* bound: with more update events than this queued, or    *)
                  (* any activate event, the application takes an event     *)

VARIABLES
  updating,              (* the window between BeginUpDate and EndUpDate    *)
  previous_clip_region

vars == <<wm, dragged, aborted, popup_menu, selecting, updating,
          previous_clip_region>>
app == <<updating, previous_clip_region>>
menu == <<popup_menu, selecting>>

Init ==
  /\ WindowManagerInit /\ MenuManagerInit
  /\ updating = {} /\ previous_clip_region = {}

Listed(w) == Contains(wm.window_list, w)
Idle ==
  /\ aborted = "no" /\ dragged = {} /\ ~selecting /\ updating = {}
  /\ wm.activates = <<>> /\ Len(wm.updates) <= Backlog

(* A CHECK fails when a region is read through a handle that is 0           *)
Trap(next, needs) ==
  IF \A w \in needs : wm.record[w].structure # {}
  THEN wm' = next /\ UNCHANGED aborted
  ELSE aborted' = "Handle can not be found" /\ UNCHANGED wm
-----------------------------------------------------------------------------
(* Events: first the activate events, then the update events                *)
TakeActivate ==
  /\ aborted = "no" /\ dragged = {} /\ ~selecting /\ updating = {}
  /\ wm.activates # <<>>
  /\ wm' = [wm EXCEPT !.activates = Tail(@)]
  /\ UNCHANGED <<dragged, aborted, app, menu>>

TakeUpdate ==
  /\ aborted = "no" /\ dragged = {} /\ ~selecting /\ updating = {}
  /\ wm.activates = <<>> /\ wm.updates # <<>>
  /\ LET w == wm.updates[1]
         taken == [wm EXCEPT !.updates = Tail(@)]
     IN IF Listed(w) /\ w \notin Dialogs
        THEN /\ wm' = [taken EXCEPT !.record[w].clip = wm.record[w].update]
             /\ previous_clip_region' = wm.record[w].clip
             /\ updating' = {w}
        ELSE wm' = taken /\ UNCHANGED app
  /\ UNCHANGED <<dragged, aborted, menu>>

(* the application draws all of its content, and EndUpDate                  *)
EndUpDate ==
  /\ \E w \in updating :
       wm' = [Paint(wm, wm.record[w].clip \cap wm.record[w].content, Drawn(w))
                EXCEPT !.record[w].clip = previous_clip_region]
  /\ updating' = {}
  /\ UNCHANGED <<dragged, aborted, previous_clip_region, menu>>
-----------------------------------------------------------------------------
(* NewWindow and GetNewWindow                                               *)
NewWindowTrap(w, top, is_visible, behind) ==
  /\ Idle /\ ~Listed(w) /\ w \notin Dialogs
  /\ wm' = QueueWindowUpdate(QueueWindowActivate(
             NewWindow(wm, w, top, is_visible, behind), w), w)
  /\ UNCHANGED <<dragged, aborted, app, menu>>

SelectWindowTrap(w) ==
  /\ Idle /\ Listed(w)
  /\ wm' = SelectWindow(wm, w)
  /\ UNCHANGED <<dragged, aborted, app, menu>>

MoveWindowTrap(w, top, front) ==
  /\ Idle /\ Listed(w)
  /\ Trap(MoveWindow(wm, w, top, front), {w})
  /\ UNCHANGED <<dragged, app, menu>>

(* DisposeWindow and DisposeDialog                                          *)
DisposeWindowTrap(w) ==
  /\ Idle /\ Listed(w)
  /\ \E front \in FrontWindows([wm EXCEPT !.window_list = Without(@, w)]) :
       Trap(DisposeWindow(wm, w, front), {w})
  /\ UNCHANGED <<dragged, app, menu>>

(* InvalRect of the current port                                            *)
InvalRect(w) ==
  /\ Idle /\ Listed(w)
  /\ wm' = QueueWindowUpdate(wm, w)
  /\ UNCHANGED <<dragged, aborted, app, menu>>

DragWindowTrap(w) ==
  /\ Idle /\ Listed(w)
  /\ IF wm.record[w].structure # {}
     THEN DragBegin(w) /\ UNCHANGED aborted
     ELSE aborted' = "Handle can not be found" /\ UNCHANGED <<wm, dragged>>
  /\ UNCHANGED <<app, menu>>

(* a dialog that was never invalidated, anywhere in front, ends the program *)
FindWindow(y) ==
  /\ Idle
  /\ Trap(wm, LookedAt(y))
  /\ UNCHANGED <<dragged, app, menu>>

GetNewDialogTrap(w, top, is_visible) ==
  /\ Idle /\ ~Listed(w) /\ w \in Dialogs
  /\ wm' = GetNewDialog(wm, w, top, is_visible)
  /\ UNCHANGED <<dragged, aborted, app, menu>>

(* needs no empty queue: a modal dialog takes what there is                 *)
ModalDialog ==
  /\ aborted = "no" /\ dragged = {} /\ ~selecting /\ updating = {}
  /\ Len(wm.updates) <= Backlog
  /\ \E i \in DOMAIN wm.window_list : wm.window_list[i] \in Dialogs
  /\ IF ModalDialogStops(wm)
     THEN aborted' = "Passed WindowRecord must be a dialogKind" /\ UNCHANGED wm
     ELSE wm' = Drained(wm) /\ UNCHANGED aborted
  /\ UNCHANGED <<dragged, app, menu>>

Next ==
  \/ TakeActivate \/ TakeUpdate \/ EndUpDate
  \/ \E w \in Windows, top \in Tops, flag \in BOOLEAN :
       \/ \E behind \in {NULL} \cup (Windows \ {w}) : NewWindowTrap(w, top, flag, behind)
       \/ MoveWindowTrap(w, top, flag)
       \/ GetNewDialogTrap(w, top, flag)
  \/ \E w \in Windows :
       SelectWindowTrap(w) \/ DisposeWindowTrap(w) \/ InvalRect(w) \/ DragWindowTrap(w)
  \/ \E y \in Desktop : FindWindow(y)
  \/ ModalDialog
  \/ \E top \in Tops :
       (DragMove(top) \/ DragEnd(top)) /\ UNCHANGED <<aborted, app, menu>>
  \/ \E mouse \in Mouse :
       /\ \/ Idle /\ MenuSelect(mouse)
          \/ MenuMouseMove(mouse)
          \/ MenuMouseUp(mouse)
       /\ UNCHANGED <<dragged, aborted, app>>

Spec == Init /\ [][Next]_vars
-----------------------------------------------------------------------------
Row == [of : Windows \cup Menus \cup {NULL}, drawn : BOOLEAN]
RowsOf(w) == InLocalCoordinates(w) \cup UNION {StructureAt(w, top) : top \in Tops}
ToolboxTypeOK ==
  /\ wm.window_list \in Seq(Windows) /\ IsInjective(wm.window_list)
  /\ \A w \in Windows :
       /\ wm.record[w].hilited \in {0, 1} /\ wm.record[w].top \in Tops
       /\ \A f \in {"structure", "content", "visible", "clip", "update"} :
            wm.record[w][f] \subseteq RowsOf(w)
  /\ wm.updates \in Seq(Windows) /\ wm.activates \in Seq(Windows \cup {NULL})
  /\ \A y \in Rows : wm.screen[y] \in Row
  /\ wm.inverted \subseteq Rows
  /\ updating \subseteq Windows /\ previous_clip_region \subseteq UNION {RowsOf(w) : w \in Windows}
  /\ \A popup \in popup_menu : popup.hovered \subseteq PopUpRows(popup.menu)

(* No ghosts: every row of the screen shows the foremost window that has    *)
(* it, whatever was created, moved, selected or disposed of before and      *)
(* however often a menu was opened over it, and the desktop where there is  *)
(* none.  Rows with what a dialog drew itself are left out (DrawDialogWindow*)
(* heeds neither the windows in front nor whether the dialog still exists). *)
Foremost(y) ==
  LET over == {i \in DOMAIN wm.window_list : y \in wm.record[wm.window_list[i]].structure}
  IN IF over = {} THEN NULL
     ELSE wm.window_list[CHOOSE i \in over : \A j \in over : i <= j]
ByADialog(y) == \E w \in Dialogs : wm.screen[y] = Drawn(w)
NoGhosts ==
  ~selecting =>
    \A y \in Rows : ByADialog(y) \/
      IF y \in MenuBar THEN wm.screen[y] = MenuBarRow
      ELSE wm.screen[y].of = Foremost(y) /\ (Foremost(y) = NULL => wm.screen[y] = DesktopRow)

(* Drawing a frame erases the window's content: whenever no update event is *)
(* left for a window, all of it that can be seen has been drawn again.  No  *)
(* row is erased that the next update event's clip region lacks.            *)
DrawnWhenQuiet ==
  ~selecting =>
    \A w \in Windows \ Dialogs :
      Listed(w) /\ w \notin updating /\ ~Contains(wm.updates, w) =>
        \A y \in Rows :
          y \in wm.record[w].content /\ Foremost(y) = w =>
            wm.screen[y] = Drawn(w) \/ ByADialog(y)

(* Exclusive-or drawing is undone: after a drag or a menu nothing of the    *)
(* screen is left inverted, though DragGrayRegion first "erases" an outline *)
(* it has not drawn.                                                        *)
NothingStaysInverted == dragged = {} /\ ~selecting => wm.inverted = {}

(* Where FindWindow answers, it names the window the user sees at a point in*)
(* its title or content.  It does not answer, and the program ends, where a *)
(* dialog without regions is among the windows it looks at.                 *)
Answers(y) == \A w \in LookedAt(y) : wm.record[w].structure # {}
ClicksHitWhatIsShown ==
  ~selecting =>
    \A w \in Windows : Listed(w) =>
      \A y \in HitBy(w) \cap Rows :
        wm.screen[y].of = w /\ ~ByADialog(y) /\ Answers(y) => GetWindowAt(y) = w

(* In every state of the three managers, each variable in its type.         *)
ClicksGoWhereTheyShould == ToolboxTypeOK /\ ClicksHitWhatIsShown

(* One window at most has the striped title bar of the active window, and   *)
(* only dialogs are in front of it.                                         *)
TheActiveWindowIsInFront ==
  \A i, j \in DOMAIN wm.window_list :
    wm.record[wm.window_list[j]].hilited = 1 /\ i # j =>
      /\ wm.record[wm.window_list[i]].hilited = 0
      /\ i < j => wm.window_list[i] \in Dialogs

(* When another window comes to the front the application is sent an        *)
(* activate event for it, unless it is a dialog just created.               *)
TheFrontWindowIsActivated ==
  [][LET front == GetFrontWindow(wm)'
     IN front # GetFrontWindow(wm) /\ front # NULL /\ ~(front \in Dialogs /\ ~Listed(front))
          => Contains(wm.activates', front)]_vars

(* Which window is active follows which is in front: in what is drawn, and  *)
(* in what the application is told.                                         *)
TheFrontWindowIsActive == []TheActiveWindowIsInFront /\ TheFrontWindowIsActivated
=============================================================================
