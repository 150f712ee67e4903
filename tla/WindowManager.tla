--------------------------- MODULE WindowManager ---------------------------
(***************************************************************************)
(* The Window Manager, emu/window_manager.cc.  The screen is a column of    *)
(* rows, row 0 the menu bar, and a region a set of rows (Region shows that  *)
(* the list of scanlines it is in the code has the operations of sets).  A  *)
(* procedure is an operator from the manager's state to its next state, so  *)
(* that an action can make the calls the code makes, in their order.        *)
(* Left out: the bounding boxes of update and clip regions, which InvalRect *)
(* and EndUpDate write and nothing reads; titles; the Close box.            *)
(***************************************************************************)
EXTENDS Integers, Sequences, SequencesExt

CONSTANTS
  Windows,  (* the window pointers the application uses                     *)
  Plain,    (* those without a title bar                                    *)
  Height,   (* the rows of a window's content                               *)
  Tops,     (* where a window's content may start                           *)
  Bottom,   (* the last row of the screen                                   *)
  NULL

ASSUME WindowAssumption ==
  /\ Plain \subseteq Windows
  /\ Height \in [Windows -> Nat \ {0}]
  /\ Bottom \in Nat /\ Tops \subseteq 2 .. Bottom /\ Tops # {}
  /\ NULL \notin Windows

VARIABLES
  wm,      (* window_list (front first), the WindowRecords, the update and  *)
           (* activate events queued, what the screen shows, and which rows *)
           (* of it are inverted by the outline of a drag                   *)
  dragged, (* the window DragWindow is moving, and outline_rect_            *)
  aborted  (* why a CHECK ended the program                                 *)

MenuBar == {0}
Desktop == 1 .. Bottom
Rows == MenuBar \cup Desktop

(* what a row shows: the desktop pattern, the menu bar, or a window, erased *)
(* or with what the application drew                                        *)
DesktopRow == [of |-> NULL, drawn |-> FALSE]
MenuBarRow == [of |-> NULL, drawn |-> TRUE]
Erased(w) == [of |-> w, drawn |-> FALSE]
Drawn(w) == [of |-> w, drawn |-> TRUE]

InLocalCoordinates(w) == 0 .. Height[w] - 1
ContentAt(w, top) == top .. top + Height[w] - 1
StructureAt(w, top) == top - 1 .. top + Height[w]
(* what lies over the content in the structure region                       *)
TitleOf(w) ==
  IF w \in Plain THEN {} ELSE wm.record[w].structure \cap {wm.record[w].top - 1}

(* port_rect is in local coordinates                                        *)
NewWindowRecord(w, top) ==
  [top |-> top, hilited |-> 0, structure |-> {}, content |-> {},
   visible |-> InLocalCoordinates(w), clip |-> InLocalCoordinates(w),
   update |-> InLocalCoordinates(w)]

WindowManagerInit ==
  /\ wm = [window_list |-> <<>>,
           record |-> [w \in Windows |-> NewWindowRecord(w, CHOOSE t \in Tops : TRUE)],
           updates |-> <<>>, activates |-> <<>>,
           screen |-> [y \in Rows |-> IF y \in MenuBar THEN MenuBarRow ELSE DesktopRow],
           inverted |-> {}]
  /\ dragged = {}
  /\ aborted = "no"
-----------------------------------------------------------------------------
(* Drawing replaces what a row shows, the inversion of an outline included  *)
Paint(d, rows, shows) ==
  [d EXCEPT !.screen = [y \in Rows |-> IF y \in rows THEN shows ELSE d.screen[y]],
            !.inverted = @ \ rows]

QueueWindowUpdate(d, w) == [d EXCEPT !.updates = Append(@, w)]
QueueWindowActivate(d, w) == [d EXCEPT !.activates = Append(@, w)]

DesktopStays(d, w) == d  \* mutant: the desktop is not repainted
RepaintDesktopOverWindow(d, w) ==
  Paint(d, Desktop \cap d.record[w].structure, DesktopRow)

(* A boolean of a record is written back as 1, not as the 0xFF it was       *)
WrittenBack(boolean) == boolean % 2

DirtyOnly(update, dirty) == dirty  \* mutant: what was to be updated is lost
StillToUpdate(update, dirty) == update \cup dirty

(* the rows over window i: the menu bar and the windows in front of it      *)
Overlay(d, i) ==
  MenuBar \cup UNION {StructureAt(w, d.record[w].top) :
                        w \in {d.window_list[j] : j \in 1 .. i - 1}}

Invalidated(r, w, overlay) ==
  LET content == ContentAt(w, r.top)
      visible == content \ overlay
      update == StillToUpdate(r.update, visible \ r.visible) \cap visible
  IN [r EXCEPT !.content = content, !.structure = StructureAt(w, r.top),
               !.visible = visible, !.update = update, !.hilited = WrittenBack(@)]

(* from front to back: regions, frame, update event                         *)
InvalidateWindows(d) ==
  LET list == d.window_list
      FrameOf(i) == StructureAt(list[i], d.record[list[i]].top) \ Overlay(d, i)
      Framed(y) == {i \in DOMAIN list : y \in FrameOf(i)}
  IN [d EXCEPT
       !.record = [w \in Windows |->
          IF Contains(list, w)
          THEN LET i == CHOOSE i \in DOMAIN list : list[i] = w
               IN Invalidated(d.record[w], w, Overlay(d, i))
          ELSE d.record[w]],
       !.screen = [y \in Rows |->
          IF Framed(y) = {} THEN d.screen[y]
          ELSE Erased(list[CHOOSE i \in Framed(y) : \A j \in Framed(y) : j <= i])],
       !.inverted = {y \in d.inverted : Framed(y) = {}},
       !.updates = @ \o list]

(* w is in the list, once                                                   *)
Without(list, w) == RemoveAt(list, CHOOSE i \in DOMAIN list : list[i] = w)
MoveToFront(list, w) == <<w>> \o Without(list, w)

Hilited(d, target, w) == IF w = target THEN 255 ELSE 0

(* "If the specified window is already active, SelectWindow has no effect." *)
SelectWindow(d, target) ==
  IF d.record[target].hilited = 255 THEN d
  ELSE LET hilited ==
             [d EXCEPT
               !.record = [w \in Windows |->
                  IF Contains(d.window_list, w)
                  THEN [d.record[w] EXCEPT !.hilited = Hilited(d, target, w)]
                  ELSE d.record[w]],
               !.window_list = MoveToFront(@, target)]
       IN InvalidateWindows(QueueWindowActivate(hilited, target))

ShowWindow(d, w) == QueueWindowUpdate(d, w)

NewWindow(d, w, top, is_visible, behind) ==
  LET added == [d EXCEPT !.record[w] = NewWindowRecord(w, top),
                         !.window_list = Append(@, w)]
      shown == IF is_visible THEN ShowWindow(added, w) ELSE added
  IN IF behind # NULL \/ Len(added.window_list) = 1
     THEN SelectWindow(shown, w) ELSE InvalidateWindows(shown)

(* push_front, after which MoveToFront finds nothing to do                  *)
AddWindowToListAndActivate(d, w) == [d EXCEPT !.window_list = <<w>> \o @]

GetFrontWindow(d) == IF d.window_list = <<>> THEN NULL ELSE d.window_list[1]

(* front() of an empty list is whatever is in memory there                  *)
FrontWindows(d) ==
  IF d.window_list = <<>> THEN Windows \cup {NULL} ELSE {d.window_list[1]}

TooEarly(d, w, front) ==  \* mutant: the front window before w is removed
  InvalidateWindows(QueueWindowActivate(
    [RepaintDesktopOverWindow(d, w) EXCEPT
       !.window_list = Without(@, w)], GetFrontWindow(d)))
DisposeWindow(d, w, front) ==
  InvalidateWindows(QueueWindowActivate(
    [RepaintDesktopOverWindow(d, w) EXCEPT
       !.window_list = Without(@, w)], front))

MoveWindow(d, w, top, bring_to_front) ==
  LET moved == [RepaintDesktopOverWindow(d, w) EXCEPT !.record[w].top = top]
  IN IF bring_to_front /\ WrittenBack(d.record[w].hilited) = 0
     THEN SelectWindow(moved, w)
     ELSE InvalidateWindows([moved EXCEPT !.record[w].hilited = WrittenBack(@)])

(* FrameRect with FillMode::XOr                                             *)
Xor(d, rows) == [d EXCEPT !.inverted = (@ \ rows) \cup (rows \ @)]
Edges(w, top) == Desktop \cap {top - 1, top + Height[w]}

(* the outline is erased at its first place without having been drawn there *)
DragBegin(w) ==
  /\ dragged' = {[window |-> w, top |-> wm.record[w].top]}
  /\ UNCHANGED wm

DragMove(top) ==
  \E outline \in dragged :
    /\ wm' = Xor(Xor(wm, Edges(outline.window, outline.top)), Edges(outline.window, top))
    /\ dragged' = {[outline EXCEPT !.top = top]}

DragEnd(top) ==
  \E outline \in dragged :
    /\ wm' = MoveWindow(Xor(wm, Edges(outline.window, outline.top)),
                        outline.window, top, TRUE)
    /\ dragged' = {}

(* the window whose title or content is at row y; NULL if there is none     *)
HitBy(w) == TitleOf(w) \cup wm.record[w].content
Rearmost(y) ==  \* mutant: the list is searched from its end
  LET hit == {i \in DOMAIN wm.window_list : y \in HitBy(wm.window_list[i])}
  IN IF hit = {} THEN NULL
     ELSE wm.window_list[CHOOSE i \in hit : \A j \in hit : j <= i]
GetWindowAt(y) ==
  LET hit == {i \in DOMAIN wm.window_list : y \in HitBy(wm.window_list[i])}
  IN IF hit = {} THEN NULL
     ELSE wm.window_list[CHOOSE i \in hit : \A j \in hit : i <= j]

(* on the way there it reads the regions of every window in front           *)
LookedAt(y) ==
  {wm.window_list[i] : i \in {i \in DOMAIN wm.window_list :
                                \A j \in 1 .. i - 1 : y \notin HitBy(wm.window_list[j])}}
=============================================================================
