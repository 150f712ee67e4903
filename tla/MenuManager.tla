----------------------------- MODULE MenuManager -----------------------------
(* The Menu Manager, emu/menu_manager.cc and menu_popup.cc: a menu that is  *)
(* open inverts its title in the menu bar and covers the rows below it; the *)
(* row under the mouse is inverted.  All of it is undone by destructors.    *)
EXTENDS WindowManager

CONSTANTS
  Menus,    (* the menus in the menu bar                                    *)
  Items,    (* how many items a menu has                                    *)
  Enabled   (* Enabled[m]: the items of it that may be chosen               *)

ASSUME MenuAssumption ==
  /\ Items \in [Menus -> Nat] /\ Enabled \in [Menus -> SUBSET Nat]
  /\ \A m \in Menus \cup {NULL} : m \notin Nat

VARIABLES
  popup_menu,  (* a set of at most one open menu                            *)
  selecting    (* MenuSelect is running                                     *)

PopUpRows(m) == 1 .. Items[m]
MenuRow(m) == [of |-> m, drawn |-> TRUE]

MenuManagerInit == popup_menu = {} /\ selecting = FALSE

(* the mouse is on a title of the menu bar, on a row of the screen, or at   *)
(* the side of everything                                                   *)
Mouse == Menus \cup Desktop \cup {NULL}

(* a MenuPopUp keeps what it covers                                         *)
Opened(d, m) ==
  [screen |-> [y \in PopUpRows(m) |-> d.screen[y]],
   inverted |-> d.inverted \cap PopUpRows(m), menu |-> m, hovered |-> {}]
Open(d, m) == Paint(Xor(d, MenuBar), PopUpRows(m), MenuRow(m))

HoveredLast(d, popup) ==  \* mutant: inverted once the rows are restored
  Xor(Xor([d EXCEPT
        !.screen = [y \in Rows |-> IF y \in PopUpRows(popup.menu)
                                   THEN popup.screen[y] ELSE @[y]],
        !.inverted = (@ \ PopUpRows(popup.menu)) \cup popup.inverted],
      popup.hovered), MenuBar)
(* the destructor: the hovered row, the rows covered, the title             *)
Close(d, popup) ==
  LET restored == [Xor(d, popup.hovered) EXCEPT
        !.screen = [y \in Rows |-> IF y \in PopUpRows(popup.menu)
                                   THEN popup.screen[y] ELSE @[y]],
        !.inverted = (@ \ PopUpRows(popup.menu)) \cup popup.inverted]
  IN Xor(restored, MenuBar)

(* hovered_rect_ is replaced: the new one is drawn before the old is erased.*)
(* Beside the popup it is kept, on an item that is disabled it is reset.    *)
Hovered(popup, mouse) ==
  IF mouse \notin PopUpRows(popup.menu) THEN popup.hovered
  ELSE IF mouse \in Enabled[popup.menu] THEN {mouse} ELSE {}
Hover(d, popup, mouse) == Xor(Xor(d, Hovered(popup, mouse)), popup.hovered)

(* the open menu, if any, is closed first                                   *)
AllClosed == IF popup_menu = {} THEN wm ELSE Close(wm, CHOOSE p \in popup_menu : TRUE)

UpdateMenuBar(mouse) ==
  \/ /\ mouse \in Menus
     /\ \A popup \in popup_menu : popup.menu # mouse
     /\ wm' = Open(AllClosed, mouse)
     /\ popup_menu' = {Opened(AllClosed, mouse)}
  \/ /\ \E popup \in popup_menu :
          /\ mouse \notin Menus \ {popup.menu}
          /\ wm' = Hover(wm, popup, mouse)
          /\ popup_menu' = {[popup EXCEPT !.hovered = Hovered(popup, mouse)]}
  \/ /\ popup_menu = {} /\ mouse \notin Menus
     /\ UNCHANGED <<wm, popup_menu>>

MenuSelect(mouse) ==
  /\ ~selecting /\ selecting' = TRUE
  /\ UpdateMenuBar(mouse)

MenuMouseMove(mouse) ==
  /\ selecting /\ UNCHANGED selecting
  /\ UpdateMenuBar(mouse)

(* the popup, hovered once more, goes out of scope                          *)
MenuMouseUp(mouse) ==
  /\ selecting /\ selecting' = FALSE
  /\ \/ popup_menu = {} /\ UNCHANGED wm
     \/ \E popup \in popup_menu :
          wm' = Close(Hover(wm, popup, mouse),
                      [popup EXCEPT !.hovered = Hovered(popup, mouse)])
  /\ popup_menu' = {}
=============================================================================
