---------------------------- MODULE DialogManager ----------------------------
(* The Dialog Manager, emu/dialog/dialog_manager.cc, on the Window Manager. *)
EXTENDS WindowManager

CONSTANT Dialogs  (* the pointers of DialogRecords                          *)
ASSUME DialogAssumption == Dialogs \subseteq Windows

(* without the InvalidateWindows of NewWindow the dialog has no regions yet *)
GetNewDialog(d, w, top, is_visible) ==
  LET created == [d EXCEPT !.record[w] = NewWindowRecord(w, top)]
  IN AddWindowToListAndActivate(
       IF is_visible THEN ShowWindow(created, w) ELSE created, w)

(* the rows it draws: wherever the record says, in front of everything      *)
DrawDialogWindow(d, w) == ContentAt(w, d.record[w].top)

(* ModalDialog takes every event there is, draws the dialogs that have one  *)
(* in the order of the events and then waits for the mouse                  *)
Drained(d) ==
  LET DrawnBy(y) == {i \in DOMAIN d.updates : y \in DrawDialogWindow(d, d.updates[i])}
  IN [d EXCEPT
       !.screen = [y \in Rows |->
          IF DrawnBy(y) = {} THEN d.screen[y]
          ELSE Drawn(d.updates[CHOOSE i \in DrawnBy(y) : \A j \in DrawnBy(y) : j <= i])],
       !.inverted = {y \in d.inverted : DrawnBy(y) = {}},
       !.updates = <<>>, !.activates = <<>>]
ModalDialogStops(d) ==
  \/ \E i \in DOMAIN d.updates : d.updates[i] \notin Dialogs
  \/ GetFrontWindow(d) \notin Dialogs
=============================================================================
