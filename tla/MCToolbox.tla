------------------------------ MODULE MCToolbox ------------------------------
(* Toolbox for TLC: two windows and a dialog, two of them with one row of   *)
(* content and one with two, on a screen of six rows; two menus.            *)
EXTENDS Toolbox
CONSTANTS w1, w2, dialog, m1, m2
MCHeight == (w1 :> 1) @@ (w2 :> 2) @@ (dialog :> 1)
MCItems == (m1 :> 2) @@ (m2 :> 1)
MCEnabled == (m1 :> {2}) @@ (m2 :> {1})
MCTops == {2, 3}
=============================================================================
