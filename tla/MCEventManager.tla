--------------------------- MODULE MCEventManager ---------------------------
(* EventManager for TLC.                                                    *)
EXTENDS EventManager

EveryEvent == 0..15

(* everyEvent, update and activate only, mouse-up with native moves as the  *)
(* tracking loops pass it, and input with updates                           *)
MCMasks == {EveryEvent, {WindowUpdate, WindowActivate}, {MouseUp, MouseMove},
            {KeyDown, WindowUpdate}}
=============================================================================
