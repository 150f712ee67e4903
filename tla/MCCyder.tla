------------------------------ MODULE MCCyder ------------------------------
(* Constants of the Cyder runs                                              *)
EXTENDS Cyder

EveryEventOnly == {0..15}
MCMasks == AppMasks \cup {TrackingMask, DrainMask, DialogMask}
MCPlaces == 0..MaxClicks
=============================================================================
