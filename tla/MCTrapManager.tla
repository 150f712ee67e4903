--------------------------- MODULE MCTrapManager ---------------------------
(* Instances of TrapManager for TLC.                                        *)
EXTENDS TrapManager

HiWord == 43114       \* 0xA86A
HiWordGlue == 44138   \* 0xAC6A, the same with the auto-pop bit
HOpen == 40960        \* 0xA000, saves A0
NewPtr == 41246       \* 0xA11E, returns A0
Pack7 == 43502        \* 0xA9EE

(* a D1 with bit R clear, as for HOpen, and one with it set, as for NewPtr  *)
MCRegisters ==
  {[A0 |-> 1, A1 |-> 2, D1 |-> d, D2 |-> 4] : d \in {3, 259}}

(* all kinds of trap, patched ones chaining to their handler                *)
MCTraps == {HiWordGlue, HOpen, NewPtr, LoadSeg, GetTrapAddressTrap,
            SetTrapAddressTrap}
MCPatchable == {HiWord, NewPtr}

(* one patched system trap                                                  *)
MCSystemTraps == {NewPtr, HOpen, SetTrapAddressTrap, GetTrapAddressTrap}
MCSystemPatchable == {NewPtr, HOpen}
=============================================================================
