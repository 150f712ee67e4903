---------------------------- MODULE TrapManager ----------------------------
(***************************************************************************)
(* How an A-Trap executed by emulated code reaches native code and comes    *)
(* back: emu/trap/trap_manager.cc, the calls from native code into emulated *)
(* code of emu/emulator.{h,cc}, and the one stack and four registers they   *)
(* share.  The emulated code itself is left open: it executes traps, patches*)
(* them, and ends a patch with an RTS or by chaining to the address it was  *)
(* given for the native handler.  An exception, the RTE at                  *)
(* kTrapManagerEntryAddress and the native function behind it are one step: *)
(* Emulator::Run calls the function as soon as m68k_execute returns.        *)
(***************************************************************************)
EXTENDS Integers, Sequences, SequencesExt

CONSTANTS
  Traps,      (* the trap words the application executes                    *)
  Patchable,  (* the numbers it passes to the Get and Set traps             *)
  Callbacks,  (* traps whose native handler may call an emulated function   *)
  Registers,  (* the register contents emulated code may leave behind       *)
  Result,     (* the value a system trap's handler returns in A0            *)
  MaxDepth    (* bound: traps and function calls in progress at a time      *)

(* trap words, emu/trap/trap_helpers.h *)
ATrap == 40960  \* 0xA000
IsToolbox(trap) == (trap \div 2048) % 2 = 1
IsSystem(trap) == ~IsToolbox(trap)
EightBitIndex(trap) == trap % 256  \* mutant: masks as for a system trap
ExtractToolboxIndex(trap) == trap % 1024
ExtractSystemIndex(trap) == trap % 256
ExtractIndex(trap) ==
  IF IsToolbox(trap) THEN ExtractToolboxIndex(trap) ELSE ExtractSystemIndex(trap)
IsAutoPopSet(trap) == IsToolbox(trap) /\ (trap \div 1024) % 2 = 1
ShouldSaveA0(trap) == IsSystem(trap) /\ (trap \div 256) % 2 = 0

LoadSeg == 43504                \* 0xA9F0
GetOSTrapAddress == 41798       \* 0xA346
GetToolBoxTrapAddress == 42822  \* 0xA746
GetTrapAddressTrap == 41286     \* 0xA146
SetTrapAddressTrap == 41031     \* 0xA047
SetToolBoxTrapAddress == 42567  \* 0xA647
Unimplemented == 43167          \* 0xA89F

RegisterFile == [A0 : Nat, A1 : Nat, D1 : Nat, D2 : Nat]

(* The words 0xA000 to 0xAFFF are traps; those from 0xA800 on the Toolbox's,*)
(* from 0xAC00 on with the auto-pop bit.  No handler calls a function yet;  *)
(* those that will are Toolbox ones, as in CallFunctionNested of            *)
(* emulator_tests.cc.                                                       *)
ASSUME TrapsAssumption ==
  /\ Traps \subseteq ATrap .. ATrap + 4095
  /\ Patchable \subseteq Nat
  /\ Callbacks \subseteq ATrap + 2048 .. ATrap + 3071
  /\ Registers \subseteq RegisterFile
  /\ Result \in Nat
  /\ MaxDepth \in Nat

GetTraps == {GetOSTrapAddress, GetToolBoxTrapAddress, GetTrapAddressTrap}
SetTraps == {SetTrapAddressTrap, SetToolBoxTrapAddress}

(* Addresses and stack slots: emulated code at nesting level l, a glue      *)
(* routine it called, the jump table entry it called through, a native stub,*)
(* PerformTrapDispatch called by PerformTrapEntry, a saved register, the    *)
(* arguments of a trap or (0) of a function, the place for its result.      *)
Code(l) == [at |-> "code", arg |-> l]
Glue(l) == [at |-> "glue", arg |-> l]
Entry(l) == [at |-> "entry", arg |-> l]
Stub(table, i) == [at |-> table, arg |-> i]
Saved(value) == [at |-> "saved", arg |-> value]
Args(trap) == [at |-> "args", arg |-> trap]
Patch == [at |-> "patch", arg |-> 0]
Dispatching(trap) == [at |-> "dispatch", arg |-> trap]
ExitAddress == [at |-> "exit", arg |-> 0]
EndFunctionCall == [at |-> "end_of_call", arg |-> 0]
Placeholder(l) == [at |-> "result", arg |-> l]
Bottom == [at |-> "application", arg |-> 0]
Nowhere == [at |-> "zero", arg |-> 0]
Astray == [at |-> "astray", arg |-> 0]  \* a slot that is no return address

VARIABLES
  pc, stack,  (* the top of the stack is its last element                   *)
  regs,       (* A0, A1, D1, D2                                             *)
  patch_trap_addresses,
  native,     (* trap handlers suspended in CallFunction, innermost last    *)
  exit_funcs, (* whose flag each exit function sets: an index of `native'   *)
  held,       (* the addresses the application got from the Get traps       *)
  frames,     (* history: what every trap and call in progress returns to   *)
  halted      (* a CHECK failed                                             *)

tmVars == <<pc, stack, regs, patch_trap_addresses, native, exit_funcs, held,
            frames, halted>>

(* PatchTrapsFromSystemFile may have patched Pack4 and Pack7                *)
Packs == {43499, 43502}
TrapManagerInit ==
  /\ pc = Code(0) /\ stack = <<Bottom>>
  /\ regs \in Registers
  /\ patch_trap_addresses \in {[t \in P |-> Patch] : P \in SUBSET (Packs \cap Traps)}
  /\ native = <<>> /\ exit_funcs = <<>>
  /\ held = [t \in {} |-> Patch]
  /\ frames = <<>>
  /\ halted = FALSE

Level == Len(frames)
Push(s, slot) == Append(s, slot)
Top(s) == s[Len(s)]
Pop(s) == Front(s)
-----------------------------------------------------------------------------
(* The trap table                                                           *)

IsNative(address) == address.at \in {"toolbox_stub", "system_stub"}
NativeAddress(trap) ==
  IF IsToolbox(trap) THEN Stub("toolbox_stub", ExtractIndex(trap))
                     ELSE Stub("system_stub", ExtractIndex(trap))

AddressOf(trap) ==  \* TrapManager::GetTrapAddress
  IF trap = Unimplemented THEN Nowhere
  ELSE IF trap \in DOMAIN patch_trap_addresses THEN patch_trap_addresses[trap]
  ELSE NativeAddress(trap)

(* a bare number below 0xFF is made a trap word by the table it is in       *)
OnOSTable(number) == number < 79 \/ number \in {84, 87}
FullTrap(number) ==
  CASE number >= 255 -> number
    [] number < 255 /\ OnOSTable(number) -> ATrap + number
    [] number < 255 /\ ~OnOSTable(number) -> ATrap + 2048 + number

TrapLookedUp(get, number) ==
  CASE get = GetOSTrapAddress -> ExtractSystemIndex(number)
    [] get = GetToolBoxTrapAddress -> ExtractToolboxIndex(number)
    [] get = GetTrapAddressTrap -> FullTrap(number)

(* the trap for OS traps is used for OS traps                               *)
Suits(trap, number) ==
  CASE trap = GetOSTrapAddress -> IsSystem(number)
    [] trap \in {GetToolBoxTrapAddress, SetToolBoxTrapAddress} -> IsToolbox(number)
    [] trap \in {GetTrapAddressTrap, SetTrapAddressTrap} -> TRUE

GetAddress(get, number) ==
  /\ held' = [t \in DOMAIN held \cup {number} |->
                IF t = number THEN AddressOf(TrapLookedUp(get, number)) ELSE held[t]]
  /\ UNCHANGED patch_trap_addresses

(* an address among the native stubs removes the patch                      *)
SetAddress(number, address) ==
  /\ patch_trap_addresses' =
       IF IsNative(address)
       THEN [t \in DOMAIN patch_trap_addresses \ {number} |-> patch_trap_addresses[t]]
       ELSE [t \in DOMAIN patch_trap_addresses \cup {number} |->
               IF t = number THEN address ELSE patch_trap_addresses[t]]
  /\ UNCHANGED held

(* an application gets the zero of _Unimplemented to compare with it        *)
SetInput == ({Patch} \cup {held[t] : t \in DOMAIN held}) \ {Nowhere}
InternalDispatch(trap) ==
  \E number \in {n \in Patchable : Suits(trap, n)} :
    \/ trap \in GetTraps /\ GetAddress(trap, number)
    \/ trap \in SetTraps /\ \E address \in SetInput : SetAddress(number, address)
-----------------------------------------------------------------------------
(* Executing a trap                                                         *)

(* Control reaches `address'; back in emulated code, the trap is over.      *)
GoTo(address) ==
  /\ pc' = address
  /\ frames' = IF address.at \in {"code", "entry", "glue"} THEN Front(frames)
                                                          ELSE frames

(* a handler whose emulated function has returned                           *)
HandlerReady == \E i \in DOMAIN native : i = Len(native) /\ native[i].phase = "ready"

(* emulated code runs                                                       *)
Running ==
  /\ pc.at \in {"code", "entry"} /\ ~halted
  /\ ~HandlerReady

NoAutoPop(trap, s) ==  \* mutant: the glue routine's return address stays
  [ip |-> IF IsAutoPopSet(trap) THEN Glue(pc.arg) ELSE Code(pc.arg), rest |-> s]
ReturnPoint(trap, s) ==
  IF IsAutoPopSet(trap) THEN [ip |-> Top(s), rest |-> Pop(s)]
                        ELSE [ip |-> Code(pc.arg), rest |-> s]

RegistersSaved(trap) ==
  (IF ShouldSaveA0(trap) THEN <<Saved(regs.A0)>> ELSE <<>>)
    \o <<Saved(regs.A1), Saved(regs.D1), Saved(regs.D2)>>

(* The caller pushes what the trap takes from the stack and, with the       *)
(* auto-pop bit, calls a glue routine.  A patched system trap returns       *)
(* through kTrapManagerExitAddress like a native one.                       *)
PerformTrapEntry(word) ==
  LET trap == IF IsAutoPopSet(word) THEN word - 1024 ELSE word
      pushed == stack \o (IF IsToolbox(trap) THEN <<Args(trap)>> ELSE <<>>)
                      \o (IF IsAutoPopSet(word) THEN <<Code(pc.arg)>> ELSE <<>>)
      point == ReturnPoint(word, pushed)
      entered == Push(point.rest, point.ip)
                   \o (IF IsSystem(trap) THEN RegistersSaved(trap) ELSE <<>>)
      patched == trap \in DOMAIN patch_trap_addresses
  IN /\ Running /\ Level < MaxDepth
     /\ stack' = IF patched /\ IsSystem(trap) THEN Push(entered, ExitAddress)
                                              ELSE entered
     /\ pc' = IF patched THEN Code(Level + 1) ELSE Dispatching(trap)
     /\ regs' = IF IsSystem(trap) THEN [regs EXCEPT !.D1 = trap] ELSE regs
     /\ frames' = Append(frames, [trap |-> trap, resume |-> Code(pc.arg),
                                  below |-> stack, regs |-> regs])
     /\ UNCHANGED <<patch_trap_addresses, native, exit_funcs, held, halted>>

AtDispatch ==
  pc.at \in {"dispatch", "toolbox_stub", "system_stub"} /\ ~HandlerReady

(* the native stubs pass 0xA000 | index where PerformTrapEntry passes index *)
TrapIndex == IF pc.at = "dispatch" THEN ExtractIndex(pc.arg) ELSE ATrap + pc.arg
ToToolbox == IF pc.at = "dispatch" THEN IsToolbox(pc.arg) ELSE pc.at = "toolbox_stub"
TrapOp == IF ToToolbox THEN ATrap + 2048 + (TrapIndex % 1024) ELSE regs.D1
WrongTrap == ~ToToolbox /\ TrapIndex # ExtractIndex(regs.D1)

(* a system trap returns a value in A0, a toolbox trap on the stack         *)
HandlerResult(trap) ==
  IF IsToolbox(trap) THEN UNCHANGED regs
                     ELSE regs' \in {regs, [regs EXCEPT !.A0 = Result]}

(* PerformTrapDispatch ends: from PerformTrapEntry a system trap goes on to *)
(* the exit address and leaves its return address on the stack              *)
Finish(trap, from, ret, s) ==
  IF from = "dispatch" /\ IsSystem(trap)
  THEN GoTo(ExitAddress) /\ stack' = Push(s, ret)
  ELSE GoTo(ret) /\ stack' = s

(* CallFunction in the handler of `trap': the emulated function runs one    *)
(* level up, above everything the call pushed                               *)
CallFunction(trap, from, ret, s) ==
  /\ trap \in Callbacks /\ Level < MaxDepth
  /\ exit_funcs' = Append(exit_funcs, Len(native) + 1)
  /\ native' = Append(native, [trap |-> trap, from |-> from, ret |-> ret,
                               phase |-> "calling"])
  /\ frames' = Append(frames, [trap |-> 0, resume |-> pc, below |-> s, regs |-> regs])
  /\ stack' = s \o <<pc, Placeholder(Level + 1), Args(0), EndFunctionCall>>
  /\ pc' = Code(Level + 1)
  /\ UNCHANGED <<regs, patch_trap_addresses, held, halted>>

(* LoadSeg takes its argument and moves the return address back to the jump *)
(* table entry, which SegmentLoader::Load has rewritten                     *)
Returning(trap, ret) == IF trap = LoadSeg THEN Entry(ret.arg) ELSE ret

PerformTrapDispatch ==
  LET trap == TrapOp
      ret == Returning(trap, Top(stack))
      taken == IF IsToolbox(trap) THEN Pop(Pop(stack)) ELSE Pop(stack)
  IN /\ AtDispatch /\ ~halted
     /\ \/ /\ WrongTrap /\ halted' = TRUE
           /\ UNCHANGED <<pc, stack, regs, patch_trap_addresses, native,
                          exit_funcs, held, frames>>
        \/ /\ ~WrongTrap
           /\ IF trap \in GetTraps \cup SetTraps THEN InternalDispatch(trap)
              ELSE UNCHANGED <<patch_trap_addresses, held>>
           /\ HandlerResult(trap)
           /\ Finish(trap, pc.at, ret, taken)
           /\ UNCHANGED <<native, exit_funcs, halted>>
        \/ ~WrongTrap /\ CallFunction(trap, pc.at, ret, taken)

(* The trap word is in D1, unless a patch used that register: then the bit  *)
(* that tells whether A0 was saved may be another one's, the exit pops a    *)
(* register too many or too few, and the program goes on at whatever slot   *)
(* it takes for the return address.                                         *)
Misled ==
  pc = ExitAddress /\ ShouldSaveA0(regs.D1) # ShouldSaveA0(frames[Level].trap)

PerformTrapExit ==
  LET n == Len(stack)
      saved == IF ShouldSaveA0(regs.D1) THEN 4 ELSE 3
  IN /\ pc = ExitAddress /\ ~halted
     /\ regs' = [D2 |-> stack[n].arg, D1 |-> stack[n - 1].arg, A1 |-> stack[n - 2].arg,
                 A0 |-> IF saved = 4 THEN stack[n - 3].arg ELSE regs.A0]
     /\ stack' = SubSeq(stack, 1, n - saved - 1)
     /\ IF Misled THEN pc' = Astray /\ UNCHANGED frames ELSE GoTo(stack[n - saved])
     /\ UNCHANGED <<patch_trap_addresses, native, exit_funcs, held, halted>>
-----------------------------------------------------------------------------
(* What emulated code does, besides executing traps                         *)

InPatch == Running /\ pc.arg > 0 /\ pc.arg <= Level /\ frames[pc.arg].trap # 0
InFunction == Running /\ pc.arg > 0 /\ pc.arg <= Level /\ frames[pc.arg].trap = 0

(* a patch takes its arguments and executes RTS, D1 whatever it made of it  *)
PatchReturns ==
  /\ InPatch
  /\ regs' \in Registers
  /\ GoTo(Top(stack))
  /\ stack' = IF IsToolbox(frames[pc.arg].trap) THEN Pop(Pop(stack)) ELSE Pop(stack)
  /\ UNCHANGED <<patch_trap_addresses, native, exit_funcs, held, halted>>

Original == held[frames[pc.arg].trap]
HoldsOriginal ==
  InPatch /\ frames[pc.arg].trap \in DOMAIN held /\ IsNative(Original)

(* it ends with a jump to the native handler it replaced                    *)
ChainByJump ==
  /\ HoldsOriginal
  /\ pc' = Original
  /\ UNCHANGED <<stack, regs, patch_trap_addresses, native, exit_funcs, held,
                 frames, halted>>

(* it calls the native handler and goes on                                  *)
ChainByCall ==
  LET trap == frames[pc.arg].trap
  IN /\ HoldsOriginal /\ Level < MaxDepth
     /\ pc' = Original
     /\ stack' = stack \o (IF IsToolbox(trap) THEN <<Args(trap)>> ELSE <<>>)
                       \o <<Code(pc.arg)>>
     /\ frames' = Append(frames, [trap |-> trap, resume |-> Code(pc.arg),
                                  below |-> stack, regs |-> regs])
     /\ UNCHANGED <<regs, patch_trap_addresses, native, exit_funcs, held, halted>>

(* a function takes its arguments and executes RTS                          *)
FunctionReturns ==
  /\ InFunction
  /\ regs' \in Registers
  /\ pc' = Top(stack) /\ stack' = Pop(Pop(stack))
  /\ UNCHANGED <<patch_trap_addresses, native, exit_funcs, held, frames, halted>>

(* The native function at kEndFunctionCallAddress runs the exit function on *)
(* top.  The loop of the innermost CallFunction goes on until its own flag  *)
(* is set; then it takes the result and restores the PC it saved.           *)
FirstExitFunction == exit_funcs[1]  \* mutant: a queue instead of a stack
ExitFunction == Last(exit_funcs)
FunctionHasReturned ==
  /\ pc = EndFunctionCall /\ ~halted
  /\ exit_funcs' = Front(exit_funcs)
  /\ IF ExitFunction # Len(native)
     THEN halted' = TRUE /\ UNCHANGED <<pc, stack, native, frames>>
     ELSE /\ pc' = Top(Pop(stack)) /\ stack' = Pop(Pop(stack))
          /\ native' = [native EXCEPT ![Len(native)].phase = "ready"]
          /\ frames' = Front(frames)
          /\ UNCHANGED halted
  /\ UNCHANGED <<regs, patch_trap_addresses, held>>

(* the handler calls another function or ends                               *)
HandlerResumes ==
  LET handler == Last(native)
  IN /\ HandlerReady /\ ~halted
     /\ HandlerResult(handler.trap)
     /\ Finish(handler.trap, handler.from, handler.ret, stack)
     /\ native' = Front(native)
     /\ UNCHANGED <<patch_trap_addresses, exit_funcs, held, halted>>

HandlerCallsAgain ==
  LET handler == Last(native)
  IN /\ HandlerReady /\ ~halted
     /\ Level < MaxDepth
     /\ exit_funcs' = Append(exit_funcs, Len(native))
     /\ native' = [native EXCEPT ![Len(native)].phase = "calling"]
     /\ frames' = Append(frames, [trap |-> 0, resume |-> pc, below |-> stack,
                                  regs |-> regs])
     /\ stack' = stack \o <<pc, Placeholder(Level + 1), Args(0), EndFunctionCall>>
     /\ pc' = Code(Level + 1)
     /\ UNCHANGED <<regs, patch_trap_addresses, held, halted>>

TrapManagerNext ==
  \/ \E word \in Traps : PerformTrapEntry(word)
  \/ PerformTrapDispatch \/ PerformTrapExit
  \/ PatchReturns \/ ChainByJump \/ ChainByCall
  \/ FunctionReturns \/ FunctionHasReturned
  \/ HandlerResumes \/ HandlerCallsAgain

TrapManagerSpec == TrapManagerInit /\ [][TrapManagerNext]_tmVars
-----------------------------------------------------------------------------
(* The variables hold values of their types.                                *)
Slot == [at : {"code", "glue", "entry", "toolbox_stub", "system_stub", "saved",
               "args", "patch", "dispatch", "exit", "end_of_call", "result",
               "application", "zero", "astray"},
         arg : Nat]
TrapManagerTypeOK ==
  /\ pc \in Slot /\ stack \in Seq(Slot) /\ regs \in RegisterFile
  /\ \A t \in DOMAIN patch_trap_addresses : patch_trap_addresses[t] = Patch
  /\ native \in Seq([trap : Nat, from : {"dispatch", "toolbox_stub", "system_stub"},
                     ret : Slot, phase : {"calling", "ready"}])
  /\ exit_funcs \in Seq(Nat)
  /\ \A t \in DOMAIN held : held[t] \in Slot
  /\ frames \in Seq([trap : Nat, resume : Slot, below : Seq(Slot), regs : RegisterFile])
  /\ halted \in BOOLEAN

(* A trap or call that ends returns to the instruction behind the one that  *)
(* started it (the jump table entry for LoadSeg, the caller of the glue     *)
(* routine with the auto-pop bit) with exactly the stack it found, and a    *)
(* system trap with A1, D1 and D2 as they were: through patches, chained    *)
(* handlers, traps in patches and emulated functions called from handlers.  *)
(* Control only ever reaches a return address or a routine, except where a  *)
(* patch of a system trap leaves a D1 with another bit R.  Nothing is said  *)
(* of A0: trap_helpers.h:32-36 and the code disagree on when it comes back. *)
Restored(f) ==
  /\ \/ pc' = f.resume
     \/ f.trap = LoadSeg /\ pc' = Entry(f.resume.arg)
  /\ stack' = f.below
  /\ f.trap # 0 /\ IsSystem(f.trap) =>
       \A r \in {"A1", "D1", "D2"} : regs'[r] = f.regs[r]
Destinations == {"code", "entry", "toolbox_stub", "system_stub", "dispatch",
                 "exit", "end_of_call"}
ReturnsToCaller ==
  [][/\ Len(frames') < Len(frames) => Restored(Last(frames))
     /\ pc'.at \notin Destinations => Misled]_tmVars

(* "This must be removed from the stack so the arguments are at the top"    *)
(* (PerformTrapDispatch): a toolbox handler finds its own arguments, also   *)
(* when a patch chains to it.                                               *)
HandlersFindTheirArguments ==
  AtDispatch /\ ToToolbox =>
    stack[Len(stack) - 1] = Args(TrapOp)

(* "Multiple `func`s can be registered and run in FILO (stack) ordering.    *)
(* This is used by CallFunction to end functions (accounts for nesting)":   *)
(* the exit function that runs is the innermost caller's, and what it then  *)
(* pops is its own result.                                                  *)
CallsEndInOrder ==
  pc = EndFunctionCall => /\ ExitFunction = Len(native)
                          /\ Top(stack) = Placeholder(Level)

(* The record of the calls under way is well-formed and they end in order.  *)
CallsNest == TrapManagerTypeOK /\ CallsEndInOrder
-----------------------------------------------------------------------------
(* What the code says of itself, and does not keep                          *)

(* "These allow chaining from patched traps to the native trap handlers"    *)
ChainingReachesTheHandler == ~halted
=============================================================================
