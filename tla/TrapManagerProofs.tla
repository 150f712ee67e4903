------------------------- MODULE TrapManagerProofs -------------------------
(* That traps and calls return to where they came from with the stack they  *)
(* found, for any traps, patches, register contents and depth.              *)
EXTENDS TrapManager, SequenceTheorems, TLAPS

(* the trap words without the auto-pop bit; 0 stands for CallFunction       *)
Words == ATrap .. ATrap + 3071
Frame == [trap : Words \cup {0}, resume : Slot, below : Seq(Slot), regs : RegisterFile]
Handler == [trap : Nat, from : {"dispatch", "toolbox_stub", "system_stub"},
            ret : Slot, phase : {"calling", "ready"}]

(* What lies above f.below: the address and the registers that a system trap*)
(* saves; all that the code running in the k-th frame has below itself.     *)
SavedOf(f) ==
  (IF ShouldSaveA0(f.trap) THEN <<Saved(f.regs.A0)>> ELSE <<>>)
    \o <<Saved(f.regs.A1), Saved(f.regs.D1), Saved(f.regs.D2)>>
Entered(f) == (f.below \o <<f.resume>>) \o SavedOf(f)

Under(f, k) ==
  IF f.trap = 0
  THEN f.below \o <<f.resume, Placeholder(k), Args(0), EndFunctionCall>>
  ELSE IF IsToolbox(f.trap) THEN f.below \o <<Args(f.trap), f.resume>>
                            ELSE Entered(f) \o <<ExitAddress>>

CodeStack(fs, k) == IF k = 0 THEN <<Bottom>> ELSE Under(fs[k], k)

(* A trap was executed, or its handler called, by the code one level below; *)
(* a function was called by the handler of the trap one level below.        *)
TrapLinked(fs, k) ==
  /\ fs[k].trap # 0
  /\ fs[k].resume = Code(k - 1)
  /\ fs[k].below = CodeStack(fs, k - 1)
CallLinked(fs, k) ==
  /\ fs[k].trap = 0 /\ k > 1
  /\ fs[k - 1].trap \in Callbacks
  /\ fs[k].below = fs[k - 1].below
  /\ fs[k].resume.at \in {"dispatch", "toolbox_stub"}
Chain(fs) == fs \in Seq(Frame) /\ \A k \in 1..Len(fs) : TrapLinked(fs, k) \/ CallLinked(fs, k)

(* The suspended handlers are those that the function frames say, o[j] the  *)
(* frame of the j-th, and each has an exit function of its own.             *)
Describes(handler, f) ==
  handler.trap = f.trap /\ handler.ret = Returning(f.trap, f.resume)

Suspension(fs, nat, exits, o) ==
  /\ o \in Seq(Nat) /\ Len(o) = Len(exits)
  /\ \A i \in 1..Len(o) :
       /\ o[i] \in 2..Len(fs) /\ fs[o[i]].trap = 0
       /\ nat[i].phase = "calling" /\ Describes(nat[i], fs[o[i] - 1])
       /\ exits[i] = i
  /\ \A i, j \in 1..Len(o) : i < j => o[i] < o[j]
  /\ \A k \in 1..Len(fs) : fs[k].trap = 0 => \E i \in 1..Len(o) : o[i] = k

(* Where the processor is, and what it has on the stack there.              *)
AllCalling == Len(native) = Len(exit_funcs)
InCode ==
  /\ AllCalling
  /\ pc \in {Code(Len(frames)), Entry(Len(frames))}
  /\ stack = CodeStack(frames, Len(frames))
OwnAddress(trap) == Stub("toolbox_stub", trap % 1024)
AtToolboxTrap(f) ==
  /\ AllCalling /\ f.trap # 0 /\ IsToolbox(f.trap)
  /\ pc \in {Dispatching(f.trap), OwnAddress(f.trap)}
  /\ stack = f.below \o <<Args(f.trap), f.resume>>
AtSystemTrap(f) ==
  /\ AllCalling /\ f.trap # 0 /\ IsSystem(f.trap)
  /\ pc \in {Dispatching(f.trap), ExitAddress}
  /\ pc = Dispatching(f.trap) => regs.D1 = f.trap
  /\ stack = Entered(f)
AtEndOfCall(f) ==
  /\ AllCalling /\ f.trap = 0
  /\ pc = EndFunctionCall
  /\ stack = f.below \o <<f.resume, Placeholder(Len(frames))>>
AtReadyHandler(f) ==
  /\ Len(native) = Len(exit_funcs) + 1
  /\ native[Len(native)].phase = "ready" /\ Describes(native[Len(native)], f)
  /\ f.trap \in Callbacks
  /\ pc.at \in {"dispatch", "toolbox_stub"}
  /\ stack = f.below
(* only the CHECK that fails is left                                        *)
AtSystemStub == AllCalling /\ pc.at = "system_stub"

Located ==
  \/ InCode
  \/ AtSystemStub
  \/ /\ frames # <<>>
     /\ LET f == frames[Len(frames)]
        IN  AtToolboxTrap(f) \/ AtSystemTrap(f) \/ AtEndOfCall(f) \/ AtReadyHandler(f)

(* a patch finds under its trap's number the patch that was there before or *)
(* its own native stub                                                      *)
Patches(table) == \A t \in DOMAIN table : table[t] = Patch
OwnStub(t, address) == IsToolbox(t) /\ address.arg = t % 1024
Found(t, address) ==
  /\ address \in Slot
  /\ address \in {Patch, Nowhere} \/ IsNative(address)
  /\ t \in Words /\ address.at = "toolbox_stub" => OwnStub(t, address)
Addresses(h) == \A t \in DOMAIN h : Found(t, h[t])
HeldAddresses == Patches(patch_trap_addresses) /\ Addresses(held)

Values ==
  /\ pc \in Slot /\ stack \in Seq(Slot) /\ regs \in RegisterFile
  /\ native \in Seq(Handler) /\ exit_funcs \in Seq(Nat)
  /\ halted \in BOOLEAN

IInv ==
  /\ Values /\ HeldAddresses
  /\ Chain(frames)
  /\ \E o \in Seq(Nat) : Suspension(frames, native, exit_funcs, o)
  /\ Located
-----------------------------------------------------------------------------
(* Slots and stacks                                                         *)

LEMMA SlotsAreSlots ==
  /\ \A k \in Nat : /\ Code(k) \in Slot /\ Entry(k) \in Slot /\ Args(k) \in Slot
                    /\ Placeholder(k) \in Slot /\ Saved(k) \in Slot
                    /\ Dispatching(k) \in Slot
                    /\ Stub("toolbox_stub", k) \in Slot /\ Stub("system_stub", k) \in Slot
  /\ {ExitAddress, EndFunctionCall, Bottom, Patch, Nowhere} \subseteq Slot
BY DEF Slot, Code, Entry, Args, Placeholder, Saved, Dispatching, Stub, ExitAddress,
       EndFunctionCall, Bottom, Patch, Nowhere

LEMMA Kinds ==
  /\ \A k : /\ Code(k).at = "code" /\ Entry(k).at = "entry" /\ Dispatching(k).at = "dispatch"
            /\ Code(k).arg = k /\ Entry(k).arg = k /\ Dispatching(k).arg = k
            /\ OwnAddress(k).at = "toolbox_stub"
  /\ ExitAddress.at = "exit" /\ EndFunctionCall.at = "end_of_call"
BY DEF Code, Entry, Dispatching, OwnAddress, Stub, ExitAddress, EndFunctionCall

LEMMA OneOnTop ==
  ASSUME NEW s \in Seq(Slot), NEW a \in Slot
  PROVE  /\ s \o <<a>> \in Seq(Slot) /\ Push(s, a) = s \o <<a>>
         /\ Len(s \o <<a>>) = Len(s) + 1
         /\ Top(s \o <<a>>) = a /\ Pop(s \o <<a>>) = s
<1>1. <<a>> \in Seq(Slot) /\ Len(<<a>>) = 1 /\ <<a>>[1] = a
  OBVIOUS
<1>2. PICK t \in Seq(Slot) : t = s \o <<a>>
  BY <1>1, ConcatProperties
<1>3. Len(t) = Len(s) + 1 /\ t[Len(t)] = a /\ \A i \in 1..Len(s) : t[i] = s[i]
  BY <1>1, <1>2, ConcatProperties, LenProperties
<1>4. Len(s) \in Nat /\ Len(t) - 1 = Len(s)
  BY <1>3, LenProperties
<1>5. /\ SubSeq(t, 1, Len(s)) \in Seq(Slot) /\ Len(SubSeq(t, 1, Len(s))) = Len(s)
      /\ \A i \in 1..Len(s) : SubSeq(t, 1, Len(s))[i] = t[i]
  <2>1. \A i \in 1..Len(s) : t[i] \in Slot
    BY <1>3, ElementOfSeq
  <2> QED
    BY <1>4, <2>1, SubSeqProperties
<1>6. SubSeq(t, 1, Len(s)) = s
  BY <1>3, <1>5, SeqEqual
<1> QED
  BY <1>2, <1>3, <1>4, <1>6, AppendIsConcat DEF Push, Top, Pop, Front

LEMMA OneByOne ==
  ASSUME NEW s \in Seq(Slot), NEW a \in Slot, NEW b \in Slot
  PROVE  s \o <<a, b>> = (s \o <<a>>) \o <<b>>
<1>1. <<a, b>> = <<a>> \o <<b>> /\ <<a>> \in Seq(Slot) /\ <<b>> \in Seq(Slot)
  <2>1. /\ <<a>> \in Seq(Slot) /\ <<b>> \in Seq(Slot) /\ <<a, b>> \in Seq(Slot)
        /\ Len(<<a>>) = 1 /\ Len(<<b>>) = 1 /\ Len(<<a, b>>) = 2
        /\ <<a>>[1] = a /\ <<b>>[1] = b /\ <<a, b>>[1] = a /\ <<a, b>>[2] = b
    OBVIOUS
  <2>2. PICK t \in Seq(Slot) : t = <<a>> \o <<b>>
    BY <2>1, ConcatProperties
  <2>3. Len(t) = 2 /\ t[1] = a /\ t[2] = b
    BY <2>1, <2>2, ConcatProperties
  <2>4. \A i \in 1 .. Len(t) : t[i] = <<a, b>>[i]
    BY <2>1, <2>3
  <2> QED
    BY <2>1, <2>2, <2>3, <2>4, SeqEqual
<1> QED
  BY <1>1, ConcatAssociative

LEMMA TwoOnTop ==
  ASSUME NEW s \in Seq(Slot), NEW a \in Slot, NEW b \in Slot
  PROVE  /\ s \o <<a, b>> \in Seq(Slot) /\ Len(s \o <<a, b>>) = Len(s) + 2
         /\ Top(s \o <<a, b>>) = b
         /\ Pop(Pop(s \o <<a, b>>)) = s
         /\ Top(Pop(s \o <<a, b>>)) = a
         /\ (s \o <<a, b>>)[Len(s \o <<a, b>>) - 1] = a
<1>1. <<b>> \in Seq(Slot)
  OBVIOUS
<1>2. s \o <<a, b>> = (s \o <<a>>) \o <<b>>
  BY OneByOne
<1>3. PICK t \in Seq(Slot) : t = s \o <<a>>
  BY OneOnTop
<1>4. /\ Len(t) = Len(s) + 1 /\ Top(t) = a /\ Pop(t) = s
      /\ t \o <<b>> \in Seq(Slot) /\ Len(t \o <<b>>) = Len(t) + 1
      /\ Top(t \o <<b>>) = b /\ Pop(t \o <<b>>) = t
  BY <1>3, OneOnTop
<1>5. (t \o <<b>>)[Len(t)] = t[Len(t)]
  BY <1>1, <1>4, ConcatProperties, LenProperties
<1>6. PICK u \in Seq(Slot) : u = t \o <<b>>
  BY <1>4
<1>7. s \o <<a, b>> = u
  BY <1>2, <1>3, <1>6
<1>8. Len(s) \in Nat /\ Len(u) = Len(s) + 2 /\ u[Len(u) - 1] = a
  BY <1>4, <1>5, <1>6, LenProperties DEF Top
<1> QED
  BY <1>3, <1>4, <1>6, <1>7, <1>8, Zenon

FourAbove(t, s, a, b, c, d) == t = s \o <<a, b, c, d>>

LEMMA TwoByTwo ==
  ASSUME NEW s \in Seq(Slot), NEW a \in Slot, NEW b \in Slot, NEW c \in Slot, NEW d \in Slot
  PROVE  FourAbove((s \o <<a, b>>) \o <<c, d>>, s, a, b, c, d)
<1>1. /\ <<a, b, c, d>> = <<a, b>> \o <<c, d>>
      /\ <<a, b>> \in Seq(Slot) /\ <<c, d>> \in Seq(Slot)
  OBVIOUS
<1>2. s \o <<a, b, c, d>> = (s \o <<a, b>>) \o <<c, d>>
  BY <1>1, ConcatAssociative
<1> QED
  BY <1>2, Zenon DEF FourAbove

LEMMA FourOnTop ==
  ASSUME NEW s \in Seq(Slot), NEW a \in Slot, NEW b \in Slot, NEW c \in Slot, NEW d \in Slot,
         NEW t, FourAbove(t, s, a, b, c, d)
  PROVE  t \in Seq(Slot) /\ Top(t) = d /\ Pop(Pop(t)) = s \o <<a, b>>
<1>1. PICK u \in Seq(Slot) : u = s \o <<a, b>>
  BY TwoOnTop
<1>2. /\ u \o <<c, d>> \in Seq(Slot)
      /\ Top(u \o <<c, d>>) = d /\ Pop(Pop(u \o <<c, d>>)) = u
  BY TwoOnTop
<1>3. FourAbove((s \o <<a, b>>) \o <<c, d>>, s, a, b, c, d)
  BY TwoByTwo
<1>4. t = u \o <<c, d>>
  BY <1>1, <1>3, Zenon DEF FourAbove
<1> QED
  BY <1>1, <1>2, <1>4, Zenon

(* the registers a system trap saved, counted from the top                  *)
LEMMA SavedOnTop ==
  ASSUME NEW s \in Seq(Slot), NEW t \in Seq(Slot)
  PROVE  /\ s \o t \in Seq(Slot) /\ Len(s \o t) = Len(s) + Len(t)
         /\ SubSeq(s \o t, 1, Len(s)) = s
         /\ \A i \in 1..Len(s) : (s \o t)[i] = s[i]
         /\ \A i \in 1..Len(t) : (s \o t)[Len(s) + i] = t[i]
<1>1. PICK u \in Seq(Slot) : u = s \o t
  BY ConcatProperties
<1>2. Len(s) \in Nat /\ Len(t) \in Nat
  BY LenProperties
<1>3. /\ Len(u) = Len(s) + Len(t)
      /\ \A i \in 1 .. Len(s) + Len(t) : u[i] = IF i <= Len(s) THEN s[i] ELSE t[i - Len(s)]
  BY <1>1, ConcatProperties
<1>4. \A i \in 1..Len(s) : u[i] = s[i]
  BY <1>2, <1>3
<1>5. ASSUME NEW i \in 1..Len(t)
      PROVE  u[Len(s) + i] = t[i]
  <2>1. PICK a \in Nat, b \in Nat : a = Len(s) /\ b = Len(t) /\ i \in 1..b
    BY <1>2
  <2>2. a + i \in 1 .. a + b /\ ~(a + i <= a) /\ (a + i) - a = i
    BY <2>1
  <2> QED
    BY <1>3, <2>1, <2>2
<1>6. /\ SubSeq(u, 1, Len(s)) \in Seq(Slot) /\ Len(SubSeq(u, 1, Len(s))) = Len(s)
      /\ \A i \in 1..Len(s) : SubSeq(u, 1, Len(s))[i] = u[i]
  <2>1. \A i \in 1..Len(s) : u[i] \in Slot
    BY <1>2, <1>3, ElementOfSeq
  <2> QED
    BY <1>2, <2>1, SubSeqProperties
<1>7. SubSeq(u, 1, Len(s)) = s
  BY <1>4, <1>6, SeqEqual
<1> QED
  BY <1>1, <1>3, <1>4, <1>5, <1>7

(* removing the last element and adding one, for sequences of any kind      *)
LEMMA Shortened ==
  ASSUME NEW S, NEW s \in Seq(S), s # <<>>
  PROVE  /\ Front(s) \in Seq(S) /\ Len(Front(s)) = Len(s) - 1
         /\ Len(s) \in Nat \ {0} /\ s[Len(s)] \in S
         /\ \A i \in 1 .. Len(s) - 1 : Front(s)[i] = s[i]
<1>1. PICK n \in Nat \ {0} : n = Len(s)
  BY EmptySeq, LenProperties
<1>2. \A i \in 1..n : s[i] \in S
  BY <1>1, ElementOfSeq
<1>3. PICK f : f = SubSeq(s, 1, n - 1)
  OBVIOUS
<1>4. /\ f \in Seq(S)
      /\ Len(f) = IF 1 <= n - 1 THEN n - 1 - 1 + 1 ELSE 0
      /\ \A i \in 1 .. n - 1 - 1 + 1 : f[i] = s[1 + i - 1]
  <2>1. \A i \in 1 .. n - 1 : s[i] \in S
    BY <1>2
  <2>2. 1 \in Int /\ n - 1 \in Int
    OBVIOUS
  <2> QED
    BY <1>3, <2>1, <2>2, SubSeqProperties
<1>5. Len(f) = n - 1
  BY <1>4
<1>6. ASSUME NEW i \in 1 .. n - 1
      PROVE  f[i] = s[i]
  <2>1. i \in 1 .. n - 1 - 1 + 1 /\ 1 + i - 1 = i
    OBVIOUS
  <2> QED
    BY <1>4, <2>1
<1>7. Front(s) = f
  BY <1>1, <1>3 DEF Front
<1>8. s[n] \in S
  BY <1>2
<1> QED
  BY <1>1, <1>4, <1>5, <1>6, <1>7, <1>8

LEMMA Lengthened ==
  ASSUME NEW S, NEW s \in Seq(S), NEW e \in S
  PROVE  /\ Append(s, e) \in Seq(S) /\ Append(s, e) # <<>>
         /\ Len(Append(s, e)) = Len(s) + 1 /\ Len(s) \in Nat
         /\ Append(s, e)[Len(s) + 1] = e
         /\ \A i \in 1..Len(s) : Append(s, e)[i] = s[i]
BY AppendProperties, LenProperties
-----------------------------------------------------------------------------
(* Trap words                                                               *)

LEMMA TrapWords ==
  ASSUME NEW t \in Words
  PROVE  /\ t \in Nat \ {0}
         /\ IsToolbox(t) <=> t >= ATrap + 2048
         /\ t % 1024 \in 0..1023 /\ t % 256 \in 0..255
         /\ IsToolbox(t) => /\ ATrap + 2048 + ((t % 1024) % 1024) = t
                            /\ ATrap + 2048 + ((ATrap + (t % 1024)) % 1024) = t
         /\ FullTrap(t) = t /\ ExtractIndex(t) \in 0..1023
<1>1. t \in 40960..44031
  BY DEF Words, ATrap
<1>2. /\ t < 43008 => t \div 2048 = 20
      /\ t >= 43008 => t \div 2048 = 21
  BY <1>1
<1>3. 20 % 2 = 0 /\ 21 % 2 = 1
  OBVIOUS
<1>4. IsToolbox(t) <=> t >= 43008
  <2>1. CASE t < 43008
    BY <1>1, <1>2, <1>3, <2>1 DEF IsToolbox
  <2>2. CASE t >= 43008
    BY <1>1, <1>2, <1>3, <2>2 DEF IsToolbox
  <2> QED
    BY <1>1, <2>1, <2>2
<1>5. t % 1024 \in 0..1023 /\ t % 256 \in 0..255
  BY <1>1
<1>6. t >= 43008 => t % 1024 = t - 43008
  BY <1>1
<1>7. ASSUME NEW i \in 0..1023
      PROVE  i % 1024 = i /\ (40960 + i) % 1024 = i
  OBVIOUS
<1>8. t >= 43008 => /\ 43008 + ((t % 1024) % 1024) = t
                    /\ 43008 + ((40960 + (t % 1024)) % 1024) = t
  BY <1>1, <1>5, <1>6, <1>7
<1>9. FullTrap(t) = t
  <2>1. t >= 255 /\ ~(t < 255)
    BY <1>1
  <2> QED
    BY <2>1 DEF FullTrap, OnOSTable
<1>10. ExtractIndex(t) \in 0..1023
  BY <1>5 DEF ExtractIndex, ExtractToolboxIndex, ExtractSystemIndex
<1> QED
  BY <1>1, <1>4, <1>5, <1>8, <1>9, <1>10 DEF ATrap

TrapOf(word) == IF IsAutoPopSet(word) THEN word - 1024 ELSE word

WordAt(k) == ATrap + k

LEMMA AutoPop ==
  ASSUME NEW k \in Nat, k < 4096
  PROVE  /\ IsToolbox(WordAt(k)) <=> k >= 2048
         /\ IsAutoPopSet(WordAt(k)) <=> k >= 3072
         /\ k < 3072 => WordAt(k) \in Words
         /\ k >= 1024 => WordAt(k) - 1024 = WordAt(k - 1024)
<1>1. /\ k < 2048 => (40960 + k) \div 2048 = 20
      /\ k >= 2048 => (40960 + k) \div 2048 = 21
  OBVIOUS
<1>2. /\ (k >= 2048 /\ k < 3072) => (40960 + k) \div 1024 = 42
      /\ k >= 3072 => (40960 + k) \div 1024 = 43
  OBVIOUS
<1>3. 20 % 2 = 0 /\ 21 % 2 = 1 /\ 42 % 2 = 0 /\ 43 % 2 = 1
  OBVIOUS
<1>4. IsToolbox(WordAt(k)) <=> k >= 2048
  BY <1>1, <1>3 DEF IsToolbox, WordAt, ATrap
<1>5. IsAutoPopSet(WordAt(k)) <=> k >= 3072
  <2>1. CASE k < 2048
    BY <1>4, <2>1 DEF IsAutoPopSet
  <2>2. CASE k >= 2048
    <3>1. WordAt(k) \div 1024 = (IF k < 3072 THEN 42 ELSE 43)
      BY <1>2, <2>2 DEF WordAt, ATrap
    <3> QED
      BY <1>3, <1>4, <2>2, <3>1 DEF IsAutoPopSet
  <2> QED
    BY <2>1, <2>2
<1>6. ATrap \in Nat
  BY DEF ATrap
<1>7. k < 3072 => WordAt(k) \in Words
  BY <1>6 DEF WordAt, Words
<1>8. WordAt(k) - 1024 = WordAt(k - 1024)
  BY <1>6 DEF WordAt
<1> QED
  BY <1>4, <1>5, <1>7, <1>8

LEMMA ExecutedTraps ==
  ASSUME NEW word \in Traps
  PROVE  /\ TrapOf(word) \in Words
         /\ IsAutoPopSet(word) => IsToolbox(TrapOf(word))
<1>1. ATrap \in Nat
  BY DEF ATrap
<1>2. PICK k \in Nat : word = WordAt(k) /\ k < 4096
  <2>1. word \in ATrap .. ATrap + 4095
    BY TrapsAssumption
  <2> QED
    BY <1>1, <2>1 DEF WordAt
<1>3. CASE k < 3072
  <2>1. ~IsAutoPopSet(word) /\ word \in Words
    <3>1. ~IsAutoPopSet(WordAt(k)) /\ WordAt(k) \in Words
      BY <1>2, <1>3, AutoPop
    <3> QED
      BY <1>2, <3>1
  <2> QED
    BY <2>1 DEF TrapOf
<1>4. CASE k >= 3072
  <2>1. PICK j \in Nat : j = k - 1024 /\ j >= 2048 /\ j < 3072
    BY <1>2, <1>4
  <2>2. IsAutoPopSet(WordAt(k)) /\ WordAt(k) - 1024 = WordAt(k - 1024)
    BY <1>2, <1>4, AutoPop
  <2>3. TrapOf(word) = WordAt(j)
    BY <1>2, <2>1, <2>2 DEF TrapOf
  <2>4. WordAt(j) \in Words /\ IsToolbox(WordAt(j))
    BY <2>1, AutoPop
  <2> QED
    BY <2>3, <2>4
<1> QED
  BY <1>3, <1>4

LEMMA CallbacksAreToolboxTraps ==
  ASSUME NEW t \in Callbacks
  PROVE  t \in Words /\ IsToolbox(t)
<1>1. t \in 43008..44031
  BY TrapsAssumption DEF ATrap
<1> QED
  <2>1. t \in Words
    BY <1>1 DEF Words, ATrap
  <2> QED
    BY <1>1, <2>1, TrapWords DEF ATrap
-----------------------------------------------------------------------------
(* Traps and calls begin and end                                            *)

Linked(fs, k) == TrapLinked(fs, k) \/ CallLinked(fs, k)

LEMMA LinkedAlike ==
  ASSUME NEW fs, NEW gs, NEW k \in Nat \ {0},
         gs[k] = fs[k], k > 1 => gs[k - 1] = fs[k - 1], Linked(fs, k)
  PROVE  Linked(gs, k)
<1>1. ASSUME TrapLinked(fs, k) PROVE TrapLinked(gs, k)
  <2>1. CodeStack(gs, k - 1) = CodeStack(fs, k - 1)
    <3>1. CASE k = 1
      BY <3>1 DEF CodeStack
    <3>2. CASE k > 1
      BY <3>2 DEF CodeStack
    <3> QED
      BY <3>1, <3>2
  <2> QED
    BY <1>1, <2>1 DEF TrapLinked
<1>2. ASSUME CallLinked(fs, k) PROVE CallLinked(gs, k)
  BY <1>2 DEF CallLinked
<1> QED
  BY <1>1, <1>2 DEF Linked

LEMMA FrameBegins ==
  ASSUME NEW fs, Chain(fs), NEW f \in Frame,
         Linked(Append(fs, f), Len(fs) + 1)
  PROVE  Chain(Append(fs, f))
<1>1. fs \in Seq(Frame) /\ \A k \in 1..Len(fs) : Linked(fs, k)
  BY DEF Chain, Linked
<1>2. PICK gs \in Seq(Frame) : gs = Append(fs, f)
  BY <1>1, Lengthened
<1>3. Len(fs) \in Nat /\ Len(gs) = Len(fs) + 1 /\ \A i \in 1..Len(fs) : gs[i] = fs[i]
  BY <1>1, <1>2, Lengthened
<1>4. ASSUME NEW k \in 1..Len(fs)
      PROVE  Linked(gs, k)
  <2>1. k \in Nat \ {0} /\ gs[k] = fs[k] /\ (k > 1 => gs[k - 1] = fs[k - 1])
    BY <1>3
  <2> QED
    BY <1>1, <2>1, LinkedAlike
<1>5. \A k \in 1..Len(gs) : Linked(gs, k)
  BY <1>2, <1>3, <1>4
<1> QED
  BY <1>2, <1>5 DEF Chain, Linked

LEMMA FrameEnds ==
  ASSUME NEW fs, Chain(fs), fs # <<>>
  PROVE  Chain(Front(fs))
<1>1. fs \in Seq(Frame) /\ \A k \in 1..Len(fs) : Linked(fs, k)
  BY DEF Chain, Linked
<1>2. PICK gs \in Seq(Frame) : gs = Front(fs)
  BY <1>1, Shortened
<1>3. Len(fs) \in Nat \ {0} /\ Len(gs) = Len(fs) - 1 /\ \A i \in 1..Len(gs) : gs[i] = fs[i]
  BY <1>1, <1>2, Shortened
<1>4. ASSUME NEW k \in 1..Len(gs)
      PROVE  Linked(gs, k)
  <2>1. k \in Nat \ {0} /\ gs[k] = fs[k] /\ (k > 1 => gs[k - 1] = fs[k - 1]) /\ k \in 1..Len(fs)
    BY <1>3
  <2> QED
    BY <1>1, <2>1, LinkedAlike
<1> QED
  BY <1>2, <1>4 DEF Chain, Linked

(* a trap frame is pushed: the suspended handlers are the same              *)
LEMMA TrapBegins ==
  ASSUME NEW fs, Chain(fs), NEW nat, NEW exits, NEW o, Suspension(fs, nat, exits, o),
         NEW f \in Frame, f.trap # 0, f.resume = Code(Len(fs)), f.below = CodeStack(fs, Len(fs))
  PROVE  Chain(Append(fs, f)) /\ Suspension(Append(fs, f), nat, exits, o)
<1>1. fs \in Seq(Frame)
  BY DEF Chain
<1>2. PICK gs \in Seq(Frame) : gs = Append(fs, f)
  BY <1>1, Lengthened
<1>3. PICK n \in Nat : n = Len(fs)
  BY <1>1, LenProperties
<1>4. Len(gs) = n + 1 /\ gs[n + 1] = f /\ \A i \in 1..n : gs[i] = fs[i]
  BY <1>1, <1>2, <1>3, Lengthened
<1>5. CodeStack(gs, n) = CodeStack(fs, n)
  <2>1. CASE n = 0
    BY <2>1 DEF CodeStack
  <2>2. CASE n > 0
    BY <1>4, <2>2 DEF CodeStack
  <2> QED
    BY <2>1, <2>2
<1>6. TrapLinked(gs, n + 1)
  BY <1>3, <1>4, <1>5 DEF TrapLinked
<1>7. Chain(Append(fs, f))
  BY <1>2, <1>3, <1>6, FrameBegins DEF Linked
<1>8. Suspension(gs, nat, exits, o)
  <2>1. /\ o \in Seq(Nat) /\ Len(o) = Len(exits)
        /\ \A i, j \in 1..Len(o) : i < j => o[i] < o[j]
    BY DEF Suspension
  <2>2. ASSUME NEW i \in 1..Len(o)
        PROVE  /\ o[i] \in 2..Len(gs) /\ gs[o[i]].trap = 0
               /\ nat[i].phase = "calling" /\ Describes(nat[i], gs[o[i] - 1])
               /\ exits[i] = i
    <3>1. /\ o[i] \in 2..n /\ fs[o[i]].trap = 0
          /\ nat[i].phase = "calling" /\ Describes(nat[i], fs[o[i] - 1])
          /\ exits[i] = i
      BY <1>3 DEF Suspension
    <3>2. gs[o[i]] = fs[o[i]] /\ gs[o[i] - 1] = fs[o[i] - 1]
      <4>1. o[i] \in 1..n /\ o[i] - 1 \in 1..n
        <5>1. PICK k \in 2..n : k = o[i]
          BY <3>1, Zenon
        <5>2. k \in 1..n /\ k - 1 \in 1..n
          OBVIOUS
        <5> QED
          BY <5>1, <5>2, Zenon
      <4> QED
        BY <1>4, <4>1, Zenon
    <3> QED
      BY <1>4, <3>1, <3>2
  <2>3. ASSUME NEW k \in 1..Len(gs), gs[k].trap = 0
        PROVE  \E i \in 1..Len(o) : o[i] = k
    <3>1. k \in 1..n /\ fs[k].trap = 0
      BY <1>4, <2>3
    <3> QED
      BY <1>3, <3>1 DEF Suspension
  <2> QED
    BY <2>1, <2>2, <2>3 DEF Suspension
<1> QED
  BY <1>2, <1>7, <1>8

(* a trap frame is popped: still the same                                   *)
LEMMA TrapEnds ==
  ASSUME NEW fs, Chain(fs), NEW nat, NEW exits, NEW o, Suspension(fs, nat, exits, o),
         fs # <<>>, fs[Len(fs)].trap # 0
  PROVE  Chain(Front(fs)) /\ Suspension(Front(fs), nat, exits, o)
<1>1. fs \in Seq(Frame)
  BY DEF Chain
<1>2. PICK gs \in Seq(Frame) : gs = Front(fs)
  BY <1>1, Shortened
<1>3. PICK n \in Nat \ {0} : n = Len(fs)
  BY <1>1, Shortened
<1>4. Len(gs) = n - 1 /\ \A i \in 1 .. n - 1 : gs[i] = fs[i]
  BY <1>1, <1>2, <1>3, Shortened
<1>5. Suspension(gs, nat, exits, o)
  <2>1. /\ o \in Seq(Nat) /\ Len(o) = Len(exits)
        /\ \A i, j \in 1..Len(o) : i < j => o[i] < o[j]
    BY DEF Suspension
  <2>2. ASSUME NEW i \in 1..Len(o)
        PROVE  /\ o[i] \in 2..Len(gs) /\ gs[o[i]].trap = 0
               /\ nat[i].phase = "calling" /\ Describes(nat[i], gs[o[i] - 1])
               /\ exits[i] = i
    <3>1. /\ o[i] \in 2..n /\ fs[o[i]].trap = 0
          /\ nat[i].phase = "calling" /\ Describes(nat[i], fs[o[i] - 1])
          /\ exits[i] = i
      BY <1>3 DEF Suspension
    <3>2. o[i] # n
      BY <1>3, <3>1
    <3>3. gs[o[i]] = fs[o[i]] /\ gs[o[i] - 1] = fs[o[i] - 1]
      <4>1. o[i] \in 1 .. n - 1 /\ o[i] - 1 \in 1 .. n - 1
        <5>1. PICK k \in 2..n : k = o[i] /\ k # n
          BY <3>1, <3>2, Zenon
        <5>2. k \in 1 .. n - 1 /\ k - 1 \in 1 .. n - 1
          BY <5>1
        <5> QED
          BY <5>1, <5>2, Zenon
      <4> QED
        BY <1>4, <4>1, Zenon
    <3> QED
      BY <1>4, <3>1, <3>2, <3>3
  <2>3. ASSUME NEW k \in 1..Len(gs), gs[k].trap = 0
        PROVE  \E i \in 1..Len(o) : o[i] = k
    <3>1. k \in 1..n /\ fs[k].trap = 0
      BY <1>4, <2>3
    <3> QED
      BY <1>3, <3>1 DEF Suspension
  <2> QED
    BY <2>1, <2>2, <2>3 DEF Suspension
<1> QED
  BY <1>2, <1>5, FrameEnds

Calls(fs, f) ==
  /\ fs # <<>> /\ fs[Len(fs)].trap \in Callbacks
  /\ f \in Frame /\ f.trap = 0 /\ f.below = fs[Len(fs)].below
  /\ f.resume.at \in {"dispatch", "toolbox_stub"}
SameHandlers(nat, after, c) == \A i \in 1..c : after[i] = nat[i]
Suspends(nat, after, c, f) ==
  /\ SameHandlers(nat, after, c)
  /\ after[c + 1].phase = "calling" /\ Describes(after[c + 1], f)

(* CallFunction pushes a frame, suspends its handler and registers an exit  *)
(* function                                                                 *)
LEMMA CallBegins ==
  ASSUME NEW fs, Chain(fs), NEW nat, NEW exits \in Seq(Nat), NEW o,
         Suspension(fs, nat, exits, o), NEW f, Calls(fs, f),
         NEW after, Suspends(nat, after, Len(exits), fs[Len(fs)])
  PROVE  /\ Chain(Append(fs, f))
         /\ \E p \in Seq(Nat) :
              Suspension(Append(fs, f), after, Append(exits, Len(exits) + 1), p)
<1>1. fs \in Seq(Frame) /\ fs # <<>> /\ f \in Frame
  BY DEF Chain, Calls
<1>2. PICK gs \in Seq(Frame) : gs = Append(fs, f)
  BY <1>1, Lengthened
<1>3. PICK n \in Nat \ {0} : n = Len(fs)
  BY <1>1, Shortened
<1>4. Len(gs) = n + 1 /\ gs[n + 1] = f /\ \A i \in 1..n : gs[i] = fs[i]
  BY <1>1, <1>2, <1>3, Lengthened
<1>5. CallLinked(gs, n + 1)
  <2>1. gs[n] = fs[n] /\ n + 1 > 1 /\ (n + 1) - 1 = n
    BY <1>4
  <2> QED
    BY <1>3, <1>4, <2>1 DEF CallLinked, Calls
<1>6. Chain(Append(fs, f))
  BY <1>2, <1>3, <1>5, FrameBegins DEF Linked
<1>7. PICK c \in Nat : c = Len(exits)
  BY LenProperties
<1>8. o \in Seq(Nat) /\ Len(o) = c /\ \A i, j \in 1..c : i < j => o[i] < o[j]
  BY <1>7 DEF Suspension
<1>9. PICK p \in Seq(Nat) : p = Append(o, n + 1)
  <2>1. n + 1 \in Nat
    OBVIOUS
  <2> QED
    BY <1>8, <2>1, AppendProperties, Zenon
<1>10. Len(p) = c + 1 /\ p[c + 1] = n + 1 /\ \A i \in 1..c : p[i] = o[i]
  BY <1>8, <1>9, Lengthened
<1>11. PICK more \in Seq(Nat) : more = Append(exits, c + 1)
  <2>1. c + 1 \in Nat
    OBVIOUS
  <2> QED
    BY <2>1, AppendProperties, Zenon
<1>12. Len(more) = c + 1 /\ more[c + 1] = c + 1 /\ \A i \in 1..c : more[i] = exits[i]
  BY <1>7, <1>11, Lengthened
<1>13. ASSUME NEW i \in 1..c
       PROVE  /\ o[i] \in 2..n /\ fs[o[i]].trap = 0
              /\ after[i].phase = "calling" /\ Describes(after[i], fs[o[i] - 1])
              /\ exits[i] = i
  <2>1. after[i] = nat[i]
    BY <1>7 DEF Suspends, SameHandlers
  <2> QED
    BY <1>3, <1>7, <1>8, <2>1 DEF Suspension
<1>14. Suspension(gs, after, more, p)
  <2>1. ASSUME NEW i \in 1 .. c + 1
        PROVE  /\ p[i] \in 2..Len(gs) /\ gs[p[i]].trap = 0
               /\ after[i].phase = "calling" /\ Describes(after[i], gs[p[i] - 1])
               /\ more[i] = i
    <3>1. CASE i = c + 1
      <4>1. p[i] = n + 1 /\ more[i] = i
        BY <1>10, <1>12, <3>1
      <4>2. p[i] - 1 = n /\ gs[n] = fs[n]
        <5>1. (n + 1) - 1 = n /\ n \in 1..n
          OBVIOUS
        <5> QED
          BY <1>4, <4>1, <5>1, Zenon
      <4>3. p[i] \in 2..Len(gs) /\ gs[p[i]] = f
        <5>1. n + 1 \in 2 .. n + 1
          OBVIOUS
        <5>2. Len(gs) = n + 1 /\ gs[n + 1] = f /\ p[i] = n + 1
          BY <1>4, <4>1, Zenon
        <5> QED
          BY <5>1, <5>2, Zenon
      <4>4. f.trap = 0 /\ after[i].phase = "calling" /\ Describes(after[i], fs[n])
        BY <1>3, <1>7, <3>1 DEF Calls, Suspends
      <4> QED
        BY <4>1, <4>2, <4>3, <4>4
    <3>2. CASE i \in 1..c
      <4>1. PICK k \in 2..n : k = o[i]
        BY <1>13, <3>2, Zenon
      <4>2. /\ fs[k].trap = 0 /\ after[i].phase = "calling"
            /\ Describes(after[i], fs[k - 1]) /\ exits[i] = i
        BY <1>13, <3>2, <4>1, Zenon
      <4>3. k \in 2 .. n + 1 /\ k \in 1..n /\ k - 1 \in 1..n
        OBVIOUS
      <4>4. gs[k] = fs[k] /\ gs[k - 1] = fs[k - 1] /\ Len(gs) = n + 1
        BY <1>4, <4>3, Zenon
      <4>5. p[i] = k /\ more[i] = exits[i]
        BY <1>10, <1>12, <3>2, <4>1, Zenon
      <4> QED
        BY <4>2, <4>3, <4>4, <4>5, Zenon
    <3> QED
      BY <3>1, <3>2
  <2>2. ASSUME NEW i \in 1 .. c + 1, NEW j \in 1 .. c + 1, i < j
        PROVE  p[i] < p[j]
    <3>1. CASE j = c + 1
      <4>1. i \in 1..c
        BY <2>2, <3>1
      <4>2. p[i] = o[i] /\ p[j] = n + 1
        BY <1>10, <3>1, <4>1, Zenon
      <4>3. PICK k \in 2..n : k = o[i]
        BY <1>13, <4>1, Zenon
      <4>4. k < n + 1
        OBVIOUS
      <4> QED
        BY <4>2, <4>3, <4>4, Zenon
    <3>2. CASE j \in 1..c
      <4>1. i \in 1..c
        BY <2>2, <3>2
      <4>2. p[i] = o[i] /\ p[j] = o[j]
        BY <1>10, <3>2, <4>1, Zenon
      <4> QED
        BY <1>8, <2>2, <3>2, <4>1, <4>2, Zenon
    <3> QED
      BY <3>1, <3>2
  <2>3. ASSUME NEW k \in 1 .. n + 1, gs[k].trap = 0
        PROVE  \E i \in 1 .. c + 1 : p[i] = k
    <3>1. CASE k = n + 1
      BY <1>10, <3>1
    <3>2. CASE k \in 1..n
      <4>1. fs[k].trap = 0
        BY <1>4, <2>3, <3>2
      <4>2. PICK i \in 1..c : o[i] = k
        BY <1>3, <1>8, <3>2, <4>1 DEF Suspension
      <4> QED
        BY <1>10, <4>2
    <3> QED
      BY <3>1, <3>2
  <2> QED
    BY <1>4, <1>10, <1>12, <2>1, <2>2, <2>3 DEF Suspension
<1> QED
  BY <1>2, <1>6, <1>7, <1>11, <1>14

(* the function on top returns: its handler is the one suspended last, and  *)
(* the exit function registered last is its own                             *)
LEMMA CallEnds ==
  ASSUME NEW fs, Chain(fs), NEW nat, NEW exits \in Seq(Nat), NEW o,
         Suspension(fs, nat, exits, o), fs # <<>>, fs[Len(fs)].trap = 0,
         NEW after, SameHandlers(nat, after, Len(exits) - 1)
  PROVE  /\ exits # <<>> /\ exits[Len(exits)] = Len(exits)
         /\ Chain(Front(fs)) /\ Front(fs) # <<>>
         /\ fs[Len(fs)].below = fs[Len(fs) - 1].below
         /\ fs[Len(fs)].resume.at \in {"dispatch", "toolbox_stub"}
         /\ fs[Len(fs) - 1].trap \in Callbacks
         /\ Describes(nat[Len(exits)], fs[Len(fs) - 1])
         /\ \E p \in Seq(Nat) : Suspension(Front(fs), after, Front(exits), p)
<1>1. fs \in Seq(Frame)
  BY DEF Chain
<1>2. PICK gs \in Seq(Frame) : gs = Front(fs)
  BY <1>1, Shortened
<1>3. PICK n \in Nat \ {0} : n = Len(fs)
  BY <1>1, Shortened
<1>4. Len(gs) = n - 1 /\ \A i \in 1 .. n - 1 : gs[i] = fs[i]
  BY <1>1, <1>2, <1>3, Shortened
<1>5. /\ n > 1 /\ fs[n - 1].trap \in Callbacks
      /\ fs[n].below = fs[n - 1].below
      /\ fs[n].resume.at \in {"dispatch", "toolbox_stub"}
  <2>1. TrapLinked(fs, n) \/ CallLinked(fs, n)
    BY <1>3 DEF Chain
  <2> QED
    BY <1>3, <2>1 DEF TrapLinked, CallLinked
<1>6. PICK c \in Nat : c = Len(exits)
  BY LenProperties
<1>7. o \in Seq(Nat) /\ Len(o) = c /\ \A i, j \in 1..c : i < j => o[i] < o[j]
  BY <1>6 DEF Suspension
<1>8. ASSUME NEW i \in 1..c
      PROVE  /\ o[i] \in 2..n /\ fs[o[i]].trap = 0
             /\ nat[i].phase = "calling" /\ Describes(nat[i], fs[o[i] - 1])
             /\ exits[i] = i
  BY <1>3, <1>7 DEF Suspension
<1>9. PICK last \in 1..c : o[last] = n
  BY <1>3, <1>7 DEF Suspension
<1>10. last = c /\ c > 0
  <2>1. ASSUME last < c PROVE FALSE
    <3>1. last \in 1..c /\ c \in 1..c
      BY <2>1
    <3>2. PICK k \in 2..n : k = o[c]
      BY <1>8, <3>1, Zenon
    <3>3. n < k
      BY <1>7, <1>9, <2>1, <3>1, <3>2, Zenon
    <3> QED
      BY <3>3
  <2> QED
    BY <1>9, <2>1
<1>11. PICK p \in Seq(Nat) : p = Front(o)
  <2>1. o # <<>>
    BY <1>7, <1>10, EmptySeq
  <2> QED
    BY <1>7, <2>1, Shortened
<1>12. Len(p) = c - 1 /\ \A i \in 1 .. c - 1 : p[i] = o[i]
  <2>1. o # <<>>
    BY <1>7, <1>10, EmptySeq
  <2> QED
    BY <1>7, <1>11, <2>1, Shortened
<1>13. exits # <<>>
  BY <1>6, <1>10, EmptySeq
<1>14. PICK less \in Seq(Nat) : less = Front(exits)
  BY <1>13, Shortened
<1>15. Len(less) = c - 1 /\ \A i \in 1 .. c - 1 : less[i] = exits[i]
  BY <1>6, <1>13, <1>14, Shortened
<1>16. Suspension(gs, after, less, p)
  <2>1. ASSUME NEW i \in 1 .. c - 1
        PROVE  /\ p[i] \in 2..Len(gs) /\ gs[p[i]].trap = 0
               /\ after[i].phase = "calling" /\ Describes(after[i], gs[p[i] - 1])
               /\ less[i] = i
    <3>1. i \in 1..c /\ c \in 1..c /\ i < c
      BY <1>10
    <3>2. PICK k \in 2..n : k = o[i]
      BY <1>8, <3>1, Zenon
    <3>3. /\ fs[k].trap = 0 /\ nat[i].phase = "calling"
          /\ Describes(nat[i], fs[k - 1]) /\ exits[i] = i
      BY <1>8, <3>1, <3>2, Zenon
    <3>4. k < n
      BY <1>7, <1>9, <1>10, <3>1, <3>2, Zenon
    <3>5. k \in 2 .. n - 1 /\ k \in 1 .. n - 1 /\ k - 1 \in 1 .. n - 1
      BY <3>4
    <3>6. gs[k] = fs[k] /\ gs[k - 1] = fs[k - 1] /\ Len(gs) = n - 1
      BY <1>4, <3>5, Zenon
    <3>7. p[i] = k /\ less[i] = exits[i] /\ after[i] = nat[i]
      BY <1>6, <1>12, <1>15, <3>2 DEF SameHandlers
    <3> QED
      BY <3>3, <3>5, <3>6, <3>7, Zenon
  <2>2. \A i, j \in 1 .. c - 1 : i < j => p[i] < p[j]
    BY <1>7, <1>12
  <2>3. ASSUME NEW k \in 1 .. n - 1, gs[k].trap = 0
        PROVE  \E i \in 1 .. c - 1 : p[i] = k
    <3>1. k \in 1..n /\ fs[k].trap = 0
      BY <1>4, <2>3
    <3>2. PICK i \in 1..c : o[i] = k
      BY <1>3, <1>7, <3>1 DEF Suspension
    <3>3. i \in 1 .. c - 1
      BY <1>9, <1>10, <3>2
    <3> QED
      BY <1>12, <3>2, <3>3
  <2> QED
    BY <1>4, <1>12, <1>15, <2>1, <2>2, <2>3 DEF Suspension
<1>17. exits[Len(exits)] = Len(exits) /\ Describes(nat[Len(exits)], fs[Len(fs) - 1])
  BY <1>3, <1>6, <1>8, <1>9, <1>10
<1>18. Front(fs) # <<>>
  <2>1. Len(gs) = n - 1 /\ n > 1
    BY <1>4, <1>5, Zenon
  <2> QED
    BY <1>2, <2>1, EmptySeq
<1> QED
  BY <1>2, <1>3, <1>5, <1>13, <1>14, <1>16, <1>17, <1>18, FrameEnds
-----------------------------------------------------------------------------
(* What a step finds                                                        *)

LEMMA StackTypes ==
  ASSUME NEW f \in Frame, NEW k \in Nat
  PROVE  Under(f, k) \in Seq(Slot) /\ SavedOf(f) \in Seq(Slot) /\ Entered(f) \in Seq(Slot)
<1>1. /\ f.below \in Seq(Slot) /\ f.resume \in Slot /\ f.trap \in Nat /\ f.regs \in RegisterFile
  <2>1. f.trap \in Words \cup {0} /\ f.below \in Seq(Slot) /\ f.resume \in Slot /\ f.regs \in RegisterFile
    BY DEF Frame
  <2>2. Words \cup {0} \subseteq Nat
    BY DEF Words, ATrap
  <2> QED
    BY <2>1, <2>2
<1>2. /\ Saved(f.regs.A0) \in Slot /\ Saved(f.regs.A1) \in Slot
      /\ Saved(f.regs.D1) \in Slot /\ Saved(f.regs.D2) \in Slot
  BY <1>1, SlotsAreSlots DEF RegisterFile
<1>3. SavedOf(f) \in Seq(Slot)
  <2>1. /\ <<Saved(f.regs.A0)>> \in Seq(Slot) /\ <<>> \in Seq(Slot)
        /\ <<Saved(f.regs.A1), Saved(f.regs.D1), Saved(f.regs.D2)>> \in Seq(Slot)
    BY <1>2
  <2> QED
    BY <2>1, ConcatProperties DEF SavedOf
<1>4. Entered(f) \in Seq(Slot)
  <2>1. f.below \o <<f.resume>> \in Seq(Slot)
    BY <1>1, OneOnTop
  <2> QED
    BY <1>3, <2>1, ConcatProperties DEF Entered
<1>5. Under(f, k) \in Seq(Slot)
  <2>1. /\ Args(f.trap) \in Slot /\ Placeholder(k) \in Slot /\ Args(0) \in Slot
        /\ EndFunctionCall \in Slot /\ ExitAddress \in Slot
    BY <1>1, SlotsAreSlots
  <2>2. CASE f.trap = 0
    <3>1. FourAbove(Under(f, k), f.below, f.resume, Placeholder(k), Args(0), EndFunctionCall)
      BY <2>2 DEF Under, FourAbove
    <3> QED
      BY <1>1, <2>1, <3>1, FourOnTop
  <2>3. CASE f.trap # 0 /\ IsToolbox(f.trap)
    BY <1>1, <2>1, <2>3, TwoOnTop DEF Under
  <2>4. CASE f.trap # 0 /\ ~IsToolbox(f.trap)
    BY <1>4, <2>1, <2>4, OneOnTop DEF Under
  <2> QED
    BY <2>2, <2>3, <2>4
<1> QED
  BY <1>3, <1>4, <1>5

LEMMA RunningInCode ==
  ASSUME IInv, Running
  PROVE  InCode /\ pc.arg = Len(frames) /\ Len(frames) \in Nat
<1>1. pc.at \in {"code", "entry"}
  BY DEF Running
<1>2. InCode
  <2>1. ~AtSystemStub
    BY <1>1 DEF AtSystemStub
  <2>2. ASSUME NEW f
        PROVE  ~(AtToolboxTrap(f) \/ AtSystemTrap(f) \/ AtEndOfCall(f) \/ AtReadyHandler(f))
    <3>1. ~AtToolboxTrap(f)
      BY <1>1, Kinds DEF AtToolboxTrap
    <3>2. ~AtSystemTrap(f)
      BY <1>1, Kinds DEF AtSystemTrap
    <3>3. ~AtEndOfCall(f)
      BY <1>1, Kinds DEF AtEndOfCall
    <3>4. ~AtReadyHandler(f)
      BY <1>1 DEF AtReadyHandler
    <3> QED
      BY <3>1, <3>2, <3>3, <3>4
  <2> QED
    BY <2>1, <2>2, Zenon DEF IInv, Located
<1> QED
  BY <1>2, LenProperties DEF InCode, Code, Entry, IInv, Chain

(* the frame on top                                                         *)
LEMMA TopFrame ==
  ASSUME IInv, frames # <<>>
  PROVE  /\ Len(frames) \in Nat \ {0} /\ frames[Len(frames)] \in Frame
         /\ frames[Len(frames)].trap # 0 =>
              /\ frames[Len(frames)].resume = Code(Len(frames) - 1)
              /\ frames[Len(frames)].below = CodeStack(frames, Len(frames) - 1)
<1>1. frames \in Seq(Frame) /\ \A k \in 1..Len(frames) : TrapLinked(frames, k) \/ CallLinked(frames, k)
  BY DEF IInv, Chain
<1>2. PICK n \in Nat \ {0} : n = Len(frames)
  BY <1>1, Shortened
<1>3. frames[n] \in Frame
  BY <1>1, <1>2, Shortened
<1>4. TrapLinked(frames, n) \/ CallLinked(frames, n)
  BY <1>1, <1>2
<1> QED
  BY <1>2, <1>3, <1>4 DEF TrapLinked, CallLinked

(* Suspension looks only at the handlers that have an exit function         *)
LEMMA SuspensionAlike ==
  ASSUME NEW fs, NEW nat, NEW exits, NEW o, Suspension(fs, nat, exits, o),
         NEW after, SameHandlers(nat, after, Len(exits))
  PROVE  Suspension(fs, after, exits, o)
BY DEF Suspension, SameHandlers

LEMMA SameAddresses ==
  ASSUME HeldAddresses, UNCHANGED <<patch_trap_addresses, held>>
  PROVE  HeldAddresses'
BY DEF HeldAddresses
-----------------------------------------------------------------------------
(* A trap begins                                                            *)

(* whoever executes a trap gets a frame for it                              *)
LEMMA TrapFrame ==
  ASSUME IInv, Running, NEW trap \in Words
  PROVE  /\ [trap |-> trap, resume |-> Code(pc.arg), below |-> stack, regs |-> regs] \in Frame
         /\ \A f \in Frame :
              f.trap = trap /\ f.resume = Code(pc.arg) /\ f.below = stack =>
                /\ Chain(Append(frames, f))
                /\ \E o \in Seq(Nat) : Suspension(Append(frames, f), native, exit_funcs, o)
                /\ Len(Append(frames, f)) = Len(frames) + 1
                /\ Append(frames, f)[Len(frames) + 1] = f
<1>1. InCode /\ pc.arg = Len(frames) /\ Len(frames) \in Nat
  BY RunningInCode
<1>2. [trap |-> trap, resume |-> Code(pc.arg), below |-> stack, regs |-> regs] \in Frame
  <2>1. Code(pc.arg) \in Slot
    BY <1>1, SlotsAreSlots
  <2> QED
    BY <2>1 DEF IInv, Values, Frame
<1>3. ASSUME NEW f \in Frame, f.trap = trap, f.resume = Code(pc.arg), f.below = stack
      PROVE  /\ Chain(Append(frames, f))
             /\ \E o \in Seq(Nat) : Suspension(Append(frames, f), native, exit_funcs, o)
             /\ Len(Append(frames, f)) = Len(frames) + 1
             /\ Append(frames, f)[Len(frames) + 1] = f
  <2>1. f.trap # 0 /\ f.resume = Code(Len(frames)) /\ f.below = CodeStack(frames, Len(frames))
    BY <1>1, <1>3, TrapWords DEF InCode
  <2>2. PICK o \in Seq(Nat) : Suspension(frames, native, exit_funcs, o)
    BY DEF IInv
  <2>3. Chain(frames) /\ frames \in Seq(Frame)
    BY DEF IInv, Chain
  <2>4. Chain(Append(frames, f)) /\ Suspension(Append(frames, f), native, exit_funcs, o)
    BY <2>1, <2>2, <2>3, TrapBegins
  <2> QED
    BY <2>3, <2>4, Lengthened
<1> QED
  BY <1>2, <1>3

LEMMA EntryStacks ==
  ASSUME NEW s \in Seq(Slot), NEW a \in Slot, NEW c \in Slot
  PROVE  Push(s \o <<a>>, c) = s \o <<a, c>>
<1>1. PICK t \in Seq(Slot) : t = s \o <<a>>
  BY OneOnTop
<1>2. Push(t, c) = t \o <<c>>
  BY OneOnTop
<1> QED
  BY <1>1, <1>2, OneByOne, Zenon

LEMMA EntryStep ==
  ASSUME IInv, NEW word \in Traps, PerformTrapEntry(word)
  PROVE  IInv' /\ Len(frames') >= Len(frames)
<1>1. Running
  BY DEF PerformTrapEntry
<1>2. PICK n \in Nat : n = Len(frames)
  BY <1>1, RunningInCode
<1>3. InCode /\ pc.arg = n /\ stack \in Seq(Slot) /\ regs \in RegisterFile /\ Code(n) \in Slot
  BY <1>1, <1>2, RunningInCode, SlotsAreSlots DEF IInv, Values
<1>4. PICK trap \in Words : trap = TrapOf(word)
  BY ExecutedTraps
<1>5. IsAutoPopSet(word) => IsToolbox(trap)
  BY <1>4, ExecutedTraps
<1>6. PICK f \in Frame : f = [trap |-> trap, resume |-> Code(pc.arg), below |-> stack, regs |-> regs]
  BY <1>1, TrapFrame
<1>7. /\ f.trap = trap /\ f.resume = Code(pc.arg) /\ f.below = stack /\ f.regs = regs
      /\ trap \in Nat \ {0} /\ Args(trap) \in Slot /\ Dispatching(trap) \in Slot
      /\ Code(n + 1) \in Slot
  <2>1. trap \in Nat \ {0} /\ n + 1 \in Nat
    BY TrapWords
  <2>2. Args(trap) \in Slot /\ Dispatching(trap) \in Slot /\ Code(n + 1) \in Slot
    BY <2>1, SlotsAreSlots
  <2> QED
    BY <1>6, <2>1, <2>2
<1>8. frames' = Append(frames, f)
  BY <1>4, <1>6 DEF PerformTrapEntry, TrapOf
<1>9. /\ Chain(frames') /\ Len(frames') = n + 1 /\ frames'[n + 1] = f
      /\ \E o \in Seq(Nat) : Suspension(frames', native, exit_funcs, o)
  BY <1>1, <1>2, <1>7, <1>8, TrapFrame
<1>10. /\ UNCHANGED <<patch_trap_addresses, native, exit_funcs, held, halted>>
       /\ regs' = IF IsSystem(trap) THEN [regs EXCEPT !.D1 = trap] ELSE regs
       /\ pc' = Code(n + 1) \/ pc' = Dispatching(trap)
  BY <1>2, <1>4 DEF PerformTrapEntry, TrapOf, Level
<1>11. \/ pc' = Code(n + 1) /\ stack' = Under(f, n + 1)
       \/ /\ pc' = Dispatching(trap) /\ IsToolbox(trap)
          /\ stack' = f.below \o <<Args(trap), f.resume>>
       \/ /\ pc' = Dispatching(trap) /\ IsSystem(trap) /\ stack' = Entered(f)
  <2>1. CASE IsToolbox(trap)
    <3>1. stack' = stack \o <<Args(trap), Code(n)>>
      <4>1. CASE IsAutoPopSet(word)
        <5>1. PICK t \in Seq(Slot) : t = stack \o <<Args(trap)>>
          BY <1>3, <1>7, OneOnTop
        <5>2. stack' = Push(Pop(t \o <<Code(n)>>), Top(t \o <<Code(n)>>)) \o <<>>
          BY <1>3, <1>4, <2>1, <4>1, <5>1 DEF PerformTrapEntry, TrapOf, ReturnPoint, IsSystem
        <5>3. stack' = Push(t, Code(n)) \o <<>>
          BY <1>3, <5>2, OneOnTop
        <5>4. Push(t, Code(n)) = stack \o <<Args(trap), Code(n)>>
          <6>1. Push(stack \o <<Args(trap)>>, Code(n)) = stack \o <<Args(trap), Code(n)>>
            BY <1>3, <1>7, EntryStacks, ZenonT(40)
          <6> QED
            BY <5>1, <6>1, Zenon
        <5> QED
          BY <1>3, <1>7, <5>3, <5>4, TwoOnTop, ConcatEmptySeq
      <4>2. CASE ~IsAutoPopSet(word)
        <5>1. PICK t \in Seq(Slot) : t = stack \o <<Args(trap)>>
          BY <1>3, <1>7, OneOnTop
        <5>2. stack' = Push(t \o <<>>, Code(n)) \o <<>>
          BY <1>3, <1>4, <2>1, <4>2, <5>1 DEF PerformTrapEntry, TrapOf, ReturnPoint, IsSystem
        <5>3. stack' = Push(t, Code(n)) \o <<>>
          BY <5>2, ConcatEmptySeq
        <5>4. Push(t, Code(n)) = stack \o <<Args(trap), Code(n)>>
          <6>1. Push(stack \o <<Args(trap)>>, Code(n)) = stack \o <<Args(trap), Code(n)>>
            BY <1>3, <1>7, EntryStacks
          <6> QED
            BY <5>1, <6>1, Zenon
        <5> QED
          BY <1>3, <1>7, <5>3, <5>4, TwoOnTop, ConcatEmptySeq
      <4> QED
        BY <4>1, <4>2
    <3>2. stack' = f.below \o <<Args(trap), f.resume>>
      BY <1>3, <1>7, <3>1
    <3>3. Under(f, n + 1) = f.below \o <<Args(trap), f.resume>>
      BY <1>7, <2>1 DEF Under
    <3> QED
      BY <1>10, <2>1, <3>2, <3>3
  <2>2. CASE IsSystem(trap)
    <3>1. ~IsAutoPopSet(word) /\ ~IsToolbox(trap)
      BY <1>5, <2>2 DEF IsSystem
    <3>2. stack' = IF trap \in DOMAIN patch_trap_addresses
                   THEN Push(Push((stack \o <<>>) \o <<>>, Code(n)) \o RegistersSaved(trap), ExitAddress)
                   ELSE Push((stack \o <<>>) \o <<>>, Code(n)) \o RegistersSaved(trap)
      BY <1>3, <1>4, <2>2, <3>1 DEF PerformTrapEntry, TrapOf, ReturnPoint
    <3>3. (stack \o <<>>) \o <<>> = stack
      BY <1>3, ConcatEmptySeq
    <3>4. Push(stack, Code(n)) = f.below \o <<f.resume>>
      BY <1>3, <1>7, OneOnTop
    <3>5. RegistersSaved(trap) = SavedOf(f)
      BY <1>7 DEF RegistersSaved, SavedOf
    <3>6. Push(Entered(f), ExitAddress) = Entered(f) \o <<ExitAddress>>
      BY StackTypes, SlotsAreSlots, OneOnTop
    <3>7. Under(f, n + 1) = Entered(f) \o <<ExitAddress>>
      BY <1>7, <3>1 DEF Under
    <3>8. trap \in DOMAIN patch_trap_addresses <=> pc' = Code(n + 1)
      <4>1. pc' = IF trap \in DOMAIN patch_trap_addresses THEN Code(n + 1) ELSE Dispatching(trap)
        BY <1>2, <1>4 DEF PerformTrapEntry, TrapOf, Level
      <4>2. Code(n + 1) # Dispatching(trap)
        BY Kinds
      <4> QED
        BY <4>1, <4>2
    <3>9. Push((stack \o <<>>) \o <<>>, Code(n)) \o RegistersSaved(trap) = Entered(f)
      BY <3>3, <3>4, <3>5 DEF Entered
    <3> QED
      BY <1>10, <2>2, <3>2, <3>6, <3>7, <3>8, <3>9, Zenon
  <2> QED
    BY <2>1, <2>2 DEF IsSystem
<1>12. stack' \in Seq(Slot) /\ pc' \in Slot /\ regs' \in RegisterFile
  <2>1. Args(trap) \in Slot /\ f.resume \in Slot
    BY <1>3, <1>7
  <2>2. stack \o <<Args(trap), f.resume>> \in Seq(Slot)
    BY <1>3, <2>1, TwoOnTop
  <2>3. stack' \in Seq(Slot)
    <3>1. n + 1 \in Nat
      OBVIOUS
    <3>2. Under(f, n + 1) \in Seq(Slot) /\ Entered(f) \in Seq(Slot)
      BY <3>1, StackTypes
    <3>3. f.below \o <<Args(trap), f.resume>> \in Seq(Slot)
      BY <1>7, <2>2, Zenon
    <3> QED
      BY <1>11, <3>2, <3>3, Zenon
  <2>4. [regs EXCEPT !.D1 = trap] \in RegisterFile
    BY <1>3, <1>7 DEF RegisterFile
  <2>5. regs' \in RegisterFile
    BY <1>3, <1>10, <2>4
  <2>6. pc' \in Slot
    BY <1>7, <1>10
  <2> QED
    BY <2>3, <2>5, <2>6
<1>13. Located'
  <2>1. AllCalling'
    BY <1>3, <1>10 DEF InCode, AllCalling
  <2>2. frames' # <<>>
    BY <1>2, <1>9, EmptySeq
  <2>3. CASE pc' = Code(n + 1) /\ stack' = Under(f, n + 1)
    <3>1. CodeStack(frames', n + 1) = Under(f, n + 1)
      BY <1>9 DEF CodeStack
    <3> QED
      BY <1>9, <2>1, <2>3, <3>1 DEF Located, InCode
  <2>4. CASE pc' = Dispatching(trap) /\ IsToolbox(trap)
             /\ stack' = f.below \o <<Args(trap), f.resume>>
    BY <1>7, <1>9, <2>1, <2>2, <2>4 DEF Located, AtToolboxTrap
  <2>5. CASE pc' = Dispatching(trap) /\ IsSystem(trap) /\ stack' = Entered(f)
    <3>1. regs'.D1 = trap
      BY <1>3, <1>10, <2>5 DEF RegisterFile
    <3> QED
      BY <1>7, <1>9, <2>1, <2>2, <2>5, <3>1 DEF Located, AtSystemTrap
  <2> QED
    BY <1>11, <2>3, <2>4, <2>5
<1>14. HeldAddresses'
  <2>1. HeldAddresses
    BY DEF IInv
  <2> QED
    BY <1>10, <2>1, SameAddresses
<1> QED
  BY <1>2, <1>9, <1>10, <1>12, <1>13, <1>14 DEF IInv, Values
-----------------------------------------------------------------------------
(* Where the other steps are taken                                          *)

LEMMA WhoIsReady ==
  ASSUME IInv
  PROVE  HandlerReady <=> frames # <<>> /\ AtReadyHandler(frames[Len(frames)])
<1>1. native \in Seq(Handler) /\ exit_funcs \in Seq(Nat)
  BY DEF IInv, Values
<1>2. PICK c \in Nat : c = Len(exit_funcs)
  BY <1>1, LenProperties
<1>3. PICK n \in Nat : n = Len(native) /\ DOMAIN native = 1..n
  BY <1>1, LenProperties
<1>4. ASSUME NEW f, AtReadyHandler(f)
      PROVE  HandlerReady
  <2>1. n = c + 1 /\ native[n].phase = "ready"
    BY <1>2, <1>3, <1>4 DEF AtReadyHandler
  <2>2. n \in DOMAIN native
    BY <1>3, <2>1
  <2> QED
    BY <1>3, <2>1, <2>2 DEF HandlerReady
<1>5. ASSUME AllCalling
      PROVE  ~HandlerReady
  <2>1. PICK o \in Seq(Nat) : Suspension(frames, native, exit_funcs, o)
    BY DEF IInv
  <2>2. n = c /\ Len(o) = c
    BY <1>2, <1>3, <1>5, <2>1 DEF AllCalling, Suspension
  <2>3. ASSUME NEW i \in DOMAIN native
        PROVE  native[i].phase = "calling"
    BY <1>3, <2>1, <2>2 DEF Suspension
  <2> QED
    BY <2>3 DEF HandlerReady
<1> QED
  BY <1>4, <1>5, Zenon DEF IInv, Located, InCode, AtSystemStub, AtToolboxTrap, AtSystemTrap, AtEndOfCall

LEMMA WhereItIs ==
  ASSUME IInv, NEW f, f = frames[Len(frames)]
  PROVE  /\ AtDispatch => \/ AtSystemStub
                          \/ /\ frames # <<>>
                             /\ AtToolboxTrap(f) \/ (AtSystemTrap(f) /\ pc = Dispatching(f.trap))
         /\ pc = ExitAddress => frames # <<>> /\ AtSystemTrap(f)
         /\ pc = EndFunctionCall => frames # <<>> /\ AtEndOfCall(f)
<1>1. ASSUME InCode
      PROVE  pc.at \in {"code", "entry"}
  BY <1>1, Kinds DEF InCode
<1>2. ASSUME AtToolboxTrap(f)
      PROVE  pc.at \in {"dispatch", "toolbox_stub"}
  BY <1>2, Kinds DEF AtToolboxTrap
<1>3. ASSUME AtSystemTrap(f)
      PROVE  pc.at \in {"dispatch", "exit"} /\ (pc.at = "dispatch" => pc = Dispatching(f.trap))
  BY <1>3, Kinds DEF AtSystemTrap
<1>4. ASSUME AtEndOfCall(f)
      PROVE  pc.at = "end_of_call"
  BY <1>4, Kinds DEF AtEndOfCall
<1>5. AtReadyHandler(f) => pc.at \in {"dispatch", "toolbox_stub"}
  BY DEF AtReadyHandler
<1>6. AtSystemStub => pc.at = "system_stub"
  BY DEF AtSystemStub
<1>7. \/ InCode \/ AtSystemStub
      \/ /\ frames # <<>>
         /\ AtToolboxTrap(f) \/ AtSystemTrap(f) \/ AtEndOfCall(f) \/ AtReadyHandler(f)
  BY Zenon DEF IInv, Located
<1>8. ASSUME AtDispatch
      PROVE  \/ AtSystemStub
             \/ /\ frames # <<>>
                /\ AtToolboxTrap(f) \/ (AtSystemTrap(f) /\ pc = Dispatching(f.trap))
  <2>1. pc.at \in {"dispatch", "toolbox_stub", "system_stub"} /\ ~HandlerReady
    BY <1>8 DEF AtDispatch
  <2>2. ~InCode /\ ~AtEndOfCall(f)
    BY <1>1, <1>4, <2>1
  <2>3. frames # <<>> => ~AtReadyHandler(f)
    BY <2>1, WhoIsReady, Zenon
  <2>4. AtSystemTrap(f) => pc = Dispatching(f.trap)
    BY <1>3, <2>1
  <2> QED
    BY <1>7, <2>2, <2>3, <2>4
<1>9. ASSUME pc = ExitAddress
      PROVE  frames # <<>> /\ AtSystemTrap(f)
  <2>1. pc.at = "exit"
    BY <1>9, Kinds
  <2>2. ~InCode /\ ~AtToolboxTrap(f) /\ ~AtEndOfCall(f) /\ ~AtReadyHandler(f) /\ ~AtSystemStub
    BY <1>1, <1>2, <1>4, <1>5, <1>6, <2>1
  <2> QED
    BY <1>7, <2>2, Zenon
<1>10. ASSUME pc = EndFunctionCall
       PROVE  frames # <<>> /\ AtEndOfCall(f)
  <2>1. pc.at = "end_of_call"
    BY <1>10, Kinds
  <2>2. ~InCode /\ ~AtToolboxTrap(f) /\ ~AtSystemTrap(f) /\ ~AtReadyHandler(f) /\ ~AtSystemStub
    BY <1>1, <1>2, <1>3, <1>5, <1>6, <2>1
  <2> QED
    BY <1>7, <2>2, Zenon
<1> QED
  BY <1>8, <1>9, <1>10, Zenon
-----------------------------------------------------------------------------
(* A trap ends                                                              *)

Ends == Len(frames') >= Len(frames) \/ Restored(frames[Len(frames)])

(* PerformTrapExit took the wrong slot for the return address: nothing more *)
(* happens                                                                  *)
Lost ==
  /\ Values /\ HeldAddresses /\ frames \in Seq(Frame)
  /\ pc = Astray /\ ~HandlerReady

LEMMA BackInCode ==
  ASSUME IInv, frames # <<>>, NEW f, f = frames[Len(frames)], f.trap # 0,
         NEW ret, ret = f.resume \/ ret = Entry(f.resume.arg),
         GoTo(ret), stack' = f.below,
         native' \in Seq(Handler), Len(native') = Len(exit_funcs),
         SameHandlers(native, native', Len(exit_funcs)),
         exit_funcs' = exit_funcs, halted' = halted,
         regs' \in RegisterFile, HeldAddresses'
  PROVE  IInv' /\ pc' = ret
<1>1. PICK n \in Nat : n = Len(frames) - 1 /\ Len(frames) = n + 1
  BY TopFrame
<1>2. /\ f \in Frame /\ f.resume = Code(n) /\ f.below = CodeStack(frames, n)
      /\ frames \in Seq(Frame)
  BY <1>1, TopFrame DEF IInv, Chain
<1>3. ret = Code(n) \/ ret = Entry(n)
  BY <1>2, Kinds
<1>4. pc' = ret /\ frames' = Front(frames)
  <2>1. ret.at \in {"code", "entry"}
    BY <1>3, Kinds
  <2> QED
    BY <2>1 DEF GoTo
<1>5. PICK gs \in Seq(Frame) : gs = Front(frames)
  BY <1>2, Shortened
<1>6. Len(gs) = n /\ \A i \in 1..n : gs[i] = frames[i]
  BY <1>1, <1>2, <1>5, Shortened
<1>7. CodeStack(gs, n) = CodeStack(frames, n)
  <2>1. CASE n = 0
    BY <2>1 DEF CodeStack
  <2>2. CASE n > 0
    BY <1>6, <2>2 DEF CodeStack
  <2> QED
    BY <2>1, <2>2
<1>8. Chain(gs) /\ \E o \in Seq(Nat) : Suspension(gs, native', exit_funcs, o)
  <2>1. PICK o \in Seq(Nat) : Suspension(frames, native, exit_funcs, o)
    BY DEF IInv
  <2>2. Chain(gs) /\ Suspension(gs, native, exit_funcs, o)
    BY <1>5, <2>1, TrapEnds DEF IInv
  <2>3. PICK after : after = native'
    OBVIOUS
  <2>4. Suspension(gs, after, exit_funcs, o)
    BY <2>2, <2>3, SuspensionAlike
  <2> QED
    BY <2>2, <2>3, <2>4
<1>9. InCode'
  BY <1>2, <1>3, <1>4, <1>5, <1>6, <1>7 DEF InCode, AllCalling
<1>10. Values'
  <2>1. pc' \in Slot
    BY <1>3, <1>4, SlotsAreSlots
  <2>2. stack' \in Seq(Slot)
    BY <1>2 DEF Frame
  <2> QED
    BY <2>1, <2>2 DEF IInv, Values
<1> QED
  BY <1>4, <1>5, <1>8, <1>9, <1>10 DEF IInv, Located
-----------------------------------------------------------------------------
(* What the traps that read and write the trap table leave there            *)

LEMMA NativeAddresses ==
  ASSUME NEW t \in Nat
  PROVE  /\ NativeAddress(t) \in Slot /\ IsNative(NativeAddress(t))
         /\ NativeAddress(t).at = "toolbox_stub" => OwnStub(t, NativeAddress(t))
<1>1. CASE IsToolbox(t)
  <2>1. PICK i \in Nat : i = t % 1024
    OBVIOUS
  <2>2. NativeAddress(t) = Stub("toolbox_stub", i)
    BY <1>1, <2>1 DEF NativeAddress, ExtractIndex, ExtractToolboxIndex
  <2>3. Stub("toolbox_stub", i).at = "toolbox_stub" /\ Stub("toolbox_stub", i).arg = i
    BY DEF Stub
  <2>4. Stub("toolbox_stub", i) \in Slot
    BY SlotsAreSlots
  <2>5. IsNative(Stub("toolbox_stub", i))
    BY <2>3 DEF IsNative
  <2>6. OwnStub(t, Stub("toolbox_stub", i))
    BY <1>1, <2>1, <2>3 DEF OwnStub
  <2> QED
    BY <2>2, <2>4, <2>5, <2>6, Zenon
<1>2. CASE ~IsToolbox(t)
  <2>1. PICK i \in Nat : i = t % 256
    OBVIOUS
  <2>2. NativeAddress(t) = Stub("system_stub", i)
    BY <1>2, <2>1 DEF NativeAddress, ExtractIndex, ExtractSystemIndex
  <2>3. Stub("system_stub", i).at = "system_stub"
    BY DEF Stub
  <2> QED
    BY <2>1, <2>2, <2>3, SlotsAreSlots DEF IsNative
<1> QED
  BY <1>1, <1>2

LEMMA AddressFound ==
  ASSUME HeldAddresses, NEW t \in Nat
  PROVE  /\ AddressOf(t) \in {Nowhere, Patch, NativeAddress(t)}
         /\ AddressOf(t).at = "toolbox_stub" => OwnStub(t, AddressOf(t))
<1>1. AddressOf(t) \in {Nowhere, Patch, NativeAddress(t)}
  BY DEF AddressOf, HeldAddresses, Patches
<1>2. Nowhere.at # "toolbox_stub" /\ Patch.at # "toolbox_stub"
  BY DEF Nowhere, Patch
<1> QED
  BY <1>1, <1>2, NativeAddresses

LEMMA BareNumbers ==
  ASSUME NEW t \in 0..1023
  PROVE  ~IsToolbox(t)
BY DEF IsToolbox

LEMMA LookedUp ==
  ASSUME HeldAddresses, NEW get \in GetTraps, NEW number \in Patchable
  PROVE  Found(number, AddressOf(TrapLookedUp(get, number)))
<1>1. number \in Nat
  BY TrapsAssumption
<1>2. PICK t : t = TrapLookedUp(get, number)
  OBVIOUS
<1>3. \/ t \in 0..1023
      \/ t \in Nat /\ (number \in Words => t = number)
  <2>1. CASE get = GetOSTrapAddress
    <3>1. t = number % 256
      BY <1>2, <2>1 DEF TrapLookedUp, ExtractSystemIndex, GetOSTrapAddress, GetToolBoxTrapAddress,
                       GetTrapAddressTrap
    <3> QED
      BY <1>1, <3>1
  <2>2. CASE get = GetToolBoxTrapAddress
    <3>1. t = number % 1024
      BY <1>2, <2>2 DEF TrapLookedUp, ExtractToolboxIndex, GetOSTrapAddress, GetToolBoxTrapAddress,
                       GetTrapAddressTrap
    <3> QED
      BY <1>1, <3>1
  <2>3. CASE get = GetTrapAddressTrap
    <3>1. t = FullTrap(number)
      BY <1>2, <2>3 DEF TrapLookedUp, GetOSTrapAddress, GetToolBoxTrapAddress, GetTrapAddressTrap
    <3>2. FullTrap(number) \in Nat
      BY <1>1 DEF FullTrap, OnOSTable, ATrap
    <3> QED
      BY <3>1, <3>2, TrapWords
  <2> QED
    BY <2>1, <2>2, <2>3 DEF GetTraps
<1>4. t \in Nat
  BY <1>3
<1>5. /\ AddressOf(t) \in {Nowhere, Patch, NativeAddress(t)}
      /\ AddressOf(t).at = "toolbox_stub" => OwnStub(t, AddressOf(t))
  BY <1>4, AddressFound
<1>6. AddressOf(t) \in Slot /\ (AddressOf(t) \in {Patch, Nowhere} \/ IsNative(AddressOf(t)))
  BY <1>4, <1>5, NativeAddresses, SlotsAreSlots
<1>7. ASSUME number \in Words, AddressOf(t).at = "toolbox_stub"
      PROVE  OwnStub(number, AddressOf(t))
  <2>1. IsToolbox(t)
    BY <1>5, <1>7 DEF OwnStub
  <2>2. t = number
    BY <1>3, <1>7, <2>1, BareNumbers
  <2> QED
    BY <1>5, <1>7, <2>2
<1> QED
  BY <1>2, <1>6, <1>7 DEF Found

LEMMA DispatchAddresses ==
  ASSUME HeldAddresses, NEW trap,
         IF trap \in GetTraps \cup SetTraps THEN InternalDispatch(trap)
                                            ELSE UNCHANGED <<patch_trap_addresses, held>>
  PROVE  HeldAddresses'
<1>1. CASE UNCHANGED <<patch_trap_addresses, held>>
  BY <1>1, SameAddresses
<1>2. ASSUME NEW number \in Patchable, trap \in GetTraps, GetAddress(trap, number)
      PROVE  HeldAddresses'
  <2>1. PICK address : address = AddressOf(TrapLookedUp(trap, number))
    OBVIOUS
  <2>2. Found(number, address) /\ Addresses(held) /\ Patches(patch_trap_addresses)
    BY <1>2, <2>1, LookedUp DEF HeldAddresses
  <2>3. /\ held' = [t \in DOMAIN held \cup {number} |-> IF t = number THEN address ELSE held[t]]
        /\ patch_trap_addresses' = patch_trap_addresses
    BY <1>2, <2>1 DEF GetAddress
  <2>4. Addresses(held')
    BY <2>2, <2>3 DEF Addresses
  <2> QED
    BY <2>2, <2>3, <2>4 DEF HeldAddresses
<1>3. ASSUME NEW number \in Patchable, NEW address \in SetInput, SetAddress(number, address)
      PROVE  HeldAddresses'
  <2>1. Addresses(held) /\ Patches(patch_trap_addresses) /\ held' = held
    BY <1>3 DEF HeldAddresses, SetAddress
  <2>2. IsNative(address) \/ address = Patch
    BY <1>3, <2>1 DEF SetInput, Addresses, Found
  <2>3. \A t \in DOMAIN patch_trap_addresses : patch_trap_addresses[t] = Patch
    BY <2>1 DEF Patches
  <2>4. Patches(patch_trap_addresses')
    <3>1. CASE IsNative(address)
      <4>1. patch_trap_addresses' =
              [t \in DOMAIN patch_trap_addresses \ {number} |-> patch_trap_addresses[t]]
        BY <1>3, <3>1 DEF SetAddress
      <4> QED
        BY <2>3, <4>1 DEF Patches
    <3>2. CASE ~IsNative(address)
      <4>1. patch_trap_addresses' =
              [t \in DOMAIN patch_trap_addresses \cup {number} |->
                 IF t = number THEN address ELSE patch_trap_addresses[t]]
        BY <1>3, <3>2, SMTT(30) DEF SetAddress
      <4> QED
        BY <2>2, <2>3, <3>2, <4>1 DEF Patches
    <3> QED
      BY <3>1, <3>2
  <2> QED
    BY <2>1, <2>4 DEF HeldAddresses
<1> QED
  BY <1>1, <1>2, <1>3 DEF InternalDispatch
-----------------------------------------------------------------------------
(* One lemma for every action                                               *)

LEMMA Unmoved ==
  ASSUME IInv, halted' \in BOOLEAN,
         UNCHANGED <<pc, stack, regs, patch_trap_addresses, native, exit_funcs, held, frames>>
  PROVE  IInv'
BY DEF IInv, Values, HeldAddresses, Located, InCode, AtSystemStub, AtToolboxTrap, AtSystemTrap,
       AtEndOfCall, AtReadyHandler, AllCalling

LEMMA PutBack ==
  ASSUME NEW s \in Seq(Slot), s # <<>>
  PROVE  Push(Pop(s), Top(s)) = s
<1>1. PICK t \in Seq(Slot) : t = Front(s)
  BY Shortened
<1>2. /\ Len(s) \in Nat \ {0} /\ Len(t) = Len(s) - 1 /\ s[Len(s)] \in Slot
      /\ \A i \in 1 .. Len(s) - 1 : t[i] = s[i]
  BY <1>1, Shortened
<1>3. PICK a \in Slot : a = s[Len(s)]
  BY <1>2
<1>4. PICK u \in Seq(Slot) : u = Append(t, a)
  BY Lengthened
<1>5. Len(u) = Len(s) /\ u[Len(s)] = a /\ \A i \in 1 .. Len(s) - 1 : u[i] = t[i]
  BY <1>2, <1>4, Lengthened
<1>6. \A i \in 1..Len(u) : u[i] = s[i]
  BY <1>2, <1>3, <1>5
<1>7. u = s
  BY <1>5, <1>6, SeqEqual
<1> QED
  BY <1>1, <1>3, <1>4, <1>7 DEF Push, Pop, Top

(* what the frame on top contains                                           *)
LEMMA FrameTypes ==
  ASSUME NEW f \in Frame
  PROVE  /\ f.below \in Seq(Slot) /\ f.resume \in Slot /\ f.regs \in RegisterFile
         /\ f.trap \in Nat /\ Args(f.trap) \in Slot
         /\ f.trap # 0 => f.trap \in Words
<1>1. f.trap \in Words \cup {0} /\ f.below \in Seq(Slot) /\ f.resume \in Slot /\ f.regs \in RegisterFile
  BY DEF Frame
<1>2. f.trap \in Nat
  BY <1>1, TrapWords
<1> QED
  BY <1>1, <1>2, SlotsAreSlots

(* what CallFunction does for the trap of the frame on top                  *)
CallsFunction(f) ==
  /\ f.trap \in Callbacks /\ pc.at \in {"dispatch", "toolbox_stub"}
  /\ frames' = Append(frames, [trap |-> 0, resume |-> pc, below |-> f.below, regs |-> regs])
  /\ stack' = f.below \o <<pc, Placeholder(Len(frames) + 1), Args(0), EndFunctionCall>>
  /\ pc' = Code(Len(frames) + 1)
  /\ exit_funcs' = Append(exit_funcs, Len(exit_funcs) + 1)
  /\ native' \in Seq(Handler) /\ Len(native') = Len(exit_funcs) + 1
  /\ Suspends(native, native', Len(exit_funcs), f)
  /\ UNCHANGED <<regs, patch_trap_addresses, held, halted>>

LEMMA CallStep ==
  ASSUME IInv, frames # <<>>, NEW f, f = frames[Len(frames)], CallsFunction(f)
  PROVE  IInv' /\ Len(frames') >= Len(frames)
<1>1. PICK n \in Nat \ {0} : n = Len(frames)
  BY TopFrame
<1>2. f \in Frame /\ f.below \in Seq(Slot) /\ frames \in Seq(Frame) /\ exit_funcs \in Seq(Nat)
  BY TopFrame, FrameTypes DEF IInv, Chain, Values
<1>3. PICK g \in Frame : g = [trap |-> 0, resume |-> pc, below |-> f.below, regs |-> regs]
  BY <1>2 DEF IInv, Values, Frame
<1>4. g.trap = 0 /\ g.resume = pc /\ g.below = f.below
  BY <1>3
<1>5. frames' = Append(frames, g)
  BY <1>3 DEF CallsFunction
<1>6. Calls(frames, g)
  BY <1>2, <1>4 DEF Calls, CallsFunction
<1>7. PICK o \in Seq(Nat) : Suspension(frames, native, exit_funcs, o)
  BY DEF IInv
<1>8. PICK after : after = native'
  OBVIOUS
<1>9. Suspends(native, after, Len(exit_funcs), frames[Len(frames)])
  BY <1>8 DEF CallsFunction
<1>10. /\ Chain(Append(frames, g))
       /\ \E p \in Seq(Nat) :
            Suspension(Append(frames, g), after, Append(exit_funcs, Len(exit_funcs) + 1), p)
  BY <1>2, <1>6, <1>7, <1>9, CallBegins DEF IInv
<1>11. Len(frames') = n + 1 /\ frames'[n + 1] = g
  <2>1. PICK gs : gs = Append(frames, g)
    OBVIOUS
  <2>2. Len(gs) = Len(frames) + 1 /\ gs[Len(frames) + 1] = g
    <3>1. Len(Append(frames, g)) = Len(frames) + 1 /\ Append(frames, g)[Len(frames) + 1] = g
      BY <1>2, Lengthened
    <3> QED
      BY <2>1, <3>1, Zenon
  <2> QED
    BY <1>1, <1>5, <2>1, <2>2, Zenon
<1>12. PICK c \in Nat : c = Len(exit_funcs)
  BY <1>2, LenProperties
<1>13. exit_funcs' \in Seq(Nat) /\ Len(exit_funcs') = c + 1
  <2>1. c + 1 \in Nat
    OBVIOUS
  <2> QED
    BY <1>2, <1>12, <2>1, Lengthened DEF CallsFunction
<1>14. Code(n + 1) \in Slot /\ Placeholder(n + 1) \in Slot /\ Args(0) \in Slot /\ EndFunctionCall \in Slot
  <2>1. n + 1 \in Nat
    OBVIOUS
  <2> QED
    BY <2>1, SlotsAreSlots, Zenon
<1>15. Values'
  <2>1. stack' \in Seq(Slot)
    <3>1. FourAbove(stack', f.below, pc, Placeholder(n + 1), Args(0), EndFunctionCall)
      BY <1>1 DEF FourAbove, CallsFunction
    <3> QED
      BY <1>2, <1>14, <3>1, FourOnTop DEF IInv, Values
  <2> QED
    BY <1>1, <1>13, <1>14, <2>1 DEF IInv, Values, CallsFunction
<1>16. InCode'
  <2>1. AllCalling'
    BY <1>12, <1>13 DEF AllCalling, CallsFunction
  <2>2. stack' = Under(g, n + 1)
    BY <1>1, <1>4 DEF Under, CallsFunction
  <2>3. CodeStack(frames', n + 1) = Under(g, n + 1)
    <3>1. n + 1 # 0
      OBVIOUS
    <3> QED
      BY <1>11, <3>1 DEF CodeStack
  <2> QED
    BY <1>1, <1>11, <2>1, <2>2, <2>3 DEF InCode, CallsFunction
<1>17. HeldAddresses'
  BY SameAddresses DEF IInv, CallsFunction
<1>18. Chain(frames') /\ \E p \in Seq(Nat) : Suspension(frames', native', exit_funcs', p)
  BY <1>5, <1>8, <1>10 DEF CallsFunction
<1>19. IInv'
  BY <1>15, <1>16, <1>17, <1>18 DEF IInv, Located
<1>20. Len(frames') >= Len(frames)
  BY <1>1, <1>11
<1> QED
  BY <1>19, <1>20

LEMMA LoadSegIsForTheToolbox ==
  ASSUME NEW t \in Nat, ~IsToolbox(t)
  PROVE  t # LoadSeg
<1>1. LoadSeg \in Words /\ LoadSeg >= ATrap + 2048
  BY DEF LoadSeg, Words, ATrap
<1>2. IsToolbox(LoadSeg)
  BY <1>1, TrapWords
<1> QED
  BY <1>2

(* the index of a toolbox trap, and the trap that its stub makes of it      *)
Numbered(t, i) ==
  /\ OwnAddress(t).arg = i /\ ExtractIndex(t) = i
  /\ ATrap + 2048 + (i % 1024) = t /\ ATrap + 2048 + ((ATrap + i) % 1024) = t

LEMMA ToolboxNumbers ==
  ASSUME NEW t \in Words, IsToolbox(t)
  PROVE  \E i \in 0..1023 : Numbered(t, i)
<1>1. t % 1024 \in 0..1023
  BY TrapWords
<1>2. PICK i \in 0..1023 : i = t % 1024
  BY <1>1
<1>3. ATrap + 2048 + (i % 1024) = t /\ ATrap + 2048 + ((ATrap + i) % 1024) = t
  BY <1>2, TrapWords
<1>4. OwnAddress(t).arg = i /\ ExtractIndex(t) = i
  BY <1>2 DEF OwnAddress, Stub, ExtractIndex, ExtractToolboxIndex
<1>5. Numbered(t, i)
  BY <1>3, <1>4 DEF Numbered
<1> QED
  BY <1>5

LEMMA DispatchedTrap ==
  ASSUME NEW t \in Words, IsToolbox(t), pc \in {Dispatching(t), OwnAddress(t)}
  PROVE  ToToolbox /\ TrapOp = t
<1>1. PICK i \in 0..1023 : Numbered(t, i)
  BY ToolboxNumbers
<1>2. CASE pc = Dispatching(t)
  <2>1. pc.at = "dispatch" /\ pc.arg = t
    BY <1>2, Kinds
  <2>2. ToToolbox /\ TrapIndex = ExtractIndex(t)
    BY <2>1 DEF ToToolbox, TrapIndex
  <2>3. TrapIndex = i /\ ATrap + 2048 + (i % 1024) = t
    BY <1>1, <2>2 DEF Numbered
  <2> QED
    BY <2>2, <2>3 DEF TrapOp
<1>3. CASE pc = OwnAddress(t)
  <2>1. pc.at = "toolbox_stub" /\ pc.arg = i
    <3>1. OwnAddress(t).arg = i
      BY <1>1 DEF Numbered
    <3>2. OwnAddress(t).at = "toolbox_stub"
      BY Kinds
    <3> QED
      BY <1>3, <3>1, <3>2, Zenon
  <2>2. ToToolbox /\ TrapIndex = ATrap + i
    BY <2>1 DEF ToToolbox, TrapIndex
  <2>3. ATrap + 2048 + ((ATrap + i) % 1024) = t
    BY <1>1 DEF Numbered
  <2> QED
    BY <2>2, <2>3 DEF TrapOp
<1> QED
  BY <1>2, <1>3

(* the native handler of a toolbox trap finds the stack its caller made     *)
LEMMA AtToolboxHandler ==
  ASSUME IInv, frames # <<>>, NEW f, f = frames[Len(frames)], AtToolboxTrap(f)
  PROVE  /\ ToToolbox /\ TrapOp = f.trap /\ f.trap \in Words
         /\ Top(stack) = f.resume /\ Pop(Pop(stack)) = f.below
         /\ stack[Len(stack) - 1] = Args(f.trap)
<1>1. f \in Frame
  BY TopFrame
<1>2. f.below \in Seq(Slot) /\ f.resume \in Slot /\ f.trap \in Words /\ Args(f.trap) \in Slot
  BY <1>1, FrameTypes DEF AtToolboxTrap
<1>3. PICK t \in Words : t = f.trap
  BY <1>2
<1>4. IsToolbox(t) /\ stack = f.below \o <<Args(t), f.resume>>
  BY <1>3 DEF AtToolboxTrap
<1>5. /\ Top(stack) = f.resume /\ Pop(Pop(stack)) = f.below
      /\ stack[Len(stack) - 1] = Args(t)
  BY <1>2, <1>3, <1>4, TwoOnTop
<1>6. ToToolbox /\ TrapOp = t
  <2>1. IsToolbox(t) /\ pc \in {Dispatching(t), OwnAddress(t)}
    BY <1>3 DEF AtToolboxTrap
  <2> QED
    BY <2>1, DispatchedTrap
<1> QED
  BY <1>2, <1>3, <1>5, <1>6, Zenon

LEMMA ToolboxDispatch ==
  ASSUME IInv, PerformTrapDispatch, ~WrongTrap, frames # <<>>,
         NEW f, f = frames[Len(frames)], AtToolboxTrap(f)
  PROVE  IInv' /\ Ends
<1>1. /\ ToToolbox /\ TrapOp = f.trap /\ f.trap \in Words
      /\ Top(stack) = f.resume /\ Pop(Pop(stack)) = f.below
  BY AtToolboxHandler
<1>2. IsToolbox(f.trap) /\ ~IsSystem(f.trap) /\ AllCalling /\ f.trap # 0
  BY DEF AtToolboxTrap, IsSystem
<1>3. PICK ret : ret = Returning(f.trap, f.resume)
  OBVIOUS
<1>4. native \in Seq(Handler) /\ exit_funcs \in Seq(Nat) /\ regs \in RegisterFile
  BY DEF IInv, Values
<1>5. ASSUME IF f.trap \in GetTraps \cup SetTraps THEN InternalDispatch(f.trap)
             ELSE UNCHANGED <<patch_trap_addresses, held>>,
             HandlerResult(f.trap), Finish(f.trap, pc.at, ret, f.below),
             UNCHANGED <<native, exit_funcs, halted>>
      PROVE  IInv' /\ Ends
  <2>1. regs' = regs /\ GoTo(ret) /\ stack' = f.below
    BY <1>2, <1>5 DEF HandlerResult, Finish
  <2>2. ret = f.resume \/ (f.trap = LoadSeg /\ ret = Entry(f.resume.arg))
    BY <1>3 DEF Returning
  <2>3. HeldAddresses'
    BY <1>5, DispatchAddresses DEF IInv
  <2>4. SameHandlers(native, native', Len(exit_funcs)) /\ Len(native') = Len(exit_funcs)
    BY <1>2, <1>5 DEF SameHandlers, AllCalling
  <2>5. IInv' /\ pc' = ret
    BY <1>2, <1>4, <1>5, <2>1, <2>2, <2>3, <2>4, BackInCode
  <2>6. Restored(f)
    BY <1>2, <2>1, <2>2, <2>5 DEF Restored
  <2> QED
    BY <2>5, <2>6 DEF Ends
<1>6. ASSUME CallFunction(f.trap, pc.at, ret, f.below)
      PROVE  IInv' /\ Ends
  <2>1. pc.at \in {"dispatch", "toolbox_stub"}
    BY Kinds DEF AtToolboxTrap
  <2>2. PICK h : h = [trap |-> f.trap, from |-> pc.at, ret |-> ret, phase |-> "calling"]
    OBVIOUS
  <2>3. h \in Handler
    <3>1. f.trap \in Nat /\ f.resume \in Slot
      BY TopFrame, FrameTypes
    <3>2. f.resume.arg \in Nat
      BY <3>1 DEF Slot
    <3>3. Entry(f.resume.arg) \in Slot
      BY <3>2, SlotsAreSlots
    <3>4. ret \in Slot
      BY <1>3, <3>1, <3>3, Zenon DEF Returning
    <3> QED
      BY <2>1, <2>2, <3>1, <3>4 DEF Handler
  <2>4. native' = Append(native, h)
    BY <1>6, <2>2 DEF CallFunction
  <2>5. PICK c \in Nat : c = Len(exit_funcs) /\ c = Len(native)
    BY <1>2, <1>4, LenProperties DEF AllCalling
  <2>6. /\ native' \in Seq(Handler) /\ Len(native') = c + 1 /\ native'[c + 1] = h
        /\ \A i \in 1..c : native'[i] = native[i]
    BY <1>4, <2>3, <2>4, <2>5, Lengthened
  <2>7. Suspends(native, native', c, f)
    <3>1. h.phase = "calling" /\ Describes(h, f)
      BY <1>3, <2>2 DEF Describes
    <3> QED
      BY <2>6, <3>1 DEF Suspends, SameHandlers
  <2>8. CallsFunction(f)
    <3>1. /\ f.trap \in Callbacks
          /\ frames' = Append(frames, [trap |-> 0, resume |-> pc, below |-> f.below, regs |-> regs])
          /\ stack' = f.below \o <<pc, Placeholder(Len(frames) + 1), Args(0), EndFunctionCall>>
          /\ pc' = Code(Len(frames) + 1)
          /\ exit_funcs' = Append(exit_funcs, Len(native) + 1)
          /\ UNCHANGED <<regs, patch_trap_addresses, held, halted>>
      BY <1>6 DEF CallFunction, Level
    <3> QED
      BY <2>1, <2>5, <2>6, <2>7, <3>1 DEF CallsFunction
  <2> QED
    BY <2>8, CallStep DEF Ends
<1> QED
  BY <1>1, <1>2, <1>3, <1>5, <1>6 DEF PerformTrapDispatch

LEMMA SystemDispatch ==
  ASSUME IInv, PerformTrapDispatch, frames # <<>>,
         NEW f, f = frames[Len(frames)], AtSystemTrap(f), pc = Dispatching(f.trap)
  PROVE  IInv' /\ frames' = frames
<1>1. PICK t \in Words : t = f.trap
  BY TopFrame, FrameTypes DEF AtSystemTrap
<1>2. f \in Frame /\ f.below \in Seq(Slot) /\ f.resume \in Slot
  BY TopFrame, FrameTypes
<1>3. /\ IsSystem(t) /\ ~IsToolbox(t) /\ regs.D1 = t /\ pc = Dispatching(t)
      /\ AllCalling /\ stack = Entered(f) /\ t # 0
  BY <1>1 DEF AtSystemTrap, IsSystem
<1>4. pc.at = "dispatch" /\ pc.arg = t
  BY <1>3, Kinds
<1>5. ~ToToolbox /\ TrapOp = t /\ ~WrongTrap
  <2>1. ~ToToolbox
    BY <1>3, <1>4 DEF ToToolbox
  <2>2. TrapOp = t
    BY <1>3, <2>1 DEF TrapOp
  <2>3. TrapIndex = ExtractIndex(regs.D1)
    BY <1>3, <1>4 DEF TrapIndex
  <2> QED
    BY <2>1, <2>2, <2>3 DEF WrongTrap
<1>6. t \notin Callbacks
  BY <1>3, CallbacksAreToolboxTraps
<1>7. t # LoadSeg
  <2>1. t \in Nat
    BY TrapWords
  <2> QED
    BY <1>3, <2>1, LoadSegIsForTheToolbox, Zenon
<1>8. /\ IF t \in GetTraps \cup SetTraps THEN InternalDispatch(t)
                                         ELSE UNCHANGED <<patch_trap_addresses, held>>
      /\ HandlerResult(t)
      /\ Finish(t, "dispatch", Top(stack), Pop(stack))
      /\ UNCHANGED <<native, exit_funcs, halted>>
  BY <1>3, <1>4, <1>5, <1>6, <1>7 DEF PerformTrapDispatch, Returning, CallFunction
<1>9. HeldAddresses'
  BY <1>8, DispatchAddresses DEF IInv
<1>10. regs' \in RegisterFile /\ regs'.D1 = t
  <2>1. regs \in RegisterFile /\ Result \in Nat
    BY TrapsAssumption DEF IInv, Values
  <2>2. regs' = regs \/ regs' = [regs EXCEPT !.A0 = Result]
    BY <1>3, <1>8 DEF HandlerResult
  <2>3. [regs EXCEPT !.A0 = Result] \in RegisterFile /\ [regs EXCEPT !.A0 = Result].D1 = regs.D1
    BY <2>1 DEF RegisterFile
  <2> QED
    BY <1>3, <2>1, <2>2, <2>3
<1>11. pc' = ExitAddress /\ frames' = frames /\ stack' = Push(Pop(stack), Top(stack))
  <2>1. GoTo(ExitAddress) /\ stack' = Push(Pop(stack), Top(stack))
    BY <1>3, <1>8 DEF Finish
  <2> QED
    BY <2>1, Kinds DEF GoTo
<1>12. stack' = Entered(f) /\ stack' \in Seq(Slot)
  <2>1. Entered(f) \in Seq(Slot) /\ SavedOf(f) \in Seq(Slot)
    BY <1>2, StackTypes
  <2>2. PICK s \in Seq(Slot) : s = f.below \o <<f.resume>>
    BY <1>2, OneOnTop
  <2>3. Len(s) = Len(f.below) + 1 /\ Len(f.below) \in Nat
    BY <1>2, <2>2, OneOnTop, LenProperties
  <2>4. Len(Entered(f)) = Len(s) + Len(SavedOf(f)) /\ Len(SavedOf(f)) \in Nat
    BY <2>1, <2>2, ConcatProperties, LenProperties DEF Entered
  <2>5. PICK e \in Seq(Slot) : e = Entered(f)
    BY <2>1
  <2>6. PICK b \in Nat, r \in Nat : Len(e) = b + 1 + r
    BY <2>3, <2>4, <2>5
  <2>7. e # <<>>
    BY <2>6, EmptySeq
  <2> QED
    BY <1>3, <1>11, <2>1, <2>5, <2>7, PutBack
<1>13. AtSystemTrap(f)'
  BY <1>1, <1>3, <1>8, <1>10, <1>11, <1>12 DEF AtSystemTrap, AllCalling
<1>14. Values'
  <2>1. pc' \in Slot
    BY <1>11, SlotsAreSlots
  <2> QED
    BY <1>8, <1>10, <1>12, <2>1 DEF IInv, Values
<1>15. Located'
  BY <1>11, <1>13 DEF Located
<1> QED
  BY <1>8, <1>9, <1>11, <1>14, <1>15 DEF IInv

LEMMA DispatchStep ==
  ASSUME IInv, PerformTrapDispatch
  PROVE  IInv' /\ Ends
<1>1. PICK f : f = frames[Len(frames)]
  OBVIOUS
<1>2. frames \in Seq(Frame) /\ Len(frames) \in Nat
  BY LenProperties DEF IInv, Chain
<1>3. ASSUME frames' = frames
      PROVE  Ends
  BY <1>2, <1>3 DEF Ends
<1>4. ASSUME WrongTrap
      PROVE  IInv' /\ Ends
  <2>1. /\ halted' = TRUE
        /\ UNCHANGED <<pc, stack, regs, patch_trap_addresses, native, exit_funcs, held, frames>>
    BY <1>4 DEF PerformTrapDispatch
  <2> QED
    BY <1>3, <2>1, Unmoved
<1>5. ASSUME AtSystemStub
      PROVE  WrongTrap
  <2>1. pc.at = "system_stub" /\ pc.arg \in Nat /\ regs.D1 \in Nat
    BY <1>5 DEF AtSystemStub, IInv, Values, Slot, RegisterFile
  <2>2. ~ToToolbox
    BY <2>1 DEF ToToolbox
  <2>3. PICK i \in Nat : i = pc.arg
    BY <2>1
  <2>4. TrapIndex = ATrap + i
    BY <2>1, <2>3 DEF TrapIndex
  <2>5. PICK d \in Nat : d = regs.D1
    BY <2>1
  <2>6. d % 1024 \in 0..1023 /\ d % 256 \in 0..255
    OBVIOUS
  <2>7. ExtractIndex(d) = d % 1024 \/ ExtractIndex(d) = d % 256
    <3>1. CASE IsToolbox(d)
      BY <3>1 DEF ExtractIndex, ExtractToolboxIndex
    <3>2. CASE ~IsToolbox(d)
      BY <3>2 DEF ExtractIndex, ExtractSystemIndex
    <3> QED
      BY <3>1, <3>2
  <2>8. ATrap + i # ExtractIndex(d)
    <3>1. PICK x : x = ExtractIndex(d)
      OBVIOUS
    <3>2. x \in 0..1023
      BY <2>6, <2>7, <3>1
    <3>3. ATrap + i # x
      BY <3>2 DEF ATrap
    <3> QED
      BY <3>1, <3>3, Zenon
  <2> QED
    BY <2>2, <2>4, <2>5, <2>8 DEF WrongTrap
<1>6. AtDispatch
  BY DEF PerformTrapDispatch
<1>7. CASE AtSystemStub
  BY <1>4, <1>5, <1>7
<1>8. CASE frames # <<>> /\ AtToolboxTrap(f)
  BY <1>1, <1>4, <1>8, ToolboxDispatch
<1>9. CASE frames # <<>> /\ AtSystemTrap(f) /\ pc = Dispatching(f.trap)
  BY <1>1, <1>3, <1>9, SystemDispatch
<1> QED
  BY <1>1, <1>6, <1>7, <1>8, <1>9, WhereItIs, Zenon

(* the registers a system trap saved, from the bottom                       *)
LEMMA SavedRegisters ==
  ASSUME NEW f \in Frame, NEW q, q = SavedOf(f)
  PROVE  /\ ShouldSaveA0(f.trap) =>
              /\ Len(q) = 4 /\ q[1].arg = f.regs.A0 /\ q[2].arg = f.regs.A1
              /\ q[3].arg = f.regs.D1 /\ q[4].arg = f.regs.D2
         /\ ~ShouldSaveA0(f.trap) =>
              /\ Len(q) = 3 /\ q[1].arg = f.regs.A1
              /\ q[2].arg = f.regs.D1 /\ q[3].arg = f.regs.D2
<1>1. f.regs \in RegisterFile
  BY FrameTypes
<1>2. PICK a \in Slot, b \in Slot, c \in Slot, d \in Slot :
        a = Saved(f.regs.A0) /\ b = Saved(f.regs.A1) /\ c = Saved(f.regs.D1) /\ d = Saved(f.regs.D2)
  BY <1>1, SlotsAreSlots DEF RegisterFile
<1>3. a.arg = f.regs.A0 /\ b.arg = f.regs.A1 /\ c.arg = f.regs.D1 /\ d.arg = f.regs.D2
  BY <1>2 DEF Saved
<1>4. PICK three \in Seq(Slot) : three = <<b, c, d>>
  <2>1. <<b, c, d>> \in Seq(Slot)
    OBVIOUS
  <2> QED
    BY <2>1, Zenon
<1>5. Len(three) = 3 /\ three[1] = b /\ three[2] = c /\ three[3] = d
  BY <1>4
<1>6. ASSUME ShouldSaveA0(f.trap)
      PROVE  Len(q) = 4 /\ q[1] = a /\ q[2] = b /\ q[3] = c /\ q[4] = d
  <2>1. PICK one \in Seq(Slot) : one = <<a>>
    <3>1. <<a>> \in Seq(Slot)
      OBVIOUS
    <3> QED
      BY <3>1, Zenon
  <2>2. Len(one) = 1 /\ one[1] = a
    BY <2>1
  <2>3. q = one \o three
    BY <1>2, <1>4, <1>6, <2>1, Zenon DEF SavedOf
  <2>4. /\ Len(one \o three) = Len(one) + Len(three)
        /\ \A i \in 1..Len(one) : (one \o three)[i] = one[i]
        /\ \A i \in 1..Len(three) : (one \o three)[Len(one) + i] = three[i]
    BY SavedOnTop
  <2>5. /\ Len(q) = 1 + 3 /\ \A i \in 1..1 : q[i] = one[i]
        /\ \A i \in 1..3 : q[1 + i] = three[i]
    BY <1>5, <2>2, <2>3, <2>4, Zenon
  <2>6. q[1] = one[1] /\ q[1 + 1] = three[1] /\ q[1 + 2] = three[2] /\ q[1 + 3] = three[3]
    BY <2>5
  <2> QED
    BY <1>5, <2>2, <2>5, <2>6
<1>7. ASSUME ~ShouldSaveA0(f.trap)
      PROVE  q = three
  <2>1. q = <<>> \o three
    BY <1>2, <1>4, <1>7, Zenon DEF SavedOf
  <2> QED
    BY <2>1, ConcatEmptySeq
<1> QED
  BY <1>3, <1>5, <1>6, <1>7

LEMMA ExitStep ==
  ASSUME IInv, PerformTrapExit, ~Misled
  PROVE  IInv' /\ Ends
<1>1. PICK f : f = frames[Len(frames)]
  OBVIOUS
<1>2. frames # <<>> /\ AtSystemTrap(f)
  BY <1>1, WhereItIs DEF PerformTrapExit
<1>3. f \in Frame /\ f.below \in Seq(Slot) /\ f.resume \in Slot /\ f.regs \in RegisterFile
  BY <1>1, <1>2, TopFrame, FrameTypes
<1>4. /\ IsSystem(f.trap) /\ f.trap # 0 /\ AllCalling /\ stack = Entered(f)
      /\ ShouldSaveA0(regs.D1) = ShouldSaveA0(f.trap)
  BY <1>1, <1>2 DEF AtSystemTrap, PerformTrapExit, Misled, Level
<1>5. PICK r \in RegisterFile : r = f.regs
  BY <1>3
<1>6. /\ r.A0 \in Nat /\ r.A1 \in Nat /\ r.D1 \in Nat /\ r.D2 \in Nat
      /\ Saved(r.A0) \in Slot /\ Saved(r.A1) \in Slot /\ Saved(r.D1) \in Slot /\ Saved(r.D2) \in Slot
  <2>1. r.A0 \in Nat /\ r.A1 \in Nat /\ r.D1 \in Nat /\ r.D2 \in Nat
    BY DEF RegisterFile
  <2> QED
    BY <2>1, SlotsAreSlots
<1>7. regs \in RegisterFile /\ native \in Seq(Handler)
  BY DEF IInv, Values
<1>8. /\ regs' = [D2 |-> r.D2, D1 |-> r.D1, A1 |-> r.A1,
                  A0 |-> IF ShouldSaveA0(f.trap) THEN r.A0 ELSE regs.A0]
      /\ stack' = f.below /\ GoTo(f.resume)
  <2>1. PICK m \in Nat : m = Len(f.below)
    BY <1>3, LenProperties
  <2>2. ASSUME NEW t \in Seq(Slot), NEW k \in {3, 4}, stack = f.below \o t, Len(t) = k + 1,
               IF ShouldSaveA0(f.trap) THEN k = 4 ELSE k = 3
        PROVE  /\ regs' = [D2 |-> t[k + 1].arg, D1 |-> t[k].arg, A1 |-> t[k - 1].arg,
                           A0 |-> IF k = 4 THEN t[k - 2].arg ELSE regs.A0]
               /\ stack' = f.below /\ GoTo(t[1])
    <3>1. PICK b \in Seq(Slot), s \in Seq(Slot) : b = f.below /\ s = b \o t /\ s = stack
      BY <1>3, <2>2, SavedOnTop
    <3>2. /\ Len(s) = Len(b) + Len(t)
          /\ SubSeq(s, 1, Len(b)) = b
          /\ \A i \in 1..Len(t) : s[Len(b) + i] = t[i]
      <4>1. /\ Len(b \o t) = Len(b) + Len(t)
            /\ SubSeq(b \o t, 1, Len(b)) = b
            /\ \A i \in 1..Len(t) : (b \o t)[Len(b) + i] = t[i]
        BY <2>2, SavedOnTop, SMTT(30)
      <4> QED
        BY <3>1, <4>1, Zenon
    <3>3. /\ regs' = [D2 |-> s[Len(s)].arg, D1 |-> s[Len(s) - 1].arg, A1 |-> s[Len(s) - 2].arg,
                      A0 |-> IF k = 4 THEN s[Len(s) - 3].arg ELSE regs.A0]
          /\ stack' = SubSeq(s, 1, Len(s) - k - 1)
          /\ GoTo(s[Len(s) - k])
      BY <1>4, <2>2, <3>1 DEF PerformTrapExit
    <3>4. Len(s) = m + (k + 1) /\ SubSeq(s, 1, m) = f.below /\ \A i \in 1 .. k + 1 : s[m + i] = t[i]
      BY <2>1, <2>2, <3>1, <3>2, Zenon
    <3>5. /\ Len(s) - k - 1 = m /\ Len(s) - k = m + 1
          /\ Len(s) = m + (k + 1) /\ Len(s) - 1 = m + k
          /\ Len(s) - 2 = m + (k - 1) /\ (k = 4 => Len(s) - 3 = m + (k - 2))
      BY <3>4
    <3>6. /\ s[m + (k + 1)] = t[k + 1] /\ s[m + k] = t[k] /\ s[m + (k - 1)] = t[k - 1]
          /\ s[m + 1] = t[1] /\ (k = 4 => s[m + (k - 2)] = t[k - 2])
      BY <3>4
    <3> QED
      BY <3>3, <3>4, <3>5, <3>6
  <2>3. PICK q \in Seq(Slot) : q = SavedOf(f)
    BY <1>3, StackTypes
  <2>4. PICK one \in Seq(Slot) : one = <<f.resume>>
    <3>1. <<f.resume>> \in Seq(Slot)
      BY <1>3
    <3> QED
      BY <3>1, Zenon
  <2>5. Len(one) = 1 /\ one[1] = f.resume
    BY <2>4
  <2>6. PICK t \in Seq(Slot) : t = one \o q
    BY SavedOnTop
  <2>7. stack = f.below \o t
    <3>1. PICK b \in Seq(Slot) : b = f.below
      BY <1>3
    <3>2. (b \o one) \o q = b \o (one \o q)
      BY ConcatAssociative, SMTT(30)
    <3> QED
      BY <1>4, <2>3, <2>4, <2>6, <3>1, <3>2, Zenon DEF Entered
  <2>8. /\ Len(t) = 1 + Len(q) /\ t[1] = f.resume
        /\ \A i \in 1..Len(q) : t[1 + i] = q[i]
    <3>1. /\ Len(one \o q) = Len(one) + Len(q)
          /\ \A i \in 1..Len(one) : (one \o q)[i] = one[i]
          /\ \A i \in 1..Len(q) : (one \o q)[Len(one) + i] = q[i]
      BY SavedOnTop
    <3>2. /\ Len(t) = 1 + Len(q) /\ \A i \in 1..1 : t[i] = one[i]
          /\ \A i \in 1..Len(q) : t[1 + i] = q[i]
      BY <2>5, <2>6, <3>1, Zenon
    <3> QED
      BY <2>5, <3>2
  <2>9. CASE ShouldSaveA0(f.trap)
    <3>1. /\ Len(q) = 4 /\ q[1].arg = r.A0 /\ q[2].arg = r.A1
          /\ q[3].arg = r.D1 /\ q[4].arg = r.D2
      BY <1>3, <1>5, <2>3, <2>9, SavedRegisters
    <3>2. /\ Len(t) = 4 + 1 /\ t[4 + 1].arg = r.D2 /\ t[4].arg = r.D1
          /\ t[4 - 1].arg = r.A1 /\ t[4 - 2].arg = r.A0
      BY <2>8, <3>1
    <3> QED
      BY <2>2, <2>7, <2>8, <2>9, <3>2
  <2>10. CASE ~ShouldSaveA0(f.trap)
    <3>1. /\ Len(q) = 3 /\ q[1].arg = r.A1 /\ q[2].arg = r.D1 /\ q[3].arg = r.D2
      BY <1>3, <1>5, <2>3, <2>10, SavedRegisters
    <3>2. /\ Len(t) = 3 + 1 /\ t[3 + 1].arg = r.D2 /\ t[3].arg = r.D1
          /\ t[3 - 1].arg = r.A1
      BY <2>8, <3>1
    <3>3. /\ regs' = [D2 |-> t[3 + 1].arg, D1 |-> t[3].arg, A1 |-> t[3 - 1].arg,
                      A0 |-> IF 3 = 4 THEN t[3 - 2].arg ELSE regs.A0]
          /\ stack' = f.below /\ GoTo(t[1])
      BY <2>2, <2>7, <2>10, <3>2
    <3>4. regs' = [D2 |-> r.D2, D1 |-> r.D1, A1 |-> r.A1, A0 |-> regs.A0]
      BY <3>2, <3>3
    <3> QED
      BY <2>8, <2>10, <3>3, <3>4
  <2> QED
    BY <2>9, <2>10
<1>9. regs' \in RegisterFile
  BY <1>6, <1>7, <1>8 DEF RegisterFile
<1>10. UNCHANGED <<patch_trap_addresses, native, exit_funcs, held, halted>>
  BY DEF PerformTrapExit
<1>11. HeldAddresses'
  BY <1>10, SameAddresses DEF IInv
<1>12. SameHandlers(native, native', Len(exit_funcs)) /\ Len(native') = Len(exit_funcs)
  BY <1>4, <1>10 DEF SameHandlers, AllCalling
<1>13. IInv' /\ pc' = f.resume
  BY <1>1, <1>2, <1>4, <1>7, <1>8, <1>9, <1>10, <1>11, <1>12, BackInCode
<1>14. Restored(f)
  BY <1>5, <1>8, <1>13 DEF Restored
<1> QED
  BY <1>1, <1>13, <1>14 DEF Ends

LEMMA MisledStep ==
  ASSUME IInv, PerformTrapExit, Misled
  PROVE  Lost' /\ Ends
<1>1. PICK f : f = frames[Len(frames)]
  OBVIOUS
<1>2. frames # <<>> /\ AtSystemTrap(f) /\ frames \in Seq(Frame)
  BY <1>1, WhereItIs DEF PerformTrapExit, IInv, Chain
<1>3. f \in Frame /\ f.below \in Seq(Slot) /\ f.resume \in Slot
  BY <1>1, <1>2, TopFrame, FrameTypes
<1>4. /\ regs \in RegisterFile /\ stack \in Seq(Slot) /\ stack = Entered(f)
  BY <1>2 DEF AtSystemTrap, IInv, Values
<1>5. PICK n \in Nat : n = Len(stack) /\ n >= 4
  <2>1. PICK s \in Seq(Slot), q \in Seq(Slot) : s = f.below \o <<f.resume>> /\ q = SavedOf(f)
    BY <1>3, OneOnTop, StackTypes
  <2>2. Len(s) = Len(f.below) + 1 /\ Len(f.below) \in Nat /\ Len(q) >= 3 /\ Len(q) \in Nat
    BY <1>3, <2>1, OneOnTop, LenProperties, SavedRegisters
  <2>3. Len(stack) = Len(s) + Len(q)
    BY <1>4, <2>1, ConcatProperties DEF Entered
  <2> QED
    BY <2>2, <2>3
<1>6. \A i \in 1..n : stack[i] \in Slot /\ stack[i].arg \in Nat
  <2>1. \A i \in 1..n : stack[i] \in Slot
    BY <1>4, <1>5, ElementOfSeq
  <2> QED
    BY <2>1 DEF Slot
<1>7. /\ regs' = [D2 |-> stack[n].arg, D1 |-> stack[n - 1].arg, A1 |-> stack[n - 2].arg,
                  A0 |-> IF ShouldSaveA0(regs.D1) THEN stack[n - 3].arg ELSE regs.A0]
      /\ stack' = SubSeq(stack, 1, n - (IF ShouldSaveA0(regs.D1) THEN 4 ELSE 3) - 1)
      /\ pc' = Astray /\ UNCHANGED <<frames, patch_trap_addresses, native, exit_funcs, held, halted>>
  <2>1. CASE ShouldSaveA0(regs.D1)
    BY <1>5, <2>1 DEF PerformTrapExit
  <2>2. CASE ~ShouldSaveA0(regs.D1)
    BY <1>5, <2>2 DEF PerformTrapExit
  <2> QED
    BY <2>1, <2>2
<1>8. regs' \in RegisterFile
  <2>1. n \in 1..n /\ n - 1 \in 1..n /\ n - 2 \in 1..n /\ n - 3 \in 1..n /\ regs.A0 \in Nat
    BY <1>4, <1>5 DEF RegisterFile
  <2> QED
    BY <1>6, <1>7, <2>1 DEF RegisterFile
<1>9. stack' \in Seq(Slot)
  <2>1. PICK k \in Int : k <= n /\ stack' = SubSeq(stack, 1, k)
    <3>1. n - 4 - 1 \in Int /\ n - 4 - 1 <= n /\ n - 3 - 1 \in Int /\ n - 3 - 1 <= n
      BY <1>5
    <3>2. CASE ShouldSaveA0(regs.D1)
      BY <1>7, <3>1, <3>2
    <3>3. CASE ~ShouldSaveA0(regs.D1)
      BY <1>7, <3>1, <3>3
    <3> QED
      BY <3>2, <3>3
  <2>2. \A i \in 1..k : stack[i] \in Slot
    BY <1>6, <2>1
  <2> QED
    BY <2>1, <2>2, SubSeqProperties
<1>10. Values' /\ HeldAddresses'
  <2>1. Astray \in Slot
    BY DEF Astray, Slot
  <2> QED
    BY <1>7, <1>8, <1>9, <2>1, SameAddresses DEF IInv, Values
<1>11. ~HandlerReady'
  <2>1. AllCalling
    BY <1>2 DEF AtSystemTrap
  <2>2. pc.at = "exit"
    BY Kinds DEF Misled
  <2>3. ~HandlerReady
    BY <1>1, <2>2, WhoIsReady DEF AtReadyHandler
  <2> QED
    BY <1>7, <2>3 DEF HandlerReady
<1>12. Len(frames) \in Nat /\ frames' = frames
  BY <1>2, <1>7, LenProperties
<1> QED
  BY <1>2, <1>7, <1>10, <1>11, <1>12 DEF Lost, Ends

(* whoever runs in a patch or a function runs above its frame               *)
LEMMA AboveItsFrame ==
  ASSUME IInv, Running, pc.arg > 0
  PROVE  \E n \in Nat \ {0}, f \in Frame :
           /\ n = Len(frames) /\ pc.arg = n /\ f = frames[n] /\ frames # <<>>
           /\ AllCalling /\ stack = Under(f, n)
<1>1. InCode /\ pc.arg = Len(frames) /\ Len(frames) \in Nat
  BY RunningInCode
<1>2. PICK n \in Nat \ {0} : n = Len(frames) /\ pc.arg = n
  BY <1>1
<1>3. frames # <<>>
  BY <1>2, EmptySeq
<1>4. frames[n] \in Frame
  BY <1>2, <1>3, TopFrame
<1>5. AllCalling /\ stack = Under(frames[n], n)
  BY <1>1, <1>2 DEF InCode, CodeStack
<1> QED
  BY <1>2, <1>3, <1>4, <1>5

LEMMA PatchReturnsStep ==
  ASSUME IInv, PatchReturns
  PROVE  IInv' /\ Ends
<1>1. Running /\ pc.arg > 0 /\ frames[pc.arg].trap # 0
  BY DEF PatchReturns, InPatch
<1>2. PICK n \in Nat \ {0}, f \in Frame :
        /\ n = Len(frames) /\ pc.arg = n /\ f = frames[n] /\ frames # <<>>
        /\ AllCalling /\ stack = Under(f, n)
  BY <1>1, AboveItsFrame
<1>3. f.trap # 0 /\ f.trap \in Words /\ f.below \in Seq(Slot) /\ f.resume \in Slot /\ Args(f.trap) \in Slot
  BY <1>1, <1>2, FrameTypes
<1>4. f.trap \in Nat
  BY FrameTypes
<1>7. regs' \in RegisterFile
  BY TrapsAssumption DEF PatchReturns
<1>8. UNCHANGED <<patch_trap_addresses, native, exit_funcs, held, halted>>
  BY DEF PatchReturns
<1>9. HeldAddresses' /\ native \in Seq(Handler)
  BY <1>8, SameAddresses DEF IInv, Values
<1>10. SameHandlers(native, native', Len(exit_funcs)) /\ Len(native') = Len(exit_funcs)
  BY <1>2, <1>8 DEF SameHandlers, AllCalling
<1>11. CASE IsToolbox(f.trap)
  <2>1. stack = f.below \o <<Args(f.trap), f.resume>>
    BY <1>2, <1>3, <1>11 DEF Under
  <2>2. Top(stack) = f.resume /\ Pop(Pop(stack)) = f.below
    BY <1>3, <2>1, TwoOnTop
  <2>3. GoTo(f.resume) /\ stack' = f.below
    BY <1>2, <1>11, <2>2 DEF PatchReturns
  <2>4. IInv' /\ pc' = f.resume
    BY <1>2, <1>3, <1>7, <1>8, <1>9, <1>10, <2>3, BackInCode
  <2>5. Restored(f)
    BY <1>11, <2>3, <2>4 DEF Restored, IsSystem
  <2> QED
    BY <1>2, <2>4, <2>5 DEF Ends
<1>12. CASE IsSystem(f.trap)
  <2>1. Entered(f) \in Seq(Slot) /\ ExitAddress \in Slot
    BY StackTypes, SlotsAreSlots
  <2>2. stack = Entered(f) \o <<ExitAddress>>
    BY <1>2, <1>3, <1>12 DEF Under, IsSystem
  <2>3. Top(stack) = ExitAddress /\ Pop(stack) = Entered(f)
    BY <2>1, <2>2, OneOnTop
  <2>4. GoTo(ExitAddress) /\ stack' = Entered(f)
    BY <1>2, <1>12, <2>3 DEF PatchReturns, IsSystem
  <2>5. pc' = ExitAddress /\ frames' = frames
    BY <2>4, Kinds DEF GoTo
  <2>6. AtSystemTrap(f)'
    <3>1. pc' # Dispatching(f.trap)
      BY <2>5, Kinds
    <3> QED
      BY <1>2, <1>3, <1>8, <1>12, <2>4, <2>5, <3>1 DEF AtSystemTrap, AllCalling
  <2>7. Values'
    BY <1>7, <1>8, <2>1, <2>4, <2>5 DEF IInv, Values
  <2>8. Located'
    BY <1>2, <2>5, <2>6 DEF Located
  <2>9. IInv'
    BY <1>8, <1>9, <2>5, <2>7, <2>8 DEF IInv
  <2> QED
    BY <1>2, <2>5, <2>9 DEF Ends
<1> QED
  BY <1>11, <1>12 DEF IsSystem

(* chaining reaches the stub of the patch's own trap, or a system trap's    *)
LEMMA ChainedTo ==
  ASSUME IInv, HoldsOriginal
  PROVE  \E n \in Nat \ {0}, f \in Frame :
           /\ n = Len(frames) /\ pc.arg = n /\ f = frames[n] /\ frames # <<>>
           /\ AllCalling /\ stack = Under(f, n)
           /\ f.trap # 0 /\ Original = held[f.trap] /\ Original \in Slot
           /\ \/ IsToolbox(f.trap) /\ Original = OwnAddress(f.trap)
              \/ Original.at = "system_stub"
<1>1. /\ Running /\ pc.arg > 0 /\ frames[pc.arg].trap # 0
      /\ frames[pc.arg].trap \in DOMAIN held /\ IsNative(Original)
  BY DEF HoldsOriginal, InPatch
<1>2. PICK n \in Nat \ {0}, f \in Frame :
        /\ n = Len(frames) /\ pc.arg = n /\ f = frames[n] /\ frames # <<>>
        /\ AllCalling /\ stack = Under(f, n)
  BY <1>1, AboveItsFrame
<1>3. f.trap # 0 /\ f.trap \in Words /\ f.trap \in DOMAIN held /\ Original = held[f.trap]
  BY <1>1, <1>2, FrameTypes DEF Original
<1>4. Found(f.trap, Original)
  BY <1>3 DEF IInv, HeldAddresses, Addresses
<1>5. Original \in Slot /\ (Original.at = "toolbox_stub" => OwnStub(f.trap, Original))
  BY <1>3, <1>4 DEF Found
<1>6. ASSUME Original.at = "toolbox_stub"
      PROVE  IsToolbox(f.trap) /\ Original = OwnAddress(f.trap)
  <2>1. PICK i : i = f.trap % 1024
    OBVIOUS
  <2>2. IsToolbox(f.trap) /\ Original.arg = i
    BY <1>5, <1>6, <2>1 DEF OwnStub
  <2>3. Original = Stub("toolbox_stub", i)
    BY <1>5, <1>6, <2>2 DEF Slot, Stub
  <2> QED
    BY <2>1, <2>2, <2>3 DEF OwnAddress
<1>7. Original.at \in {"toolbox_stub", "system_stub"}
  BY <1>1 DEF IsNative
<1> QED
  BY <1>2, <1>3, <1>5, <1>6, <1>7

LEMMA ChainByJumpStep ==
  ASSUME IInv, ChainByJump
  PROVE  IInv' /\ Ends
<1>1. PICK n \in Nat \ {0}, f \in Frame :
        /\ n = Len(frames) /\ pc.arg = n /\ f = frames[n] /\ frames # <<>>
        /\ AllCalling /\ stack = Under(f, n)
        /\ f.trap # 0 /\ Original = held[f.trap] /\ Original \in Slot
        /\ \/ IsToolbox(f.trap) /\ Original = OwnAddress(f.trap)
           \/ Original.at = "system_stub"
  BY ChainedTo DEF ChainByJump
<1>2. /\ pc' = Original
      /\ UNCHANGED <<stack, regs, patch_trap_addresses, native, exit_funcs, held, frames, halted>>
  BY DEF ChainByJump
<1>3. Values' /\ HeldAddresses'
  BY <1>1, <1>2, SameAddresses DEF IInv, Values
<1>4. AllCalling'
  BY <1>1, <1>2 DEF AllCalling
<1>5. Located'
  <2>1. CASE IsToolbox(f.trap) /\ Original = OwnAddress(f.trap)
    <3>1. stack' = f.below \o <<Args(f.trap), f.resume>>
      BY <1>1, <1>2, <2>1, Zenon DEF Under
    <3>2. AtToolboxTrap(f)'
      BY <1>1, <1>2, <1>4, <2>1, <3>1 DEF AtToolboxTrap
    <3> QED
      BY <1>1, <1>2, <3>2, Zenon DEF Located
  <2>2. CASE Original.at = "system_stub"
    BY <1>2, <1>4, <2>2 DEF Located, AtSystemStub
  <2> QED
    BY <1>1, <2>1, <2>2
<1>6. IInv'
  BY <1>2, <1>3, <1>5 DEF IInv
<1>7. Ends
  <2>1. Len(frames) = n /\ Len(frames') = n
    BY <1>1, <1>2
  <2> QED
    BY <2>1 DEF Ends
<1> QED
  BY <1>6, <1>7

LEMMA ChainByCallStep ==
  ASSUME IInv, ChainByCall
  PROVE  IInv' /\ Ends
<1>1. PICK n \in Nat \ {0}, f \in Frame :
        /\ n = Len(frames) /\ pc.arg = n /\ f = frames[n] /\ frames # <<>>
        /\ AllCalling /\ stack = Under(f, n)
        /\ f.trap # 0 /\ Original = held[f.trap] /\ Original \in Slot
        /\ \/ IsToolbox(f.trap) /\ Original = OwnAddress(f.trap)
           \/ Original.at = "system_stub"
  BY ChainedTo DEF ChainByCall
<1>2. /\ pc' = Original
      /\ UNCHANGED <<regs, patch_trap_addresses, native, exit_funcs, held, halted>>
  BY DEF ChainByCall
<1>3. Running /\ stack \in Seq(Slot) /\ Code(n) \in Slot
  BY SlotsAreSlots DEF ChainByCall, HoldsOriginal, InPatch, IInv, Values
<1>4. f.trap \in Words /\ Args(f.trap) \in Slot
  BY <1>1, FrameTypes
<1>5. PICK g \in Frame :
        g = [trap |-> f.trap, resume |-> Code(pc.arg), below |-> stack, regs |-> regs]
  BY <1>3, <1>4, TrapFrame
<1>6. g.trap = f.trap /\ g.resume = Code(n) /\ g.below = stack
  BY <1>1, <1>5
<1>7. frames' = Append(frames, g)
  BY <1>1, <1>5 DEF ChainByCall
<1>8. /\ Chain(frames') /\ Len(frames') = n + 1 /\ frames'[n + 1] = g
      /\ \E o \in Seq(Nat) : Suspension(frames', native, exit_funcs, o)
  BY <1>1, <1>3, <1>4, <1>6, <1>7, TrapFrame
<1>9. /\ stack' \in Seq(Slot)
      /\ IsToolbox(f.trap) => stack' = g.below \o <<Args(f.trap), g.resume>>
  <2>1. CASE IsToolbox(f.trap)
    <3>1. stack' = (stack \o <<Args(f.trap)>>) \o <<Code(n)>>
      BY <1>1, <2>1 DEF ChainByCall
    <3>2. stack' = stack \o <<Args(f.trap), Code(n)>> /\ stack' \in Seq(Slot)
      <4>1. PICK a \in Slot, c \in Slot : a = Args(f.trap) /\ c = Code(n)
        BY <1>3, <1>4
      <4>2. stack \o <<a, c>> = (stack \o <<a>>) \o <<c>> /\ stack \o <<a, c>> \in Seq(Slot)
        BY <1>3, OneByOne, TwoOnTop, Zenon
      <4> QED
        BY <3>1, <4>1, <4>2, Zenon
    <3> QED
      BY <1>6, <3>2
  <2>2. CASE ~IsToolbox(f.trap)
    <3>1. stack' = (stack \o <<>>) \o <<Code(n)>>
      BY <1>1, <2>2 DEF ChainByCall
    <3>2. stack \o <<>> = stack
      BY <1>3, ConcatEmptySeq
    <3> QED
      BY <1>3, <2>2, <3>1, <3>2, OneOnTop
  <2> QED
    BY <2>1, <2>2
<1>10. Values' /\ HeldAddresses'
  BY <1>1, <1>2, <1>9, SameAddresses DEF IInv, Values
<1>11. AllCalling' /\ frames' # <<>>
  <2>1. AllCalling'
    BY <1>1, <1>2 DEF AllCalling
  <2>2. Len(frames') = n + 1
    BY <1>8
  <2> QED
    BY <2>1, <2>2, EmptySeq
<1>12. Located'
  <2>1. CASE IsToolbox(f.trap) /\ Original = OwnAddress(f.trap)
    <3>1. AtToolboxTrap(g)'
      BY <1>1, <1>2, <1>6, <1>9, <1>11, <2>1 DEF AtToolboxTrap
    <3> QED
      BY <1>8, <1>11, <3>1 DEF Located
  <2>2. CASE Original.at = "system_stub"
    BY <1>2, <1>11, <2>2 DEF Located, AtSystemStub
  <2> QED
    BY <1>1, <2>1, <2>2
<1>13. IInv'
  BY <1>2, <1>8, <1>10, <1>12 DEF IInv
<1>14. Ends
  <2>1. Len(frames) = n /\ Len(frames') = n + 1
    BY <1>1, <1>8
  <2> QED
    BY <2>1 DEF Ends
<1> QED
  BY <1>13, <1>14

LEMMA FunctionReturnsStep ==
  ASSUME IInv, FunctionReturns
  PROVE  IInv' /\ Ends
<1>1. Running /\ pc.arg > 0 /\ frames[pc.arg].trap = 0
  BY DEF FunctionReturns, InFunction
<1>2. PICK n \in Nat \ {0}, f \in Frame :
        /\ n = Len(frames) /\ pc.arg = n /\ f = frames[n] /\ frames # <<>>
        /\ AllCalling /\ stack = Under(f, n)
  BY <1>1, AboveItsFrame
<1>3. f.trap = 0 /\ f.below \in Seq(Slot) /\ f.resume \in Slot
  BY <1>1, <1>2, FrameTypes
<1>4. Placeholder(n) \in Slot /\ Args(0) \in Slot /\ EndFunctionCall \in Slot
  BY SlotsAreSlots
<1>5. stack = f.below \o <<f.resume, Placeholder(n), Args(0), EndFunctionCall>>
  BY <1>2, <1>3 DEF Under
<1>6. Top(stack) = EndFunctionCall /\ Pop(Pop(stack)) = f.below \o <<f.resume, Placeholder(n)>>
  <2>1. PICK b \in Seq(Slot), r \in Slot, p \in Slot, z \in Slot, e \in Slot :
          b = f.below /\ r = f.resume /\ p = Placeholder(n) /\ z = Args(0) /\ e = EndFunctionCall
    BY <1>3, <1>4
  <2>2. FourAbove(stack, b, r, p, z, e)
    BY <1>5, <2>1, Zenon DEF FourAbove
  <2>3. Top(stack) = e /\ Pop(Pop(stack)) = b \o <<r, p>>
    BY <2>2, FourOnTop
  <2> QED
    BY <2>1, <2>3, Zenon
<1>7. /\ pc' = EndFunctionCall /\ stack' = f.below \o <<f.resume, Placeholder(n)>>
      /\ UNCHANGED <<patch_trap_addresses, native, exit_funcs, held, frames, halted>>
  BY <1>6 DEF FunctionReturns
<1>8. regs' \in RegisterFile
  BY TrapsAssumption DEF FunctionReturns
<1>9. Values' /\ HeldAddresses'
  <2>1. stack' \in Seq(Slot)
    BY <1>3, <1>4, <1>7, TwoOnTop
  <2> QED
    BY <1>4, <1>7, <1>8, <2>1, SameAddresses DEF IInv, Values
<1>10. AtEndOfCall(f)'
  BY <1>2, <1>3, <1>7 DEF AtEndOfCall, AllCalling
<1>11. Located'
  BY <1>2, <1>7, <1>10 DEF Located
<1>12. IInv'
  BY <1>7, <1>9, <1>11 DEF IInv
<1>13. Ends
  BY <1>2, <1>7 DEF Ends
<1> QED
  BY <1>12, <1>13

(* the native function behind the trap at kEndFunctionCallAddress           *)
LEMMA AtTheEndOfACall ==
  ASSUME IInv, frames # <<>>, NEW f, f = frames[Len(frames)], AtEndOfCall(f)
  PROVE  /\ ExitFunction = Len(native) /\ exit_funcs # <<>>
         /\ Top(stack) = Placeholder(Len(frames))
         /\ Top(Pop(stack)) = f.resume /\ Pop(Pop(stack)) = f.below
<1>1. PICK n \in Nat \ {0} : n = Len(frames)
  BY TopFrame
<1>2. f \in Frame /\ f.below \in Seq(Slot) /\ f.resume \in Slot /\ Placeholder(n) \in Slot
  BY TopFrame, FrameTypes, SlotsAreSlots
<1>3. AllCalling /\ f.trap = 0 /\ stack = f.below \o <<f.resume, Placeholder(n)>>
  BY <1>1 DEF AtEndOfCall
<1>4. /\ Top(stack) = Placeholder(n)
      /\ Top(Pop(stack)) = f.resume /\ Pop(Pop(stack)) = f.below
  BY <1>2, <1>3, TwoOnTop
<1>5. PICK o \in Seq(Nat) : Suspension(frames, native, exit_funcs, o)
  BY DEF IInv
<1>6. SameHandlers(native, native, Len(exit_funcs) - 1)
  BY DEF SameHandlers
<1>7. exit_funcs # <<>> /\ exit_funcs[Len(exit_funcs)] = Len(exit_funcs)
  BY <1>3, <1>5, <1>6, CallEnds DEF IInv, Values
<1> QED
  BY <1>1, <1>3, <1>4, <1>7 DEF AllCalling, ExitFunction, Last

(* the handler on top of the suspended ones becomes ready, or calls again   *)
Rephased(nat, after, phase) == after = [nat EXCEPT ![Len(nat)].phase = phase]

LEMMA PhaseChanged ==
  ASSUME NEW nat \in Seq(Handler), NEW c \in Nat \ {0}, Len(nat) = c,
         NEW phase \in {"calling", "ready"},
         NEW after, Rephased(nat, after, phase)
  PROVE  /\ after \in Seq(Handler) /\ Len(after) = c
         /\ after[c].phase = phase
         /\ after[c].trap = nat[c].trap /\ after[c].ret = nat[c].ret
         /\ \A i \in 1 .. c - 1 : after[i] = nat[i]
<1>1. PICK h : h = [nat[c] EXCEPT !.phase = phase]
  OBVIOUS
<1>2. nat[c] \in Handler
  BY ElementOfSeq
<1>3. h \in Handler /\ h.phase = phase /\ h.trap = nat[c].trap /\ h.ret = nat[c].ret
  BY <1>1, <1>2 DEF Handler
<1>4. after = [nat EXCEPT ![c] = h]
  BY <1>1 DEF Rephased
<1>5. after \in Seq(Handler) /\ Len(after) = c /\ after[c] = h /\ \A i \in 1 .. c - 1 : after[i] = nat[i]
  BY <1>3, <1>4, ExceptSeq
<1> QED
  BY <1>3, <1>5

LEMMA FunctionHasReturnedStep ==
  ASSUME IInv, FunctionHasReturned
  PROVE  IInv' /\ Ends
<1>1. PICK f : f = frames[Len(frames)]
  OBVIOUS
<1>2. frames # <<>> /\ AtEndOfCall(f)
  BY <1>1, WhereItIs DEF FunctionHasReturned
<1>3. PICK n \in Nat \ {0} : n = Len(frames)
  BY <1>2, TopFrame
<1>4. f \in Frame /\ f.below \in Seq(Slot) /\ f.resume \in Slot
  BY <1>1, <1>2, TopFrame, FrameTypes
<1>5. AllCalling /\ f.trap = 0
  BY <1>2 DEF AtEndOfCall
<1>6. /\ ExitFunction = Len(native) /\ exit_funcs # <<>>
      /\ Top(Pop(stack)) = f.resume /\ Pop(Pop(stack)) = f.below
  BY <1>1, <1>2, AtTheEndOfACall
<1>7. /\ pc' = f.resume /\ stack' = f.below /\ frames' = Front(frames)
      /\ native' = [native EXCEPT ![Len(native)].phase = "ready"]
      /\ exit_funcs' = Front(exit_funcs)
      /\ UNCHANGED <<halted, regs, patch_trap_addresses, held>>
  BY <1>6 DEF FunctionHasReturned
<1>8. native \in Seq(Handler) /\ exit_funcs \in Seq(Nat)
  BY DEF IInv, Values
<1>9. PICK c \in Nat \ {0} : c = Len(exit_funcs) /\ c = Len(native)
  BY <1>5, <1>6, <1>8, Shortened DEF AllCalling
<1>10. PICK after : after = native'
  OBVIOUS
<1>11. /\ after \in Seq(Handler) /\ Len(after) = c
       /\ after[c].phase = "ready" /\ after[c].trap = native[c].trap /\ after[c].ret = native[c].ret
       /\ \A i \in 1 .. c - 1 : after[i] = native[i]
  <2>1. Rephased(native, after, "ready")
    BY <1>7, <1>10 DEF Rephased
  <2>2. Len(native) = c
    BY <1>9
  <2> QED
    BY <1>8, <2>1, <2>2, PhaseChanged
<1>12. SameHandlers(native, after, Len(exit_funcs) - 1)
  BY <1>9, <1>11 DEF SameHandlers
<1>13. PICK o \in Seq(Nat) : Suspension(frames, native, exit_funcs, o)
  BY DEF IInv
<1>14. /\ Chain(Front(frames)) /\ Front(frames) # <<>>
       /\ f.below = frames[Len(frames) - 1].below
       /\ f.resume.at \in {"dispatch", "toolbox_stub"}
       /\ frames[Len(frames) - 1].trap \in Callbacks
       /\ Describes(native[Len(exit_funcs)], frames[Len(frames) - 1])
       /\ \E p \in Seq(Nat) : Suspension(Front(frames), after, Front(exit_funcs), p)
  BY <1>1, <1>2, <1>5, <1>8, <1>12, <1>13, CallEnds DEF IInv
<1>15. PICK g : g = frames[n - 1]
  OBVIOUS
<1>16. PICK fs \in Seq(Frame) : fs = Front(frames)
  BY <1>2, Shortened DEF IInv, Chain
<1>17. fs # <<>> /\ fs[Len(fs)] = g
  <2>1. Len(fs) = n - 1 /\ \A i \in 1 .. n - 1 : fs[i] = frames[i]
    BY <1>2, <1>3, <1>16, Shortened DEF IInv, Chain
  <2>2. fs # <<>>
    BY <1>14, <1>16
  <2>3. Len(fs) \in Nat \ {0}
    BY <2>2, Shortened
  <2>4. n - 1 \in 1 .. n - 1
    BY <2>1, <2>3
  <2> QED
    BY <1>15, <2>1, <2>2, <2>4
<1>18. /\ g.trap \in Callbacks /\ Describes(after[c], g) /\ f.below = g.below
  <2>1. Describes(native[c], g) /\ g.trap \in Callbacks /\ f.below = g.below
    BY <1>3, <1>9, <1>14, <1>15
  <2> QED
    BY <1>11, <2>1 DEF Describes
<1>19. PICK less \in Seq(Nat) : less = Front(exit_funcs) /\ Len(less) = c - 1
  BY <1>6, <1>8, <1>9, Shortened
<1>20. AtReadyHandler(g)'
  <2>1. Len(native') = Len(exit_funcs') + 1
    BY <1>7, <1>10, <1>11, <1>19
  <2>2. native'[Len(native')].phase = "ready" /\ Describes(native'[Len(native')], g)
    BY <1>10, <1>11, <1>18
  <2>3. pc'.at \in {"dispatch", "toolbox_stub"} /\ stack' = g.below
    BY <1>7, <1>14, <1>18
  <2> QED
    BY <1>18, <2>1, <2>2, <2>3 DEF AtReadyHandler
<1>21. Located'
  BY <1>7, <1>16, <1>17, <1>20 DEF Located
<1>22. Values' /\ HeldAddresses'
  BY <1>4, <1>7, <1>10, <1>11, <1>19, SameAddresses DEF IInv, Values
<1>23. Chain(frames') /\ \E p \in Seq(Nat) : Suspension(frames', native', exit_funcs', p)
  BY <1>7, <1>10, <1>14
<1>24. IInv'
  BY <1>21, <1>22, <1>23 DEF IInv
<1>25. Restored(f)
  BY <1>5, <1>7 DEF Restored
<1> QED
  BY <1>1, <1>24, <1>25 DEF Ends

LEMMA HandlerResumesStep ==
  ASSUME IInv, HandlerResumes
  PROVE  IInv' /\ Ends
<1>1. PICK f : f = frames[Len(frames)]
  OBVIOUS
<1>2. frames # <<>> /\ AtReadyHandler(f)
  BY <1>1, WhoIsReady DEF HandlerResumes
<1>3. PICK ret : ret = Returning(f.trap, f.resume)
  OBVIOUS
<1>4. PICK handler : handler = native[Len(native)]
  OBVIOUS
<1>5. handler.trap = f.trap /\ handler.ret = ret /\ f.trap \in Callbacks /\ stack = f.below
  BY <1>2, <1>3, <1>4 DEF AtReadyHandler, Describes
<1>6. f.trap # 0 /\ ~IsSystem(f.trap)
  BY <1>5, CallbacksAreToolboxTraps, TrapWords DEF IsSystem
<1>7. /\ HandlerResult(handler.trap) /\ Finish(handler.trap, handler.from, handler.ret, stack)
      /\ native' = Front(native)
      /\ UNCHANGED <<patch_trap_addresses, exit_funcs, held, halted>>
  BY <1>4 DEF HandlerResumes, Last
<1>8. regs' = regs /\ GoTo(ret) /\ stack' = f.below
  BY <1>5, <1>6, <1>7 DEF HandlerResult, Finish, IsSystem
<1>9. ret = f.resume \/ (f.trap = LoadSeg /\ ret = Entry(f.resume.arg))
  BY <1>3 DEF Returning
<1>10. native \in Seq(Handler) /\ exit_funcs \in Seq(Nat) /\ regs \in RegisterFile
  BY DEF IInv, Values
<1>11. PICK c \in Nat : c = Len(exit_funcs) /\ Len(native) = c + 1
  BY <1>2, <1>10, LenProperties DEF AtReadyHandler
<1>12. PICK after : after = native'
  OBVIOUS
<1>13. after \in Seq(Handler) /\ Len(after) = c /\ \A i \in 1..c : after[i] = native[i]
  <2>1. native # <<>>
    BY <1>11, EmptySeq
  <2>2. /\ Front(native) \in Seq(Handler) /\ Len(Front(native)) = Len(native) - 1
        /\ \A i \in 1 .. Len(native) - 1 : Front(native)[i] = native[i]
    BY <1>10, <2>1, Shortened
  <2>3. after = Front(native) /\ Len(native) - 1 = c
    BY <1>7, <1>11, <1>12
  <2> QED
    BY <2>2, <2>3
<1>14. SameHandlers(native, native', Len(exit_funcs))
  BY <1>11, <1>12, <1>13 DEF SameHandlers
<1>15. HeldAddresses'
  BY <1>7, SameAddresses DEF IInv
<1>16. IInv' /\ pc' = ret
  BY <1>1, <1>2, <1>6, <1>7, <1>8, <1>9, <1>10, <1>11, <1>12, <1>13, <1>14, <1>15, BackInCode
<1>17. Restored(f)
  BY <1>6, <1>8, <1>9, <1>16 DEF Restored
<1> QED
  BY <1>1, <1>16, <1>17 DEF Ends

LEMMA HandlerCallsAgainStep ==
  ASSUME IInv, HandlerCallsAgain
  PROVE  IInv' /\ Ends
<1>1. PICK f : f = frames[Len(frames)]
  OBVIOUS
<1>2. frames # <<>> /\ AtReadyHandler(f)
  BY <1>1, WhoIsReady DEF HandlerCallsAgain
<1>3. native \in Seq(Handler) /\ exit_funcs \in Seq(Nat)
  BY DEF IInv, Values
<1>4. PICK c \in Nat : c = Len(exit_funcs) /\ Len(native) = c + 1
  BY <1>2, <1>3, LenProperties DEF AtReadyHandler
<1>5. native' = [native EXCEPT ![Len(native)].phase = "calling"]
  BY DEF HandlerCallsAgain
<1>6. PICK after : after = native'
  OBVIOUS
<1>7. /\ after \in Seq(Handler) /\ Len(after) = c + 1
      /\ after[c + 1].phase = "calling"
      /\ after[c + 1].trap = native[c + 1].trap /\ after[c + 1].ret = native[c + 1].ret
      /\ \A i \in 1..c : after[i] = native[i]
  <2>1. c + 1 \in Nat \ {0} /\ (c + 1) - 1 = c
    OBVIOUS
  <2>2. Rephased(native, after, "calling")
    BY <1>5, <1>6 DEF Rephased
  <2>3. PICK d \in Nat \ {0} : d = c + 1 /\ d - 1 = c
    BY <2>1
  <2>4. Len(native) = d
    BY <1>4, <2>3
  <2>5. /\ after \in Seq(Handler) /\ Len(after) = d
        /\ after[d].phase = "calling"
        /\ after[d].trap = native[d].trap /\ after[d].ret = native[d].ret
        /\ \A i \in 1 .. d - 1 : after[i] = native[i]
    BY <1>3, <2>2, <2>4, PhaseChanged
  <2> QED
    BY <2>3, <2>5
<1>8. Suspends(native, after, c, f)
  <2>1. Describes(native[c + 1], f)
    BY <1>2, <1>4 DEF AtReadyHandler
  <2>2. Describes(after[c + 1], f)
    BY <1>7, <2>1 DEF Describes
  <2> QED
    BY <1>7, <2>2 DEF Suspends, SameHandlers
<1>9. CallsFunction(f)
  <2>1. f.trap \in Callbacks /\ pc.at \in {"dispatch", "toolbox_stub"} /\ stack = f.below
    BY <1>2 DEF AtReadyHandler
  <2>2. /\ frames' = Append(frames, [trap |-> 0, resume |-> pc, below |-> stack, regs |-> regs])
        /\ stack' = stack \o <<pc, Placeholder(Len(frames) + 1), Args(0), EndFunctionCall>>
        /\ pc' = Code(Len(frames) + 1)
        /\ exit_funcs' = Append(exit_funcs, Len(native))
        /\ UNCHANGED <<regs, patch_trap_addresses, held, halted>>
    BY DEF HandlerCallsAgain, Level
  <2> QED
    BY <1>4, <1>6, <1>7, <1>8, <2>1, <2>2 DEF CallsFunction
<1> QED
  BY <1>1, <1>2, <1>9, CallStep DEF Ends
-----------------------------------------------------------------------------
(* The inductive invariant, and what follows from it                        *)

LEMMA TrapManagerInitially ==
  ASSUME TrapManagerInit
  PROVE  IInv
<1>1. /\ pc = Code(0) /\ stack = <<Bottom>> /\ regs \in Registers
      /\ native = <<>> /\ exit_funcs = <<>> /\ held = [t \in {} |-> Patch]
      /\ frames = <<>> /\ halted = FALSE
      /\ patch_trap_addresses \in {[t \in P |-> Patch] : P \in SUBSET (Packs \cap Traps)}
  BY DEF TrapManagerInit
<1>2. Len(frames) = 0 /\ Len(native) = 0 /\ Len(exit_funcs) = 0
  BY <1>1
<1>3. Values
  <2>1. Code(0) \in Slot /\ Bottom \in Slot
    BY SlotsAreSlots
  <2>2. stack \in Seq(Slot)
    BY <1>1, <2>1
  <2>3. native \in Seq(Handler) /\ exit_funcs \in Seq(Nat)
    BY <1>1
  <2>4. regs \in RegisterFile /\ halted \in BOOLEAN
    <3>1. Registers \subseteq RegisterFile
      BY TrapsAssumption
    <3> QED
      BY <1>1, <3>1, Zenon
  <2>5. pc \in Slot
    BY <1>1, <2>1
  <2> QED
    BY <2>2, <2>3, <2>4, <2>5 DEF Values
<1>4. HeldAddresses
  BY <1>1 DEF HeldAddresses, Patches, Addresses
<1>5. Chain(frames)
  <2>1. frames \in Seq(Frame) /\ 1..Len(frames) = {}
    BY <1>1, <1>2
  <2> QED
    BY <2>1 DEF Chain
<1>6. \E o \in Seq(Nat) : Suspension(frames, native, exit_funcs, o)
  <2>1. PICK o \in Seq(Nat) : o = <<>>
    <3>1. <<>> \in Seq(Nat)
      OBVIOUS
    <3> QED
      BY <3>1, Zenon
  <2>2. Len(o) = 0 /\ 1..Len(o) = {} /\ 1..Len(frames) = {}
    BY <1>2, <2>1
  <2> QED
    BY <1>2, <2>2 DEF Suspension
<1>7. InCode
  BY <1>1, <1>2 DEF InCode, AllCalling, CodeStack
<1> QED
  BY <1>3, <1>4, <1>5, <1>6, <1>7 DEF IInv, Located

LEMMA TrapManagerStep ==
  ASSUME IInv, TrapManagerNext
  PROVE  Ends /\ (IInv' \/ (Misled /\ Lost'))
<1>1. ASSUME NEW word \in Traps, PerformTrapEntry(word)
      PROVE  Ends /\ IInv'
  BY <1>1, EntryStep DEF Ends
<1>2. CASE PerformTrapDispatch
  BY <1>2, DispatchStep
<1>3. CASE PerformTrapExit
  BY <1>3, ExitStep, MisledStep
<1>4. CASE PatchReturns
  BY <1>4, PatchReturnsStep
<1>5. CASE ChainByJump
  BY <1>5, ChainByJumpStep
<1>6. CASE ChainByCall
  BY <1>6, ChainByCallStep
<1>7. CASE FunctionReturns
  BY <1>7, FunctionReturnsStep
<1>8. CASE FunctionHasReturned
  BY <1>8, FunctionHasReturnedStep
<1>9. CASE HandlerResumes
  BY <1>9, HandlerResumesStep
<1>10. CASE HandlerCallsAgain
  BY <1>10, HandlerCallsAgainStep
<1> QED
  BY <1>1, <1>2, <1>3, <1>4, <1>5, <1>6, <1>7, <1>8, <1>9, <1>10 DEF TrapManagerNext

LEMMA LostForGood ==
  ASSUME Lost
  PROVE  ~TrapManagerNext
<1>1. pc.at = "astray" /\ ~HandlerReady
  BY DEF Lost, Astray
<1>2. ~Running /\ ~AtDispatch /\ pc # ExitAddress /\ pc # EndFunctionCall
  BY <1>1, Kinds DEF Running, AtDispatch
<1>3. ~InPatch /\ ~InFunction
  BY <1>2 DEF InPatch, InFunction
<1> QED
  BY <1>1, <1>2, <1>3
  DEF TrapManagerNext, PerformTrapEntry, PerformTrapDispatch, PerformTrapExit, PatchReturns,
      ChainByJump, ChainByCall, HoldsOriginal, FunctionReturns, FunctionHasReturned,
      HandlerResumes, HandlerCallsAgain

(* Throughout a run every address, stack and suspended handler is as IInv   *)
(* describes it, until a patch of a system trap has misled PerformTrapExit. *)
THEOREM TrapManagerInvariant == TrapManagerSpec => [](IInv \/ Lost)
<1>1. TrapManagerInit => IInv \/ Lost
  BY TrapManagerInitially
<1>2. (IInv \/ Lost) /\ [TrapManagerNext]_tmVars => (IInv \/ Lost)'
  <2>1. ASSUME IInv, UNCHANGED tmVars
        PROVE  IInv'
    <3>1. halted' \in BOOLEAN
      BY <2>1 DEF tmVars, IInv, Values
    <3> QED
      BY <2>1, <3>1, Unmoved DEF tmVars
  <2>2. ASSUME Lost, UNCHANGED tmVars
        PROVE  Lost'
    BY <2>2, SameAddresses DEF tmVars, Lost, Values, HandlerReady
  <2> QED
    BY <2>1, <2>2, TrapManagerStep, LostForGood
<1> QED
  BY <1>1, <1>2, PTL DEF TrapManagerSpec

(* The record of the calls under way is well-formed, and when an emulated   *)
(* function returns, the exit function that runs is the one of the innermost*)
(* CallFunction and the result on the stack is its own.                     *)
THEOREM CallsEndWhereTheyBegan == TrapManagerSpec => []CallsNest
<1>1. ASSUME Values, HeldAddresses, frames \in Seq(Frame)
      PROVE  TrapManagerTypeOK
  <2>2. Frame \subseteq [trap : Nat, resume : Slot, below : Seq(Slot), regs : RegisterFile]
    <3>1. Words \cup {0} \subseteq Nat
      BY DEF Words, ATrap
    <3> QED
      BY <3>1 DEF Frame
  <2>3. frames \in Seq([trap : Nat, resume : Slot, below : Seq(Slot), regs : RegisterFile])
    BY <1>1, <2>2, SeqMonotonic
  <2>4. \A t \in DOMAIN held : held[t] \in Slot
    BY <1>1 DEF HeldAddresses, Addresses, Found
  <2> QED
    BY <1>1, <2>3, <2>4 DEF TrapManagerTypeOK, Values, HeldAddresses, Patches, Handler
<1>2. ASSUME IInv
      PROVE  CallsEndInOrder
  <2>1. SUFFICES ASSUME pc = EndFunctionCall
                 PROVE  ExitFunction = Len(native) /\ Top(stack) = Placeholder(Len(frames))
    BY DEF CallsEndInOrder, Level
  <2>2. PICK f : f = frames[Len(frames)]
    OBVIOUS
  <2>3. frames # <<>> /\ AtEndOfCall(f)
    BY <1>2, <2>1, <2>2, WhereItIs
  <2> QED
    BY <1>2, <2>2, <2>3, AtTheEndOfACall
<1>3. Lost => CallsEndInOrder
  BY DEF Lost, Astray, EndFunctionCall, CallsEndInOrder
<1>4. IInv \/ Lost => CallsNest
  BY <1>1, <1>2, <1>3 DEF CallsNest, IInv, Lost, Chain
<1> QED
  BY <1>4, TrapManagerInvariant, PTL

(* The native handler of a toolbox trap finds its own arguments below its   *)
(* return address, whether the application's trap, a patch's jump or its    *)
(* call reached it.                                                         *)
THEOREM HandlersAlwaysFindTheirArguments ==
  TrapManagerSpec => []HandlersFindTheirArguments
<1>1. ASSUME IInv
      PROVE  HandlersFindTheirArguments
  <2>1. SUFFICES ASSUME AtDispatch, ToToolbox
                 PROVE  stack[Len(stack) - 1] = Args(TrapOp)
    BY DEF HandlersFindTheirArguments
  <2>2. PICK f : f = frames[Len(frames)]
    OBVIOUS
  <2>3. ~AtSystemStub
    BY <2>1 DEF AtSystemStub, ToToolbox
  <2>4. ~(AtSystemTrap(f) /\ pc = Dispatching(f.trap))
    BY <2>1, Kinds DEF AtSystemTrap, ToToolbox, IsSystem
  <2>5. frames # <<>> /\ AtToolboxTrap(f)
    BY <1>1, <2>1, <2>2, <2>3, <2>4, WhereItIs
  <2> QED
    BY <1>1, <2>2, <2>5, AtToolboxHandler
<1>2. Lost => HandlersFindTheirArguments
  BY DEF Lost, Astray, AtDispatch, HandlersFindTheirArguments
<1> QED
  BY <1>1, <1>2, TrapManagerInvariant, PTL

LEMMA KnownPlaces ==
  ASSUME IInv'
  PROVE  pc'.at \in Destinations
<1>1. Located'
  BY DEF IInv
<1>2. \/ InCode' \/ AtSystemStub'
      \/ \E f : \/ pc' \in {Dispatching(f.trap), OwnAddress(f.trap), ExitAddress}
                \/ pc' = EndFunctionCall
                \/ pc'.at \in {"dispatch", "toolbox_stub"}
  BY <1>1 DEF Located, AtToolboxTrap, AtSystemTrap, AtEndOfCall, AtReadyHandler
<1> QED
  BY <1>2, Kinds DEF InCode, AtSystemStub, Destinations

(* A trap or a call that ends goes back to where it was made, with the stack*)
(* it found and, for a system trap, A1, D1 and D2; and control never reaches*)
(* a slot that is no address unless a patch of a system trap left a D1 with *)
(* another bit R.                                                           *)
THEOREM EverythingReturns == TrapManagerSpec => ReturnsToCaller
<1>1. (IInv \/ Lost) /\ [TrapManagerNext]_tmVars =>
        [/\ Len(frames') < Len(frames) => Restored(Last(frames))
         /\ pc'.at \notin Destinations => Misled]_tmVars
  <2>1. ASSUME IInv, TrapManagerNext
        PROVE  /\ Len(frames') < Len(frames) => Restored(Last(frames))
               /\ pc'.at \notin Destinations => Misled
    <3>1. Ends /\ (IInv' \/ (Misled /\ Lost'))
      BY <2>1, TrapManagerStep
    <3>2. Len(frames) \in Nat /\ Len(frames') \in Nat
      BY <2>1, <3>1, LenProperties DEF IInv, Lost, Chain
    <3>3. IInv' => pc'.at \in Destinations
      BY KnownPlaces
    <3> QED
      BY <3>1, <3>2, <3>3 DEF Ends, Last
  <2> QED
    BY <2>1, LostForGood
<1> QED
  BY <1>1, TrapManagerInvariant, PTL DEF TrapManagerSpec, ReturnsToCaller
=============================================================================
