--------------------------- MODULE MemoryMapProofs ---------------------------
(***************************************************************************)
(* Proofs about FileManager and the memory under it: for memories, A5      *)
(* worlds, records and buffers of any size and any number of operations.   *)
(***************************************************************************)
EXTENDS FileManager, FiniteSetTheorems, WellFoundedInduction, TLAPS

(* Who changes what.                                                        *)
LEMMA OnlyLogRegionAccessRestricts ==
  ASSUME [FileNext]_vars
  PROVE  \/ UNCHANGED <<restrictions, restricted>>
         \/ \E record \in Records : LogRegionAccess(record)
<1>1. CASE MapNext
  BY <1>1 DEF MapNext, CpuRead, CpuWrite, Create, CreateRest, RegionWrite, Tag,
              SetA5WorldBounds, BlockMove
<1>2. CASE ~MapNext
  BY <1>2 DEF FileNext, MapUnchanged, GetVolInfo, FileCreate, Open, GetFileInfo, SetFileInfo,
              NamedTrap, SetEOF, Allocate, Close, SysEnvirons, PlainTrap, BlockTrap, ReadDateTime, Read,
              Write, vars, mapVars
<1> QED
  BY <1>1, <1>2

LEMMA OnlySegmentLoaderSizes ==
  ASSUME [FileNext]_vars
  PROVE  \/ UNCHANGED a5 /\ (halted => halted')
         \/ \E above, below \in A5Sizes : SetA5WorldBounds(above, below)
<1>1. CASE MapNext
  BY <1>1 DEF MapNext, CpuRead, CpuWrite, Create, CreateRest, RegionWrite, Tag,
              LogRegionAccess, BlockMove, Step
<1>2. CASE ~MapNext
  BY <1>2 DEF FileNext, MapUnchanged, GetVolInfo, FileCreate, Open, GetFileInfo, SetFileInfo,
              NamedTrap, SetEOF, Allocate, Close, SysEnvirons, PlainTrap, BlockTrap, ReadDateTime, Read,
              Write, vars, mapVars, Step
<1> QED
  BY <1>1, <1>2

LEMMA OnlyCreateMakesRegions ==
  ASSUME [FileNext]_vars
  PROVE  \/ UNCHANGED regions
         \/ \E r \in regions \cup {Base}, c \in Cuts :
              Create(r, c[1], c[2]) \/ CreateRest(r, c[1])
<1>1. CASE MapNext
  BY <1>1 DEF MapNext, CpuRead, CpuWrite, RegionWrite, Tag, SetA5WorldBounds,
              LogRegionAccess, BlockMove
<1>2. CASE ~MapNext
  BY <1>2 DEF FileNext, MapUnchanged, GetVolInfo, FileCreate, Open, GetFileInfo, SetFileInfo,
              NamedTrap, SetEOF, Allocate, Close, SysEnvirons, PlainTrap, BlockTrap, ReadDateTime, Read,
              Write, vars, mapVars
<1> QED
  BY <1>1, <1>2

LEMMA OnlyTransfersMoveTheTape ==
  ASSUME [FileNext]_vars
  PROVE  \/ UNCHANGED <<save_buffer, f_offset>>
         \/ \E ptr \in Params, buffer \in Blocks, n \in Transfers :
              Read(ptr, buffer, n) \/ Write(ptr, buffer, n)
BY DEF FileNext, FileUnchanged, GetVolInfo, FileCreate, Open, GetFileInfo, SetFileInfo,
       NamedTrap, SetEOF, Allocate, Close, SysEnvirons, PlainTrap, BlockTrap, ReadDateTime, vars
-----------------------------------------------------------------------------
(* A non-empty set of naturals has a least element.                         *)
LEMMA LeastElement ==
  ASSUME NEW S, S \subseteq Nat, S # {}
  PROVE  \E x \in S : \A y \in S : x <= y
<1> DEFINE R == {ss \in Nat \X Nat : ss[1] < ss[2]}
<1>1. R = OpToRel(<, Nat)
  BY Zenon DEF OpToRel
<1>2. IsWellFoundedOn(R, Nat)
  BY <1>1, NatLessThanWellFounded
<1>3. PICK x \in S : \A y \in S : ~(<<y, x>> \in R)
  BY <1>2, WFMin
<1>4. \A y, z \in Nat : y < z => <<y, z>> \in R
  OBVIOUS
<1> HIDE DEF R
<1>5. ASSUME NEW y \in S
      PROVE  x <= y
  <2>1. x \in Nat /\ y \in Nat
    OBVIOUS
  <2>2. ~(y < x)
    BY <1>3, <1>4, <2>1, Zenon
  <2> QED
    BY <2>1, <2>2
<1> QED
  BY <1>5

LEMMA Joined ==
  ASSUME NEW S, NEW s \in Seq(S), NEW t \in Seq(S)
  PROVE  /\ s \o t \in Seq(S) /\ DOMAIN (s \o t) = 1..(Len(s) + Len(t))
         /\ \A j \in 1..Len(s) : (s \o t)[j] = s[j]
         /\ \A j \in 1..Len(t) : (s \o t)[Len(s) + j] = t[j]
OBVIOUS

LEMMA Appended ==
  ASSUME NEW S, NEW s \in Seq(S), NEW e \in S
  PROVE  /\ Append(s, e) \in Seq(S) /\ Len(Append(s, e)) = Len(s) + 1
         /\ Append(s, e)[Len(s) + 1] = e
         /\ \A j \in 1..Len(s) : Append(s, e)[j] = s[j]
OBVIOUS

LEMMA RemovedEntry ==
  ASSUME NEW s \in Seq(Records), NEW i \in DOMAIN s
  PROVE  /\ RemoveAt(s, i) \in Seq(Records)
         /\ \A k \in DOMAIN s \ {i} : \E j \in DOMAIN RemoveAt(s, i) : RemoveAt(s, i)[j] = s[k]
         /\ \A j \in DOMAIN RemoveAt(s, i) : \E k \in DOMAIN s : RemoveAt(s, i)[j] = s[k]
<1>1. i \in 1..Len(s) /\ Len(s) \in Nat /\ DOMAIN s = 1..Len(s)
  OBVIOUS
<1>0. PICK head, tail : head = SubSeq(s, 1, i - 1) /\ tail = SubSeq(s, i + 1, Len(s))
  OBVIOUS
<1> DEFINE joined == head \o tail
<1>2. /\ head \in Seq(Records) /\ Len(head) = i - 1
      /\ \A j \in 1..(i - 1) : head[j] = s[j]
  BY <1>0, <1>1
<1>3. /\ tail \in Seq(Records) /\ Len(tail) = Len(s) - i
      /\ \A j \in 1..(Len(s) - i) : tail[j] = s[i + j]
  BY <1>0, <1>1
<1>4. RemoveAt(s, i) = joined
  BY <1>0 DEF RemoveAt
<1>5. /\ joined \in Seq(Records) /\ DOMAIN joined = 1..(Len(head) + Len(tail))
      /\ \A j \in 1..Len(head) : joined[j] = head[j]
      /\ \A j \in 1..Len(tail) : joined[Len(head) + j] = tail[j]
  <2>1. head \in Seq(Records) /\ tail \in Seq(Records)
    BY <1>2, <1>3
  <2> QED
    BY <2>1, Joined
<1>6. /\ joined \in Seq(Records) /\ DOMAIN joined = 1..((i - 1) + (Len(s) - i))
      /\ \A j \in 1..(i - 1) : joined[j] = head[j]
      /\ \A j \in 1..(Len(s) - i) : joined[(i - 1) + j] = tail[j]
  BY <1>2, <1>3, <1>5
<1> HIDE DEF joined
<1>7. /\ DOMAIN joined = 1..(Len(s) - 1)
      /\ \A j \in 1..(i - 1) : joined[j] = s[j]
      /\ \A j \in 1..(Len(s) - i) : joined[(i - 1) + j] = s[i + j]
  <2>1. DOMAIN joined = 1..(Len(s) - 1)
    BY <1>1, <1>6
  <2> QED
    BY <1>2, <1>3, <1>6, <2>1
<1>8. ASSUME NEW k \in DOMAIN s \ {i}
      PROVE  \E j \in DOMAIN joined : joined[j] = s[k]
  <2>1. CASE k < i
    <3>1. k \in 1..(i - 1) /\ k \in DOMAIN joined
      BY <1>1, <1>7, <2>1
    <3> QED
      BY <1>7, <3>1
  <2>2. CASE k > i
    <3>1. PICK j \in 1..(Len(s) - i) : i + j = k
      <4>1. k - i \in 1..(Len(s) - i) /\ i + (k - i) = k
        BY <1>1, <2>2
      <4> QED
        BY <4>1
    <3>2. joined[(i - 1) + j] = s[k] /\ (i - 1) + j \in DOMAIN joined
      BY <1>1, <1>7, <3>1
    <3> QED
      BY <3>2
  <2> QED
    BY <1>1, <2>1, <2>2
<1>9. ASSUME NEW j \in DOMAIN joined
      PROVE  \E k \in DOMAIN s : joined[j] = s[k]
  <2>1. CASE j < i
    <3>1. j \in 1..(i - 1) /\ j \in DOMAIN s
      BY <1>1, <1>7, <2>1
    <3> QED
      BY <1>7, <3>1
  <2>2. CASE j >= i
    <3>1. PICK l \in 1..(Len(s) - i) : (i - 1) + l = j
      <4>1. j - i + 1 \in 1..(Len(s) - i) /\ (i - 1) + (j - i + 1) = j
        BY <1>1, <1>7, <2>2
      <4> QED
        BY <4>1
    <3>2. joined[j] = s[i + l] /\ i + l \in DOMAIN s
      BY <1>1, <1>7, <3>1
    <3> QED
      BY <3>2
  <2> QED
    BY <1>1, <1>7, <2>1, <2>2
<1> QED
  BY <1>4, <1>6, <1>8, <1>9

(* The entries that stay are all but one the new record overlaps.           *)
LEMMA OthersStay ==
  ASSUME NEW entries \in Seq(Records), NEW record \in Records
  PROVE  LET kept == MaybeRemoveOverlappingEntry(entries, record)
         IN  /\ kept \in Seq(Records)
             /\ \A k \in DOMAIN entries :
                  ~Overlaps(entries[k], record) => \E j \in DOMAIN kept : kept[j] = entries[k]
             /\ \A j \in DOMAIN kept : \E k \in DOMAIN entries : kept[j] = entries[k]
<1> DEFINE hits == {i \in DOMAIN entries : Overlaps(entries[i], record)}
           kept == MaybeRemoveOverlappingEntry(entries, record)
<1>1. CASE hits = {}
  BY <1>1 DEF MaybeRemoveOverlappingEntry
<1>2. CASE hits # {}
  <2>1. PICK i \in hits : \A j \in hits : i <= j
    <3>1. hits \subseteq Nat
      OBVIOUS
    <3> HIDE DEF hits
    <3> QED
      BY <1>2, <3>1, LeastElement
  <2>2. PICK k \in hits : kept = RemoveAt(entries, k)
    BY <1>2, <2>1 DEF MaybeRemoveOverlappingEntry
  <2>3. k \in DOMAIN entries /\ Overlaps(entries[k], record)
    BY <2>2
  <2> HIDE DEF kept
  <2>4. /\ kept \in Seq(Records)
        /\ \A l \in DOMAIN entries \ {k} : \E j \in DOMAIN kept : kept[j] = entries[l]
        /\ \A j \in DOMAIN kept : \E l \in DOMAIN entries : kept[j] = entries[l]
    BY <2>2, <2>3, RemovedEntry
  <2>5. ASSUME NEW l \in DOMAIN entries, ~Overlaps(entries[l], record)
        PROVE  \E j \in DOMAIN kept : kept[j] = entries[l]
    BY <2>3, <2>4, <2>5
  <2> QED
    BY <2>4, <2>5 DEF kept
<1> QED
  BY <1>1, <1>2

Restrictions ==
  /\ restricted \in Seq(Records)
  /\ restrictions \in Seq(Records)
  /\ RestrictionsInForce

LEMMA RestrictionStep ==
  ASSUME Restrictions, NEW record \in Records, LogRegionAccess(record)
  PROVE  Restrictions'
<1> DEFINE kept == MaybeRemoveOverlappingEntry(restrictions, record)
           n == Len(restricted)
           m == Len(kept)
<1>1. restrictions' = Append(kept, record) /\ restricted' = Append(restricted, record)
  BY DEF LogRegionAccess
<1>2. /\ kept \in Seq(Records)
      /\ \A k \in DOMAIN restrictions :
           ~Overlaps(restrictions[k], record) => \E j \in DOMAIN kept : kept[j] = restrictions[k]
      /\ \A j \in DOMAIN kept : \E k \in DOMAIN restrictions : kept[j] = restrictions[k]
  BY OthersStay DEF Restrictions
<1> HIDE DEF kept
<1>3. /\ n \in Nat /\ DOMAIN restricted = 1..n /\ Len(restricted') = n + 1
      /\ DOMAIN restricted' = 1..(n + 1)
      /\ restricted' \in Seq(Records) /\ restricted'[n + 1] = record
      /\ \A i \in 1..n : restricted'[i] = restricted[i] /\ restricted[i] \in Records
  BY <1>1 DEF Restrictions
<1>4. /\ m \in Nat /\ DOMAIN kept = 1..m /\ DOMAIN restrictions' = 1..(m + 1)
      /\ restrictions' \in Seq(Records) /\ restrictions'[m + 1] = record
      /\ \A j \in 1..m : restrictions'[j] = kept[j]
  BY <1>1, <1>2
<1>5. ASSUME NEW entry \in Records, Bytes(entry) \cap Bytes(record) = {}
      PROVE  ~Overlaps(entry, record)
  <2>1. /\ entry.start \in Nat /\ entry.end \in Nat
        /\ record.start \in Nat /\ record.end \in Nat
    BY RequestsAssumption
  <2>2. ASSUME Overlaps(entry, record)
        PROVE  FALSE
    <3>1. PICK a : a = Larger(entry.start, record.start)
      OBVIOUS
    <3>2. a \in Bytes(entry) /\ a \in Bytes(record)
      BY <2>1, <2>2, <3>1 DEF Overlaps, Larger, Smaller, Bytes
    <3> QED
      BY <1>5, <3>2
  <2> QED
    BY <2>2
<1>6. ASSUME NEW i \in DOMAIN restricted',
             \A j \in i+1 .. Len(restricted') :
               Bytes(restricted'[i]) \cap Bytes(restricted'[j]) = {}
      PROVE  \E k \in DOMAIN restrictions' : restrictions'[k] = restricted'[i]
  <2>1. CASE i = n + 1
    BY <1>3, <1>4, <2>1
  <2>2. CASE i \in 1..n
    <3>1. \A j \in i+1 .. n : Bytes(restricted[i]) \cap Bytes(restricted[j]) = {}
      BY <1>3, <1>6, <2>2
    <3>2. PICK k \in DOMAIN restrictions : restrictions[k] = restricted[i]
      BY <1>3, <2>2, <3>1 DEF Restrictions, RestrictionsInForce
    <3>3. n + 1 \in i+1 .. Len(restricted')
      BY <1>3, <2>2
    <3>4. Bytes(restricted[i]) \cap Bytes(record) = {}
      BY <1>3, <1>6, <2>2, <3>3
    <3>5. ~Overlaps(restrictions[k], record)
      BY <1>3, <1>5, <2>2, <3>2, <3>4
    <3>6. PICK j \in DOMAIN kept : kept[j] = restrictions[k]
      BY <1>2, <3>5
    <3>7. j \in DOMAIN restrictions' /\ restrictions'[j] = restricted'[i]
      BY <1>3, <1>4, <2>2, <3>2, <3>6
    <3> QED
      BY <3>7
  <2> QED
    BY <1>3, <2>1, <2>2
<1>7. ASSUME NEW k \in DOMAIN restrictions'
      PROVE  \E i \in DOMAIN restricted' : restrictions'[k] = restricted'[i]
  <2>1. CASE k = m + 1
    BY <1>3, <1>4, <2>1
  <2>2. CASE k \in 1..m
    <3>1. PICK l \in DOMAIN restrictions : kept[k] = restrictions[l]
      BY <1>2, <1>4, <2>2
    <3>2. PICK i \in DOMAIN restricted : restrictions[l] = restricted[i]
      BY <3>1 DEF Restrictions, RestrictionsInForce
    <3> QED
      BY <1>3, <1>4, <2>2, <3>1, <3>2
  <2> QED
    BY <1>4, <2>1, <2>2
<1> QED
  BY <1>3, <1>4, <1>6, <1>7 DEF Restrictions, RestrictionsInForce

(* A field stays protected until a record that overlaps its own is          *)
(* restricted, however many records are (LogRegionAccess, memory_map.cc).   *)
THEOREM RestrictionsStayInForce == Spec => []RestrictionsInForce
<1>1. FileInit => Restrictions
  BY DEF FileInit, Init, Restrictions, RestrictionsInForce
<1>2. Restrictions /\ [FileNext]_vars => Restrictions'
  <2>1. ASSUME Restrictions, UNCHANGED <<restrictions, restricted>>
        PROVE  Restrictions'
    BY <2>1 DEF Restrictions, RestrictionsInForce
  <2> QED
    BY <2>1, OnlyLogRegionAccessRestricts, RestrictionStep
<1> QED
  BY <1>1, <1>2, PTL DEF Spec, Restrictions
-----------------------------------------------------------------------------
LEMMA SmallRemainder ==
  ASSUME NEW n \in Nat, NEW w \in Nat, n < w
  PROVE  n % w = n
OBVIOUS

World5 ==
  /\ a5.world \in Int /\ a5.above \in Int
  /\ A5WorldFits

(* An A5 world that SetA5WorldBounds accepts lies below the native routines,*)
(* whatever sizes the application's 'CODE' 0 asks for, as long as its end   *)
(* fits 32 bits.                                                            *)
THEOREM A5WorldAlwaysFits == Spec => []A5WorldFits
<1>1. FileInit => World5
  BY DEF FileInit, Init, World5, A5WorldFits
<1>2. World5 /\ [FileNext]_vars => World5'
  <2>1. ASSUME World5, UNCHANGED a5, halted => halted'
        PROVE  World5'
    BY <2>1 DEF World5, A5WorldFits
  <2>2. ASSUME NEW above \in A5Sizes, NEW below \in A5Sizes, SetA5WorldBounds(above, below)
        PROVE  World5'
    <3>1. /\ above \in Nat /\ below \in Nat /\ WordSize \in Nat \ {0} /\ StackStart \in Nat
          /\ LastEmulatedSubroutineAddress \in Nat
      BY RequestsAssumption, SectionsAssumption, SizeAssumption
    <3>2. PICK world \in Nat : world = World(below)
      BY <3>1 DEF World
    <3>3. a5' = [above |-> above, below |-> below, world |-> world]
      BY <2>2, <3>2 DEF SetA5WorldBounds
    <3>4. halted' = TooLarge(above, world)
      BY <2>2, <3>2 DEF SetA5WorldBounds
    <3>5. ASSUME ~TooLarge(above, world), world + above < WordSize
          PROVE  world + above <= LastEmulatedSubroutineAddress
      <4>1. (above + world) % WordSize = above + world
        BY <3>1, <3>5, SmallRemainder
      <4> QED
        BY <3>1, <3>5, <4>1 DEF TooLarge
    <3> QED
      BY <3>1, <3>3, <3>4, <3>5 DEF World5, A5WorldFits
  <2> QED
    BY <2>1, <2>2, OnlySegmentLoaderSizes
<1> QED
  BY <1>1, <1>2, PTL DEF Spec, World5
-----------------------------------------------------------------------------
(* A region lies where it says it does, and its maximum is what is left of  *)
(* memory from there on.                                                    *)
IsWithin(r) ==
  /\ r.data \in Nat /\ r.size \in Nat /\ r.maximum \in Nat
  /\ r.base = r.data /\ r.data + r.maximum = Size /\ r.size <= r.maximum
RegionsLieWithin == \A r \in regions : IsWithin(r)

LEMMA BaseIsWithin == IsWithin(Base)
  BY SizeAssumption DEF IsWithin, Base

LEMMA SubRegionIsWithin ==
  ASSUME NEW r, IsWithin(r), NEW offset \in Nat, NEW size \in Nat,
         CheckSafeAccess(r, offset, size)
  PROVE  IsWithin(SubRegion(r, offset, size))
BY SizeAssumption DEF IsWithin, SubRegion, CheckSafeAccess

LEMMA RestIsNatural ==
  ASSUME NEW r, IsWithin(r), NEW offset \in Nat
  PROVE  RestOfParent(r, offset) \in Nat
BY DEF IsWithin, RestOfParent

LEMMA RegionsStep ==
  ASSUME RegionsLieWithin, NEW r \in regions \cup {Base}, NEW offset \in Nat, NEW size \in Nat,
         Create(r, offset, size)
  PROVE  RegionsLieWithin'
<1>1. IsWithin(r)
  BY BaseIsWithin DEF RegionsLieWithin
<1>2. regions' = regions \cup {SubRegion(r, offset, size)} /\ CheckSafeAccess(r, offset, size)
  BY DEF Create
<1> QED
  BY <1>1, <1>2, SubRegionIsWithin DEF RegionsLieWithin

LEMMA DivisionWithRemainder ==
  ASSUME NEW n \in Nat, NEW w \in Nat \ {0}
  PROVE  n \div w \in Nat /\ n % w \in 0..(w - 1) /\ n = (n \div w) * w + (n % w)
OBVIOUS

(* Lines of the hex dump end at a multiple of their width, so they do not   *)
(* pass the end of memory, which is one.                                    *)
LEMMA LinesEndInMemory ==
  ASSUME NEW k \in Nat, Size = k * LineWidth, NEW q \in Nat, NEW total \in Nat,
         q * LineWidth + total <= Size
  PROVE  LET lines == total \div LineWidth + (IF total % LineWidth # 0 THEN 1 ELSE 0)
         IN  /\ lines \in Nat
             /\ q * LineWidth + total <= q * LineWidth + lines * LineWidth
             /\ q * LineWidth + lines * LineWidth <= Size
<1> DEFINE w == LineWidth
           d == total \div w
           m == total % w
<1>1. w \in Nat \ {0} /\ Size \in Nat
  BY SizeAssumption
<1>2. d \in Nat /\ m \in 0..(w - 1) /\ total = d * w + m
  BY <1>1
<1> HIDE DEF w, d, m
<1>3. CASE m = 0
  BY <1>1, <1>2, <1>3 DEF w, d, m
<1>4. CASE m # 0
  <2>1. (d + 1) * w = d * w + w
    BY <1>1, <1>2
  <2>2. q * w + d * w < k * w
    BY <1>1, <1>2, <1>4 DEF w
  <2>3. (q + d) * w < k * w
    BY <1>1, <1>2, <2>2
  <2>4. q + d + 1 <= k
    BY <1>1, <1>2, <2>3
  <2>5. (q + d + 1) * w <= k * w
    BY <1>1, <1>2, <2>4
  <2>6. q * w + (d + 1) * w <= k * w
    BY <1>1, <1>2, <2>5
  <2> QED
    BY <1>1, <1>2, <1>4, <2>1, <2>6 DEF w, d, m
<1> QED
  BY <1>3, <1>4

LEMMA DumpIsRight ==
  ASSUME NEW r, IsWithin(r)
  PROVE  /\ r.data .. (r.data + r.size) - 1 \subseteq Dumped(r)
         /\ Dumped(r) \subseteq 0..Size-1
<1> DEFINE q == r.base \div LineWidth
           total == TotalFromStart(r)
           lines == LineCount(r)
<1>1. /\ LineWidth \in Nat \ {0} /\ Size \in Nat
      /\ r.data \in Nat /\ r.size \in Nat /\ r.base = r.data /\ r.data + r.size <= Size
  BY SizeAssumption DEF IsWithin
<1>2. PICK k \in Nat : Size = k * LineWidth
  <2>1. PICK d \in Nat : d = Size \div LineWidth
    BY <1>1, DivisionWithRemainder
  <2>2. Size = d * LineWidth + (Size % LineWidth)
    BY <1>1, <2>1, DivisionWithRemainder
  <2>3. Size = d * LineWidth + 0
    BY <2>2, SizeAssumption
  <2>4. Size = d * LineWidth
    BY <1>1, <2>3
  <2> QED
    BY <2>4
<1>3. q \in Nat /\ q * LineWidth <= r.base
  <2>1. r.base \in Nat
    BY <1>1
  <2>2. q \in Nat /\ r.base % LineWidth \in 0..(LineWidth - 1) /\ r.base = q * LineWidth + (r.base % LineWidth)
    BY <1>1, <2>1, DivisionWithRemainder
  <2> HIDE DEF q
  <2>3. PICK m \in Nat : r.base = q * LineWidth + m
    BY <1>1, <2>2
  <2> QED
    BY <1>1, <2>1, <2>2, <2>3
<1>4. FirstIndex(r) = q * LineWidth /\ FirstIndex(r) \in Nat
  BY <1>1, <1>3 DEF FirstIndex
<1>5. total \in Nat /\ q * LineWidth + total = r.base + r.size
  BY <1>1, <1>3, <1>4 DEF TotalFromStart
<1>6. /\ lines \in Nat
      /\ q * LineWidth + total <= q * LineWidth + lines * LineWidth
      /\ q * LineWidth + lines * LineWidth <= Size
  <2>1. q * LineWidth + total <= Size
    BY <1>1, <1>5
  <2> HIDE DEF total, q
  <2> QED
    BY <1>2, <1>3, <1>5, <2>1, LinesEndInMemory DEF LineCount, total
<1> HIDE DEF q, total, lines
<1>7. PICK end \in Nat : end = FirstIndex(r) + lines * LineWidth
  BY <1>1, <1>4, <1>6
<1>8. r.base + r.size <= end /\ end <= Size
  BY <1>4, <1>5, <1>6, <1>7
<1>9. Dumped(r) = {r.data + (i - r.base) :
                     i \in {i \in FirstIndex(r) .. end - 1 :
                              i >= r.base /\ i <= FirstIndex(r) + total}}
  BY <1>7 DEF Dumped, lines, total
<1>10. ASSUME NEW i \in r.data .. (r.data + r.size) - 1
       PROVE  i \in Dumped(r)
  <2>1. /\ i \in FirstIndex(r) .. end - 1 /\ i >= r.base /\ i <= FirstIndex(r) + total
        /\ i = r.data + (i - r.base)
    BY <1>1, <1>3, <1>4, <1>5, <1>8
  <2> QED
    BY <1>9, <2>1
<1>11. ASSUME NEW a \in Dumped(r)
       PROVE  a \in 0..Size-1
  <2>1. PICK i \in FirstIndex(r) .. end - 1 : i >= r.base /\ a = r.data + (i - r.base)
    BY <1>9
  <2> QED
    BY <1>1, <1>4, <1>8, <2>1
<1> QED
  BY <1>10, <1>11

(* However regions are nested and whatever sizes they are said to have, no  *)
(* access that MemoryRegion lets through leaves memory, each is reported    *)
(* where it happens, and the hex dump of a region shows it all.             *)
THEOREM RegionsAlwaysStayInside == Spec => []RegionsStayInside
<1>1. FileInit => RegionsLieWithin
  BY DEF FileInit, Init, RegionsLieWithin
<1>2. RegionsLieWithin /\ [FileNext]_vars => RegionsLieWithin'
  <2>1. ASSUME RegionsLieWithin, UNCHANGED regions
        PROVE  RegionsLieWithin'
    BY <2>1 DEF RegionsLieWithin
  <2>2. ASSUME RegionsLieWithin, NEW r \in regions \cup {Base}, NEW c \in Cuts,
               Create(r, c[1], c[2]) \/ CreateRest(r, c[1])
        PROVE  RegionsLieWithin'
    <3>1. IsWithin(r)
      BY <2>2, BaseIsWithin DEF RegionsLieWithin
    <3>2. c[1] \in Nat /\ c[2] \in Nat /\ RestOfParent(r, c[1]) \in Nat
      BY <3>1, RequestsAssumption, RestIsNatural
    <3> QED
      BY <2>2, <3>2, RegionsStep DEF CreateRest
  <2> QED
    BY <2>1, <2>2, OnlyCreateMakesRegions
<1>3. RegionsLieWithin => RegionsStayInside
  <2> SUFFICES ASSUME RegionsLieWithin, NEW r \in regions \cup {Base}
               PROVE  /\ \A offset \in 0..Size, length \in 1..Size :
                           CheckSafeAccess(r, offset, length) =>
                             /\ Touched(r, offset, length) \subseteq 0..Size-1
                             /\ ReportedStart(r, offset) = r.data + offset
                      /\ r.data .. (r.data + r.size) - 1 \subseteq Dumped(r)
                      /\ Dumped(r) \subseteq 0..Size-1
    BY DEF RegionsStayInside
  <2>1. IsWithin(r)
    BY BaseIsWithin DEF RegionsLieWithin
  <2>2. ASSUME NEW offset \in 0..Size, NEW length \in 1..Size, CheckSafeAccess(r, offset, length)
        PROVE  /\ Touched(r, offset, length) \subseteq 0..Size-1
               /\ ReportedStart(r, offset) = r.data + offset
    BY <2>1, <2>2, SizeAssumption DEF IsWithin, CheckSafeAccess, Touched, ReportedStart
  <2> QED
    BY <2>1, <2>2, DumpIsRight
<1> QED
  BY <1>1, <1>2, <1>3, PTL DEF Spec
-----------------------------------------------------------------------------
(* Nothing behind the offset was ever written.                              *)
Tape ==
  /\ f_offset \in Nat
  /\ DOMAIN save_buffer = 0..SaveBufferSize-1
  /\ \A i \in 0..SaveBufferSize-1 : i >= f_offset => save_buffer[i] = 0

LEMMA TransferStep ==
  ASSUME Tape, NEW ptr \in Params, NEW buffer \in Blocks, NEW n \in Transfers,
         Read(ptr, buffer, n) \/ Write(ptr, buffer, n)
  PROVE  Tape' /\ NothingIsRewritten
<1>1. n \in Nat /\ SaveBufferSize \in Nat /\ f_offset \in Nat
  BY FileAssumption DEF Tape
<1>2. CASE UNCHANGED <<save_buffer, f_offset>>
  BY <1>1, <1>2 DEF Tape, NothingIsRewritten
<1>3. CASE f_offset' = f_offset + n /\ UNCHANGED save_buffer
  BY <1>1, <1>3 DEF Tape, NothingIsRewritten
<1>4. CASE f_offset' = f_offset + n /\ save_buffer' = Written(buffer, n)
  <2>1. /\ DOMAIN save_buffer' = 0..SaveBufferSize-1
        /\ \A i \in 0..SaveBufferSize-1 :
             ~(i >= f_offset /\ i < f_offset + n) => save_buffer'[i] = save_buffer[i]
    BY <1>4 DEF Written, Tape
  <2> QED
    BY <1>1, <1>4, <2>1 DEF Tape, NothingIsRewritten
<1> QED
  BY <1>2, <1>3, <1>4 DEF Read, Write, Advanced
-----------------------------------------------------------------------------
(* Loops: FoldLeft is a function on the subsets of the list's positions     *)
(* that says how it unfolds the largest of them.  That one exists, and what *)
(* it is at 1..k, are the states of the loop.                               *)

(* what holds at first, and stays from a state of the loop to the next      *)
LEMMA LoopInduction ==
  ASSUME NEW n \in Nat, NEW S, 0 \in S, \A k \in 1..n : k - 1 \in S => k \in S
  PROVE  \A k \in 0..n : k \in S
<1> DEFINE Bad == {k \in 0..n : k \notin S}
<1>1. SUFFICES ASSUME Bad # {} PROVE FALSE
  BY Zenon
<1>2. PICK k \in Bad : \A j \in Bad : k <= j
  <2>1. Bad \subseteq Nat
    OBVIOUS
  <2> HIDE DEF Bad
  <2> QED
    BY <1>1, <2>1, LeastElement
<1>3. k \in 1..n /\ k - 1 \in 0..n /\ ~(k <= k - 1)
  OBVIOUS
<1>4. k - 1 \in S
  BY <1>2, <1>3
<1> QED
  BY <1>3, <1>4

LEMMA LargestElement ==
  ASSUME NEW n \in Nat, NEW S, S \subseteq 0..n, S # {}
  PROVE  \E x \in S : \A y \in S : y <= x
<1> DEFINE T == {n - x : x \in S}
<1>1. T \subseteq Nat /\ T # {}
  <2>1. \A x \in S : n - x \in Nat
    OBVIOUS
  <2> QED
    BY <2>1
<1> HIDE DEF T
<1>2. PICK t \in T : \A u \in T : t <= u
  BY <1>1, LeastElement
<1>3. PICK x \in S : t = n - x
  BY DEF T
<1>4. ASSUME NEW y \in S
      PROVE  y <= x
  <2>1. n - y \in T
    BY DEF T
  <2>2. t <= n - y
    BY <1>2, <2>1
  <2> QED
    BY <1>3, <2>2
<1> QED
  BY <1>4

LEMMA LargestOf ==
  ASSUME NEW k \in Nat, NEW t \in SUBSET (1..k), k \in t
  PROVE  Max(t) = k
<1>1. k \in t /\ \A y \in t : k >= y
  OBVIOUS
<1>2. \A x \in t : (\A y \in t : x >= y) => x = k
  BY <1>1
<1> QED
  BY <1>1, <1>2 DEF Max

LEMMA LargestIn ==
  ASSUME NEW k \in Nat, NEW t \in SUBSET (1..k), t # {}
  PROVE  Max(t) \in 1..k
<1>1. t \subseteq 0..k
  OBVIOUS
<1>2. PICK i \in t : \A j \in t : j <= i
  BY <1>1, LargestElement
<1>3. i \in t /\ \A j \in t : i >= j
  BY <1>2
<1> QED
  BY <1>3 DEF Max

(* The loops, by what they do with element k of what they go through.       *)
LoopStep(loop, acc, k) ==
  CASE loop.kind = "copy"  -> CopyByte(acc, loop.source, loop.dest, k - 1)
    [] loop.kind = "each"  -> WriteByte(acc, loop.at + k - 1, loop.values[k])
    [] loop.kind = "merge" -> Merge(acc, loop.spans[k])
    [] loop.kind = "print" -> Printed(acc, loop.spans[k])

Unfolds(iter, loop, n, base) ==
  iter = [t \in SUBSET (1..n) |->
            IF t = {} THEN base ELSE LoopStep(loop, iter[t \ {Max(t)}], Max(t))]

LEMMA UnfoldingExists ==
  ASSUME NEW loop, NEW base, NEW n \in Nat
  PROVE  \E iter : Unfolds(iter, loop, n, base)
<1> DEFINE Good(k) == \E iter : Unfolds(iter, loop, k, base)
           S == {k \in 0..n : Good(k)}
<1>1. Good(0)
  <2>1. Unfolds([t \in SUBSET (1..0) |-> base], loop, 0, base)
    <3>1. 1..0 = {}
      OBVIOUS
    <3> QED
      BY <3>1, Zenon DEF Unfolds
  <2> QED
    BY <2>1, Zenon
<1>2. ASSUME NEW k \in 1..n, Good(k - 1)
      PROVE  Good(k)
  <2>1. PICK m \in Nat : m = k - 1 /\ k = m + 1
    OBVIOUS
  <2>2. PICK g : Unfolds(g, loop, m, base)
    BY <1>2, <2>1
  <2> DEFINE h == [t \in SUBSET (1..k) |->
                     IF k \in t THEN LoopStep(loop, g[t \ {k}], k) ELSE g[t]]
  <2>3. ASSUME NEW t \in SUBSET (1..k)
        PROVE  h[t] = IF t = {} THEN base ELSE LoopStep(loop, h[t \ {Max(t)}], Max(t))
    <3>1. CASE k \in t
      <4>1. Max(t) = k
        BY <3>1, LargestOf
      <4>2. t \ {k} \in SUBSET (1..k) /\ t \ {k} \in SUBSET (1..m) /\ k \notin t \ {k}
        BY <2>1
      <4>3. h[t \ {k}] = g[t \ {k}]
        BY <4>2
      <4>4. h[t] = LoopStep(loop, g[t \ {k}], k)
        BY <3>1
      <4> QED
        BY <3>1, <4>1, <4>3, <4>4, Zenon
    <3>2. CASE k \notin t
      <4>1. t \in SUBSET (1..m)
        BY <2>1, <3>2
      <4>2. h[t] = g[t]
        BY <3>2
      <4>3. g[t] = IF t = {} THEN base ELSE LoopStep(loop, g[t \ {Max(t)}], Max(t))
        BY <2>2, <4>1, Zenon DEF Unfolds
      <4>4. h[t \ {Max(t)}] = g[t \ {Max(t)}]
        BY <3>2
      <4> QED
        BY <4>2, <4>3, <4>4, Zenon
    <3> QED
      BY <3>1, <3>2
  <2>4. Unfolds(h, loop, k, base)
    BY <2>3, Zenon DEF Unfolds
  <2> QED
    BY <2>4, Zenon
<1> HIDE DEF Good
<1>3. \A k \in 1..n : k - 1 \in S => k \in S
  BY <1>2
<1>4. 0 \in S
  BY <1>1
<1> HIDE DEF S
<1>5. n \in S
  BY <1>3, <1>4, LoopInduction
<1> QED
  BY <1>5 DEF S, Good

(* the states of a loop over n elements                                     *)
Runs(h, loop, n, base) ==
  h[0] = base /\ \A k \in 1..n : h[k] = LoopStep(loop, h[k - 1], k)

LEMMA UnfoldingRuns ==
  ASSUME NEW loop, NEW base, NEW n \in Nat, NEW iter, Unfolds(iter, loop, n, base)
  PROVE  \E h : Runs(h, loop, n, base) /\ h[n] = iter[1..n]
<1> DEFINE h == [k \in 0..n |-> iter[1..k]]
<1>1. h[0] = base
  <2>1. iter[{}] = base
    BY Zenon DEF Unfolds
  <2>2. h[0] = iter[1..0] /\ 1..0 = {}
    OBVIOUS
  <2> QED
    BY <2>1, <2>2, Zenon
<1>2. ASSUME NEW k \in 1..n
      PROVE  h[k] = LoopStep(loop, h[k - 1], k)
  <2>1. PICK t : t = 1..k
    OBVIOUS
  <2>2. t \in SUBSET (1..n) /\ t # {} /\ t \in SUBSET (1..k) /\ k \in t
    <3>1. k \in t /\ \A j \in t : j \in 1..n /\ j \in 1..k
      BY <2>1
    <3> QED
      BY <3>1
  <2>3. Max(t) = k
    BY <2>2, LargestOf
  <2>4. iter[t] = LoopStep(loop, iter[t \ {k}], k)
    <3>1. iter[t] = IF t = {} THEN base ELSE LoopStep(loop, iter[t \ {Max(t)}], Max(t))
      BY <2>2, Zenon DEF Unfolds
    <3> QED
      BY <2>2, <2>3, <3>1, Zenon
  <2>5. t \ {k} = 1..(k - 1)
    BY <2>1
  <2>6. h[k] = iter[t] /\ h[k - 1] = iter[1..(k - 1)]
    BY <2>1
  <2> QED
    BY <2>4, <2>5, <2>6, Zenon
<1>3. h[n] = iter[1..n]
  OBVIOUS
<1> HIDE DEF h
<1> QED
  BY <1>1, <1>2, <1>3 DEF Runs

(* BlockMove's loop                                                         *)
LEMMA CopyLoop ==
  ASSUME NEW s, NEW source, NEW dest, NEW count \in Nat
  PROVE  LET loop == [kind |-> "copy", source |-> source, dest |-> dest]
         IN  \E h : Runs(h, loop, count, s) /\ CopyBytes(s, source, dest, count) = h[count]
<1> DEFINE loop == [kind |-> "copy", source |-> source, dest |-> dest]
           list == [i \in 1..count |-> i]
           Raw(iter) == iter = [t \in SUBSET DOMAIN list |->
                IF t = {} THEN s
                ELSE LET x == Max(t)
                     IN  CopyByte(iter[t \ {x}], source, dest, list[x] - 1)]
<1>1. CopyBytes(s, source, dest, count) = (CHOOSE iter : Raw(iter))[DOMAIN list]
  BY Zenon DEF CopyBytes, FoldLeft, MapThenFoldSet
<1>2. DOMAIN list = 1..count /\ \A i \in 1..count : list[i] = i
  OBVIOUS
<1>3. ASSUME NEW iter
      PROVE  Raw(iter) <=> Unfolds(iter, loop, count, s)
  <2>1. \A t \in SUBSET (1..count) : t # {} => list[Max(t)] = Max(t)
    BY <1>2, LargestIn
  <2>2. \A acc, k : LoopStep(loop, acc, k) = CopyByte(acc, source, dest, k - 1)
    BY DEF LoopStep
  <2> HIDE DEF list, loop
  <2>3. [t \in SUBSET DOMAIN list |->
                IF t = {} THEN s
                ELSE LET x == Max(t)
                     IN  CopyByte(iter[t \ {x}], source, dest, list[x] - 1)]
        = [t \in SUBSET (1..count) |->
            IF t = {} THEN s ELSE LoopStep(loop, iter[t \ {Max(t)}], Max(t))]
    <3>1. ASSUME NEW t \in SUBSET (1..count), t # {}
          PROVE  CopyByte(iter[t \ {Max(t)}], source, dest, list[Max(t)] - 1) = LoopStep(loop, iter[t \ {Max(t)}], Max(t))
      <4>1. list[Max(t)] = Max(t)
        BY <2>1, <3>1, Zenon
      <4> QED
        BY <2>2, <4>1, Zenon
    <3> QED
      BY <1>2, <3>1, Zenon
  <2> QED
    BY <2>3, Zenon DEF Unfolds
<1> HIDE DEF loop
<1>4. \E iter : Raw(iter)
  BY <1>3, UnfoldingExists
<1>5. PICK found : found = (CHOOSE iter : Raw(iter))
  OBVIOUS
<1>6. Raw(found)
  BY <1>4, <1>5, Zenon
<1>7. CopyBytes(s, source, dest, count) = found[DOMAIN list]
  BY <1>1, <1>5, Zenon
<1> HIDE DEF list, Raw
<1>8. Unfolds(found, loop, count, s) /\ CopyBytes(s, source, dest, count) = found[1..count]
  BY <1>2, <1>3, <1>6, <1>7
<1>9. PICK h : Runs(h, loop, count, s) /\ h[count] = found[1..count]
  BY <1>8, UnfoldingRuns
<1> QED
  BY <1>8, <1>9 DEF loop

(* the loop of WriteType                                                    *)
LEMMA EachLoop ==
  ASSUME NEW s, NEW at, NEW values, Len(values) \in Nat
  PROVE  LET loop == [kind |-> "each", at |-> at, values |-> values]
         IN  \E h : Runs(h, loop, Len(values), s) /\ WriteEach(s, at, values) = h[Len(values)]
<1> DEFINE loop == [kind |-> "each", at |-> at, values |-> values]
           n == Len(values)
           list == [i \in 1..n |-> i]
           Raw(iter) == iter = [t \in SUBSET DOMAIN list |->
                IF t = {} THEN s
                ELSE LET x == Max(t)
                     IN  WriteByte(iter[t \ {x}], at + list[x] - 1, values[list[x]])]
<1>1. WriteEach(s, at, values) = (CHOOSE iter : Raw(iter))[DOMAIN list]
  BY Zenon DEF WriteEach, FoldLeft, MapThenFoldSet
<1>2. DOMAIN list = 1..n /\ \A i \in 1..n : list[i] = i
  OBVIOUS
<1>3. ASSUME NEW iter
      PROVE  Raw(iter) <=> Unfolds(iter, loop, n, s)
  <2>1. \A t \in SUBSET (1..n) : t # {} => list[Max(t)] = Max(t)
    BY <1>2, LargestIn
  <2>2. \A acc, k : LoopStep(loop, acc, k) = WriteByte(acc, at + k - 1, values[k])
    BY DEF LoopStep
  <2> HIDE DEF list, loop, n
  <2>3. [t \in SUBSET DOMAIN list |->
                IF t = {} THEN s
                ELSE LET x == Max(t)
                     IN  WriteByte(iter[t \ {x}], at + list[x] - 1, values[list[x]])]
        = [t \in SUBSET (1..n) |->
            IF t = {} THEN s ELSE LoopStep(loop, iter[t \ {Max(t)}], Max(t))]
    <3>1. ASSUME NEW t \in SUBSET (1..n), t # {}
          PROVE  WriteByte(iter[t \ {Max(t)}], at + list[Max(t)] - 1, values[list[Max(t)]]) = LoopStep(loop, iter[t \ {Max(t)}], Max(t))
      <4>1. list[Max(t)] = Max(t)
        BY <2>1, <3>1, Zenon
      <4> QED
        BY <2>2, <4>1, Zenon
    <3> QED
      BY <1>2, <3>1, Zenon
  <2> QED
    BY <2>3, Zenon DEF Unfolds
<1> HIDE DEF loop
<1>4. \E iter : Raw(iter)
  BY <1>3, UnfoldingExists
<1>5. PICK found : found = (CHOOSE iter : Raw(iter))
  OBVIOUS
<1>6. Raw(found)
  BY <1>4, <1>5, Zenon
<1>7. WriteEach(s, at, values) = found[DOMAIN list]
  BY <1>1, <1>5, Zenon
<1> HIDE DEF list, Raw
<1>8. Unfolds(found, loop, n, s) /\ WriteEach(s, at, values) = found[1..n]
  BY <1>2, <1>3, <1>6, <1>7
<1>9. PICK h : Runs(h, loop, n, s) /\ h[n] = found[1..n]
  BY <1>8, UnfoldingRuns
<1> QED
  BY <1>8, <1>9 DEF loop

(* the loop of RecordWrite                                                  *)
LEMMA MergeLoop ==
  ASSUME NEW list, NEW n \in Nat, DOMAIN list = 1..n, NEW first
  PROVE  LET loop == [kind |-> "merge", spans |-> list]
         IN  \E h : Runs(h, loop, n, first) /\ FoldLeft(Merge, first, list) = h[n]
<1> DEFINE loop == [kind |-> "merge", spans |-> list]
           Raw(iter) == iter = [t \in SUBSET DOMAIN list |->
                IF t = {} THEN first
                ELSE LET x == Max(t)
                     IN  Merge(iter[t \ {x}], list[x])]
<1>1. FoldLeft(Merge, first, list) = (CHOOSE iter : Raw(iter))[DOMAIN list]
  BY Zenon DEF FoldLeft, MapThenFoldSet
<1>3. ASSUME NEW iter
      PROVE  Raw(iter) <=> Unfolds(iter, loop, n, first)
  <2>2. \A acc, k : LoopStep(loop, acc, k) = Merge(acc, list[k])
    BY DEF LoopStep
  <2> HIDE DEF loop
  <2>3. [t \in SUBSET DOMAIN list |->
                IF t = {} THEN first
                ELSE LET x == Max(t)
                     IN  Merge(iter[t \ {x}], list[x])]
        = [t \in SUBSET (1..n) |->
            IF t = {} THEN first ELSE LoopStep(loop, iter[t \ {Max(t)}], Max(t))]
    BY <2>2
  <2> QED
    BY <2>3, Zenon DEF Unfolds
<1> HIDE DEF loop
<1>4. \E iter : Raw(iter)
  BY <1>3, UnfoldingExists
<1>5. PICK found : found = (CHOOSE iter : Raw(iter))
  OBVIOUS
<1>6. Raw(found)
  BY <1>4, <1>5, Zenon
<1>7. FoldLeft(Merge, first, list) = found[DOMAIN list]
  BY <1>1, <1>5, Zenon
<1> HIDE DEF Raw
<1>8. Unfolds(found, loop, n, first) /\ FoldLeft(Merge, first, list) = found[1..n]
  BY <1>3, <1>6, <1>7
<1>9. PICK h : Runs(h, loop, n, first) /\ h[n] = found[1..n]
  BY <1>8, UnfoldingRuns
<1> QED
  BY <1>8, <1>9 DEF loop
-----------------------------------------------------------------------------
(* Writes                                                                   *)

(* the fields of `store'                                                    *)
IsStore(s) ==
  /\ s = [bytes |-> s.bytes, tags |-> s.tags, initialized |-> s.initialized, log |-> s.log]
  /\ DOMAIN s.bytes = 0..Size-1

(* what WriteRaw makes of it                                                *)
Wrote(s, r, offset, vs, t) ==
  /\ IsStore(t)
  /\ t.bytes = [a \in 0..Size-1 |-> IF a \in Touched(r, offset, Len(vs))
                                    THEN vs[a - (r.data + offset) + 1] ELSE s.bytes[a]]
  /\ t.tags = RecordWrite(s.tags, ReportedStart(r, offset), ReportedStart(r, offset) + Len(vs))
  /\ t.initialized = s.initialized \cup
        (ReportedStart(r, offset) .. (ReportedStart(r, offset) + Len(vs)) - 1)
  /\ t.log = Append(s.log, <<r.data + offset, r.data + offset + Len(vs)>>)

LEMMA WriteRawWrites ==
  ASSUME NEW s, IsStore(s), NEW r, NEW offset, NEW vs
  PROVE  Wrote(s, r, offset, vs, WriteRaw(s, r, offset, vs))
<1> DEFINE at == r.data + offset
           from == ReportedStart(r, offset)
           bytes == [a \in DOMAIN s.bytes |-> IF a \in Touched(r, offset, Len(vs))
                                              THEN vs[a - at + 1] ELSE s.bytes[a]]
           log == Append(s.log, <<at, at + Len(vs)>>)
           tags == RecordWrite(s.tags, from, from + Len(vs))
           initialized == s.initialized \cup (from .. (from + Len(vs)) - 1)
           t == [bytes |-> bytes, tags |-> tags, initialized |-> initialized, log |-> log]
<1>1. WriteRaw(s, r, offset, vs) = OnWrite([s EXCEPT !.bytes = bytes, !.log = log], from, Len(vs))
  BY Zenon DEF WriteRaw
<1>2. DOMAIN bytes = 0..Size-1
  BY DEF IsStore
<1> HIDE DEF bytes, log
<1>3. [s EXCEPT !.bytes = bytes, !.log = log]
        = [bytes |-> bytes, tags |-> s.tags, initialized |-> s.initialized, log |-> log]
  <2>1. PICK b, t0, i, l : b = s.bytes /\ t0 = s.tags /\ i = s.initialized /\ l = s.log
    OBVIOUS
  <2>2. s = [bytes |-> b, tags |-> t0, initialized |-> i, log |-> l]
    BY <2>1, Zenon DEF IsStore
  <2>3. PICK half : half = [bytes |-> bytes, tags |-> t0, initialized |-> i, log |-> l]
    OBVIOUS
  <2>4. [s EXCEPT !.bytes = bytes] = half
    BY <2>2, <2>3
  <2>5. [half EXCEPT !.log = log] = [bytes |-> bytes, tags |-> t0, initialized |-> i, log |-> log]
    BY <2>3
  <2>6. [s EXCEPT !.bytes = bytes, !.log = log] = [[s EXCEPT !.bytes = bytes] EXCEPT !.log = log]
    BY Zenon
  <2> QED
    BY <2>1, <2>4, <2>5, <2>6, Zenon
<1>4. PICK u : u = [bytes |-> bytes, tags |-> s.tags, initialized |-> s.initialized, log |-> log]
  OBVIOUS
<1>5. OnWrite(u, from, Len(vs)) =
        [u EXCEPT !.tags = RecordWrite(u.tags, from, from + Len(vs)),
                  !.initialized = u.initialized \cup (from .. (from + Len(vs)) - 1)]
  BY Zenon DEF OnWrite
<1>6. OnWrite(u, from, Len(vs)) = t
  <2> HIDE DEF from
  <2>1. u.tags = s.tags /\ u.initialized = s.initialized
    BY <1>4
  <2>2. OnWrite(u, from, Len(vs)) = [u EXCEPT !.tags = tags, !.initialized = initialized]
    BY <1>5, <2>1
  <2> HIDE DEF tags, initialized
  <2> QED
    BY <1>4, <2>2
<1>7. WriteRaw(s, r, offset, vs) = t
  BY <1>1, <1>3, <1>4, <1>6, Zenon
<1> HIDE DEF tags, initialized
<1>8. t.bytes = bytes /\ t.tags = tags /\ t.initialized = initialized /\ t.log = log
  OBVIOUS
<1>9. IsStore(t)
  BY <1>2, <1>8 DEF IsStore
<1>10. bytes = [a \in 0..Size-1 |-> IF a \in Touched(r, offset, Len(vs))
                                    THEN vs[a - at + 1] ELSE s.bytes[a]]
  BY Zenon DEF bytes, IsStore
<1> HIDE DEF t, at, from
<1> QED
  BY <1>7, <1>8, <1>9, <1>10, Zenon DEF tags, initialized, log, at, from, Wrote

(* one byte                                                                 *)
LEMMA WriteByteWrites ==
  ASSUME NEW s, IsStore(s), NEW a \in Nat, NEW v
  PROVE  /\ IsStore(WriteByte(s, a, v))
         /\ \A x \in 0..Size-1 : WriteByte(s, a, v).bytes[x] = IF x = a THEN v ELSE s.bytes[x]
<1>1. PICK t : t = WriteByte(s, a, v)
  OBVIOUS
<1>2. /\ IsStore(t)
      /\ t.bytes = [x \in 0..Size-1 |-> IF x \in Touched(Base, a, Len(<<v>>))
                                        THEN <<v>>[x - (Base.data + a) + 1] ELSE s.bytes[x]]
  <2>1. t = WriteRaw(s, Base, a, <<v>>)
    BY <1>1, Zenon DEF WriteByte
  <2>2. Wrote(s, Base, a, <<v>>, t)
    BY <2>1, WriteRawWrites, Zenon
  <2> QED
    BY <2>2, Zenon DEF Wrote
<1>3. Base.data + a = a /\ Touched(Base, a, Len(<<v>>)) = {a}
  BY DEF Touched, Base
<1>4. ASSUME NEW x \in 0..Size-1
      PROVE  t.bytes[x] = IF x = a THEN v ELSE s.bytes[x]
  <2>1. t.bytes[x] = IF x \in {a} THEN <<v>>[x - a + 1] ELSE s.bytes[x]
    BY <1>2, <1>3
  <2>2. x = a => x - a + 1 = 1
    BY SizeAssumption
  <2> QED
    BY <2>1, <2>2
<1> QED
  BY <1>1, <1>2, <1>4

(* the copy of BlockMove: byte a after the first n bytes                    *)
Copied(s, source, dest, n, a) ==
  IF a < dest \/ a >= dest + n THEN s.bytes[a]
  ELSE IF dest <= source THEN s.bytes[source + (a - dest)]
  ELSE s.bytes[source + ((a - dest) % (dest - source))]

LEMMA OnceAroundMore ==
  ASSUME NEW d \in Nat \ {0}, NEW n \in Nat, n >= d
  PROVE  n % d = (n - d) % d
<1>1. PICK q \in Nat, r \in 0..(d - 1) : n = q * d + r /\ n % d = r
  BY DivisionWithRemainder
<1>2. PICK p \in Nat, t \in 0..(d - 1) : n - d = p * d + t /\ (n - d) % d = t
  <2>1. n - d \in Nat
    OBVIOUS
  <2> QED
    BY <2>1, DivisionWithRemainder
<1>3. n = (p + 1) * d + t
  BY <1>2
<1>4. ASSUME q > p + 1 PROVE FALSE
  <2>1. q >= p + 2 /\ q * d >= (p + 2) * d
    BY <1>4
  <2>2. (p + 2) * d = (p + 1) * d + d
    OBVIOUS
  <2> QED
    BY <1>1, <1>2, <1>3, <2>1, <2>2
<1>5. ASSUME p + 1 > q PROVE FALSE
  <2>1. p >= q /\ p * d >= q * d
    BY <1>5
  <2>2. (p + 1) * d = p * d + d
    OBVIOUS
  <2> QED
    BY <1>1, <1>2, <1>3, <2>1, <2>2
<1>6. q = p + 1
  BY <1>4, <1>5
<1> QED
  BY <1>1, <1>2, <1>3, <1>6

LEMMA OneMoreCopied ==
  ASSUME NEW s, NEW source \in Nat, NEW dest \in Nat, NEW k \in Nat \ {0},
         source + k <= Size, dest + k <= Size, NEW a \in 0..Size-1
  PROVE  Copied(s, source, dest, k, a) =
           IF a = dest + k - 1 THEN Copied(s, source, dest, k - 1, source + k - 1)
           ELSE Copied(s, source, dest, k - 1, a)
<1>0. Size \in Nat
  BY SizeAssumption
<1>1. CASE a # dest + k - 1
  BY <1>0, <1>1 DEF Copied
<1>2. CASE a = dest + k - 1 /\ dest <= source
  <2>1. Copied(s, source, dest, k, a) = s.bytes[source + (a - dest)]
    BY <1>0, <1>2 DEF Copied
  <2>2. Copied(s, source, dest, k - 1, source + k - 1) = s.bytes[source + k - 1]
    BY <1>0, <1>2 DEF Copied
  <2>3. source + (a - dest) = source + k - 1
    BY <1>0, <1>2
  <2> QED
    BY <1>2, <2>1, <2>2, <2>3
<1>3. CASE a = dest + k - 1 /\ dest > source
  <2>1. PICK d \in Nat \ {0} : d = dest - source
    BY <1>3
  <2>2. a - dest = k - 1
    BY <1>3
  <2>3. Copied(s, source, dest, k, a) = s.bytes[source + ((k - 1) % d)]
    BY <1>0, <1>3, <2>1, <2>2 DEF Copied
  <2>4. CASE k - 1 < d
    <3>1. (k - 1) % d = k - 1
      BY <2>1, <2>4, SmallRemainder
    <3>2. Copied(s, source, dest, k - 1, source + k - 1) = s.bytes[source + k - 1]
      BY <1>0, <1>3, <2>1, <2>4 DEF Copied
    <3>3. source + (k - 1) = source + k - 1
      OBVIOUS
    <3> QED
      BY <1>3, <2>3, <3>1, <3>2, <3>3
  <2>5. CASE k - 1 >= d
    <3>1. (k - 1) % d = (k - 1 - d) % d
      <4>1. k - 1 \in Nat
        OBVIOUS
      <4> QED
        BY <2>5, <4>1, OnceAroundMore
    <3>2. source + k - 1 - dest = k - 1 - d
      BY <2>1
    <3>3. Copied(s, source, dest, k - 1, source + k - 1)
            = s.bytes[source + ((source + k - 1 - dest) % (dest - source))]
      BY <1>0, <1>3, <2>1, <2>5 DEF Copied
    <3> QED
      BY <1>3, <2>1, <2>3, <3>1, <3>2, <3>3
  <2> QED
    BY <2>1, <2>4, <2>5
<1> QED
  BY <1>0, <1>1, <1>2, <1>3

LEMMA CopyBytesCopies ==
  ASSUME NEW s, IsStore(s), NEW source \in Nat, NEW dest \in Nat, NEW count \in Nat,
         count = 0 \/ (source + count <= Size /\ dest + count <= Size)
  PROVE  /\ IsStore(CopyBytes(s, source, dest, count))
         /\ \A a \in 0..Size-1 :
              CopyBytes(s, source, dest, count).bytes[a] = Copied(s, source, dest, count, a)
<1>0. Size \in Nat
  BY SizeAssumption
<1>1. PICK loop : loop = [kind |-> "copy", source |-> source, dest |-> dest]
  OBVIOUS
<1>2. PICK h : Runs(h, loop, count, s) /\ CopyBytes(s, source, dest, count) = h[count]
  BY <1>1, CopyLoop
<1> DEFINE Good(k) == /\ IsStore(h[k])
                      /\ \A a \in 0..Size-1 : h[k].bytes[a] = Copied(s, source, dest, k, a)
           S == {k \in 0..count : Good(k)}
<1>3. Good(0)
  <2>1. h[0] = s
    BY <1>2 DEF Runs
  <2>2. \A a \in 0..Size-1 : Copied(s, source, dest, 0, a) = s.bytes[a]
    BY <1>0 DEF Copied
  <2> QED
    BY <2>1, <2>2
<1>4. ASSUME NEW k \in 1..count, Good(k - 1)
      PROVE  Good(k)
  <2>1. PICK at \in Nat, from \in 0..Size-1 : at = dest + (k - 1) /\ from = source + (k - 1)
    BY <1>0
  <2>2. PICK v : v = h[k - 1].bytes[from]
    OBVIOUS
  <2>3. h[k] = WriteByte(h[k - 1], at, v)
    <3>1. h[k] = CopyByte(h[k - 1], source, dest, k - 1)
      BY <1>1, <1>2 DEF Runs, LoopStep
    <3> QED
      BY <2>1, <2>2, <3>1 DEF CopyByte
  <2>4. PICK g : g = h[k - 1]
    OBVIOUS
  <2>5. IsStore(g)
    BY <1>4, <2>4
  <2>6. /\ IsStore(h[k])
        /\ \A x \in 0..Size-1 : h[k].bytes[x] = IF x = at THEN v ELSE g.bytes[x]
    BY <2>3, <2>4, <2>5, WriteByteWrites
  <2>7. ASSUME NEW a \in 0..Size-1
        PROVE  h[k].bytes[a] = Copied(s, source, dest, k, a)
    <3>1. /\ g.bytes[a] = Copied(s, source, dest, k - 1, a)
          /\ v = Copied(s, source, dest, k - 1, from)
      BY <1>4, <2>2, <2>4
    <3>2. /\ k \in Nat \ {0} /\ source + k <= Size /\ dest + k <= Size
          /\ at = dest + k - 1 /\ from = source + k - 1
      BY <1>0, <2>1
    <3>3. Copied(s, source, dest, k, a) =
           IF a = dest + k - 1 THEN Copied(s, source, dest, k - 1, source + k - 1)
           ELSE Copied(s, source, dest, k - 1, a)
      BY <3>2, OneMoreCopied
    <3> QED
      BY <2>6, <3>1, <3>2, <3>3
  <2> QED
    BY <2>6, <2>7
<1> HIDE DEF Good
<1>5. 0 \in S /\ \A k \in 1..count : k - 1 \in S => k \in S
  BY <1>3, <1>4
<1> HIDE DEF S
<1>6. count \in S
  BY <1>5, LoopInduction
<1>7. Good(count)
  BY <1>6 DEF S
<1> QED
  BY <1>2, <1>7 DEF Good

(* WriteType: byte a after all of them                                      *)
LEMMA WriteEachWrites ==
  ASSUME NEW s, IsStore(s), NEW at \in Nat, NEW values, Len(values) \in Nat
  PROVE  /\ IsStore(WriteEach(s, at, values))
         /\ \A a \in 0..Size-1 :
              WriteEach(s, at, values).bytes[a] =
                IF a >= at /\ a < at + Len(values) THEN values[a - at + 1] ELSE s.bytes[a]
<1>0. Size \in Nat
  BY SizeAssumption
<1>1. PICK loop : loop = [kind |-> "each", at |-> at, values |-> values]
  OBVIOUS
<1>8. PICK n \in Nat : n = Len(values)
  OBVIOUS
<1>9. PICK h : Runs(h, loop, Len(values), s) /\ WriteEach(s, at, values) = h[Len(values)]
  BY <1>1, EachLoop, Zenon
<1>2. n = Len(values) /\ Runs(h, loop, n, s) /\ WriteEach(s, at, values) = h[n]
  BY <1>8, <1>9
<1> DEFINE Good(k) == /\ IsStore(h[k])
                      /\ \A a \in 0..Size-1 :
                           h[k].bytes[a] =
                             IF a >= at /\ a < at + k THEN values[a - at + 1] ELSE s.bytes[a]
           S == {k \in 0..n : Good(k)}
<1>3. Good(0)
  <2>1. h[0] = s
    BY <1>2 DEF Runs
  <2> QED
    BY <1>0, <2>1
<1>4. ASSUME NEW k \in 1..n, Good(k - 1)
      PROVE  Good(k)
  <2>0. PICK v : v = values[k]
    OBVIOUS
  <2>1. PICK i \in Nat : i = at + k - 1
    OBVIOUS
  <2>2. PICK g : g = h[k - 1]
    OBVIOUS
  <2>3. h[k] = WriteByte(g, i, v)
    BY <1>1, <1>2, <2>0, <2>1, <2>2 DEF Runs, LoopStep
  <2>4. IsStore(g)
    BY <1>4, <2>2
  <2>5. /\ IsStore(h[k])
        /\ \A x \in 0..Size-1 : h[k].bytes[x] = IF x = i THEN v ELSE g.bytes[x]
    BY <2>3, <2>4, WriteByteWrites
  <2>6. ASSUME NEW a \in 0..Size-1
        PROVE  h[k].bytes[a] =
                 IF a >= at /\ a < at + k THEN values[a - at + 1] ELSE s.bytes[a]
    <3>1. g.bytes[a] = IF a >= at /\ a < at + (k - 1) THEN values[a - at + 1] ELSE s.bytes[a]
      BY <1>4, <2>2
    <3>2. a = i => a - at + 1 = k
      BY <2>1
    <3>3. a # i => (a >= at /\ a < at + (k - 1) <=> a >= at /\ a < at + k)
      BY <1>0, <2>1
    <3>4. a = i => a >= at /\ a < at + k
      BY <2>1
    <3> QED
      BY <2>0, <2>1, <2>5, <3>1, <3>2, <3>3, <3>4
  <2> QED
    BY <2>5, <2>6
<1> HIDE DEF Good
<1>5. 0 \in S /\ \A k \in 1..n : k - 1 \in S => k \in S
  BY <1>3, <1>4
<1> HIDE DEF S
<1>6. n \in S
  BY <1>5, LoopInduction
<1>7. Good(n)
  BY <1>6 DEF S
<1> QED
  BY <1>2, <1>7 DEF Good
-----------------------------------------------------------------------------
(* Who touches the store.                                                   *)
Shape == IsStore(store) /\ Tape /\ store.bytes \in [0..Size-1 -> Values]

Transfer(s, t, ptr, buffer, n) ==
  /\ InMemory(ptr, ParamSize) /\ InMemory(buffer, n) /\ InBuffer(n)
  /\ \E block \in [1..ParamSize -> Values] : t = WriteBack(Delivered(s, buffer, n), ptr, block)

Moved(s, t, source, dest, count) ==
  /\ count = 0 \/ (InMemory(source, count) /\ InMemory(dest, count))
  /\ t = CopyBytes(s, source, dest, count)

LEMMA BlockMoveMoves ==
  ASSUME NEW source \in Nat, NEW dest \in Nat, NEW n \in Nat, BlockMove(source, dest, n)
  PROVE  \E copied \in 0..n :
           /\ Moved(store, store', source, dest, copied)
           /\ halted' = (copied < n)
<1> DEFINE inside == {m \in 0..n : m = 0 \/ (InMemory(source, m) /\ InMemory(dest, m))}
           Most(c) == c \in inside /\ \A m \in inside : m <= c
<1>1. inside \subseteq 0..n /\ 0 \in inside
  OBVIOUS
<1>2. PICK copied : copied = CHOOSE c \in inside : \A m \in inside : m <= c
  OBVIOUS
<1>3. \E c \in inside : \A m \in inside : m <= c
  <2> HIDE DEF inside
  <2> QED
    BY <1>1, LargestElement
<1>4. copied \in inside
  <2> HIDE DEF inside
  <2> QED
    BY <1>2, <1>3, Zenon
<1>5. /\ copied \in 0..n
      /\ copied = 0 \/ (InMemory(source, copied) /\ InMemory(dest, copied))
  BY <1>4
<1>6. store' = CopyBytes(store, source, dest, copied) /\ halted' = (copied < n)
  BY <1>2, Zenon DEF BlockMove
<1> QED
  BY <1>5, <1>6 DEF Moved

WriteOf(s, t) ==
  \/ t = s
  \/ \E a \in Addresses, vs \in Payloads :
       /\ InMemory(a, Len(vs))
       /\ t = WriteRaw([s EXCEPT !.initialized = s.initialized \cup Marked(a)], Base, a, vs)
  \/ \E r \in regions, c \in Cuts, vs \in Payloads :
       CheckSafeAccess(r, c[1], Len(vs)) /\ t = WriteRaw(s, r, c[1], vs)
  \/ \E c \in Chunks, tag \in Tags :
       t = [s EXCEPT !.tags = TagMemory(s.tags, c[1], c[2], tag)]
  \/ \E source \in Blocks, dest \in Blocks, n \in Nat : Moved(s, t, source, dest, n)
  \/ \E ptr \in Params, size \in Nat \ {0} :
       InMemory(ptr, size) /\ \E block \in [1..size -> Values] : t = WriteBack(s, ptr, block)
  \/ \E ptr \in Params, buffer \in Blocks, n \in Transfers : Transfer(s, t, ptr, buffer, n)
  \/ \E ptr \in Params :
       /\ InMemory(ptr, TimeSize)
       /\ t = WriteRaw(s, Base, ptr, [i \in 1..TimeSize |-> s.bytes[TimeAddress + i - 1]])

LEMMA InMemoryMeans ==
  ASSUME NEW a \in Nat, NEW n \in Nat
  PROVE  InMemory(a, n) <=> a + n <= Size
BY SizeAssumption DEF InMemory, CheckSafeAccess, Base

(* What the traps do to their blocks.                                       *)
LEMMA FieldsHold ==
  /\ ParamSize \in Nat \ {0} /\ EnvironsSize \in Nat \ {0}
  /\ ioResult \in 1..ParamSize /\ ioRefNum \in 1..ParamSize /\ ioReqCount \in 1..ParamSize
  /\ ioActCount \in 1..ParamSize /\ ioVFrBlk \in 1..ParamSize /\ ioVAlBlkSiz \in 1..ParamSize
  /\ ioResult # ioRefNum /\ ioResult # ioReqCount /\ ioResult # ioActCount
  /\ ioResult # ioVFrBlk /\ ioResult # ioVAlBlkSiz /\ ioReqCount # ioActCount
  /\ hasColorQD \in 1..EnvironsSize
  /\ FreeBlocks \in Values /\ AllocationSize \in Values /\ noErr \in Values /\ 0 \in Values
<1>1. noErr \in Values /\ 0 \in Values
  BY SectionsAssumption DEF noErr
<1> QED
  BY <1>1, FileAssumption, FieldsAssumption

LEMMA BlockIsRead ==
  ASSUME Shape, NEW ptr \in Nat, NEW size \in Nat, InMemory(ptr, size)
  PROVE  /\ ReadBlock(ptr, size) \in [1..size -> Values]
         /\ \A i \in 1..size : ReadBlock(ptr, size)[i] = store.bytes[ptr + i - 1]
<1>1. Size \in Nat /\ ptr + size <= Size
  BY SizeAssumption, InMemoryMeans
<1>2. \A i \in 1..size : ptr + i - 1 \in 0..Size-1
  BY <1>1
<1> QED
  BY <1>2 DEF Shape, ReadBlock

LEMMA HandlersSet ==
  ASSUME NEW b \in [1..ParamSize -> Values]
  PROVE  /\ Done(b) \in [1..ParamSize -> Values] /\ Done(b)[ioResult] = noErr
         /\ \A i \in 1..ParamSize : i # ioResult => Done(b)[i] = b[i]
         /\ Opened(b) \in [1..ParamSize -> Values] /\ Opened(b)[ioResult] = noErr
         /\ \A i \in 1..ParamSize : i \notin {ioResult, ioRefNum} => Opened(b)[i] = b[i]
         /\ Counted(b) \in [1..ParamSize -> Values] /\ Counted(b)[ioResult] = noErr
         /\ Counted(b)[ioActCount] = b[ioReqCount]
         /\ \A i \in 1..ParamSize : i \notin {ioResult, ioActCount} => Counted(b)[i] = b[i]
         /\ Measured(b) \in [1..ParamSize -> Values] /\ Measured(b)[ioResult] = noErr
         /\ \A i \in 1..ParamSize :
              i \notin {ioResult, ioVFrBlk, ioVAlBlkSiz} => Measured(b)[i] = b[i]
<1>1. PICK d : d = [b EXCEPT ![ioResult] = noErr]
  OBVIOUS
<1>2. /\ d \in [1..ParamSize -> Values] /\ d[ioResult] = noErr
      /\ \A i \in 1..ParamSize : i # ioResult => d[i] = b[i]
  BY <1>1, FieldsHold
<1>3. Done(b) = d
  BY <1>1 DEF Done
<1>4. PICK o : o = [d EXCEPT ![ioRefNum] = 0]
  OBVIOUS
<1>5. /\ o \in [1..ParamSize -> Values] /\ o[ioResult] = noErr
      /\ \A i \in 1..ParamSize : i \notin {ioResult, ioRefNum} => o[i] = b[i]
  BY <1>2, <1>4, FieldsHold
<1>6. PICK c : c = [d EXCEPT ![ioActCount] = b[ioReqCount]]
  OBVIOUS
<1>7. /\ c \in [1..ParamSize -> Values] /\ c[ioResult] = noErr
      /\ c[ioActCount] = b[ioReqCount]
      /\ \A i \in 1..ParamSize : i \notin {ioResult, ioActCount} => c[i] = b[i]
  BY <1>2, <1>6, FieldsHold
<1>8. PICK m : m = [d EXCEPT ![ioVFrBlk] = FreeBlocks, ![ioVAlBlkSiz] = AllocationSize]
  OBVIOUS
<1>9. /\ m \in [1..ParamSize -> Values] /\ m[ioResult] = noErr
      /\ \A i \in 1..ParamSize : i \notin {ioResult, ioVFrBlk, ioVAlBlkSiz} => m[i] = b[i]
  BY <1>2, <1>8, FieldsHold
<1>10. Opened(b) = o /\ Counted(b) = c /\ Measured(b) = m
  BY <1>3, <1>4, <1>6, <1>8 DEF Opened, Counted, Measured
<1> QED
  BY <1>2, <1>3, <1>5, <1>7, <1>9, <1>10

(* a trap that names no data, and the block it leaves                       *)
Leaves(trap, ptr, block) ==
  /\ last' = <<trap, ptr>> /\ trap \notin {"other", "BlockMove", "Read", "Write"}
  /\ UNCHANGED <<save_buffer, f_offset>>
  /\ halted' => store' = store
  /\ ~halted' =>
       /\ InMemory(ptr, SizeFor(trap))
       /\ store' = WriteBack(store, ptr, block)
       /\ block \in [1..SizeFor(trap) -> Values]
       /\ \A i \in 1..SizeFor(trap) : i \in Returned(trap) \/ block[i] = store.bytes[ptr + i - 1]
       /\ trap # "SysEnvirons" => block[ioResult] = noErr

LEMMA NamedTrapLeaves ==
  ASSUME Shape, NEW ptr \in Params, NEW name,
         \/ GetVolInfo(ptr, name) \/ FileCreate(ptr, name) \/ Open(ptr, name)
         \/ GetFileInfo(ptr, name) \/ SetFileInfo(ptr, name)
  PROVE  \E trap, block : Leaves(trap, ptr, block)
<1> DEFINE b == Param(ptr)
<1>1. ptr \in Nat /\ ParamSize \in Nat
  BY FileAssumption
<1>2. InMemory(ptr, ParamSize) =>
        /\ b \in [1..ParamSize -> Values]
        /\ \A i \in 1..ParamSize : b[i] = store.bytes[ptr + i - 1]
  BY <1>1, BlockIsRead DEF Param
<1>3. InMemory(ptr, ParamSize) =>
        /\ Done(b) \in [1..ParamSize -> Values] /\ Done(b)[ioResult] = noErr
        /\ \A i \in 1..ParamSize : i # ioResult => Done(b)[i] = store.bytes[ptr + i - 1]
        /\ Opened(b) \in [1..ParamSize -> Values] /\ Opened(b)[ioResult] = noErr
        /\ \A i \in 1..ParamSize :
             i \notin {ioResult, ioRefNum} => Opened(b)[i] = store.bytes[ptr + i - 1]
        /\ Measured(b) \in [1..ParamSize -> Values] /\ Measured(b)[ioResult] = noErr
        /\ \A i \in 1..ParamSize : i \notin {ioResult, ioVFrBlk, ioVAlBlkSiz} =>
             Measured(b)[i] = store.bytes[ptr + i - 1]
  BY <1>2, HandlersSet
<1> HIDE DEF b
<1>4. CASE GetVolInfo(ptr, name)
  <2>1. Leaves("GetVolInfo", ptr, Measured(b))
    BY <1>3, <1>4 DEF GetVolInfo, NamedTrap, BlockTrap, Step, FileUnchanged, Leaves, SizeFor,
                      Returned, b
  <2> QED
    BY <2>1
<1>5. CASE FileCreate(ptr, name)
  <2>1. Leaves("FileCreate", ptr, Done(b))
    BY <1>3, <1>5 DEF FileCreate, NamedTrap, BlockTrap, Step, FileUnchanged, Leaves, SizeFor,
                      Returned, b
  <2> QED
    BY <2>1
<1>6. CASE Open(ptr, name)
  <2>1. Leaves("Open", ptr, Opened(b))
    BY <1>3, <1>6 DEF Open, NamedTrap, BlockTrap, Step, FileUnchanged, Leaves, SizeFor,
                      Returned, b
  <2> QED
    BY <2>1
<1>7. CASE GetFileInfo(ptr, name)
  <2>1. Leaves("GetFileInfo", ptr, Done(b))
    BY <1>3, <1>7 DEF GetFileInfo, NamedTrap, BlockTrap, Step, FileUnchanged, Leaves, SizeFor,
                      Returned, b
  <2> QED
    BY <2>1
<1>8. CASE SetFileInfo(ptr, name)
  <2>1. Leaves("SetFileInfo", ptr, Done(b))
    BY <1>3, <1>8 DEF SetFileInfo, NamedTrap, BlockTrap, Step, FileUnchanged, Leaves, SizeFor,
                      Returned, b
  <2> QED
    BY <2>1
<1> QED
  BY <1>4, <1>5, <1>6, <1>7, <1>8

LEMMA PlainTrapLeaves ==
  ASSUME Shape, NEW ptr \in Params,
         SetEOF(ptr) \/ Allocate(ptr) \/ Close(ptr) \/ SysEnvirons(ptr)
  PROVE  \E trap, block : Leaves(trap, ptr, block)
<1> DEFINE b == Param(ptr)
           e == ReadBlock(ptr, EnvironsSize)
<1>1. ptr \in Nat /\ ParamSize \in Nat /\ EnvironsSize \in Nat
  BY FileAssumption
<1>2. InMemory(ptr, ParamSize) =>
        /\ b \in [1..ParamSize -> Values]
        /\ \A i \in 1..ParamSize : b[i] = store.bytes[ptr + i - 1]
  BY <1>1, BlockIsRead DEF Param
<1>3. InMemory(ptr, ParamSize) =>
        /\ Done(b) \in [1..ParamSize -> Values] /\ Done(b)[ioResult] = noErr
        /\ \A i \in 1..ParamSize : i # ioResult => Done(b)[i] = store.bytes[ptr + i - 1]
        /\ Counted(b) \in [1..ParamSize -> Values] /\ Counted(b)[ioResult] = noErr
        /\ \A i \in 1..ParamSize :
             i \notin {ioResult, ioActCount} => Counted(b)[i] = store.bytes[ptr + i - 1]
  BY <1>2, HandlersSet
<1>4. InMemory(ptr, EnvironsSize) =>
        /\ e \in [1..EnvironsSize -> Values]
        /\ \A i \in 1..EnvironsSize : e[i] = store.bytes[ptr + i - 1]
  BY <1>1, BlockIsRead
<1> HIDE DEF b, e
<1>5. InMemory(ptr, EnvironsSize) =>
        /\ Equipped(e) \in [1..EnvironsSize -> Values]
        /\ \A i \in 1..EnvironsSize : i # hasColorQD => Equipped(e)[i] = store.bytes[ptr + i - 1]
  BY <1>4, FieldsHold DEF Equipped
<1>6. CASE SetEOF(ptr)
  <2>1. Leaves("SetEOF", ptr, Done(b))
    BY <1>3, <1>6 DEF SetEOF, PlainTrap, BlockTrap, Step, FileUnchanged, Leaves, SizeFor,
                      Returned, b
  <2> QED
    BY <2>1
<1>7. CASE Allocate(ptr)
  <2>1. Leaves("Allocate", ptr, Counted(b))
    BY <1>3, <1>7 DEF Allocate, PlainTrap, BlockTrap, Step, FileUnchanged, Leaves, SizeFor,
                      Returned, b
  <2> QED
    BY <2>1
<1>8. CASE Close(ptr)
  <2>1. Leaves("Close", ptr, Done(b))
    BY <1>3, <1>8 DEF Close, PlainTrap, BlockTrap, Step, FileUnchanged, Leaves, SizeFor,
                      Returned, b
  <2> QED
    BY <2>1
<1>9. CASE SysEnvirons(ptr)
  <2>1. Leaves("SysEnvirons", ptr, Equipped(e))
    BY <1>5, <1>9 DEF SysEnvirons, BlockTrap, Step, FileUnchanged, Leaves, SizeFor, Returned, e
  <2> QED
    BY <2>1
<1> QED
  BY <1>6, <1>7, <1>8, <1>9

(* the block a transfer leaves                                              *)
LEMMA TransferLeaves ==
  ASSUME Shape, NEW ptr \in Params, NEW buffer, NEW n,
         Read(ptr, buffer, n) \/ Write(ptr, buffer, n), ~halted'
  PROVE  /\ InMemory(ptr, ParamSize) /\ Counted(Param(ptr)) \in [1..ParamSize -> Values]
         /\ Counted(Param(ptr))[ioResult] = noErr /\ Counted(Param(ptr))[ioActCount] = n
         /\ \A i \in 1..ParamSize : i \notin {ioResult, ioActCount} =>
              Counted(Param(ptr))[i] = store.bytes[ptr + i - 1]
<1>1. PICK b : b = Param(ptr)
  OBVIOUS
<1>2. InMemory(ptr, ParamSize) /\ b[ioReqCount] = n
  BY <1>1 DEF Read, Write, Asks
<1>3. /\ b \in [1..ParamSize -> Values]
      /\ \A i \in 1..ParamSize : b[i] = store.bytes[ptr + i - 1]
  BY <1>1, <1>2, BlockIsRead, FileAssumption DEF Param
<1>4. /\ Counted(b) \in [1..ParamSize -> Values] /\ Counted(b)[ioResult] = noErr
      /\ Counted(b)[ioActCount] = b[ioReqCount]
      /\ \A i \in 1..ParamSize : i \notin {ioResult, ioActCount} => Counted(b)[i] = b[i]
  BY <1>3, HandlersSet
<1> QED
  BY <1>1, <1>2, <1>3, <1>4

LEMMA OperationsWrite ==
  ASSUME Shape, [FileNext]_vars
  PROVE  WriteOf(store, store')
<1>1. CASE MapNext
  <2>1. ASSUME NEW a \in Addresses, NEW vs \in Payloads, CpuRead(a, vs) \/ CpuWrite(a, vs)
        PROVE  WriteOf(store, store')
    <3>1. CASE store' = store
      BY <3>1 DEF WriteOf
    <3>2. CASE CpuWrite(a, vs) /\ ~halted'
      BY <3>2 DEF CpuWrite, WriteOf
    <3> QED
      BY <2>1, <3>1, <3>2 DEF CpuRead, CpuWrite
  <2>2. ASSUME NEW r \in regions, NEW c \in Cuts, NEW vs \in Payloads, RegionWrite(r, c[1], vs)
        PROVE  WriteOf(store, store')
    BY <2>2 DEF RegionWrite, WriteOf
  <2>3. ASSUME NEW c \in Chunks, NEW tag \in Tags, Tag(c[1], c[2], tag)
        PROVE  WriteOf(store, store')
    BY <2>3 DEF Tag, WriteOf
  <2>4. ASSUME NEW source \in Blocks, NEW dest \in Blocks, NEW n \in 2..3,
               BlockMove(source, dest, n)
        PROVE  WriteOf(store, store')
    <3>1. source \in Nat /\ dest \in Nat /\ n \in Nat
      BY RequestsAssumption
    <3>2. PICK copied \in 0..n : Moved(store, store', source, dest, copied)
      BY <2>4, <3>1, BlockMoveMoves
    <3>3. copied \in Nat
      BY <3>1
    <3> QED
      BY <3>2, <3>3 DEF WriteOf
  <2>5. CASE store' = store
    BY <2>5 DEF WriteOf
  <2> QED
    BY <1>1, <2>1, <2>2, <2>3, <2>4, <2>5
       DEF MapNext, Create, CreateRest, SetA5WorldBounds, LogRegionAccess
<1>2. CASE ~MapNext
  <2>1. CASE store' = store
    BY <2>1 DEF WriteOf
  <2>2. ASSUME NEW ptr \in Params, NEW trap, NEW block, Leaves(trap, ptr, block)
        PROVE  WriteOf(store, store')
    <3>1. SizeFor(trap) \in Nat \ {0}
      BY FileAssumption DEF SizeFor
    <3> QED
      BY <2>1, <2>2, <3>1 DEF Leaves, WriteOf
  <2>3. ASSUME NEW ptr \in Params, NEW name \in Blocks,
               \/ GetVolInfo(ptr, name) \/ FileCreate(ptr, name) \/ Open(ptr, name)
               \/ GetFileInfo(ptr, name) \/ SetFileInfo(ptr, name)
               \/ SetEOF(ptr) \/ Allocate(ptr) \/ Close(ptr) \/ SysEnvirons(ptr)
        PROVE  WriteOf(store, store')
    BY <2>2, <2>3, NamedTrapLeaves, PlainTrapLeaves
  <2>7. ASSUME NEW ptr \in Params,
               SetEOF(ptr) \/ Allocate(ptr) \/ Close(ptr) \/ SysEnvirons(ptr)
        PROVE  WriteOf(store, store')
    BY <2>2, <2>7, PlainTrapLeaves
  <2>4. ASSUME NEW ptr \in Params, ReadDateTime(ptr)
        PROVE  WriteOf(store, store')
    BY <2>1, <2>4 DEF ReadDateTime, WriteOf
  <2>5. ASSUME NEW ptr \in Params, NEW buffer \in Blocks, NEW n \in Transfers,
               Read(ptr, buffer, n)
        PROVE  WriteOf(store, store')
    <3>1. CASE ~halted'
      <4>1. Transfer(store, store', ptr, buffer, n)
        BY <2>5, <3>1, TransferLeaves DEF Read, Transfer
      <4> QED
        BY <4>1 DEF WriteOf
    <3> QED
      BY <2>1, <2>5, <3>1 DEF Read
  <2>6. ASSUME NEW ptr \in Params, NEW buffer \in Blocks, NEW n \in Transfers,
               Write(ptr, buffer, n)
        PROVE  WriteOf(store, store')
    <3>1. CASE ~halted'
      <4>1. /\ InMemory(ptr, ParamSize) /\ Counted(Param(ptr)) \in [1..ParamSize -> Values]
            /\ store' = WriteBack(store, ptr, Counted(Param(ptr)))
        BY <2>6, <3>1, TransferLeaves DEF Write
      <4> QED
        BY <4>1, FileAssumption DEF WriteOf
    <3> QED
      BY <2>1, <2>6, <3>1 DEF Write
  <2> QED
    BY <1>2, <2>1, <2>3, <2>4, <2>5, <2>6, <2>7 DEF FileNext, vars, mapVars
<1> QED
  BY <1>1, <1>2

LEMMA StoreWithInitialized ==
  ASSUME NEW s, IsStore(s), NEW set
  PROVE  LET t == [s EXCEPT !.initialized = set]
         IN  /\ IsStore(t) /\ t.bytes = s.bytes /\ t.tags = s.tags /\ t.log = s.log
             /\ t.initialized = set
<1>1. PICK b, g, i, l : b = s.bytes /\ g = s.tags /\ i = s.initialized /\ l = s.log
  OBVIOUS
<1>2. s = [bytes |-> b, tags |-> g, initialized |-> i, log |-> l] /\ DOMAIN b = 0..Size-1
  BY <1>1, Zenon DEF IsStore
<1>3. PICK t : t = [bytes |-> b, tags |-> g, initialized |-> set, log |-> l]
  OBVIOUS
<1>4. [s EXCEPT !.initialized = set] = t
  BY <1>2, <1>3
<1>5. t.bytes = b /\ t.tags = g /\ t.log = l /\ t.initialized = set
  BY <1>3
<1>6. IsStore(t)
  BY <1>2, <1>3, <1>5 DEF IsStore
<1> QED
  BY <1>1, <1>4, <1>5, <1>6, Zenon

LEMMA StoreWithTags ==
  ASSUME NEW s, IsStore(s), NEW set
  PROVE  LET t == [s EXCEPT !.tags = set]
         IN  /\ IsStore(t) /\ t.bytes = s.bytes /\ t.log = s.log
             /\ t.initialized = s.initialized /\ t.tags = set
<1>1. PICK b, g, i, l : b = s.bytes /\ g = s.tags /\ i = s.initialized /\ l = s.log
  OBVIOUS
<1>2. s = [bytes |-> b, tags |-> g, initialized |-> i, log |-> l] /\ DOMAIN b = 0..Size-1
  BY <1>1, Zenon DEF IsStore
<1>3. PICK t : t = [bytes |-> b, tags |-> set, initialized |-> i, log |-> l]
  OBVIOUS
<1>4. [s EXCEPT !.tags = set] = t
  BY <1>2, <1>3
<1>5. t.bytes = b /\ t.tags = set /\ t.log = l /\ t.initialized = i
  BY <1>3
<1>6. IsStore(t)
  BY <1>2, <1>3, <1>5 DEF IsStore
<1> QED
  BY <1>1, <1>4, <1>5, <1>6, Zenon

(* What the traps write.                                                    *)
LEMMA WriteBackWrites ==
  ASSUME NEW s, IsStore(s), NEW ptr \in Nat, NEW size \in Nat, InMemory(ptr, size),
         NEW block \in [1..size -> Values]
  PROVE  /\ IsStore(WriteBack(s, ptr, block))
         /\ \A i \in 1..size : WriteBack(s, ptr, block).bytes[ptr + i - 1] = block[i]
         /\ \A a \in (0..Size-1) \ (ptr .. ptr + size - 1) :
              WriteBack(s, ptr, block).bytes[a] = s.bytes[a]
<1>1. Size \in Nat /\ ptr + size <= Size
  BY SizeAssumption, InMemoryMeans
<1>2. PICK t : t = WriteEach(s, ptr, block)
  OBVIOUS
<1>3. Len(block) = size
  OBVIOUS
<1>4. /\ IsStore(t)
      /\ \A a \in 0..Size-1 :
           t.bytes[a] = IF a >= ptr /\ a < ptr + Len(block) THEN block[a - ptr + 1] ELSE s.bytes[a]
  BY <1>2, <1>3, WriteEachWrites
<1>5. ASSUME NEW i \in 1..size
      PROVE  t.bytes[ptr + i - 1] = block[i]
  <2>1. PICK a \in 0..Size-1 : a = ptr + i - 1
    BY <1>1
  <2>2. a >= ptr /\ a < ptr + size /\ a - ptr + 1 = i
    BY <2>1
  <2> QED
    BY <1>3, <1>4, <2>1, <2>2
<1>6. ASSUME NEW a \in (0..Size-1) \ (ptr .. ptr + size - 1)
      PROVE  t.bytes[a] = s.bytes[a]
  <2>1. ~(a >= ptr /\ a < ptr + size)
    BY <1>1
  <2> QED
    BY <1>3, <1>4, <2>1
<1> QED
  BY <1>2, <1>4, <1>5, <1>6 DEF WriteBack

LEMMA DeliveredWrites ==
  ASSUME NEW s, IsStore(s), NEW buffer \in Nat, NEW n \in Nat
  PROVE  /\ IsStore(Delivered(s, buffer, n))
         /\ \A a \in 0..Size-1 :
              Delivered(s, buffer, n).bytes[a] =
                IF a >= buffer /\ a < buffer + n THEN save_buffer[f_offset + (a - buffer + 1) - 1]
                ELSE s.bytes[a]
<1>1. PICK values : values = [i \in 1..n |-> save_buffer[f_offset + i - 1]]
  OBVIOUS
<1>2. PICK t : t = WriteEach(s, buffer, values)
  OBVIOUS
<1>3. Delivered(s, buffer, n) = t
  BY <1>1, <1>2, Zenon DEF Delivered
<1>4. Len(values) = n
  BY <1>1
<1>5. /\ IsStore(t)
      /\ \A a \in 0..Size-1 :
           t.bytes[a] = IF a >= buffer /\ a < buffer + n THEN values[a - buffer + 1] ELSE s.bytes[a]
  <2>1. buffer \in Nat /\ Len(values) \in Nat
    BY <1>4
  <2>2. /\ IsStore(t)
        /\ \A a \in 0..Size-1 :
             t.bytes[a] = IF a >= buffer /\ a < buffer + Len(values)
                          THEN values[a - buffer + 1] ELSE s.bytes[a]
    BY <1>2, <2>1, WriteEachWrites
  <2> QED
    BY <1>4, <2>2
<1>6. ASSUME NEW a \in 0..Size-1, a >= buffer, a < buffer + n
      PROVE  values[a - buffer + 1] = save_buffer[f_offset + (a - buffer + 1) - 1]
  <2>1. a - buffer + 1 \in 1..n
    BY <1>6, SizeAssumption
  <2> QED
    BY <1>1, <2>1
<1> QED
  BY <1>3, <1>5, <1>6
-----------------------------------------------------------------------------
(* The order of the spans.                                                  *)
SameSpan(s, t) == s.start = t.start /\ s.end = t.end /\ s.tag = t.tag

AllDiffer(spans) == \A s, t \in spans : SameSpan(s, t) => s = t

LEMMA SpanFields ==
  ASSUME NEW s \in Spans
  PROVE  /\ s.start \in Nat /\ s.end \in Nat /\ s.writes \in Nat
         /\ s.tag \in Tags \cup {Untagged}
BY DEF Spans

TagBefore(t, u) == t # u /\ (t = Untagged \/ <<t, u>> \in TagOrder)

LEMMA TagsAreOrdered ==
  ASSUME NEW t \in Tags \cup {Untagged}, NEW u \in Tags \cup {Untagged},
         NEW v \in Tags \cup {Untagged}
  PROVE  /\ t = u \/ TagBefore(t, u) \/ TagBefore(u, t)
         /\ TagBefore(t, u) /\ TagBefore(u, v) => TagBefore(t, v)
<1>1. /\ Untagged \notin Tags /\ \A x, y : <<x, y>> \in TagOrder => x \in Tags /\ y \in Tags
      /\ \A x \in Tags : <<x, x>> \notin TagOrder
      /\ \A x, y \in Tags : x # y => <<x, y>> \in TagOrder \/ <<y, x>> \in TagOrder
      /\ \A x, y, z \in Tags :
           <<x, y>> \in TagOrder /\ <<y, z>> \in TagOrder => <<x, z>> \in TagOrder
  BY TagsAssumption
<1>2. PICK none : none = Untagged
  OBVIOUS
<1> DEFINE Less(x, y) == x # y /\ (x = none \/ <<x, y>> \in TagOrder)
<1>3. t = u \/ Less(t, u) \/ Less(u, t)
  BY <1>1, <1>2, Zenon
<1>4. ASSUME Less(t, u), Less(u, v) PROVE Less(t, v)
  BY <1>1, <1>2, <1>4, Zenon
<1> QED
  BY <1>2, <1>3, <1>4, Zenon DEF TagBefore

LEMMA BeforeByTag ==
  ASSUME NEW s, NEW t
  PROVE  SpanBefore(s, t) <=>
           \/ s.start < t.start
           \/ s.start = t.start /\ s.end > t.end
           \/ s.start = t.start /\ s.end = t.end /\ TagBefore(s.tag, t.tag)
BY Zenon DEF SpanBefore, TagBefore

LEMMA BeforeIsAnOrder ==
  ASSUME NEW s \in Spans, NEW t \in Spans, NEW u \in Spans
  PROVE  /\ ~SpanBefore(s, s)
         /\ SameSpan(s, t) \/ SpanBefore(s, t) \/ SpanBefore(t, s)
         /\ SpanBefore(s, t) /\ SpanBefore(t, u) => SpanBefore(s, u)
         /\ SpanBefore(s, t) => s.start <= t.start
<1>1. /\ s.start \in Nat /\ s.end \in Nat /\ t.start \in Nat /\ t.end \in Nat
      /\ u.start \in Nat /\ u.end \in Nat
      /\ ~TagBefore(s.tag, s.tag)
      /\ s.tag = t.tag \/ TagBefore(s.tag, t.tag) \/ TagBefore(t.tag, s.tag)
      /\ TagBefore(s.tag, t.tag) /\ TagBefore(t.tag, u.tag) => TagBefore(s.tag, u.tag)
  <2>1. ~TagBefore(s.tag, s.tag)
    BY DEF TagBefore
  <2> QED
    BY <2>1, SpanFields, TagsAreOrdered
<1>2. PICK st, tu, su, ts : /\ st = TagBefore(s.tag, t.tag) /\ tu = TagBefore(t.tag, u.tag)
                            /\ su = TagBefore(s.tag, u.tag) /\ ts = TagBefore(t.tag, s.tag)
  OBVIOUS
<1> QED
  BY <1>1, BeforeByTag DEF SameSpan

(* a span's place: how many spans come before it                            *)
Before(spans, s) == {t \in spans : SpanBefore(t, s)}

Place(spans) == [s \in spans |-> Cardinality(Before(spans, s))]

LEMMA PlacesAreOrdered ==
  ASSUME NEW spans, spans \subseteq Spans, IsFiniteSet(spans), AllDiffer(spans)
  PROVE  /\ Cardinality(spans) \in Nat
         /\ \A s \in spans : Place(spans)[s] \in 0..Cardinality(spans)-1
         /\ \A s, t \in spans : SpanBefore(s, t) => Place(spans)[s] < Place(spans)[t]
<1>1. Cardinality(spans) \in Nat
  BY FS_CardinalityType
<1>2. ASSUME NEW s \in spans
      PROVE  /\ Place(spans)[s] = Cardinality(Before(spans, s))
             /\ Cardinality(Before(spans, s)) \in Nat /\ IsFiniteSet(Before(spans, s))
             /\ Place(spans)[s] \in 0..Cardinality(spans)-1
  <2>1. Place(spans)[s] = Cardinality(Before(spans, s))
    BY DEF Place
  <2>2. s \notin Before(spans, s) /\ Before(spans, s) \subseteq spans
    BY BeforeIsAnOrder DEF Before
  <2>3. IsFiniteSet(Before(spans, s))
    BY <2>2, FS_Subset
  <2>4. Cardinality(Before(spans, s)) \in Nat
    BY <2>3, FS_CardinalityType
  <2>5. Cardinality(Before(spans, s)) <= Cardinality(spans)
    BY <2>2, FS_Subset
  <2>6. Cardinality(Before(spans, s)) # Cardinality(spans)
    BY <2>2, FS_Subset
  <2>7. Cardinality(Before(spans, s)) \in 0..Cardinality(spans)-1
    BY <1>1, <2>4, <2>5, <2>6
  <2> QED
    BY <2>1, <2>3, <2>4, <2>7
<1>3. ASSUME NEW s \in spans, NEW t \in spans, SpanBefore(s, t)
      PROVE  Place(spans)[s] < Place(spans)[t]
  <2> DEFINE a == Before(spans, s)
             b == Before(spans, t)
  <2>1. a \subseteq b /\ s \in b /\ s \notin a
    BY <1>3, BeforeIsAnOrder DEF Before
  <2>2. IsFiniteSet(b) /\ Cardinality(a) \in Nat /\ Cardinality(b) \in Nat
    BY <1>2
  <2> HIDE DEF a, b
  <2>3. Cardinality(a) <= Cardinality(b) /\ Cardinality(a) # Cardinality(b)
    BY <2>1, <2>2, FS_Subset
  <2>4. Cardinality(a) < Cardinality(b)
    BY <2>2, <2>3
  <2> QED
    BY <1>2, <2>4 DEF a, b
<1> QED
  BY <1>1, <1>2, <1>3

(* memory_tags_ after std::sort: every span once, in order                  *)
LEMMA SortedSorts ==
  ASSUME NEW spans, spans \subseteq Spans, IsFiniteSet(spans), AllDiffer(spans)
  PROVE  LET n == Cardinality(spans)
             list == Sorted(spans)
         IN  /\ n \in Nat /\ DOMAIN list = 1..n
             /\ \A i \in 1..n : list[i] \in spans
             /\ \A s \in spans : \E i \in 1..n : list[i] = s
             /\ \A i, j \in 1..n : i < j => list[i] # list[j] /\ SpanBefore(list[i], list[j])
<1> DEFINE n == Cardinality(spans)
           list == Sorted(spans)
<1>1. PICK place : place = Place(spans)
  OBVIOUS
<1>2. /\ n \in Nat
      /\ \A s \in spans : place[s] \in 0..n-1 /\ place[s] = Cardinality(Before(spans, s))
      /\ \A s, t \in spans : SpanBefore(s, t) => place[s] < place[t]
      /\ place \in [spans -> 0..n-1]
  <2>1. place = [s \in spans |-> Cardinality(Before(spans, s))]
    BY <1>1 DEF Place
  <2> QED
    BY <1>1, <2>1, PlacesAreOrdered
<1>3. ASSUME NEW s \in spans, NEW t \in spans, place[s] = place[t]
      PROVE  s = t
  <2>1. place[s] \in Int
    BY <1>2
  <2>2. ~SpanBefore(s, t) /\ ~SpanBefore(t, s)
    BY <1>2, <1>3, <2>1
  <2>3. s \in Spans /\ t \in Spans
    OBVIOUS
  <2>4. SameSpan(s, t)
    BY <2>2, <2>3, BeforeIsAnOrder
  <2> QED
    BY <2>4 DEF AllDiffer
<1>4. \A i \in 0..n-1 : \E s \in spans : place[s] = i
  <2>1. place \in Injection(spans, 0..n-1)
    BY <1>2, <1>3 DEF Injection, IsInjective
  <2>2. IsFiniteSet(0..n-1) /\ Cardinality(0..n-1) = n
    <3>1. 0 \in Int /\ n - 1 \in Int
      BY <1>2
    <3>2. IsFiniteSet(0..n-1) /\ Cardinality(0..n-1) = IF 0 > n - 1 THEN 0 ELSE (n - 1) - 0 + 1
      BY <3>1, FS_Interval
    <3> QED
      BY <1>2, <3>2
  <2>3. place \in Surjection(spans, 0..n-1)
    BY <2>1, <2>2, FS_Injection
  <2> QED
    BY <2>3 DEF Surjection
<1>5. ASSUME NEW i \in 1..n
      PROVE  list[i] \in spans /\ place[list[i]] = i - 1
  <2>1. list[i] = CHOOSE s \in spans : Cardinality({t \in spans : SpanBefore(t, s)}) = i - 1
    BY <1>2 DEF Sorted
  <2>2. list[i] = CHOOSE s \in spans : Cardinality(Before(spans, s)) = i - 1
    BY <2>1, Zenon DEF Before
  <2>3. \E s \in spans : Cardinality(Before(spans, s)) = i - 1
    <3>1. i - 1 \in 0..n-1
      BY <1>2
    <3> QED
      BY <1>2, <1>4, <3>1
  <2>4. list[i] \in spans /\ Cardinality(Before(spans, list[i])) = i - 1
    <3> HIDE DEF list
    <3> QED
      BY <2>2, <2>3, Zenon
  <2> QED
    BY <1>2, <2>4
<1>6. DOMAIN list = 1..n
  BY DEF Sorted
<1> HIDE DEF list, n
<1>7. ASSUME NEW s \in spans
      PROVE  \E i \in 1..n : list[i] = s
  <2>1. place[s] + 1 \in 1..n
    BY <1>2
  <2>2. PICK i \in 1..n : i = place[s] + 1
    BY <2>1
  <2>3. list[i] \in spans /\ place[list[i]] = place[s]
    BY <1>2, <1>5, <2>2
  <2> QED
    BY <1>3, <2>3
<1>8. ASSUME NEW i \in 1..n, NEW j \in 1..n, i < j
      PROVE  list[i] # list[j] /\ SpanBefore(list[i], list[j])
  <2>1. /\ list[i] \in spans /\ list[j] \in spans
        /\ place[list[i]] = i - 1 /\ place[list[j]] = j - 1
    BY <1>5
  <2>2. list[i] # list[j]
    BY <1>2, <1>8, <2>1
  <2>3. ~SpanBefore(list[j], list[i])
    BY <1>2, <1>8, <2>1
  <2>4. ~SameSpan(list[i], list[j])
    BY <2>1, <2>2 DEF AllDiffer
  <2>5. list[i] \in Spans /\ list[j] \in Spans
    BY <2>1
  <2> QED
    BY <2>2, <2>3, <2>4, <2>5, BeforeIsAnOrder
<1> QED
  BY <1>2, <1>5, <1>6, <1>7, <1>8 DEF list, n
-----------------------------------------------------------------------------
(* The counters, and the writes they stand for.                             *)
CountersOf(spans) == {s \in spans : s.tag = Untagged}

InSpan(write, s) == write[1] >= s.start /\ write[2] <= s.end

Apart(s, t) == s.end < t.start \/ t.end < s.start

Logged(log) == UNION {log[i][1] .. log[i][2] - 1 : i \in DOMAIN log}

Inside(log, s) == {i \in DOMAIN log : InSpan(log[i], s)}

Accounted(spans, log) ==
  /\ spans \subseteq Spans /\ IsFiniteSet(spans) /\ AllDiffer(spans)
  /\ log \in Seq(Nat \X Nat)
  /\ \A i \in DOMAIN log : log[i][1] < log[i][2]
  /\ \A i \in DOMAIN log : \E c \in CountersOf(spans) : InSpan(log[i], c)
  /\ \A c \in CountersOf(spans) :
       /\ c.start < c.end
       /\ Covered(c) \subseteq Logged(log)
       /\ c.writes + 1 = Cardinality(Inside(log, c))
  /\ \A c, e \in CountersOf(spans) : c # e => Apart(c, e)

LEMMA LoggedMore ==
  ASSUME NEW log \in Seq(Nat \X Nat), NEW from \in Nat, NEW to \in Nat
  PROVE  LET longer == Append(log, <<from, to>>)
         IN  /\ longer \in Seq(Nat \X Nat)
             /\ DOMAIN longer = 1..(Len(log) + 1) /\ DOMAIN log = 1..Len(log) /\ Len(log) \in Nat
             /\ longer[Len(log) + 1] = <<from, to>>
             /\ \A i \in 1..Len(log) : longer[i] = log[i]
             /\ Logged(longer) = Logged(log) \cup (from .. to - 1)
<1> DEFINE longer == Append(log, <<from, to>>)
<1>1. PICK n \in Nat : n = Len(log)
  OBVIOUS
<1>2. /\ longer \in Seq(Nat \X Nat)
      /\ DOMAIN longer = 1..(n + 1) /\ DOMAIN log = 1..n
      /\ longer[n + 1] = <<from, to>>
      /\ \A i \in 1..n : longer[i] = log[i]
  BY <1>1
<1> HIDE DEF longer
<1>3. ASSUME NEW x \in Logged(longer)
      PROVE  x \in Logged(log) \cup (from .. to - 1)
  <2>1. PICK i \in 1..(n + 1) : x \in longer[i][1] .. longer[i][2] - 1
    BY <1>2 DEF Logged
  <2>2. CASE i = n + 1
    BY <1>2, <2>1, <2>2
  <2>3. CASE i # n + 1
    <3>1. i \in 1..n
      BY <1>1, <2>3
    <3>2. longer[i] = log[i]
      BY <1>2, <3>1
    <3> QED
      BY <1>2, <2>1, <3>1, <3>2 DEF Logged
  <2> QED
    BY <2>2, <2>3
<1>4. ASSUME NEW x \in Logged(log)
      PROVE  x \in Logged(longer)
  <2>1. PICK i \in 1..n : x \in log[i][1] .. log[i][2] - 1
    BY <1>2 DEF Logged
  <2>2. i \in DOMAIN longer /\ longer[i] = log[i]
    BY <1>2
  <2> QED
    BY <2>1, <2>2 DEF Logged
<1>5. ASSUME NEW x \in from .. to - 1
      PROVE  x \in Logged(longer)
  <2>1. n + 1 \in DOMAIN longer /\ longer[n + 1][1] = from /\ longer[n + 1][2] = to
    BY <1>2
  <2> QED
    BY <2>1 DEF Logged
<1>6. Logged(longer) = Logged(log) \cup (from .. to - 1)
  BY <1>3, <1>4, <1>5
<1> QED
  BY <1>1, <1>2, <1>6 DEF longer

(* Two spans that are not apart make one that covers just their bytes.      *)
Joint(a, b) == [start  |-> Smaller(a.start, b.start),
                end    |-> Larger(a.end, b.end),
                tag    |-> Untagged,
                writes |-> a.writes + b.writes + 1]

LEMMA JointCovers ==
  ASSUME NEW a \in Spans, NEW b \in Spans, ~Apart(a, b), a.start < a.end, b.start < b.end
  PROVE  /\ Joint(a, b) \in Spans /\ Joint(a, b).tag = Untagged
         /\ Joint(a, b).writes = a.writes + b.writes + 1
         /\ Joint(a, b).start < Joint(a, b).end
         /\ Joint(a, b).start <= a.start /\ a.end <= Joint(a, b).end
         /\ Joint(a, b).start <= b.start /\ b.end <= Joint(a, b).end
         /\ Covered(Joint(a, b)) \subseteq Covered(a) \cup Covered(b)
<1>1. /\ a.start \in Nat /\ a.end \in Nat /\ b.start \in Nat /\ b.end \in Nat
      /\ a.writes \in Nat /\ b.writes \in Nat
  BY SpanFields
<1>2. PICK low, high, writes : /\ low = Smaller(a.start, b.start)
                               /\ high = Larger(a.end, b.end)
                               /\ writes = a.writes + b.writes + 1
  OBVIOUS
<1>3. PICK j : j = [start |-> low, end |-> high, tag |-> Untagged, writes |-> writes]
  OBVIOUS
<1>4. Joint(a, b) = j
  BY <1>2, <1>3, Zenon DEF Joint
<1>5. /\ low \in Nat /\ high \in Nat /\ writes \in Nat
      /\ low < high /\ low <= a.start /\ a.end <= high /\ low <= b.start /\ b.end <= high
      /\ \A x \in low .. high - 1 : x \in a.start .. a.end - 1 \/ x \in b.start .. b.end - 1
  BY <1>1, <1>2 DEF Apart, Smaller, Larger
<1>6. j \in Spans /\ j.start = low /\ j.end = high /\ j.tag = Untagged /\ j.writes = writes
  BY <1>3, <1>5 DEF Spans
<1>7. Covered(j) \subseteq Covered(a) \cup Covered(b)
  BY <1>5, <1>6 DEF Covered
<1> QED
  BY <1>2, <1>4, <1>5, <1>6, <1>7

LEMMA MergeMeets ==
  ASSUME NEW acc, acc.new \in Spans, acc = [new |-> acc.new, kept |-> acc.kept], NEW s \in Spans
  PROVE  Merge(acc, s) = IF s.tag # Untagged \/ Apart(s, acc.new)
                         THEN [new |-> acc.new, kept |-> acc.kept \cup {s}]
                         ELSE [new |-> Joint(acc.new, s), kept |-> acc.kept]
<1>1. PICK new, kept : new = acc.new /\ kept = acc.kept
  OBVIOUS
<1>0. acc = [new |-> new, kept |-> kept]
  BY <1>1
<1>2. PICK more, joint : more = kept \cup {s} /\ joint = Joint(new, s)
  OBVIOUS
<1>3. Merge(acc, s) = IF s.tag # Untagged \/ s.end < new.start \/ s.start > new.end
                      THEN [acc EXCEPT !.kept = more]
                      ELSE [acc EXCEPT !.new = joint]
  BY <1>1, <1>2, Zenon DEF Merge, Joint
<1>4. [acc EXCEPT !.kept = more] = [new |-> new, kept |-> more]
  BY <1>0
<1>5. [acc EXCEPT !.new = joint] = [new |-> joint, kept |-> kept]
  BY <1>0
<1>6. Apart(s, new) <=> s.end < new.start \/ s.start > new.end
  BY <1>1, SpanFields DEF Apart
<1> QED
  BY <1>1, <1>2, <1>3, <1>4, <1>5, <1>6, Zenon
-----------------------------------------------------------------------------
(* RecordWrite after the spans `seen': those that are not kept have joined  *)
(* the new one, and the others are apart from it.                           *)
Stood(log, spans) == {i \in DOMAIN log : \E c \in spans : InSpan(log[i], c)}

Gathered(seen, log, from, to, acc) ==
  /\ acc = [new |-> acc.new, kept |-> acc.kept]
  /\ acc.new \in Spans /\ acc.new.tag = Untagged /\ acc.new.start < acc.new.end
  /\ acc.new.start <= from /\ to <= acc.new.end
  /\ Covered(acc.new) \subseteq Logged(log) \cup (from .. to - 1)
  /\ acc.kept \subseteq seen
  /\ \A c \in CountersOf(acc.kept) : Apart(c, acc.new)
  /\ \A s \in seen \ acc.kept :
       s.tag = Untagged /\ acc.new.start <= s.start /\ s.end <= acc.new.end
  /\ acc.new.writes = Cardinality(Stood(log, seen \ acc.kept))

LEMMA StoodIsFinite ==
  ASSUME NEW log \in Seq(Nat \X Nat), NEW spans
  PROVE  IsFiniteSet(Stood(log, spans)) /\ Cardinality(Stood(log, spans)) \in Nat
<1>1. Len(log) \in Nat /\ DOMAIN log = 1..Len(log)
  OBVIOUS
<1>2. IsFiniteSet(DOMAIN log)
  BY <1>1, FS_Interval
<1>3. Stood(log, spans) \subseteq DOMAIN log
  BY DEF Stood
<1>4. IsFiniteSet(Stood(log, spans))
  BY <1>2, <1>3, FS_Subset
<1> QED
  BY <1>4, FS_CardinalityType

LEMMA StoodForOne ==
  ASSUME NEW log, NEW s
  PROVE  Stood(log, {s}) = Inside(log, s)
BY DEF Stood, Inside

(* no write is counted twice                                                *)
LEMMA StoodApart ==
  ASSUME NEW spans, NEW log, Accounted(spans, log), NEW merged, merged \subseteq CountersOf(spans),
         NEW s \in CountersOf(spans), s \notin merged
  PROVE  /\ Stood(log, merged \cup {s}) = Stood(log, merged) \cup Inside(log, s)
         /\ Stood(log, merged) \cap Inside(log, s) = {}
<1>1. Stood(log, merged \cup {s}) = Stood(log, merged) \cup Inside(log, s)
  BY DEF Stood, Inside
<1>2. ASSUME NEW i, i \in Stood(log, merged), i \in Inside(log, s)
      PROVE  FALSE
  <2>1. PICK c \in merged : InSpan(log[i], c)
    BY <1>2 DEF Stood
  <2>2. i \in DOMAIN log /\ InSpan(log[i], s)
    BY <1>2 DEF Inside
  <2>3. Apart(c, s)
    BY <2>1 DEF Accounted
  <2>4. log[i] \in Nat \X Nat
    BY <2>2 DEF Accounted
  <2>5. log[i][1] \in Nat /\ log[i][2] \in Nat /\ log[i][1] < log[i][2]
    BY <2>2, <2>4 DEF Accounted
  <2>6. c \in Spans /\ s \in Spans
    BY <2>1 DEF Accounted, CountersOf
  <2>7. c.start \in Nat /\ c.end \in Nat /\ s.start \in Nat /\ s.end \in Nat
    BY <2>6, SpanFields
  <2> QED
    BY <2>1, <2>2, <2>3, <2>5, <2>7 DEF InSpan, Apart
<1> QED
  BY <1>1, <1>2

LEMMA GatherStep ==
  ASSUME NEW spans, NEW log, Accounted(spans, log), NEW from \in Nat, NEW to \in Nat,
         NEW seen, seen \subseteq spans, NEW s \in spans, s \notin seen,
         \A t \in seen : t.start <= s.start,
         NEW acc, Gathered(seen, log, from, to, acc)
  PROVE  Gathered(seen \cup {s}, log, from, to, Merge(acc, s))
<1>1. PICK new, kept : new = acc.new /\ kept = acc.kept
  OBVIOUS
<1>2. /\ acc = [new |-> new, kept |-> kept]
      /\ new \in Spans /\ new.tag = Untagged /\ new.start < new.end
      /\ new.start <= from /\ to <= new.end
      /\ Covered(new) \subseteq Logged(log) \cup (from .. to - 1)
      /\ kept \subseteq seen
      /\ \A c \in CountersOf(kept) : Apart(c, new)
      /\ \A t \in seen \ kept : t.tag = Untagged /\ new.start <= t.start /\ t.end <= new.end
      /\ new.writes = Cardinality(Stood(log, seen \ kept))
  BY <1>1, Zenon DEF Gathered
<1>3. s \in Spans /\ spans \subseteq Spans /\ log \in Seq(Nat \X Nat)
  BY DEF Accounted
<1>4. Merge(acc, s) = IF s.tag # Untagged \/ Apart(s, new)
                      THEN [new |-> new, kept |-> kept \cup {s}]
                      ELSE [new |-> Joint(new, s), kept |-> kept]
  <2>1. acc.new \in Spans /\ acc = [new |-> acc.new, kept |-> acc.kept]
    BY <1>1, <1>2
  <2>2. Merge(acc, s) = IF s.tag # Untagged \/ Apart(s, acc.new)
                        THEN [new |-> acc.new, kept |-> acc.kept \cup {s}]
                        ELSE [new |-> Joint(acc.new, s), kept |-> acc.kept]
    BY <1>3, <2>1, MergeMeets
  <2> QED
    BY <1>1, <2>2, Zenon
<1>5. CASE s.tag # Untagged \/ Apart(s, new)
  <2>1. PICK more, next : more = kept \cup {s} /\ next = [new |-> new, kept |-> more]
    OBVIOUS
  <2>2. Merge(acc, s) = next /\ next.new = new /\ next.kept = more
    BY <1>4, <1>5, <2>1
  <2>3. (seen \cup {s}) \ more = seen \ kept
    BY <1>2, <2>1
  <2>4. \A c \in CountersOf(more) : Apart(c, new)
    BY <1>2, <1>5, <2>1 DEF CountersOf
  <2>5. more \subseteq seen \cup {s}
    BY <1>2, <2>1
  <2>6. Gathered(seen \cup {s}, log, from, to, next)
    BY <1>2, <2>1, <2>2, <2>3, <2>4, <2>5, Zenon DEF Gathered
  <2> QED
    BY <2>2, <2>6
<1>6. CASE s.tag = Untagged /\ ~Apart(s, new)
  <2>1. PICK joint, next : joint = Joint(new, s) /\ next = [new |-> joint, kept |-> kept]
    OBVIOUS
  <2>2. Merge(acc, s) = next /\ next.new = joint /\ next.kept = kept
    BY <1>4, <1>6, <2>1
  <2>3. s \in CountersOf(spans) /\ s.start < s.end /\ Covered(s) \subseteq Logged(log)
    BY <1>6 DEF Accounted, CountersOf
  <2>4. s.writes + 1 = Cardinality(Inside(log, s))
    BY <2>3 DEF Accounted
  <2>5. ~Apart(new, s)
    BY <1>2, <1>3, <1>6 DEF Apart
  <2>6. /\ joint \in Spans /\ joint.tag = Untagged /\ joint.start < joint.end
        /\ joint.writes = new.writes + s.writes + 1
        /\ joint.start <= new.start /\ new.end <= joint.end
        /\ joint.start <= s.start /\ s.end <= joint.end
        /\ Covered(joint) \subseteq Covered(new) \cup Covered(s)
    BY <1>2, <1>3, <2>1, <2>3, <2>5, JointCovers
  <2>7. /\ joint.start \in Nat /\ joint.end \in Nat /\ new.start \in Nat /\ new.end \in Nat
        /\ s.start \in Nat /\ s.end \in Nat /\ new.writes \in Nat /\ s.writes \in Nat
    BY <1>2, <1>3, <2>6, SpanFields
  <2>8. joint.start <= from /\ to <= joint.end
    BY <1>2, <2>6, <2>7
  <2>9. Covered(joint) \subseteq Logged(log) \cup (from .. to - 1)
    BY <1>2, <2>3, <2>6
  <2>10. ASSUME NEW c \in CountersOf(kept)
         PROVE  Apart(c, joint)
    <3>1. c \in CountersOf(spans) /\ c # s /\ c.start <= s.start /\ c \in Spans
      BY <1>2, <1>3 DEF CountersOf
    <3>2. Apart(c, s) /\ Apart(c, new) /\ c.start < c.end
      BY <1>2, <2>3, <3>1 DEF Accounted
    <3>3. c.start \in Nat /\ c.end \in Nat
      BY <3>1, SpanFields
    <3>4. joint.start = Smaller(new.start, s.start)
      BY <2>1 DEF Joint
    <3>5. c.end < s.start
      BY <2>3, <2>7, <3>1, <3>2, <3>3 DEF Apart
    <3>6. c.end < new.start
      BY <1>6, <2>7, <3>1, <3>2, <3>3 DEF Apart
    <3> QED
      BY <2>7, <3>3, <3>4, <3>5, <3>6 DEF Apart, Smaller
  <2>11. PICK merged : merged = seen \ kept
    OBVIOUS
  <2>12. (seen \cup {s}) \ kept = merged \cup {s}
    BY <1>2, <2>11
  <2>13. \A t \in merged \cup {s} :
           t.tag = Untagged /\ joint.start <= t.start /\ t.end <= joint.end
    <3>1. ASSUME NEW t \in merged
          PROVE  t.tag = Untagged /\ joint.start <= t.start /\ t.end <= joint.end
      <4>1. t \in Spans /\ t.tag = Untagged /\ new.start <= t.start /\ t.end <= new.end
        BY <1>2, <1>3, <2>11
      <4>2. t.start \in Nat /\ t.end \in Nat
        BY <4>1, SpanFields
      <4> QED
        BY <2>6, <2>7, <4>1, <4>2
    <3> QED
      BY <1>6, <2>6, <3>1
  <2>14. joint.writes = Cardinality(Stood(log, merged \cup {s}))
    <3>1. merged \subseteq CountersOf(spans) /\ s \notin merged
      BY <1>2, <2>11 DEF CountersOf
    <3>2. PICK old, one : old = Stood(log, merged) /\ one = Inside(log, s)
      OBVIOUS
    <3>3. Stood(log, merged \cup {s}) = old \cup one /\ old \cap one = {}
      BY <2>3, <3>1, <3>2, StoodApart
    <3>4. /\ IsFiniteSet(old) /\ IsFiniteSet(one)
          /\ Cardinality(old) \in Nat /\ Cardinality(one) \in Nat
      BY <1>3, <3>2, StoodIsFinite, StoodForOne
    <3>5. Cardinality(old \cup one) = Cardinality(old) + Cardinality(one)
      <4>1. Cardinality(old \cup one) = Cardinality(old) + Cardinality(one) - Cardinality({})
        BY <3>3, <3>4, FS_Union
      <4>2. Cardinality({}) = 0
        BY FS_EmptySet
      <4> QED
        BY <3>4, <4>1, <4>2
    <3>6. new.writes = Cardinality(old) /\ s.writes + 1 = Cardinality(one)
      BY <1>2, <2>4, <2>11, <3>2
    <3>7. joint.writes = Cardinality(old) + Cardinality(one)
      BY <2>6, <2>7, <3>4, <3>6
    <3> QED
      BY <3>3, <3>5, <3>7
  <2>15. kept \subseteq seen \cup {s}
    BY <1>2
  <2>16. Gathered(seen \cup {s}, log, from, to, next)
    BY <2>1, <2>2, <2>6, <2>8, <2>9, <2>10, <2>12, <2>13, <2>14, <2>15, Zenon DEF Gathered
  <2> QED
    BY <2>2, <2>16
<1> QED
  BY <1>5, <1>6

LEMMA GatherAll ==
  ASSUME NEW spans, NEW log, Accounted(spans, log), NEW from \in Nat, NEW to \in Nat, from < to
  PROVE  \E acc : /\ Gathered(spans, log, from, to, acc)
                  /\ RecordWrite(spans, from, to) = acc.kept \cup {acc.new}
<1>1. PICK list, n, new : /\ list = Sorted(spans) /\ n = Cardinality(spans)
                          /\ new = [start |-> from, end |-> to, tag |-> Untagged, writes |-> 0]
  OBVIOUS
<1>2. PICK base, loop : /\ base = [new |-> new, kept |-> {}]
                        /\ loop = [kind |-> "merge", spans |-> list]
  OBVIOUS
<1>3. /\ n \in Nat /\ DOMAIN list = 1..n
      /\ \A i \in 1..n : list[i] \in spans
      /\ \A s \in spans : \E i \in 1..n : list[i] = s
      /\ \A i, j \in 1..n : i < j => list[i] # list[j] /\ SpanBefore(list[i], list[j])
  BY <1>1, SortedSorts DEF Accounted
<1>4. PICK acc : acc = FoldLeft(Merge, base, list)
  OBVIOUS
<1>5. RecordWrite(spans, from, to) = acc.kept \cup {acc.new}
  BY <1>1, <1>2, <1>4, Zenon DEF RecordWrite
<1>6. PICK h : Runs(h, loop, n, base) /\ acc = h[n]
  <2>1. \E h : Runs(h, loop, n, base) /\ FoldLeft(Merge, base, list) = h[n]
    BY <1>2, <1>3, MergeLoop
  <2> QED
    BY <1>4, <2>1
<1> DEFINE Seen(k) == {list[i] : i \in 1..k}
           S == {k \in 0..n : Gathered(Seen(k), log, from, to, h[k])}
<1>7. Gathered(Seen(0), log, from, to, h[0])
  <2>1. h[0] = base
    BY <1>6 DEF Runs
  <2>2. base.new = new /\ base.kept = {} /\ base = [new |-> base.new, kept |-> base.kept]
    BY <1>2
  <2>3. /\ new \in Spans /\ new.tag = Untagged /\ new.start = from /\ new.end = to /\ new.writes = 0
        /\ Covered(new) = from .. to - 1
    BY <1>1 DEF Spans, Covered
  <2>4. Seen(0) = {} /\ CountersOf({}) = {} /\ Stood(log, {}) = {}
    BY DEF CountersOf, Stood
  <2>5. Cardinality(Stood(log, {})) = 0
    BY <2>4, FS_EmptySet
  <2> HIDE DEF Seen
  <2>6. Gathered({}, log, from, to, base)
    BY <2>2, <2>3, <2>4, <2>5 DEF Gathered
  <2> QED
    BY <2>1, <2>4, <2>6
<1>8. ASSUME NEW k \in 1..n, Gathered(Seen(k - 1), log, from, to, h[k - 1])
      PROVE  Gathered(Seen(k), log, from, to, h[k])
  <2>1. PICK seen, s, a : seen = Seen(k - 1) /\ s = list[k] /\ a = h[k - 1]
    OBVIOUS
  <2>2. h[k] = Merge(a, s)
    BY <1>2, <1>6, <2>1 DEF Runs, LoopStep
  <2>3. Seen(k) = seen \cup {s}
    <3>1. 1..k = (1..(k - 1)) \cup {k}
      OBVIOUS
    <3> QED
      BY <2>1, <3>1
  <2>4. ASSUME NEW t \in seen
        PROVE  t \in spans /\ t # s /\ t.start <= s.start
    <3>1. PICK i \in 1..(k - 1) : t = list[i]
      BY <2>1
    <3>2. i \in 1..n /\ i < k
      BY <1>3, <3>1
    <3>3. t \in spans /\ s \in spans /\ t # s /\ SpanBefore(t, s)
      BY <1>3, <2>1, <3>1, <3>2
    <3>4. t \in Spans /\ s \in Spans
      BY <3>3 DEF Accounted
    <3> QED
      BY <3>3, <3>4, BeforeIsAnOrder
  <2>5. s \in spans /\ seen \subseteq spans /\ s \notin seen
    BY <1>3, <2>1, <2>4
  <2>6. Gathered(seen, log, from, to, a)
    BY <1>8, <2>1
  <2>7. Gathered(seen \cup {s}, log, from, to, Merge(a, s))
    BY <2>4, <2>5, <2>6, GatherStep
  <2> QED
    BY <2>2, <2>3, <2>7
<1>9. Seen(n) = spans
  BY <1>3
<1> HIDE DEF Seen
<1>10. 0 \in S /\ \A k \in 1..n : k - 1 \in S => k \in S
  BY <1>3, <1>7, <1>8
<1> HIDE DEF S
<1>11. n \in S
  BY <1>3, <1>10, LoopInduction
<1>12. Gathered(Seen(n), log, from, to, h[n])
  BY <1>11 DEF S
<1> QED
  BY <1>5, <1>6, <1>9, <1>12

(* The counters account for one more write.                                 *)
LEMMA OneMoreWrite ==
  ASSUME NEW spans, NEW log, Accounted(spans, log), NEW from \in Nat, NEW to \in Nat, from < to
  PROVE  Accounted(RecordWrite(spans, from, to), Append(log, <<from, to>>))
<1>1. PICK acc : /\ Gathered(spans, log, from, to, acc)
                 /\ RecordWrite(spans, from, to) = acc.kept \cup {acc.new}
  BY GatherAll
<1>2. PICK new, kept, n, longer : /\ new = acc.new /\ kept = acc.kept
                                  /\ n = Len(log) /\ longer = Append(log, <<from, to>>)
  OBVIOUS
<1>3. PICK all, merged : all = kept \cup {new} /\ merged = spans \ kept
  OBVIOUS
<1>4. /\ new \in Spans /\ new.tag = Untagged /\ new.start < new.end
      /\ new.start <= from /\ to <= new.end
      /\ Covered(new) \subseteq Logged(log) \cup (from .. to - 1)
      /\ kept \subseteq spans
      /\ \A c \in CountersOf(kept) : Apart(c, new)
      /\ \A s \in merged : s.tag = Untagged /\ new.start <= s.start /\ s.end <= new.end
      /\ new.writes = Cardinality(Stood(log, merged))
  BY <1>1, <1>2, <1>3 DEF Gathered
<1>5. /\ longer \in Seq(Nat \X Nat)
      /\ DOMAIN longer = 1..(n + 1) /\ DOMAIN log = 1..n /\ n \in Nat
      /\ longer[n + 1] = <<from, to>>
      /\ \A i \in 1..n : longer[i] = log[i]
      /\ Logged(longer) = Logged(log) \cup (from .. to - 1)
  BY <1>2, LoggedMore DEF Accounted
<1>6. /\ spans \subseteq Spans /\ IsFiniteSet(spans) /\ AllDiffer(spans)
      /\ log \in Seq(Nat \X Nat)
      /\ \A i \in 1..n : log[i][1] < log[i][2] /\ log[i][1] \in Nat /\ log[i][2] \in Nat
      /\ \A i \in 1..n : \E c \in CountersOf(spans) : InSpan(log[i], c)
      /\ \A c \in CountersOf(spans) :
           c.start < c.end /\ Covered(c) \subseteq Logged(log)
           /\ c.writes + 1 = Cardinality(Inside(log, c))
      /\ \A c, e \in CountersOf(spans) : c # e => Apart(c, e)
  <2>1. \A i \in 1..n : log[i] \in Nat \X Nat
    BY <1>5 DEF Accounted
  <2>2. \A i \in 1..n : log[i][1] \in Nat /\ log[i][2] \in Nat
    BY <2>1
  <2> QED
    BY <1>5, <2>2 DEF Accounted
<1>7. new.start \in Nat /\ new.end \in Nat
  BY <1>4, SpanFields
<1>8. ASSUME NEW c \in CountersOf(kept)
      PROVE  /\ c \in CountersOf(spans) /\ c.start \in Nat /\ c.end \in Nat
             /\ Apart(c, new) /\ ~SameSpan(c, new)
  <2>1. c \in CountersOf(spans) /\ c \in Spans /\ Apart(c, new)
    BY <1>4, <1>6 DEF CountersOf
  <2>2. c.start \in Nat /\ c.end \in Nat /\ c.start < c.end
    BY <1>6, <2>1, SpanFields
  <2>3. ~SameSpan(c, new)
    BY <1>4, <1>7, <2>1, <2>2 DEF Apart, SameSpan
  <2> QED
    BY <2>1, <2>2, <2>3
<1>9. CountersOf(all) = CountersOf(kept) \cup {new}
  BY <1>3, <1>4 DEF CountersOf
<1>10. all \subseteq Spans /\ IsFiniteSet(all)
  <2>1. IsFiniteSet(kept)
    BY <1>4, <1>6, FS_Subset
  <2>2. IsFiniteSet(all)
    BY <1>3, <2>1, FS_AddElement
  <2> QED
    BY <1>3, <1>4, <1>6, <2>2
<1>11. AllDiffer(all)
  <2>1. ASSUME NEW s \in kept
        PROVE  ~SameSpan(s, new) /\ ~SameSpan(new, s)
    <3>1. s.tag = Untagged => ~SameSpan(s, new)
      BY <1>8 DEF CountersOf
    <3> QED
      BY <1>4, <3>1 DEF SameSpan
  <2> QED
    BY <1>3, <1>4, <1>6, <2>1 DEF AllDiffer
<1>12. ASSUME NEW i \in 1..n
       PROVE  \/ \E c \in CountersOf(kept) : InSpan(log[i], c)
              \/ i \in Stood(log, merged) /\ InSpan(log[i], new)
  <2>1. PICK c \in CountersOf(spans) : InSpan(log[i], c)
    BY <1>6
  <2>2. CASE c \in kept
    BY <2>1, <2>2 DEF CountersOf
  <2>3. CASE c \notin kept
    <3>1. c \in merged
      BY <1>3, <2>3 DEF CountersOf
    <3>2. i \in Stood(log, merged)
      BY <1>5, <2>1, <3>1 DEF Stood
    <3>3. c.start \in Nat /\ c.end \in Nat
      BY <1>6, SpanFields DEF CountersOf
    <3>4. /\ new.start <= c.start /\ c.end <= new.end
          /\ log[i][1] \in Nat /\ log[i][2] \in Nat
      BY <1>4, <1>6, <3>1
    <3>5. InSpan(log[i], new)
      BY <1>7, <2>1, <3>3, <3>4 DEF InSpan
    <3> QED
      BY <3>2, <3>5
  <2> QED
    BY <2>2, <2>3
<1>13. ASSUME NEW i \in 1..(n + 1)
       PROVE  longer[i][1] < longer[i][2] /\ \E c \in CountersOf(all) : InSpan(longer[i], c)
  <2>1. CASE i = n + 1
    <3>1. longer[i][1] = from /\ longer[i][2] = to
      BY <1>5, <2>1
    <3>2. InSpan(longer[i], new)
      BY <1>4, <3>1 DEF InSpan
    <3> QED
      BY <1>9, <3>1, <3>2
  <2>2. CASE i \in 1..n
    <3>1. longer[i] = log[i]
      BY <1>5, <2>2
    <3> QED
      BY <1>6, <1>9, <1>12, <2>2, <3>1
  <2> QED
    BY <1>5, <2>1, <2>2
<1>14. Inside(longer, new) = Stood(log, merged) \cup {n + 1}
  <2>1. ASSUME NEW i, i \in Inside(longer, new)
        PROVE  i \in Stood(log, merged) \cup {n + 1}
    <3>1. i \in 1..(n + 1) /\ InSpan(longer[i], new)
      BY <1>5, <2>1 DEF Inside
    <3>2. CASE i \in 1..n
      <4>1. InSpan(log[i], new)
        BY <1>5, <3>1, <3>2
      <4>2. ASSUME NEW c \in CountersOf(kept), InSpan(log[i], c)
            PROVE  FALSE
        <5>1. c.start \in Nat /\ c.end \in Nat /\ Apart(c, new)
          BY <1>8
        <5>2. /\ log[i][1] < log[i][2] /\ log[i][1] \in Nat /\ log[i][2] \in Nat
              /\ InSpan(log[i], c) /\ InSpan(log[i], new)
          BY <1>6, <3>2, <4>1, <4>2
        <5> QED
          BY <1>7, <5>1, <5>2 DEF InSpan, Apart
      <4> QED
        BY <1>12, <3>2, <4>2
    <3> QED
      BY <1>5, <3>1, <3>2
  <2>2. ASSUME NEW i, i \in Stood(log, merged)
        PROVE  i \in Inside(longer, new)
    <3>1. PICK c \in merged : i \in 1..n /\ InSpan(log[i], c)
      BY <1>5, <2>2 DEF Stood
    <3>2. c.start \in Nat /\ c.end \in Nat
      BY <1>3, <1>6, SpanFields
    <3>5. /\ new.start <= c.start /\ c.end <= new.end
          /\ log[i][1] \in Nat /\ log[i][2] \in Nat
      BY <1>4, <1>6, <3>1
    <3>3. InSpan(log[i], new)
      BY <1>7, <3>1, <3>2, <3>5 DEF InSpan
    <3>4. i \in DOMAIN longer /\ longer[i] = log[i]
      BY <1>5, <3>1
    <3> QED
      BY <3>3, <3>4 DEF Inside
  <2>3. n + 1 \in Inside(longer, new)
    <3>1. n + 1 \in DOMAIN longer /\ longer[n + 1][1] = from /\ longer[n + 1][2] = to
      BY <1>5
    <3> QED
      BY <1>4, <3>1 DEF Inside, InSpan
  <2> QED
    BY <2>1, <2>2, <2>3
<1>15. new.writes + 1 = Cardinality(Inside(longer, new))
  <2>1. PICK stood : stood = Stood(log, merged)
    OBVIOUS
  <2>2. IsFiniteSet(stood) /\ Cardinality(stood) \in Nat /\ n + 1 \notin stood
    <3>1. n + 1 \notin stood
      BY <1>5, <2>1 DEF Stood
    <3> QED
      BY <1>6, <2>1, <3>1, StoodIsFinite
  <2>3. Cardinality(stood \cup {n + 1}) = Cardinality(stood) + 1
    BY <2>2, FS_AddElement
  <2> QED
    BY <1>4, <1>14, <2>1, <2>3
<1>16. ASSUME NEW c \in CountersOf(kept)
       PROVE  Inside(longer, c) = Inside(log, c)
  <2>1. ~InSpan(longer[n + 1], c)
    <3>1. longer[n + 1][1] = from /\ longer[n + 1][2] = to
      BY <1>5
    <3> QED
      BY <1>4, <1>7, <1>8, <3>1 DEF InSpan, Apart
  <2>2. \A i : i \in 1..(n + 1) <=> i \in 1..n \/ i = n + 1
    BY <1>5
  <2> QED
    BY <1>5, <2>1, <2>2 DEF Inside
<1>17. ASSUME NEW c \in CountersOf(all)
       PROVE  /\ c.start < c.end
              /\ Covered(c) \subseteq Logged(longer)
              /\ c.writes + 1 = Cardinality(Inside(longer, c))
  <2>1. CASE c = new
    BY <1>4, <1>5, <1>15, <2>1
  <2>2. CASE c \in CountersOf(kept)
    BY <1>5, <1>6, <1>8, <1>16, <2>2
  <2> QED
    BY <1>9, <2>1, <2>2
<1>18. ASSUME NEW c \in CountersOf(all), NEW e \in CountersOf(all), c # e
       PROVE  Apart(c, e)
  <2>1. CASE c \in CountersOf(kept) /\ e \in CountersOf(kept)
    BY <1>6, <1>8, <1>18, <2>1
  <2>2. CASE c = new \/ e = new
    BY <1>8, <1>9, <1>18, <2>2 DEF Apart
  <2> QED
    BY <1>9, <2>1, <2>2
<1>19. Accounted(all, longer)
  BY <1>5, <1>10, <1>11, <1>13, <1>17, <1>18 DEF Accounted
<1> QED
  BY <1>1, <1>2, <1>3, <1>19
-----------------------------------------------------------------------------
(* The watcher accounts for every write, whichever operation makes it.      *)
Sound(s) ==
  /\ IsStore(s)
  /\ s.bytes \in [0..Size-1 -> Values]
  /\ s.initialized = Logged(s.log)
  /\ Accounted(s.tags, s.log)

(* the write may have been marked before it is made                         *)
LEMMA SoundWrite ==
  ASSUME NEW s, IsStore(s), s.bytes \in [0..Size-1 -> Values], Accounted(s.tags, s.log),
         NEW r, IsWithin(r), NEW offset \in Nat, NEW vs \in Seq(Values), vs # <<>>,
         Logged(s.log) \subseteq s.initialized,
         s.initialized \subseteq Logged(s.log) \cup (r.data + offset .. (r.data + offset + Len(vs)) - 1)
  PROVE  Sound(WriteRaw(s, r, offset, vs))
<1>0. PICK n \in Nat : n = Len(vs)
  OBVIOUS
<1>1. PICK at : at = r.data + offset /\ n = Len(vs)
  BY <1>0
<1>2. at \in Nat /\ n > 0 /\ at + n \in Nat /\ at < at + n /\ ReportedStart(r, offset) = at
  BY <1>1 DEF IsWithin, ReportedStart
<1>3. PICK t : t = WriteRaw(s, r, offset, vs)
  OBVIOUS
<1>4. Wrote(s, r, offset, vs, t)
  BY <1>3, WriteRawWrites, Zenon
<1>5. /\ IsStore(t)
      /\ t.bytes = [a \in 0..Size-1 |-> IF a \in Touched(r, offset, n)
                                        THEN vs[a - at + 1] ELSE s.bytes[a]]
      /\ t.tags = RecordWrite(s.tags, at, at + n)
      /\ t.initialized = s.initialized \cup (at .. (at + n) - 1)
      /\ t.log = Append(s.log, <<at, at + n>>)
  BY <1>1, <1>2, <1>4, Zenon DEF Wrote
<1>6. t.bytes \in [0..Size-1 -> Values]
  <2>1. ASSUME NEW a \in 0..Size-1, a \in Touched(r, offset, n)
        PROVE  vs[a - at + 1] \in Values
    <3>0. a \in at .. (at + n) - 1
      BY <1>1, <2>1 DEF Touched
    <3>1. a - at + 1 \in 1..n
      BY <1>2, <3>0
    <3> QED
      BY <1>1, <3>1
  <2> QED
    BY <1>5, <2>1
<1>7. Accounted(t.tags, t.log)
  BY <1>2, <1>5, OneMoreWrite
<1>8. t.initialized = Logged(t.log)
  <2>1. s.log \in Seq(Nat \X Nat)
    BY DEF Accounted
  <2>2. Logged(t.log) = Logged(s.log) \cup (at .. (at + n) - 1)
    BY <1>2, <1>5, <2>1, LoggedMore
  <2> QED
    BY <1>1, <1>5, <2>2
<1> QED
  BY <1>3, <1>5, <1>6, <1>7, <1>8 DEF Sound

LEMMA SoundRegionWrite ==
  ASSUME NEW s, Sound(s), NEW r, IsWithin(r), NEW offset \in Nat,
         NEW vs \in Seq(Values), vs # <<>>
  PROVE  Sound(WriteRaw(s, r, offset, vs))
BY SoundWrite DEF Sound

LEMMA SoundByte ==
  ASSUME NEW s, Sound(s), NEW a \in Nat, NEW v \in Values
  PROVE  Sound(WriteByte(s, a, v))
<1>1. <<v>> \in Seq(Values) /\ <<v>> # <<>>
  OBVIOUS
<1> QED
  BY <1>1, BaseIsWithin, SoundRegionWrite DEF WriteByte

LEMMA SoundCopy ==
  ASSUME NEW s, Sound(s), NEW source \in Nat, NEW dest \in Nat, NEW count \in Nat,
         count = 0 \/ (source + count <= Size /\ dest + count <= Size)
  PROVE  Sound(CopyBytes(s, source, dest, count))
<1>1. PICK loop : loop = [kind |-> "copy", source |-> source, dest |-> dest]
  OBVIOUS
<1>2. PICK h : Runs(h, loop, count, s) /\ CopyBytes(s, source, dest, count) = h[count]
  BY <1>1, CopyLoop
<1> DEFINE S == {k \in 0..count : Sound(h[k])}
<1>3. 0 \in S
  BY <1>2 DEF Runs
<1>4. ASSUME NEW k \in 1..count, Sound(h[k - 1])
      PROVE  Sound(h[k])
  <2>1. PICK g, v : g = h[k - 1] /\ v = g.bytes[source + (k - 1)]
    OBVIOUS
  <2>2. h[k] = WriteByte(g, dest + (k - 1), v)
    BY <1>1, <1>2, <2>1 DEF Runs, LoopStep, CopyByte
  <2>3. v \in Values
    <3>1. source + (k - 1) \in 0..Size-1
      BY SizeAssumption
    <3> QED
      BY <1>4, <2>1, <3>1 DEF Sound
  <2>4. dest + (k - 1) \in Nat
    OBVIOUS
  <2> QED
    BY <1>4, <2>1, <2>2, <2>3, <2>4, SoundByte
<1>5. \A k \in 1..count : k - 1 \in S => k \in S
  BY <1>4
<1> HIDE DEF S
<1>6. count \in S
  BY <1>3, <1>5, LoopInduction
<1> QED
  BY <1>2, <1>6 DEF S

LEMMA SoundEach ==
  ASSUME NEW s, Sound(s), NEW at \in Nat, NEW values \in Seq(Values)
  PROVE  Sound(WriteEach(s, at, values))
<1>1. PICK loop : loop = [kind |-> "each", at |-> at, values |-> values]
  OBVIOUS
<1>2. PICK n \in Nat : n = Len(values)
  OBVIOUS
<1>3. PICK h : Runs(h, loop, Len(values), s) /\ WriteEach(s, at, values) = h[Len(values)]
  BY <1>1, <1>2, EachLoop, Zenon
<1>4. Runs(h, loop, n, s) /\ WriteEach(s, at, values) = h[n]
  BY <1>2, <1>3
<1> DEFINE S == {k \in 0..n : Sound(h[k])}
<1>5. 0 \in S
  BY <1>4 DEF Runs
<1>6. ASSUME NEW k \in 1..n, Sound(h[k - 1])
      PROVE  Sound(h[k])
  <2>1. h[k] = WriteByte(h[k - 1], at + k - 1, values[k])
    BY <1>1, <1>4 DEF Runs, LoopStep
  <2>2. at + k - 1 \in Nat /\ values[k] \in Values
    BY <1>2
  <2> QED
    BY <1>6, <2>1, <2>2, SoundByte
<1>7. \A k \in 1..n : k - 1 \in S => k \in S
  BY <1>6
<1> HIDE DEF S
<1>8. n \in S
  <2>1. \A k \in 0..n : k \in S
    BY <1>5, <1>7, LoopInduction, Zenon
  <2> QED
    BY <2>1
<1> QED
  BY <1>4, <1>8 DEF S

LEMMA SoundWriteBack ==
  ASSUME NEW s, Sound(s), NEW ptr \in Nat, NEW size \in Nat, NEW block \in [1..size -> Values]
  PROVE  Sound(WriteBack(s, ptr, block))
<1>1. block \in Seq(Values)
  OBVIOUS
<1> QED
  BY <1>1, SoundEach DEF WriteBack

Buffer == Tape /\ save_buffer \in [0..SaveBufferSize-1 -> Values]

LEMMA SoundDelivered ==
  ASSUME Buffer, NEW s, Sound(s), NEW buffer \in Nat, NEW n \in Nat, InBuffer(n)
  PROVE  Sound(Delivered(s, buffer, n))
<1>1. SaveBufferSize \in Nat /\ f_offset \in Nat /\ f_offset + n <= SaveBufferSize
  BY FileAssumption DEF Buffer, Tape, InBuffer
<1>2. PICK values : values = [i \in 1..n |-> save_buffer[f_offset + i - 1]]
  OBVIOUS
<1>3. values \in Seq(Values)
  <2>1. \A i \in 1..n : f_offset + i - 1 \in 0..SaveBufferSize-1
    BY <1>1
  <2> QED
    BY <1>2, <2>1 DEF Buffer
<1>4. Delivered(s, buffer, n) = WriteEach(s, buffer, values)
  BY <1>2, Zenon DEF Delivered
<1> QED
  BY <1>3, <1>4, SoundEach

LEMMA SoundTag ==
  ASSUME NEW s, Sound(s), NEW c \in Chunks, NEW tag \in Tags
  PROVE  Sound([s EXCEPT !.tags = TagMemory(s.tags, c[1], c[2], tag)])
<1>1. PICK set, new, t : /\ set = TagMemory(s.tags, c[1], c[2], tag)
                         /\ new = [start |-> c[1], end |-> c[2], tag |-> tag, writes |-> 0]
                         /\ t = [s EXCEPT !.tags = set]
  OBVIOUS
<1>2. /\ IsStore(t) /\ t.bytes = s.bytes /\ t.log = s.log
      /\ t.initialized = s.initialized /\ t.tags = set
  BY <1>1, StoreWithTags DEF Sound
<1>3. /\ new \in Spans /\ new.tag = tag /\ new.start = c[1] /\ new.end = c[2]
      /\ tag # Untagged
  <2>1. c[1] \in Nat /\ c[2] \in Nat
    BY RequestsAssumption
  <2> QED
    BY <1>1, <2>1, TagsAssumption DEF Spans
<1>4. CASE \E x \in s.tags : x.start = c[1] /\ x.end = c[2] /\ x.tag = tag
  <2>1. set = s.tags
    BY <1>1, <1>4, Zenon DEF TagMemory
  <2> QED
    BY <1>1, <1>2, <2>1 DEF Sound
<1>5. CASE ~\E x \in s.tags : x.start = c[1] /\ x.end = c[2] /\ x.tag = tag
  <2>1. set = s.tags \cup {new}
    BY <1>1, <1>5, Zenon DEF TagMemory
  <2>2. CountersOf(set) = CountersOf(s.tags)
    BY <1>3, <2>1 DEF CountersOf
  <2>3. set \subseteq Spans /\ IsFiniteSet(set)
    BY <1>3, <2>1, FS_AddElement DEF Sound, Accounted
  <2>4. AllDiffer(set)
    <3>1. \A x \in s.tags : ~SameSpan(x, new) /\ ~SameSpan(new, x)
      BY <1>3, <1>5 DEF SameSpan
    <3>2. AllDiffer(s.tags)
      BY DEF Sound, Accounted
    <3> QED
      BY <2>1, <3>1, <3>2 DEF AllDiffer
  <2>5. Accounted(set, s.log)
    <3>1. Accounted(s.tags, s.log)
      BY DEF Sound
    <3> QED
      BY <2>2, <2>3, <2>4, <3>1, Zenon DEF Accounted
  <2> QED
    BY <1>1, <1>2, <2>5 DEF Sound
<1> QED
  BY <1>4, <1>5

LEMMA SoundStep ==
  ASSUME RegionsLieWithin, Buffer, NEW s, Sound(s), NEW t, WriteOf(s, t)
  PROVE  Sound(t)
<1>1. ASSUME NEW a \in Addresses, NEW vs \in Payloads,
             t = WriteRaw([s EXCEPT !.initialized = s.initialized \cup Marked(a)], Base, a, vs)
      PROVE  Sound(t)
  <2>1. a \in Nat /\ vs \in Seq(Values) /\ vs # <<>>
    BY RequestsAssumption
  <2>2. PICK set, u : set = s.initialized \cup Marked(a) /\ u = [s EXCEPT !.initialized = set]
    OBVIOUS
  <2>3. /\ IsStore(u) /\ u.bytes = s.bytes /\ u.tags = s.tags /\ u.log = s.log
        /\ u.initialized = set
    <3>1. IsStore(s)
      BY DEF Sound
    <3> QED
      BY <2>2, <3>1, StoreWithInitialized
  <2>4. Marked(a) \subseteq Base.data + a .. (Base.data + a + Len(vs)) - 1
    <3>1. Base.data + a = a
      BY <2>1 DEF Base
    <3>2. PICK n \in Nat : n = Len(vs) /\ n > 0
      BY <2>1
    <3>3. a \in a .. (a + n) - 1
      BY <2>1, <3>2
    <3> QED
      BY <3>1, <3>2, <3>3 DEF Marked
  <2>5. Sound(WriteRaw(u, Base, a, vs))
    <3>1. u.bytes \in [0..Size-1 -> Values] /\ Accounted(u.tags, u.log)
      BY <2>3 DEF Sound
    <3>2. u.initialized = Logged(u.log) \cup Marked(a)
      BY <2>2, <2>3 DEF Sound
    <3>3. /\ Logged(u.log) \subseteq u.initialized
          /\ u.initialized \subseteq
               Logged(u.log) \cup (Base.data + a .. (Base.data + a + Len(vs)) - 1)
      BY <2>4, <3>2
    <3> QED
      BY <2>1, <2>3, <3>1, <3>3, BaseIsWithin, SoundWrite
  <2> QED
    BY <1>1, <2>2, <2>5
<1>2. ASSUME NEW r \in regions, NEW c \in Cuts, NEW vs \in Payloads, t = WriteRaw(s, r, c[1], vs)
      PROVE  Sound(t)
  <2>1. c[1] \in Nat /\ vs \in Seq(Values) /\ vs # <<>>
    BY RequestsAssumption
  <2> QED
    BY <1>2, <2>1, SoundRegionWrite DEF RegionsLieWithin
<1>3. ASSUME NEW source \in Blocks, NEW dest \in Blocks, NEW n \in Nat,
             Moved(s, t, source, dest, n)
      PROVE  Sound(t)
  <2>1. source \in Nat /\ dest \in Nat
    BY RequestsAssumption
  <2>2. n = 0 \/ (source + n <= Size /\ dest + n <= Size)
    BY <1>3, <2>1, InMemoryMeans DEF Moved
  <2> QED
    BY <1>3, <2>1, <2>2, SoundCopy DEF Moved
<1>4. ASSUME NEW ptr \in Params, NEW size \in Nat, NEW block \in [1..size -> Values],
             NEW u, Sound(u), t = WriteBack(u, ptr, block)
      PROVE  Sound(t)
  BY <1>4, SoundWriteBack, FileAssumption
<1>5. ASSUME NEW ptr \in Params, NEW buffer \in Blocks, NEW n \in Transfers,
             Transfer(s, t, ptr, buffer, n)
      PROVE  Sound(t)
  <2>1. buffer \in Nat /\ n \in Nat
    BY RequestsAssumption, FileAssumption
  <2>2. PICK d : d = Delivered(s, buffer, n)
    OBVIOUS
  <2>3. Sound(d)
    BY <1>5, <2>1, <2>2, SoundDelivered DEF Transfer
  <2> QED
    BY <1>4, <1>5, <2>2, <2>3, FileAssumption DEF Transfer
<1>6. ASSUME NEW ptr \in Params, InMemory(ptr, TimeSize),
             t = WriteRaw(s, Base, ptr, [i \in 1..TimeSize |-> s.bytes[TimeAddress + i - 1]])
      PROVE  Sound(t)
  <2>1. PICK vs : vs = [i \in 1..TimeSize |-> s.bytes[TimeAddress + i - 1]]
    OBVIOUS
  <2>2. /\ TimeSize \in Nat \ {0} /\ TimeAddress \in Nat /\ Size \in Nat
        /\ TimeAddress + TimeSize <= Size /\ ptr \in Nat
    BY SizeAssumption, FileAssumption
  <2>3. vs \in Seq(Values) /\ vs # <<>>
    <3>1. \A i \in 1..TimeSize : TimeAddress + i - 1 \in 0..Size-1
      BY <2>2
    <3>2. \A i \in 1..TimeSize : s.bytes[TimeAddress + i - 1] \in Values
      BY <3>1 DEF Sound
    <3>3. vs \in Seq(Values) /\ Len(vs) = TimeSize
      BY <2>1, <2>2, <3>2
    <3> QED
      BY <2>2, <3>3
  <2> QED
    BY <1>6, <2>1, <2>2, <2>3, BaseIsWithin, SoundRegionWrite
<1>7. ASSUME NEW c \in Chunks, NEW tag \in Tags,
             t = [s EXCEPT !.tags = TagMemory(s.tags, c[1], c[2], tag)]
      PROVE  Sound(t)
  BY <1>7, SoundTag
<1>8. ASSUME NEW ptr \in Params, NEW size \in Nat \ {0}, NEW block \in [1..size -> Values],
             t = WriteBack(s, ptr, block)
      PROVE  Sound(t)
  BY <1>4, <1>8
<1> QED
  BY <1>1, <1>2, <1>3, <1>5, <1>6, <1>7, <1>8 DEF WriteOf
-----------------------------------------------------------------------------
(* The File Manager's buffer holds bytes.                                   *)
LEMMA BufferStep ==
  ASSUME Buffer, Sound(store), [FileNext]_vars
  PROVE  Buffer'
<1>1. CASE UNCHANGED <<save_buffer, f_offset>>
  BY <1>1 DEF Buffer, Tape
<1>2. ASSUME NEW ptr \in Params, NEW buffer \in Blocks, NEW n \in Transfers,
             Read(ptr, buffer, n) \/ Write(ptr, buffer, n)
      PROVE  Buffer'
  <2>1. Tape'
    BY <1>2, TransferStep DEF Buffer
  <2>2. CASE save_buffer' = save_buffer
    BY <2>1, <2>2 DEF Buffer
  <2>3. CASE Write(ptr, buffer, n) /\ ~halted'
    <3>1. save_buffer' = Written(buffer, n) /\ InMemory(buffer, n)
      BY <2>3 DEF Write
    <3>2. /\ Size \in Nat /\ SaveBufferSize \in Nat /\ buffer \in Nat /\ n \in Nat
          /\ f_offset \in Nat /\ buffer + n <= Size
      BY <3>1, SizeAssumption, FileAssumption, RequestsAssumption, InMemoryMeans DEF Buffer, Tape
    <3>3. /\ DOMAIN save_buffer' = 0..SaveBufferSize-1
          /\ \A i \in 0..SaveBufferSize-1 :
               save_buffer'[i] = IF i >= f_offset /\ i < f_offset + n
                                 THEN store.bytes[buffer + i - f_offset] ELSE save_buffer[i]
          /\ save_buffer' = [i \in 0..SaveBufferSize-1 |-> save_buffer'[i]]
      BY <3>1 DEF Written, Buffer
    <3>4. ASSUME NEW i \in 0..SaveBufferSize-1
          PROVE  save_buffer'[i] \in Values
      <4>1. CASE i >= f_offset /\ i < f_offset + n
        <5>1. buffer + i - f_offset \in 0..Size-1
          BY <3>2, <4>1
        <5>2. store.bytes[buffer + i - f_offset] \in Values
          BY <5>1 DEF Sound
        <5> QED
          BY <3>3, <4>1, <5>2
      <4>2. CASE ~(i >= f_offset /\ i < f_offset + n)
        BY <3>3, <4>2 DEF Buffer
      <4> QED
        BY <4>1, <4>2
    <3> QED
      BY <2>1, <3>3, <3>4 DEF Buffer
  <2> QED
    BY <1>2, <2>2, <2>3 DEF Read, Write
<1> QED
  BY <1>1, <1>2, OnlyTransfersMoveTheTape

RegionTypes == regions \subseteq MemoryRegions

A5Types == a5 \in [above : 0..WordSize-1, below : 0..WordSize-1, world : 0..WordSize-1]

CounterTypes == halted \in BOOLEAN /\ steps \in 0..MaxSteps

MapInv ==
  /\ RegionsLieWithin
  /\ Sound(store)
  /\ Buffer
  /\ Restrictions
  /\ RegionTypes
  /\ A5Types
  /\ CounterTypes

LEMMA MapInvInit == FileInit => MapInv
<1> SUFFICES ASSUME FileInit PROVE MapInv
  OBVIOUS
<1>1. /\ Size \in Nat /\ StackEnd \in Nat /\ StackStart \in Nat /\ "Stack" \in Tags
      /\ 0 \in Values /\ WordSize \in Nat \ {0} /\ MaxSteps \in Nat /\ SaveBufferSize \in Nat
  BY SizeAssumption, SectionsAssumption, RequestsAssumption, FileAssumption
<1>2. Sound(store)
  <2>1. PICK b, g : b = [a \in 0..Size-1 |-> 0] /\ g = TagMemory({}, StackEnd, StackStart, "Stack")
    OBVIOUS
  <2>2. store = [bytes |-> b, tags |-> g, initialized |-> {}, log |-> <<>>]
    BY <2>1 DEF FileInit, Init
  <2>3. /\ IsStore(store) /\ store.bytes = b /\ store.tags = g /\ store.log = <<>>
        /\ store.initialized = {} /\ b \in [0..Size-1 -> Values]
    BY <1>1, <2>1, <2>2 DEF IsStore
  <2>4. PICK stack : stack = [start |-> StackEnd, end |-> StackStart, tag |-> "Stack", writes |-> 0]
    OBVIOUS
  <2>5. g = {stack}
    BY <2>1, <2>4 DEF TagMemory
  <2>6. stack \in Spans /\ stack.tag = "Stack" /\ "Stack" # Untagged
    BY <1>1, <2>4, TagsAssumption DEF Spans
  <2>7. IsFiniteSet(g) /\ g \subseteq Spans /\ AllDiffer(g) /\ CountersOf(g) = {}
    BY <2>5, <2>6, FS_Singleton DEF AllDiffer, CountersOf
  <2>8. /\ <<>> \in Seq(Nat \X Nat) /\ DOMAIN <<>> = {}
    OBVIOUS
  <2>9. Logged(<<>>) = {}
    BY <2>8 DEF Logged
  <2>10. Accounted(g, <<>>)
    BY <2>7, <2>8 DEF Accounted
  <2> QED
    BY <2>3, <2>9, <2>10 DEF Sound
<1>3. Buffer
  BY <1>1 DEF FileInit, Buffer, Tape
<1>4. Restrictions /\ RegionsLieWithin /\ RegionTypes
  BY DEF FileInit, Init, Restrictions, RestrictionsInForce, RegionsLieWithin, RegionTypes
<1>5. A5Types /\ CounterTypes
  <2>1. 0 \in 0..WordSize-1 /\ 0 \in 0..MaxSteps
    BY <1>1
  <2>2. /\ a5 = [above |-> 0, below |-> 0, world |-> 0]
        /\ halted = FALSE /\ steps = 0
    BY DEF FileInit, Init
  <2>3. CounterTypes
    BY <2>1, <2>2 DEF CounterTypes
  <2> QED
    BY <2>1, <2>2, <2>3 DEF A5Types
<1> QED
  BY <1>2, <1>3, <1>4, <1>5 DEF MapInv

LEMMA StepsAreCounted ==
  ASSUME CounterTypes, [FileNext]_vars
  PROVE  CounterTypes'
<1>1. ASSUME NEW operation, Step(operation)
      PROVE  steps' \in 0..MaxSteps
  BY <1>1, RequestsAssumption DEF Step, CounterTypes
<1>2. \/ steps' = steps
      \/ \E operation : Step(operation)
  <2>1. CASE MapNext
    BY <2>1 DEF MapNext, CpuRead, CpuWrite, Create, CreateRest, RegionWrite, Tag,
                SetA5WorldBounds, LogRegionAccess, BlockMove
  <2>2. CASE ~MapNext
    BY <2>2 DEF FileNext, GetVolInfo, FileCreate, Open, GetFileInfo, SetFileInfo,
                NamedTrap, SetEOF, Allocate, Close, SysEnvirons, PlainTrap, BlockTrap, ReadDateTime,
                Read, Write, vars, mapVars
  <2> QED
    BY <2>1, <2>2
<1>3. halted' \in BOOLEAN
  <2>1. CASE MapNext
    <3>1. \A a, vs : CpuRead(a, vs) \/ CpuWrite(a, vs) => halted' \in BOOLEAN
      BY DEF CpuRead, CpuWrite
    <3>2. \A above, below : SetA5WorldBounds(above, below) => halted' \in BOOLEAN
      BY DEF SetA5WorldBounds, TooLarge
    <3>3. ASSUME NEW source \in Blocks, NEW dest \in Blocks, NEW n \in 2..3,
                 BlockMove(source, dest, n)
          PROVE  halted' \in BOOLEAN
      <4>1. source \in Nat /\ dest \in Nat /\ n \in Nat
        BY RequestsAssumption
      <4>2. PICK copied \in 0..n : halted' = (copied < n)
        BY <3>3, <4>1, BlockMoveMoves
      <4> QED
        BY <4>1, <4>2
    <3>4. CASE UNCHANGED halted
      BY <3>4 DEF CounterTypes
    <3> QED
      BY <2>1, <3>1, <3>2, <3>3, <3>4
         DEF MapNext, Create, CreateRest, RegionWrite, Tag, LogRegionAccess
  <2>2. CASE ~MapNext
    BY <2>2 DEF FileNext, GetVolInfo, FileCreate, Open, GetFileInfo, SetFileInfo,
                NamedTrap, SetEOF, Allocate, Close, SysEnvirons, PlainTrap, BlockTrap, ReadDateTime,
                Read, Write, vars, mapVars, CounterTypes
  <2> QED
    BY <2>1, <2>2
<1> QED
  BY <1>1, <1>2, <1>3 DEF CounterTypes

LEMMA MapInvStep ==
  ASSUME MapInv, [FileNext]_vars
  PROVE  MapInv'
<1>1. Sound(store')
  <2>1. Shape
    BY DEF MapInv, Sound, Buffer, Shape
  <2> QED
    BY <2>1, OperationsWrite, SoundStep DEF MapInv
<1>2. Buffer'
  BY BufferStep DEF MapInv
<1>3. Restrictions'
  <2>1. CASE UNCHANGED <<restrictions, restricted>>
    BY <2>1 DEF MapInv, Restrictions, RestrictionsInForce
  <2> QED
    BY <2>1, OnlyLogRegionAccessRestricts, RestrictionStep DEF MapInv
<1>4. RegionsLieWithin' /\ RegionTypes'
  <2>1. CASE UNCHANGED regions
    BY <2>1 DEF MapInv, RegionsLieWithin, RegionTypes
  <2>2. ASSUME NEW r \in regions \cup {Base}, NEW c \in Cuts,
               Create(r, c[1], c[2]) \/ CreateRest(r, c[1])
        PROVE  RegionsLieWithin' /\ RegionTypes'
    <3>1. IsWithin(r)
      BY BaseIsWithin DEF MapInv, RegionsLieWithin
    <3>2. c[1] \in Nat /\ c[2] \in Nat /\ RestOfParent(r, c[1]) \in Nat
      BY <3>1, RequestsAssumption, RestIsNatural
    <3>3. PICK size \in Nat : Create(r, c[1], size)
      BY <2>2, <3>2 DEF CreateRest
    <3>4. RegionsLieWithin'
      BY <3>2, <3>3, RegionsStep DEF MapInv
    <3>5. PICK new : new = SubRegion(r, c[1], size)
      OBVIOUS
    <3>6. regions' = regions \cup {new} /\ CheckSafeAccess(r, c[1], size)
      BY <3>3, <3>5 DEF Create
    <3>7. IsWithin(new)
      BY <3>1, <3>2, <3>5, <3>6, SubRegionIsWithin
    <3>8. new \in MemoryRegions
      BY <3>5, <3>7 DEF SubRegion, MemoryRegions, IsWithin
    <3> QED
      BY <3>4, <3>6, <3>8 DEF MapInv, RegionTypes
  <2> QED
    BY <2>1, <2>2, OnlyCreateMakesRegions
<1>5. A5Types'
  <2>1. CASE UNCHANGED a5
    BY <2>1 DEF MapInv, A5Types
  <2>2. ASSUME NEW above \in A5Sizes, NEW below \in A5Sizes, SetA5WorldBounds(above, below)
        PROVE  A5Types'
    <3>1. /\ above \in 0..WordSize-1 /\ below \in 0..WordSize-1
          /\ WordSize \in Nat \ {0} /\ StackStart \in Nat
      BY RequestsAssumption, SectionsAssumption, SizeAssumption
    <3>2. World(below) \in 0..WordSize-1
      <4>1. StackStart + below \in Nat
        BY <3>1
      <4> QED
        BY <3>1, <4>1, DivisionWithRemainder DEF World
    <3> QED
      BY <2>2, <3>1, <3>2 DEF SetA5WorldBounds, A5Types
  <2> QED
    BY <2>1, <2>2, OnlySegmentLoaderSizes
<1>6. CounterTypes'
  BY StepsAreCounted DEF MapInv
<1>7. MapInv' <=> /\ RegionsLieWithin' /\ Sound(store') /\ Buffer' /\ Restrictions'
                  /\ RegionTypes' /\ A5Types' /\ CounterTypes'
  BY DEF MapInv, Sound, IsStore
<1> QED
  BY <1>1, <1>2, <1>3, <1>4, <1>5, <1>6, <1>7

LEMMA MapInvHolds == Spec => []MapInv
BY MapInvInit, MapInvStep, PTL DEF Spec

LEMMA WritesAccounted ==
  ASSUME Sound(store)
  PROVE  WritesAreAccounted
<1>1. PICK log, tags : log = store.log /\ tags = store.tags
  OBVIOUS
<1>2. Accounted(tags, log) /\ store.initialized = Logged(log)
  BY <1>1 DEF Sound
<1>3. LoggedBytes = Logged(log) /\ Counters = CountersOf(tags)
  BY <1>1, Zenon DEF LoggedBytes, Logged, Counters, CountersOf
<1>4. ASSUME NEW x \in Logged(log)
      PROVE  \E s \in CountersOf(tags) : x \in Covered(s)
  <2>1. PICK i \in DOMAIN log : x \in log[i][1] .. log[i][2] - 1
    BY DEF Logged
  <2>2. log[i] \in Nat \X Nat
    BY <1>2 DEF Accounted
  <2>3. log[i][1] \in Nat /\ log[i][2] \in Nat
    BY <2>2
  <2>4. PICK c \in CountersOf(tags) : InSpan(log[i], c)
    BY <1>2 DEF Accounted
  <2>5. c.start \in Nat /\ c.end \in Nat
    BY <1>2, SpanFields DEF Accounted, CountersOf
  <2>6. x \in Covered(c)
    BY <2>1, <2>3, <2>4, <2>5 DEF InSpan, Covered
  <2> QED
    BY <2>6
<1>5. UNION {Covered(s) : s \in CountersOf(tags)} = Logged(log)
  <2>1. \A s \in CountersOf(tags) : Covered(s) \subseteq Logged(log)
    BY <1>2 DEF Accounted
  <2> QED
    BY <1>4, <2>1
<1>6. \A s, t \in CountersOf(tags) : s # t => s.end < t.start \/ t.end < s.start
  BY <1>2 DEF Accounted, Apart
<1>7. WritesAreRecorded
  BY <1>2, <1>3, <1>5, <1>6, Zenon DEF WritesAreRecorded
<1>8. \A s \in CountersOf(tags) :
        s.writes + 1 = Cardinality({i \in DOMAIN log : log[i][1] >= s.start /\ log[i][2] <= s.end})
  BY <1>2, Zenon DEF Accounted, Inside, InSpan
<1>9. WriteCountsAddUp
  BY <1>1, <1>3, <1>8, Zenon DEF WriteCountsAddUp
<1> QED
  BY <1>7, <1>9 DEF WritesAreAccounted

(* Whoever writes, through whichever region and however writes merge, the   *)
(* watcher knows just which bytes were written, and the DebugManager's      *)
(* counters cover them, touch nowhere and add up (debug_manager.cc,         *)
(* RecordWrite).                                                            *)
THEOREM WritesAlwaysAccounted == Spec => []WritesAreAccounted
<1>1. MapInv => WritesAreAccounted
  BY WritesAccounted DEF MapInv
<1> QED
  BY <1>1, MapInvHolds, PTL DEF Spec

LEMMA MapTypes ==
  ASSUME MapInv
  PROVE  MemoryMapTypeOK
<1>1. store.bytes \in [0..Size-1 -> Values] /\ store.tags \subseteq Spans
  BY DEF MapInv, Sound, Accounted
<1>2. store.log \in Seq(Nat \X Nat) /\ store.initialized = Logged(store.log)
  BY DEF MapInv, Sound, Accounted
<1>3. Logged(store.log) \subseteq Nat
  <2>1. ASSUME NEW x \in Logged(store.log)
        PROVE  x \in Nat
    <3>1. PICK i \in DOMAIN store.log : x \in store.log[i][1] .. store.log[i][2] - 1
      BY DEF Logged
    <3>2. store.log[i] \in Nat \X Nat
      BY <1>2
    <3>3. store.log[i][1] \in Nat /\ store.log[i][2] \in Nat
      BY <3>2
    <3> QED
      BY <3>1, <3>3
  <2> QED
    BY <2>1
<1>4. \A i \in DOMAIN restrictions : restrictions[i] \in Records
  BY DEF MapInv, Restrictions
<1> QED
  BY <1>1, <1>2, <1>3, <1>4 DEF MapInv, MemoryMapTypeOK, RegionTypes, A5Types, CounterTypes

(* Every variable keeps its type, every region stays in memory, and the A5  *)
(* world in its place.                                                      *)
THEOREM NothingEverLeavesItsPlace == Spec => []NothingLeavesItsPlace
<1>1. MapInv => MemoryMapTypeOK
  BY MapTypes
<1> QED
  BY <1>1, MapInvHolds, RegionsAlwaysStayInside, A5WorldAlwaysFits, PTL
     DEF Spec, NothingLeavesItsPlace
-----------------------------------------------------------------------------
(* What BlockMove, Read and Write leave behind.                             *)
LEMMA ShapeHolds == Spec => []Shape
<1>1. MapInv => Shape
  BY DEF MapInv, Sound, Buffer, Shape
<1> QED
  BY <1>1, MapInvHolds, PTL DEF Spec

LEMMA OthersSayNothing ==
  ASSUME Shape, [FileNext]_vars
  PROVE  \/ UNCHANGED vars
         \/ last' = <<"other">>
         \/ \E source, dest \in Blocks, n \in 2..3 : BlockMove(source, dest, n)
         \/ \E ptr \in Params : \E trap, block : Leaves(trap, ptr, block)
         \/ \E ptr \in Params, buffer \in Blocks, n \in Transfers :
              Read(ptr, buffer, n) \/ Write(ptr, buffer, n)
<1>1. CASE MapNext
  BY <1>1 DEF MapNext, CpuRead, CpuWrite, Create, CreateRest, RegionWrite, Tag,
              SetA5WorldBounds, LogRegionAccess, Step
<1>2. \A ptr : ReadDateTime(ptr) => last' = <<"other">>
  BY DEF ReadDateTime, Step
<1>3. CASE ~MapNext
  BY <1>2, <1>3, NamedTrapLeaves, PlainTrapLeaves DEF FileNext
<1> QED
  BY <1>1, <1>3

(* BlockMove copies forwards a byte at a time, whatever the blocks and      *)
(* however they overlap (trap_dispatcher.cc, BlockMove).                    *)
THEOREM BlockMoveAlwaysCopies == Spec => BlockMoveCopies
<1> DEFINE Copies == last'[1] = "BlockMove" /\ ~halted' =>
       LET source == last'[2]
           dest   == last'[3]
           n      == last'[4]
       IN  \A a \in 0..Size-1 :
             store'.bytes[a] =
               IF a < dest \/ a >= dest + n THEN store.bytes[a]
               ELSE IF dest <= source THEN store.bytes[source + (a - dest)]
               ELSE store.bytes[source + ((a - dest) % (dest - source))]
<1>1. Shape /\ [FileNext]_vars => [Copies]_mapVars
  <2> SUFFICES ASSUME Shape, [FileNext]_vars, ~UNCHANGED mapVars,
                      last'[1] = "BlockMove", ~halted'
               PROVE  Copies
    OBVIOUS
  <2>1. PICK source \in Blocks, dest \in Blocks, n \in 2..3 : BlockMove(source, dest, n)
    <3>1. ASSUME NEW ptr \in Params, NEW buffer \in Blocks, NEW n \in Transfers,
                 Read(ptr, buffer, n) \/ Write(ptr, buffer, n)
          PROVE  FALSE
      BY <3>1 DEF Read, Write, Step
    <3>2. last' # <<"other">>
      OBVIOUS
    <3>3. ASSUME NEW ptr \in Params, NEW trap, NEW block, Leaves(trap, ptr, block)
          PROVE  FALSE
      BY <3>3 DEF Leaves
    <3> QED
      BY <3>1, <3>2, <3>3, OthersSayNothing DEF vars
  <2>2. source \in Nat /\ dest \in Nat /\ n \in Nat
    BY RequestsAssumption
  <2>3. PICK copied \in 0..n : /\ Moved(store, store', source, dest, copied)
                               /\ halted' = (copied < n)
    BY <2>1, <2>2, BlockMoveMoves
  <2>4. copied = n
    <3>1. ~(copied < n)
      BY <2>3, Zenon
    <3> QED
      BY <2>2, <3>1
  <2>5. n = 0 \/ (source + n <= Size /\ dest + n <= Size)
    BY <2>2, <2>3, <2>4, InMemoryMeans DEF Moved
  <2>6. \A a \in 0..Size-1 : store'.bytes[a] = Copied(store, source, dest, n, a)
    <3>1. IsStore(store) /\ store' = CopyBytes(store, source, dest, n)
      BY <2>3, <2>4 DEF Moved, Shape
    <3>2. \A a \in 0..Size-1 :
            CopyBytes(store, source, dest, n).bytes[a] = Copied(store, source, dest, n, a)
      BY <2>2, <2>5, <3>1, CopyBytesCopies
    <3> QED
      BY <3>1, <3>2, Zenon
  <2>7. last'[2] = source /\ last'[3] = dest /\ last'[4] = n
    BY <2>1 DEF BlockMove, Step
  <2> QED
    BY <2>6, <2>7 DEF Copied
<1> QED
  BY <1>1, ShapeHolds, PTL DEF Spec, BlockMoveCopies

(* what a trap leaves at its block, when its data land in d before           *)
LEMMA TransferKeeps ==
  ASSUME Shape, NEW ptr \in Params, NEW buffer \in Blocks, NEW n \in Transfers,
         Read(ptr, buffer, n) \/ Write(ptr, buffer, n), ~halted'
  PROVE  /\ store'.bytes[ptr + ioResult - 1] = noErr
         /\ store'.bytes[ptr + ioActCount - 1] = n
         /\ \A i \in 1..ParamSize : i \notin {ioResult, ioActCount} =>
              store'.bytes[ptr + i - 1] = store.bytes[ptr + i - 1]
         /\ Read(ptr, buffer, n) =>
              \A a \in (buffer .. (buffer + n) - 1) \ (ptr .. ptr + ParamSize - 1) :
                store'.bytes[a] = 0
<1>1. /\ Size \in Nat /\ SaveBufferSize \in Nat /\ ParamSize \in Nat \ {0}
      /\ ptr \in Nat /\ buffer \in Nat /\ n \in Nat /\ f_offset \in Nat
  BY SizeAssumption, FileAssumption, RequestsAssumption DEF Shape, Tape
<1>2. InMemory(ptr, ParamSize) /\ InMemory(buffer, n) /\ InBuffer(n)
  BY DEF Read, Write
<1>3. /\ ptr + ParamSize <= Size /\ buffer + n <= Size /\ f_offset + n <= SaveBufferSize
  BY <1>1, <1>2, InMemoryMeans DEF InBuffer
<1>8. PICK block : block = Counted(Param(ptr))
  OBVIOUS
<1>9. /\ block \in [1..ParamSize -> Values] /\ block[ioResult] = noErr /\ block[ioActCount] = n
      /\ \A i \in 1..ParamSize :
           i \notin {ioResult, ioActCount} => block[i] = store.bytes[ptr + i - 1]
  BY <1>8, TransferLeaves
<1>4. PICK d : /\ IsStore(d) /\ store' = WriteBack(d, ptr, block)
               /\ Read(ptr, buffer, n) => d = Delivered(store, buffer, n)
  <2>1. IsStore(Delivered(store, buffer, n))
    BY <1>1, DeliveredWrites DEF Shape
  <2>2. CASE Read(ptr, buffer, n)
    BY <1>8, <2>1, <2>2 DEF Read
  <2>3. CASE ~Read(ptr, buffer, n)
    BY <1>8, <2>3 DEF Write, Shape
  <2> QED
    BY <2>2, <2>3
<1>5. /\ \A i \in 1..ParamSize : store'.bytes[ptr + i - 1] = block[i]
      /\ \A a \in (0..Size-1) \ (ptr .. ptr + ParamSize - 1) : store'.bytes[a] = d.bytes[a]
  <2>1. PICK t : t = WriteBack(d, ptr, block)
    OBVIOUS
  <2>2. /\ \A i \in 1..ParamSize : t.bytes[ptr + i - 1] = block[i]
        /\ \A a \in (0..Size-1) \ (ptr .. ptr + ParamSize - 1) : t.bytes[a] = d.bytes[a]
    <3>1. ParamSize \in Nat /\ ptr \in Nat /\ IsStore(d)
      BY <1>1, <1>4
    <3>2. InMemory(ptr, ParamSize) /\ block \in [1..ParamSize -> Values]
      BY <1>2, <1>9
    <3> QED
      BY <2>1, <3>1, <3>2, WriteBackWrites
  <2> QED
    BY <1>4, <2>1, <2>2
<1>6. \A a \in buffer .. (buffer + n) - 1 : a \in 0..Size-1
  BY <1>1, <1>3
<1>7. ASSUME Read(ptr, buffer, n),
             NEW a \in (buffer .. (buffer + n) - 1) \ (ptr .. ptr + ParamSize - 1)
      PROVE  store'.bytes[a] = 0
  <2>1. store'.bytes[a] = d.bytes[a]
    BY <1>5, <1>6
  <2>2. PICK i : i = f_offset + (a - buffer + 1) - 1
    OBVIOUS
  <2>3. /\ a \in 0..Size-1 /\ a >= buffer /\ a < buffer + n
        /\ i \in 0..SaveBufferSize-1 /\ i >= f_offset
    BY <1>1, <1>3, <1>6, <2>2
  <2>4. d.bytes[a] = save_buffer[i]
    <3>1. PICK e : e = Delivered(store, buffer, n)
      OBVIOUS
    <3>2. e.bytes[a] = save_buffer[f_offset + (a - buffer + 1) - 1]
      BY <1>1, <2>3, <3>1, DeliveredWrites DEF Shape
    <3> QED
      BY <1>4, <1>7, <2>2, <3>1, <3>2, Zenon
  <2> QED
    BY <2>1, <2>3, <2>4 DEF Shape, Tape
<1> QED
  BY <1>5, <1>7, <1>9, FieldsHold

(* Every trap with a parameter block changes just the fields it returns,    *)
(* wherever they lie in the block and wherever data land, and a transfer's  *)
(* count is how far the tape has moved (WithType, and the handlers in       *)
(* trap_dispatcher.cc).                                                     *)
THEOREM ParametersAlwaysSurvive == Spec => ParametersSurvive
<1> DEFINE Survive ==
       LET trap == last'[1]
       IN  trap \notin {"other", "BlockMove"} /\ ~halted' =>
             LET ptr == last'[2]
                 before(i) == store.bytes[ptr + i - 1]
                 after(i)  == store'.bytes[ptr + i - 1]
             IN  /\ \A i \in 1..SizeFor(trap) : i \in Returned(trap) \/ after(i) = before(i)
                 /\ trap # "SysEnvirons" => after(ioResult) = noErr
                 /\ trap \in {"Read", "Write"} => after(ioActCount) = f_offset' - f_offset
<1>1. Shape /\ [FileNext]_vars => [Survive]_vars
  <2> SUFFICES ASSUME Shape, [FileNext]_vars, ~UNCHANGED vars,
                      last'[1] \notin {"other", "BlockMove"}, ~halted'
               PROVE  Survive
    OBVIOUS
  <2>1. ASSUME NEW ptr \in Params, NEW trap, NEW block, Leaves(trap, ptr, block)
        PROVE  Survive
    <3>1. ptr \in Nat /\ SizeFor(trap) \in Nat /\ IsStore(store)
      BY FileAssumption DEF SizeFor, Shape
    <3>2. \A i \in 1..SizeFor(trap) : store'.bytes[ptr + i - 1] = block[i]
      <4>1. PICK size, t : size = SizeFor(trap) /\ t = WriteBack(store, ptr, block)
        OBVIOUS
      <4>2. InMemory(ptr, size) /\ block \in [1..size -> Values] /\ size \in Nat /\ store' = t
        BY <2>1, <3>1, <4>1 DEF Leaves
      <4>3. \A i \in 1..size : t.bytes[ptr + i - 1] = block[i]
        BY <3>1, <4>1, <4>2, WriteBackWrites
      <4> QED
        BY <4>1, <4>2, <4>3
    <3>3. \A i \in 1..SizeFor(trap) :
            i \in Returned(trap) \/ store'.bytes[ptr + i - 1] = store.bytes[ptr + i - 1]
      BY <2>1, <3>2 DEF Leaves
    <3>4. trap # "SysEnvirons" => store'.bytes[ptr + ioResult - 1] = noErr
      BY <2>1, <3>2, FieldsHold DEF Leaves, SizeFor
    <3>5. last'[1] = trap /\ last'[2] = ptr /\ trap \notin {"Read", "Write"}
      BY <2>1 DEF Leaves
    <3> QED
      BY <3>3, <3>4, <3>5
  <2>2. ASSUME NEW ptr \in Params, NEW buffer \in Blocks, NEW n \in Transfers,
               Read(ptr, buffer, n) \/ Write(ptr, buffer, n)
        PROVE  Survive
    <3>1. last'[1] \in {"Read", "Write"} /\ last'[2] = ptr
      BY <2>2 DEF Read, Write, Step
    <3>2. SizeFor(last'[1]) = ParamSize /\ Returned(last'[1]) = {ioResult, ioActCount}
      BY <3>1 DEF SizeFor, Returned
    <3>3. f_offset' - f_offset = n
      <4>1. f_offset' = f_offset + n
        BY <2>2 DEF Read, Write, Advanced
      <4> QED
        BY <4>1, FileAssumption DEF Shape, Tape
    <3>4. /\ store'.bytes[ptr + ioResult - 1] = noErr
          /\ store'.bytes[ptr + ioActCount - 1] = n
          /\ \A i \in 1..ParamSize : i \notin {ioResult, ioActCount} =>
               store'.bytes[ptr + i - 1] = store.bytes[ptr + i - 1]
      BY <2>2, TransferKeeps
    <3> QED
      BY <3>1, <3>2, <3>3, <3>4
  <2>3. ASSUME NEW source \in Blocks, NEW dest \in Blocks, NEW n \in 2..3,
               BlockMove(source, dest, n)
        PROVE  FALSE
    BY <2>3 DEF BlockMove, Step
  <2>4. last' # <<"other">>
    OBVIOUS
  <2> QED
    BY <2>1, <2>2, <2>3, <2>4, OthersSayNothing
<1> QED
  BY <1>1, ShapeHolds, PTL DEF Spec, ParametersSurvive

(* The File Manager's buffer is a tape, whatever its size and whatever is   *)
(* opened, read and written: no byte of it is ever rewritten, because no    *)
(* trap moves its offset back, and a Read delivers only zeros               *)
(* (trap_dispatcher.cc, Open, Read and Write).                              *)
THEOREM TheBufferIsATape == Spec => TheTapeOnlyMovesOn
<1>1. Shape /\ [FileNext]_vars => [NothingIsRewritten /\ OnlyZerosAreRead]_vars
  <2> SUFFICES ASSUME Shape, [FileNext]_vars, ~UNCHANGED vars
               PROVE  NothingIsRewritten /\ OnlyZerosAreRead
    OBVIOUS
  <2>1. NothingIsRewritten
    <3>1. CASE UNCHANGED <<save_buffer, f_offset>>
      BY <3>1, FileAssumption DEF Shape, Tape, NothingIsRewritten
    <3> QED
      BY <3>1, OnlyTransfersMoveTheTape, TransferStep DEF Shape
  <2>2. ASSUME last'[1] = "Read", ~halted'
        PROVE  OnlyZerosAreRead
    <3>1. PICK ptr \in Params, buffer \in Blocks, n \in Transfers : Read(ptr, buffer, n)
      <4>1. ASSUME NEW source \in Blocks, NEW dest \in Blocks, NEW n \in 2..3,
                   BlockMove(source, dest, n)
            PROVE  FALSE
        BY <2>2, <4>1 DEF BlockMove, Step
      <4>2. ASSUME NEW ptr \in Params, NEW buffer \in Blocks, NEW n \in Transfers,
                   Write(ptr, buffer, n)
            PROVE  FALSE
        BY <2>2, <4>2 DEF Write, Step
      <4>3. last' # <<"other">>
        BY <2>2
      <4>4. ASSUME NEW ptr \in Params, NEW trap, NEW block, Leaves(trap, ptr, block)
            PROVE  FALSE
        BY <2>2, <4>4 DEF Leaves
      <4> QED
        BY <4>1, <4>2, <4>3, <4>4, OthersSayNothing
    <3>2. last'[2] = ptr /\ last'[3] = buffer /\ last'[4] = n
      BY <3>1 DEF Read, Step
    <3>3. \A a \in (buffer .. (buffer + n) - 1) \ (ptr .. ptr + ParamSize - 1) :
            store'.bytes[a] = 0
      BY <2>2, <3>1, TransferKeeps
    <3> QED
      BY <3>2, <3>3 DEF OnlyZerosAreRead
  <2> QED
    BY <2>1, <2>2 DEF OnlyZerosAreRead
<1> QED
  BY <1>1, ShapeHolds, PTL DEF Spec, TheTapeOnlyMovesOn
-----------------------------------------------------------------------------
(* PrintMemoryMap: the stack after k spans holds, in their order, those     *)
(* that end after the last one's start, and the last one.                   *)
Depth(list, k, depth, at) ==
  /\ depth \in Seq(Spans)
  /\ \A m \in 1..Len(depth) : at[m] \in 1..k /\ depth[m] = list[at[m]]
  /\ \A m, o \in 1..Len(depth) : m < o => at[m] < at[o]
  /\ \A j \in 1..k : j = k \/ list[j].end > list[k].start => \E m \in 1..Len(depth) : at[m] = j
  /\ \A m \in 1..Len(depth) : at[m] = k \/ depth[m].end > list[k].start

Enclosing(list, i) == {j \in 1..i-1 : list[j].end > list[i].start}

InOrder(list, n) ==
  /\ \A i \in 1..n : list[i] \in Spans
  /\ \A i, j \in 1..n : i < j => SpanBefore(list[i], list[j])

(* an outer span on the stack is open for as long as an inner one is        *)
LEMMA OuterStaysOpen ==
  ASSUME NEW a \in Spans, NEW b \in Spans, NEW x \in Nat, SpanBefore(a, b),
         b.start <= x, a.start <= x, b.end > x, a.end > b.start,
         \/ a.end <= b.start \/ b.end <= a.start
         \/ a.start <= b.start /\ b.end <= a.end
         \/ b.start <= a.start /\ a.end <= b.end
  PROVE  a.end > x
<1>1. a.start \in Nat /\ a.end \in Nat /\ b.start \in Nat /\ b.end \in Nat
  BY SpanFields
<1>2. a.start < b.start \/ (a.start = b.start /\ a.end >= b.end)
  BY <1>1, BeforeByTag
<1> QED
  BY <1>1, <1>2

LEMMA PoppedTo ==
  ASSUME NEW list, NEW n \in Nat, InOrder(list, n), Laminar({list[i] : i \in 1..n}),
         NEW k \in Nat, k + 1 \in 1..n, NEW depth, NEW at, Depth(list, k, depth, at)
  PROVE  \E top \in 0..Len(depth) :
           /\ PopClosed(depth, list[k + 1]) = SubSeq(depth, 1, top)
           /\ \A m \in 1..Len(depth) : m <= top <=> list[k + 1].start < depth[m].end
<1>1. PICK s, d : s = list[k + 1] /\ d = Len(depth)
  OBVIOUS
<1>2. d \in Nat /\ depth \in Seq(Spans) /\ \A m \in 1..d : depth[m] \in Spans
  BY <1>1 DEF Depth
<1>3. s \in Spans /\ s.start \in Nat
  BY <1>1, SpanFields DEF InOrder
<1> DEFINE open == {m \in 1..d : s.start < depth[m].end}
<1>4. ASSUME NEW m \in 1..d, NEW o \in 1..d, m < o, o \in open
      PROVE  m \in open
  <2>1. PICK a, b, i, j : a = depth[m] /\ b = depth[o] /\ i = at[m] /\ j = at[o]
    OBVIOUS
  <2>2. /\ i \in 1..k /\ j \in 1..k /\ i < j /\ a = list[i] /\ b = list[j]
        /\ a.end > list[k].start
    BY <1>1, <1>4, <2>1 DEF Depth
  <2>3. i \in 1..n /\ j \in 1..n /\ k \in 1..n /\ k < k + 1
    BY <2>2
  <2>4. SpanBefore(a, b) /\ (j = k \/ SpanBefore(b, list[k])) /\ SpanBefore(list[k], s)
    BY <1>1, <2>2, <2>3 DEF InOrder
  <2>5. a \in Spans /\ b \in Spans /\ list[k] \in Spans
    BY <2>2, <2>3 DEF InOrder
  <2>6. a.start <= b.start /\ (j = k \/ b.start <= list[k].start) /\ list[k].start <= s.start
    BY <1>3, <2>4, <2>5, BeforeIsAnOrder
  <2>7. /\ a.start \in Nat /\ a.end \in Nat /\ b.start \in Nat /\ b.end \in Nat
        /\ list[k].start \in Nat
    BY <2>5, SpanFields
  <2>8. b.start <= list[k].start
    BY <2>2, <2>6, <2>7
  <2>9. b.end > s.start
    BY <1>3, <1>4, <2>1, <2>7
  <2>10. \/ a.end <= b.start \/ b.end <= a.start
         \/ a.start <= b.start /\ b.end <= a.end
         \/ b.start <= a.start /\ a.end <= b.end
    <3>1. a \in {list[l] : l \in 1..n} /\ b \in {list[l] : l \in 1..n}
      BY <2>2, <2>3
    <3> QED
      BY <3>1 DEF Laminar
  <2>11. b.start <= s.start /\ a.start <= s.start /\ a.end > b.start
    BY <1>3, <2>2, <2>6, <2>7, <2>8
  <2>12. a.end > s.start
    BY <1>3, <2>4, <2>5, <2>9, <2>10, <2>11, OuterStaysOpen
  <2> QED
    BY <1>3, <2>1, <2>7, <2>12
<1>5. PICK top \in 0..d :
        /\ top = IF open = {} THEN 0 ELSE CHOOSE m \in open : \A o \in open : o <= m
        /\ open # {} => top \in open /\ \A o \in open : o <= top
        /\ open = {} => top = 0
  <2>1. open \subseteq 1..d /\ open \subseteq 0..d
    OBVIOUS
  <2> HIDE DEF open
  <2>2. CASE open = {}
    BY <1>2, <2>2
  <2>3. CASE open # {}
    <3>1. PICK top : top = CHOOSE m \in open : \A o \in open : o <= m
      OBVIOUS
    <3>2. \E m \in open : \A o \in open : o <= m
      BY <1>2, <2>1, <2>3, LargestElement
    <3>3. top \in open /\ \A o \in open : o <= top
      BY <3>1, <3>2, Zenon
    <3>4. top \in 0..d
      BY <2>1, <3>3
    <3> QED
      BY <2>3, <3>1, <3>3, <3>4
  <2> QED
    BY <2>2, <2>3
<1>6. PopClosed(depth, s) = SubSeq(depth, 1, top)
  BY <1>1, <1>5, Zenon DEF PopClosed
<1>7. ASSUME NEW m \in 1..d
      PROVE  m <= top <=> s.start < depth[m].end
  <2>1. m \in open <=> s.start < depth[m].end
    OBVIOUS
  <2> HIDE DEF open
  <2>2. ASSUME m <= top PROVE m \in open
    <3>1. top \in open /\ top \in 1..d
      BY <1>2, <1>5, <2>2
    <3>2. m = top \/ m < top
      BY <2>2, <3>1
    <3> QED
      BY <1>4, <3>1, <3>2
  <2>3. ASSUME m \in open PROVE m <= top
    BY <1>5, <2>3
  <2> QED
    BY <2>1, <2>2, <2>3
<1> QED
  BY <1>1, <1>5, <1>6, <1>7

(* what is left on the stack is what encloses the next span                 *)
LEMMA PoppedCounts ==
  ASSUME NEW list, NEW n \in Nat, InOrder(list, n), NEW k \in Nat, k + 1 \in 1..n,
         NEW depth, NEW at, Depth(list, k, depth, at), NEW top \in 0..Len(depth),
         \A m \in 1..Len(depth) : m <= top <=> list[k + 1].start < depth[m].end
  PROVE  /\ Cardinality(Enclosing(list, k + 1)) = top
         /\ \A j \in Enclosing(list, k + 1) : \E m \in 1..top : at[m] = j
<1>1. PICK s, d : s = list[k + 1] /\ d = Len(depth)
  OBVIOUS
<1>2. d \in Nat /\ top \in 0..d /\ depth \in Seq(Spans)
  BY <1>1 DEF Depth
<1>3. PICK enclosing : enclosing = Enclosing(list, k + 1)
  OBVIOUS
<1>4. enclosing = {j \in 1..k : list[j].end > s.start}
  BY <1>1, <1>3 DEF Enclosing
<1>5. ASSUME NEW j \in enclosing
      PROVE  \E m \in 1..top : at[m] = j
  <2>1. j \in 1..k /\ list[j].end > s.start
    BY <1>4
  <2>2. j \in 1..n /\ k \in 1..n /\ k + 1 \in 1..n /\ k < k + 1
    BY <2>1
  <2>3. list[k] \in Spans /\ s \in Spans /\ list[j] \in Spans /\ SpanBefore(list[k], s)
    BY <1>1, <2>2 DEF InOrder
  <2>4. list[k].start \in Nat /\ s.start \in Nat /\ list[j].end \in Nat /\ list[k].start <= s.start
    BY <2>3, SpanFields, BeforeIsAnOrder
  <2>5. list[j].end > list[k].start
    BY <2>1, <2>4
  <2>6. PICK m \in 1..d : at[m] = j
    BY <1>1, <2>1, <2>5 DEF Depth
  <2>7. depth[m] = list[j]
    BY <1>1, <2>6 DEF Depth
  <2>8. s.start < depth[m].end
    BY <2>1, <2>4, <2>7
  <2>9. m <= top
    BY <1>1, <2>8
  <2> QED
    BY <1>2, <2>6, <2>9
<1>6. PICK f : f = [m \in 1..top |-> at[m]]
  OBVIOUS
<1>7. ASSUME NEW m \in 1..top
      PROVE  f[m] = at[m] /\ f[m] \in enclosing
  <2>1. m \in 1..d /\ m <= top
    BY <1>2
  <2>2. at[m] \in 1..k /\ depth[m] = list[at[m]]
    BY <1>1, <2>1 DEF Depth
  <2>3. s.start < depth[m].end
    BY <1>1, <2>1
  <2>4. depth[m] \in Spans /\ s \in Spans
    BY <1>1, <1>2, <2>1 DEF InOrder
  <2>5. list[at[m]].end > s.start
    BY <2>2, <2>3, <2>4, SpanFields
  <2> QED
    BY <1>4, <1>6, <2>2, <2>5
<1>8. ASSUME NEW m \in 1..top, NEW o \in 1..top, f[m] = f[o]
      PROVE  m = o
  <2>1. m \in 1..d /\ o \in 1..d /\ at[m] = at[o]
    BY <1>2, <1>7, <1>8
  <2>2. at[m] \in 1..k
    BY <1>1, <2>1 DEF Depth
  <2>3. ~(m < o) /\ ~(o < m)
    BY <1>1, <2>1, <2>2 DEF Depth
  <2> QED
    BY <2>1, <2>3
<1>9. f \in Bijection(1..top, enclosing)
  <2>1. f \in [1..top -> enclosing]
    BY <1>6, <1>7
  <2>2. f \in Injection(1..top, enclosing)
    BY <1>8, <2>1 DEF Injection, IsInjective
  <2>3. f \in Surjection(1..top, enclosing)
    BY <1>5, <1>7, <2>1 DEF Surjection
  <2> QED
    BY <2>2, <2>3 DEF Bijection
<1>10. Cardinality(enclosing) = top
  <2>1. IsFiniteSet(1..top) /\ Cardinality(1..top) = top
    <3>1. 1 \in Int /\ top \in Int /\ top >= 0
      BY <1>2
    <3>2. IsFiniteSet(1..top) /\ Cardinality(1..top) = IF 1 > top THEN 0 ELSE top - 1 + 1
      BY <3>1, FS_Interval
    <3> QED
      BY <3>1, <3>2
  <2>2. ExistsBijection(1..top, enclosing)
    BY <1>9 DEF ExistsBijection
  <2> QED
    BY <2>1, <2>2, FS_Bijection
<1> QED
  BY <1>3, <1>5, <1>10

(* PrintMemoryMap after k spans                                             *)
Prints(list, k, acc) ==
  /\ \E at : Depth(list, k, acc.depth, at)
  /\ acc.indents \in Seq(Nat) /\ Len(acc.indents) = k
  /\ \A i \in 1..k : acc.indents[i] = Cardinality(Enclosing(list, i))

LEMMA PrintStep ==
  ASSUME NEW list, NEW n \in Nat, InOrder(list, n), Laminar({list[i] : i \in 1..n}),
         NEW k \in Nat, k + 1 \in 1..n, NEW acc, Prints(list, k, acc)
  PROVE  Prints(list, k + 1, Printed(acc, list[k + 1]))
<1>1. PICK s, depth, indents : s = list[k + 1] /\ depth = acc.depth /\ indents = acc.indents
  OBVIOUS
<1>2. PICK at : Depth(list, k, depth, at)
  BY <1>1 DEF Prints
<1>3. PICK top \in 0..Len(depth) :
        /\ PopClosed(depth, s) = SubSeq(depth, 1, top)
        /\ \A m \in 1..Len(depth) : m <= top <=> s.start < depth[m].end
  BY <1>1, <1>2, PoppedTo
<1>4. /\ Cardinality(Enclosing(list, k + 1)) = top
      /\ \A j \in Enclosing(list, k + 1) : \E m \in 1..top : at[m] = j
  BY <1>1, <1>2, <1>3, PoppedCounts
<1>5. PICK popped : popped = SubSeq(depth, 1, top)
  OBVIOUS
<1>6. /\ depth \in Seq(Spans) /\ Len(depth) \in Nat /\ top \in Nat /\ top <= Len(depth)
      /\ popped \in Seq(Spans) /\ Len(popped) = top
      /\ \A m \in 1..top : popped[m] = depth[m]
  BY <1>2, <1>3, <1>5 DEF Depth
<1>7. PICK deeper, more : deeper = Append(popped, s) /\ more = Append(indents, top)
  OBVIOUS
<1>8. s \in Spans
  BY <1>1 DEF InOrder
<1>9. /\ deeper \in Seq(Spans) /\ Len(deeper) = top + 1 /\ deeper[top + 1] = s
      /\ \A m \in 1..top : deeper[m] = depth[m]
  <2>1. /\ deeper \in Seq(Spans) /\ Len(deeper) = Len(popped) + 1
        /\ deeper[Len(popped) + 1] = s
        /\ \A m \in 1..Len(popped) : deeper[m] = popped[m]
    BY <1>6, <1>7, <1>8, Appended
  <2> QED
    BY <1>6, <2>1
<1>10. /\ indents \in Seq(Nat) /\ Len(indents) = k
       /\ \A i \in 1..k : indents[i] = Cardinality(Enclosing(list, i))
  BY <1>1, Zenon DEF Prints
<1>11. /\ more \in Seq(Nat) /\ Len(more) = k + 1 /\ more[k + 1] = top
       /\ \A i \in 1..k : more[i] = indents[i]
  BY <1>6, <1>7, <1>10
<1>12. PICK next : next = [depth |-> deeper, indents |-> more]
  OBVIOUS
<1>13. Printed(acc, s) = next /\ next.depth = deeper /\ next.indents = more
  <2>1. Printed(acc, s) = [depth |-> Append(popped, s), indents |-> Append(indents, Len(popped))]
    BY <1>1, <1>3, <1>5, Zenon DEF Printed
  <2>2. Printed(acc, s) = next
    BY <1>6, <1>7, <1>12, <2>1, Zenon
  <2> QED
    BY <1>12, <2>2
<1>14. PICK new : new = [m \in 1..(top + 1) |-> IF m = top + 1 THEN k + 1 ELSE at[m]]
  OBVIOUS
<1>15. /\ new[top + 1] = k + 1
       /\ \A m \in 1..top : new[m] = at[m] /\ at[m] \in 1..k /\ depth[m] = list[at[m]]
       /\ \A m \in 1..(top + 1) : m \in 1..top \/ m = top + 1
  <2>1. \A m \in 1..top : m \in 1..Len(depth) /\ m # top + 1 /\ m \in 1..(top + 1)
    BY <1>6
  <2>2. top + 1 \in 1..(top + 1)
    BY <1>6
  <2>3. \A m \in 1..(top + 1) : m \in 1..top \/ m = top + 1
    BY <1>6
  <2> QED
    BY <1>2, <1>14, <2>1, <2>2, <2>3 DEF Depth
<1>16. Depth(list, k + 1, deeper, new)
  <2>1. \A m \in 1..(top + 1) : new[m] \in 1..(k + 1) /\ deeper[m] = list[new[m]]
    <3>1. ASSUME NEW m \in 1..top
          PROVE  new[m] \in 1..(k + 1) /\ deeper[m] = list[new[m]]
      <4>1. new[m] = at[m] /\ at[m] \in 1..k /\ deeper[m] = list[at[m]]
        BY <1>9, <1>15
      <4>2. at[m] \in 1..(k + 1)
        BY <4>1
      <4> QED
        BY <4>1, <4>2
    <3>2. new[top + 1] \in 1..(k + 1) /\ deeper[top + 1] = list[new[top + 1]]
      <4>1. k + 1 \in 1..(k + 1)
        OBVIOUS
      <4> QED
        BY <1>1, <1>9, <1>15, <4>1
    <3> QED
      BY <1>15, <3>1, <3>2
  <2>2. ASSUME NEW m \in 1..(top + 1), NEW o \in 1..(top + 1), m < o
        PROVE  new[m] < new[o]
    <3>1. m \in 1..top
      BY <1>6, <2>2
    <3>2. CASE o = top + 1
      BY <1>15, <3>1, <3>2
    <3>3. CASE o \in 1..top
      <4>1. at[m] < at[o]
        BY <1>2, <1>6, <2>2, <3>1, <3>3 DEF Depth
      <4> QED
        BY <1>15, <3>1, <3>3, <4>1
    <3> QED
      BY <1>15, <3>2, <3>3
  <2>3. ASSUME NEW j \in 1..(k + 1), j = k + 1 \/ list[j].end > list[k + 1].start
        PROVE  \E m \in 1..(top + 1) : new[m] = j
    <3>1. CASE j = k + 1
      <4>1. top + 1 \in 1..(top + 1)
        BY <1>6
      <4> QED
        BY <1>15, <3>1, <4>1
    <3>2. CASE j # k + 1
      <4>1. j \in Enclosing(list, k + 1)
        BY <2>3, <3>2 DEF Enclosing
      <4>2. PICK m \in 1..top : at[m] = j
        BY <1>4, <4>1
      <4>3. m \in 1..(top + 1) /\ new[m] = j
        BY <1>6, <1>15, <4>2
      <4> QED
        BY <4>3
    <3> QED
      BY <3>1, <3>2
  <2>4. ASSUME NEW m \in 1..(top + 1)
        PROVE  new[m] = k + 1 \/ deeper[m].end > list[k + 1].start
    <3>1. CASE m = top + 1
      BY <1>15, <3>1
    <3>2. CASE m \in 1..top
      <4>1. m \in 1..Len(depth) /\ m <= top
        BY <1>6, <3>2
      <4>2. s.start < depth[m].end /\ deeper[m] = depth[m]
        BY <1>3, <1>9, <3>2, <4>1
      <4>3. depth[m] \in Spans
        BY <1>6, <4>1
      <4>4. depth[m].end \in Nat /\ s.start \in Nat
        BY <1>8, <4>3, SpanFields
      <4> QED
        BY <1>1, <4>2, <4>4
    <3> QED
      BY <1>15, <3>1, <3>2
  <2> QED
    BY <1>9, <2>1, <2>2, <2>3, <2>4 DEF Depth
<1>17. \A i \in 1..(k + 1) : more[i] = Cardinality(Enclosing(list, i))
  <2>1. \A i \in 1..(k + 1) : i \in 1..k \/ i = k + 1
    OBVIOUS
  <2> QED
    BY <1>4, <1>10, <1>11, <2>1
<1>18. Prints(list, k + 1, next)
  BY <1>11, <1>13, <1>16, <1>17, Zenon DEF Prints
<1> QED
  BY <1>1, <1>13, <1>18

LEMMA PrintLoop ==
  ASSUME NEW list, NEW n \in Nat, DOMAIN list = 1..n, NEW first
  PROVE  LET loop == [kind |-> "print", spans |-> list]
         IN  \E h : Runs(h, loop, n, first) /\ FoldLeft(Printed, first, list) = h[n]
<1> DEFINE loop == [kind |-> "print", spans |-> list]
           Raw(iter) == iter = [t \in SUBSET DOMAIN list |->
                IF t = {} THEN first
                ELSE LET x == Max(t)
                     IN  Printed(iter[t \ {x}], list[x])]
<1>1. FoldLeft(Printed, first, list) = (CHOOSE iter : Raw(iter))[DOMAIN list]
  BY Zenon DEF FoldLeft, MapThenFoldSet
<1>2. ASSUME NEW iter
      PROVE  Raw(iter) <=> Unfolds(iter, loop, n, first)
  <2>1. \A acc, k : LoopStep(loop, acc, k) = Printed(acc, list[k])
    BY DEF LoopStep
  <2> HIDE DEF loop
  <2>2. [t \in SUBSET DOMAIN list |->
                IF t = {} THEN first
                ELSE LET x == Max(t)
                     IN  Printed(iter[t \ {x}], list[x])]
        = [t \in SUBSET (1..n) |->
            IF t = {} THEN first ELSE LoopStep(loop, iter[t \ {Max(t)}], Max(t))]
    BY <2>1
  <2> QED
    BY <2>2, Zenon DEF Unfolds
<1> HIDE DEF loop
<1>3. \E iter : Raw(iter)
  BY <1>2, UnfoldingExists
<1>4. PICK found : found = (CHOOSE iter : Raw(iter))
  OBVIOUS
<1>5. Raw(found)
  BY <1>3, <1>4, Zenon
<1>6. FoldLeft(Printed, first, list) = found[DOMAIN list]
  BY <1>1, <1>4, Zenon
<1> HIDE DEF Raw
<1>7. Unfolds(found, loop, n, first) /\ FoldLeft(Printed, first, list) = found[1..n]
  BY <1>2, <1>5, <1>6
<1>8. PICK h : Runs(h, loop, n, first) /\ h[n] = found[1..n]
  BY <1>7, UnfoldingRuns
<1> QED
  BY <1>7, <1>8 DEF loop

LEMMA MapIsPrinted ==
  ASSUME NEW spans, spans \subseteq Spans, IsFiniteSet(spans), AllDiffer(spans), Laminar(spans)
  PROVE  \A i \in 1..Cardinality(spans) :
           PrintMemoryMap(spans)[i] = Cardinality(Enclosing(Sorted(spans), i))
<1>1. PICK list, n : list = Sorted(spans) /\ n = Cardinality(spans)
  OBVIOUS
<1>2. /\ n \in Nat /\ DOMAIN list = 1..n
      /\ \A i \in 1..n : list[i] \in spans
      /\ \A s \in spans : \E i \in 1..n : list[i] = s
      /\ \A i, j \in 1..n : i < j => list[i] # list[j] /\ SpanBefore(list[i], list[j])
  BY <1>1, SortedSorts
<1>3. InOrder(list, n)
  BY <1>2 DEF InOrder
<1>4. Laminar({list[i] : i \in 1..n})
  <2>1. {list[i] : i \in 1..n} = spans
    BY <1>2
  <2> QED
    BY <2>1
<1>5. PICK first, loop, last0 : /\ first = [depth |-> <<>>, indents |-> <<>>]
                                /\ loop = [kind |-> "print", spans |-> list]
                                /\ last0 = FoldLeft(Printed, first, list)
  OBVIOUS
<1>6. PrintMemoryMap(spans) = last0.indents
  BY <1>1, <1>5, Zenon DEF PrintMemoryMap
<1>7. PICK h : Runs(h, loop, n, first) /\ last0 = h[n]
  <2>1. \E h : Runs(h, loop, n, first) /\ FoldLeft(Printed, first, list) = h[n]
    BY <1>2, <1>5, PrintLoop
  <2> QED
    BY <1>5, <2>1
<1> DEFINE S == {k \in 0..n : Prints(list, k, h[k])}
<1>8. Prints(list, 0, h[0])
  <2>1. h[0] = first /\ first.depth = <<>> /\ first.indents = <<>>
    BY <1>5, <1>7 DEF Runs
  <2>2. Depth(list, 0, <<>>, <<>>)
    BY DEF Depth
  <2>3. <<>> \in Seq(Nat) /\ Len(<<>>) = 0
    OBVIOUS
  <2>4. \A i \in 1..0 : FALSE
    OBVIOUS
  <2> QED
    BY <2>1, <2>2, <2>3, <2>4, Zenon DEF Prints
<1>9. ASSUME NEW k \in 1..n, Prints(list, k - 1, h[k - 1])
      PROVE  Prints(list, k, h[k])
  <2>1. PICK p \in Nat : p = k - 1 /\ k = p + 1
    OBVIOUS
  <2>2. h[k] = Printed(h[p], list[k])
    BY <1>5, <1>7, <2>1 DEF Runs, LoopStep
  <2>3. Prints(list, p, h[p]) /\ p + 1 \in 1..n
    BY <1>9, <2>1
  <2>4. Prints(list, p + 1, Printed(h[p], list[p + 1]))
    BY <1>2, <1>3, <1>4, <2>3, PrintStep
  <2> QED
    BY <2>1, <2>2, <2>4
<1>10. 0 \in S /\ \A k \in 1..n : k - 1 \in S => k \in S
  BY <1>2, <1>8, <1>9
<1> HIDE DEF S
<1>11. n \in S
  <2>1. \A k \in 0..n : k \in S
    BY <1>2, <1>10, LoopInduction, Zenon
  <2> QED
    BY <1>2, <2>1
<1>12. Prints(list, n, last0)
  BY <1>7, <1>11 DEF S
<1> QED
  BY <1>1, <1>6, <1>12 DEF Prints

(* While no two spans cross, each is printed under just those that enclose  *)
(* it, however many there are (debug_manager.cc, PrintMemoryMap).           *)
THEOREM TheMapAlwaysShowsNesting == Spec => []MapShowsNesting
<1>1. MapInv => MapShowsNesting
  <2> SUFFICES ASSUME MapInv, Laminar(store.tags), NEW i \in 1..Cardinality(store.tags)
               PROVE  PrintMemoryMap(store.tags)[i] =
                        Cardinality({j \in 1..i-1 :
                                       Sorted(store.tags)[j].end > Sorted(store.tags)[i].start})
    BY Zenon DEF MapShowsNesting
  <2>1. store.tags \subseteq Spans /\ IsFiniteSet(store.tags) /\ AllDiffer(store.tags)
    BY DEF MapInv, Sound, Accounted
  <2> QED
    BY <2>1, MapIsPrinted, Zenon DEF Enclosing
<1> QED
  BY <1>1, MapInvHolds, PTL DEF Spec
=============================================================================
