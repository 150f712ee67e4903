------------------------ MODULE SegmentLoaderProofs ------------------------
(***************************************************************************)
(* Proofs about the Resource Manager and the Segment Loader, for any two    *)
(* files that number their resources and any jump table whose segments say  *)
(* which entries are theirs.                                                *)
(***************************************************************************)
EXTENDS SegmentLoader, WellFoundedInduction, TLAPS

Resources == Range(AppFile) \cup Range(SystemFile)

(* `r' is what a search for its own type and number finds.                  *)
Right(r) == r \in Resources /\ r \in Search(r.type, r.id)

(* Handles and the cache are inverse to each other.                         *)
CacheInv ==
  /\ handles \in Seq(Resources)
  /\ \A k \in DOMAIN resource_to_handle :
       /\ resource_to_handle[k] \in DOMAIN handles
       /\ Key(handles[resource_to_handle[k]]) = k
  /\ \A h \in DOMAIN handles :
       /\ Right(handles[h])
       /\ Cached(Key(handles[h]))
       /\ resource_to_handle[Key(handles[h])] = h
StatusInv == ResErr \in {0, -192} /\ missing \in BOOLEAN

Stay ==
  \A k \in DOMAIN resource_to_handle :
    /\ k \in DOMAIN resource_to_handle'
    /\ resource_to_handle'[k] = resource_to_handle[k]

(* A search finds what was asked for.                                       *)
LEMMA SearchIsExact ==
  ASSUME NEW type, NEW id, NEW r \in Search(type, id)
  PROVE  r.type = type /\ r.id = id /\ Right(r)
BY DEF Search, FindByTypeAndId, First, Right, Resources, Range

(* In a file, whose resources of a type are numbered, nothing hides behind  *)
(* another resource of its type and number.                                 *)
LEMMA FoundWhereItIs ==
  ASSUME NEW file \in {AppFile, SystemFile}, NEW i \in DOMAIN file
  PROVE  file[i] \in FindByTypeAndId(file, file[i].type, file[i].id)
<1> DEFINE wanted == {r \in Range(file) : r.type = file[i].type /\ r.id = file[i].id}
<1>1. file[i] \in wanted
  BY DEF Range
<1>2. DOMAIN file = 1..Len(file) /\ Len(file) \in Nat
  BY ResourceAssumption
<1>3. ASSUME NEW j \in 1..(i - 1), file[j] \in wanted
      PROVE  FALSE
  <2>1. j \in DOMAIN file /\ j # i
    BY <1>2
  <2> QED
    BY <1>3, <2>1, ResourceAssumption
<1> QED
  BY <1>1, <1>3 DEF FindByTypeAndId, First

(* What a name finds in the application's file, its number finds as well.   *)
LEMMA NamesAgreeWithNumbers ==
  ASSUME NEW type, NEW name, NEW r \in FindByTypeAndName(AppFile, type, name)
  PROVE  Right(r)
<1>1. PICK i \in DOMAIN AppFile : r = AppFile[i]
  BY DEF FindByTypeAndName, First
<1>2. r \in FindByTypeAndId(AppFile, r.type, r.id)
  BY <1>1, FoundWhereItIs
<1> QED
  BY <1>1, <1>2 DEF Right, Search, Resources, Range

(* A resource of the System file is found only if the application's file    *)
(* has none of its type and number.                                         *)
LEMMA RightShadows ==
  ASSUME NEW r, Right(r), ~InFile(r, AppFile)
  PROVE  /\ InFile(r, SystemFile)
         /\ \A i \in DOMAIN AppFile : Key(AppFile[i]) # Key(r)
<1>1. r \notin FindByTypeAndId(AppFile, r.type, r.id)
  BY DEF FindByTypeAndId, First, InFile
<1>2. FindByTypeAndId(AppFile, r.type, r.id) = {}
  BY <1>1 DEF Right, Search
<1>3. InFile(r, SystemFile)
  BY <1>1, <1>2 DEF Right, Search, FindByTypeAndId, First, InFile
<1>4. ASSUME NEW i \in DOMAIN AppFile, Key(AppFile[i]) = Key(r)
      PROVE  FALSE
  <2>1. AppFile[i].type = r.type /\ AppFile[i].id = r.id
    BY <1>4 DEF Key
  <2> QED
    BY <1>2, <2>1, FoundWhereItIs
<1> QED
  BY <1>3, <1>4

(* Copying a resource that is not in the heap keeps the cache exact.        *)
LEMMA RememberKeeps ==
  ASSUME CacheInv, NEW r, Right(r), ~Cached(Key(r)), Remember(r)
  PROVE  CacheInv' /\ Stay /\ Key(r) \in DOMAIN resource_to_handle'
<1> DEFINE new == Len(handles) + 1
<1>1. /\ Len(handles) \in Nat /\ DOMAIN handles = 1..Len(handles)
      /\ handles' \in Seq(Resources)
      /\ DOMAIN handles' = 1..new
      /\ handles'[new] = r
      /\ \A h \in DOMAIN handles : h # new /\ handles'[h] = handles[h]
  BY DEF CacheInv, Remember, Right
<1>2. /\ DOMAIN resource_to_handle' = DOMAIN resource_to_handle \cup {Key(r)}
      /\ resource_to_handle'[Key(r)] = new
      /\ \A k \in DOMAIN resource_to_handle :
           k # Key(r) /\ resource_to_handle'[k] = resource_to_handle[k]
  BY DEF Remember, Cached
<1>3. ASSUME NEW k \in DOMAIN resource_to_handle'
      PROVE  /\ resource_to_handle'[k] \in DOMAIN handles'
             /\ Key(handles'[resource_to_handle'[k]]) = k
  <2>1. CASE k = Key(r)
    BY <1>1, <1>2, <2>1
  <2>2. CASE k \in DOMAIN resource_to_handle
    <3>1. /\ resource_to_handle'[k] \in DOMAIN handles
          /\ Key(handles[resource_to_handle'[k]]) = k
      BY <1>2, <2>2 DEF CacheInv
    <3> QED
      BY <1>1, <3>1
  <2> QED
    BY <1>2, <2>1, <2>2
<1>4. ASSUME NEW h \in DOMAIN handles'
      PROVE  /\ Right(handles'[h])
             /\ Key(handles'[h]) \in DOMAIN resource_to_handle'
             /\ resource_to_handle'[Key(handles'[h])] = h
  <2>1. CASE h = new
    BY <1>1, <1>2, <2>1
  <2>2. CASE h \in DOMAIN handles
    <3>1. /\ Right(handles[h])
          /\ Key(handles[h]) \in DOMAIN resource_to_handle
          /\ resource_to_handle[Key(handles[h])] = h
      BY <2>2 DEF CacheInv, Cached
    <3> QED
      BY <1>1, <1>2, <2>2, <3>1
  <2> QED
    BY <1>1, <2>1, <2>2
<1> QED
  BY <1>1, <1>2, <1>3, <1>4 DEF CacheInv, Stay, Cached, Right

LEMMA NothingRemembered ==
  ASSUME CacheInv, UNCHANGED <<resource_to_handle, handles>>
  PROVE  CacheInv' /\ Stay
BY DEF CacheInv, Stay, Cached, Right

(* GetResource keeps the cache and, unless the process aborts, leaves the   *)
(* resource in it.                                                          *)
LEMMA GetResourceKeeps ==
  ASSUME CacheInv, StatusInv, NEW type, NEW id, GetResource(type, id)
  PROVE  /\ CacheInv' /\ StatusInv' /\ Stay
         /\ ~missing' => <<type, id>> \in DOMAIN resource_to_handle'
<1>1. CASE Cached(<<type, id>>) /\ UNCHANGED <<resource_to_handle, handles, missing>>
  BY <1>1, NothingRemembered DEF GetResource, StatusInv, Cached
<1>2. CASE missing' = TRUE /\ UNCHANGED <<resource_to_handle, handles>>
  BY <1>2, NothingRemembered DEF GetResource, StatusInv
<1>3. CASE /\ ~Cached(<<type, id>>)
           /\ \E r \in Search(type, id) : Remember(r)
           /\ UNCHANGED missing
  <2>1. PICK r \in Search(type, id) : Remember(r)
    BY <1>3
  <2>2. Key(r) = <<type, id>> /\ Right(r)
    BY SearchIsExact DEF Key
  <2> QED
    BY <1>3, <2>1, <2>2, RememberKeeps DEF GetResource, StatusInv
<1> QED
  BY <1>1, <1>2, <1>3 DEF GetResource

LEMMA GetResourseByNameKeeps ==
  ASSUME CacheInv, StatusInv, NEW type, NEW name, GetResourseByName(type, name)
  PROVE  CacheInv' /\ StatusInv' /\ Stay
<1>1. StatusInv'
  BY DEF GetResourseByName, StatusInv
<1>2. CASE UNCHANGED <<resource_to_handle, handles>>
  BY <1>1, <1>2, NothingRemembered
<1>3. CASE \E r \in FindByTypeAndName(AppFile, type, name) : ~Cached(Key(r)) /\ Remember(r)
  BY <1>1, <1>3, NamesAgreeWithNumbers, RememberKeeps
<1> QED
  BY <1>2, <1>3 DEF GetResourseByName
-----------------------------------------------------------------------------
Data == SegmentZero.data
SegmentOf(i) == Data[i].segment
Rewritten(i) ==
  /\ table[i].word \in Nat /\ table[i].instr = "JMP"
  /\ table[i].operand \in [segment : Nat, offset : Nat]
  /\ IsRoutine(i, table[i].operand)
Untouched(i) == table[i] = Unloaded(Data[i])

(* An entry is as 'CODE' 0 has it or jumps to its routine, and the entries  *)
(* of one segment are rewritten together.                                   *)
TableInv ==
  /\ DOMAIN table = DOMAIN Data
  /\ \A i \in DOMAIN table : Untouched(i) \/ Rewritten(i)
  /\ \A i, j \in DOMAIN table :
       SegmentOf(i) = SegmentOf(j) => table[i].instr = table[j].instr

(* Where the processor may be: at the LoadSeg trap only of an entry that is *)
(* not loaded, in code only of a routine that is.                           *)
Running ==
  /\ TableInv
  /\ \/ pc.at = "main" /\ \A i \in DOMAIN table : Untouched(i)
     \/ pc.at = "entry" /\ pc.entry \in DOMAIN table
     \/ pc.at = "LoadSeg" /\ pc.entry \in DOMAIN table /\ Untouched(pc.entry)
     \/ /\ pc.at = "routine"
        /\ \E i \in DOMAIN table : table[i].instr = "JMP" /\ IsRoutine(i, pc.address)
ProcessorInv == (pc.at = "create" /\ table = <<>>) \/ Running

SegmentInv == CacheInv /\ StatusInv /\ ProcessorInv

(* The address of a routine stays its address.                              *)
LEMMA RoutinesStay ==
  ASSUME Stay, NEW i, NEW address, IsRoutine(i, address)
  PROVE  IsRoutine(i, address)'
BY DEF Stay, IsRoutine, Cached

(* A step that leaves the table alone keeps what is said of it.             *)
LEMMA TableStays ==
  ASSUME TableInv, Stay, UNCHANGED table
  PROVE  TableInv'
<1>1. ASSUME NEW i \in DOMAIN table
      PROVE  /\ Untouched(i) => Untouched(i)'
             /\ Rewritten(i) => Rewritten(i)'
  BY RoutinesStay DEF Untouched, Rewritten
<1> QED
  BY <1>1 DEF TableInv

(* Load rewrites exactly the entries of its segment, if they were as 'CODE' *)
(* 0 has them; or the process aborts.                                       *)
LEMMA LoadRewrites ==
  ASSUME CacheInv, StatusInv, TableInv,
         NEW e \in DOMAIN table, Untouched(e), Load(SegmentOf(e))
  PROVE  /\ CacheInv' /\ StatusInv' /\ TableInv' /\ Stay
         /\ missing' => UNCHANGED table
         /\ ~missing' =>
              /\ \A i \in DOMAIN table : SegmentOf(i) = SegmentOf(e) => Rewritten(i)'
              /\ Cached(<<"CODE", SegmentOf(e)>>)'
              /\ EntriesOf(handles'[resource_to_handle'[<<"CODE", SegmentOf(e)>>]]) =
                   {i \in DOMAIN table : SegmentOf(i) = SegmentOf(e)}
<1> DEFINE id == SegmentOf(e)
           handle == resource_to_handle'[<<"CODE", id>>]
           segment == handles'[handle]
<1>1. GetResource("CODE", id)
  BY DEF Load
<1>2. CacheInv' /\ StatusInv' /\ Stay
  BY <1>1, GetResourceKeeps
<1>3. CASE missing'
  BY <1>2, <1>3, TableStays DEF Load
<1>4. CASE ~missing'
  <2>1. <<"CODE", id>> \in DOMAIN resource_to_handle'
    BY <1>1, <1>4, GetResourceKeeps
  <2>2. /\ handle \in DOMAIN handles' /\ handle \in Nat
        /\ Key(segment) = <<"CODE", id>> /\ segment \in Search("CODE", id)
    <3>1. handle \in DOMAIN handles' /\ Key(segment) = <<"CODE", id>>
      BY <1>2, <2>1 DEF CacheInv
    <3>2. segment.type = "CODE" /\ segment.id = id
      BY <3>1 DEF Key
    <3>3. Right(segment) /\ handle \in Nat
      BY <1>2, <3>1 DEF CacheInv
    <3> QED
      BY <3>1, <3>2, <3>3 DEF Right
  <2>3. EntriesOf(segment) = {i \in DOMAIN table : SegmentOf(i) = id}
    <3>1. Data[e] \in Range(Data) /\ id = Data[e].segment /\ segment.id = id
      BY <2>2 DEF TableInv, Range, SegmentOf, Key
    <3>2. {i \in DOMAIN Data : Data[i].segment = segment.id} = EntriesOf(segment)
      BY <2>2, <3>1, CodeAssumption DEF EntriesOf, Data
    <3> QED
      BY <3>1, <3>2 DEF SegmentOf, TableInv
  <2>4. table' = [i \in DOMAIN table |->
                    IF i \in EntriesOf(segment) THEN Loaded(table[i], id, handle)
                                               ELSE table[i]]
    BY <1>4 DEF Load
  <2>5. ASSUME NEW i \in DOMAIN table, SegmentOf(i) = id
        PROVE  Rewritten(i)'
    <3>1. Untouched(i)
      BY <2>5 DEF TableInv, Untouched, Rewritten, Unloaded
    <3>2. Data[i] \in CodeEntry
      BY CodeAssumption DEF TableInv, Data
    <3>3. table'[i] = Loaded(Unloaded(Data[i]), id, handle)
      BY <2>3, <2>4, <2>5, <3>1 DEF Untouched
    <3>4. /\ table'[i].word \in Nat /\ table'[i].instr = "JMP"
          /\ table'[i].operand = [segment |-> handle,
                                  offset |-> SegmentHeaderSize + Data[i].routine]
          /\ table'[i].operand \in [segment : Nat, offset : Nat]
      BY <2>2, <2>5, <3>2, <3>3 DEF CodeEntry, Loaded, Unloaded, SegmentHeaderSize, SegmentOf
    <3>5. IsRoutine(i, table[i].operand)'
      BY <2>1, <2>5, <3>4 DEF IsRoutine, Cached, SegmentOf, Data
    <3> QED
      BY <3>4, <3>5 DEF Rewritten
  <2>6. ASSUME NEW i \in DOMAIN table, SegmentOf(i) # id
        PROVE  /\ table'[i] = table[i]
               /\ Untouched(i)' \/ Rewritten(i)'
    <3>1. table'[i] = table[i]
      BY <2>3, <2>4, <2>6
    <3> QED
      BY <1>2, <3>1, RoutinesStay DEF TableInv, Untouched, Rewritten
  <2>7. DOMAIN table' = DOMAIN table
    BY <2>4
  <2>8. TableInv'
    <3>1. \A i \in DOMAIN table' : Untouched(i)' \/ Rewritten(i)'
      BY <2>5, <2>6, <2>7
    <3>2. ASSUME NEW i \in DOMAIN table', NEW j \in DOMAIN table', SegmentOf(i) = SegmentOf(j)
          PROVE  table'[i].instr = table'[j].instr
      <4>1. CASE SegmentOf(i) = id
        BY <2>5, <2>7, <3>2, <4>1 DEF Rewritten
      <4>2. CASE SegmentOf(i) # id
        BY <2>6, <2>7, <3>2, <4>2 DEF TableInv
      <4> QED
        BY <4>1, <4>2
    <3> QED
      BY <2>7, <3>1, <3>2 DEF TableInv, SegmentOf
  <2> QED
    BY <1>2, <1>4, <2>1, <2>3, <2>5, <2>8 DEF Cached
<1> QED
  BY <1>3, <1>4 DEF StatusInv
-----------------------------------------------------------------------------
(* A set of natural numbers that has an element has a least one.            *)
LEMMA LeastElement ==
  ASSUME NEW S \in SUBSET Nat, NEW n \in S
  PROVE  \E m \in S : \A j \in S : m <= j
<1> DEFINE Less == OpToRel(<, Nat)
<1>1. ASSUME NEW i \in Nat, NEW j \in Nat, <<i, j>> \notin Less
      PROVE  j <= i
  BY <1>1 DEF OpToRel
<1>2. IsWellFoundedOn(Less, Nat)
  BY NatLessThanWellFounded
<1> HIDE DEF Less
<1>3. \E m \in S : \A j \in S : ~(<<j, m>> \in Less)
  BY <1>2, WFMin
<1> QED
  BY <1>1, <1>3

LEMMA InitSegmentInv == SegmentLoaderInit => SegmentInv
<1> SUFFICES ASSUME SegmentLoaderInit PROVE SegmentInv
  OBVIOUS
<1>1. DOMAIN resource_to_handle = {} /\ handles = <<>> /\ DOMAIN handles = {}
  BY DEF SegmentLoaderInit, ResourceManagerInit
<1>2. CacheInv
  BY <1>1 DEF CacheInv
<1> QED
  BY <1>2 DEF SegmentLoaderInit, ResourceManagerInit, SegmentInv, StatusInv, ProcessorInv

(* What the application does besides calling leaves table and processor.    *)
LEMMA AskingKeeps ==
  ASSUME ProcessorInv, pc.at = "routine", Stay, UNCHANGED <<table, pc>>
  PROVE  ProcessorInv'
<1>1. TableInv'
  BY TableStays DEF ProcessorInv, Running
<1>2. PICK i \in DOMAIN table : table[i].instr = "JMP" /\ IsRoutine(i, pc.address)
  BY DEF ProcessorInv, Running
<1>3. IsRoutine(i, pc.address)'
  BY <1>2, RoutinesStay
<1> QED
  BY <1>1, <1>2, <1>3 DEF ProcessorInv, Running

LEMMA NextSegmentInv ==
  ASSUME SegmentInv, [SegmentLoaderNext]_slVars
  PROVE  SegmentInv' /\ Stay
<1> USE DEF SegmentInv
<1>1. CASE Create
  <2>1. CacheInv' /\ StatusInv' /\ Stay
    BY <1>1, NothingRemembered DEF Create, rmVars, StatusInv
  <2>2. /\ DOMAIN table' = DOMAIN Data /\ pc'.at = "main"
        /\ \A i \in DOMAIN table' : Untouched(i)'
    BY <1>1 DEF Create, Untouched, Data
  <2>3. TableInv'
    BY <2>2 DEF TableInv, Untouched, Unloaded
  <2> QED
    BY <2>1, <2>2, <2>3 DEF ProcessorInv, Running
<1>2. CASE LoadSegmentOne
  <2>1. Running /\ TableInv /\ \A i \in DOMAIN table : Untouched(i)
    BY <1>2 DEF LoadSegmentOne, ProcessorInv, Running
  <2>2. PICK e \in DOMAIN table : SegmentOf(e) = 1
    BY <2>1, CodeAssumption DEF TableInv, SegmentOf, Data
  <2>3. Load(SegmentOf(e)) /\ Untouched(e)
    BY <1>2, <2>1, <2>2 DEF LoadSegmentOne
  <2>4. CacheInv' /\ StatusInv' /\ TableInv' /\ Stay
    BY <2>1, <2>3, LoadRewrites
  <2>5. CASE missing'
    <3>1. UNCHANGED <<table, pc>>
      BY <1>2, <2>1, <2>3, <2>5, LoadRewrites DEF LoadSegmentOne
    <3> QED
      BY <1>2, <2>1, <2>4, <3>1 DEF LoadSegmentOne, ProcessorInv, Running, Untouched
  <2>6. CASE ~missing'
    <3> DEFINE entries == {i \in DOMAIN table : SegmentOf(i) = SegmentOf(e)}
               first == CHOOSE i \in entries : \A j \in entries : i <= j
               segment == handles'[resource_to_handle'[<<"CODE", 1>>]]
    <3>1. EntriesOf(segment) = entries /\ \A i \in entries : Rewritten(i)'
      BY <2>1, <2>2, <2>3, <2>6, LoadRewrites
    <3>2. first \in entries
      <4>1. /\ DOMAIN table = 1..Len(Data) /\ Len(Data) \in Nat
        BY <2>1, CodeAssumption DEF TableInv, Data
      <4>2. entries # {} /\ entries \in SUBSET Nat
        BY <2>2, <4>1
      <4>3. PICK m \in entries : \A j \in entries : m <= j
        <5> HIDE DEF entries
        <5>1. PICK n \in entries : TRUE
          BY <4>2
        <5> QED
          BY <4>2, <5>1, LeastElement
      <4> QED
        BY <4>3
    <3>3. PICK n \in entries : pc' = AtRoutine(table'[n].operand)
      BY <1>2, <2>6, <3>1, <3>2 DEF LoadSegmentOne
    <3>4. Rewritten(n)' /\ n \in DOMAIN table'
      BY <2>1, <2>4, <3>1 DEF TableInv
    <3>5. pc'.at = "routine" /\ pc'.address = table'[n].operand
      BY <3>3 DEF AtRoutine
    <3>6. table'[n].instr = "JMP" /\ IsRoutine(n, pc.address)'
      BY <3>4, <3>5 DEF Rewritten
    <3> QED
      BY <2>4, <3>4, <3>5, <3>6 DEF ProcessorInv, Running
  <2> QED
    BY <2>4, <2>5, <2>6
<1>3. CASE LoadSeg
  <2> DEFINE e == pc.entry
  <2>1. Running /\ TableInv /\ e \in DOMAIN table /\ Untouched(e)
    BY <1>3 DEF LoadSeg, ProcessorInv, Running
  <2>2. Load(SegmentOf(e))
    BY <1>3, <2>1 DEF LoadSeg, Untouched, Unloaded, SegmentOf
  <2>3. CacheInv' /\ StatusInv' /\ TableInv' /\ Stay
    BY <2>1, <2>2, LoadRewrites
  <2>4. CASE missing'
    <3>1. UNCHANGED <<table, pc>>
      BY <1>3, <2>1, <2>2, <2>4, LoadRewrites DEF LoadSeg
    <3> QED
      BY <1>3, <2>1, <2>3, <3>1 DEF LoadSeg, ProcessorInv, Running, Untouched
  <2>5. CASE ~missing'
    <3>1. pc' = AtEntry(e) /\ DOMAIN table' = DOMAIN table
      BY <1>3, <2>1, <2>3, <2>5 DEF LoadSeg, TableInv
    <3> QED
      BY <2>1, <2>3, <3>1 DEF AtEntry, ProcessorInv, Running
  <2> QED
    BY <2>3, <2>4, <2>5
<1>4. CASE ExecuteEntry
  <2>1. Running /\ TableInv /\ pc.entry \in DOMAIN table
    BY <1>4 DEF ExecuteEntry, ProcessorInv, Running
  <2>2. CacheInv' /\ StatusInv' /\ Stay /\ UNCHANGED table
    BY <1>4, NothingRemembered DEF ExecuteEntry, rmVars, StatusInv
  <2>3. TableInv'
    BY <2>1, <2>2, TableStays
  <2>4. CASE Untouched(pc.entry)
    <3>1. pc' = Loading(pc.entry)
      BY <1>4, <2>4 DEF ExecuteEntry, Untouched, Unloaded
    <3> QED
      BY <2>1, <2>2, <2>3, <2>4, <3>1 DEF Loading, ProcessorInv, Running, Untouched
  <2>5. CASE Rewritten(pc.entry)
    <3>1. PICK n \in DOMAIN table : n = pc.entry
      BY <2>1
    <3>2. Rewritten(n)' /\ n \in DOMAIN table'
      BY <2>2, <2>5, <3>1, RoutinesStay DEF Rewritten
    <3>3. pc' = AtRoutine(table[n].operand)
      BY <1>4, <2>5, <3>1 DEF ExecuteEntry, Rewritten
    <3>4. pc'.at = "routine" /\ pc'.address = table'[n].operand
      BY <2>2, <3>3 DEF AtRoutine
    <3>5. table'[n].instr = "JMP" /\ IsRoutine(n, pc.address)'
      BY <3>2, <3>4 DEF Rewritten
    <3> QED
      BY <2>2, <2>3, <3>2, <3>4, <3>5 DEF ProcessorInv, Running
  <2> QED
    BY <2>1, <2>2, <2>4, <2>5 DEF TableInv
<1>5. CASE CallRoutine
  <2>1. CacheInv' /\ StatusInv' /\ Stay /\ UNCHANGED table
    BY <1>5, NothingRemembered DEF CallRoutine, rmVars, StatusInv
  <2>2. TableInv'
    BY <1>5, <2>1, TableStays DEF CallRoutine, ProcessorInv, Running
  <2> QED
    BY <1>5, <2>1, <2>2 DEF CallRoutine, AtEntry, ProcessorInv, Running
<1>6. CASE AskById
  <2>1. PICK k \in IdsAsked : GetResource(k[1], k[2])
    BY <1>6 DEF AskById
  <2> QED
    BY <1>6, <2>1, GetResourceKeeps, AskingKeeps DEF AskById
<1>7. CASE AskByName
  <2>1. PICK k \in NamesAsked : GetResourseByName(k[1], k[2])
    BY <1>7 DEF AskByName
  <2> QED
    BY <1>7, <2>1, GetResourseByNameKeeps, AskingKeeps DEF AskByName
<1>8. CASE UNCHANGED slVars
  <2>1. CacheInv' /\ StatusInv' /\ Stay /\ UNCHANGED <<table, pc>>
    BY <1>8, NothingRemembered DEF slVars, rmVars, StatusInv
  <2>2. TableInv => TableInv'
    BY <2>1, TableStays
  <2>3. \A i, address : IsRoutine(i, address) => IsRoutine(i, address)'
    BY <2>1, RoutinesStay
  <2> QED
    BY <2>1, <2>2, <2>3 DEF ProcessorInv, Running, Untouched
<1> QED
  BY <1>1, <1>2, <1>3, <1>4, <1>5, <1>6, <1>7, <1>8 DEF SegmentLoaderNext, Processor

LEMMA SegmentInvariance == SegmentLoaderSpec => []SegmentInv
BY InitSegmentInv, NextSegmentInv, PTL DEF SegmentLoaderSpec
-----------------------------------------------------------------------------
(* The cache names handles, the table its two kinds of entries.             *)
THEOREM SegmentTypeCorrectness == SegmentLoaderSpec => []SegmentTypeOK
<1>1. ASSUME SegmentInv
      PROVE  SegmentTypeOK
  <2>1. \A k \in DOMAIN resource_to_handle : resource_to_handle[k] \in DOMAIN handles
    BY <1>1 DEF SegmentInv, CacheInv
  <2>2. ASSUME NEW i \in DOMAIN table, TableInv
        PROVE  /\ table[i].word \in Nat
               /\ \/ table[i].instr = "LoadSeg" /\ table[i].operand \in Nat
                  \/ table[i].instr = "JMP" /\ table[i].operand \in [segment : Nat, offset : Nat]
    <3>1. Data[i] \in CodeEntry
      BY <2>2, CodeAssumption DEF TableInv, Data
    <3>2. Untouched(i) => /\ table[i].word \in Nat /\ table[i].instr = "LoadSeg"
                          /\ table[i].operand \in Nat
      BY <3>1 DEF Untouched, Unloaded, CodeEntry
    <3> QED
      BY <2>2, <3>2 DEF TableInv, Rewritten
  <2>3. StatusInv /\ ProcessorInv
    BY <1>1 DEF SegmentInv
  <2>4. pc.at \in {"create", "main", "entry", "LoadSeg", "routine"}
    BY <2>3 DEF ProcessorInv, Running
  <2>5. table = <<>> \/ TableInv
    BY <2>3 DEF ProcessorInv, Running
  <2> QED
    BY <2>1, <2>2, <2>3, <2>4, <2>5 DEF SegmentTypeOK, StatusInv
<1> QED
  BY <1>1, SegmentInvariance, PTL

(* Each key has the resource that shadows the others, and has it once       *)
(* (resource_manager.cc:41-73): for any two files and any order of requests.*)
THEOREM OneCopyEverybodyGets == SegmentLoaderSpec => []OneCopyOfTheRightOne
<1>1. ASSUME CacheInv
      PROVE  OneCopyOfTheRightOne
  <2>1. ASSUME NEW k \in DOMAIN resource_to_handle
        PROVE  LET resource == handles[resource_to_handle[k]] IN
               /\ Key(resource) = k
               /\ ~InFile(resource, AppFile) =>
                    /\ InFile(resource, SystemFile)
                    /\ \A i \in DOMAIN AppFile : Key(AppFile[i]) # k
    <3> DEFINE resource == handles[resource_to_handle[k]]
    <3>1. Key(resource) = k /\ Right(resource)
      BY <1>1 DEF CacheInv
    <3> QED
      BY <3>1, RightShadows
  <2>2. \A g, h \in DOMAIN handles : Key(handles[g]) = Key(handles[h]) => g = h
    BY <1>1 DEF CacheInv
  <2> QED
    BY <2>1, <2>2 DEF OneCopyOfTheRightOne
<1> QED
  BY <1>1, SegmentInvariance, PTL DEF SegmentInv

(* Loading rewrites a segment's own entries and no others, and code runs    *)
(* only at the address of a routine (segment_loader.cc:84-121): for any     *)
(* jump table, and also when a 'CODE' resource was fetched before.          *)
THEOREM TableIsAlwaysRight == SegmentLoaderSpec => []JumpTableIsRight
<1>1. ASSUME ProcessorInv
      PROVE  JumpTableIsRight
  BY <1>1 DEF ProcessorInv, Running, TableInv, Untouched, Rewritten, Data, JumpTableIsRight
<1> QED
  BY <1>1, SegmentInvariance, PTL DEF SegmentInv

(* A resource's handle is its handle for good.                              *)
THEOREM HandlesAlwaysStay == SegmentLoaderSpec => HandlesStay
<1>1. ASSUME SegmentInv, [SegmentLoaderNext]_slVars
      PROVE  [\A k \in DOMAIN resource_to_handle :
                /\ k \in DOMAIN resource_to_handle'
                /\ resource_to_handle'[k] = resource_to_handle[k]]_rmVars
  BY <1>1, NextSegmentInv DEF Stay
<1> QED
  BY <1>1, SegmentInvariance, PTL DEF SegmentLoaderSpec, HandlesStay
=============================================================================
