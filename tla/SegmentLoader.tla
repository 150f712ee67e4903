--------------------------- MODULE SegmentLoader ---------------------------
(***************************************************************************)
(* emu/segment_loader.cc and the application that calls through its jump    *)
(* table.  An entry of the table is eight bytes: while its segment is not   *)
(* loaded a routine offset, an instruction that pushes the segment's number *)
(* and the LoadSeg trap; afterwards the segment's number and a JMP.  Code   *)
(* is entered at the entry's second word.  An entry is modelled as these    *)
(* three parts, an address in a segment by the handle of the segment.       *)
(***************************************************************************)
EXTENDS ResourceManager

CONSTANTS
  IdsAsked, NamesAsked  (* <<type, id>> and <<type, name>> the application  *)
                        (* asks the Resource Manager for                    *)

VARIABLES
  table,  (* the jump table in memory, 32 bytes above A5                    *)
  pc      (* where the emulated processor is                                *)

slVars == <<rmVars, table, pc>>

SegmentHeaderSize == 4
EntrySize == 8

(* 'CODE' 0 lists the unloaded entries; a segment has its first entry's     *)
(* offset in the table and the number of its entries.                       *)
SegmentZero == CHOOSE r \in FindByTypeAndId(AppFile, "CODE", 0) : TRUE
Unloaded(e) == [word |-> e.routine, instr |-> "LoadSeg", operand |-> e.segment]

AtEntry(i) == [at |-> "entry", entry |-> i]
AtRoutine(address) == [at |-> "routine", address |-> address]
Loading(i) == [at |-> "LoadSeg", entry |-> i]

SegmentLoaderInit ==
  /\ ResourceManagerInit
  /\ table = <<>>
  /\ pc = [at |-> "create"]

(* writes all unloaded entries to memory verbatim                           *)
Create ==
  /\ pc.at = "create"
  /\ table' = [i \in DOMAIN SegmentZero.data |-> Unloaded(SegmentZero.data[i])]
  /\ pc' = [at |-> "main"]
  /\ UNCHANGED rmVars

(* the entry's first word as it is now, not as 'CODE' 0 has it              *)
HeaderForgotten(entry, id, handle) ==  \* mutant: relative to the header
  [word |-> id, instr |-> "JMP",
   operand |-> [segment |-> handle, offset |-> entry.word]]
Loaded(entry, id, handle) ==
  [word |-> id, instr |-> "JMP",
   operand |-> [segment |-> handle, offset |-> SegmentHeaderSize + entry.word]]

AllButTheFirst(segment) ==  \* mutant: the loop ends at i > 1
  LET first == segment.data.offset \div EntrySize IN
  (first + 2) .. (first + segment.data.count)
EntriesOf(segment) ==
  LET first == segment.data.offset \div EntrySize IN
  (first + 1) .. (first + segment.data.count)

(* What the linker writes: the entries of a segment are those its header    *)
(* names, and segment 1 has one, where the application starts.              *)
CodeEntry == [routine : Nat, segment : Nat]
ASSUME CodeAssumption ==
  /\ SegmentZero.data \in Seq(CodeEntry)
  /\ \E i \in DOMAIN SegmentZero.data : SegmentZero.data[i].segment = 1
  /\ \A e \in Range(SegmentZero.data) : \A r \in Search("CODE", e.segment) :
       LET first == r.data.offset \div EntrySize IN
       {i \in DOMAIN SegmentZero.data : SegmentZero.data[i].segment = r.id} =
         (first + 1) .. (first + r.data.count)

(* GetResource, which may abort, and then all entries of the segment        *)
Load(id) ==
  /\ GetResource("CODE", id)
  /\ IF missing' THEN UNCHANGED table
     ELSE LET handle == resource_to_handle'[<<"CODE", id>>]
              entries == EntriesOf(handles'[handle])
          IN table' = [i \in DOMAIN table |->
                         IF i \in entries THEN Loaded(table[i], id, handle)
                                          ELSE table[i]]

(* Main loads segment 1 and starts at the address Load returns: that of the *)
(* first of its entries.  LoadSeg returns to the entry it came from.        *)
LoadSegmentOne ==
  /\ pc.at = "main"
  /\ Load(1)
  /\ pc' = IF missing' THEN pc ELSE
           LET entries == EntriesOf(handles'[resource_to_handle'[<<"CODE", 1>>]])
               first == CHOOSE i \in entries : \A j \in entries : i <= j
           IN AtRoutine(table'[first].operand)

LoadSeg ==
  /\ pc.at = "LoadSeg"
  /\ Load(table[pc.entry].operand)
  /\ pc' = IF missing' THEN pc ELSE AtEntry(pc.entry)

(* the processor at an entry                                                *)
ExecuteEntry ==
  /\ pc.at = "entry" /\ ~missing
  /\ pc' = IF table[pc.entry].instr = "JMP" THEN AtRoutine(table[pc.entry].operand)
                                            ELSE Loading(pc.entry)
  /\ UNCHANGED <<rmVars, table>>
-----------------------------------------------------------------------------
(* The application calls a routine of another segment, or asks for a        *)
(* resource; 'CODE' resources it may ask for as well.                       *)
CallRoutine ==
  /\ pc.at = "routine" /\ ~missing
  /\ \E i \in DOMAIN table : pc' = AtEntry(i)
  /\ UNCHANGED <<rmVars, table>>

AskById ==
  /\ pc.at = "routine"
  /\ \E k \in IdsAsked : GetResource(k[1], k[2])
  /\ UNCHANGED <<table, pc>>

AskByName ==
  /\ pc.at = "routine"
  /\ \E k \in NamesAsked : GetResourseByName(k[1], k[2])
  /\ UNCHANGED <<table, pc>>

Processor == Create \/ LoadSegmentOne \/ LoadSeg \/ ExecuteEntry
SegmentLoaderNext == Processor \/ CallRoutine \/ AskById \/ AskByName

(* the emulator goes on executing                                           *)
SegmentLoaderSpec ==
  SegmentLoaderInit /\ [][SegmentLoaderNext]_slVars /\ WF_slVars(Processor)
-----------------------------------------------------------------------------
SegmentTypeOK ==
  /\ \A k \in DOMAIN resource_to_handle : resource_to_handle[k] \in DOMAIN handles
  /\ ResErr \in {0, -192} /\ missing \in BOOLEAN
  /\ \A i \in DOMAIN table :
       /\ table[i].word \in Nat
       /\ \/ table[i].instr = "LoadSeg" /\ table[i].operand \in Nat
          \/ table[i].instr = "JMP" /\ table[i].operand \in [segment : Nat, offset : Nat]
  /\ pc.at \in {"create", "main", "entry", "LoadSeg", "routine"}

(* the address of the i-th entry's routine in the heap                      *)
IsRoutine(i, address) ==
  LET e == SegmentZero.data[i]
  IN /\ Cached(<<"CODE", e.segment>>)
     /\ address = [segment |-> resource_to_handle[<<"CODE", e.segment>>],
                   offset |-> SegmentHeaderSize + e.routine]

(* Loading a segment rewrites its own entries, each to the address of its   *)
(* own routine in the one copy of the segment, and no entry of another      *)
(* segment: also when the application had fetched the 'CODE' resource       *)
(* before.  The processor only ever runs at the address of a routine.       *)
JumpTableIsRight ==
  /\ \A i \in DOMAIN table :
       \/ table[i] = Unloaded(SegmentZero.data[i])
       \/ table[i].instr = "JMP" /\ IsRoutine(i, table[i].operand)
  /\ pc.at = "routine" =>
       \E i \in DOMAIN table :
         table[i].instr = "JMP" /\ IsRoutine(i, pc.address)

(* A call through the table gets to its routine, loading the segment at     *)
(* most once on the way: the entry LoadSeg returns to has been rewritten.   *)
CallsArrive ==
  \A i \in DOMAIN SegmentZero.data :
    pc = AtEntry(i) ~> \/ missing
                       \/ pc.at = "routine" /\ IsRoutine(i, pc.address)
=============================================================================
