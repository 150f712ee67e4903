------------------------ MODULE MemoryManagerProofs ------------------------
(***************************************************************************)
(* Theorems about MemoryManager, for every heap, table and request size.    *)
(* The inductive invariant adds to the properties what the bump pointer     *)
(* owes them: every block ever handed out ends at or below it, and every    *)
(* master pointer written lies below handle_offset, so that what is handed  *)
(* out next is new.                                                         *)
(***************************************************************************)
EXTENDS MemoryManager, TLAPS

(* all blocks lie between the table and the bump pointer                    *)
HeapInv ==
  /\ heap_offset \in Nat
  /\ TableSize <= heap_offset
  /\ blocks \subseteq Block
  /\ \A b \in blocks : b.start + b.size <= HeapStart + heap_offset
  /\ BlocksApart

BlockOf(h) == [start |-> handle_to_metadata[h].start,
               size |-> handle_to_metadata[h].size]

(* every handle has a block of its own, and its `end' is either exact or    *)
(* not above `start'                                                        *)
HandleInv ==
  /\ handle_offset \in Nat
  /\ DOMAIN master \subseteq Nat
  /\ DOMAIN handle_to_metadata \subseteq DOMAIN master
  /\ master \in [DOMAIN master -> Nat]
  /\ handle_to_metadata \in [DOMAIN handle_to_metadata -> HandleMetadata]
  /\ \A h \in DOMAIN master : h < HeapStart + handle_offset
  /\ \A h \in DOMAIN handle_to_metadata :
       /\ master[h] = handle_to_metadata[h].start
       /\ BlockOf(h) \in blocks
       /\ \/ handle_to_metadata[h].end =
               handle_to_metadata[h].start + handle_to_metadata[h].size
          \/ handle_to_metadata[h].end <= handle_to_metadata[h].start
       /\ handle_to_metadata[h].end <= HeapStart + heap_offset
  /\ \A g, h \in DOMAIN handle_to_metadata :
       g # h => Apart(BlockOf(g), BlockOf(h))

RestInv ==
  /\ appl_limit \in Nat
  /\ status \in {"none", "noErr", "memFullErr"}
  /\ halted \in BOOLEAN

IInv == HeapInv /\ HandleInv /\ RestInv

LEMMA InitHolds == MemoryManagerInit => IInv
<1> SUFFICES ASSUME MemoryManagerInit PROVE IInv
  OBVIOUS
<1>1. HeapInv
  BY HeapAssumption DEF MemoryManagerInit, HeapInv, BlocksApart
<1>2. /\ DOMAIN master = {} /\ DOMAIN handle_to_metadata = {}
      /\ handle_offset = 0
      /\ master \in [DOMAIN master -> Nat]
      /\ handle_to_metadata \in [DOMAIN handle_to_metadata -> HandleMetadata]
  BY DEF MemoryManagerInit
<1>3. HandleInv
  BY <1>2 DEF HandleInv
<1>4. RestInv
  BY DEF MemoryManagerInit, RestInv
<1> QED BY <1>1, <1>3, <1>4 DEF IInv

(* Allocating keeps the heap in order, and the new block is apart from all  *)
(* the others.                                                              *)
LEMMA AllocateKeeps ==
  ASSUME HeapInv, NEW size \in Nat, Allocate(size)
  PROVE  /\ HeapInv'
         /\ heap_offset' = heap_offset + size
         /\ blocks \subseteq blocks'
         /\ [start |-> NextBlock, size |-> size] \in blocks'
         /\ \A b \in blocks : b.start + b.size <= NextBlock
<1> DEFINE new == [start |-> HeapStart + heap_offset, size |-> size]
<1>1. /\ heap_offset' = heap_offset + size
      /\ blocks' = blocks \cup {new}
  BY DEF Allocate, NextBlock, Bump
<1>2. /\ heap_offset \in Nat /\ HeapStart \in Nat /\ TableSize \in Nat
      /\ TableSize <= heap_offset
  BY HeapAssumption DEF HeapInv
<1>3. new \in Block
  BY <1>2 DEF Block
<1>4. \A b \in blocks : b \in Block /\ b.start + b.size <= HeapStart + heap_offset
  BY DEF HeapInv
<1>5. \A b \in blocks : b.start \in Nat /\ b.size \in Nat
  BY <1>4 DEF Block
<1>6. \A b \in blocks' : b.start + b.size <= HeapStart + heap_offset'
  <2> TAKE b \in blocks'
  <2>1. CASE b = new
    BY <2>1, <1>1, <1>2
  <2>2. CASE b \in blocks
    BY <2>2, <1>1, <1>2, <1>4, <1>5
  <2> QED BY <2>1, <2>2, <1>1
<1>7. \A b, c \in blocks' : b # c => Apart(b, c)
  <2> TAKE b, c \in blocks'
  <2> HAVE b # c
  <2>1. CASE b \in blocks /\ c \in blocks
    BY <2>1 DEF HeapInv, BlocksApart
  <2>2. CASE b = new /\ c \in blocks
    BY <2>2, <1>4, <1>2 DEF Apart
  <2>3. CASE c = new /\ b \in blocks
    BY <2>3, <1>4, <1>2 DEF Apart
  <2> QED BY <2>1, <2>2, <2>3, <1>1
<1>8. \A b \in blocks' : HeapStart + TableSize <= b.start
  <2>1. \A b \in blocks : HeapStart + TableSize <= b.start
    BY DEF HeapInv, BlocksApart
  <2>2. HeapStart + TableSize <= new.start
    BY <1>2
  <2> QED BY <2>1, <2>2, <1>1
<1>9. BlocksApart'
  BY <1>7, <1>8 DEF BlocksApart
<1>10. HeapInv'
  BY <1>1, <1>2, <1>3, <1>4, <1>6, <1>9 DEF HeapInv
<1> QED BY <1>1, <1>4, <1>10 DEF NextBlock

(* What the handles rest on only grows.                                     *)
LEMMA HandlesKeep ==
  ASSUME HandleInv, HeapInv, heap_offset' \in Nat, heap_offset <= heap_offset',
         blocks \subseteq blocks',
         UNCHANGED <<handle_offset, handle_to_metadata, master>>
  PROVE  HandleInv'
<1>1. \A h \in DOMAIN handle_to_metadata :
        /\ BlockOf(h) \in blocks'
        /\ handle_to_metadata[h].end <= HeapStart + heap_offset'
  BY HeapAssumption DEF HandleInv, HeapInv, HandleMetadata
<1>2. /\ handle_offset \in Nat
      /\ DOMAIN master \subseteq Nat
      /\ DOMAIN handle_to_metadata \subseteq DOMAIN master
      /\ master \in [DOMAIN master -> Nat]
      /\ handle_to_metadata \in [DOMAIN handle_to_metadata -> HandleMetadata]
      /\ \A h \in DOMAIN master : h < HeapStart + handle_offset
      /\ \A h \in DOMAIN handle_to_metadata :
           /\ master[h] = handle_to_metadata[h].start
           /\ \/ handle_to_metadata[h].end =
                   handle_to_metadata[h].start + handle_to_metadata[h].size
              \/ handle_to_metadata[h].end <= handle_to_metadata[h].start
      /\ \A g, h \in DOMAIN handle_to_metadata :
           g # h => Apart(BlockOf(g), BlockOf(h))
  BY DEF HandleInv
<1> QED BY <1>1, <1>2 DEF HandleInv, BlockOf

(* A new handle, or a handle moved to a new block, leaves the others apart. *)
LEMMA HandleGetsBlock ==
  ASSUME HeapInv, HandleInv, NEW size \in Nat, Allocate(size),
         NEW handle \in Nat, NEW data \in HandleMetadata,
         handle_offset' \in Nat, handle_offset <= handle_offset',
         handle < HeapStart + handle_offset',
         data.start = NextBlock, data.size = size,
         data.end = NextBlock + size \/ data.end <= NextBlock,
         master' = [h \in DOMAIN master \cup {handle} |->
                      IF h = handle THEN NextBlock ELSE master[h]],
         handle_to_metadata' =
           [h \in DOMAIN handle_to_metadata \cup {handle} |->
              IF h = handle THEN data ELSE handle_to_metadata[h]]
  PROVE  HandleInv'
<1> DEFINE M == handle_to_metadata
           new == [start |-> NextBlock, size |-> size]
<1>1. /\ heap_offset' = heap_offset + size
      /\ blocks \subseteq blocks'
      /\ new \in blocks'
      /\ \A b \in blocks : b.start + b.size <= NextBlock
  BY AllocateKeeps
<1>2. /\ heap_offset \in Nat /\ HeapStart \in Nat /\ NextBlock = HeapStart + heap_offset
      /\ NextBlock \in Nat /\ handle_offset \in Nat
  BY HeapAssumption DEF HeapInv, HandleInv, NextBlock
<1>3. DOMAIN master' = DOMAIN master \cup {handle} /\ DOMAIN M' = DOMAIN M \cup {handle}
  OBVIOUS
<1>4. /\ DOMAIN master' \subseteq Nat
      /\ DOMAIN M' \subseteq DOMAIN master'
      /\ master' \in [DOMAIN master' -> Nat]
      /\ M' \in [DOMAIN M' -> HandleMetadata]
  BY <1>2 DEF HandleInv
<1>5. \A h \in DOMAIN master' : h < HeapStart + handle_offset'
  BY <1>2, <1>3 DEF HandleInv
<1>6. M'[handle] = data /\ master'[handle] = NextBlock
  BY <1>3
<1>7. \A h \in DOMAIN M \ {handle} : M'[h] = M[h] /\ master'[h] = master[h]
  BY DEF HandleInv
<1>8. BlockOf(handle)' = new
  BY <1>6 DEF BlockOf
<1>9. \A h \in DOMAIN M \ {handle} : BlockOf(h)' = BlockOf(h)
  BY <1>7 DEF BlockOf
<1>10. \A h \in DOMAIN M' :
         /\ master'[h] = M'[h].start
         /\ BlockOf(h)' \in blocks'
         /\ \/ M'[h].end = M'[h].start + M'[h].size
            \/ M'[h].end <= M'[h].start
         /\ M'[h].end <= HeapStart + heap_offset'
  <2> TAKE h \in DOMAIN M'
  <2>1. CASE h = handle
    <3>1. data.end \in Nat
      BY DEF HandleMetadata
    <3> QED BY <2>1, <3>1, <1>1, <1>2, <1>6, <1>8
  <2>2. CASE h \in DOMAIN M \ {handle}
    <3>1. /\ master[h] = M[h].start
          /\ BlockOf(h) \in blocks
          /\ M[h].end = M[h].start + M[h].size \/ M[h].end <= M[h].start
          /\ M[h].end <= HeapStart + heap_offset
      BY <2>2 DEF HandleInv
    <3>2. M[h].end \in Nat
      BY <2>2 DEF HandleInv, HandleMetadata
    <3>3. M[h].end <= HeapStart + heap_offset'
      BY <3>1, <3>2, <1>1, <1>2
    <3> QED BY <2>2, <3>1, <3>3, <1>1, <1>7, <1>9
  <2> QED BY <2>1, <2>2, <1>3
<1>11. \A h \in DOMAIN M \ {handle} :
         Apart(BlockOf(h), new) /\ Apart(new, BlockOf(h))
  <2> TAKE h \in DOMAIN M \ {handle}
  <2>1. BlockOf(h) \in blocks
    BY DEF HandleInv
  <2> QED BY <2>1, <1>1 DEF Apart
<1>12. \A g, h \in DOMAIN M' : g # h => Apart(BlockOf(g)', BlockOf(h)')
  <2> TAKE g, h \in DOMAIN M'
  <2> HAVE g # h
  <2>1. CASE g = handle
    BY <2>1, <1>3, <1>8, <1>9, <1>11
  <2>2. CASE h = handle
    BY <2>2, <1>3, <1>8, <1>9, <1>11
  <2>3. CASE g # handle /\ h # handle
    <3>1. g \in DOMAIN M \ {handle} /\ h \in DOMAIN M \ {handle}
      BY <2>3, <1>3
    <3>2. Apart(BlockOf(g), BlockOf(h))
      BY <3>1 DEF HandleInv
    <3> QED BY <3>1, <3>2, <1>9
  <2> QED BY <2>1, <2>2, <2>3
<1>13. \A g, h \in DOMAIN M' : g # h => Apart(BlockOf(g), BlockOf(h))'
  BY <1>12 DEF Apart
<1> QED BY <1>4, <1>5, <1>10, <1>13 DEF HandleInv
-----------------------------------------------------------------------------
(* A step that only takes a block.                                          *)
LEMMA BlockStep ==
  ASSUME HeapInv, HandleInv, NEW size \in Nat, Allocate(size),
         UNCHANGED <<handle_offset, handle_to_metadata, master>>
  PROVE  HeapInv' /\ HandleInv'
<1>1. /\ HeapInv' /\ heap_offset' = heap_offset + size /\ blocks \subseteq blocks'
  BY AllocateKeeps
<1>2. heap_offset' \in Nat /\ heap_offset <= heap_offset'
  BY <1>1 DEF HeapInv
<1> QED BY <1>1, <1>2, HandlesKeep

LEMMA AllocateHandleStep ==
  ASSUME HeapInv, HandleInv, halted \in BOOLEAN, NEW size \in Nat,
         AllocateHandle(size)
  PROVE  HeapInv' /\ HandleInv' /\ halted' \in BOOLEAN
<1>1. Allocate(size)
  BY DEF AllocateHandle
<1>2. CASE AllocateFails(size) \/ TableFull
  BY <1>1, <1>2, BlockStep DEF AllocateHandle
<1>3. CASE ~(AllocateFails(size) \/ TableFull)
  <2>1. /\ handle_offset' = handle_offset + HandleSize
        /\ Write(NextHandle, NextBlock)
        /\ Insert(NextHandle, MetadataOf(size))
        /\ halted' = halted
    BY <1>3 DEF AllocateHandle
  <2>2. /\ HeapStart \in Nat /\ heap_offset \in Nat /\ handle_offset \in Nat
        /\ HandleSize \in Nat /\ HandleSize > 0
    BY HeapAssumption DEF HeapInv, HandleInv
  <2>3. NextHandle \in Nat /\ NextHandle = HeapStart + handle_offset
    BY <2>2 DEF NextHandle
  <2>4. NextHandle \notin DOMAIN handle_to_metadata
    <3>1. \A h \in DOMAIN handle_to_metadata :
            h \in Nat /\ h < HeapStart + handle_offset
      BY DEF HandleInv
    <3> QED BY <3>1, <2>2, <2>3
  <2>5. handle_to_metadata' =
          [h \in DOMAIN handle_to_metadata \cup {NextHandle} |->
             IF h = NextHandle THEN MetadataOf(size) ELSE handle_to_metadata[h]]
    BY <2>1, <2>4 DEF Insert
  <2>6. /\ MetadataOf(size) \in HandleMetadata
        /\ MetadataOf(size).start = NextBlock /\ MetadataOf(size).size = size
        /\ MetadataOf(size).end = NextBlock + size
    BY <2>2 DEF MetadataOf, HandleMetadata, NextBlock
  <2>7. /\ handle_offset' \in Nat /\ handle_offset <= handle_offset'
        /\ NextHandle < HeapStart + handle_offset'
    BY <2>1, <2>2, <2>3
  <2>8. master' = [h \in DOMAIN master \cup {NextHandle} |->
                     IF h = NextHandle THEN NextBlock ELSE master[h]]
    BY <2>1 DEF Write
  <2>9. HandleInv'
    BY <1>1, <2>3, <2>5, <2>6, <2>7, <2>8, HandleGetsBlock
  <2> QED BY <1>1, <2>1, <2>9, AllocateKeeps
<1> QED BY <1>2, <1>3

(* RecoverHandle writes one more master pointer, above all the others.      *)
LEMMA RecoverHandleStep ==
  ASSUME HeapInv, HandleInv, NEW ptr \in Nat, RecoverHandle(ptr)
  PROVE  HeapInv' /\ HandleInv'
<1>1. /\ handle_offset' = handle_offset + HandleSize
      /\ master' = [h \in DOMAIN master \cup {NextHandle} |->
                      IF h = NextHandle THEN ptr ELSE master[h]]
      /\ UNCHANGED <<heap_offset, blocks, handle_to_metadata>>
  BY DEF RecoverHandle, Write
<1>2. /\ HeapStart \in Nat /\ handle_offset \in Nat
      /\ HandleSize \in Nat /\ HandleSize > 0
  BY HeapAssumption DEF HandleInv
<1>3. NextHandle \in Nat /\ NextHandle = HeapStart + handle_offset
  BY <1>2 DEF NextHandle
<1>4. \A h \in DOMAIN handle_to_metadata : h # NextHandle
  <2>1. \A h \in DOMAIN handle_to_metadata :
          h \in Nat /\ h < HeapStart + handle_offset
    BY DEF HandleInv
  <2> QED BY <2>1, <1>2, <1>3
<1>5. /\ handle_offset' \in Nat
      /\ \A h \in DOMAIN master' : h < HeapStart + handle_offset'
  BY <1>1, <1>2, <1>3 DEF HandleInv
<1>6. /\ DOMAIN master' \subseteq Nat
      /\ DOMAIN handle_to_metadata' \subseteq DOMAIN master'
      /\ master' \in [DOMAIN master' -> Nat]
  BY <1>1, <1>3 DEF HandleInv
<1>7. \A h \in DOMAIN handle_to_metadata : master'[h] = master[h]
  BY <1>1, <1>4 DEF HandleInv
<1>8. HeapInv'
  BY <1>1 DEF HeapInv, BlocksApart
<1> QED BY <1>1, <1>5, <1>6, <1>7, <1>8 DEF HandleInv, BlockOf

LEMMA RecordUpdate ==
  ASSUME NEW m \in HandleMetadata, NEW ptr \in Nat, NEW size \in Nat
  PROVE  [m EXCEPT !.start = ptr, !.size = size] =
           [start |-> ptr, end |-> m.end, size |-> size]
<1> DEFINE r == [m EXCEPT !.start = ptr, !.size = size]
<1>1. r \in HandleMetadata
  BY DEF HandleMetadata
<1>2. r.start = ptr /\ r.end = m.end /\ r.size = size
  BY DEF HandleMetadata
<1> HIDE DEF r
<1>3. r = [start |-> ptr, end |-> m.end, size |-> size]
  BY <1>1, <1>2 DEF HandleMetadata
<1> QED BY <1>3 DEF r

LEMMA AppendResMenuStep ==
  ASSUME HeapInv, HandleInv, halted \in BOOLEAN, NEW size \in Nat,
         NEW handle, AppendResMenu(handle, size)
  PROVE  HeapInv' /\ HandleInv' /\ halted' \in BOOLEAN
<1>0. UNCHANGED handle_offset
  BY DEF AppendResMenu
<1>1. CASE ~Resolves(handle)
  <2>1. /\ halted' = TRUE
        /\ UNCHANGED <<heap_offset, handle_to_metadata, master, blocks>>
    BY <1>1 DEF AppendResMenu
  <2> QED BY <2>1, <1>0 DEF HeapInv, HandleInv, BlocksApart, BlockOf
<1>2. CASE Resolves(handle) /\ AllocateFails(size)
  <2>1. /\ Allocate(size) /\ halted' = TRUE
        /\ UNCHANGED <<handle_to_metadata, master>>
    BY <1>2 DEF AppendResMenu
  <2> QED BY <2>1, <1>0, BlockStep
<1>3. CASE Resolves(handle) /\ ~AllocateFails(size)
  <2>1. /\ Allocate(size) /\ halted' = halted
        /\ Write(handle, NextBlock)
        /\ handle_to_metadata' = Moved(handle, NextBlock, size)
    BY <1>3 DEF AppendResMenu, UpdateHandle
  <2> DEFINE data == [start |-> NextBlock,
                      end |-> handle_to_metadata[handle].end, size |-> size]
  <2>2. /\ handle \in DOMAIN handle_to_metadata
        /\ handle \in DOMAIN master /\ handle \in Nat
    BY <1>3 DEF Resolves, Found, HandleInv
  <2>3. /\ handle_to_metadata[handle] \in HandleMetadata
        /\ handle_to_metadata[handle].end <= HeapStart + heap_offset
        /\ handle_to_metadata \in [DOMAIN handle_to_metadata -> HandleMetadata]
    BY <2>2 DEF HandleInv
  <2>4. HeapStart \in Nat /\ heap_offset \in Nat /\ NextBlock \in Nat
        /\ NextBlock = HeapStart + heap_offset
    BY HeapAssumption DEF HeapInv, NextBlock
  <2>5. /\ data \in HandleMetadata /\ data.start = NextBlock /\ data.size = size
        /\ data.end <= NextBlock
    BY <2>3, <2>4 DEF HandleMetadata
  <2>6. handle_to_metadata' =
          [h \in DOMAIN handle_to_metadata \cup {handle} |->
             IF h = handle THEN data ELSE handle_to_metadata[h]]
    <3>1. handle_to_metadata' =
            [handle_to_metadata EXCEPT ![handle] =
               [handle_to_metadata[handle] EXCEPT !.start = NextBlock, !.size = size]]
      BY <2>1, <2>2, <2>3 DEF Moved
    <3>2. [handle_to_metadata[handle] EXCEPT !.start = NextBlock, !.size = size] = data
      BY <2>3, <2>4, RecordUpdate
    <3> HIDE DEF data
    <3> QED BY <3>1, <3>2, <2>2, <2>3
  <2>7. /\ handle_offset' \in Nat /\ handle_offset <= handle_offset'
        /\ handle < HeapStart + handle_offset'
    BY <1>0, <2>2 DEF HandleInv
  <2>8. master' = [h \in DOMAIN master \cup {handle} |->
                     IF h = handle THEN NextBlock ELSE master[h]]
    BY <2>1 DEF Write
  <2> HIDE DEF data
  <2>9. HandleInv'
    BY <2>1, <2>2, <2>5, <2>6, <2>7, <2>8, HandleGetsBlock
  <2> QED BY <2>1, <2>9, AllocateKeeps
<1> QED BY <1>1, <1>2, <1>3

LEMMA DeallocateStep ==
  ASSUME HeapInv, HandleInv, NEW handle, Deallocate(handle)
  PROVE  HeapInv' /\ HandleInv'
<1>1. /\ handle_to_metadata' = [h \in DOMAIN handle_to_metadata \ {handle} |->
                                 handle_to_metadata[h]]
      /\ UNCHANGED <<heap_offset, blocks, master, handle_offset>>
  BY DEF Deallocate
<1>2. /\ DOMAIN handle_to_metadata' \subseteq DOMAIN handle_to_metadata
      /\ \A h \in DOMAIN handle_to_metadata' :
           handle_to_metadata'[h] = handle_to_metadata[h]
  BY <1>1
<1>3. handle_to_metadata' \in [DOMAIN handle_to_metadata' -> HandleMetadata]
  BY <1>1 DEF HandleInv
<1>4. HeapInv'
  BY <1>1 DEF HeapInv, BlocksApart
<1>5. \A h \in DOMAIN handle_to_metadata' : BlockOf(h)' = BlockOf(h)
  BY <1>2 DEF BlockOf
<1>6. \A g, h \in DOMAIN handle_to_metadata' :
        g # h => Apart(BlockOf(g), BlockOf(h))'
  BY <1>2, <1>5 DEF HandleInv, Apart
<1> QED BY <1>1, <1>2, <1>3, <1>4, <1>5, <1>6 DEF HandleInv
-----------------------------------------------------------------------------
LEMMA StepKeeps == IInv /\ [Traps \/ Managers]_mmVars => IInv'
<1> SUFFICES ASSUME IInv, [Traps \/ Managers]_mmVars PROVE IInv'
  OBVIOUS
<1> USE DEF IInv
<1>0. Sizes \subseteq Nat /\ Limits \subseteq Nat
  BY HeapAssumption
<1>a. ASSUME UNCHANGED <<heap_offset, handle_offset, handle_to_metadata, master,
                         blocks>>
      PROVE  HeapInv' /\ HandleInv'
  BY <1>a DEF HeapInv, HandleInv, BlocksApart, BlockOf
<1>1. CASE \E size \in Sizes : NewPtr(size)
  <2>1. PICK size \in Sizes : NewPtr(size)
    BY <1>1
  <2>2. /\ UNCHANGED <<handle_offset, handle_to_metadata, master>>
        /\ appl_limit' = appl_limit
        /\ status' \in {"noErr", "memFullErr"}
        /\ Allocate(size) \/ UNCHANGED <<heap_offset, blocks>>
    BY <2>1 DEF NewPtr
  <2>3. halted' \in BOOLEAN
    BY <2>1 DEF NewPtr, RestInv, AllocateFails
  <2>4. HeapInv' /\ HandleInv'
    BY <2>2, <1>0, <1>a, BlockStep
  <2> QED BY <2>2, <2>3, <2>4 DEF RestInv
<1>2. CASE \E size \in Sizes : NewHandle(size)
  <2>1. PICK size \in Sizes : NewHandle(size)
    BY <1>2
  <2>2. CASE HasSpaceForAllocation(size)
    <3>1. AllocateHandle(size) /\ status' = "noErr" /\ appl_limit' = appl_limit
      BY <2>1, <2>2 DEF NewHandle, AllocateHandle
    <3>2. HeapInv' /\ HandleInv' /\ halted' \in BOOLEAN
      BY <3>1, <1>0, AllocateHandleStep DEF RestInv
    <3> QED BY <3>1, <3>2 DEF RestInv
  <2>3. CASE ~HasSpaceForAllocation(size)
    BY <2>1, <2>3, <1>a DEF NewHandle, RestInv
  <2> QED BY <2>2, <2>3
<1>3. CASE \E block \in blocks : RecoverHandle(block.start)
  <2>1. PICK block \in blocks : RecoverHandle(block.start)
    BY <1>3
  <2>2. block.start \in Nat
    BY DEF HeapInv, Block
  <2>3. HeapInv' /\ HandleInv'
    BY <2>1, <2>2, RecoverHandleStep
  <2> QED BY <2>1, <2>3 DEF RecoverHandle, RestInv
<1>4. CASE \E limit \in Limits : SetApplLimit(limit)
  BY <1>4, <1>0, <1>a DEF SetApplLimit, RestInv
<1>5. CASE \E handle \in DOMAIN master : GetHandleSize(handle)
  BY <1>5, <1>a DEF GetHandleSize, RestInv, Found
<1>6. CASE \E handle \in DOMAIN master, size \in Sizes :
             AppendResMenu(handle, size)
  <2>1. PICK handle \in DOMAIN master, size \in Sizes : AppendResMenu(handle, size)
    BY <1>6
  <2>2. HeapInv' /\ HandleInv' /\ halted' \in BOOLEAN
    BY <2>1, <1>0, AppendResMenuStep DEF RestInv
  <2>3. appl_limit' = appl_limit /\ status' = status
    BY <2>1 DEF AppendResMenu
  <2> QED BY <2>2, <2>3 DEF RestInv
<1>7. CASE \E size \in Sizes : LoadHandle(size)
  <2>1. PICK size \in Sizes : LoadHandle(size)
    BY <1>7
  <2>2. AllocateHandle(size) /\ status' = status /\ appl_limit' = appl_limit
    BY <2>1 DEF LoadHandle, AllocateHandle
  <2>3. HeapInv' /\ HandleInv' /\ halted' \in BOOLEAN
    BY <2>2, <1>0, AllocateHandleStep DEF RestInv
  <2> QED BY <2>2, <2>3 DEF RestInv
<1>8. CASE \E size \in Sizes : LoadBlock(size)
  <2>1. PICK size \in Sizes : LoadBlock(size)
    BY <1>8
  <2>2. /\ Allocate(size)
        /\ UNCHANGED <<handle_offset, handle_to_metadata, master>>
        /\ appl_limit' = appl_limit /\ status' = status
    BY <2>1 DEF LoadBlock
  <2>3. halted' \in BOOLEAN
    BY <2>1 DEF LoadBlock, AllocateFails
  <2> QED BY <2>2, <2>3, <1>0, BlockStep DEF RestInv
<1>9. CASE \E handle \in DOMAIN handle_to_metadata : Deallocate(handle)
  BY <1>9, DeallocateStep DEF Deallocate, RestInv
<1>10. CASE UNCHANGED mmVars
  BY <1>10, <1>a DEF mmVars, RestInv
<1> QED BY <1>1, <1>2, <1>3, <1>4, <1>5, <1>6, <1>7, <1>8, <1>9, <1>10
        DEF Traps, Managers

(* Every reachable state satisfies the inductive invariant.                 *)
THEOREM HeapInvariance == MemoryManagerSpec => []IInv
<1>1. MemoryManagerInit => IInv
  BY InitHolds
<1>2. IInv /\ [Traps \/ Managers]_mmVars => IInv'
  BY StepKeeps
<1> QED BY <1>1, <1>2, PTL DEF MemoryManagerSpec

(* The variables hold values of their types, whatever the constants.        *)
THEOREM HeapTypeCorrectness == MemoryManagerSpec => []MemoryTypeOK
<1>1. IInv => MemoryTypeOK
  BY DEF IInv, HeapInv, HandleInv, RestInv, MemoryTypeOK
<1> QED BY <1>1, HeapInvariance, PTL

(* No two blocks NewPtr, NewHandle and the managers ever hand out share a   *)
(* byte, and none reaches into the handle table.                            *)
THEOREM NoByteIsHandedOutTwice == MemoryManagerSpec => []BlocksApart
<1>1. IInv => BlocksApart
  BY DEF IInv, HeapInv
<1> QED BY <1>1, HeapInvariance, PTL

(* The CHECKs of GetPtrForHandle and GetRegionForHandle never fail for a    *)
(* handle the manager knows.                                                *)
THEOREM HandlesAlwaysAgree == MemoryManagerSpec => []HandlesAgree
<1>1. IInv => HandlesAgree
  BY DEF IInv, HandleInv, HandlesAgree, Resolves, Found, BlockOf
<1> QED BY <1>1, HeapInvariance, PTL

(* GetHandleThatContains has at most one handle to answer with, and its     *)
(* block contains the address.                                              *)
THEOREM LookupIsAlwaysSound == MemoryManagerSpec => []LookupIsSound
<1>1. IInv => LookupIsSound
  <2> SUFFICES ASSUME IInv,
                      NEW g \in DOMAIN handle_to_metadata,
                      NEW h \in DOMAIN handle_to_metadata,
                      NEW address \in handle_to_metadata[h].start ..
                                        handle_to_metadata[h].end,
                      Claims(h, address)
               PROVE  /\ address < handle_to_metadata[h].start
                                     + handle_to_metadata[h].size
                      /\ Claims(g, address) => g = h
    BY DEF LookupIsSound
  <2> DEFINE Exact(i) == handle_to_metadata[i].end =
                           handle_to_metadata[i].start + handle_to_metadata[i].size
  <2>1. \A i \in DOMAIN handle_to_metadata :
          /\ handle_to_metadata[i].start \in Nat
          /\ handle_to_metadata[i].end \in Nat
          /\ handle_to_metadata[i].size \in Nat
          /\ Exact(i) \/ handle_to_metadata[i].end <= handle_to_metadata[i].start
    BY DEF IInv, HandleInv, HandleMetadata
  <2>2. address \in Nat
    BY <2>1
  <2>3. \A i \in DOMAIN handle_to_metadata : Claims(i, address) => Exact(i)
    BY <2>1, <2>2 DEF Claims
  <2>4. address < handle_to_metadata[h].start + handle_to_metadata[h].size
    BY <2>1, <2>2, <2>3 DEF Claims
  <2>5. ASSUME Claims(g, address), g # h PROVE FALSE
    <3>1. Exact(g) /\ Exact(h)
      BY <2>3, <2>5
    <3>2. Apart(BlockOf(g), BlockOf(h))
      BY <2>5 DEF IInv, HandleInv
    <3> QED BY <3>1, <3>2, <2>1, <2>2, <2>5 DEF Apart, BlockOf, Claims
  <2> QED BY <2>4, <2>5
<1> QED BY <1>1, HeapInvariance, PTL

(* NewPtr never aborts: a heap that cannot serve it is an error code.       *)
THEOREM FullHeapIsAlwaysReported == MemoryManagerSpec => FullHeapIsReported
<1>1. ASSUME NEW size \in Sizes, ~halted, NewPtr(size) PROVE ~halted'
  BY <1>1 DEF NewPtr, HasSpaceForAllocation, AllocateFails, Bump
<1>2. [Traps \/ Managers]_mmVars =>
        [\A size \in Sizes : ~halted /\ NewPtr(size) => ~halted']_mmVars
  BY <1>1
<1> QED BY <1>2, PTL DEF MemoryManagerSpec, FullHeapIsReported
-----------------------------------------------------------------------------
(* That blocks do not move.  A step writes a master pointer that no known   *)
(* handle has, or is AppendResMenu's, whose block begins at the bump        *)
(* pointer, where every block handed out before has ended.                  *)

Stays(h) == handle_to_metadata'[h] = handle_to_metadata[h] /\ master'[h] = master[h]
Moves(h) ==
  /\ \E size \in Sizes : AppendResMenu(h, size)
  /\ \A b \in blocks :
       Apart(b, [start |-> master'[h], size |-> handle_to_metadata'[h].size])
Known == DOMAIN handle_to_metadata \cap DOMAIN handle_to_metadata'

LEMMA NextHandleIsNew ==
  ASSUME HandleInv
  PROVE  \A h \in DOMAIN handle_to_metadata : h \in DOMAIN master /\ h # NextHandle
<1>1. /\ HeapStart \in Nat /\ handle_offset \in Nat
      /\ \A h \in DOMAIN handle_to_metadata :
           h \in Nat /\ h \in DOMAIN master /\ h < HeapStart + handle_offset
  BY HeapAssumption DEF HandleInv
<1> QED BY <1>1 DEF NextHandle

LEMMA AllocateHandleStays ==
  ASSUME HandleInv, NEW size \in Nat, AllocateHandle(size)
  PROVE  \A h \in Known : Stays(h)
<1>1. CASE AllocateFails(size) \/ TableFull
  BY <1>1 DEF AllocateHandle, Stays
<1>2. CASE ~(AllocateFails(size) \/ TableFull)
  BY <1>2, NextHandleIsNew DEF AllocateHandle, Write, Insert, Stays, Known
<1> QED BY <1>1, <1>2

LEMMA AppendResMenuMovesOne ==
  ASSUME HeapInv, HandleInv, NEW handle, NEW size \in Sizes, AppendResMenu(handle, size)
  PROVE  \A h \in Known : Stays(h) \/ Moves(h)
<1>1. CASE ~Resolves(handle) \/ AllocateFails(size)
  BY <1>1 DEF AppendResMenu, Stays
<1>2. CASE Resolves(handle) /\ ~AllocateFails(size)
  <2>1. /\ Allocate(size)
        /\ Write(handle, NextBlock)
        /\ handle_to_metadata' = Moved(handle, NextBlock, size)
    BY <1>2 DEF AppendResMenu, UpdateHandle
  <2>2. handle \in DOMAIN handle_to_metadata /\ handle \in DOMAIN master
    BY <1>2 DEF Resolves, Found, HandleInv
  <2>3. ASSUME NEW h \in Known, h # handle
        PROVE  Stays(h)
    BY <2>1, <2>3 DEF Moved, Write, Stays, Known, HandleInv
  <2>4. Moves(handle)
    <3>1. size \in Nat
      BY HeapAssumption
    <3>2. PICK next \in Nat : next = NextBlock
      BY HeapAssumption DEF HeapInv, NextBlock
    <3>3. master'[handle] = next
      BY <2>1, <2>2, <3>2 DEF Write
    <3>4. handle_to_metadata'[handle].size = size
      <4>1. handle_to_metadata[handle] \in HandleMetadata
        BY <2>2 DEF HandleInv
      <4>2. handle_to_metadata'[handle] =
              [handle_to_metadata[handle] EXCEPT !.start = NextBlock, !.size = size]
        BY <2>1, <2>2 DEF Moved, HandleInv
      <4>3. [handle_to_metadata[handle] EXCEPT !.start = NextBlock, !.size = size] =
              [start |-> NextBlock, end |-> handle_to_metadata[handle].end, size |-> size]
        BY <3>1, <3>2, <4>1, RecordUpdate
      <4> QED BY <4>2, <4>3
    <3>5. \A b \in blocks : Apart(b, [start |-> next, size |-> size])
      <4>1. \A b \in blocks : b.start + b.size <= next
        BY <2>1, <3>1, <3>2, AllocateKeeps
      <4> QED BY <4>1 DEF Apart
    <3> QED BY <3>3, <3>4, <3>5 DEF Moves
  <2> QED BY <2>3, <2>4
<1> QED BY <1>1, <1>2

(* Whatever traps and managers do, a handle keeps its block, except for     *)
(* AppendResMenu's, which gets one that no handle has or had.               *)
THEOREM BlocksNeverMove == MemoryManagerSpec => BlocksStayPut
<1>1. ASSUME IInv, [Traps \/ Managers]_mmVars
      PROVE  \A h \in Known : Stays(h) \/ Moves(h)
  <2>1. Sizes \subseteq Nat /\ HeapInv /\ HandleInv
    BY <1>1, HeapAssumption DEF IInv
  <2>2. ASSUME UNCHANGED <<handle_to_metadata, master>>
        PROVE  \A h \in Known : Stays(h)
    BY <2>2 DEF Stays
  <2>3. CASE \E size \in Sizes : NewPtr(size) \/ LoadBlock(size)
    BY <2>2, <2>3 DEF NewPtr, LoadBlock
  <2>4. CASE \E size \in Sizes : NewHandle(size) \/ LoadHandle(size)
    BY <2>1, <2>2, <2>4, AllocateHandleStays DEF NewHandle, LoadHandle
  <2>5. CASE \E block \in blocks : RecoverHandle(block.start)
    BY <2>1, <2>5, NextHandleIsNew DEF RecoverHandle, Write, Stays, Known
  <2>6. CASE \/ \E limit \in Limits : SetApplLimit(limit)
             \/ \E handle \in DOMAIN master : GetHandleSize(handle)
             \/ UNCHANGED mmVars
    BY <2>2, <2>6 DEF SetApplLimit, GetHandleSize, mmVars
  <2>7. CASE \E handle \in DOMAIN master, size \in Sizes : AppendResMenu(handle, size)
    BY <2>1, <2>7, AppendResMenuMovesOne
  <2>8. CASE \E handle \in DOMAIN handle_to_metadata : Deallocate(handle)
    BY <2>8 DEF Deallocate, Stays, Known
  <2> QED
    BY <1>1, <2>3, <2>4, <2>5, <2>6, <2>7, <2>8 DEF Traps, Managers
<1>2. IInv /\ [Traps \/ Managers]_mmVars =>
        [\A h \in DOMAIN handle_to_metadata \cap DOMAIN handle_to_metadata' :
           \/ /\ handle_to_metadata'[h] = handle_to_metadata[h]
              /\ master'[h] = master[h]
           \/ /\ \E size \in Sizes : AppendResMenu(h, size)
              /\ \A b \in blocks :
                   Apart(b, [start |-> master'[h],
                             size |-> handle_to_metadata'[h].size])]_mmVars
  BY <1>1 DEF Known, Stays, Moves
<1> QED BY <1>2, HeapInvariance, PTL DEF MemoryManagerSpec, BlocksStayPut
=============================================================================
