--------------------------- MODULE MCFileManager ---------------------------
(* A memory of 20 bytes with every section in it, and what the emulated    *)
(* application and the Toolbox do to it.                                   *)
EXTENDS FileManager

MCTagOrder == {<<"CODE1", "Stack">>}
MCPayloads == {<<1>>, <<1, 2>>}
MCRecords ==
  {[start |-> 9,  end |-> 12, fields |-> {[offset |-> 1, size |-> 1]}],
   [start |-> 12, end |-> 14, fields |-> {}],
   [start |-> 10, end |-> 13, fields |-> {[offset |-> 0, size |-> 2]}]}
MCChunks == {<<8, 10>>, <<9, 12>>}
MCCuts == {<<9, 2>>, <<2, 0>>, <<3, 18>>}
=============================================================================
