-------------------------- MODULE MCMemoryManager --------------------------
(* MemoryManager for TLC: a heap from 2 to 8 whose first four bytes are the *)
(* table, with room for two handles.  A third handle overflows the table,   *)
(* and the four bytes behind it fill up and run past the end.               *)
EXTENDS MemoryManager
=============================================================================
