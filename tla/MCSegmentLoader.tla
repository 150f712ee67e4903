-------------------------- MODULE MCSegmentLoader --------------------------
(* SegmentLoader for TLC: three segments, the second with two entries in    *)
(* the middle of the table, and resources that shadow each other.           *)
EXTENDS SegmentLoader

Resource(type, id, name, data) == [type |-> type, id |-> id, name |-> name, data |-> data]
Code(id, offset, count) ==
  Resource("CODE", id, "", [offset |-> offset, count |-> count])
Entry(routine, segment) == [routine |-> routine, segment |-> segment]

MCAppFile ==
  << Resource("CODE", 0, "", << Entry(0, 1), Entry(6, 1), Entry(2, 2),
                                Entry(9, 2), Entry(0, 3) >>),
     Code(1, 0, 2), Code(2, 16, 2), Code(3, 32, 1),
     Resource("STR ", 0, "ours", "a"), Resource("STR ", 1, "other", "b") >>
MCSystemFile ==
  << Resource("STR ", 0, "theirs", "c"), Resource("STR ", 7, "system", "d") >>

MCIdsAsked ==
  {<<"STR ", 0>>, <<"STR ", 7>>, <<"STR ", 8>>, <<"CODE", 2>>}
MCNamesAsked == {<<"STR ", "ours">>, <<"STR ", "other">>, <<"STR ", "system">>}
=============================================================================
