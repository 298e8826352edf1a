------------------------- MODULE MCSpoolCompression -------------------------
(***************************************************************************)
(* A small instance of SpoolCompression: a result under the single limit   *)
(* of which two exceed the batch limit, a shorter one and one over the     *)
(* single limit; a summary that may fit and one that never does.           *)
(***************************************************************************)
EXTENDS SpoolCompression

Lengths == [page |-> 8, note |-> 4, log |-> 12, short |-> 2, long |-> 9,
            typed |-> 1, reply |-> 1, boundary |-> 1]
SomeBatches == {<<"page", "page">>, <<"note", "page">>, <<"log">>, <<"page", "log">>}
=============================================================================
