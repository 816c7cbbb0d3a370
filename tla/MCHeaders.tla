------------------------------ MODULE MCHeaders -----------------------------
(***************************************************************************)
(* Headers of a client that sets any of the five, to an address or to      *)
(* something else that a second entry follows.                             *)
(***************************************************************************)
EXTENDS Headers

SomeEntries == {"client", "edge", "hop", "unknown"}
ParseOf == [e \in SomeEntries |-> IF e = "unknown" THEN None ELSE e]
SomeSent == [Names -> {None, <<"client">>, <<"unknown", "client">>}]
=============================================================================
