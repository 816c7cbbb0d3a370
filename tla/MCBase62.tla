------------------------------ MODULE MCBase62 ------------------------------
(***************************************************************************)
(* Digests of three bytes, each byte taken around the values where the     *)
(* division changes: 0, a last digit (61), a first carry (62), the quotient*)
(* 4 of a leading byte and the largest byte.                               *)
(***************************************************************************)
EXTENDS Base62

EdgeBytes == {0, 1, 4, 5, 61, 62, 127, 247, 248, 254, 255}
EdgeDigests == [0 .. N - 1 -> EdgeBytes]
=============================================================================
