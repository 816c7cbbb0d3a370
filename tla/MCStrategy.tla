----------------------------- MODULE MCStrategy -----------------------------
(***************************************************************************)
(* Strategy with bytes of three bits: one for an IPv4 address, three for an*)
(* IPv6 address.  As in the code the prefixes of IPv6 end before the ones  *)
(* of the IPv4-mapped range begin, and the three masks of IPv4 differ.     *)
(* A user agent is a prefix of the longer salt, so that concatenations of  *)
(* different parts can coincide.                                           *)
(***************************************************************************)
EXTENDS Strategy, TLC

ScaledPrefixes ==
  [None     |-> [v4 |-> 3, v6 |-> 9], Balanced |-> [v4 |-> 1, v6 |-> 2],
   Accurate |-> [v4 |-> 2, v6 |-> 3], Full     |-> [v4 |-> 3, v6 |-> 9]]

\* Lengths up to 5, two little-endian digits in base 3.
LenTable == [n \in 0 .. 5 |-> <<n % 3, n \div 3>>]

LongSalts == {<<2, 2>>, <<1, 2, 2>>}
SomeSalts == LongSalts \union {<<2>>}

V4(n) == [family |-> "V4", bits |-> n]
V6(n) == [family |-> "V6", bits |-> n]

\* 5 and 7 share a block of two addresses and no smaller one; 61 is ::ffff:5,
\* that is 7 * 8 + 5; 47 lies outside the mapped range.
SomeIps == {V4(5), V4(7), V6(61), V6(47)}

SomeRawEvents ==
  [ip : SomeIps, entity_id : {None}, user_agent : {None, <<1>>}]
    \union [ip : {V4(5)}, entity_id : {<<>>, <<1>>}, user_agent : {<<>>}]
    \union [ip : {None}, entity_id : {None}, user_agent : {<<1>>}]

\* For the secrecy of the salt the event does not matter.
OneRawEvent == {[ip |-> V4(5), entity_id |-> None, user_agent |-> None]}

CallerSymmetry == Permutations(Callers)
=============================================================================
