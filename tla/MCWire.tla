------------------------------- MODULE MCWire -------------------------------
(***************************************************************************)
(* Wire with texts on both sides of every bound: of the length of kinds and*)
(* of ids, of the printable bytes, and of a space, which only kinds take.  *)
(***************************************************************************)
EXTENDS Wire, FiniteSets

Letters == 97 .. 99
NameTexts == Known \union {Reserved[v] : v \in Known}

\* Length and bytes of the other texts.
Shape ==
  [empty   |-> <<0, {}>>,           Page_View |-> <<9, {80} \union Letters>>,
   letters |-> <<64, Letters>>,     letters65 |-> <<65, Letters>>,
   spaced  |-> <<5, {32, 126}>>,    digest    |-> <<43, {48, 90, 122}>>,
   id128   |-> <<128, {33, 126}>>,  id129     |-> <<129, Letters>>,
   tab     |-> <<3, {31, 97}>>,     delete    |-> <<1, {127}>>,
   emoji   |-> <<9, {159, 240}>>]

SomeTexts == NameTexts \union DOMAIN Shape
SizeOf == [s \in SomeTexts |-> IF s \in NameTexts THEN 9 ELSE Shape[s][1]]
BytesOf == [s \in SomeTexts |-> IF s \in NameTexts THEN {95} \union Letters ELSE Shape[s][2]]
=============================================================================
