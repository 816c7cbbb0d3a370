---------------------------- MODULE HeadersProofs ---------------------------
(***************************************************************************)
(* client_ip for any headers and any number of entries in them.            *)
(***************************************************************************)
EXTENDS Headers, TLAPS

\* No header that was passed over begins with an address; the one that ended
\* the search does.  What the edge fixed is gone or begins with its entry.
LoopInv ==
  /\ \A j \in 1 .. i - 1 : Address(ORDER[j]) = None
  /\ pc = "done" =>
       \/ i = Len(ORDER) + 1 /\ client_ip = None
       \/ i <= Len(ORDER) /\ client_ip # None /\ client_ip = Address(ORDER[i])
  /\ \A n \in fixed : headers[n] # None => First(headers[n]) = Edge

\* ORDER lists every header name.
LEMMA OrderFacts ==
  /\ Len(ORDER) = 5
  /\ \A k \in 1 .. 5 : ORDER[k] \in Names
  /\ "x-forwarded-for" \in Names
  /\ \A n \in Names : \E k \in 1 .. 5 : n = ORDER[k]
<1>1. Len(ORDER) = 5 /\ DOMAIN ORDER = 1 .. 5 /\ ORDER[5] = "x-forwarded-for"
  BY DEF ORDER
<1> QED  BY <1>1 DEF Names

\* The types of src/headers.rs; a result ends the search.
THEOREM TypeCorrect == Spec => []TypeOK
<1>1. Init => TypeOK
  BY HeadersAssumption, OrderFacts DEF Init, TypeOK
<1>2. TypeOK /\ [Next]_vars => TypeOK'
  <2> SUFFICES ASSUME TypeOK, [Next]_vars PROVE TypeOK'
    OBVIOUS
  <2> USE OrderFacts DEF TypeOK
  <2>1. ASSUME NEW h \in Names, EdgeSets(h) PROVE TypeOK'
    <3>1. <<Edge>> \in Values
      BY HeadersAssumption DEF Values
    <3> QED  BY <2>1, <3>1 DEF EdgeSets
  <2>2. ASSUME NEW h \in Names, EdgeRemoves(h) PROVE TypeOK'
    BY <2>2 DEF EdgeRemoves
  <2>3. CASE HopAppends
    <3> DEFINE v == headers["x-forwarded-for"]
    <3>1. v \in Values
      BY <2>3 DEF HopAppends
    <3>2. Append(v, Hop) \in Values
      BY <3>1, HeadersAssumption DEF Values
    <3> QED  BY <2>3, <3>2 DEF HopAppends
  <2>4. CASE Call
    BY <2>4 DEF Call
  <2>5. CASE Found
    BY <2>5 DEF Found
  <2>6. CASE FallThrough
    BY <2>6 DEF FallThrough
  <2>7. CASE NotFound
    BY <2>7 DEF NotFound
  <2>8. CASE UNCHANGED vars
    BY <2>8 DEF vars
  <2> QED  BY <2>1, <2>2, <2>3, <2>4, <2>5, <2>6, <2>7, <2>8 DEF Next
<1> QED  BY <1>1, <1>2, PTL DEF Spec

\* While proxies are at work the search has not begun.
StartInv == pc = "proxies" => i = 1 /\ client_ip = None
LookingInv == pc = "looking" => client_ip = None

LoopIInv == LoopInv /\ StartInv /\ LookingInv

\* Every step of the edge, the proxies and client_ip keeps the invariant.
LEMMA LoopInvInductive == TypeOK /\ LoopIInv /\ [Next]_vars => LoopIInv'
<1> SUFFICES ASSUME TypeOK, LoopIInv, [Next]_vars PROVE LoopIInv'
  OBVIOUS
<1> USE DEF LoopIInv, LoopInv, StartInv, LookingInv
<1>1. ASSUME NEW h \in Names, EdgeSets(h) PROVE LoopIInv'
  <2>1. \A n \in fixed' : headers'[n] # None => First(headers'[n]) = Edge
    BY <1>1 DEF EdgeSets, First, TypeOK
  <2> QED  BY <1>1, <2>1 DEF EdgeSets
<1>2. ASSUME NEW h \in Names, EdgeRemoves(h) PROVE LoopIInv'
  <2>1. \A n \in fixed' : headers'[n] # None => First(headers'[n]) = Edge
    BY <1>2 DEF EdgeRemoves, TypeOK
  <2> QED  BY <1>2, <2>1 DEF EdgeRemoves
<1>3. CASE HopAppends
  <2> DEFINE x == "x-forwarded-for"
  <2>1. headers[x] \in Values
    BY <1>3, OrderFacts DEF HopAppends, TypeOK
  <2>2. Append(headers[x], Hop)[1] = headers[x][1]
    BY <2>1, HeadersAssumption DEF Values
  <2>3. \A n \in fixed' : headers'[n] # None => First(headers'[n]) = Edge
    BY <1>3, <2>2 DEF HopAppends, First, TypeOK
  <2> QED  BY <1>3, <2>3 DEF HopAppends
<1>4. CASE Call
  BY <1>4 DEF Call, Address
<1>5. CASE Found
  BY <1>5 DEF Found, Address, TypeOK
<1>6. CASE FallThrough
  BY <1>6 DEF FallThrough, Address, TypeOK
<1>7. CASE NotFound
  BY <1>7, OrderFacts DEF NotFound, Address, TypeOK
<1>8. CASE UNCHANGED vars
  BY <1>8 DEF vars, Address
<1> QED  BY <1>1, <1>2, <1>3, <1>4, <1>5, <1>6, <1>7, <1>8 DEF Next

\* Hence it holds throughout.
LEMMA LoopInvHolds == Spec => []LoopIInv
<1>1. Init => LoopIInv
  BY DEF Init, LoopIInv, LoopInv, StartInv, LookingInv
<1>2. TypeOK /\ LoopIInv /\ [Next]_vars => LoopIInv'
  BY LoopInvInductive
<1> QED  BY <1>1, <1>2, TypeCorrect, PTL DEF Spec

\* The result is the first address in the order of the headers, and None only
\* if there is none.
THEOREM FirstReadable == Spec => []FirstReadableWins
<1>1. TypeOK /\ LoopIInv => FirstReadableWins
  BY OrderFacts DEF TypeOK, LoopIInv, LoopInv, FirstReadableWins
<1> QED  BY <1>1, TypeCorrect, LoopInvHolds, PTL

\* An edge that fixes all headers up to one it sets decides the result.
THEOREM EdgeDecidesTheAddress == Spec => []EdgeDecides
<1>1. TypeOK /\ LoopIInv => EdgeDecides
  <2> SUFFICES ASSUME TypeOK, LoopIInv, NEW k \in 1 .. Len(ORDER), pc = "done",
                      \A j \in 1 .. k : ORDER[j] \in fixed,
                      headers[ORDER[k]] # None
               PROVE  client_ip = Parse[Edge]
    BY DEF EdgeDecides
  <2> USE OrderFacts DEF LoopIInv, LoopInv
  <2>1. Address(ORDER[k]) = Parse[Edge] /\ Parse[Edge] # None
    BY HeadersAssumption DEF Address
  <2>2. i <= k
    BY <2>1 DEF TypeOK
  <2>3. client_ip # None /\ client_ip = Address(ORDER[i])
    BY <2>2 DEF TypeOK
  <2>4. ORDER[i] \in fixed
    BY <2>2 DEF TypeOK
  <2> QED  BY <2>3, <2>4 DEF Address
<1> QED  BY <1>1, TypeCorrect, LoopInvHolds, PTL
=============================================================================
