------------------------------- MODULE Headers ------------------------------
(***************************************************************************)
(* src/headers.rs: client_ip over the headers of a request.  What the      *)
(* client sends passes an edge, which may overwrite or remove headers, and *)
(* inner proxies that append to x-forwarded-for; the caller of client_ip   *)
(* answers for them.  The loop over ORDER takes a header per step.         *)
(*                                                                         *)
(* The value of a header is the sequence of its comma-separated entries.   *)
(***************************************************************************)
EXTENDS Integers, Sequences

CONSTANTS
  None,
  Entries,   \* texts between commas
  Parse,     \* Parse[e]: the address that e trimmed is, or None
  Sent,      \* headers clients may send
  Edge, Hop, \* the entries that the edge and the proxies write
  MaxEntries \* bound on the length of x-forwarded-for

ORDER == <<"cf-connecting-ip", "fly-client-ip", "true-client-ip", "x-real-ip",
           "x-forwarded-for">>
Names == {ORDER[k] : k \in DOMAIN ORDER}

Values == Seq(Entries) \ {<<>>}

ASSUME HeadersAssumption ==
  /\ \A h \in Sent : h \in [Names -> Values \union {None}]
  /\ {Edge, Hop} \subseteq Entries
  /\ Parse[Edge] # None
  /\ MaxEntries \in Nat

VARIABLES
  headers,
  fixed,      \* auxiliary: names of the headers the edge overwrote or removed
  pc,         \* "proxies", "looking" or "done"
  i,          \* the next header to look at
  client_ip   \* the result

vars == <<headers, fixed, pc, i, client_ip>>

Init ==
  /\ headers \in Sent
  /\ fixed = {}
  /\ pc = "proxies" /\ i = 1 /\ client_ip = None

EdgeSets(h) ==
  /\ pc = "proxies"
  /\ headers' = [headers EXCEPT ![h] = <<Edge>>]
  /\ fixed' = fixed \union {h}
  /\ UNCHANGED <<pc, i, client_ip>>

EdgeRemoves(h) ==
  /\ pc = "proxies"
  /\ headers' = [headers EXCEPT ![h] = None]
  /\ fixed' = fixed \union {h}
  /\ UNCHANGED <<pc, i, client_ip>>

HopAppends ==
  /\ pc = "proxies"
  /\ headers["x-forwarded-for"] # None
  /\ Len(headers["x-forwarded-for"]) < MaxEntries
  /\ headers' = [headers EXCEPT !["x-forwarded-for"] = Append(@, Hop)]
  /\ UNCHANGED <<fixed, pc, i, client_ip>>

Call ==
  /\ pc = "proxies"
  /\ pc' = "looking"
  /\ UNCHANGED <<headers, fixed, i, client_ip>>

-----------------------------------------------------------------------------
(* Operators named Mutant... are plausible bugs; no action uses them.      *)

\* The entry next to the server.
MutantFirst(v) == v[Len(v)]
First(v) == v[1]

\* The address in header n, None where it is missing or does not parse.
Address(n) == IF headers[n] = None THEN None ELSE Parse[First(headers[n])]

\* The loop does not return.
MutantNoReturn ==
  /\ pc = "looking" /\ i <= Len(ORDER) /\ Address(ORDER[i]) # None
  /\ client_ip' = Address(ORDER[i])
  /\ i' = i + 1
  /\ UNCHANGED <<headers, fixed, pc>>

Found ==
  /\ pc = "looking" /\ i <= Len(ORDER) /\ Address(ORDER[i]) # None
  /\ client_ip' = Address(ORDER[i])
  /\ pc' = "done"
  /\ UNCHANGED <<headers, fixed, i>>

\* A header that does not parse ends the search.
MutantGivesUp ==
  /\ pc = "looking" /\ i <= Len(ORDER) /\ Address(ORDER[i]) = None
  /\ IF headers[ORDER[i]] = None THEN i' = i + 1 /\ pc' = pc ELSE i' = i /\ pc' = "done"
  /\ UNCHANGED <<headers, fixed, client_ip>>

FallThrough ==
  /\ pc = "looking" /\ i <= Len(ORDER) /\ Address(ORDER[i]) = None
  /\ i' = i + 1
  /\ UNCHANGED <<headers, fixed, pc, client_ip>>

NotFound ==
  /\ pc = "looking" /\ i > Len(ORDER)
  /\ pc' = "done"
  /\ UNCHANGED <<headers, fixed, i, client_ip>>

Next ==
  \/ \E h \in Names : EdgeSets(h) \/ EdgeRemoves(h)
  \/ HopAppends
  \/ Call
  \/ Found \/ FallThrough \/ NotFound

Spec == Init /\ [][Next]_vars

-----------------------------------------------------------------------------
(* Properties.                                                             *)

TypeOK ==
  /\ headers \in [Names -> Values \union {None}]
  /\ fixed \subseteq Names
  /\ pc \in {"proxies", "looking", "done"}
  /\ i \in 1 .. Len(ORDER) + 1
  /\ client_ip # None => pc = "done"

\* The doc comment of client_ip leaves trust to the caller.  What a caller must
\* ensure: an edge that writes its peer into one header and overwrites or
\* removes all before it in ORDER decides the result.  Neither the headers
\* after it nor entries that are appended later matter.
EdgeDecides ==
  \A k \in 1 .. Len(ORDER) :
    /\ pc = "done"
    /\ \A j \in 1 .. k : ORDER[j] \in fixed
    /\ headers[ORDER[k]] # None
    => client_ip = Parse[Edge]

\* An unreadable header hides none after it: there is no address only where no
\* header begins with one, and there is one from the first header that does.
FirstReadableWins ==
  pc = "done" =>
    \/ client_ip = None /\ \A n \in Names : Address(n) = None
    \/ \E k \in 1 .. Len(ORDER) :
         /\ client_ip # None /\ client_ip = Address(ORDER[k])
         /\ \A j \in 1 .. k - 1 : Address(ORDER[j]) = None
=============================================================================
