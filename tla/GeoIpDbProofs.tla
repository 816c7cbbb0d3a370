---------------------------- MODULE GeoIpDbProofs ---------------------------
(***************************************************************************)
(* What GeoIpDb guarantees for every set of threads, contents and          *)
(* addresses.  Section 1 holds for any number of concurrent reloads,       *)
(* section 2 for one reloading thread, the only case in which the gate of  *)
(* reload_from_bytes compares with what the store then replaces.           *)
(***************************************************************************)
EXTENDS GeoIpDb, TLAPS

USE ConstAssumption

\* What a decoded database is made of (struct Loaded).
LEMMA LoadedFields ==
  \A d \in Loaded : /\ d # None
                    /\ d.reader \in Valid
                    /\ d.build_epoch \in Nat
                    /\ d.len \in Nat
BY DEF Loaded, Build

\* The answer of a lookup is a Location or None.
LEMMA AnswerType ==
  \A d \in Loaded \union {None}, i \in Ips : AnswerOf(d, i) \in Locations \union {None}
BY LoadedFields DEF AnswerOf

\* Ages are integers, and the newer of two is one of them and below neither.
LEMMA AgeType == \A d \in Loaded \union {None} : Age(d) \in Int /\ Age(d) >= -1
BY LoadedFields DEF Age

\* Newest is the larger of two epochs.
LEMMA NewestBounds ==
  \A a, b \in Int : Newest(a, b) \in {a, b} /\ Newest(a, b) >= a /\ Newest(a, b) >= b
BY DEF Newest

\* The gate returns one of three verdicts.
LEMMA VerdictType == \A c, d : Verdict(c, d) \in {"Ok", "Older", "TooSmall"}
BY DEF Verdict

-----------------------------------------------------------------------------
(* 1. Any number of reloading threads.                                     *)

\* The cell, the locals of the calls in flight and the history keep their
\* types through every step of reload and lookup.
THEOREM TypeCorrect == Spec => []TypeOK
<1>1. Init => TypeOK
  BY AgeType DEF Init, TypeOK, Threads, States, Results
<1>2. TypeOK /\ [Next]_vars => TypeOK'
  <2> SUFFICES ASSUME TypeOK, [Next]_vars PROVE TypeOK'
    OBVIOUS
  <2> USE DEF TypeOK, Threads, reloadVars, lookupVars, history
  <2>1. ASSUME NEW r \in Reloaders, ReloadFails(r) PROVE TypeOK'
    BY <2>1 DEF ReloadFails, Results
  <2>2. ASSUME NEW r \in Reloaders, BuildCandidate(r) PROVE TypeOK'
    BY <2>2 DEF BuildCandidate, Begin, States, Loaded
  <2>3. ASSUME NEW r \in Reloaders, LoadAndGate(r) PROVE TypeOK'
    <3>1. CASE /\ pc' = [pc EXCEPT ![r] = "store"]
               /\ UNCHANGED <<candidate, result, window>>
      BY <2>3, <3>1 DEF LoadAndGate, States
    <3>2. CASE /\ Verdict(candidate[r], inner) # "Ok"
               /\ candidate' = [candidate EXCEPT ![r] = None]
               /\ result' = [result EXCEPT ![r] = Verdict(candidate[r], inner)]
               /\ End(r)
      BY <2>3, <3>2, VerdictType DEF LoadAndGate, End, States, Results
    <3>3. QED BY <2>3, <3>1, <3>2 DEF LoadAndGate
  <2>4. ASSUME NEW r \in Reloaders, Store(r) PROVE TypeOK'
    <3>1. candidate[r] \in Loaded
      BY <2>4 DEF Store
    <3>2. served' \in Int
      BY <2>4, <3>1, AgeType, NewestBounds DEF Store
    <3>3. window' \in [Threads -> SUBSET (Loaded \union {None})]
      BY <2>4, <3>1 DEF Store
    <3>4. QED BY <2>4, <3>1, <3>2, <3>3 DEF Store, States, Results
  <2>5. ASSUME NEW l \in Lookers, NEW i \in Ips, BeginLookup(l, i) PROVE TypeOK'
    BY <2>5 DEF BeginLookup, Begin, States
  <2>6. ASSUME NEW l \in Lookers, LookupLoad(l) PROVE TypeOK'
    BY <2>6 DEF LookupLoad, States
  <2>7. ASSUME NEW l \in Lookers, LookupDecode(l) PROVE TypeOK'
    <3>1. AnswerOf(loaded[l], ip[l]) \in Locations \union {None}
      BY <2>7, AnswerType DEF LookupDecode
    <3>2. served' \in Int
      BY <2>7, AgeType, NewestBounds DEF LookupDecode
    <3>3. QED BY <2>7, <3>1, <3>2 DEF LookupDecode, End, States
  <2>8. CASE UNCHANGED vars
    BY <2>8 DEF vars
  <2>9. QED
    BY <2>1, <2>2, <2>3, <2>4, <2>5, <2>6, <2>7, <2>8 DEF Next
<1>3. QED BY <1>1, <1>2, PTL DEF Spec

-----------------------------------------------------------------------------
\* A positive verdict is the gate of the README, up to the size at which the
\* saturated products stop telling sizes apart.
LEMMA VerdictOkIsGated ==
  ASSUME NEW c \in Loaded, NEW d \in Loaded \union {None}, Verdict(c, d) = "Ok"
  PROVE  Gated(c, d)
<1>1. CASE d = None
  BY <1>1 DEF Gated
<1>2. CASE d \in Loaded
  <2>1. NotOlder(c, d) /\ BigEnough(c, d)
    BY <1>2, LoadedFields DEF Verdict
  <2>2. c.len \in Nat /\ d.len \in Nat
    BY <1>2, LoadedFields
  <2>3. FourFifths(c, d)
    BY <2>1, <2>2 DEF BigEnough, SaturatingMul, FourFifths, SIZE_FLOOR_RATIO
  <2>4. QED BY <2>1, <2>3 DEF Gated, NotOlder
<1>3. QED BY <1>1, <1>2

\* Saturating products refuse only what is really smaller.
LEMMA RefusalIsJustified ==
  ASSUME NEW c \in Loaded, NEW d \in Loaded \union {None}, Verdict(c, d) # "Ok"
  PROVE  d # None /\ (c.build_epoch < d.build_epoch \/ c.len < d.len)
<1>1. d # None
  BY DEF Verdict
<1>2. ~NotOlder(c, d) \/ ~BigEnough(c, d)
  BY <1>1 DEF Verdict
<1>3. /\ c.build_epoch \in Nat /\ d.build_epoch \in Nat
      /\ c.len \in Nat /\ d.len \in Nat
  BY <1>1, LoadedFields
<1>4. CASE ~NotOlder(c, d)
  BY <1>1, <1>3, <1>4 DEF NotOlder
<1>5. CASE ~BigEnough(c, d)
  BY <1>1, <1>3, <1>5 DEF BigEnough, SaturatingMul, SIZE_FLOOR_RATIO
<1>6. QED BY <1>2, <1>4, <1>5

\* While a call is in flight its window holds every database that was in force
\* since it began: the present one, the one a lookup has loaded, and one that
\* justifies the verdict a reload is about to act on.
WindowInv ==
  /\ \A t \in Threads : pc[t] # "idle" => inner \in window[t]
  /\ \A l \in Lookers : pc[l] = "decode" => loaded[l] \in window[l]
  /\ \A r \in Reloaders : pc[r] = "store" =>
       \E d \in window[r] : Verdict(candidate[r], d) = "Ok"

\* WindowInv is inductive: a store, the only change of the cell, adds what it
\* installs to the window of every call in flight.
LEMMA WindowInvariant == Spec => []WindowInv
<1>1. Init => WindowInv
  BY DEF Init, WindowInv, Threads
<1>2. TypeOK /\ WindowInv /\ [Next]_vars => WindowInv'
  <2> SUFFICES ASSUME TypeOK, WindowInv, [Next]_vars PROVE WindowInv'
    OBVIOUS
  <2> USE DEF TypeOK, WindowInv, Threads, reloadVars, lookupVars, history
  <2>1. ASSUME NEW r \in Reloaders, ReloadFails(r) PROVE WindowInv'
    BY <2>1 DEF ReloadFails
  <2>2. ASSUME NEW r \in Reloaders, BuildCandidate(r) PROVE WindowInv'
    BY <2>2 DEF BuildCandidate, Begin
  <2>3. ASSUME NEW r \in Reloaders, LoadAndGate(r) PROVE WindowInv'
    <3>1. CASE /\ Verdict(candidate[r], inner) = "Ok"
               /\ pc' = [pc EXCEPT ![r] = "store"]
               /\ UNCHANGED <<candidate, result, window>>
      BY <2>3, <3>1 DEF LoadAndGate
    <3>2. CASE candidate' = [candidate EXCEPT ![r] = None] /\ End(r)
      BY <2>3, <3>2 DEF LoadAndGate, End
    <3>3. QED BY <2>3, <3>1, <3>2 DEF LoadAndGate
  <2>4. ASSUME NEW r \in Reloaders, Store(r) PROVE WindowInv'
    <3>1. \A t \in Threads : pc'[t] # "idle" =>
            /\ t # r /\ pc'[t] = pc[t]
            /\ window'[t] = window[t] \union {inner'}
      BY <2>4 DEF Store
    <3>2. \A r2 \in Reloaders : pc'[r2] = "store" => candidate'[r2] = candidate[r2]
      BY <2>4, <3>1 DEF Store
    <3>3. loaded' = loaded
      BY <2>4 DEF Store
    <3>4. \A t \in Threads : pc'[t] # "idle" => inner' \in window'[t]
      BY <3>1
    <3>5. \A l \in Lookers : pc'[l] = "decode" => loaded'[l] \in window'[l]
      BY <3>1, <3>3
    <3>6. \A r2 \in Reloaders : pc'[r2] = "store" =>
            \E d \in window'[r2] : Verdict(candidate'[r2], d) = "Ok"
      BY <3>1, <3>2
    <3>7. QED BY <3>4, <3>5, <3>6
  <2>5. ASSUME NEW l \in Lookers, NEW i \in Ips, BeginLookup(l, i) PROVE WindowInv'
    BY <2>5 DEF BeginLookup, Begin
  <2>6. ASSUME NEW l \in Lookers, LookupLoad(l) PROVE WindowInv'
    BY <2>6 DEF LookupLoad
  <2>7. ASSUME NEW l \in Lookers, LookupDecode(l) PROVE WindowInv'
    BY <2>7 DEF LookupDecode, End
  <2>8. CASE UNCHANGED vars
    BY <2>8 DEF vars
  <2>9. QED
    BY <2>1, <2>2, <2>3, <2>4, <2>5, <2>6, <2>7, <2>8 DEF Next
<1>3. QED BY <1>1, <1>2, TypeCorrect, PTL DEF Spec

\* The step of a thread at "decode" that returns is LookupDecode, and the step
\* of one at "store" that returns is Store: no other action ends these calls.
LEMMA ReturningStep ==
  ASSUME TypeOK, Next
  PROVE  /\ \A l \in Lookers : pc[l] = "decode" /\ pc'[l] = "idle" => LookupDecode(l)
         /\ \A r \in Reloaders : pc[r] = "store" /\ pc'[r] = "idle" => Store(r)
         /\ \A r \in Reloaders : pc[r] = "gate" /\ pc'[r] = "idle" => LoadAndGate(r)
<1> USE DEF TypeOK, Threads
<1>1. ASSUME NEW r \in Reloaders, BuildCandidate(r) \/ ReloadFails(r)
      PROVE  \A t \in Threads : pc[t] # "idle" => pc'[t] = pc[t]
  BY <1>1 DEF BuildCandidate, Begin, ReloadFails
<1>2. ASSUME NEW r \in Reloaders, LoadAndGate(r)
      PROVE  pc[r] = "gate" /\ \A t \in Threads \ {r} : pc'[t] = pc[t]
  BY <1>2 DEF LoadAndGate, End
<1>3. ASSUME NEW r \in Reloaders, Store(r)
      PROVE  pc[r] = "store" /\ \A t \in Threads \ {r} : pc'[t] = pc[t]
  BY <1>3 DEF Store
<1>4. ASSUME NEW l \in Lookers, NEW i \in Ips, BeginLookup(l, i)
      PROVE  pc[l] = "idle" /\ \A t \in Threads \ {l} : pc'[t] = pc[t]
  BY <1>4 DEF BeginLookup, Begin
<1>5. ASSUME NEW l \in Lookers, LookupLoad(l)
      PROVE  pc[l] = "load" /\ \A t \in Threads \ {l} : pc'[t] = pc[t]
  BY <1>5 DEF LookupLoad
<1>6. ASSUME NEW l \in Lookers, LookupDecode(l)
      PROVE  pc[l] = "decode" /\ \A t \in Threads \ {l} : pc'[t] = pc[t]
  BY <1>6 DEF LookupDecode, End
<1>7. ASSUME NEW l \in Lookers, pc[l] = "decode", pc'[l] = "idle"
      PROVE  LookupDecode(l)
  BY <1>1, <1>2, <1>3, <1>4, <1>5, <1>6, <1>7 DEF Next
<1>8. ASSUME NEW r \in Reloaders, pc[r] = "store", pc'[r] = "idle"
      PROVE  Store(r)
  <2>1. \A q \in Reloaders : ~BuildCandidate(q) /\ ~ReloadFails(q) /\ ~LoadAndGate(q)
    BY <1>1, <1>2, <1>8
  <2>2. \A l \in Lookers : /\ ~LookupLoad(l) /\ ~LookupDecode(l)
                           /\ \A i \in Ips : ~BeginLookup(l, i)
    BY <1>4, <1>5, <1>6, <1>8
  <2>3. \A q \in Reloaders : Store(q) => q = r
    BY <1>3, <1>8
  <2>4. QED BY <2>1, <2>2, <2>3 DEF Next
<1>9. ASSUME NEW r \in Reloaders, pc[r] = "gate", pc'[r] = "idle"
      PROVE  LoadAndGate(r)
  BY <1>1, <1>2, <1>3, <1>4, <1>5, <1>6, <1>9 DEF Next
<1>10. QED BY <1>7, <1>8, <1>9

\* Every lookup answers from one database that was in force during the call.
THEOREM AnswersAreCurrent == Spec => AnswerWasCurrent
<1> DEFINE Good == \A l \in Lookers : pc[l] = "decode" /\ pc'[l] = "idle" =>
                     answer'[l] \in {AnswerOf(d, ip[l]) : d \in window[l]}
<1>1. TypeOK /\ WindowInv /\ [Next]_vars => [Good]_vars
  <2> SUFFICES ASSUME TypeOK, WindowInv, Next,
                      NEW l \in Lookers, pc[l] = "decode", pc'[l] = "idle"
               PROVE  answer'[l] \in {AnswerOf(d, ip[l]) : d \in window[l]}
    OBVIOUS
  <2>1. LookupDecode(l)
    BY ReturningStep
  <2>2. answer'[l] = AnswerOf(loaded[l], ip[l])
    BY <2>1 DEF LookupDecode, TypeOK
  <2>3. loaded[l] \in window[l]
    BY DEF WindowInv
  <2>4. QED BY <2>2, <2>3
<1>2. QED
  BY <1>1, TypeCorrect, WindowInvariant, PTL DEF Spec, AnswerWasCurrent

\* Every database installed passed the gate against one that was in force
\* during the reload call that installed it.
THEOREM InstalledWereGated == Spec => InstallsWereGated
<1> DEFINE Good == \A r \in Reloaders : pc[r] = "store" /\ pc'[r] = "idle" =>
                     inner' # None /\ \E d \in window[r] : Gated(inner', d)
<1>1. TypeOK /\ WindowInv /\ [Next]_vars => [Good]_vars
  <2> SUFFICES ASSUME TypeOK, WindowInv, Next,
                      NEW r \in Reloaders, pc[r] = "store", pc'[r] = "idle"
               PROVE  inner' # None /\ \E d \in window[r] : Gated(inner', d)
    OBVIOUS
  <2>1. Store(r)
    BY ReturningStep
  <2>2. inner' = candidate[r] /\ candidate[r] \in Loaded
    BY <2>1 DEF Store, TypeOK
  <2>3. PICK d \in window[r] : Verdict(candidate[r], d) = "Ok"
    BY DEF WindowInv
  <2>4. d \in Loaded \union {None}
    BY DEF TypeOK, Threads
  <2>5. Gated(candidate[r], d)
    BY <2>2, <2>3, <2>4, VerdictOkIsGated
  <2>6. QED BY <2>2, <2>5, LoadedFields
<1>2. QED
  BY <1>1, TypeCorrect, WindowInvariant, PTL DEF Spec, InstallsWereGated

\* A reload that no other store overlaps is gated against what it replaces.
THEOREM UnracedAreGated == Spec => UnracedInstallsAreGated
<1> DEFINE Good == \A r \in Reloaders :
                     pc[r] = "store" /\ pc'[r] = "idle" /\ window[r] = {inner} =>
                       Gated(inner', inner)
<1>1. TypeOK /\ WindowInv /\ [Next]_vars => [Good]_vars
  <2> SUFFICES ASSUME TypeOK, WindowInv, Next, NEW r \in Reloaders,
                      pc[r] = "store", pc'[r] = "idle", window[r] = {inner}
               PROVE  Gated(inner', inner)
    OBVIOUS
  <2>1. Store(r)
    BY ReturningStep
  <2>2. inner' = candidate[r] /\ candidate[r] \in Loaded
    BY <2>1 DEF Store, TypeOK
  <2>3. Verdict(candidate[r], inner) = "Ok"
    BY DEF WindowInv
  <2>4. QED BY <2>2, <2>3, VerdictOkIsGated DEF TypeOK
<1>2. QED
  BY <1>1, TypeCorrect, WindowInvariant, PTL DEF Spec, UnracedInstallsAreGated

\* The gate refuses nothing that is neither older nor smaller.
THEOREM RefusalsAreJustified == Spec => NoSpuriousRefusal
<1> DEFINE Good == \A r \in Reloaders : pc[r] = "gate" /\ pc'[r] = "idle" =>
                     /\ inner # None
                     /\ \/ candidate[r].build_epoch < inner.build_epoch
                        \/ candidate[r].len < inner.len
<1>1. TypeOK /\ [Next]_vars => [Good]_vars
  <2> SUFFICES ASSUME TypeOK, Next,
                      NEW r \in Reloaders, pc[r] = "gate", pc'[r] = "idle"
               PROVE  /\ inner # None
                      /\ \/ candidate[r].build_epoch < inner.build_epoch
                         \/ candidate[r].len < inner.len
    OBVIOUS
  <2>1. LoadAndGate(r)
    BY ReturningStep
  <2>2. Verdict(candidate[r], inner) # "Ok"
    BY <2>1 DEF LoadAndGate, TypeOK, Threads
  <2>3. candidate[r] \in Loaded /\ inner \in Loaded \union {None}
    BY DEF TypeOK
  <2>4. QED BY <2>2, <2>3, RefusalIsJustified
<1>2. QED
  BY <1>1, TypeCorrect, PTL DEF Spec, NoSpuriousRefusal

-----------------------------------------------------------------------------
(* 2. One reloading thread, such as the timer the README suggests.         *)

Sole == \A r1, r2 \in Reloaders : r1 = r2

\* With nobody else storing, the verdict still stands when the thread acts on
\* it; ages only grow, and no call has seen an age beyond the one in force.
SoleInv ==
  /\ \A r \in Reloaders : pc[r] = "store" => Verdict(candidate[r], inner) = "Ok"
  /\ -1 <= served /\ served <= Age(inner)
  /\ \A l \in Lookers : mark[l] <= served
  /\ \A l \in Lookers : pc[l] = "decode" =>
       mark[l] <= Age(loaded[l]) /\ Age(loaded[l]) <= Age(inner)

\* A positive verdict makes the successor no older than what it replaces.
LEMMA VerdictOkIsNotOlder ==
  ASSUME NEW c \in Loaded, NEW d \in Loaded \union {None}, Verdict(c, d) = "Ok"
  PROVE  Age(d) <= Age(c)
<1>1. CASE d = None
  BY <1>1, LoadedFields DEF Age
<1>2. CASE d \in Loaded
  BY <1>2, LoadedFields DEF Verdict, NotOlder, Age
<1>3. QED BY <1>1, <1>2

\* SoleInv is inductive when no two threads reload.
LEMMA SoleInvariant == ASSUME Sole PROVE Spec => []SoleInv
<1>1. Init => SoleInv
  BY AgeType DEF Init, SoleInv, Threads
<1>2. TypeOK /\ SoleInv /\ [Next]_vars => SoleInv'
  <2> SUFFICES ASSUME TypeOK, SoleInv, [Next]_vars PROVE SoleInv'
    OBVIOUS
  <2> USE DEF TypeOK, SoleInv, Threads, reloadVars, lookupVars, history
  <2>0. /\ Age(inner) \in Int
        /\ \A l \in Lookers : mark[l] \in Int /\ Age(loaded[l]) \in Int
    BY AgeType
  <2>1. ASSUME NEW r \in Reloaders, ReloadFails(r) PROVE SoleInv'
    BY <2>1 DEF ReloadFails, Age
  <2>2. ASSUME NEW r \in Reloaders, BuildCandidate(r) PROVE SoleInv'
    BY <2>2 DEF BuildCandidate, Begin, Age
  <2>3. ASSUME NEW r \in Reloaders, LoadAndGate(r) PROVE SoleInv'
    <3>1. CASE /\ Verdict(candidate[r], inner) = "Ok"
               /\ pc' = [pc EXCEPT ![r] = "store"]
               /\ UNCHANGED <<candidate, result, window>>
      BY <2>3, <3>1 DEF LoadAndGate, Age
    <3>2. CASE candidate' = [candidate EXCEPT ![r] = None] /\ End(r)
      BY <2>3, <3>2 DEF LoadAndGate, End, Age
    <3>3. QED BY <2>3, <3>1, <3>2 DEF LoadAndGate
  <2>4. ASSUME NEW r \in Reloaders, Store(r) PROVE SoleInv'
    <3>1. candidate[r] \in Loaded /\ Verdict(candidate[r], inner) = "Ok"
      BY <2>4 DEF Store
    <3>2. /\ Age(inner) <= Age(candidate[r])
          /\ Age(candidate[r]) \in Int
      BY <3>1, VerdictOkIsNotOlder, AgeType
    <3>3. inner' = candidate[r] /\ Age(inner)' = Age(candidate[r])
      BY <2>4 DEF Store, Age
    <3>4. served' = Newest(served, Age(candidate[r]))
      BY <2>4 DEF Store
    <3>5. served <= served' /\ served' <= Age(inner)'
      BY <2>0, <3>2, <3>3, <3>4 DEF Newest
    <3>6. \A r2 \in Reloaders : pc'[r2] # "store"
      BY <2>4 DEF Store, Sole
    <3>7. /\ \A l \in Lookers : pc'[l] = pc[l]
          /\ loaded' = loaded /\ mark' = mark
      BY <2>4 DEF Store
    <3>8. \A l \in Lookers : Age(loaded[l])' = Age(loaded[l])
      BY <3>7 DEF Age
    <3>9. served' \in Int /\ Age(inner)' \in Int
      BY <2>0, <3>2, <3>3, <3>4 DEF Newest
    <3>10. QED BY <2>0, <3>2, <3>3, <3>5, <3>6, <3>7, <3>8, <3>9
  <2>5. ASSUME NEW l \in Lookers, NEW i \in Ips, BeginLookup(l, i) PROVE SoleInv'
    BY <2>0, <2>5 DEF BeginLookup, Begin, Age
  <2>6. ASSUME NEW l \in Lookers, LookupLoad(l) PROVE SoleInv'
    BY <2>0, <2>6 DEF LookupLoad, Age
  <2>7. ASSUME NEW l \in Lookers, LookupDecode(l) PROVE SoleInv'
    <3>1. pc[l] = "decode" /\ served' = Newest(served, Age(loaded[l]))
      BY <2>7 DEF LookupDecode
    <3>2. served' \in Int /\ served <= served' /\ served' <= Age(inner)
      BY <2>0, <3>1 DEF Newest
    <3>3. UNCHANGED <<inner, candidate>> /\ Age(inner)' = Age(inner)
      BY <2>7 DEF LookupDecode, Age
    <3>4. \A l2 \in Lookers : mark'[l2] \in {mark[l2], -1}
      BY <2>7 DEF LookupDecode
    <3>5. \A l2 \in Lookers : pc'[l2] = "decode" =>
            /\ pc[l2] = "decode" /\ mark'[l2] = mark[l2]
            /\ Age(loaded[l2])' = Age(loaded[l2])
      BY <2>7 DEF LookupDecode, End, Age
    <3>6. \A r \in Reloaders : pc'[r] = pc[r]
      BY <2>7 DEF LookupDecode, End
    <3>7. \A r \in Reloaders : pc'[r] = "store" => Verdict(candidate[r], inner)' = "Ok"
      BY <3>3, <3>6
    <3>8. -1 <= served' /\ served' <= Age(inner)'
      BY <2>0, <3>2, <3>3
    <3>9. \A l2 \in Lookers : mark'[l2] <= served'
      BY <2>0, <3>2, <3>4
    <3>10. \A l2 \in Lookers : pc'[l2] = "decode" =>
             mark'[l2] <= Age(loaded[l2])' /\ Age(loaded[l2])' <= Age(inner)'
      BY <3>3, <3>5
    <3>11. QED BY <3>7, <3>8, <3>9, <3>10
  <2>8. CASE UNCHANGED vars
    BY <2>8 DEF vars, Age
  <2>9. QED
    BY <2>1, <2>2, <2>3, <2>4, <2>5, <2>6, <2>7, <2>8 DEF Next
<1>3. QED BY <1>1, <1>2, TypeCorrect, PTL DEF Spec

\* With one reloading thread no lookup goes back in time: what it answers from
\* is no older than anything a finished call has answered from or installed.
THEOREM SoleNoStaleAnswer == ASSUME Sole PROVE Spec => []NoStaleAnswer
<1>1. TypeOK /\ SoleInv => NoStaleAnswer
  BY AgeType DEF TypeOK, SoleInv, NoStaleAnswer
<1>2. QED BY <1>1, TypeCorrect, SoleInvariant, PTL

\* Only a store changes the cell.
LEMMA OnlyStoreInstalls ==
  ASSUME Next, inner' # inner
  PROVE  \E r \in Reloaders : Store(r)
BY DEF Next, ReloadFails, BuildCandidate, LoadAndGate, BeginLookup, LookupLoad,
       LookupDecode

\* With one reloading thread the gate of the README holds of every install.
THEOREM SoleInstallsAreGated == ASSUME Sole PROVE Spec => InstallsAreGated
<1> DEFINE Good == inner' # inner => inner' # None /\ Gated(inner', inner)
<1>1. TypeOK /\ SoleInv /\ [Next]_vars => [Good]_vars
  <2> SUFFICES ASSUME TypeOK, SoleInv, Next, inner' # inner
               PROVE  inner' # None /\ Gated(inner', inner)
    OBVIOUS
  <2>1. PICK r \in Reloaders : Store(r)
    BY OnlyStoreInstalls
  <2>2. /\ inner' = candidate[r] /\ candidate[r] \in Loaded
        /\ Verdict(candidate[r], inner) = "Ok"
    BY <2>1 DEF Store, TypeOK, SoleInv
  <2>3. QED BY <2>2, LoadedFields, VerdictOkIsGated DEF TypeOK
<1>2. QED
  BY <1>1, TypeCorrect, SoleInvariant, PTL DEF Spec, InstallsAreGated
-----------------------------------------------------------------------------
(* Implementation of the atomic object.                                    *)

\* No content is so large that its product with 100 leaves a u64.
NoSaturation == \A b \in Valid : Length[b] * 100 <= U64Max

\* Below the saturation bound a positive verdict is the gate of GeoIpPromise.
LEMMA VerdictOkIsAdmissible ==
  ASSUME NoSaturation, NEW c \in Loaded, inner \in Loaded \union {None},
         Verdict(c, inner) = "Ok"
  PROVE  Promise!Admissible(c)
<1>1. CASE inner = None
  BY <1>1 DEF Promise!Admissible
<1>2. CASE inner \in Loaded
  <2>1. NotOlder(c, inner) /\ BigEnough(c, inner)
    BY <1>2, LoadedFields DEF Verdict
  <2>2. /\ c.len \in Nat /\ inner.len \in Nat
        /\ c.len * 100 <= U64Max /\ inner.len * 100 <= U64Max
    BY <1>2 DEF Loaded, Build, NoSaturation
  <2>3. c.len * 100 >= inner.len * 80
    BY <2>1, <2>2 DEF BigEnough, SaturatingMul, SIZE_FLOOR_RATIO
  <2>4. QED BY <2>1, <2>3 DEF Promise!Admissible, NotOlder
<1>3. QED BY <1>1, <1>2

\* A step that leaves the cell and the lookups alone is a stutter of the
\* atomic object.
LEMMA Stutter ==
  ASSUME UNCHANGED <<inner, loaded, ip>>, \A l \in Lookers : pc'[l] = pc[l]
  PROVE  UNCHANGED Promise!vars
BY DEF Promise!vars, AnswerOf

\* A reload is the atomic Reload at its store; a lookup is Ask, Respond and
\* Return at its three steps.
THEOREM ImplementsAtomically ==
  ASSUME Sole, NoSaturation PROVE Spec => ImplementsPromise
<1>1. Init => Promise!Init
  BY DEF Init, Promise!Init, Threads
<1>2. TypeOK /\ SoleInv /\ [Next]_vars => [Promise!Next]_(Promise!vars)
  <2> SUFFICES ASSUME TypeOK, SoleInv, [Next]_vars
               PROVE  Promise!Next \/ UNCHANGED Promise!vars
    OBVIOUS
  <2> USE DEF Threads
  <2>1. ASSUME NEW r \in Reloaders, ReloadFails(r) \/ BuildCandidate(r) \/ LoadAndGate(r)
        PROVE  UNCHANGED Promise!vars
    <3>1. UNCHANGED <<inner, loaded, ip>>
      BY <2>1 DEF ReloadFails, BuildCandidate, LoadAndGate, lookupVars
    <3>2. \A l \in Lookers : pc'[l] = pc[l]
      BY <2>1 DEF ReloadFails, BuildCandidate, LoadAndGate, Begin, End, TypeOK
    <3>3. QED BY <3>1, <3>2, Stutter
  <2>2. ASSUME NEW r \in Reloaders, Store(r) PROVE Promise!Next
    <3>1. candidate[r] \in Loaded /\ Verdict(candidate[r], inner) = "Ok"
      BY <2>2 DEF Store, TypeOK, SoleInv
    <3>2. Promise!Admissible(candidate[r])
      BY <3>1, VerdictOkIsAdmissible DEF TypeOK
    <3>3. inner' = candidate[r] /\ UNCHANGED <<loaded, ip>>
      BY <2>2 DEF Store, lookupVars
    <3>4. \A l \in Lookers : pc'[l] = pc[l]
      BY <2>2 DEF Store, TypeOK
    <3>5. Promise!Reload(candidate[r])
      BY <3>2, <3>3, <3>4 DEF Promise!Reload, AnswerOf
    <3>6. QED BY <3>1, <3>5 DEF Promise!Next
  <2>3. ASSUME NEW l \in Lookers, NEW i \in Ips, BeginLookup(l, i) PROVE Promise!Ask(l, i)
    BY <2>3 DEF BeginLookup, Begin, Promise!Ask, TypeOK, AnswerOf
  <2>4. ASSUME NEW l \in Lookers, LookupLoad(l) PROVE Promise!Respond(l)
    BY <2>4 DEF LookupLoad, Promise!Respond, Promise!Answer, TypeOK, AnswerOf
  <2>5. ASSUME NEW l \in Lookers, LookupDecode(l) PROVE Promise!Return(l)
    BY <2>5 DEF LookupDecode, End, Promise!Return, TypeOK, AnswerOf
  <2>6. CASE UNCHANGED vars
    BY <2>6, Stutter DEF vars
  <2>7. QED
    BY <2>1, <2>2, <2>3, <2>4, <2>5, <2>6 DEF Next, Promise!Next
<1>3. QED
  BY <1>1, <1>2, TypeCorrect, SoleInvariant, PTL DEF Spec, ImplementsPromise, Promise!Spec
=============================================================================
