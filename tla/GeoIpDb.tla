------------------------------- MODULE GeoIpDb ------------------------------
(***************************************************************************)
(* src/geoip.rs: a MaxMind database behind an ArcSwapOption, looked up by  *)
(* the threads that process events and replaced in place by whoever calls  *)
(* reload_from_path or reload_from_bytes.                                  *)
(*                                                                         *)
(* The grain of atomicity is the access to the shared cell inner: one      *)
(* load_full or one store per action.  What a thread does between two      *)
(* accesses (reading the file, Reader::from_source, comparing epochs and   *)
(* sizes, walking the search tree) touches nothing shared and belongs to   *)
(* the action before or after it.                                          *)
(*                                                                         *)
(* A byte vector is a member of Bytes; Valid are those Reader::from_source *)
(* accepts, Epoch and Length their metadata.build_epoch and len(), and     *)
(* Locate[b][ip] the Location decoded for ip, None when the address is     *)
(* absent or its record does not decode.                                   *)
(***************************************************************************)
EXTENDS Integers

CONSTANTS
  Reloaders,  \* threads that call reload_from_path or reload_from_bytes
  Lookers,    \* threads that call lookup
  Bytes,      \* file contents a reload may be handed
  Valid,      \* those that decode
  Epoch,      \* Epoch[b]: build_epoch of a valid content
  Length,     \* Length[b]: its size in bytes
  Ips,        \* addresses looked up
  Locations,  \* values of type Location
  Locate,     \* Locate[b][ip]: the answer of database b
  U64Max,     \* u64::MAX, where saturating_mul saturates
  None        \* Option::None

SIZE_FLOOR_RATIO == 80

\* Loaded { reader, build_epoch, len }: a decoded database.
Build(b) == [reader |-> b, build_epoch |-> Epoch[b], len |-> Length[b]]
Loaded == {Build(b) : b \in Valid}

ASSUME ConstAssumption ==
  /\ Valid \subseteq Bytes
  /\ Epoch \in [Valid -> Nat]
  /\ Length \in [Valid -> Nat]
  /\ Locate \in [Valid -> [Ips -> Locations \union {None}]]
  /\ U64Max \in Nat
  /\ None \notin Loaded
  /\ Reloaders \intersect Lookers = {}

VARIABLES
  inner,      \* GeoIpDb.inner: the database in force, or None
  pc,         \* pc[t]: where the call of thread t stands
  candidate,  \* candidate[r]: the local of reload_from_bytes
  result,     \* result[r]: what the last reload of r returned
  loaded,     \* loaded[l]: the local of lookup
  ip,         \* ip[l]: its argument
  answer,     \* answer[l]: what the last lookup of l returned
  \* Auxiliary: history the code does not keep, read by no guard.
  served,     \* newest epoch a completed call has installed or answered from
  mark,       \* mark[l]: served when the lookup of l began
  window      \* window[t]: databases in force at some time of the call of t

reloadVars == <<candidate, result>>
lookupVars == <<loaded, ip, answer>>
history == <<served, mark, window>>
vars == <<inner, pc, candidate, result, loaded, ip, answer, served, mark, window>>

Threads == Reloaders \union Lookers
Results == {"Ok", "Io", "Decode", "Older", "TooSmall"}
States == {"idle", "gate", "store", "load", "decode"}

\* Age of a database for the history variables; an empty cell is oldest.
Age(d) == IF d = None THEN -1 ELSE d.build_epoch
Newest(a, b) == IF a >= b THEN a ELSE b

AnswerOf(d, i) == IF d = None THEN None ELSE Locate[d.reader][i]

-----------------------------------------------------------------------------
(* GeoIpDb::empty, or a GeoIpDb::from_path that returned Ok.               *)
Init ==
  /\ inner \in Loaded \union {None}
  /\ pc = [t \in Threads |-> "idle"]
  /\ candidate = [r \in Reloaders |-> None]
  /\ result = [r \in Reloaders |-> None]
  /\ loaded = [l \in Lookers |-> None]
  /\ ip = [l \in Lookers |-> None]
  /\ answer = [l \in Lookers |-> None]
  /\ served = Age(inner)
  /\ mark = [l \in Lookers |-> -1]
  /\ window = [t \in Threads |-> {}]

\* Bookkeeping of a call of t that begins, and of one that returns.
Begin(t, at) ==
  /\ pc' = [pc EXCEPT ![t] = at]
  /\ window' = [window EXCEPT ![t] = {inner}]

End(t) ==
  /\ pc' = [pc EXCEPT ![t] = "idle"]
  /\ window' = [window EXCEPT ![t] = {}]

-----------------------------------------------------------------------------
(* reload_from_path and reload_from_bytes.                                 *)

(* Operators named Mutant... are plausible bugs; no action uses them.      *)

MutantWrappingMul(a, b) == (a * b) % (U64Max + 1)

\* a.saturating_mul(b) on u64.
SaturatingMul(a, b) == IF a * b > U64Max THEN U64Max ELSE a * b

MutantAnyEpoch(cand, cur) == TRUE

NotOlder(cand, cur) == cand.build_epoch >= cur.build_epoch

MutantRatioSwapped(cand, cur) ==
  SaturatingMul(cur.len, 100) >= SaturatingMul(cand.len, SIZE_FLOOR_RATIO)

BigEnough(cand, cur) ==
  SaturatingMul(cand.len, 100) >= SaturatingMul(cur.len, SIZE_FLOOR_RATIO)

\* What the gate says of a candidate, epoch before size; an empty cell takes
\* anything.
Verdict(cand, cur) ==
  CASE cur = None -> "Ok"
    [] cur # None /\ ~NotOlder(cand, cur) -> "Older"
    [] cur # None /\ NotOlder(cand, cur) /\ ~BigEnough(cand, cur) -> "TooSmall"
    [] OTHER -> "Ok"

\* std::fs::read and Self::build: either may fail and end the call.
ReloadFails(r) ==
  /\ pc[r] = "idle"
  /\ \/ result' = [result EXCEPT ![r] = "Io"]
     \/ \E b \in Bytes \ Valid : result' = [result EXCEPT ![r] = "Decode"]
  /\ UNCHANGED <<inner, pc, candidate, lookupVars, history>>

BuildCandidate(r) ==
  /\ pc[r] = "idle"
  /\ \E b \in Valid : candidate' = [candidate EXCEPT ![r] = Build(b)]
  /\ Begin(r, "gate")
  /\ UNCHANGED <<inner, result, lookupVars, served, mark>>

\* The Err(Rejected) of the gate does not return: control reaches the store.
MutantNoReturn(r) ==
  /\ pc[r] = "gate"
  /\ LET verdict == Verdict(candidate[r], inner) IN
       /\ candidate' = [candidate EXCEPT ![r] = IF verdict = "Ok" THEN @ ELSE None]
       /\ result' = [result EXCEPT ![r] = IF verdict = "Ok" THEN @ ELSE verdict]
  /\ pc' = [pc EXCEPT ![r] = "store"]
  /\ UNCHANGED <<inner, lookupVars, history>>

\* self.inner.load_full() and the comparisons with what it returned.  The
\* verdict is acted on later: the cell may change before the store.
LoadAndGate(r) ==
  /\ pc[r] = "gate"
  /\ LET verdict == Verdict(candidate[r], inner) IN
       \/ /\ verdict = "Ok"
          /\ pc' = [pc EXCEPT ![r] = "store"]
          /\ UNCHANGED <<candidate, result, window>>
       \/ /\ verdict # "Ok"
          /\ candidate' = [candidate EXCEPT ![r] = None]
          /\ result' = [result EXCEPT ![r] = verdict]
          /\ End(r)
  /\ UNCHANGED <<inner, lookupVars, served, mark>>

\* self.inner.store(Some(..)) and Ok(()): unconditional.
Store(r) ==
  /\ pc[r] = "store"
  /\ inner' = candidate[r]
  /\ candidate' = [candidate EXCEPT ![r] = None]
  /\ result' = [result EXCEPT ![r] = "Ok"]
  /\ served' = Newest(served, Age(candidate[r]))
  /\ pc' = [pc EXCEPT ![r] = "idle"]
  /\ window' = [t \in Threads |->
                  IF t = r \/ pc[t] = "idle" THEN {}
                  ELSE window[t] \union {candidate[r]}]
  /\ UNCHANGED <<lookupVars, mark>>

-----------------------------------------------------------------------------
(* lookup.                                                                 *)

BeginLookup(l, i) ==
  /\ pc[l] = "idle"
  /\ ip' = [ip EXCEPT ![l] = i]
  /\ answer' = [answer EXCEPT ![l] = None]
  /\ mark' = [mark EXCEPT ![l] = served]
  /\ Begin(l, "load")
  /\ UNCHANGED <<inner, reloadVars, loaded, served>>

\* A read lock in place of the ArcSwap: waits for a writer.
MutantReadLock(l) ==
  /\ pc[l] = "load"
  /\ \A r \in Reloaders : pc[r] # "store"
  /\ loaded' = [loaded EXCEPT ![l] = inner]
  /\ pc' = [pc EXCEPT ![l] = "decode"]
  /\ UNCHANGED <<inner, reloadVars, ip, answer, history>>

\* A try_read in place of the ArcSwap: nothing loaded while a writer waits.
MutantTryLock(l) ==
  /\ pc[l] = "load"
  /\ loaded' = [loaded EXCEPT ![l] =
                  IF \E r \in Reloaders : pc[r] = "store" THEN None ELSE inner]
  /\ pc' = [pc EXCEPT ![l] = "decode"]
  /\ UNCHANGED <<inner, reloadVars, ip, answer, history>>

LookupLoad(l) ==
  /\ pc[l] = "load"
  /\ loaded' = [loaded EXCEPT ![l] = inner]
  /\ pc' = [pc EXCEPT ![l] = "decode"]
  /\ UNCHANGED <<inner, reloadVars, ip, answer, history>>

\* The ? of load_full, reader.lookup and decode: None at the first that fails.
LookupDecode(l) ==
  /\ pc[l] = "decode"
  /\ answer' = [answer EXCEPT ![l] = AnswerOf(loaded[l], ip[l])]
  /\ loaded' = [loaded EXCEPT ![l] = None]
  /\ ip' = [ip EXCEPT ![l] = None]
  /\ served' = Newest(served, Age(loaded[l]))
  /\ mark' = [mark EXCEPT ![l] = -1]
  /\ End(l)
  /\ UNCHANGED <<inner, reloadVars>>

Next ==
  \/ \E r \in Reloaders :
       ReloadFails(r) \/ BuildCandidate(r) \/ LoadAndGate(r) \/ Store(r)
  \/ \E l \in Lookers :
       (\E i \in Ips : BeginLookup(l, i)) \/ LookupLoad(l) \/ LookupDecode(l)

Spec == Init /\ [][Next]_vars

-----------------------------------------------------------------------------
(* Properties.                                                             *)

\* Every variable has its type; a call in flight has the locals the code has
\* at that point of reload_from_bytes or lookup, and a history window.
TypeOK ==
  /\ inner \in Loaded \union {None}
  /\ pc \in [Threads -> States]
  /\ \A r \in Reloaders : pc[r] \in {"idle", "gate", "store"}
  /\ \A l \in Lookers : pc[l] \in {"idle", "load", "decode"}
  /\ candidate \in [Reloaders -> Loaded \union {None}]
  /\ \A r \in Reloaders : pc[r] # "idle" => candidate[r] \in Loaded
  /\ result \in [Reloaders -> Results \union {None}]
  /\ loaded \in [Lookers -> Loaded \union {None}]
  /\ ip \in [Lookers -> Ips \union {None}]
  /\ \A l \in Lookers : pc[l] # "idle" => ip[l] \in Ips
  /\ answer \in [Lookers -> Locations \union {None}]
  /\ served \in Int
  /\ mark \in [Lookers -> Int]
  /\ window \in [Threads -> SUBSET (Loaded \union {None})]

\* Four fifths of the size of cur, computed without a word width.  The code
\* compares saturated products: beyond U64Max \div 100 bytes it accepts more.
FourFifths(cand, cur) ==
  \/ cand.len * 100 >= cur.len * 80
  \/ cand.len * 100 >= U64Max

Gated(cand, cur) ==
  \/ cur = None
  \/ cand.build_epoch >= cur.build_epoch /\ FourFifths(cand, cur)

\* README.md, GeoIP: the candidate's build_epoch must be >= the current one
\* and its size at least 80% of the current.  "Current" is read here as what
\* the installed database replaces.
InstallsAreGated ==
  [][inner' # inner => inner' # None /\ Gated(inner', inner)]_vars

\* However many threads reload at once, a database that reload_from_bytes
\* installs passed the gate against one that was in force at some moment of
\* that same call, and an installed cell never becomes empty again.
InstallsWereGated ==
  [][\A r \in Reloaders : pc[r] = "store" /\ pc'[r] = "idle" =>
       inner' # None /\ \E d \in window[r] : Gated(inner', d)]_vars

\* A reload during which no other reload changed the cell is gated against
\* exactly what it replaces: the check-then-store of reload_from_bytes is only
\* as good as the absence of an overlapping store.
UnracedInstallsAreGated ==
  [][\A r \in Reloaders : pc[r] = "store" /\ pc'[r] = "idle" /\ window[r] = {inner} =>
       Gated(inner', inner)]_vars

\* The gate of reload_from_bytes refuses a candidate only when it is older or
\* smaller than the database in force: in particular the products it compares
\* never wrap around.
NoSpuriousRefusal ==
  [][\A r \in Reloaders : pc[r] = "gate" /\ pc'[r] = "idle" =>
       /\ inner # None
       /\ \/ candidate[r].build_epoch < inner.build_epoch
          \/ candidate[r].len < inner.len]_vars

\* A lookup answers with what one single database says that was in force at
\* some moment between its call and its return: never a mixture of two, never
\* None because a reload is under way.
AnswerWasCurrent ==
  [][\A l \in Lookers : pc[l] = "decode" /\ pc'[l] = "idle" =>
       answer'[l] \in {AnswerOf(d, ip[l]) : d \in window[l]}]_vars

\* Real-time order: a lookup does not answer from a database older than one
\* that a lookup already finished has answered from, or that a reload already
\* finished has installed.
NoStaleAnswer ==
  \A l \in Lookers : pc[l] = "decode" => Age(loaded[l]) >= mark[l]

\* The steps of a call that has begun.
CallStep(t) ==
  \/ t \in Reloaders /\ (LoadAndGate(t) \/ Store(t))
  \/ t \in Lookers /\ (LookupLoad(t) \/ LookupDecode(t))

\* src/processor.rs, Processor::geoip: "Reload is &self and lock-free".  A call
\* of a thread that keeps running returns, wherever all the others have stopped.
WaitFree ==
  \A t \in Threads :
    WF_vars(CallStep(t)) => ((pc[t] # "idle") ~> (pc[t] = "idle"))

\* Reload and lookup behave as the atomic operations of GeoIpPromise: a reload
\* takes effect at its store, a lookup is answered at its load.
Promise == INSTANCE GeoIpPromise WITH
  Dbs <- Loaded,
  db <- inner,
  phase <- [l \in Lookers |-> CASE pc[l] = "load" -> "asked"
                                [] pc[l] = "decode" -> "answered"
                                [] OTHER -> "idle"],
  query <- ip,
  reply <- [l \in Lookers |-> IF pc[l] = "decode" THEN AnswerOf(loaded[l], ip[l])
                                                 ELSE None]

ImplementsPromise == Promise!Spec
=============================================================================
