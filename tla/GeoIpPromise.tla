---------------------------- MODULE GeoIpPromise ----------------------------
(***************************************************************************)
(* What the documentation promises of the hot-reloadable GeoIP database,   *)
(* as an atomic object.  README.md, section GeoIP: a reload is integrity-  *)
(* gated against the CURRENT database (no older build_epoch, at least 80%  *)
(* of its size) and a refused one leaves the existing database in place.   *)
(* src/processor.rs, Processor::geoip: it may be reloaded through a shared *)
(* Arc while events are being processed.                                   *)
(*                                                                         *)
(* A reload replaces db in one step and a lookup is answered in one step.  *)
(* Sizes are compared as natural numbers: no word width, no saturation.    *)
(* Module GeoIpDb, which takes the steps the code takes, is related to     *)
(* this module by a refinement mapping.                                    *)
(***************************************************************************)
EXTENDS Integers

CONSTANTS
  Lookers,   \* threads that call lookup
  Ips,       \* addresses they ask about
  Dbs,       \* databases: records with the fields reader, build_epoch, len
  Locate,    \* Locate[reader][ip]: what the records of a database say
  None       \* Option::None

VARIABLES
  db,        \* the database in force, or None
  phase,     \* phase[l]: where the lookup call of thread l stands
  query,     \* query[l]: the address it asks about
  reply      \* reply[l]: the answer it is about to return

vars == <<db, phase, query, reply>>

Answer(d, ip) == IF d = None THEN None ELSE Locate[d.reader][ip]

Init ==
  /\ db \in Dbs \union {None}
  /\ phase = [l \in Lookers |-> "idle"]
  /\ query = [l \in Lookers |-> None]
  /\ reply = [l \in Lookers |-> None]

\* The gate: whatever is in force, its successor is no older and no smaller
\* than four fifths of it.
Admissible(c) ==
  \/ db = None
  \/ /\ db # None
     /\ c.build_epoch >= db.build_epoch
     /\ c.len * 100 >= db.len * 80

Reload(c) ==
  /\ Admissible(c)
  /\ db' = c
  /\ UNCHANGED <<phase, query, reply>>

Ask(l, ip) ==
  /\ phase[l] = "idle"
  /\ phase' = [phase EXCEPT ![l] = "asked"]
  /\ query' = [query EXCEPT ![l] = ip]
  /\ UNCHANGED <<db, reply>>

\* The answer is what the database in force says at this very moment.
Respond(l) ==
  /\ phase[l] = "asked"
  /\ phase' = [phase EXCEPT ![l] = "answered"]
  /\ reply' = [reply EXCEPT ![l] = Answer(db, query[l])]
  /\ UNCHANGED <<db, query>>

Return(l) ==
  /\ phase[l] = "answered"
  /\ phase' = [phase EXCEPT ![l] = "idle"]
  /\ query' = [query EXCEPT ![l] = None]
  /\ reply' = [reply EXCEPT ![l] = None]
  /\ UNCHANGED db

Next ==
  \/ \E c \in Dbs : Reload(c)
  \/ \E l \in Lookers :
       \/ \E ip \in Ips : Ask(l, ip)
       \/ Respond(l)
       \/ Return(l)

Spec == Init /\ [][Next]_vars
=============================================================================
