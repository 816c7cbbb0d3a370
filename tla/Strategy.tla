------------------------------ MODULE Strategy ------------------------------
(***************************************************************************)
(* src/strategy.rs: SaltedHasher and MaskedHashedStrategy, called by the   *)
(* threads that process events while the salt may be replaced.             *)
(*                                                                         *)
(* A call takes the salt out of its provider in one step, and masks,       *)
(* frames and hashes on its own.  The hash and its base62 form (module     *)
(* Base62) are taken to be injective, so an id is the frame it is made of. *)
(***************************************************************************)
EXTENDS Salt, IpMask, Framing

CONSTANTS
  Callers,   \* threads that ask for visitor ids
  MaskModes, \* "Full" for SaltedHasher, the field mask otherwise
  RawEvents  \* the fields compute reads: ip, entity_id, user_agent

\* unwrap_or("").
OrEmpty(s) == IF s = None THEN <<>> ELSE s

ASSUME StrategyAssumption ==
  /\ MaskModes \subseteq Modes
  /\ {V4Bytes, V6Bytes} \subseteq DOMAIN LenCode
  /\ \A s \in Salts : Framable(s)
  /\ \A r \in RawEvents : /\ r.ip \in IpAddr \union {None}
                         /\ Framable(OrEmpty(r.entity_id))
                         /\ Framable(OrEmpty(r.user_agent))

VARIABLES
  mode,        \* the mask of the strategy, fixed when it is built
  pc,          \* pc[t]: where the call of thread t stands
  raw,         \* raw[t]: its argument
  salt,        \* salt[t]: the local of compute
  visitor_id,  \* visitor_id[t]: what it returned
  window       \* auxiliary: salts in force at some time of the call of t

callVars == <<pc, raw, salt, visitor_id, window>>
vars == <<saltVars, mode, callVars>>

Init ==
  /\ SaltInit
  /\ mode \in MaskModes
  /\ pc = [t \in Callers |-> "idle"]
  /\ raw = [t \in Callers |-> None]
  /\ salt = [t \in Callers |-> None]
  /\ visitor_id = [t \in Callers |-> None]
  /\ window = [t \in Callers |-> {}]

BuildSalt ==
  /\ \E p \in Providers, s \in Salts : new(p, s) \/ try_new(p, s)
  /\ UNCHANGED <<mode, callVars>>

RotateSalt ==
  /\ \E s \in Salts :
       /\ set(s)
       /\ window' = [t \in Callers |-> IF pc[t] \in {"called", "salted"}
                                       THEN window[t] \union {s} ELSE window[t]]
  /\ UNCHANGED <<mode, pc, raw, salt, visitor_id>>

\* visitor_id and the call of compute.
Call(t, r) ==
  /\ provider # None
  /\ pc[t] \in {"idle", "done"}
  /\ pc' = [pc EXCEPT ![t] = "called"]
  /\ raw' = [raw EXCEPT ![t] = r]
  /\ visitor_id' = [visitor_id EXCEPT ![t] = None]
  /\ window' = [window EXCEPT ![t] = {cell}]
  /\ UNCHANGED <<saltVars, mode, salt>>

\* let ip = raw.ip?
NoIp(t) ==
  /\ pc[t] = "called" /\ raw[t].ip = None
  /\ pc' = [pc EXCEPT ![t] = "done"]
  /\ UNCHANGED <<saltVars, mode, raw, salt, visitor_id, window>>

(* Operators named Mutant... are plausible bugs; no action uses them.      *)

\* The salt never reaches the frame.
MutantUnsalted(t) ==
  /\ pc[t] = "called" /\ raw[t].ip # None
  /\ salt' = [salt EXCEPT ![t] = <<>>]
  /\ pc' = [pc EXCEPT ![t] = "salted"]
  /\ UNCHANGED <<saltVars, mode, raw, visitor_id, window>>

\* current_salt.
LoadSalt(t) ==
  /\ pc[t] = "called" /\ raw[t].ip # None
  /\ salt' = [salt EXCEPT ![t] = cell]
  /\ pc' = [pc EXCEPT ![t] = "salted"]
  /\ UNCHANGED <<saltVars, mode, raw, visitor_id, window>>

Id(r, s) == frame(OrEmpty(r.entity_id), ip_octets(mask_ip(r.ip, mode)),
                  OrEmpty(r.user_agent), s)

Hash(t) ==
  /\ pc[t] = "salted"
  /\ visitor_id' = [visitor_id EXCEPT ![t] = Id(raw[t], salt[t])]
  /\ salt' = [salt EXCEPT ![t] = None]
  /\ pc' = [pc EXCEPT ![t] = "done"]
  /\ UNCHANGED <<saltVars, mode, raw, window>>

Next ==
  \/ BuildSalt
  \/ RotateSalt
  \/ \E t \in Callers :
       (\E r \in RawEvents : Call(t, r)) \/ NoIp(t) \/ LoadSalt(t) \/ Hash(t)

Spec == Init /\ [][Next]_vars

-----------------------------------------------------------------------------
(* Properties.                                                             *)

TypeOK ==
  /\ SaltTypeOK
  /\ mode \in Modes
  /\ pc \in [Callers -> {"idle", "called", "salted", "done"}]
  /\ raw \in [Callers -> RawEvents \union {None}]
  /\ \A t \in Callers : pc[t] # "idle" => provider # None /\ raw[t] \in RawEvents
  /\ salt \in [Callers -> Salts \union {None}]
  /\ \A t \in Callers : pc[t] = "salted" <=> salt[t] \in Salts
  /\ DOMAIN visitor_id = Callers
  /\ \A t \in Callers : pc[t] # "done" => visitor_id[t] = None
  /\ window \in [Callers -> SUBSET Salts]

\* Reference for the masks of src/ip.rs: an address is the set of its one bits
\* in the IPv6 form, and a site is what is left of it beyond the prefix.
Bits(ip) ==
  LET n == IF ip.family = "V4" THEN MappedHigh * Pow2[V4Bits] + ip.bits ELSE ip.bits
  IN  {k \in 0 .. V6Bits - 1 : (n \div Pow2[k]) % 2 = 1}
Mapped(ip) ==
  {k \in Bits(ip) : k >= V4Bits} = Bits([family |-> "V4", bits |-> 0])
Site(ip) ==
  LET host == IF Mapped(ip) THEN V4Bits - Prefixes[mode].v4
                            ELSE V6Bits - Prefixes[mode].v6
  IN  <<Mapped(ip), {k \in Bits(ip) : k >= host}>>

\* The tuple of the strategy's doc comment, and the entity.
SameVisitor(q, r) ==
  /\ Site(q.ip) = Site(r.ip)
  /\ OrEmpty(q.user_agent) = OrEmpty(r.user_agent)
  /\ OrEmpty(q.entity_id) = OrEmpty(r.entity_id)

Identified(t) == pc[t] = "done" /\ raw[t].ip # None

\* Equal ids stand for one visitor: calls for different sites, user agents or
\* entities, or on two sides of a rotation, never return the same id.
SameIdSameVisitor ==
  \A t, u \in Callers :
    Identified(t) /\ Identified(u) /\ visitor_id[t] = visitor_id[u] =>
      SameVisitor(raw[t], raw[u]) /\ window[t] \intersect window[u] # {}

\* One visitor has one id while no rotation overlaps the calls, whatever the
\* bits below the prefix and whether an address came as IPv4 or IPv4-mapped.
StableId ==
  \A t, u \in Callers :
    /\ Identified(t) /\ Identified(u) /\ SameVisitor(raw[t], raw[u])
    /\ window[t] = window[u] /\ \E s \in Salts : window[t] = {s}
    => visitor_id[t] = visitor_id[u]

\* An id is made with one salt that was in force during the call: a call that
\* begins after set returned never uses the salt it replaced.
IdFromCurrentSalt ==
  \A t \in Callers : Identified(t) => \E s \in window[t] : visitor_id[t] = Id(raw[t], s)

\* src/hash/mod.rs, SaltProvider: implementations MUST return a secret of at
\* least MIN_SALT_LEN bytes.  Stated only of providers built by try_new, the
\* constructor that enforces it.
CheckedSaltStaysSecret ==
  \A t \in Callers : checked /\ pc[t] = "salted" => LongEnough(salt[t])
=============================================================================
