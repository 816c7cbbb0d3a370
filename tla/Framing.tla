------------------------------- MODULE Framing ------------------------------
(***************************************************************************)
(* src/hash/mod.rs, frame: the concatenation that is hashed.  Every part   *)
(* is preceded by its length in a fixed number of bytes.                   *)
(***************************************************************************)
EXTENDS Integers, Sequences

CONSTANTS
  LenBytes,  \* bytes of an encoded length, 8 in the code
  LenCode    \* LenCode[n]: u64::to_le_bytes of the length n

\* Little-endian bytes of a fixed number, different for different lengths.
ASSUME LenAssumption ==
  /\ LenBytes \in Nat
  /\ DOMAIN LenCode \subseteq Nat
  /\ \A n \in DOMAIN LenCode : LenCode[n] \in Seq(Nat) /\ Len(LenCode[n]) = LenBytes
  /\ \A m, n \in DOMAIN LenCode : LenCode[m] = LenCode[n] => m = n

\* A byte sequence whose length has an encoding, as that of every slice has.
Framable(s) == s \in Seq(Nat) /\ Len(s) \in DOMAIN LenCode

(* Operators named Mutant... are plausible bugs; no definition uses them.   *)

\* Plain concatenation.
MutantNoLength(p) == p

Part(p) == LenCode[Len(p)] \o p

\* The only call of frame passes four parts.
frame(entity, octets, ua, salt) ==
  Part(entity) \o Part(octets) \o Part(ua) \o Part(salt)
=============================================================================
