------------------------------- MODULE Base62 -------------------------------
(***************************************************************************)
(* src/hash/mod.rs, base62: the digest of a visitor id, read as a big-     *)
(* endian integer, is divided by 62 in place again and again; each         *)
(* remainder is a digit, and leading bytes that have become zero are       *)
(* skipped.  One action is one turn of the inner loop over the bytes or    *)
(* one turn of the outer loop around it.                                   *)
(*                                                                         *)
(* Bytes are numbered from 0 as in the code.  A digit is its index in      *)
(* ALPHABET, an injective table.  The digest has N bytes (32 in the code). *)
(***************************************************************************)
EXTENDS Integers, Sequences

CONSTANTS
  N,        \* bytes of a digest
  Digests   \* digests that are encoded

Byte == 0 .. 255
Digit == 0 .. 61

ASSUME DigestAssumption ==
  /\ N \in Nat \ {0}
  /\ Digests \subseteq [0 .. N - 1 -> Byte]

VARIABLES
  pc,      \* "outer", "inner": at the head of that loop; "done": returned
  digest,  \* the argument
  bytes,   \* the working copy
  out,     \* digits found, least significant first until the final reverse
  start,   \* index of the first byte still divided
  i,       \* index of the inner loop
  rem      \* remainder carried along the inner loop

vars == <<pc, digest, bytes, out, start, i, rem>>

Init ==
  /\ pc = "outer"
  /\ digest \in Digests
  /\ bytes = digest
  /\ out = <<>>
  /\ start = 0
  /\ i = 0
  /\ rem = 0

\* while start < bytes.len() { let mut rem = 0; ...
BeginPass ==
  /\ pc = "outer" /\ start < N
  /\ pc' = "inner"
  /\ i' = start
  /\ rem' = 0
  /\ UNCHANGED <<digest, bytes, out, start>>

\* let acc = (rem << 8) | b: the operands share no bit.
Acc == rem * 256 + bytes[i]

(* Operators named Mutant... are plausible bugs; no action uses them.      *)

\* A mask where the remainder is meant.
MutantMaskedRemainder ==
  /\ pc = "inner" /\ i < N
  /\ bytes' = [bytes EXCEPT ![i] = (Acc \div 62) % 256]
  /\ rem' = Acc % 64
  /\ i' = i + 1
  /\ UNCHANGED <<pc, digest, out, start>>

\* The remainder is not carried to the next byte.
MutantCarryDropped ==
  /\ pc = "inner" /\ i < N
  /\ bytes' = [bytes EXCEPT ![i] = (Acc \div 62) % 256]
  /\ rem' = bytes[i] % 62
  /\ i' = i + 1
  /\ UNCHANGED <<pc, digest, out, start>>

\* *b = (acc / 62) as u8 truncates to a byte.
DivideByte ==
  /\ pc = "inner" /\ i < N
  /\ bytes' = [bytes EXCEPT ![i] = (Acc \div 62) % 256]
  /\ rem' = Acc % 62
  /\ i' = i + 1
  /\ UNCHANGED <<pc, digest, out, start>>

\* A leading byte that became zero is skipped without its digit.
MutantDigitLost ==
  /\ pc = "inner" /\ i = N
  /\ pc' = "outer"
  /\ IF bytes[start] = 0 THEN start' = start + 1 /\ out' = out
                         ELSE start' = start /\ out' = Append(out, rem)
  /\ UNCHANGED <<digest, bytes, i, rem>>

\* A zero remainder continues the outer loop before anything is done.
MutantContinueOnZero ==
  /\ pc = "inner" /\ i = N
  /\ pc' = "outer"
  /\ IF rem = 0 THEN UNCHANGED <<out, start>>
     ELSE /\ out' = Append(out, rem)
          /\ start' = IF bytes[start] = 0 THEN start + 1 ELSE start
  /\ UNCHANGED <<digest, bytes, i, rem>>

EndPass ==
  /\ pc = "inner" /\ i = N
  /\ pc' = "outer"
  /\ out' = Append(out, rem)
  /\ start' = IF bytes[start] = 0 THEN start + 1 ELSE start
  /\ UNCHANGED <<digest, bytes, i, rem>>

\* out.reverse() and return.
Finish ==
  /\ pc = "outer" /\ start = N
  /\ pc' = "done"
  /\ out' = [k \in DOMAIN out |-> out[Len(out) + 1 - k]]
  /\ UNCHANGED <<digest, bytes, start, i, rem>>

Next == BeginPass \/ DivideByte \/ EndPass \/ Finish

Spec == Init /\ [][Next]_vars
FairSpec == Spec /\ WF_vars(Next)

-----------------------------------------------------------------------------
(* Properties.                                                             *)

TypeOK ==
  /\ pc \in {"outer", "inner", "done"}
  /\ digest \in [0 .. N - 1 -> Byte]
  /\ bytes \in [0 .. N - 1 -> Byte]
  /\ out \in Seq(Digit)
  /\ start \in 0 .. N
  /\ i \in 0 .. N
  /\ rem \in Digit
  /\ pc = "inner" => start < N /\ start <= i

\* The cast to u8 in base62 never loses a bit of the quotient.
QuotientFitsByte ==
  pc = "inner" /\ i < N => Acc \div 62 \in Byte

\* The number that begins with v and goes on with n digits d[1], d[2], ... in
\* base b.
Number(v, d, n, b) ==
  LET value[k \in 0 .. n] == IF k = 0 THEN v ELSE value[k - 1] * b + d[k]
  IN  value[n]

\* The bytes of s from index j on, numbered from 1.
From(s, j) == [k \in 1 .. N - j |-> s[j + k - 1]]
BigEndian(s) == Number(0, From(s, 0), N, 256)
Reversed(s) == [k \in 1 .. Len(s) |-> s[Len(s) + 1 - k]]

\* base62 is "unbiased base62 of the full digest, treated as a big-endian
\* integer": at the head of every pass what is left in bytes, followed by the
\* digits in out, is the digest, so that different digests get different ids.
ValuePreserved ==
  /\ pc = "outer" =>
       Number(BigEndian(bytes), Reversed(out), Len(out), 62) = BigEndian(digest)
  /\ pc = "done" => Number(0, out, Len(out), 62) = BigEndian(digest)

\* src/visitor.rs, VisitorId::new_unchecked "where the value is known-valid":
\* an id has at least one digit per byte of the digest and at most two, so for
\* 32 bytes it is never empty and stays within MAX_VISITOR_ID.
LengthBounds ==
  pc = "done" => N <= Len(out) /\ Len(out) <= 2 * N

\* base62 returns: every pass shortens what is left.
Terminates == <>(pc = "done")
=============================================================================
