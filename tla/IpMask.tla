------------------------------- MODULE IpMask -------------------------------
(***************************************************************************)
(* src/ip.rs: normalization and masking of addresses, and the octets that  *)
(* src/strategy.rs feeds to the hash.  An address is a record of a family  *)
(* and an integer, as in u32::from and u128::from.  Widths and prefixes    *)
(* are parameters: 32 and 128 bits, bytes of 8 bits, in the code.          *)
(***************************************************************************)
EXTENDS Integers, Sequences

CONSTANTS
  ByteBits,    \* bits of a byte
  V4Bytes,     \* bytes of an IPv4 address
  V6Bytes,     \* bytes of an IPv6 address
  MappedHigh,  \* the high bits ::ffff:0:0/96 of an IPv4-mapped address
  Prefixes     \* Prefixes[mode]: IpMaskMode::prefixes, fields v4 and v6

Modes == {"None", "Balanced", "Accurate", "Full"}

V4Bits == V4Bytes * ByteBits
V6Bits == V6Bytes * ByteBits

\* 2^n, as a function: the provers know nothing of ^.
Pow2 ==
  LET p[n \in 0 .. V6Bits] == IF n = 0 THEN 1 ELSE 2 * p[n - 1]
  IN  [n \in 0 .. V6Bits |-> p[n]]

V4Addr == [family : {"V4"}, bits : 0 .. Pow2[V4Bits] - 1]
V6Addr == [family : {"V6"}, bits : 0 .. Pow2[V6Bits] - 1]
IpAddr == V4Addr \union V6Addr

ASSUME MaskAssumption ==
  /\ ByteBits \in Nat \ {0} /\ V4Bytes \in Nat \ {0} /\ V6Bytes \in Nat \ {0}
  /\ V4Bytes < V6Bytes
  /\ MappedHigh \in 1 .. Pow2[V6Bits - V4Bits] - 1
  /\ Prefixes \in [Modes -> [v4 : 0 .. V4Bits, v6 : 0 .. V6Bits]]
  /\ \A m \in {"None", "Full"} : Prefixes[m] = [v4 |-> V4Bits, v6 |-> V6Bits]

(* Operators named Mutant... are plausible bugs; no definition uses them.   *)

\* The branch for IPv4-mapped addresses is missing.
MutantNotMapped(ip) == ip

\* An IPv4-mapped IPv6 address is the IPv4 address it maps.
canonical(ip) ==
  IF ip.family = "V6" /\ ip.bits \div Pow2[V4Bits] = MappedHigh
  THEN [family |-> "V4", bits |-> ip.bits % Pow2[V4Bits]]
  ELSE ip

\* mask_v4 and mask_v6: bits & (MAX << (width - prefix)).
mask(ip, prefix, width) ==
  [ip EXCEPT !.bits = @ - (@ % Pow2[width - prefix])]

mask_ip(ip, mode) ==
  LET c == canonical(ip) IN
  CASE mode = "None" -> c
    [] mode # "None" /\ c.family = "V4" -> mask(c, Prefixes[mode].v4, V4Bits)
    [] mode # "None" /\ c.family = "V6" -> mask(c, Prefixes[mode].v6, V6Bits)

\* src/strategy.rs, ip_octets: 4 or 16 bytes, most significant first.
ip_octets(ip) ==
  LET n == IF ip.family = "V4" THEN V4Bytes ELSE V6Bytes IN
  [k \in 1 .. n |-> (ip.bits \div Pow2[ByteBits * (n - k)]) % Pow2[ByteBits]]
=============================================================================
