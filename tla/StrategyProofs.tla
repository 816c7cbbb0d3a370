--------------------------- MODULE StrategyProofs ---------------------------
(***************************************************************************)
(* Visitor ids for every set of callers, salts and events, and every width *)
(* of addresses and lengths: the masks keep of an address what its site    *)
(* has, frame is injective, an id is made with a salt in force during its  *)
(* call, and calls with one salt have equal ids just for equal visitors.   *)
(***************************************************************************)
EXTENDS Strategy, SequenceTheorems, WellFoundedInduction, TLAPS

-----------------------------------------------------------------------------
(* Numbers.                                                                *)

\* < as a relation.
LEMMA LessThan == \A x, y \in Nat : <<x, y>> \in OpToRel(<, Nat) <=> x < y
BY DEF OpToRel

\* A set of numbers has a least element.
LEMMA LeastNat ==
  ASSUME NEW T \in SUBSET Nat, T # {}
  PROVE  \E m \in T : \A k \in T : m <= k
<1> DEFINE R == OpToRel(<, Nat)
<1>1_. IsWellFoundedOn(R, Nat)
  BY NatLessThanWellFounded
<1>1. \A x, y \in Nat : <<x, y>> \in R <=> x < y
  BY LessThan
<1> HIDE DEF R
<1>2. PICK m \in T : \A y \in T : <<y, m>> \notin R
  BY <1>1_, WFMin
<1>3. \A x \in T : x \in Nat
  OBVIOUS
<1>4. \A k \in T : ~(k < m)
  BY <1>1, <1>2, <1>3
<1> QED  BY <1>3, <1>4

\* Induction.
LEMMA Induction ==
  ASSUME NEW T, 0 \in T, \A n \in Nat : n \in T => n + 1 \in T
  PROVE  \A n \in Nat : n \in T
<1> SUFFICES ASSUME Nat \ T # {} PROVE FALSE
  OBVIOUS
<1>1. PICK m \in Nat \ T : \A k \in Nat \ T : m <= k
  BY LeastNat
<1>2. m # 0 /\ m - 1 \in Nat /\ m - 1 \in T
  BY <1>1
<1> QED  BY <1>1, <1>2

-----------------------------------------------------------------------------
(* Division.                                                               *)

\* What quotient and remainder are.
LEMMA DivMod ==
  ASSUME NEW x \in Nat, NEW d \in Nat \ {0}
  PROVE  x \div d \in Nat /\ x % d \in 0 .. d - 1 /\ x = ((x \div d) * d) + (x % d)
OBVIOUS

\* Multiples of d are d apart.
LEMMA TimesMonotone == \A a, b, d \in Nat : a < b => a * d + d <= b * d
OBVIOUS

\* Quotient and remainder are unique.
LEMMA DivUnique ==
  ASSUME NEW x \in Nat, NEW d \in Nat \ {0}, NEW q \in Nat, NEW r \in 0 .. d - 1,
         x = q * d + r
  PROVE  x \div d = q /\ x % d = r
<1> DEFINE p == x \div d
<1>1. p \in Nat /\ x % d \in 0 .. d - 1 /\ x = p * d + (x % d)
  BY DivMod
<1> HIDE DEF p
<1>2. ~(p < q)
  BY <1>1, TimesMonotone
<1>3. ~(q < p)
  <2> SUFFICES ASSUME q < p PROVE FALSE
    OBVIOUS
  <2>1. q * d + d <= p * d
    BY <1>1, TimesMonotone
  <2> QED  BY <1>1, <2>1
<1> QED  BY <1>1, <1>2, <1>3 DEF p

\* Division by a product is division by one factor and then the other.
LEMMA DivDiv ==
  ASSUME NEW x \in Nat, NEW c \in Nat \ {0}, NEW d \in Nat \ {0}
  PROVE  x \div (c * d) = (x \div c) \div d
<1> DEFINE q == x \div c
           r == x % c
           p == q \div d
           s == q % d
<1>1. q \in Nat /\ r \in 0 .. c - 1 /\ x = q * c + r
  BY DivMod
<1>2. p \in Nat /\ s \in 0 .. d - 1 /\ q = p * d + s
  BY <1>1, DivMod
<1> HIDE DEF q, r, p, s
<1>3. x = p * (c * d) + (s * c + r)
  BY <1>1, <1>2
<1>4. s * c + r \in 0 .. c * d - 1 /\ c * d \in Nat \ {0}
  <2>1. s * c + c <= d * c
    BY <1>2, TimesMonotone
  <2> QED  BY <1>1, <1>2, <2>1
<1>5. x \div (c * d) = p
  BY <1>2, <1>3, <1>4, DivUnique
<1> QED  BY <1>5 DEF p, q

\* A number is its own remainder by a larger one.
LEMMA DivSmall ==
  ASSUME NEW x \in Nat, NEW d \in Nat, x < d
  PROVE  x \div d = 0 /\ x % d = x
OBVIOUS

\* x is the multiple q of d, and r more.
Splits(x, q, d, r) == x = q * d + r

\* A division finds them.
LEMMA DivSplit ==
  ASSUME NEW q \in Nat, NEW d \in Nat \ {0}, NEW r \in 0 .. d - 1, NEW x, Splits(x, q, d, r)
  PROVE  x \in Nat /\ x \div d = q /\ x % d = r
<1>1. x = q * d + r
  BY DEF Splits
<1>2. x \in Nat
  BY <1>1
<1> QED  BY <1>1, <1>2, DivUnique

-----------------------------------------------------------------------------
(* Digits of a number.                                                     *)

\* W[k] is the weight of digit k in base c, of w digits and the one beyond.
Weights(W, c, w) ==
  /\ c \in Nat \ {0}
  /\ W \in [0 .. w -> Nat \ {0}]
  /\ \A k \in 0 .. w - 1 : W[k + 1] = W[k] * c

\* Digit k of x, and what is left of x from digit k on.
DigitAt(x, k, W, c) == (x \div W[k]) % c
Above(x, k, W) == x \div W[k]

\* x and y have the same digits from h to w - 1.
SameDigits(x, y, h, w, W, c) ==
  \A k \in h .. w - 1 : DigitAt(x, k, W, c) = DigitAt(y, k, W, c)

\* The place of the next digit.
NextPlace(n, k) == n = k + 1

\* The digit and the digits after it.
LEMMA DigitFirst ==
  ASSUME NEW W, NEW c, NEW w \in Nat, Weights(W, c, w), NEW x \in Nat, NEW k \in 0 .. w - 1,
         NEW n, NextPlace(n, k)
  PROVE  /\ Above(x, k, W) \in Nat
         /\ Above(x, k, W) = Above(x, n, W) * c + DigitAt(x, k, W, c)
         /\ Above(x, n, W) = Above(x, k, W) \div c
<1> DEFINE p == x \div W[k]
<1>1. W[k] \in Nat \ {0} /\ c \in Nat \ {0} /\ W[n] = W[k] * c
  BY DEF Weights, NextPlace
<1>2. p \in Nat
  BY <1>1, DivMod
<1>3. x \div (W[k] * c) = p \div c
  BY <1>1, DivDiv
<1>4. p = (p \div c) * c + (p % c)
  BY <1>1, <1>2, DivMod
<1> HIDE DEF p
<1>5. /\ Above(x, k, W) = p /\ Above(x, n, W) = p \div c
      /\ DigitAt(x, k, W, c) = p % c
  BY <1>1, <1>3 DEF Above, DigitAt, p
<1> QED  BY <1>2, <1>4, <1>5

\* Numbers below the weight of digit w have the same digits from h on just
\* when division by the weight of digit h does not tell them apart.
LEMMA HighDigits ==
  ASSUME NEW W, NEW c, NEW w \in Nat, Weights(W, c, w), NEW h \in 0 .. w,
         NEW x \in Nat, NEW y \in Nat, x < W[w], y < W[w]
  PROVE  SameDigits(x, y, h, w, W, c) <=> Above(x, h, W) = Above(y, h, W)
<1> DEFINE Known(k) == SameDigits(x, y, k, w, W, c) <=> Above(x, k, W) = Above(y, k, W)
           T == {m \in Nat : m <= w => Known(w - m)}
<1>1. 0 \in T
  <2>1. W[w] \in Nat \ {0}
    BY DEF Weights
  <2>2. x \div W[w] = 0 /\ y \div W[w] = 0
    BY <2>1, DivSmall
  <2>3. w - 0 = w
    OBVIOUS
  <2>4. Known(w)
    BY <2>2 DEF SameDigits, Above
  <2> QED  BY <2>3, <2>4
<1>2. ASSUME NEW m \in Nat, m \in T PROVE m + 1 \in T
  <2> SUFFICES ASSUME m + 1 <= w PROVE Known(w - (m + 1))
    OBVIOUS
  <2> DEFINE k == w - (m + 1)
             n == w - m
  <2>1. k \in 0 .. w - 1 /\ n = k + 1 /\ NextPlace(n, k) /\ m <= w /\ k < w
    BY DEF NextPlace
  <2>2. Known(n)
    BY <1>2, <2>1
  <2> HIDE DEF k, n
  <2>3. SameDigits(x, y, k, w, W, c) <=>
          SameDigits(x, y, n, w, W, c) /\ DigitAt(x, k, W, c) = DigitAt(y, k, W, c)
    BY <2>1 DEF SameDigits
  <2>4. /\ Above(x, k, W) = Above(x, n, W) * c + DigitAt(x, k, W, c)
        /\ Above(x, n, W) = Above(x, k, W) \div c
    BY <2>1, DigitFirst
  <2>5. /\ Above(y, k, W) = Above(y, n, W) * c + DigitAt(y, k, W, c)
        /\ Above(y, n, W) = Above(y, k, W) \div c
    BY <2>1, DigitFirst
  <2>6. /\ DigitAt(x, k, W, c) = Above(x, k, W) % c
        /\ DigitAt(y, k, W, c) = Above(y, k, W) % c
    BY DEF DigitAt, Above
  <2>7. Known(k)
    BY <2>2, <2>3, <2>4, <2>5, <2>6
  <2> QED  BY <2>7 DEF k
<1> HIDE DEF T
<1>3. \A m \in Nat : m \in T
  BY <1>1, <1>2, Induction
<1>4. w - h \in T /\ w - h <= w /\ w - (w - h) = h
  BY <1>3
<1> QED  BY <1>4 DEF T

-----------------------------------------------------------------------------
(* Powers of two and the widths of addresses.                              *)

\* Pow2 at n, by the recursion that defines it.
PowStep(f, n) == IF n = 0 THEN 1 ELSE 2 * f[n - 1]

\* The widths of addresses in bits.
LEMMA Widths ==
  /\ ByteBits \in Nat \ {0} /\ V4Bytes \in Nat \ {0} /\ V6Bytes \in Nat \ {0}
  /\ V4Bits \in Nat /\ V6Bits \in Nat /\ V4Bits < V6Bits
  /\ V4Bits = V4Bytes * ByteBits /\ V6Bits = V6Bytes * ByteBits
  /\ V6Bits - V4Bits \in 1 .. V6Bits
<1>1. /\ ByteBits \in Nat \ {0} /\ V4Bytes \in Nat \ {0} /\ V6Bytes \in Nat \ {0}
      /\ V4Bytes < V6Bytes
  BY MaskAssumption
<1>2. V4Bytes * ByteBits + ByteBits <= V6Bytes * ByteBits
  BY <1>1, TimesMonotone
<1> DEFINE v == V4Bytes * ByteBits
           w == V6Bytes * ByteBits
<1>3. v \in Nat /\ w \in Nat
  BY <1>1
<1> HIDE DEF v, w
<1>4. v < w /\ w - v \in 1 .. w
  BY <1>1, <1>2, <1>3 DEF v, w
<1> QED  BY <1>1, <1>3, <1>4 DEF V4Bits, V6Bits, v, w

\* The recursion has a solution on every interval.
LEMMA PowersExist ==
  \A n \in Nat : \E f \in [0 .. n -> Nat \ {0}] : \A k \in 0 .. n : f[k] = PowStep(f, k)
<1> DEFINE Solves(f, n) == \A k \in 0 .. n : f[k] = PowStep(f, k)
           T == {n \in Nat : \E f \in [0 .. n -> Nat \ {0}] : Solves(f, n)}
<1>1. 0 \in T
  <2> DEFINE f == [k \in 0 .. 0 |-> 1]
  <2>1. f \in [0 .. 0 -> Nat \ {0}] /\ Solves(f, 0)
    BY DEF PowStep
  <2> QED  BY <2>1
<1>2. ASSUME NEW n \in Nat, n \in T PROVE n + 1 \in T
  <2>1. PICK f \in [0 .. n -> Nat \ {0}] : Solves(f, n)
    BY <1>2
  <2> DEFINE g == [k \in 0 .. n + 1 |-> IF k <= n THEN f[k] ELSE 2 * f[n]]
  <2>2. g \in [0 .. n + 1 -> Nat \ {0}]
    BY <2>1
  <2>3. ASSUME NEW k \in 0 .. n + 1 PROVE g[k] = PowStep(g, k)
    <3>1. CASE k <= n
      <4>1. g[k] = f[k] /\ f[k] = PowStep(f, k)
        BY <2>1, <3>1
      <4>2. k # 0 => g[k - 1] = f[k - 1]
        BY <3>1
      <4> QED  BY <4>1, <4>2 DEF PowStep
    <3>2. CASE k = n + 1
      <4>1. g[k] = 2 * f[n] /\ g[k - 1] = f[n] /\ k # 0
        BY <3>2
      <4> QED  BY <4>1 DEF PowStep
    <3> QED  BY <3>1, <3>2
  <2> HIDE DEF g
  <2>4. Solves(g, n + 1)
    BY <2>3
  <2> HIDE DEF Solves
  <2>5. \E h \in [0 .. n + 1 -> Nat \ {0}] : Solves(h, n + 1)
    BY <2>2, <2>4
  <2> QED  BY <2>5
<1> HIDE DEF T
<1>3. \A n \in Nat : n \in T
  BY <1>1, <1>2, Induction
<1> QED  BY <1>3 DEF T

\* What Pow2 is.
LEMMA PowFacts ==
  /\ Pow2 \in [0 .. V6Bits -> Nat \ {0}]
  /\ Pow2[0] = 1
  /\ \A k \in 0 .. V6Bits - 1 : Pow2[k + 1] = 2 * Pow2[k]
<1> DEFINE D == 0 .. V6Bits
           Is(f) == f = [n \in D |-> IF n = 0 THEN 1 ELSE 2 * f[n - 1]]
           p == CHOOSE f : Is(f)
<1>1. V6Bits \in Nat
  BY Widths
<1>2. PICK f \in [D -> Nat \ {0}] : \A k \in D : f[k] = PowStep(f, k)
  BY <1>1, PowersExist
<1>3. Is(f)
  <2>1. \A n \in D : f[n] = IF n = 0 THEN 1 ELSE 2 * f[n - 1]
    BY <1>2 DEF PowStep
  <2> QED  BY <1>2, <2>1
<1>4. Is(p)
  <2> HIDE DEF Is
  <2> QED  BY <1>3
<1>5. Pow2 = [n \in D |-> p[n]]
  BY DEF Pow2
<1> HIDE DEF p
<1>6. \A n \in D : p[n] = IF n = 0 THEN 1 ELSE 2 * p[n - 1]
  BY <1>4
<1>7. \A n \in D : Pow2[n] = p[n]
  BY <1>5
<1>8. \A k \in 0 .. V6Bits - 1 : k \in D /\ k + 1 \in D /\ k + 1 # 0 /\ (k + 1) - 1 = k
  BY <1>1
<1>9. \A k \in 0 .. V6Bits - 1 : Pow2[k + 1] = 2 * Pow2[k]
  BY <1>6, <1>7, <1>8
<1>10. Pow2[0] = 1
  BY <1>1, <1>6, <1>7
<1>11. \A n \in D : Pow2[n] \in Nat \ {0}
  <2> DEFINE T == {n \in Nat : n <= V6Bits => Pow2[n] \in Nat \ {0}}
  <2>1. 0 \in T
    BY <1>10
  <2>2. ASSUME NEW n \in Nat, n \in T PROVE n + 1 \in T
    <3> SUFFICES ASSUME n + 1 <= V6Bits PROVE Pow2[n + 1] \in Nat \ {0}
      OBVIOUS
    <3>1. n \in 0 .. V6Bits - 1 /\ Pow2[n] \in Nat \ {0}
      BY <1>1, <2>2
    <3> QED  BY <1>9, <3>1
  <2> HIDE DEF T
  <2>3. \A n \in Nat : n \in T
    BY <2>1, <2>2, Induction
  <2> QED  BY <1>1, <2>3 DEF T
<1>12. Pow2 \in [D -> Nat \ {0}]
  BY <1>5, <1>7, <1>11
<1> QED  BY <1>9, <1>10, <1>12

\* Pow2 weighs the bits of an address.
LEMMA PowWeights == Weights(Pow2, 2, V6Bits)
<1>1. \A k \in 0 .. V6Bits - 1 : Pow2[k] \in Nat /\ Pow2[k + 1] = 2 * Pow2[k]
  BY PowFacts, Widths
<1>2. \A k \in 0 .. V6Bits - 1 : Pow2[k + 1] = Pow2[k] * 2
  BY <1>1
<1> QED  BY <1>2, PowFacts DEF Weights

\* The sum of two exponents.
LEMMA PowSum ==
  ASSUME NEW m \in Nat, NEW n \in Nat, m + n <= V6Bits
  PROVE  Pow2[m + n] = Pow2[m] * Pow2[n]
<1> DEFINE T == {k \in Nat : m + k <= V6Bits => Pow2[m + k] = Pow2[m] * Pow2[k]}
<1>1. V6Bits \in Nat /\ m \in 0 .. V6Bits /\ Pow2[m] \in Nat
  BY Widths, PowFacts
<1>2. 0 \in T
  <2>1. m + 0 = m /\ Pow2[0] = 1
    BY PowFacts
  <2> QED  BY <1>1, <2>1
<1>3. ASSUME NEW k \in Nat, k \in T PROVE k + 1 \in T
  <2> SUFFICES ASSUME m + (k + 1) <= V6Bits PROVE Pow2[m + (k + 1)] = Pow2[m] * Pow2[k + 1]
    OBVIOUS
  <2> DEFINE i == m + k
             a == Pow2[m]
             b == Pow2[k]
  <2>1. i \in 0 .. V6Bits - 1 /\ k \in 0 .. V6Bits - 1 /\ i + 1 = m + (k + 1)
    BY <1>1
  <2>2. Pow2[i + 1] = 2 * Pow2[i] /\ Pow2[k + 1] = 2 * b /\ b \in Nat
    BY <2>1, <1>1, PowFacts
  <2>3. Pow2[i] = a * b
    BY <1>1, <1>3, <2>1
  <2> HIDE DEF i, a, b
  <2>4. 2 * (a * b) = a * (2 * b)
    BY <1>1, <2>2 DEF a
  <2> QED  BY <2>1, <2>2, <2>3, <2>4 DEF a
<1> HIDE DEF T
<1>4. \A k \in Nat : k \in T
  BY <1>2, <1>3, Induction
<1> QED  BY <1>4 DEF T

-----------------------------------------------------------------------------
(* Addresses and sites.                                                    *)

\* An address in the IPv6 form, as a number.
Whole(ip) == IF ip.family = "V4" THEN MappedHigh * Pow2[V4Bits] + ip.bits ELSE ip.bits

\* The fields of an address.
LEMMA AddressFields ==
  ASSUME NEW ip \in IpAddr
  PROVE  /\ ip.family \in {"V4", "V6"} /\ ip.bits \in Nat
         /\ ip = [family |-> ip.family, bits |-> ip.bits]
         /\ ip.family = "V4" => ip.bits < Pow2[V4Bits]
         /\ ip.family = "V6" => ip.bits < Pow2[V6Bits]
<1>1. Pow2[V4Bits] \in Nat /\ Pow2[V6Bits] \in Nat
  BY Widths, PowFacts
<1>2. CASE ip \in V4Addr
  BY <1>1, <1>2 DEF V4Addr
<1>3. CASE ip \in V6Addr
  BY <1>1, <1>3 DEF V6Addr
<1> QED  BY <1>2, <1>3 DEF IpAddr

\* The high bits of the mapped range and the bits of an IPv4 address.
LEMMA MappedSplit ==
  ASSUME NEW b \in Nat, b < Pow2[V4Bits]
  PROVE  /\ MappedHigh * Pow2[V4Bits] + b \in Nat
         /\ MappedHigh * Pow2[V4Bits] + b < Pow2[V6Bits]
         /\ (MappedHigh * Pow2[V4Bits] + b) \div Pow2[V4Bits] = MappedHigh
         /\ (MappedHigh * Pow2[V4Bits] + b) % Pow2[V4Bits] = b
<1> DEFINE d == Pow2[V4Bits]
           e == Pow2[V6Bits - V4Bits]
<1>1. /\ d \in Nat \ {0} /\ e \in Nat \ {0}
      /\ MappedHigh \in Nat /\ MappedHigh < e
  <2>1. V4Bits \in 0 .. V6Bits /\ V6Bits - V4Bits \in 0 .. V6Bits
    BY Widths
  <2>2. d \in Nat \ {0} /\ e \in Nat \ {0}
    BY <2>1, PowFacts
  <2>3. MappedHigh \in 1 .. e - 1
    BY MaskAssumption
  <2> QED  BY <2>2, <2>3
<1>2. Pow2[V6Bits] = e * d
  <2>1. (V6Bits - V4Bits) + V4Bits = V6Bits /\ V6Bits - V4Bits \in Nat /\ V4Bits \in Nat
    BY Widths
  <2>2. Pow2[(V6Bits - V4Bits) + V4Bits] = e * d
    BY <2>1, Widths, PowSum
  <2> QED  BY <2>1, <2>2
<1> HIDE DEF d, e
<1>3. MappedHigh * d + d <= e * d
  BY <1>1, TimesMonotone
<1>4. b \in 0 .. d - 1
  BY <1>1 DEF d
<1>5. MappedHigh * d \in Nat /\ e * d \in Nat
  BY <1>1
<1>6. MappedHigh * d + b \in Nat /\ MappedHigh * d + b < e * d
  <2> DEFINE p == MappedHigh * d
             q == e * d
  <2>1. p \in Nat /\ q \in Nat /\ p + d <= q /\ b < d /\ d \in Nat
    BY <1>1, <1>3, <1>4, <1>5
  <2> HIDE DEF p, q
  <2>2. p + b \in Nat /\ p + b < q
    BY <2>1
  <2> QED  BY <2>2 DEF p, q
<1>7. (MappedHigh * d + b) \div d = MappedHigh /\ (MappedHigh * d + b) % d = b
  <2>1. Splits(MappedHigh * d + b, MappedHigh, d, b)
    BY DEF Splits
  <2> QED  BY <1>1, <1>4, <2>1, DivSplit
<1> QED  BY <1>2, <1>6, <1>7 DEF d

\* The IPv6 form has the bits of one, and keeps an IPv4 address below its range.
LEMMA WholeType ==
  ASSUME NEW ip \in IpAddr
  PROVE  /\ Whole(ip) \in Nat /\ Whole(ip) < Pow2[V6Bits]
         /\ ip.family = "V4" => /\ Whole(ip) \div Pow2[V4Bits] = MappedHigh
                                /\ Whole(ip) % Pow2[V4Bits] = ip.bits
BY AddressFields, MappedSplit DEF Whole

\* canonical changes the family of the addresses of the mapped range and
\* nothing else.
LEMMA CanonicalForm ==
  ASSUME NEW ip \in IpAddr
  PROVE  /\ canonical(ip) \in IpAddr
         /\ Whole(canonical(ip)) = Whole(ip)
         /\ canonical(ip).family = "V4" <=> Whole(ip) \div Pow2[V4Bits] = MappedHigh
<1> DEFINE d == Pow2[V4Bits]
           x == ip.bits
<1>1. d \in Nat \ {0} /\ x \in Nat
  BY Widths, PowFacts, AddressFields
<1>2. CASE ip.family = "V6" /\ x \div d = MappedHigh
  <2> DEFINE c == [family |-> "V4", bits |-> x % d]
  <2>1. canonical(ip) = c /\ Whole(ip) = x
    BY <1>2 DEF canonical, Whole
  <2>2. x % d \in 0 .. d - 1 /\ x = (x \div d) * d + (x % d)
    BY <1>1, DivMod
  <2>3. c \in IpAddr
    BY <2>2 DEF IpAddr, V4Addr
  <2>4. Whole(c) = MappedHigh * d + (x % d)
    BY DEF Whole
  <2> HIDE DEF c
  <2> QED  BY <1>2, <2>1, <2>2, <2>3, <2>4 DEF c
<1>3. CASE ~(ip.family = "V6" /\ x \div d = MappedHigh)
  <2>1. canonical(ip) = ip
    BY <1>3 DEF canonical
  <2>2. ip.family = "V4" => Whole(ip) \div d = MappedHigh
    BY WholeType
  <2>3. ip.family = "V6" => Whole(ip) = x
    BY DEF Whole
  <2>4. ip.family \in {"V4", "V6"}
    BY AddressFields
  <2> QED  BY <1>3, <2>1, <2>2, <2>3, <2>4
<1> QED  BY <1>2, <1>3

\* The bits of a number, as Bits has them.
BitsOf(x) == {k \in 0 .. V6Bits - 1 : DigitAt(x, k, Pow2, 2) = 1}

\* Bits reads the IPv6 form.
LEMMA BitsAreOfWhole == \A ip : Bits(ip) = BitsOf(Whole(ip))
BY DEF Bits, BitsOf, Whole, DigitAt

\* The bits from h on are what a division by Pow2[h] leaves.
LEMMA HighBits ==
  ASSUME NEW h \in 0 .. V6Bits, NEW x \in Nat, NEW y \in Nat,
         x < Pow2[V6Bits], y < Pow2[V6Bits]
  PROVE  {k \in BitsOf(x) : k >= h} = {k \in BitsOf(y) : k >= h}
           <=> x \div Pow2[h] = y \div Pow2[h]
<1>1. V6Bits \in Nat
  BY Widths
<1>2. SameDigits(x, y, h, V6Bits, Pow2, 2) <=> Above(x, h, Pow2) = Above(y, h, Pow2)
  BY <1>1, PowWeights, HighDigits
<1>3. \A k \in 0 .. V6Bits - 1 : DigitAt(x, k, Pow2, 2) \in {0, 1} /\ DigitAt(y, k, Pow2, 2) \in {0, 1}
  <2> SUFFICES ASSUME NEW k \in 0 .. V6Bits - 1
               PROVE  DigitAt(x, k, Pow2, 2) \in {0, 1} /\ DigitAt(y, k, Pow2, 2) \in {0, 1}
    OBVIOUS
  <2>1. Pow2[k] \in Nat \ {0}
    BY <1>1, PowFacts
  <2>2. x \div Pow2[k] \in Nat /\ y \div Pow2[k] \in Nat
    BY <2>1, DivMod
  <2> QED  BY <2>2 DEF DigitAt
<1>4. {k \in BitsOf(x) : k >= h} = {k \in BitsOf(y) : k >= h}
        <=> \A k \in h .. V6Bits - 1 : k \in BitsOf(x) <=> k \in BitsOf(y)
  BY <1>1 DEF BitsOf
<1>5. ASSUME NEW k \in h .. V6Bits - 1
      PROVE  (k \in BitsOf(x) <=> k \in BitsOf(y))
               <=> DigitAt(x, k, Pow2, 2) = DigitAt(y, k, Pow2, 2)
  BY <1>1, <1>3 DEF BitsOf
<1> QED  BY <1>2, <1>4, <1>5 DEF SameDigits, Above

\* The lowest address of the mapped range.
LowestMapped == [family |-> "V4", bits |-> 0]

\* It has no bit below the range's own.
LEMMA LowestMappedBits ==
  /\ LowestMapped \in IpAddr
  /\ \A k \in Bits(LowestMapped) : k >= V4Bits
<1> DEFINE M == MappedHigh * Pow2[V4Bits]
<1>1. V4Bits \in Nat /\ V6Bits \in Nat /\ V4Bits < V6Bits
  BY Widths
<1>2. Pow2[V4Bits] \in Nat \ {0} /\ MappedHigh \in Nat
  <2>1. V4Bits \in 0 .. V6Bits /\ V6Bits - V4Bits \in 0 .. V6Bits
    BY Widths
  <2> QED  BY <2>1, PowFacts, MaskAssumption
<1>3. LowestMapped \in IpAddr
  BY <1>2 DEF LowestMapped, IpAddr, V4Addr
<1>4. Whole(LowestMapped) = M
  BY <1>2 DEF LowestMapped, Whole
<1>5. ASSUME NEW k \in 0 .. V4Bits - 1 PROVE DigitAt(M, k, Pow2, 2) = 0
  <2> DEFINE j == V4Bits - (k + 1)
             a == Pow2[j]
             b == Pow2[k]
             q == MappedHigh * a
  <2>1. /\ k \in 0 .. V6Bits - 1 /\ k + 1 \in Nat /\ j \in 0 .. V6Bits
        /\ j + (k + 1) = V4Bits /\ V4Bits <= V6Bits
    BY <1>1
  <2>2. a \in Nat \ {0} /\ b \in Nat \ {0} /\ Pow2[k + 1] = 2 * b
    BY <1>1, <2>1, PowFacts
  <2>3. Pow2[V4Bits] = a * Pow2[k + 1]
    <3> HIDE DEF j
    <3>1. Pow2[j + (k + 1)] = Pow2[j] * Pow2[k + 1]
      BY <1>1, <2>1, PowSum
    <3> QED  BY <2>1, <3>1
  <2> HIDE DEF a, b
  <2>4. q \in Nat /\ M = (2 * q) * b + 0
    BY <1>2, <2>2, <2>3
  <2> HIDE DEF q
  <2>5. Splits(M, 2 * q, b, 0)
    BY <2>4 DEF Splits
  <2> HIDE DEF M
  <2>6. M \div b = 2 * q
    <3>1. 2 * q \in Nat /\ 0 \in 0 .. b - 1
      BY <2>2, <2>4
    <3> QED  BY <2>2, <2>5, <3>1, DivSplit
  <2>7. (2 * q) % 2 = 0
    BY <2>4
  <2> QED  BY <2>6, <2>7 DEF DigitAt, b
<1> HIDE DEF M
<1>6. ASSUME NEW k \in BitsOf(M) PROVE k >= V4Bits
  BY <1>1, <1>5 DEF BitsOf
<1> QED  BY <1>3, <1>4, <1>6, BitsAreOfWhole

\* The mapped range, in bits and by the first division of to_ipv4_mapped.
LEMMA MappedForm ==
  ASSUME NEW ip \in IpAddr
  PROVE  Mapped(ip) <=> canonical(ip).family = "V4"
<1> DEFINE x == Whole(ip)
           y == Whole(LowestMapped)
<1>1. /\ x \in Nat /\ x < Pow2[V6Bits] /\ y \in Nat /\ y < Pow2[V6Bits]
      /\ y \div Pow2[V4Bits] = MappedHigh
  BY WholeType, LowestMappedBits DEF LowestMapped
<1>2. Bits(ip) = BitsOf(x) /\ Bits(LowestMapped) = BitsOf(y)
  BY BitsAreOfWhole
<1> HIDE DEF x, y
<1>3. V4Bits \in 0 .. V6Bits
  BY Widths
<1>4. {k \in BitsOf(y) : k >= V4Bits} = BitsOf(y)
  BY <1>2, LowestMappedBits
<1>5. Mapped(ip) <=> {k \in BitsOf(x) : k >= V4Bits} = BitsOf(y)
  BY <1>2 DEF Mapped, LowestMapped
<1>6. Mapped(ip) <=> x \div Pow2[V4Bits] = y \div Pow2[V4Bits]
  BY <1>1, <1>3, <1>4, <1>5, HighBits
<1> QED  BY <1>1, <1>6, CanonicalForm DEF x

\* The bits a mask clears in an address of a family.
HostBits(family, m) ==
  IF family = "V4" THEN V4Bits - Prefixes[m].v4 ELSE V6Bits - Prefixes[m].v6

\* They are bits of the address, and none in the modes None and Full.
LEMMA HostBitsType ==
  ASSUME NEW m \in Modes, NEW f \in {"V4", "V6"}
  PROVE  /\ HostBits(f, m) \in 0 .. V6Bits
         /\ f = "V4" => HostBits(f, m) \in 0 .. V4Bits
         /\ m \in {"None", "Full"} => HostBits(f, m) = 0
         /\ Pow2[HostBits(f, m)] \in Nat \ {0}
<1>1. /\ Prefixes[m].v4 \in 0 .. V4Bits /\ Prefixes[m].v6 \in 0 .. V6Bits
      /\ m \in {"None", "Full"} => Prefixes[m].v4 = V4Bits /\ Prefixes[m].v6 = V6Bits
  BY MaskAssumption
<1>2. /\ HostBits(f, m) \in 0 .. V6Bits
      /\ f = "V4" => HostBits(f, m) \in 0 .. V4Bits
      /\ m \in {"None", "Full"} => HostBits(f, m) = 0
  BY <1>1, Widths DEF HostBits
<1> QED  BY <1>2, PowFacts

\* The number without its bits below d.
Cleared(x, d) == (x \div d) * d

\* It is the number less a remainder, as mask has it.
LEMMA ClearedFacts ==
  ASSUME NEW x \in Nat, NEW d \in Nat \ {0}
  PROVE  /\ Cleared(x, d) \in Nat /\ Cleared(x, d) <= x
         /\ Cleared(x, d) = x - (x % d)
         /\ d = 1 => Cleared(x, d) = x
         /\ Cleared(x, d) \div d = x \div d
<1> DEFINE q == x \div d
           r == x % d
           z == q * d
<1>1. q \in Nat /\ r \in 0 .. d - 1 /\ x = z + r
  BY DivMod
<1>2. z \in Nat
  BY <1>1
<1>3. z \div d = q
  <2>1. Splits(z, q, d, 0) /\ 0 \in 0 .. d - 1
    BY <1>1, <1>2 DEF Splits
  <2> HIDE DEF z, q
  <2> QED  BY <1>1, <2>1, DivSplit
<1> HIDE DEF q, r, z
<1>4. z <= x /\ z = x - r /\ (d = 1 => z = x)
  BY <1>1, <1>2
<1> QED  BY <1>2, <1>3, <1>4 DEF Cleared, q, r, z

\* What mask_ip returns, in every mode.
LEMMA MaskForm ==
  ASSUME NEW ip \in IpAddr, NEW m \in Modes, NEW f, f = canonical(ip).family
  PROVE  mask_ip(ip, m) =
           [family |-> f, bits |-> Cleared(canonical(ip).bits, Pow2[HostBits(f, m)])]
<1> DEFINE c == canonical(ip)
           x == c.bits
           d == Pow2[HostBits(f, m)]
<1>1. c = [family |-> f, bits |-> x] /\ f \in {"V4", "V6"} /\ x \in Nat
  BY CanonicalForm, AddressFields
<1>2. d \in Nat \ {0} /\ (m = "None" => d = 1)
  BY <1>1, HostBitsType, PowFacts
<1>3. Cleared(x, d) = x - (x % d) /\ (d = 1 => Cleared(x, d) = x)
  BY <1>1, <1>2, ClearedFacts
<1> HIDE DEF c
<1>4. mask_ip(ip, m) =
        CASE m = "None" -> c
          [] m # "None" /\ f = "V4" -> mask(c, Prefixes[m].v4, V4Bits)
          [] m # "None" /\ f = "V6" -> mask(c, Prefixes[m].v6, V6Bits)
  BY DEF mask_ip, c
<1>5. CASE m = "None"
  BY <1>1, <1>2, <1>3, <1>4, <1>5 DEF c
<1>6. CASE m # "None" /\ f = "V4"
  <2>1. mask_ip(ip, m) = [c EXCEPT !.bits = @ - (@ % d)]
    BY <1>4, <1>6 DEF mask, HostBits
  <2> HIDE DEF d
  <2> QED  BY <1>1, <1>3, <2>1 DEF c, d
<1>7. CASE m # "None" /\ f = "V6"
  <2>1. mask_ip(ip, m) = [c EXCEPT !.bits = @ - (@ % d)]
    BY <1>4, <1>7 DEF mask, HostBits
  <2> HIDE DEF d
  <2> QED  BY <1>1, <1>3, <2>1 DEF c, d
<1> QED  BY <1>1, <1>5, <1>6, <1>7

\* The modes None and Full give identical output, as src/ip.rs promises at both
\* of them, though None passes the address by the masks.
THEOREM NoneIsFull ==
  ASSUME NEW ip \in IpAddr
  PROVE  mask_ip(ip, "None") = mask_ip(ip, "Full")
<1> DEFINE f == canonical(ip).family
<1>1. f \in {"V4", "V6"}
  BY CanonicalForm, AddressFields
<1>2. "None" \in Modes /\ "Full" \in Modes
  BY DEF Modes
<1>3. HostBits(f, "None") = HostBits(f, "Full")
  BY <1>1, <1>2, HostBitsType
<1>4. \A m \in Modes :
        mask_ip(ip, m) =
          [family |-> f, bits |-> Cleared(canonical(ip).bits, Pow2[HostBits(f, m)])]
  BY MaskForm
<1> QED  BY <1>2, <1>3, <1>4

\* A masked address is an address.
LEMMA MaskType ==
  ASSUME NEW ip \in IpAddr, NEW m \in Modes
  PROVE  mask_ip(ip, m) \in IpAddr
<1> DEFINE f == canonical(ip).family
           x == canonical(ip).bits
           d == Pow2[HostBits(f, m)]
           z == Cleared(x, d)
<1>1. /\ f \in {"V4", "V6"} /\ x \in Nat
      /\ f = "V4" => x < Pow2[V4Bits]
      /\ f = "V6" => x < Pow2[V6Bits]
  BY CanonicalForm, AddressFields
<1>2. d \in Nat \ {0}
  BY <1>1, HostBitsType
<1>3. z \in Nat /\ z <= x
  BY <1>1, <1>2, ClearedFacts
<1>4. mask_ip(ip, m) = [family |-> f, bits |-> z]
  BY MaskForm
<1> HIDE DEF f, x, z
<1>5. V4Bits \in 0 .. V6Bits /\ V6Bits \in 0 .. V6Bits
  BY Widths
<1>6. Pow2[V4Bits] \in Nat /\ Pow2[V6Bits] \in Nat
  BY <1>5, PowFacts
<1> QED  BY <1>1, <1>3, <1>4, <1>6 DEF IpAddr, V4Addr, V6Addr

\* Above the bits a mask clears, two addresses of one family differ in the IPv6
\* form just when they differ in their own.
LEMMA WholeAbove ==
  ASSUME NEW b \in IpAddr, NEW c \in IpAddr, b.family = c.family,
         NEW m \in Modes, NEW d, d = Pow2[HostBits(b.family, m)]
  PROVE  Whole(b) \div d = Whole(c) \div d <=> b.bits \div d = c.bits \div d
<1> DEFINE h == HostBits(b.family, m)
<1>1. b.family \in {"V4", "V6"} /\ b.bits \in Nat /\ c.bits \in Nat
  BY AddressFields
<1>2. d \in Nat \ {0}
  BY <1>1, HostBitsType
<1>3. CASE b.family = "V6"
  BY <1>3 DEF Whole
<1>4. CASE b.family = "V4"
  <2> DEFINE p == V4Bits - h
             a == MappedHigh * Pow2[p]
  <2>1. h \in 0 .. V4Bits /\ p \in 0 .. V6Bits /\ p \in Nat /\ h \in Nat
        /\ p + h = V4Bits /\ V4Bits <= V6Bits
    <3>1. h \in 0 .. V4Bits
      BY <1>1, <1>4, HostBitsType
    <3> HIDE DEF h
    <3> QED  BY <3>1, Widths
  <2>2. Pow2[p] \in Nat /\ MappedHigh \in Nat /\ d = Pow2[h]
    <3>1. V6Bits - V4Bits \in 0 .. V6Bits
      BY Widths
    <3> QED  BY <2>1, <3>1, PowFacts, MaskAssumption
  <2> HIDE DEF h, p
  <2>3. Pow2[V4Bits] = Pow2[p] * d
    <3>1. Pow2[p + h] = Pow2[p] * Pow2[h]
      BY <2>1, PowSum
    <3> QED  BY <2>1, <2>2, <3>1
  <2>4. a \in Nat /\ MappedHigh * Pow2[V4Bits] = a * d
    BY <1>2, <2>2, <2>3
  <2> HIDE DEF a
  <2>5. ASSUME NEW x \in Nat PROVE (a * d + x) \div d = a + (x \div d)
    <3> DEFINE q == x \div d
               r == x % d
    <3>1. q \in Nat /\ r \in 0 .. d - 1 /\ x = q * d + r
      BY <1>2, DivMod
    <3> HIDE DEF q, r
    <3>2. a * d + x = (a + q) * d + r
      BY <1>2, <2>4, <3>1
    <3>3. Splits(a * d + x, a + q, d, r) /\ a + q \in Nat
      BY <2>4, <3>1, <3>2 DEF Splits
    <3> QED  BY <1>2, <3>1, <3>3, DivSplit DEF q
  <2>6. Whole(b) \div d = a + (b.bits \div d) /\ Whole(c) \div d = a + (c.bits \div d)
    BY <1>1, <1>4, <2>4, <2>5 DEF Whole
  <2>7. b.bits \div d \in Nat /\ c.bits \div d \in Nat
    BY <1>1, <1>2, DivMod
  <2> QED  BY <2>4, <2>6, <2>7
<1> QED  BY <1>1, <1>3, <1>4

\* Two sites are the same when the families are, and nothing above the bits a
\* mask clears tells the addresses apart.
LEMMA SiteForm ==
  ASSUME NEW b \in IpAddr, NEW c \in IpAddr, mode \in Modes,
         NEW f, f = canonical(b).family, NEW d, d = Pow2[HostBits(f, mode)]
  PROVE  Site(b) = Site(c) <=>
           /\ canonical(c).family = f
           /\ Whole(b) \div d = Whole(c) \div d
<1> DEFINE g == canonical(c).family
           h == HostBits(f, mode)
           i == HostBits(g, mode)
<1>1. f \in {"V4", "V6"} /\ g \in {"V4", "V6"}
  BY CanonicalForm, AddressFields
<1>2. h \in 0 .. V6Bits
  BY <1>1, HostBitsType
<1>3. (Mapped(b) <=> f = "V4") /\ (Mapped(c) <=> g = "V4")
  BY MappedForm
<1>4. /\ Whole(b) \in Nat /\ Whole(b) < Pow2[V6Bits]
      /\ Whole(c) \in Nat /\ Whole(c) < Pow2[V6Bits]
  BY WholeType
<1>5. Bits(b) = BitsOf(Whole(b)) /\ Bits(c) = BitsOf(Whole(c))
  BY BitsAreOfWhole
<1> DEFINE B(j) == {k \in BitsOf(Whole(b)) : k >= j}
           C(j) == {k \in BitsOf(Whole(c)) : k >= j}
<1>6. B(h) = C(h) <=> Whole(b) \div Pow2[h] = Whole(c) \div Pow2[h]
  BY <1>2, <1>4, HighBits
<1>7. Site(b) = <<Mapped(b), B(h)>>
  BY <1>1, <1>3, <1>5 DEF Site, HostBits
<1>8. Site(c) = <<Mapped(c), C(i)>>
  BY <1>1, <1>3, <1>5 DEF Site, HostBits
<1> HIDE DEF B, C
<1>9. Mapped(b) \in BOOLEAN /\ Mapped(c) \in BOOLEAN
  BY DEF Mapped
<1>10. Site(b) = Site(c) <=> Mapped(b) = Mapped(c) /\ B(h) = C(i)
  BY <1>7, <1>8
<1>11. Mapped(b) = Mapped(c) <=> f = g
  BY <1>1, <1>3, <1>9
<1>12. f = g => h = i
  OBVIOUS
<1> QED  BY <1>6, <1>10, <1>11, <1>12

\* The masks keep of an address what its site has and nothing else: mask_ip
\* tells two addresses apart just when their sites differ, in every mode and
\* whether they came as IPv4 or IPv4-mapped.
THEOREM MaskIsSite ==
  ASSUME NEW b \in IpAddr, NEW c \in IpAddr, mode \in Modes
  PROVE  mask_ip(b, mode) = mask_ip(c, mode) <=> Site(b) = Site(c)
<1> DEFINE p == canonical(b)
           q == canonical(c)
           f == p.family
           g == q.family
           d == Pow2[HostBits(f, mode)]
           e == Pow2[HostBits(g, mode)]
<1>1. /\ p \in IpAddr /\ Whole(p) = Whole(b)
      /\ q \in IpAddr /\ Whole(q) = Whole(c)
  BY CanonicalForm
<1>2. p.bits \in Nat /\ q.bits \in Nat /\ f \in {"V4", "V6"}
  BY <1>1, AddressFields
<1>3. d \in Nat \ {0}
  BY <1>2, HostBitsType
<1>4. /\ mask_ip(b, mode) = [family |-> f, bits |-> Cleared(p.bits, d)]
      /\ mask_ip(c, mode) = [family |-> g, bits |-> Cleared(q.bits, e)]
  BY MaskForm
<1>5. Site(b) = Site(c) <=> g = f /\ Whole(b) \div d = Whole(c) \div d
  BY SiteForm
<1>6. g = f => (Whole(p) \div d = Whole(q) \div d <=> p.bits \div d = q.bits \div d)
  BY <1>1, WholeAbove
<1>7. g = f => e = d
  OBVIOUS
<1>8. Cleared(p.bits, d) = Cleared(q.bits, d) <=> p.bits \div d = q.bits \div d
  <2>1. Cleared(p.bits, d) \div d = p.bits \div d /\ Cleared(q.bits, d) \div d = q.bits \div d
    BY <1>2, <1>3, ClearedFacts
  <2> QED  BY <2>1 DEF Cleared
<1> HIDE DEF p, q, f, g, d, e
<1>9. mask_ip(b, mode) = mask_ip(c, mode)
        <=> f = g /\ Cleared(p.bits, d) = Cleared(q.bits, e)
  BY <1>4
<1> QED  BY <1>1, <1>5, <1>6, <1>7, <1>8, <1>9

-----------------------------------------------------------------------------
(* Octets.                                                                 *)

\* The bytes of an address of a family.
Bytes(family) == IF family = "V4" THEN V4Bytes ELSE V6Bytes

\* What the bytes weigh, the last one first.
OctetWeights(n) == [j \in 0 .. n |-> Pow2[ByteBits * j]]

\* A product that does not exceed another.
LEMMA TimesAtMost == \A a, b, d \in Nat : a <= b => d * a \in Nat /\ d * a <= d * b
OBVIOUS

\* They are weights in the base of a byte.
LEMMA OctetsWeigh ==
  ASSUME NEW n \in 0 .. V6Bytes
  PROVE  Weights(OctetWeights(n), Pow2[ByteBits], n)
<1>1. ByteBits \in Nat \ {0} /\ V6Bytes \in Nat /\ n \in Nat /\ V6Bits = V6Bytes * ByteBits
  BY Widths
<1>2. ASSUME NEW j \in 0 .. V6Bytes PROVE ByteBits * j \in 0 .. V6Bits
  <2>1. ByteBits * j \in Nat /\ ByteBits * j <= ByteBits * V6Bytes
    BY <1>1, TimesAtMost
  <2>2. ByteBits * V6Bytes = V6Bits /\ V6Bits \in Nat
    BY <1>1, Widths
  <2> DEFINE p == ByteBits * j
  <2> HIDE DEF p
  <2>3. p \in Nat /\ p <= V6Bits
    BY <2>1, <2>2 DEF p
  <2>4. p \in 0 .. V6Bits
    BY <2>2, <2>3
  <2> QED  BY <2>4 DEF p
<1>3. Pow2[ByteBits] \in Nat \ {0}
  <2>1. 1 \in 0 .. V6Bytes /\ ByteBits * 1 = ByteBits
    BY <1>1, Widths
  <2> QED  BY <1>2, <2>1, PowFacts
<1>4. OctetWeights(n) \in [0 .. n -> Nat \ {0}]
  <2>1. ASSUME NEW j \in 0 .. n PROVE Pow2[ByteBits * j] \in Nat \ {0}
    <3>1. j \in 0 .. V6Bytes
      BY <1>1
    <3>2. ByteBits * j \in 0 .. V6Bits
      BY <1>2, <3>1
    <3> QED  BY <3>2, PowFacts
  <2> QED  BY <2>1 DEF OctetWeights
<1>5. ASSUME NEW k \in 0 .. n - 1
      PROVE  OctetWeights(n)[k + 1] = OctetWeights(n)[k] * Pow2[ByteBits]
  <2> DEFINE p == ByteBits * k
  <2>1. k \in 0 .. V6Bytes /\ k + 1 \in 0 .. V6Bytes /\ k \in 0 .. n /\ k + 1 \in 0 .. n
    BY <1>1
  <2>2. p \in Nat /\ ByteBits * (k + 1) = p + ByteBits /\ ByteBits * (k + 1) \in 0 .. V6Bits
    BY <1>1, <1>2, <2>1
  <2>3. OctetWeights(n)[k + 1] = Pow2[ByteBits * (k + 1)] /\ OctetWeights(n)[k] = Pow2[p]
    BY <2>1 DEF OctetWeights
  <2> HIDE DEF p
  <2>4. p + ByteBits <= V6Bits
    BY <2>2, Widths
  <2>5. Pow2[p + ByteBits] = Pow2[p] * Pow2[ByteBits]
    BY <1>1, <2>2, <2>4, PowSum
  <2> QED  BY <2>2, <2>3, <2>5
<1> QED  BY <1>3, <1>4, <1>5 DEF Weights

\* The octets of an address are its digits in the base of a byte.
LEMMA OctetDigits ==
  ASSUME NEW ip \in IpAddr, NEW n, n = Bytes(ip.family)
  PROVE  /\ n \in 1 .. V6Bytes
         /\ ip_octets(ip) = [k \in 1 .. n |-> DigitAt(ip.bits, n - k, OctetWeights(n), Pow2[ByteBits])]
         /\ ip.bits < OctetWeights(n)[n]
<1>1. /\ ByteBits \in Nat \ {0} /\ V4Bytes \in Nat \ {0} /\ V6Bytes \in Nat \ {0}
      /\ V4Bytes < V6Bytes
      /\ V4Bits = V4Bytes * ByteBits /\ V6Bits = V6Bytes * ByteBits
  BY Widths, MaskAssumption
<1>2. n \in 1 .. V6Bytes
  BY <1>1 DEF Bytes
<1>3. \A k \in 1 .. n : n - k \in 0 .. n
  BY <1>1, <1>2
<1>4. \A k \in 1 .. n : OctetWeights(n)[n - k] = Pow2[ByteBits * (n - k)]
  BY <1>3 DEF OctetWeights
<1>5. ip_octets(ip) = [k \in 1 .. n |-> (ip.bits \div Pow2[ByteBits * (n - k)]) % Pow2[ByteBits]]
  BY DEF ip_octets, Bytes
<1>6. ip_octets(ip) = [k \in 1 .. n |-> DigitAt(ip.bits, n - k, OctetWeights(n), Pow2[ByteBits])]
  BY <1>4, <1>5 DEF DigitAt
<1>7. OctetWeights(n)[n] = Pow2[ByteBits * n]
  BY <1>2 DEF OctetWeights
<1>8. ip.family = "V4" => n = V4Bytes /\ ByteBits * n = V4Bits
  BY <1>1 DEF Bytes
<1>9. ip.family = "V6" => n = V6Bytes /\ ByteBits * n = V6Bits
  BY <1>1 DEF Bytes
<1>10. ip.bits < OctetWeights(n)[n]
  BY <1>7, <1>8, <1>9, AddressFields
<1> QED  BY <1>2, <1>6, <1>10

\* The octets determine the address and its family.
LEMMA OctetsInjective ==
  ASSUME NEW b \in IpAddr, NEW c \in IpAddr, ip_octets(b) = ip_octets(c)
  PROVE  b = c
<1> DEFINE n == Bytes(b.family)
           m == Bytes(c.family)
           W == OctetWeights(n)
           e == Pow2[ByteBits]
           x == b.bits
           y == c.bits
<1>1. n \in 1 .. V6Bytes /\ m \in 1 .. V6Bytes /\ V6Bytes \in Nat
  BY OctetDigits, Widths
<1>2. ip_octets(b) = [k \in 1 .. n |-> DigitAt(x, n - k, W, e)] /\ x < W[n]
  BY OctetDigits
<1>3. ip_octets(c) = [k \in 1 .. m |-> DigitAt(y, m - k, OctetWeights(m), e)]
      /\ y < OctetWeights(m)[m]
  BY OctetDigits
<1>4. n = m
  <2> HIDE DEF n, m
  <2>1. 1 .. n = 1 .. m
    <3>1. DOMAIN ip_octets(b) = 1 .. n
      BY <1>2
    <3>2. DOMAIN ip_octets(c) = 1 .. m
      BY <1>3
    <3> QED  BY <3>1, <3>2
  <2>2. n \in 1 .. m /\ m \in 1 .. n
    BY <1>1, <2>1
  <2> QED  BY <1>1, <2>2
<1>5. b.family = c.family
  <2>1. V4Bytes # V6Bytes
    BY MaskAssumption
  <2>2. b.family \in {"V4", "V6"} /\ c.family \in {"V4", "V6"}
    BY AddressFields
  <2> QED  BY <1>4, <2>1, <2>2 DEF Bytes
<1>6. Weights(W, e, n)
  BY <1>1, OctetsWeigh
<1>7. x \in Nat /\ y \in Nat
  BY AddressFields
<1>8. ip_octets(c) = [k \in 1 .. n |-> DigitAt(y, n - k, W, e)] /\ y < W[n]
  BY <1>3, <1>4
<1> HIDE DEF n, m, W, e, x, y
<1>9. SameDigits(x, y, 0, n, W, e)
  <2> SUFFICES ASSUME NEW j \in 0 .. n - 1 PROVE DigitAt(x, j, W, e) = DigitAt(y, j, W, e)
    BY DEF SameDigits
  <2>1. n - j \in 1 .. n /\ n - (n - j) = j
    BY <1>1
  <2>2. ip_octets(b)[n - j] = DigitAt(x, n - (n - j), W, e)
    BY <1>2, <2>1
  <2>3. ip_octets(c)[n - j] = DigitAt(y, n - (n - j), W, e)
    BY <1>8, <2>1
  <2> QED  BY <2>1, <2>2, <2>3
<1>10. Above(x, 0, W) = Above(y, 0, W)
  <2>1. n \in Nat /\ 0 \in 0 .. n
    BY <1>1
  <2> QED  BY <1>2, <1>6, <1>7, <1>8, <1>9, <2>1, HighDigits
<1>11. W[0] = 1
  <2>1. 0 \in 0 .. n /\ ByteBits * 0 = 0
    BY <1>1, Widths
  <2>2. W[0] = Pow2[ByteBits * 0]
    BY <2>1 DEF W, OctetWeights
  <2> QED  BY <2>1, <2>2, PowFacts
<1>12. x = y
  BY <1>7, <1>10, <1>11 DEF Above
<1> QED  BY <1>5, <1>12, AddressFields DEF x, y

-----------------------------------------------------------------------------
(* Framing.                                                                *)

\* Concatenation as an operator that the provers see only through these facts.
Cat(s, t) == s \o t

\* Its type and length.
LEMMA CatType ==
  ASSUME NEW s \in Seq(Nat), NEW t \in Seq(Nat)
  PROVE  /\ Cat(s, t) \in Seq(Nat) /\ Len(Cat(s, t)) = Len(s) + Len(t)
         /\ Len(s) \in Nat /\ Len(t) \in Nat
BY ConcatProperties, LenProperties DEF Cat

\* The element at k is one of the first operand's or of the second's.
LEMMA CatElement ==
  ASSUME NEW s \in Seq(Nat), NEW t \in Seq(Nat), NEW k \in 1 .. Len(s) + Len(t)
  PROVE  Cat(s, t)[k] = IF k <= Len(s) THEN s[k] ELSE t[k - Len(s)]
BY ConcatProperties DEF Cat

\* Concatenation is associative, element by element.
LEMMA CatAssociative ==
  \A s, t, u \in Seq(Nat) : Cat(Cat(s, t), u) = Cat(s, Cat(t, u))
<1> SUFFICES ASSUME NEW s \in Seq(Nat), NEW t \in Seq(Nat), NEW u \in Seq(Nat)
             PROVE  Cat(Cat(s, t), u) = Cat(s, Cat(t, u))
  OBVIOUS
<1> DEFINE st == Cat(s, t)
           tu == Cat(t, u)
           l == Cat(st, u)
           r == Cat(s, tu)
<1>1. /\ st \in Seq(Nat) /\ Len(st) = Len(s) + Len(t)
      /\ tu \in Seq(Nat) /\ Len(tu) = Len(t) + Len(u)
      /\ Len(s) \in Nat /\ Len(t) \in Nat /\ Len(u) \in Nat
  BY CatType
<1>2. \A k \in 1 .. Len(s) + Len(t) : st[k] = IF k <= Len(s) THEN s[k] ELSE t[k - Len(s)]
  BY CatElement
<1>3. \A k \in 1 .. Len(t) + Len(u) : tu[k] = IF k <= Len(t) THEN t[k] ELSE u[k - Len(t)]
  BY CatElement
<1> HIDE DEF st, tu
<1>4. /\ l \in Seq(Nat) /\ Len(l) = Len(s) + Len(t) + Len(u)
      /\ r \in Seq(Nat) /\ Len(r) = Len(s) + Len(t) + Len(u)
  <2>1. l \in Seq(Nat) /\ Len(l) = Len(st) + Len(u) /\ r \in Seq(Nat) /\ Len(r) = Len(s) + Len(tu)
    BY <1>1, CatType
  <2>2. QED BY <1>1, <2>1
<1>5. \A k \in 1 .. Len(st) + Len(u) : l[k] = IF k <= Len(st) THEN st[k] ELSE u[k - Len(st)]
  BY <1>1, CatElement
<1>6. \A k \in 1 .. Len(s) + Len(tu) : r[k] = IF k <= Len(s) THEN s[k] ELSE tu[k - Len(s)]
  BY <1>1, CatElement
<1> HIDE DEF l, r
<1>7. ASSUME NEW k \in 1 .. Len(l) PROVE l[k] = r[k]
  <2> DEFINE a == Len(s)
             b == Len(t)
             c == Len(u)
  <2>1. /\ a \in Nat /\ b \in Nat /\ c \in Nat
        /\ Len(st) = a + b /\ Len(tu) = b + c /\ Len(l) = a + b + c
    BY <1>1, <1>4
  <2>2. /\ \A j \in 1 .. a + b : st[j] = IF j <= a THEN s[j] ELSE t[j - a]
        /\ \A j \in 1 .. b + c : tu[j] = IF j <= b THEN t[j] ELSE u[j - b]
    BY <1>2, <1>3
  <2>3. /\ \A j \in 1 .. (a + b) + c : l[j] = IF j <= a + b THEN st[j] ELSE u[j - (a + b)]
        /\ \A j \in 1 .. a + (b + c) : r[j] = IF j <= a THEN s[j] ELSE tu[j - a]
    BY <1>5, <1>6, <2>1
  <2> HIDE DEF a, b, c
  <2>4. k \in 1 .. a + b + c
    BY <2>1
  <2>5. CASE k <= a
    <3>1. k \in 1 .. a + b /\ k <= a + b
      BY <2>1, <2>4, <2>5
    <3>2. l[k] = st[k] /\ st[k] = s[k] /\ r[k] = s[k]
      BY <2>1, <2>2, <2>3, <2>4, <2>5, <3>1
    <3>3. QED BY <3>2
  <2>6. CASE ~(k <= a) /\ k <= a + b
    <3> DEFINE m == k - a
    <3>1. m \in 1 .. b + c /\ m <= b /\ k \in 1 .. a + b
      BY <2>1, <2>4, <2>6
    <3>2. l[k] = st[k] /\ st[k] = t[m] /\ r[k] = tu[m]
      BY <2>1, <2>2, <2>3, <2>4, <2>6, <3>1
    <3> HIDE DEF m
    <3>3. QED BY <2>2, <3>1, <3>2
  <2>7. CASE ~(k <= a + b)
    <3> DEFINE m == k - a
    <3>1. m \in 1 .. b + c /\ ~(m <= b) /\ m - b = k - (a + b) /\ ~(k <= a)
      BY <2>1, <2>4, <2>7
    <3>2. l[k] = u[k - (a + b)]
      BY <2>1, <2>3, <2>4, <2>7
    <3>3. r[k] = tu[m]
      BY <2>1, <2>3, <2>4, <3>1
    <3> HIDE DEF m
    <3>4. QED BY <2>2, <3>1, <3>2, <3>3
  <2>8. QED BY <2>5, <2>6, <2>7
<1>8. Len(l) = Len(r)
  BY <1>4
<1>9. l = r
  BY <1>4, <1>7, <1>8, SeqEqual
<1>10. QED BY <1>9 DEF l, r, st, tu

\* Nothing is appended.
LEMMA CatEmpty == \A s \in Seq(Nat) : Cat(s, <<>>) = s
BY ConcatEmptySeq DEF Cat

\* What precedes a part in the frame, and the part with it.
LEMMA PartType ==
  ASSUME NEW p, Framable(p)
  PROVE  /\ LenCode[Len(p)] \in Seq(Nat) /\ Len(LenCode[Len(p)]) = LenBytes
         /\ Part(p) \in Seq(Nat) /\ Len(Part(p)) = LenBytes + Len(p)
         /\ LenBytes \in Nat /\ Len(p) \in Nat
<1>1. /\ LenCode[Len(p)] \in Seq(Nat) /\ Len(LenCode[Len(p)]) = LenBytes
      /\ LenBytes \in Nat
  BY LenAssumption DEF Framable
<1>2. p \in Seq(Nat) /\ Len(p) \in Nat
  BY LenProperties DEF Framable
<1>3. QED BY <1>1, <1>2, ConcatProperties DEF Part

\* The elements of a concatenation, counted from the start of either operand.
LEMMA CatElements ==
  ASSUME NEW s \in Seq(Nat), NEW t \in Seq(Nat)
  PROVE  /\ \A k \in 1 .. Len(s) : Cat(s, t)[k] = s[k]
         /\ \A k \in 1 .. Len(t) : Cat(s, t)[Len(s) + k] = t[k]
<1>1. Len(s) \in Nat /\ Len(t) \in Nat
  BY LenProperties
<1>2. \A k \in 1 .. Len(s) + Len(t) :
        Cat(s, t)[k] = IF k <= Len(s) THEN s[k] ELSE t[k - Len(s)]
  BY ConcatProperties DEF Cat
<1>3. ASSUME NEW k \in 1 .. Len(s) PROVE Cat(s, t)[k] = s[k]
  <2>1. k \in 1 .. Len(s) + Len(t) /\ k <= Len(s)
    BY <1>1
  <2>2. QED BY <1>2, <2>1
<1>4. ASSUME NEW k \in 1 .. Len(t) PROVE Cat(s, t)[Len(s) + k] = t[k]
  <2> DEFINE j == Len(s) + k
  <2>1. j \in 1 .. Len(s) + Len(t) /\ ~(j <= Len(s)) /\ j - Len(s) = k
    BY <1>1
  <2> HIDE DEF j
  <2>2. Cat(s, t)[j] = t[j - Len(s)]
    BY <1>2, <2>1
  <2>3. QED BY <2>1, <2>2 DEF j
<1>5. QED BY <1>3, <1>4

\* The elements of a part that begins a longer sequence: first the encoded
\* length, then the part, then the rest.
LEMMA PartElements ==
  ASSUME NEW p, Framable(p), NEW x \in Seq(Nat)
  PROVE  /\ Len(Cat(Part(p), x)) = LenBytes + Len(p) + Len(x)
         /\ \A k \in 1 .. LenBytes : Cat(Part(p), x)[k] = LenCode[Len(p)][k]
         /\ \A k \in 1 .. Len(p) : Cat(Part(p), x)[LenBytes + k] = p[k]
         /\ \A k \in 1 .. Len(x) : Cat(Part(p), x)[LenBytes + Len(p) + k] = x[k]
<1> DEFINE code == LenCode[Len(p)]
           part == Part(p)
<1>1. /\ code \in Seq(Nat) /\ Len(code) = LenBytes
      /\ part \in Seq(Nat) /\ Len(part) = LenBytes + Len(p)
      /\ LenBytes \in Nat /\ Len(p) \in Nat /\ p \in Seq(Nat)
      /\ part = Cat(code, p)
  BY PartType DEF Framable, Part, Cat
<1> HIDE DEF code, part
<1>2. Len(Cat(part, x)) = LenBytes + Len(p) + Len(x)
  <2>1. Len(Cat(part, x)) = Len(part) + Len(x)
    BY <1>1, CatType
  <2>2. QED BY <1>1, <2>1
<1>3. ASSUME NEW k \in 1 .. LenBytes + Len(p) PROVE Cat(part, x)[k] = part[k]
  <2>1. k \in 1 .. Len(part)
    BY <1>1
  <2>2. QED BY <1>1, <2>1, CatElements
<1>4. \A k \in 1 .. LenBytes : part[k] = code[k]
  BY <1>1, CatElements
<1>5. \A k \in 1 .. Len(p) : part[LenBytes + k] = p[k]
  BY <1>1, CatElements
<1>6. ASSUME NEW k \in 1 .. Len(x) PROVE Cat(part, x)[LenBytes + Len(p) + k] = x[k]
  <2>1. Cat(part, x)[Len(part) + k] = x[k]
    BY <1>1, CatElements
  <2>2. Len(part) = LenBytes + Len(p)
    BY <1>1
  <2>3. QED BY <2>1, <2>2
<1>7. \A k \in 1 .. LenBytes : Cat(part, x)[k] = code[k]
  BY <1>1, <1>3, <1>4
<1>8. ASSUME NEW k \in 1 .. Len(p) PROVE Cat(part, x)[LenBytes + k] = p[k]
  <2>1. LenBytes + k \in 1 .. LenBytes + Len(p)
    BY <1>1
  <2>2. QED BY <1>3, <1>5, <2>1
<1>9. QED BY <1>2, <1>6, <1>7, <1>8 DEF code, part

\* The first part of a frame can be read back: its length is at a fixed place.
LEMMA PartInjective ==
  ASSUME NEW p, NEW q, Framable(p), Framable(q),
         NEW x \in Seq(Nat), NEW y \in Seq(Nat), Cat(Part(p), x) = Cat(Part(q), y)
  PROVE  p = q /\ x = y
<1>1. /\ LenCode[Len(p)] \in Seq(Nat) /\ Len(LenCode[Len(p)]) = LenBytes
      /\ LenCode[Len(q)] \in Seq(Nat) /\ Len(LenCode[Len(q)]) = LenBytes
      /\ LenBytes \in Nat /\ Len(p) \in Nat /\ Len(q) \in Nat
      /\ p \in Seq(Nat) /\ q \in Seq(Nat)
  BY PartType DEF Framable
<1>2. \A k \in 1 .. LenBytes : LenCode[Len(p)][k] = LenCode[Len(q)][k]
  <2>1. \A k \in 1 .. LenBytes : Cat(Part(p), x)[k] = LenCode[Len(p)][k]
    BY PartElements
  <2>2. \A k \in 1 .. LenBytes : Cat(Part(q), y)[k] = LenCode[Len(q)][k]
    BY PartElements
  <2>3. QED BY <2>1, <2>2
<1>3. LenCode[Len(p)] = LenCode[Len(q)]
  BY <1>1, <1>2, SeqEqual
<1>4. Len(p) = Len(q)
  BY <1>3, LenAssumption DEF Framable
<1>5. \A k \in 1 .. Len(p) : p[k] = q[k]
  <2>1. \A k \in 1 .. Len(p) : Cat(Part(p), x)[LenBytes + k] = p[k]
    BY PartElements
  <2>2. \A k \in 1 .. Len(q) : Cat(Part(q), y)[LenBytes + k] = q[k]
    BY PartElements
  <2>3. QED BY <1>4, <2>1, <2>2
<1>6. p = q
  BY <1>1, <1>4, <1>5, SeqEqual
<1>7. Len(x) = Len(y)
  <2>1. /\ Len(Cat(Part(p), x)) = LenBytes + Len(p) + Len(x)
        /\ Len(Cat(Part(q), y)) = LenBytes + Len(q) + Len(y)
    BY PartElements
  <2>2. Len(x) \in Nat /\ Len(y) \in Nat
    BY LenProperties
  <2>3. QED BY <1>1, <1>4, <2>1, <2>2
<1>8. \A k \in 1 .. Len(x) : x[k] = y[k]
  <2>1. \A k \in 1 .. Len(x) : Cat(Part(p), x)[LenBytes + Len(p) + k] = x[k]
    BY PartElements
  <2>2. \A k \in 1 .. Len(y) : Cat(Part(q), y)[LenBytes + Len(q) + k] = y[k]
    BY PartElements
  <2>3. QED BY <1>4, <1>7, <2>1, <2>2
<1>9. x = y
  BY <1>7, <1>8, SeqEqual
<1>10. QED BY <1>6, <1>9

\* A frame is its first part followed by the frame of the others.
LEMMA FrameFolds ==
  ASSUME NEW a \in Seq(Nat), NEW b \in Seq(Nat), NEW c \in Seq(Nat), NEW d \in Seq(Nat)
  PROVE  /\ Cat(Cat(Cat(a, b), c), d) = Cat(a, Cat(b, Cat(c, d)))
         /\ Cat(c, d) \in Seq(Nat)
         /\ Cat(b, Cat(c, d)) \in Seq(Nat)
<1>1. Cat(a, b) \in Seq(Nat) /\ Cat(c, d) \in Seq(Nat)
  BY CatType
<1>2. Cat(b, Cat(c, d)) \in Seq(Nat)
  BY <1>1, CatType
<1>3. Cat(Cat(Cat(a, b), c), d) = Cat(Cat(a, b), Cat(c, d))
  BY <1>1, CatAssociative
<1>4. Cat(Cat(a, b), Cat(c, d)) = Cat(a, Cat(b, Cat(c, d)))
  BY <1>1, CatAssociative
<1>5. QED BY <1>1, <1>2, <1>3, <1>4

\* The frame of four parts determines each of them: the boundary between a
\* user agent and a salt, say, cannot be moved.
THEOREM FrameInjective ==
  ASSUME NEW a1, NEW b1, NEW c1, NEW d1, NEW a2, NEW b2, NEW c2, NEW d2,
         Framable(a1), Framable(b1), Framable(c1), Framable(d1),
         Framable(a2), Framable(b2), Framable(c2), Framable(d2),
         frame(a1, b1, c1, d1) = frame(a2, b2, c2, d2)
  PROVE  a1 = a2 /\ b1 = b2 /\ c1 = c2 /\ d1 = d2
<1>1. /\ Part(a1) \in Seq(Nat) /\ Part(a2) \in Seq(Nat)
      /\ Part(b1) \in Seq(Nat) /\ Part(b2) \in Seq(Nat)
      /\ Part(c1) \in Seq(Nat) /\ Part(c2) \in Seq(Nat)
      /\ Part(d1) \in Seq(Nat) /\ Part(d2) \in Seq(Nat)
  BY PartType
<1>2. \A a, b, c, d : frame(a, b, c, d) = Cat(Cat(Cat(Part(a), Part(b)), Part(c)), Part(d))
  BY DEF frame, Cat
<1>3. /\ frame(a1, b1, c1, d1) = Cat(Part(a1), Cat(Part(b1), Cat(Part(c1), Part(d1))))
      /\ Cat(Part(c1), Part(d1)) \in Seq(Nat)
      /\ Cat(Part(b1), Cat(Part(c1), Part(d1))) \in Seq(Nat)
  BY <1>1, <1>2, FrameFolds
<1>4. /\ frame(a2, b2, c2, d2) = Cat(Part(a2), Cat(Part(b2), Cat(Part(c2), Part(d2))))
      /\ Cat(Part(c2), Part(d2)) \in Seq(Nat)
      /\ Cat(Part(b2), Cat(Part(c2), Part(d2))) \in Seq(Nat)
  BY <1>1, <1>2, FrameFolds
<1>5. /\ a1 = a2
      /\ Cat(Part(b1), Cat(Part(c1), Part(d1))) = Cat(Part(b2), Cat(Part(c2), Part(d2)))
  <2>1. Cat(Part(a1), Cat(Part(b1), Cat(Part(c1), Part(d1))))
          = Cat(Part(a2), Cat(Part(b2), Cat(Part(c2), Part(d2))))
    BY <1>3, <1>4
  <2>2. QED BY <1>3, <1>4, <2>1, PartInjective
<1>6. b1 = b2 /\ Cat(Part(c1), Part(d1)) = Cat(Part(c2), Part(d2))
  BY <1>3, <1>4, <1>5, PartInjective
<1>7. c1 = c2 /\ Part(d1) = Part(d2)
  BY <1>1, <1>6, PartInjective
<1>8. d1 = d2
  <2>1. Cat(Part(d1), <<>>) = Cat(Part(d2), <<>>) /\ <<>> \in Seq(Nat)
    BY <1>7, EmptySeq
  <2>2. QED BY <2>1, PartInjective
<1>9. QED BY <1>5, <1>6, <1>7, <1>8

\* The octets of an address can be framed.
LEMMA OctetsFramable == ASSUME NEW ip \in IpAddr PROVE Framable(ip_octets(ip))
<1> DEFINE n == Bytes(ip.family)
           W == OctetWeights(n)
           e == Pow2[ByteBits]
<1>1. n \in 1 .. V6Bytes /\ V6Bytes \in Nat
  BY OctetDigits, Widths
<1>2. ip_octets(ip) = [k \in 1 .. n |-> DigitAt(ip.bits, n - k, W, e)]
  BY OctetDigits
<1>3. Weights(W, e, n) /\ ip.bits \in Nat
  BY <1>1, OctetsWeigh, AddressFields
<1>4. n \in DOMAIN LenCode
  BY StrategyAssumption DEF Bytes
<1> HIDE DEF n, W, e
<1>5. ASSUME NEW k \in 1 .. n PROVE DigitAt(ip.bits, n - k, W, e) \in Nat
  <2>1. W[n - k] \in Nat \ {0} /\ e \in Nat \ {0}
    BY <1>1, <1>3 DEF Weights
  <2>2. ip.bits \div W[n - k] \in Nat
    BY <1>3, <2>1, DivMod
  <2> DEFINE q == ip.bits \div W[n - k]
  <2> HIDE DEF q
  <2>3. (q % e) \in 0 .. e - 1
    BY <2>1, <2>2, DivMod DEF q
  <2>4. (q % e) \in Nat
    BY <2>1, <2>3
  <2> QED  BY <2>4 DEF DigitAt, q
<1>6. n \in Nat
  BY <1>1
<1>7. ip_octets(ip) \in Seq(Nat) /\ Len(ip_octets(ip)) = n
  <2>1. ip_octets(ip) \in [1 .. n -> Nat]
    BY <1>2, <1>5
  <2>2. ip_octets(ip) \in Seq(Nat)
    BY <1>6, <2>1, SeqDef
  <2>3. DOMAIN ip_octets(ip) = 1 .. n
    BY <2>1
  <2> QED  BY <1>6, <2>2, <2>3, LenProperties
<1> QED  BY <1>4, <1>7 DEF Framable

-----------------------------------------------------------------------------
(* The calls.                                                              *)

\* The provider and the locals of the calls in flight keep their types.
THEOREM TypeCorrect == Spec => []TypeOK
<1> USE SaltAssumption, StrategyAssumption
<1>1. Init => TypeOK
  BY DEF Init, SaltInit, TypeOK, SaltTypeOK
<1>2. TypeOK /\ [Next]_vars => TypeOK'
  <2> SUFFICES ASSUME TypeOK, [Next]_vars PROVE TypeOK'
    OBVIOUS
  <2> USE DEF TypeOK, SaltTypeOK, saltVars, callVars
  <2>1. CASE BuildSalt
    <3>1. PICK p \in Providers, s \in Salts : new(p, s) \/ try_new(p, s)
      BY <2>1 DEF BuildSalt
    <3>2. CASE UNCHANGED <<provider, cell, checked>> /\ outcome' \in {"panic", "SaltTooShort"}
      BY <2>1, <3>2 DEF BuildSalt
    <3>3. CASE /\ provider = None /\ provider' = p /\ cell' = s
               /\ checked' \in BOOLEAN /\ outcome' = "ok"
      <4>1. p # None
        BY <2>1, <3>1, <3>3 DEF BuildSalt, Providers
      <4>2. SaltTypeOK'
        BY <3>3, <4>1
      <4>3. QED BY <2>1, <3>3, <4>1, <4>2 DEF BuildSalt
    <3>4. QED BY <3>1, <3>2, <3>3 DEF new, try_new
  <2>2. CASE RotateSalt
    <3>1. PICK s \in Salts : set(s) /\ window' \in [Callers -> SUBSET Salts]
      BY <2>2 DEF RotateSalt
    <3>2. QED BY <2>2, <3>1 DEF RotateSalt, set, Providers
  <2>3. ASSUME NEW t \in Callers, NEW r \in RawEvents, Call(t, r) PROVE TypeOK'
    BY <2>3 DEF Call
  <2>4. ASSUME NEW t \in Callers, NoIp(t) PROVE TypeOK'
    BY <2>4 DEF NoIp
  <2>5. ASSUME NEW t \in Callers, LoadSalt(t) PROVE TypeOK'
    BY <2>5 DEF LoadSalt
  <2>6. ASSUME NEW t \in Callers, Hash(t) PROVE TypeOK'
    BY <2>6 DEF Hash
  <2>7. CASE UNCHANGED vars
    BY <2>7 DEF vars
  <2>8. QED BY <2>1, <2>2, <2>3, <2>4, <2>5, <2>6, <2>7 DEF Next
<1>3. QED BY <1>1, <1>2, PTL DEF Spec

\* A call in flight holds the salt in force in its window, and so the salt it
\* has loaded; an id in hand is made with one of the window.
CallInv ==
  \A t \in Callers :
    /\ pc[t] \in {"called", "salted"} => cell \in window[t]
    /\ pc[t] = "salted" => salt[t] \in window[t] /\ raw[t].ip # None
    /\ Identified(t) => \E s \in window[t] : visitor_id[t] = Id(raw[t], s)

\* CallInv is inductive.
LEMMA CallInvariant == Spec => []CallInv
<1> USE SaltAssumption, StrategyAssumption
<1>1. Init => CallInv
  BY DEF Init, CallInv, Identified
<1>2. TypeOK /\ CallInv /\ [Next]_vars => CallInv'
  <2> SUFFICES ASSUME TypeOK, CallInv, [Next]_vars PROVE CallInv'
    OBVIOUS
  <2> USE DEF TypeOK, SaltTypeOK, CallInv, Identified, Id, saltVars, callVars
  <2>1. CASE BuildSalt
    <3>1. PICK p \in Providers, s \in Salts : new(p, s) \/ try_new(p, s)
      BY <2>1 DEF BuildSalt
    <3>2. provider = None /\ UNCHANGED <<mode, callVars>>
      BY <2>1, <3>1 DEF BuildSalt, new, try_new
    <3>3. \A t \in Callers : pc'[t] = "idle"
      BY <3>2
    <3>4. QED BY <3>3
  <2>2. CASE RotateSalt
    <3>1. PICK s \in Salts :
            /\ cell' = s
            /\ window' = [t \in Callers |-> IF pc[t] \in {"called", "salted"}
                                            THEN window[t] \union {s} ELSE window[t]]
      BY <2>2 DEF RotateSalt, set
    <3>2. UNCHANGED <<mode, pc, raw, salt, visitor_id>>
      BY <2>2 DEF RotateSalt
    <3>3. QED BY <3>1, <3>2
  <2>3. ASSUME NEW t \in Callers, NEW r \in RawEvents, Call(t, r) PROVE CallInv'
    BY <2>3 DEF Call
  <2>4. ASSUME NEW t \in Callers, NoIp(t) PROVE CallInv'
    BY <2>4 DEF NoIp
  <2>5. ASSUME NEW t \in Callers, LoadSalt(t) PROVE CallInv'
    BY <2>5 DEF LoadSalt
  <2>6. ASSUME NEW t \in Callers, Hash(t) PROVE CallInv'
    BY <2>6 DEF Hash
  <2>7. CASE UNCHANGED vars
    BY <2>7 DEF vars
  <2>8. QED BY <2>1, <2>2, <2>3, <2>4, <2>5, <2>6, <2>7 DEF Next
<1>3. QED BY <1>1, <1>2, TypeCorrect, PTL DEF Spec

\* Every id is made with one salt that was in force during its call.
THEOREM IdsFromCurrentSalt == Spec => []IdFromCurrentSalt
<1>1. CallInv => IdFromCurrentSalt
  BY DEF CallInv, IdFromCurrentSalt
<1>2. QED BY <1>1, CallInvariant, PTL

\* What two calls with equal ids have in common.
SameParts(t, u) ==
  /\ mask_ip(raw[t].ip, mode) = mask_ip(raw[u].ip, mode)
  /\ OrEmpty(raw[t].user_agent) = OrEmpty(raw[u].user_agent)
  /\ OrEmpty(raw[t].entity_id) = OrEmpty(raw[u].entity_id)
  /\ window[t] \intersect window[u] # {}

\* Equal ids are ids of equal frames, whose parts are equal, and the octets of
\* an address determine it.
LEMMA EqualIdsEqualParts ==
  ASSUME TypeOK, CallInv, NEW t \in Callers, NEW u \in Callers,
         Identified(t), Identified(u), visitor_id[t] = visitor_id[u]
  PROVE  SameParts(t, u)
<1>1. PICK s \in window[t] : visitor_id[t] = Id(raw[t], s)
  BY DEF CallInv
<1>2. PICK v \in window[u] : visitor_id[u] = Id(raw[u], v)
  BY DEF CallInv
<1> DEFINE it == mask_ip(raw[t].ip, mode)
           iu == mask_ip(raw[u].ip, mode)
           et == OrEmpty(raw[t].entity_id)
           eu == OrEmpty(raw[u].entity_id)
           at == OrEmpty(raw[t].user_agent)
           au == OrEmpty(raw[u].user_agent)
<1>3. /\ raw[t] \in RawEvents /\ raw[t].ip # None
      /\ raw[u] \in RawEvents /\ raw[u].ip # None
      /\ s \in Salts /\ v \in Salts /\ mode \in Modes
  BY DEF TypeOK, Identified
<1>4. raw[t].ip \in IpAddr /\ raw[u].ip \in IpAddr
  BY <1>3, StrategyAssumption
<1>5. it \in IpAddr /\ iu \in IpAddr
  BY <1>3, <1>4, MaskType
<1>6. /\ Framable(et) /\ Framable(at) /\ Framable(s)
      /\ Framable(eu) /\ Framable(au) /\ Framable(v)
  BY <1>3, StrategyAssumption
<1>7. frame(et, ip_octets(it), at, s) = frame(eu, ip_octets(iu), au, v)
  BY <1>1, <1>2 DEF Id
<1> HIDE DEF it, iu, et, eu, at, au
<1>8. Framable(ip_octets(it)) /\ Framable(ip_octets(iu))
  BY <1>5, OctetsFramable
<1>9. et = eu /\ ip_octets(it) = ip_octets(iu) /\ at = au /\ s = v
  BY <1>6, <1>7, <1>8, FrameInjective
<1>10. it = iu
  BY <1>5, <1>9, OctetsInjective
<1> QED  BY <1>9, <1>10 DEF SameParts, it, iu, et, eu, at, au

\* Equal ids stand for one visitor and one salt: calls for different sites, user
\* agents or entities, or on two sides of a rotation, never return the same id.
THEOREM EqualIdsOneVisitor == Spec => []SameIdSameVisitor
<1>1. TypeOK /\ CallInv => SameIdSameVisitor
  <2> SUFFICES ASSUME TypeOK, CallInv, NEW t \in Callers, NEW u \in Callers,
                      Identified(t), Identified(u), visitor_id[t] = visitor_id[u]
               PROVE  SameVisitor(raw[t], raw[u]) /\ window[t] \intersect window[u] # {}
    BY DEF SameIdSameVisitor
  <2>1. SameParts(t, u)
    BY EqualIdsEqualParts
  <2>2. raw[t].ip \in IpAddr /\ raw[u].ip \in IpAddr /\ mode \in Modes
    BY StrategyAssumption DEF TypeOK, Identified
  <2>3. Site(raw[t].ip) = Site(raw[u].ip)
    BY <2>1, <2>2, MaskIsSite DEF SameParts
  <2> QED  BY <2>1, <2>3 DEF SameParts, SameVisitor
<1> QED  BY <1>1, TypeCorrect, CallInvariant, PTL

\* One visitor has one id between two rotations: the bits below the prefix and
\* the family an address came in leave no trace in the frame.
THEOREM OneVisitorOneId == Spec => []StableId
<1>1. TypeOK /\ CallInv => StableId
  <2> SUFFICES ASSUME TypeOK, CallInv, NEW t \in Callers, NEW u \in Callers,
                      Identified(t), Identified(u), SameVisitor(raw[t], raw[u]),
                      window[t] = window[u], NEW s \in Salts, window[t] = {s}
               PROVE  visitor_id[t] = visitor_id[u]
    BY DEF StableId
  <2>1. raw[t].ip \in IpAddr /\ raw[u].ip \in IpAddr /\ mode \in Modes
    BY StrategyAssumption DEF TypeOK, Identified
  <2>2. mask_ip(raw[t].ip, mode) = mask_ip(raw[u].ip, mode)
    BY <2>1, MaskIsSite DEF SameVisitor
  <2>3. Id(raw[t], s) = Id(raw[u], s)
    BY <2>2 DEF Id, SameVisitor
  <2>4. visitor_id[t] = Id(raw[t], s) /\ visitor_id[u] = Id(raw[u], s)
    BY DEF CallInv
  <2> QED  BY <2>3, <2>4
<1> QED  BY <1>1, TypeCorrect, CallInvariant, PTL
=============================================================================
