---------------------------- MODULE Base62Proofs ----------------------------
(***************************************************************************)
(* base62 for digests of any length: no quotient is truncated, the id has  *)
(* between one and two digits per byte, and it is the digest in base 62.   *)
(***************************************************************************)
EXTENDS Base62, WellFoundedInduction, TLAPS

-----------------------------------------------------------------------------
(* Induction, as a fact about sets of numbers.                             *)

\* < as a relation.
LEMMA LessThan == \A x, y \in Nat : <<x, y>> \in OpToRel(<, Nat) <=> x < y
BY DEF OpToRel

\* A set of numbers has a least element.
LEMMA LeastNat ==
  ASSUME NEW T \in SUBSET Nat, T # {}
  PROVE  \E m \in T : \A k \in T : m <= k
<1> DEFINE R == OpToRel(<, Nat)
<1>1. IsWellFoundedOn(R, Nat)
  BY NatLessThanWellFounded
<1>2. \A x, y \in Nat : <<x, y>> \in R <=> x < y
  BY LessThan
<1> HIDE DEF R
<1>3. PICK m \in T : \A y \in T : <<y, m>> \notin R
  BY <1>1, WFMin
<1>4. \A x \in T : x \in Nat
  OBVIOUS
<1>5. \A k \in T : ~(k < m)
  BY <1>2, <1>3, <1>4
<1> QED  BY <1>4, <1>5

\* Induction.
LEMMA Induction ==
  ASSUME NEW T, 0 \in T, \A n \in Nat : n \in T => n + 1 \in T
  PROVE  \A n \in Nat : n \in T
<1> SUFFICES ASSUME Nat \ T # {} PROVE FALSE
  OBVIOUS
<1>1. PICK m \in Nat \ T : \A k \in Nat \ T : m <= k
  BY LeastNat
<1>2. m # 0 /\ m - 1 \in Nat /\ m - 1 \in T
  BY <1>1
<1> QED  BY <1>1, <1>2

-----------------------------------------------------------------------------
(* Numbers and their digits.                                               *)

\* n digits, and two of them that agree.
Digits(d, n) == \A k \in 1 .. n : d[k] \in Nat
Agree(d, e, n) == \A k \in 1 .. n : d[k] = e[k]

\* The digits of e are those of d, which has n, after the first m.
Follow(e, d, m, n) == \A k \in 1 .. n - m : e[k] = d[m + k]

\* What Number computes, digit by digit.
Values(f, v, d, n, b) ==
  f[0] = v /\ \A k \in 0 .. n - 1 : f[k + 1] = f[k] * b + d[k + 1]

\* x is the last of them.
LastValue(x, v, d, n, b) == \E f : Values(f, v, d, n, b) /\ x = f[n]

\* The values are determined by the first one and the digits.
LEMMA ValuesAgree ==
  ASSUME NEW v \in Nat, NEW b \in Nat, NEW n \in Nat, NEW d, NEW e,
         Agree(d, e, n),
         NEW f, Values(f, v, d, n, b), NEW m \in Nat, n <= m, NEW g, Values(g, v, e, m, b)
  PROVE  f[n] = g[n]
<1> DEFINE T == {k \in Nat : k <= n => f[k] = g[k]}
<1>1. 0 \in T
  BY DEF Values
<1>2. ASSUME NEW k \in Nat, k \in T PROVE k + 1 \in T
  <2> SUFFICES ASSUME k + 1 <= n PROVE f[k + 1] = g[k + 1]
    OBVIOUS
  <2>1. f[k] = g[k] /\ k \in 0 .. n - 1 /\ k \in 0 .. m - 1 /\ d[k + 1] = e[k + 1]
    BY <1>2 DEF Agree
  <2>2. f[k + 1] = f[k] * b + d[k + 1] /\ g[k + 1] = g[k] * b + e[k + 1]
    BY <2>1 DEF Values
  <2>3. QED BY <2>1, <2>2
<1> HIDE DEF T
<1>3. \A k \in Nat : k \in T
  BY <1>1, <1>2, Induction
<1>4. QED BY <1>3 DEF T

\* Number is the last of these values.
LEMMA NumberIsLastValue ==
  ASSUME NEW v \in Nat, NEW b \in Nat, NEW n \in Nat, NEW d,
         Digits(d, n)
  PROVE  Number(v, d, n, b) \in Nat /\ LastValue(Number(v, d, n, b), v, d, n, b)
<1> DEFINE Is(f) == f = [k \in 0 .. n |-> IF k = 0 THEN v ELSE f[k - 1] * b + d[k]]
           T == {j \in Nat : j <= n => \E f \in [0 .. j -> Nat] : Values(f, v, d, j, b)}
<1>1. 0 \in T
  <2>1. [k \in 0 .. 0 |-> v] \in [0 .. 0 -> Nat] /\ Values([k \in 0 .. 0 |-> v], v, d, 0, b)
    BY DEF Values
  <2>2. QED BY <2>1
<1>2. ASSUME NEW j \in Nat, j \in T PROVE j + 1 \in T
  <2> SUFFICES ASSUME j + 1 <= n
               PROVE  \E f \in [0 .. j + 1 -> Nat] : Values(f, v, d, j + 1, b)
    OBVIOUS
  <2>1. PICK f \in [0 .. j -> Nat] : Values(f, v, d, j, b)
    BY <1>2
  <2>2. d[j + 1] \in Nat /\ f[j] \in Nat
    BY <2>1 DEF Digits
  <2> DEFINE w == f[j] * b + d[j + 1]
             g == [k \in 0 .. j + 1 |-> IF k <= j THEN f[k] ELSE w]
  <2>3. w \in Nat
    <3> HIDE DEF T
    <3>1. \A x, y, z \in Nat : x * y + z \in Nat
      OBVIOUS
    <3>2. QED BY <2>2, <3>1, Zenon
  <2>4. g[0] = v
    BY <2>1 DEF Values
  <2>5. ASSUME NEW k \in 0 .. (j + 1) - 1 PROVE g[k + 1] = g[k] * b + d[k + 1]
    <3>1. CASE k < j
      <4>1. g[k] = f[k] /\ g[k + 1] = f[k + 1] /\ f[k + 1] = f[k] * b + d[k + 1]
        BY <2>1, <3>1 DEF Values
      <4>2. QED BY <4>1
    <3>2. CASE k = j
      <4>1. g[k] = f[j] /\ g[k + 1] = w
        BY <3>2
      <4>2. QED BY <3>2, <4>1
    <3>3. QED BY <3>1, <3>2
  <2>6. g \in [0 .. j + 1 -> Nat]
    BY <2>1, <2>3
  <2> HIDE DEF g
  <2>7. Values(g, v, d, j + 1, b)
    BY <2>4, <2>5 DEF Values
  <2>8. QED BY <2>6, <2>7
<1> HIDE DEF T
<1>3. \A j \in Nat : j \in T
  BY <1>1, <1>2, Induction
<1>4. PICK h \in [0 .. n -> Nat] : Values(h, v, d, n, b)
  BY <1>3 DEF T
<1>5. Is(h)
  <2>1. ASSUME NEW k \in 0 .. n, k # 0 PROVE h[k] = h[k - 1] * b + d[k]
    <3>1. k - 1 \in 0 .. n - 1 /\ (k - 1) + 1 = k
      BY <2>1
    <3>2. h[(k - 1) + 1] = h[k - 1] * b + d[(k - 1) + 1]
      BY <1>4, <3>1 DEF Values
    <3>3. QED BY <3>1, <3>2
  <2>2. h[0] = v
    BY <1>4 DEF Values
  <2>3. QED BY <2>1, <2>2
<1> DEFINE f == CHOOSE g : Is(g)
<1>6. Is(f)
  BY <1>5
<1>7. Number(v, d, n, b) = f[n]
  BY DEF Number
<1> HIDE DEF f
<1>8. Values(f, v, d, n, b)
  <2>1. \A k \in 0 .. n : f[k] = IF k = 0 THEN v ELSE f[k - 1] * b + d[k]
    BY <1>6
  <2>2. QED BY <2>1 DEF Values
<1>9. f[n] = h[n]
  <2>1. Agree(d, d, n) /\ n <= n
    BY DEF Agree
  <2>2. QED BY <1>8, <1>4, <2>1, ValuesAgree
<1>10. f[n] \in Nat
  BY <1>9
<1>11. QED BY <1>7, <1>8, <1>10 DEF LastValue

\* Equal digits make equal numbers.
LEMMA NumberAgree ==
  ASSUME NEW v \in Nat, NEW b \in Nat, NEW n \in Nat, NEW d, NEW e,
         Digits(d, n), Digits(e, n), Agree(d, e, n)
  PROVE  Number(v, d, n, b) = Number(v, e, n, b)
<1>1. PICK f : Values(f, v, d, n, b) /\ Number(v, d, n, b) = f[n]
  BY NumberIsLastValue DEF LastValue
<1>2. PICK g : Values(g, v, e, n, b) /\ Number(v, e, n, b) = g[n]
  BY NumberIsLastValue DEF LastValue
<1>3. n <= n
  OBVIOUS
<1>4. QED BY <1>1, <1>2, <1>3, ValuesAgree

\* No digit leaves v.
LEMMA NumberNone ==
  ASSUME NEW v \in Nat, NEW b \in Nat, NEW d
  PROVE  Number(v, d, 0, b) = v
<1>1. \A n \in Nat : Digits(d, n) => LastValue(Number(v, d, n, b), v, d, n, b)
  BY NumberIsLastValue
<1>2. Digits(d, 0)
  BY DEF Digits
<1>3. QED BY <1>1, <1>2 DEF LastValue, Values

\* The last digit.
LEMMA NumberLast ==
  ASSUME NEW v \in Nat, NEW b \in Nat, NEW n \in Nat \ {0}, NEW d, Digits(d, n)
  PROVE  Number(v, d, n, b) = Number(v, d, n - 1, b) * b + d[n]
<1>1. n \in Nat /\ n - 1 \in Nat /\ n - 1 <= n /\ n - 1 \in 0 .. n - 1
  OBVIOUS
<1>2. Digits(d, n - 1) /\ Agree(d, d, n - 1)
  BY DEF Digits, Agree
<1>3. \A k \in Nat : Digits(d, k) => LastValue(Number(v, d, k, b), v, d, k, b)
  BY NumberIsLastValue
<1>4. PICK f : Values(f, v, d, n - 1, b) /\ Number(v, d, n - 1, b) = f[n - 1]
  BY <1>1, <1>2, <1>3 DEF LastValue
<1>5. PICK g : Values(g, v, d, n, b) /\ Number(v, d, n, b) = g[n]
  BY <1>1, <1>3 DEF LastValue
<1>6. f[n - 1] = g[n - 1]
  BY <1>1, <1>2, <1>4, <1>5, ValuesAgree
<1>7. g[(n - 1) + 1] = g[n - 1] * b + d[(n - 1) + 1]
  BY <1>1, <1>5 DEF Values
<1>8. (n - 1) + 1 = n
  OBVIOUS
<1>9. QED BY <1>4, <1>5, <1>6, <1>7, <1>8

\* The number of n digits goes on, with the last n - m, from the one of the
\* first m.
LEMMA NumberSplit ==
  ASSUME NEW v \in Nat, NEW b \in Nat, NEW n \in Nat, NEW m \in 0 .. n, NEW d, NEW e,
         Digits(d, n), Follow(e, d, m, n)
  PROVE  Number(v, d, n, b) = Number(Number(v, d, m, b), e, n - m, b)
<1> DEFINE w == Number(v, d, m, b)
           T == {j \in Nat : j <= n - m => Number(v, d, m + j, b) = Number(w, e, j, b)}
<1>1. \A k \in 1 .. n - m : e[k] = d[m + k] /\ e[k] \in Nat
  BY DEF Digits, Follow
<1>2. w \in Nat
  <2>1. Digits(d, m) /\ m \in Nat
    BY DEF Digits
  <2>2. QED BY <2>1, NumberIsLastValue
<1> HIDE DEF w
<1>3. 0 \in T
  <2>1. Number(w, e, 0, b) = w
    BY <1>2, NumberNone
  <2>2. QED BY <2>1 DEF w
<1>4. ASSUME NEW j \in Nat, j \in T PROVE j + 1 \in T
  <2> SUFFICES ASSUME j + 1 <= n - m
               PROVE  Number(v, d, m + (j + 1), b) = Number(w, e, j + 1, b)
    OBVIOUS
  <2> DEFINE x == m + (j + 1)
             y == j + 1
  <2>1. Number(v, d, m + j, b) = Number(w, e, j, b)
    BY <1>4
  <2>2. x \in Nat \ {0} /\ y \in Nat \ {0} /\ x - 1 = m + j /\ y - 1 = j /\ e[y] = d[x]
    BY <1>1
  <2>3. Digits(d, x) /\ Digits(e, y)
    BY <1>1 DEF Digits
  <2> HIDE DEF x, y
  <2>4. Number(v, d, x, b) = Number(v, d, x - 1, b) * b + d[x]
    BY <2>2, <2>3, NumberLast
  <2>5. Number(w, e, y, b) = Number(w, e, y - 1, b) * b + e[y]
    BY <1>2, <2>2, <2>3, NumberLast
  <2>6. Number(v, d, x, b) = Number(w, e, y, b)
    BY <2>1, <2>2, <2>4, <2>5
  <2>7. QED BY <2>6 DEF x, y
<1> HIDE DEF T
<1>5. \A j \in Nat : j \in T
  BY <1>3, <1>4, Induction
<1>6. n - m \in Nat /\ m + (n - m) = n
  OBVIOUS
<1>7. Number(v, d, n, b) = Number(w, e, n - m, b)
  BY <1>5, <1>6 DEF T
<1>8. QED BY <1>7 DEF w

\* Leading zeros.
LEMMA NumberZeros ==
  ASSUME NEW b \in Nat, NEW n \in Nat, NEW d, \A k \in 1 .. n : d[k] = 0
  PROVE  Number(0, d, n, b) = 0
<1>1. Digits(d, n)
  BY DEF Digits
<1>2. PICK f : Values(f, 0, d, n, b) /\ Number(0, d, n, b) = f[n]
  <2>1. \A v \in Nat : LastValue(Number(v, d, n, b), v, d, n, b)
    BY <1>1, NumberIsLastValue
  <2>2. QED BY <2>1 DEF LastValue
<1> DEFINE T == {k \in Nat : k <= n => f[k] = 0}
<1>3. 0 \in T
  BY <1>2 DEF Values
<1>4. ASSUME NEW k \in Nat, k \in T PROVE k + 1 \in T
  BY <1>2, <1>4 DEF Values
<1> HIDE DEF T
<1>5. \A k \in Nat : k \in T
  BY <1>3, <1>4, Induction
<1>6. QED BY <1>2, <1>5 DEF T

\* The first digit.
LEMMA NumberFirst ==
  ASSUME NEW v \in Nat, NEW b \in Nat, NEW n \in Nat \ {0}, NEW d, NEW e,
         Digits(d, n), Follow(e, d, 1, n)
  PROVE  Number(v, d, n, b) = Number(v * b + d[1], e, n - 1, b)
<1>1. n \in Nat /\ 1 \in 0 .. n /\ 1 \in Nat \ {0} /\ 1 - 1 = 0 /\ Digits(d, 1)
  BY DEF Digits
<1>2. Number(v, d, 0, b) = v
  BY NumberNone
<1>3. \A k \in Nat \ {0} : Digits(d, k) => Number(v, d, k, b) = Number(v, d, k - 1, b) * b + d[k]
  BY NumberLast
<1>4. Number(v, d, 1, b) = v * b + d[1]
  BY <1>1, <1>2, <1>3
<1>5. Number(v, d, n, b) = Number(Number(v, d, 1, b), e, n - 1, b)
  BY <1>1, NumberSplit
<1>6. QED BY <1>4, <1>5

-----------------------------------------------------------------------------
(* The loop of base62.                                                     *)

USE DigestAssumption

\* Dividing a remainder followed by a byte: the quotient is a byte and the
\* remainder a digit; a leading byte (no remainder yet) leaves at most 4, and
\* nothing once it is itself at most 4.
LEMMA Division ==
  ASSUME NEW r \in Digit, NEW b \in Byte
  PROVE  /\ (r * 256 + b) \div 62 \in Byte
         /\ ((r * 256 + b) \div 62) % 256 = (r * 256 + b) \div 62
         /\ (r * 256 + b) % 62 \in Digit
         /\ r = 0 => (r * 256 + b) \div 62 <= 4
         /\ r = 0 /\ b <= 4 => (r * 256 + b) \div 62 = 0
<1>1. (r * 256 + b) \div 62 \in Byte
  BY DEF Byte, Digit
<1>2. \A q \in Byte : q % 256 = q
  BY DEF Byte
<1>3. (r * 256 + b) % 62 \in Digit
  BY DEF Byte, Digit
<1>4. r = 0 => (r * 256 + b) \div 62 <= 4
  BY DEF Byte
<1>5. r = 0 /\ b <= 4 => (r * 256 + b) \div 62 = 0
  BY DEF Byte
<1>6. QED BY <1>1, <1>2, <1>3, <1>4, <1>5

\* Zero, the initial remainder, is a digit.
LEMMA ZeroDigit == 0 \in Digit
BY DEF Digit

\* A byte is divided by 62: its quotient is a byte again, its remainder a digit.
LEMMA DivideByteType == ASSUME TypeOK, DivideByte PROVE TypeOK'
<1> USE DEF TypeOK, DivideByte
<1>1. i \in 0 .. N - 1 /\ bytes[i] \in Byte
  OBVIOUS
<1>2. Acc \div 62 \in Byte /\ (Acc \div 62) % 256 = Acc \div 62 /\ Acc % 62 \in Digit
  BY <1>1, Division DEF Acc
<1>3. bytes' \in [0 .. N - 1 -> Byte] /\ rem' \in Digit /\ i' \in 0 .. N
  BY <1>1, <1>2
<1> QED  BY <1>3

\* Reversed, the digits are digits still.
LEMMA FinishType == ASSUME TypeOK, Finish PROVE TypeOK'
<1> USE DEF TypeOK, Finish
<1>1. /\ Len(out) \in Nat /\ DOMAIN out = 1 .. Len(out)
      /\ \A k \in 1 .. Len(out) : out[Len(out) + 1 - k] \in Digit
  OBVIOUS
<1>2. out' = [k \in 1 .. Len(out) |-> out[Len(out) + 1 - k]]
  BY <1>1
<1>3. out' \in Seq(Digit)
  BY <1>1, <1>2
<1> QED  BY <1>3

\* No step of the loop leaves the types.
LEMMA StepType == TypeOK /\ [Next]_vars => TypeOK'
<1> SUFFICES ASSUME TypeOK, [Next]_vars PROVE TypeOK'
  OBVIOUS
<1>1. ASSUME UNCHANGED vars PROVE TypeOK'
  BY <1>1 DEF TypeOK, vars
<1>2. ASSUME BeginPass PROVE TypeOK'
  BY <1>2, ZeroDigit DEF TypeOK, BeginPass
<1>3. ASSUME EndPass PROVE TypeOK'
  BY <1>3 DEF TypeOK, EndPass
<1> QED  BY <1>1, <1>2, <1>3, DivideByteType, FinishType DEF Next

\* The variables of the loop keep their types.
THEOREM TypeCorrect == Spec => []TypeOK
<1>1. Init => TypeOK
  BY ZeroDigit DEF Init, TypeOK
<1> QED  BY <1>1, StepType, PTL DEF Spec

\* No quotient is ever truncated by the cast to u8.
THEOREM NoTruncation == Spec => []QuotientFitsByte
<1>1. TypeOK => QuotientFitsByte
  BY Division DEF TypeOK, QuotientFitsByte, Acc
<1>2. QED BY <1>1, TypeCorrect, PTL

-----------------------------------------------------------------------------
\* The number of digits against the bytes already consumed.  The first pass
\* over a leading byte leaves at most 4 of it, the second nothing: lead says
\* how many passes it has seen.
LengthInv ==
  /\ pc = "outer" \/ (pc = "inner" /\ i = start) =>
       /\ pc = "inner" => rem = 0
       /\ start <= Len(out)
       /\ Len(out) <= 2 * start + (IF start < N /\ bytes[start] <= 4 THEN 1 ELSE 0)
  /\ pc = "inner" /\ i > start =>
       /\ start <= Len(out)
       /\ bytes[start] <= 4
       /\ Len(out) <= 2 * start + (IF bytes[start] = 0 THEN 1 ELSE 0)
  /\ LengthBounds

\* LengthInv is inductive.
LEMMA LengthInvariant == Spec => []LengthInv
<1>1. Init => LengthInv
  BY DEF Init, LengthInv, LengthBounds
<1>2. TypeOK /\ LengthInv /\ [Next]_vars => LengthInv'
  <2> SUFFICES ASSUME TypeOK, LengthInv, [Next]_vars PROVE LengthInv'
    OBVIOUS
  <2> USE DEF TypeOK, LengthInv, LengthBounds
  <2>1. Len(out) \in Nat
    OBVIOUS
  <2>2. CASE BeginPass
    <3>1. /\ pc' = "inner" /\ i' = start' /\ rem' = 0
          /\ UNCHANGED <<bytes, out, start>>
      BY <2>2 DEF BeginPass
    <3>2. /\ start <= Len(out)
          /\ Len(out) <= 2 * start + (IF start < N /\ bytes[start] <= 4 THEN 1 ELSE 0)
      BY <2>2 DEF BeginPass
    <3>3. QED BY <3>1, <3>2
  <2>3. CASE DivideByte
    <3>1. /\ pc = "inner" /\ pc' = "inner" /\ i \in start .. N - 1 /\ i' = i + 1
          /\ UNCHANGED <<out, start>>
      BY <2>3 DEF DivideByte
    <3>2. CASE i = start
      <4>1. rem = 0 /\ bytes[start] \in Byte
        BY <3>1, <3>2
      <4>2. bytes'[start] = Acc \div 62
        BY <2>3, <3>1, <3>2, <4>1, Division DEF DivideByte, Acc
      <4>3. bytes'[start] <= 4 /\ (bytes[start] <= 4 => bytes'[start] = 0)
        BY <3>2, <4>1, <4>2, Division DEF Acc
      <4>4. QED BY <2>1, <3>1, <3>2, <4>3
    <3>3. CASE i > start
      <4>1. bytes'[start] = bytes[start]
        BY <2>3, <3>1, <3>3 DEF DivideByte
      <4>2. QED BY <2>1, <3>1, <3>3, <4>1
    <3>4. QED BY <3>1, <3>2, <3>3
  <2>4. CASE EndPass
    <3>1. Len(out') = Len(out) + 1 /\ bytes' = bytes /\ pc' = "outer"
      BY <2>4 DEF EndPass
    <3>2. /\ start <= Len(out) /\ bytes[start] <= 4 /\ start < N
          /\ Len(out) <= 2 * start + (IF bytes[start] = 0 THEN 1 ELSE 0)
          /\ bytes[start] \in Byte
      BY <2>4 DEF EndPass
    <3>3. CASE bytes[start] = 0
      <4>1. start' = start + 1
        BY <2>4, <3>3 DEF EndPass
      <4>2. QED BY <2>1, <3>1, <3>2, <3>3, <4>1
    <3>4. CASE bytes[start] # 0
      <4>1. start' = start
        BY <2>4, <3>4 DEF EndPass
      <4>2. Len(out) <= 2 * start
        BY <3>2, <3>4
      <4>3. /\ start' <= Len(out') /\ start' < N /\ bytes'[start'] <= 4
            /\ Len(out') <= 2 * start' + 1
        BY <2>1, <3>1, <3>2, <4>1, <4>2
      <4>4. QED BY <3>1, <4>3
    <3>5. QED BY <3>3, <3>4
  <2>5. CASE Finish
    <3>1. /\ N <= Len(out) /\ Len(out) <= 2 * N
          /\ DOMAIN out = 1 .. Len(out)
      BY <2>1, <2>5 DEF Finish
    <3>2. out' = [k \in 1 .. Len(out) |-> out[Len(out) + 1 - k]]
      BY <2>5, <3>1 DEF Finish
    <3>3. Len(out') = Len(out)
      BY <2>1, <3>2
    <3>4. QED BY <2>5, <3>1, <3>3 DEF Finish
  <2>6. CASE UNCHANGED vars
    BY <2>6 DEF vars
  <2>7. QED BY <2>2, <2>3, <2>4, <2>5, <2>6 DEF Next
<1>3. QED BY <1>1, <1>2, TypeCorrect, PTL DEF Spec

\* An id has between one and two digits per byte of its digest.
THEOREM IdLength == Spec => []LengthBounds
<1>1. LengthInv => LengthBounds
  BY DEF LengthInv
<1>2. QED BY <1>1, LengthInvariant, PTL


-----------------------------------------------------------------------------
(* The value.                                                              *)

\* Within a pass over s: the quotient of the bytes before j, the remainder r
\* and the bytes that are still to be divided.
Quotient(s, j) == Number(0, From(s, 0), j, 256)
Rest(w, s, j) == Number(w, From(s, j), N - j, 256)
Left(s, j, r) == Rest(Quotient(s, j) * 62 + r, s, j)

\* Skipped bytes are zero.  Between passes what is left in bytes, followed by
\* the digits in out, is the digest, and so it is within a pass.
ValueInv ==
  /\ \A j \in 0 .. start - 1 : bytes[j] = 0
  /\ pc = "inner" =>
       Number(Left(bytes, i, rem), Reversed(out), Len(out), 62) = BigEndian(digest)
  /\ ValuePreserved

\* Bytes and digits are numbers.
LEMMA NaturalDigits == Byte \subseteq Nat /\ Digit \subseteq Nat
BY DEF Byte, Digit

\* The bytes of s from j on are numbers, to be read as digits.
LEMMA BytesFrom ==
  ASSUME NEW s \in [0 .. N - 1 -> Byte], NEW j \in 0 .. N
  PROVE  /\ \A k \in 1 .. N - j : From(s, j)[k] = s[j + k - 1] /\ From(s, j)[k] \in Nat
         /\ Digits(From(s, j), N - j)
<1>1. \A k \in 1 .. N - j : From(s, j)[k] = s[j + k - 1]
  BY DEF From
<1>2. \A k \in 1 .. N - j : j + k - 1 \in 0 .. N - 1
  OBVIOUS
<1>3. \A k \in 1 .. N - j : From(s, j)[k] \in Byte
  BY <1>1, <1>2
<1>4. \A k \in 1 .. N - j : From(s, j)[k] \in Nat
  BY <1>3, NaturalDigits
<1>5. QED BY <1>1, <1>4 DEF Digits

\* The quotient of a pass is a number.
LEMMA QuotientNat ==
  ASSUME NEW s \in [0 .. N - 1 -> Byte], NEW j \in 0 .. N
  PROVE  Quotient(s, j) \in Nat
<1>1. 0 \in 0 .. N /\ N - 0 = N /\ j \in Nat
  OBVIOUS
<1>2. \A k \in 1 .. N : From(s, 0)[k] \in Nat
  BY <1>1, BytesFrom
<1> DEFINE d == From(s, 0)
           zero == 0
           base == 256
<1>3. Digits(d, j)
  BY <1>2 DEF Digits
<1>4. zero \in Nat /\ base \in Nat
  OBVIOUS
<1> HIDE DEF d, zero, base
<1>5. Number(zero, d, j, base) \in Nat
  BY <1>1, <1>3, <1>4, NumberIsLastValue
<1>6. QED BY <1>5 DEF Quotient, d, zero, base

\* A pass begins: leading zeros do not count.
LEMMA LeftAtStart ==
  ASSUME NEW s \in [0 .. N - 1 -> Byte], NEW j \in 0 .. N,
         \A k \in 0 .. j - 1 : s[k] = 0
  PROVE  Quotient(s, j) = 0 /\ Left(s, j, 0) = BigEndian(s)
<1> DEFINE d == From(s, 0)
           e == From(s, j)
<1>1. j \in Nat /\ N \in Nat /\ 0 \in 0 .. N /\ N - 0 = N
  OBVIOUS
<1>2. Digits(d, N) /\ \A k \in 1 .. N : d[k] = s[0 + k - 1]
  BY <1>1, BytesFrom
<1>3. \A k \in 1 .. N - j : e[k] = s[j + k - 1]
  BY <1>1, BytesFrom
<1> HIDE DEF d, e
<1>4. Follow(e, d, j, N)
  BY <1>1, <1>2, <1>3 DEF Follow
<1>5. \A k \in 1 .. j : d[k] = 0
  BY <1>2
<1>6. Number(0, d, j, 256) = 0
  <2>1. \A b \in Nat : Number(0, d, j, b) = 0
    BY <1>1, <1>5, NumberZeros
  <2>2. QED BY <2>1
<1>7. Number(0, d, N, 256) = Number(Number(0, d, j, 256), e, N - j, 256)
  <2>1. \A v, b \in Nat : Number(v, d, N, b) = Number(Number(v, d, j, b), e, N - j, b)
    BY <1>1, <1>2, <1>4, NumberSplit
  <2>2. QED BY <1>1, <2>1
<1>8. Quotient(s, j) = 0
  BY <1>6 DEF Quotient, d
<1>9. QED BY <1>6, <1>7, <1>8 DEF Left, Rest, BigEndian, d, e

\* t is s but for the byte at j.
ButFor(s, t, j) == \A k \in 0 .. N - 1 : k # j => t[k] = s[k]

\* The byte at j becomes p: the quotient gains it.
LEMMA QuotientAfterByte ==
  ASSUME NEW s \in [0 .. N - 1 -> Byte], NEW t \in [0 .. N - 1 -> Byte],
         NEW j \in 0 .. N - 1, NEW p \in Nat, t[j] = p, ButFor(s, t, j)
  PROVE  Quotient(t, j + 1) = Quotient(s, j) * 256 + p
<1> DEFINE d == From(s, 0)
           e == From(t, 0)
<1>1. j \in Nat /\ 0 \in 0 .. N /\ N - 0 = N /\ j + 1 \in Nat \ {0} /\ (j + 1) - 1 = j
  OBVIOUS
<1>2. /\ \A k \in 1 .. N : d[k] = s[0 + k - 1] /\ d[k] \in Nat
      /\ \A k \in 1 .. N : e[k] = t[0 + k - 1] /\ e[k] \in Nat
  BY <1>1, BytesFrom
<1> HIDE DEF d, e
<1>3. Digits(d, j) /\ Digits(e, j) /\ Digits(e, j + 1) /\ Agree(d, e, j) /\ e[j + 1] = p
  BY <1>1, <1>2 DEF Digits, Agree, ButFor
<1>4. \A v, b \in Nat : Number(v, e, j + 1, b) = Number(v, e, (j + 1) - 1, b) * b + e[j + 1]
  BY <1>1, <1>3, NumberLast
<1>5. \A v, b \in Nat : Number(v, d, j, b) = Number(v, e, j, b)
  BY <1>1, <1>3, NumberAgree
<1>6. Number(0, e, j + 1, 256) = Number(0, d, j, 256) * 256 + p
  BY <1>1, <1>3, <1>4, <1>5
<1>7. QED BY <1>6 DEF Quotient, d, e

\* x is the remainder w followed by the byte u.
Followed(x, w, u) == x = w * 256 + u

\* One byte less is to be divided.
LEMMA RestAfterByte ==
  ASSUME NEW s \in [0 .. N - 1 -> Byte], NEW t \in [0 .. N - 1 -> Byte],
         NEW j \in 0 .. N - 1, NEW u \in Nat, s[j] = u, ButFor(s, t, j),
         NEW w \in Nat, NEW x, Followed(x, w, u)
  PROVE  Rest(w, s, j) = Rest(x, t, j + 1)
<1> DEFINE d == From(s, j)
           e == From(t, j + 1)
           n == N - j
<1>1. n \in Nat \ {0} /\ n - 1 = N - (j + 1) /\ j \in 0 .. N /\ j + 1 \in 0 .. N
  OBVIOUS
<1>2. /\ \A k \in 1 .. n : d[k] = s[j + k - 1]
      /\ \A k \in 1 .. n - 1 : e[k] = t[(j + 1) + k - 1]
      /\ Digits(d, n)
  <2>1. /\ \A k \in 1 .. N - j : d[k] = s[j + k - 1]
        /\ Digits(d, N - j)
    BY <1>1, BytesFrom, Zenon
  <2>2. \A k \in 1 .. N - (j + 1) : e[k] = t[(j + 1) + k - 1]
    BY <1>1, BytesFrom, Zenon
  <2>3. QED BY <1>1, <2>1, <2>2, Zenon
<1>3. ASSUME NEW k \in 1 .. n - 1 PROVE e[k] = d[1 + k]
  <2>1. 1 + k \in 1 .. n /\ j + (1 + k) - 1 = (j + 1) + k - 1
        /\ (j + 1) + k - 1 \in 0 .. N - 1 /\ (j + 1) + k - 1 # j
    BY <1>1
  <2>2. t[(j + 1) + k - 1] = s[(j + 1) + k - 1]
    BY <2>1, Zenon DEF ButFor
  <2>3. e[k] = t[(j + 1) + k - 1] /\ d[1 + k] = s[j + (1 + k) - 1]
    BY <1>2, <2>1, Zenon
  <2>4. QED BY <2>1, <2>2, <2>3, Zenon
<1>4. d[1] = u
  BY <1>1, <1>2
<1> HIDE DEF d, e, n
<1>5. Follow(e, d, 1, n)
  BY <1>3 DEF Follow
<1>6. \A b \in Nat : Number(w, d, n, b) = Number(w * b + d[1], e, n - 1, b)
  BY <1>1, <1>2, <1>5, NumberFirst
<1>7. Number(w, d, n, 256) = Number(w * 256 + u, e, n - 1, 256)
  BY <1>4, <1>6
<1>8. QED BY <1>1, <1>7 DEF Rest, Followed, d, e, n

\* The byte at j, after the remainder r, is divided and leaves the remainder m.
Divided(s, t, j, r, m) ==
  /\ t[j] = (r * 256 + s[j]) \div 62
  /\ m = (r * 256 + s[j]) % 62
  /\ ButFor(s, t, j)

\* A byte is divided: quotient and new remainder weigh what the old remainder
\* and the byte did.
LEMMA LeftAfterByte ==
  ASSUME NEW s \in [0 .. N - 1 -> Byte], NEW t \in [0 .. N - 1 -> Byte],
         NEW j \in 0 .. N - 1, NEW r \in Digit, NEW m, Divided(s, t, j, r, m)
  PROVE  Left(t, j + 1, m) = Left(s, j, r)
<1> DEFINE q == Quotient(s, j)
           u == s[j]
           a == r * 256 + u
<1>1. u \in Nat /\ r \in Nat /\ a \in Nat
  <2>1. u \in Byte
    OBVIOUS
  <2>2. u \in Nat /\ r \in Nat
    BY <2>1, NaturalDigits
  <2>3. QED BY <2>2
<1>2. t[j] = a \div 62 /\ m = a % 62 /\ ButFor(s, t, j) /\ s[j] = u /\ a = r * 256 + u
  BY DEF Divided
<1> HIDE DEF u, a
<1>3. q \in Nat
  BY QuotientNat
<1>4. a \div 62 \in Nat /\ q * 62 + r \in Nat
  BY <1>1, <1>3
<1>5. Quotient(t, j + 1) = q * 256 + (a \div 62)
  BY <1>4, <1>2, QuotientAfterByte
<1>6. Rest(q * 62 + r, s, j) = Rest((q * 62 + r) * 256 + u, t, j + 1)
  <2> DEFINE w == q * 62 + r
  <2>1. w \in Nat /\ u \in Nat /\ s[j] = u /\ ButFor(s, t, j)
    BY <1>1, <1>2, <1>4
  <2> HIDE DEF w, q
  <2>2. PICK x : Followed(x, w, u)
    BY DEF Followed
  <2>3. Rest(w, s, j) = Rest(x, t, j + 1)
    BY <2>1, <2>2, RestAfterByte
  <2>4. QED BY <2>2, <2>3 DEF Followed, w
<1>7. (q * 256 + (a \div 62)) * 62 + (a % 62) = (q * 62 + r) * 256 + u
  <2> HIDE DEF q
  <2> DEFINE p == a \div 62
             z == a % 62
  <2>1. p \in Nat /\ z \in Nat /\ a = p * 62 + z
    BY <1>1
  <2> HIDE DEF p, z
  <2>2. (q * 256 + p) * 62 + z = (q * 62 + r) * 256 + u
    BY <1>1, <1>2, <1>3, <2>1
  <2>3. QED BY <2>2 DEF p, z
<1>8. QED BY <1>5, <1>6, <1>7, <1>2 DEF Left

\* A pass ends.
LEMMA LeftAtEnd ==
  ASSUME NEW s \in [0 .. N - 1 -> Byte], NEW r \in Digit
  PROVE  Left(s, N, r) = BigEndian(s) * 62 + r /\ BigEndian(s) \in Nat
<1>1. N \in 0 .. N /\ N - N = 0 /\ r \in Nat
  BY NaturalDigits
<1>2. Quotient(s, N) \in Nat /\ Quotient(s, N) = BigEndian(s)
  BY <1>1, QuotientNat DEF Quotient, BigEndian
<1>3. \A v, b \in Nat : Number(v, From(s, N), 0, b) = v
  BY NumberNone
<1>4. Quotient(s, N) * 62 + r \in Nat
  BY <1>1, <1>2
<1>5. QED BY <1>1, <1>2, <1>3, <1>4 DEF Left, Rest

\* The remainder of a pass is the digit before those found so far.
LEMMA AppendDigit ==
  ASSUME NEW o \in Seq(Digit), NEW r \in Digit, NEW v \in Nat
  PROVE  Number(v, Reversed(Append(o, r)), Len(Append(o, r)), 62)
           = Number(v * 62 + r, Reversed(o), Len(o), 62)
<1> DEFINE d == Reversed(Append(o, r))
           e == Reversed(o)
           n == Len(o)
<1>1. n \in Nat /\ r \in Nat /\ \A k \in 1 .. n : o[k] \in Nat
  <2>1. n \in Nat /\ \A k \in 1 .. n : o[k] \in Digit
    OBVIOUS
  <2>2. QED BY <2>1, NaturalDigits
<1>2. Len(Append(o, r)) = n + 1
  OBVIOUS
<1>3. \A k \in 1 .. n + 1 : Append(o, r)[k] = IF k = n + 1 THEN r ELSE o[k]
  OBVIOUS
<1>4. \A k \in 1 .. n + 1 : d[k] = Append(o, r)[n + 1 + 1 - k]
  BY <1>1, <1>2 DEF Reversed
<1>5. \A k \in 1 .. n : e[k] = o[n + 1 - k]
  BY <1>1 DEF Reversed
<1> HIDE DEF d, e, n
<1>6. d[1] = r
  <2>1. 1 \in 1 .. n + 1 /\ n + 1 + 1 - 1 = n + 1 /\ n + 1 \in 1 .. n + 1
    BY <1>1
  <2>2. QED BY <1>3, <1>4, <2>1
<1>7. ASSUME NEW k \in 1 .. n PROVE d[1 + k] = o[n + 1 - k] /\ o[n + 1 - k] \in Nat
  <2>1. /\ 1 + k \in 1 .. n + 1 /\ n + 1 + 1 - (1 + k) = n + 1 - k
        /\ n + 1 - k \in 1 .. n + 1 /\ n + 1 - k \in 1 .. n /\ n + 1 - k # n + 1
    BY <1>1
  <2>2. QED BY <1>1, <1>3, <1>4, <2>1
<1>8. Follow(e, d, 1, n + 1)
  <2>1. (n + 1) - 1 = n
    BY <1>1
  <2>2. QED BY <1>5, <1>7, <2>1 DEF Follow
<1>9. Digits(d, n + 1)
  <2>1. ASSUME NEW k \in 1 .. n + 1 PROVE d[k] \in Nat
    <3>1. k = 1 \/ (k - 1 \in 1 .. n /\ 1 + (k - 1) = k)
      BY <1>1
    <3>2. QED BY <1>1, <1>6, <1>7, <3>1
  <2>2. QED BY <2>1 DEF Digits
<1>10. \A b \in Nat : Number(v, d, n + 1, b) = Number(v * b + d[1], e, (n + 1) - 1, b)
  <2>1. n + 1 \in Nat \ {0}
    BY <1>1
  <2>2. QED BY <1>9, <1>8, <2>1, NumberFirst
<1>11. Number(v, d, n + 1, 62) = Number(v * 62 + r, e, n, 62)
  BY <1>1, <1>6, <1>10
<1>12. QED BY <1>2, <1>11 DEF d, e, n

\* Every pass keeps the value.
LEMMA ValueInvariant == Spec => []ValueInv
<1>1. Init => ValueInv
  <2> SUFFICES ASSUME Init PROVE ValueInv
    OBVIOUS
  <2>1. digest \in [0 .. N - 1 -> Byte] /\ BigEndian(digest) \in Nat
    BY LeftAtEnd, ZeroDigit DEF Init
  <2>2. \A v \in Nat : Number(v, Reversed(<<>>), 0, 62) = v
    BY NumberNone
  <2>3. QED BY <2>1, <2>2 DEF Init, ValueInv, ValuePreserved
<1>2. TypeOK /\ ValueInv /\ [Next]_vars => ValueInv'
  <2> SUFFICES ASSUME TypeOK, ValueInv, [Next]_vars PROVE ValueInv'
    OBVIOUS
  <2>1. /\ bytes \in [0 .. N - 1 -> Byte] /\ rem \in Digit /\ out \in Seq(Digit)
        /\ start \in 0 .. N /\ i \in 0 .. N
    BY DEF TypeOK
  <2>2. CASE BeginPass
    <3>1. /\ pc = "outer" /\ pc' = "inner" /\ i' = start /\ rem' = 0
          /\ UNCHANGED <<digest, bytes, out, start>>
      BY <2>2 DEF BeginPass
    <3>2. Left(bytes, start, 0) = BigEndian(bytes)
      BY <2>1, LeftAtStart DEF ValueInv
    <3>3. Number(BigEndian(bytes), Reversed(out), Len(out), 62) = BigEndian(digest)
      BY <3>1 DEF ValueInv, ValuePreserved
    <3>4. Left(bytes', i', rem') = BigEndian(bytes)
      BY <3>1, <3>2
    <3>5. Number(Left(bytes', i', rem'), Reversed(out'), Len(out'), 62) = BigEndian(digest')
      BY <3>1, <3>3, <3>4
    <3>6. QED BY <3>1, <3>5 DEF ValueInv, ValuePreserved
  <2>3. CASE DivideByte
    <3>1. /\ pc = "inner" /\ pc' = "inner" /\ i \in 0 .. N - 1 /\ i' = i + 1
          /\ bytes' = [bytes EXCEPT ![i] = (Acc \div 62) % 256] /\ rem' = Acc % 62
          /\ UNCHANGED <<digest, out, start>> /\ start <= i
      BY <2>3 DEF DivideByte, TypeOK
    <3>2. bytes[i] \in Byte
      BY <2>1, <3>1
    <3>3. Acc \div 62 \in Byte /\ (Acc \div 62) % 256 = Acc \div 62
      BY <2>1, <3>2, Division DEF Acc
    <3>4. /\ bytes' \in [0 .. N - 1 -> Byte] /\ bytes'[i] = Acc \div 62
          /\ \A k \in 0 .. N - 1 : k # i => bytes'[k] = bytes[k]
      BY <2>1, <3>1, <3>3
    <3>5. Divided(bytes, bytes', i, rem, rem')
      BY <3>1, <3>4 DEF Divided, ButFor, Acc
    <3>6. Left(bytes', i + 1, rem') = Left(bytes, i, rem)
      <4>1. i \in 0 .. N - 1 /\ bytes \in [0 .. N - 1 -> Byte] /\ rem \in Digit
        BY <2>1, <3>1
      <4>2. \A m : \A t \in [0 .. N - 1 -> Byte] :
              Divided(bytes, t, i, rem, m) => Left(t, i + 1, m) = Left(bytes, i, rem)
        BY <4>1, LeftAfterByte
      <4>3. bytes' \in [0 .. N - 1 -> Byte]
        BY <3>4
      <4>4. QED BY <3>5, <4>2, <4>3
    <3>7. Number(Left(bytes', i', rem'), Reversed(out'), Len(out'), 62) = BigEndian(digest')
      BY <3>1, <3>6 DEF ValueInv
    <3>8. \A j \in 0 .. start' - 1 : bytes'[j] = 0
      BY <2>1, <3>1, <3>4 DEF ValueInv
    <3>9. QED BY <3>1, <3>7, <3>8 DEF ValueInv, ValuePreserved
  <2>4. CASE EndPass
    <3>1. /\ pc = "inner" /\ pc' = "outer" /\ i = N /\ out' = Append(out, rem)
          /\ start' = (IF bytes[start] = 0 THEN start + 1 ELSE start)
          /\ UNCHANGED <<digest, bytes, i, rem>>
      BY <2>4 DEF EndPass
    <3>2. Left(bytes, N, rem) = BigEndian(bytes) * 62 + rem /\ BigEndian(bytes) \in Nat
      BY <2>1, LeftAtEnd
    <3>3. Number(BigEndian(bytes) * 62 + rem, Reversed(out), Len(out), 62) = BigEndian(digest)
      BY <3>1, <3>2 DEF ValueInv
    <3>4. Number(BigEndian(bytes), Reversed(out'), Len(out'), 62) = BigEndian(digest)
      BY <2>1, <3>1, <3>2, <3>3, AppendDigit
    <3>5. \A j \in 0 .. start' - 1 : bytes'[j] = 0
      BY <2>1, <3>1 DEF ValueInv
    <3>6. QED BY <3>1, <3>4, <3>5 DEF ValueInv, ValuePreserved
  <2>5. CASE Finish
    <3>1. /\ pc = "outer" /\ pc' = "done" /\ start = N
          /\ out' = [k \in DOMAIN out |-> out[Len(out) + 1 - k]]
          /\ UNCHANGED <<digest, bytes, start, i, rem>>
      BY <2>5 DEF Finish
    <3>2. out' = Reversed(out) /\ Len(out') = Len(out)
      <4>1. Len(out) \in Nat /\ DOMAIN out = 1 .. Len(out)
        BY <2>1
      <4>2. QED BY <3>1, <4>1 DEF Reversed
    <3>3. BigEndian(bytes) = 0
      <4>1. N \in 0 .. N /\ \A k \in 0 .. N - 1 : bytes[k] = 0
        BY <3>1 DEF ValueInv
      <4>2. QED BY <2>1, <4>1, LeftAtStart DEF Quotient, BigEndian
    <3>4. Number(BigEndian(bytes), Reversed(out), Len(out), 62) = BigEndian(digest)
      BY <3>1 DEF ValueInv, ValuePreserved
    <3>5. Number(0, out', Len(out'), 62) = BigEndian(digest')
      BY <3>1, <3>2, <3>3, <3>4
    <3>6. QED BY <3>1, <3>5 DEF ValueInv, ValuePreserved
  <2>6. CASE UNCHANGED vars
    BY <2>6 DEF vars, ValueInv, ValuePreserved
  <2>7. QED BY <2>2, <2>3, <2>4, <2>5, <2>6 DEF Next
<1>3. QED BY <1>1, <1>2, TypeCorrect, PTL DEF Spec

\* The id is the digest written in base 62, whatever the length of digests.
THEOREM ValueKept == Spec => []ValuePreserved
<1>1. ValueInv => ValuePreserved
  BY DEF ValueInv
<1>2. QED BY <1>1, ValueInvariant, PTL

\* Different digests are different integers.
LEMMA BigEndianInjective ==
  ASSUME NEW s \in [0 .. N - 1 -> Byte], NEW t \in [0 .. N - 1 -> Byte],
         BigEndian(s) = BigEndian(t)
  PROVE  s = t
<1> DEFINE d == From(s, 0)
           e == From(t, 0)
           base == 256
           V(f, j) == Number(0, f, j, base)
           T == {j \in Nat : j <= N /\ V(d, j) = V(e, j) => Agree(d, e, j)}
<1>1. /\ \A k \in 1 .. N : d[k] \in Byte /\ e[k] \in Byte
      /\ \A k \in 1 .. N : d[k] = s[k - 1] /\ e[k] = t[k - 1]
  BY DEF From
<1> HIDE DEF d, e, base
<1>2. 0 \in T
  BY DEF Agree
<1>3. ASSUME NEW j \in Nat, j \in T PROVE j + 1 \in T
  <2> SUFFICES ASSUME j + 1 <= N, V(d, j + 1) = V(e, j + 1) PROVE Agree(d, e, j + 1)
    OBVIOUS
  <2> DEFINE n == j + 1
  <2>1. n \in Nat \ {0} /\ n - 1 = j /\ n \in 1 .. N /\ j \in Nat
    OBVIOUS
  <2>2. Digits(d, n) /\ Digits(e, n) /\ Digits(d, j) /\ Digits(e, j)
    <3>1. \A k \in 1 .. N : d[k] \in Nat /\ e[k] \in Nat
      BY <1>1, NaturalDigits
    <3>2. QED BY <2>1, <3>1 DEF Digits
  <2>3. V(d, n) = V(e, n)
    OBVIOUS
  <2> HIDE DEF n
  <2>4. \A v, b \in Nat : /\ Number(v, d, n, b) = Number(v, d, n - 1, b) * b + d[n]
                          /\ Number(v, e, n, b) = Number(v, e, n - 1, b) * b + e[n]
    BY <2>1, <2>2, NumberLast
  <2>5. V(d, n) = V(d, j) * base + d[n] /\ V(e, n) = V(e, j) * base + e[n]
    <3>1. 0 \in Nat /\ base \in Nat
      BY DEF base
    <3>2. QED BY <2>1, <2>4, <3>1
  <2>6. \A v, b \in Nat : Number(v, d, j, b) \in Nat /\ Number(v, e, j, b) \in Nat
    BY <2>1, <2>2, NumberIsLastValue
  <2>7. V(d, j) \in Nat /\ V(e, j) \in Nat /\ d[n] \in Byte /\ e[n] \in Byte
    <3>1. 0 \in Nat /\ base \in Nat
      BY DEF base
    <3>2. QED BY <1>1, <2>1, <2>6, <3>1
  <2> HIDE DEF V
  <2>8. V(d, j) = V(e, j) /\ d[n] = e[n]
    <3> DEFINE x == V(d, j)
               y == V(e, j)
               a == d[n]
               b == e[n]
    <3>1. x \in Nat /\ y \in Nat /\ a \in 0 .. 255 /\ b \in 0 .. 255
      BY <2>7 DEF Byte
    <3>2. x * 256 + a = y * 256 + b
      BY <2>3, <2>5 DEF base
    <3> HIDE DEF x, y, a, b
    <3>3. x = y /\ a = b
      BY <3>1, <3>2
    <3>4. QED BY <3>3 DEF x, y, a, b
  <2>9. Agree(d, e, j)
    BY <1>3, <2>8
  <2>10. QED BY <2>8, <2>9 DEF Agree, n
<1> HIDE DEF T
<1>4. \A j \in Nat : j \in T
  BY <1>2, <1>3, Induction
<1>5. V(d, N) = V(e, N) /\ N \in Nat /\ N <= N
  BY DEF BigEndian, d, e, base
<1>6. Agree(d, e, N)
  BY <1>4, <1>5 DEF T
<1>7. ASSUME NEW k \in 0 .. N - 1 PROVE s[k] = t[k]
  <2>1. k + 1 \in 1 .. N /\ (k + 1) - 1 = k
    OBVIOUS
  <2>2. QED BY <1>1, <1>6, <2>1 DEF Agree
<1>8. QED BY <1>7

\* What base62 returns is the numeral of one digest only, its argument.
IdOfOneDigest ==
  pc = "done" =>
    \A s \in [0 .. N - 1 -> Byte] : Number(0, out, Len(out), 62) = BigEndian(s) => s = digest

\* base62 never gives two digests one id: the id that is returned determines
\* the digest that it was made from.
THEOREM NoCollision == Spec => []IdOfOneDigest
<1>1. TypeOK /\ ValuePreserved => IdOfOneDigest
  <2> SUFFICES ASSUME TypeOK, ValuePreserved, pc = "done",
                      NEW s \in [0 .. N - 1 -> Byte],
                      Number(0, out, Len(out), 62) = BigEndian(s)
               PROVE  s = digest
    BY DEF IdOfOneDigest
  <2>1. digest \in [0 .. N - 1 -> Byte]
    BY DEF TypeOK
  <2>2. BigEndian(s) = BigEndian(digest)
    BY DEF ValuePreserved
  <2> QED  BY <2>1, <2>2, BigEndianInjective
<1>2. QED
  BY <1>1, TypeCorrect, ValueKept, PTL
=============================================================================
