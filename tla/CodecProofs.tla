---------------------------- MODULE CodecProofs ----------------------------
(***************************************************************************)
(* What the byte order conversions compute, for every Radix.               *)
(***************************************************************************)
EXTENDS Codec, TLAPS

\* Quotient and remainder by a positive divisor.
LEMMA Division ==
  ASSUME NEW n \in Nat, NEW d \in Nat \ {0}
  PROVE  /\ n \div d \in Nat
         /\ n % d \in 0 .. d-1
         /\ n = d * (n \div d) + (n % d)
  BY SMT

\* A quotient is determined by the remainder's range.
LEMMA QuotientUnique ==
  ASSUME NEW m \in Nat \ {0}, NEW u \in Nat, NEW w \in 0 .. m-1
  PROVE  (m * u + w) \div m = u
  BY SMT

\* So is the remainder.
LEMMA RemainderUnique ==
  ASSUME NEW m \in Nat \ {0}, NEW u \in Nat, NEW w \in 0 .. m-1
  PROVE  (m * u + w) % m = w
  BY SMT

\* Products used below, spelled out for the solver.
LEMMA Products ==
  ASSUME NEW d \in Nat, NEW u \in Nat, NEW v \in Nat, NEW r \in Nat,
         NEW s \in Nat
  PROVE  /\ d * (s * u + v) + r = (d * s) * u + (d * v + r)
         /\ d * v \in Nat
         /\ v < s => d * v + d <= d * s
  BY SMT

\* Shifting by one digit after a shift is one longer shift.
LEMMA DivideTwice ==
  ASSUME NEW n \in Nat, NEW d \in Nat \ {0}, NEW s \in Nat \ {0}
  PROVE  n \div (d * s) = (n \div d) \div s
<1> DEFINE q == n \div d
           r == n % d
           u == q \div s
           v == q % s
           w == d * v + r
           m == d * s
<1>1. q \in Nat /\ r \in 0 .. d-1 /\ n = d * q + r
  BY Division
<1>2. u \in Nat /\ v \in 0 .. s-1 /\ q = s * u + v
  BY <1>1, Division
<1> HIDE DEF q, r, u, v
<1>3. m \in Nat \ {0}
  BY SMT
<1>4. d * v \in Nat /\ d * v + d <= m /\ n = m * u + w
  BY <1>1, <1>2, Products
<1>5. w \in 0 .. m - 1
  BY <1>1, <1>3, <1>4, SMT
<1> HIDE DEF m, w
<1>6. n \div m = u
  BY <1>2, <1>3, <1>4, <1>5, QuotientUnique
<1>7. QED BY <1>6 DEF m, u, q

\* A number below d * s has a quotient by d below s.
LEMMA QuotientBound ==
  ASSUME NEW d \in Nat \ {0}, NEW s \in Nat \ {0}, NEW n \in 0 .. d * s - 1
  PROVE  n \div d \in 0 .. s - 1
<1> DEFINE q == n \div d
<1>1. q \in Nat /\ n \in Nat /\ d * q <= n
  BY Division, SMT
<1> HIDE DEF q
<1>2. ASSUME q >= s PROVE d * q >= d * s
  BY <1>1, <1>2, SMT
<1>3. QED BY <1>1, <1>2, SMT DEF q

\* The constants of the module are positive.
LEMMA RadixPowers ==
  /\ Radix \in Nat \ {0} /\ R2 \in Nat \ {0} /\ R3 \in Nat \ {0}
  /\ R4 \in Nat \ {0} /\ R4 = R3 * Radix
<1>1. Radix \in Nat \ {0}
  BY RadixAssumption
<1>2. \A a, b \in Nat \ {0} : a * b \in Nat \ {0}
  BY SMT
<1>3. QED BY <1>1, <1>2 DEF R2, R3, R4

\* Splitting off the last digit of a number.
LEMMA DigitSplit ==
  ASSUME NEW n \in Nat
  PROVE  /\ n \div Radix \in Nat
         /\ n % Radix \in Byte
         /\ n % Radix \in Nat
         /\ n = Radix * (n \div Radix) + (n % Radix)
<1>1. Radix \in Nat \ {0}
  BY RadixPowers
<1>2. QED BY <1>1, SMT DEF Byte

\* int32_to_bytes writes four bytes.
LEMMA BytesAreBytes ==
  ASSUME NEW n \in UInt32
  PROVE  /\ Int32ToBytes(n) \in Seq(Byte)
         /\ Len(Int32ToBytes(n)) = 4
<1>1. n \in Nat
  BY RadixPowers DEF UInt32
<1>2. n \div R3 \in Nat /\ n \div R2 \in Nat /\ n \div Radix \in Nat
  BY <1>1, RadixPowers, Division
<1>3. /\ (n \div R3) % Radix \in Byte /\ (n \div R2) % Radix \in Byte
      /\ (n \div Radix) % Radix \in Byte /\ n % Radix \in Byte
  BY <1>1, <1>2, RadixPowers, Division DEF Byte
<1>4. QED BY <1>3 DEF Int32ToBytes

(***************************************************************************)
(* A length survives int32_to_bytes followed by bytes_to_int32, wherever   *)
(* in a buffer it is written: the receiver of a header reads the length    *)
(* the sender meant, for every value of a uint32_t and every byte size.    *)
(***************************************************************************)
THEOREM LengthRoundTrip ==
  ASSUME NEW n \in UInt32, NEW b \in Seq(Byte), NEW start \in Nat,
         Len(b) >= start + 4,
         \A i \in 1 .. 4 : b[start + i] = Int32ToBytes(n)[i]
  PROVE  BytesToInt32(b, start) = n
<1> DEFINE n1 == n \div Radix
           n2 == n1 \div Radix
           n3 == n2 \div Radix
<1>1. n \in Nat /\ n \in 0 .. R3 * Radix - 1
  BY RadixPowers DEF UInt32
<1>2. n1 \in Nat /\ n = Radix * n1 + (n % Radix) /\ n % Radix \in Nat
  BY <1>1, DigitSplit
<1>3. n2 \in Nat /\ n1 = Radix * n2 + (n1 % Radix) /\ n1 % Radix \in Nat
  <2> HIDE DEF n1
  <2> QED BY <1>2, DigitSplit
<1>4. n3 \in Nat /\ n2 = Radix * n3 + (n2 % Radix) /\ n2 % Radix \in Nat
  <2> HIDE DEF n2
  <2> QED BY <1>3, DigitSplit
<1>5. n2 = n \div R2
  BY <1>1, RadixPowers, DivideTwice DEF R2
<1>6. n3 = n \div R3
  <2>1. n \div (R2 * Radix) = (n \div R2) \div Radix
    BY <1>1, RadixPowers, DivideTwice
  <2>2. QED BY <1>5, <2>1 DEF R3
<1>7. n3 \in 0 .. Radix - 1
  BY <1>1, <1>6, RadixPowers, QuotientBound
<1>8. n3 % Radix = n3
  <2> HIDE DEF n3
  <2> QED BY <1>7, RadixPowers, SMT
<1>9. /\ b[start + 1] = n3 % Radix /\ b[start + 2] = n2 % Radix
      /\ b[start + 3] = n1 % Radix /\ b[start + 4] = n % Radix
  BY <1>5, <1>6 DEF Int32ToBytes
<1> HIDE DEF n1, n2, n3
<1> DEFINE a0 == n % Radix
           a1 == n1 % Radix
           a2 == n2 % Radix
<1>10. BytesToInt32(b, start) = n3 * R3 + a2 * R2 + a1 * Radix + a0
  BY <1>8, <1>9 DEF BytesToInt32
<1>11. a0 \in Nat /\ a1 \in Nat /\ a2 \in Nat
  BY <1>2, <1>3, <1>4
<1>12. /\ n = Radix * n1 + a0 /\ n1 = Radix * n2 + a1 /\ n2 = Radix * n3 + a2
  BY <1>2, <1>3, <1>4
<1> HIDE DEF a0, a1, a2
<1>13. n3 * R3 + a2 * R2 + a1 * Radix + a0 = n
  BY <1>2, <1>3, <1>4, <1>11, <1>12, RadixPowers, SMT DEF R2, R3
<1>14. QED BY <1>10, <1>13

\* One more digit on a number below s gives a number below s * Radix.
LEMMA OneMoreDigit ==
  ASSUME NEW s \in Nat \ {0}, NEW x \in 0 .. s - 1, NEW c \in Byte
  PROVE  x * Radix + c \in 0 .. s * Radix - 1
<1>1. Radix \in Nat \ {0} /\ c \in 0 .. Radix - 1
  BY RadixPowers DEF Byte
<1>2. x * Radix \in Nat /\ x * Radix + Radix <= s * Radix
  BY <1>1, SMT
<1> QED BY <1>1, <1>2, SMT

\* bytes_to_int32 yields a value of a uint32_t.
LEMMA LengthIsUInt32 ==
  ASSUME NEW b \in Seq(Byte), NEW start \in Nat, Len(b) >= start + 4
  PROVE  BytesToInt32(b, start) \in UInt32
<1> DEFINE x1 == b[start + 1]
           x2 == x1 * Radix + b[start + 2]
           x3 == x2 * Radix + b[start + 3]
           x4 == x3 * Radix + b[start + 4]
<1>1. /\ b[start + 1] \in Byte /\ b[start + 2] \in Byte
      /\ b[start + 3] \in Byte /\ b[start + 4] \in Byte
  OBVIOUS
<1>2. x1 \in 0 .. Radix - 1
  BY <1>1 DEF Byte
<1>3. x2 \in 0 .. R2 - 1
  BY <1>1, <1>2, RadixPowers, OneMoreDigit DEF R2
<1>4. x3 \in 0 .. R3 - 1
  <2> HIDE DEF x2
  <2> QED BY <1>1, <1>3, RadixPowers, OneMoreDigit DEF R3
<1>5. x4 \in 0 .. R4 - 1
  <2> HIDE DEF x3
  <2> QED BY <1>1, <1>4, RadixPowers, OneMoreDigit DEF R4
<1>6. BytesToInt32(b, start) = x4
  <2> DEFINE y1 == b[start + 1]
             y2 == b[start + 2]
             y3 == b[start + 3]
             y4 == b[start + 4]
  <2>1. y1 \in Nat /\ y2 \in Nat /\ y3 \in Nat /\ y4 \in Nat /\ Radix \in Nat
    BY <1>1, RadixPowers DEF Byte
  <2>2. BytesToInt32(b, start) = y1 * R3 + y2 * R2 + y3 * Radix + y4
    BY DEF BytesToInt32
  <2>3. x2 = y1 * Radix + y2 /\ x3 = x2 * Radix + y3 /\ x4 = x3 * Radix + y4
    OBVIOUS
  <2> HIDE DEF y1, y2, y3, y4, x2, x3, x4
  <2>4. x2 \in Nat /\ x3 \in Nat
    BY <1>3, <1>4, RadixPowers
  <2>5. y1 * R3 + y2 * R2 + y3 * Radix + y4 = x4
    BY <2>1, <2>3, <2>4, SMT DEF R2, R3
  <2>6. QED BY <2>2, <2>5
<1>7. QED BY <1>5, <1>6 DEF UInt32

=============================================================================
