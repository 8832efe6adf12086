--------------------------- MODULE NetworkProofs ---------------------------
(***************************************************************************)
(* Proofs about the networks of bootkube render, for bytes of any size and *)
(* addresses of any length: what net.ParseCIDR, Contains, the comparison   *)
(* of two networks and the counting of offsetServiceIP mean for addresses  *)
(* as numbers.                                                             *)
(*                                                                         *)
(* All of it goes byte by byte, by induction over the first bytes of an    *)
(* address: an address is its own number (ValInjective), a mask rounds it  *)
(* down to a multiple of the network's size (MaskedRounds), an increment   *)
(* carries (IncPrefixes).  Induction comes from the least counterexample,  *)
(* and what is known of powers of two from counting the subsets of a set.  *)
(***************************************************************************)
EXTENDS Render, FiniteSetTheorems, WellFoundedInduction, TLAPS

(***************************************************************************)
(* Powers of two                                                           *)
(***************************************************************************)
\* A power of two, as the provers see it.
Pow(n) == 2^n

\* The subsets of two disjoint sets, in pairs, are those of their union.
LEMMA PowAdd ==
  ASSUME NEW a \in Nat, NEW b \in Nat
  PROVE  Pow(a + b) = Pow(a) * Pow(b)
  <1> DEFINE S == 1..a
             T == (a + 1)..(a + b)
             f == [p \in (SUBSET S) \X (SUBSET T) |-> p[1] \cup p[2]]
  <1>1. /\ IsFiniteSet(S) /\ Cardinality(S) = a
        /\ IsFiniteSet(T) /\ Cardinality(T) = b
        /\ IsFiniteSet(1..(a + b)) /\ Cardinality(1..(a + b)) = a + b
    <2>1. IsFiniteSet(S) /\ Cardinality(S) = IF 1 > a THEN 0 ELSE a - 1 + 1
      BY FS_Interval
    <2>2. IsFiniteSet(T) /\ Cardinality(T) = IF a + 1 > a + b THEN 0 ELSE (a + b) - (a + 1) + 1
      BY FS_Interval
    <2>3. IsFiniteSet(1..(a + b)) /\ Cardinality(1..(a + b)) = IF 1 > a + b THEN 0 ELSE (a + b) - 1 + 1
      BY FS_Interval
    <2> QED BY <2>1, <2>2, <2>3
  <1>2. S \cup T = 1..(a + b) /\ S \cap T = {}
    OBVIOUS
  <1> HIDE DEF S, T
  <1>3. f \in Bijection((SUBSET S) \X (SUBSET T), SUBSET (S \cup T))
    <2>1. f \in [(SUBSET S) \X (SUBSET T) -> SUBSET (S \cup T)]
      OBVIOUS
    <2>2. ASSUME NEW p \in (SUBSET S) \X (SUBSET T), NEW q \in (SUBSET S) \X (SUBSET T), f[p] = f[q]
          PROVE  p = q
      <3>1. p[1] \cup p[2] = q[1] \cup q[2]
        BY <2>2
      <3>2. p[1] = (p[1] \cup p[2]) \cap S /\ p[2] = (p[1] \cup p[2]) \cap T
        BY <1>2
      <3>3. q[1] = (q[1] \cup q[2]) \cap S /\ q[2] = (q[1] \cup q[2]) \cap T
        BY <1>2
      <3>4. p[1] = q[1] /\ p[2] = q[2]
        BY <3>1, <3>2, <3>3, Zenon
      <3> QED BY <3>4
    <2>3. ASSUME NEW A1 \in SUBSET (S \cup T) PROVE \E p \in (SUBSET S) \X (SUBSET T) : f[p] = A1
      <3> DEFINE p == <<A1 \cap S, A1 \cap T>>
      <3>1. p \in (SUBSET S) \X (SUBSET T) /\ p[1] \cup p[2] = A1
        OBVIOUS
      <3> QED BY <3>1
    <2> HIDE DEF f
    <2>4. f \in Injection((SUBSET S) \X (SUBSET T), SUBSET (S \cup T))
      BY <2>1, <2>2, Zenon DEF Injection, IsInjective
    <2>5. f \in Surjection((SUBSET S) \X (SUBSET T), SUBSET (S \cup T))
      BY <2>1, <2>3, Zenon DEF Surjection
    <2> QED BY <2>4, <2>5 DEF Bijection
  <1>4. /\ IsFiniteSet(SUBSET S) /\ Cardinality(SUBSET S) = 2^a
        /\ IsFiniteSet(SUBSET T) /\ Cardinality(SUBSET T) = 2^b
        /\ Cardinality(SUBSET (S \cup T)) = 2^(a + b)
    BY <1>1, <1>2, FS_SUBSET
  <1>5. /\ IsFiniteSet((SUBSET S) \X (SUBSET T))
        /\ Cardinality((SUBSET S) \X (SUBSET T)) = Cardinality(SUBSET S) * Cardinality(SUBSET T)
    BY <1>4, FS_Product
  <1>6. Cardinality(SUBSET (S \cup T)) = Cardinality((SUBSET S) \X (SUBSET T))
    BY <1>3, <1>5, FS_Bijection DEF ExistsBijection
  <1> QED BY <1>4, <1>5, <1>6 DEF Pow

\* A set has a subset.
LEMMA PowPositive ==
  ASSUME NEW a \in Nat
  PROVE  Pow(a) \in Nat /\ Pow(a) >= 1
  <1> DEFINE S == 1..a
  <1>1. IsFiniteSet(S) /\ Cardinality(S) = a
    BY FS_Interval
  <1> HIDE DEF S
  <1>2. IsFiniteSet(SUBSET S) /\ Cardinality(SUBSET S) = 2^a
    BY <1>1, FS_SUBSET
  <1>3. Cardinality(SUBSET S) \in Nat
    BY <1>2, FS_CardinalityType
  <1>4. {} \in SUBSET S
    OBVIOUS
  <1>5. Cardinality(SUBSET S) # 0
    BY <1>2, <1>4, FS_EmptySet
  <1> QED BY <1>2, <1>3, <1>5 DEF Pow

\* The powers that the offsets of the services are compared with.
LEMMA PowSmall == Pow(0) = 1 /\ Pow(1) = 2 /\ Pow(2) = 4 /\ Pow(3) = 8 /\ Pow(4) = 16
  BY DEF Pow

----------------------------------------------------------------------------
(***************************************************************************)
(* Induction and recursion                                                 *)
(***************************************************************************)
\* A set of numbers has a least one: induction, by the least counterexample.
LEMMA LeastNumber ==
  ASSUME NEW T, T \subseteq Nat, T # {}
  PROVE  \E i \in T : \A j \in T : ~(j < i)
  <1>1. \E i \in T : \A j \in T : ~(<<j, i>> \in OpToRel(<, Nat))
    BY NatLessThanWellFounded, WFMin
  <1> QED BY <1>1 DEF OpToRel

\* Induction up to a bound, for a property given by the numbers that have it.
LEMMA UpTo ==
  ASSUME NEW N \in Nat, NEW P, 0 \in P,
         \A i \in 1..N : i - 1 \in P => i \in P
  PROVE  \A i \in 0..N : i \in P
  <1> DEFINE T == {i \in 0..N : i \notin P}
  <1> SUFFICES ASSUME T # {} PROVE FALSE
    OBVIOUS
  <1>1. PICK i \in T : \A j \in T : ~(j < i)
    <2>1. T \subseteq Nat
      OBVIOUS
    <2> HIDE DEF T
    <2> QED BY <2>1, LeastNumber
  <1>2. i \in 1..N /\ i - 1 \in 0..N /\ i - 1 < i
    BY <1>1
  <1>3. i - 1 \in P
    BY <1>1, <1>2
  <1> QED BY <1>1, <1>2, <1>3

\* f starts at x0 and takes the steps of S.
Iterates(f, N, X, x0, S) ==
  f \in [0..N -> X] /\ f[0] = x0 /\ \A i \in 1..N : f[i] = S[i][f[i - 1]]

\* Functions on an initial segment of the numbers may be defined by recursion.
LEMMA Recursion ==
  ASSUME NEW N \in Nat, NEW X, NEW x0, x0 \in X, NEW S, S \in [1..N -> [X -> X]]
  PROVE  \E f : Iterates(f, N, X, x0, S)
  <1> DEFINE Def(n) == \E f \in [0..n -> X] : f[0] = x0 /\ \A i \in 1..n : f[i] = S[i][f[i - 1]]
             P == {n \in 0..N : Def(n)}
  <1>1. 0 \in P
    <2> DEFINE f == [i \in 0..0 |-> x0]
    <2>1. f \in [0..0 -> X] /\ f[0] = x0 /\ \A i \in 1..0 : f[i] = S[i][f[i - 1]]
      OBVIOUS
    <2> HIDE DEF f
    <2> QED BY <2>1
  <1>2. ASSUME NEW n \in 1..N, n - 1 \in P PROVE n \in P
    <2>1. PICK f \in [0..(n - 1) -> X] : f[0] = x0 /\ \A i \in 1..(n - 1) : f[i] = S[i][f[i - 1]]
      BY <1>2
    <2> DEFINE g == [i \in 0..n |-> IF i = n THEN S[n][f[n - 1]] ELSE f[i]]
    <2>2. g \in [0..n -> X]
      BY <2>1
    <2>3. g[0] = x0
      BY <2>1
    <2>4. ASSUME NEW i \in 1..n PROVE g[i] = S[i][g[i - 1]]
      <3>1. CASE i = n
        BY <3>1
      <3>2. CASE i # n
        BY <2>1, <3>2
      <3> QED BY <3>1, <3>2
    <2> HIDE DEF g
    <2> QED BY <2>2, <2>3, <2>4
  <1> HIDE DEF P
  <1>3. \A i \in 0..N : i \in P
    BY <1>1, <1>2, UpTo
  <1>4. Def(N)
    BY <1>3 DEF P
  <1> QED BY <1>4, Zenon DEF Iterates

----------------------------------------------------------------------------
(***************************************************************************)
(* Addresses                                                               *)
(***************************************************************************)
Base == Pow(Bits)
Addresses == Seq(0..(Base - 1))

\* A byte has at least two values.
LEMMA BaseType == Base \in Nat /\ Base >= 2
  <1>1. Bits \in Nat /\ Bits - 1 \in Nat /\ Bits = 1 + (Bits - 1)
    BY BitsAssumption
  <1>2. Base = Pow(1) * Pow(Bits - 1)
    BY <1>1, PowAdd DEF Base
  <1>3. Pow(Bits - 1) \in Nat /\ Pow(Bits - 1) >= 1 /\ Pow(1) = 2
    BY <1>1, PowPositive, PowSmall
  <1> QED BY <1>2, <1>3

\* What Vals computes.
LEMMA ValsDef ==
  ASSUME NEW ip \in Addresses
  PROVE  /\ Vals(ip) \in [0..Len(ip) -> Nat] /\ Vals(ip)[0] = 0
         /\ \A i \in 1..Len(ip) : Vals(ip)[i] = Vals(ip)[i - 1] * Base + ip[i]
  <1> DEFINE L == Len(ip)
             S == [i \in 1..L |-> [x \in Nat |-> x * Base + ip[i]]]
  <1>1. L \in Nat /\ \A i \in 1..L : ip[i] \in Nat
    BY BaseType DEF Addresses
  <1>2. \A i \in 1..L, x \in Nat : x * Base + ip[i] \in Nat
    BY <1>1, BaseType
  <1>3. S \in [1..L -> [Nat -> Nat]]
    BY <1>2
  <1>4. PICK f \in [0..L -> Nat] : f[0] = 0 /\ \A i \in 1..L : f[i] = S[i][f[i - 1]]
    <2> DEFINE X == Nat
               x0 == 0
    <2>1. L \in Nat /\ x0 \in X /\ S \in [1..L -> [X -> X]]
      BY <1>1, <1>3
    <2> HIDE DEF S, L, X, x0
    <2>2. \E f : Iterates(f, L, X, x0, S)
      BY <2>1, Recursion, Zenon
    <2> QED BY <2>2 DEF Iterates, X, x0
  <1>5. ASSUME NEW i \in 1..L PROVE f[i] = f[i - 1] * Base + ip[i]
    <2>1. i - 1 \in 0..L
      BY <1>1
    <2>2. f[i - 1] \in Nat
      BY <1>4, <2>1
    <2>3. S[i][f[i - 1]] = f[i - 1] * Base + ip[i]
      BY <2>2
    <2> QED BY <1>4, <2>3, Zenon
  <1>6. f = [i \in 0..L |-> IF i = 0 THEN 0 ELSE f[i - 1] * 2^Bits + ip[i]]
    BY <1>1, <1>4, <1>5 DEF Base, Pow
  <1>7. Vals(ip) = [i \in 0..L |-> IF i = 0 THEN 0 ELSE Vals(ip)[i - 1] * 2^Bits + ip[i]]
    BY <1>6 DEF Vals
  <1> DEFINE v == Vals(ip)
  <1>8. v = [i \in 0..L |-> IF i = 0 THEN 0 ELSE v[i - 1] * Base + ip[i]]
    BY <1>7 DEF Base, Pow
  <1> HIDE DEF v, L, S
  <1>9. v[0] = 0 /\ \A i \in 1..L : v[i] = v[i - 1] * Base + ip[i]
    BY <1>1, <1>8
  <1>10. \A i \in 0..L : v[i] \in Nat
    <2> DEFINE P == {i \in 0..L : v[i] \in Nat}
    <2>1. 0 \in P
      BY <1>1, <1>9
    <2>2. ASSUME NEW i \in 1..L, i - 1 \in P PROVE i \in P
      <3>1. v[i - 1] \in Nat
        BY <2>2
      <3>2. v[i - 1] * Base + ip[i] \in Nat
        BY <1>2, <3>1
      <3>3. i \in 0..L /\ v[i] \in Nat
        BY <1>1, <1>9, <3>2
      <3> QED BY <3>3
    <2> HIDE DEF P
    <2>3. \A i \in 0..L : i \in P
      BY <1>1, <2>1, <2>2, UpTo
    <2> QED BY <2>3 DEF P
  <1>11. v \in [0..L -> Nat]
    BY <1>8, <1>10
  <1> QED BY <1>9, <1>11 DEF v, L

----------------------------------------------------------------------------
(***************************************************************************)
(* Arithmetic, in the pieces that the proofs below put together            *)
(***************************************************************************)
\* Division rounds down.
LEMMA DivMod ==
  ASSUME NEW b \in Nat, NEW h \in Nat, h >= 1
  PROVE  \E q \in Nat : /\ b \div h = q
                        /\ q * h <= b /\ b < q * h + h
  OBVIOUS

\* A byte that is incremented wraps at its limit.
LEMMA Wrap ==
  ASSUME NEW b \in Nat, NEW h \in Nat, b < h
  PROVE  /\ b + 1 < h => (b + 1) % h = b + 1
         /\ b + 1 = h => (b + 1) % h = 0
  OBVIOUS

\* Multiplication keeps the order, ...
LEMMA MulMono ==
  ASSUME NEW a \in Nat, NEW b \in Nat, NEW c \in Nat, a <= b
  PROVE  a * c <= b * c
  OBVIOUS

\* ... distributes ...
LEMMA Distribute ==
  ASSUME NEW a \in Int, NEW b \in Int, NEW c \in Int
  PROVE  (a + b) * c = a * c + b * c /\ (a - b) * c = a * c - b * c
  OBVIOUS

\* ... and associates.
LEMMA Associate ==
  ASSUME NEW a \in Int, NEW b \in Int, NEW c \in Int
  PROVE  (a * b) * c = a * (b * c) /\ a * b = b * a
  OBVIOUS

\* Two multiples of a number that are less than it apart are one.
LEMMA SameMultiple ==
  ASSUME NEW s \in Nat, s >= 1, NEW k \in Nat, NEW l \in Nat,
         k * s < l * s + s, l * s < k * s + s
  PROVE  k * s = l * s
  <1>1. CASE k < l
    <2>1. (k + 1) * s <= l * s
      BY <1>1, MulMono
    <2> QED BY <2>1, Distribute
  <1>2. CASE l < k
    <2>1. (l + 1) * s <= k * s
      BY <1>2, MulMono
    <2> QED BY <2>1, Distribute
  <1> QED BY <1>1, <1>2

----------------------------------------------------------------------------
(***************************************************************************)
(* Masks                                                                   *)
(***************************************************************************)
\* The bits that the mask leaves to the hosts in the first i bytes.
Host(ones, i) == IF Bits * i > ones THEN Bits * i - ones ELSE 0

\* They add up, and where a byte before has some, all bits of a byte are.
LEMMA HostStep ==
  ASSUME NEW ones \in Nat, NEW j \in Nat, j >= 1
  PROVE  /\ HostBits(ones, j) \in 0..Bits
         /\ Host(ones, j) \in Nat /\ Host(ones, j - 1) \in Nat
         /\ Host(ones, j) = Host(ones, j - 1) + HostBits(ones, j)
         /\ Host(ones, j - 1) = 0 \/ HostBits(ones, j) = Bits
  <1>1. Bits \in Nat /\ Bits >= 1
    BY BitsAssumption
  <1>2. Bits * j = Bits * (j - 1) + Bits /\ Bits * (j - 1) \in Nat
    BY <1>1
  <1> DEFINE x == Bits * (j - 1)
             y == Bits * j
  <1>3. x \in Nat /\ y = x + Bits
    BY <1>2
  <1>4. /\ HostBits(ones, j) = IF ones - x <= 0 THEN Bits ELSE IF ones - x >= Bits THEN 0 ELSE Bits - (ones - x)
        /\ Host(ones, j) = IF y > ones THEN y - ones ELSE 0
        /\ Host(ones, j - 1) = IF x > ones THEN x - ones ELSE 0
    BY DEF HostBits, Host
  <1> HIDE DEF x, y
  <1> QED BY <1>1, <1>3, <1>4

\* What an address consists of.
LEMMA AddressBytes ==
  ASSUME NEW ip \in Addresses
  PROVE  /\ Len(ip) \in Nat /\ DOMAIN ip = 1..Len(ip)
         /\ \A j \in 1..Len(ip) : ip[j] \in Nat /\ ip[j] < Base
  BY BaseType DEF Addresses

\* A masked byte.
LEMMA MaskedByte ==
  ASSUME NEW ip \in Addresses, NEW ones \in Nat, NEW j \in 1..Len(ip)
  PROVE  /\ Masked(ip, ones)[j] \in Nat
         /\ Masked(ip, ones)[j] <= ip[j] /\ ip[j] < Masked(ip, ones)[j] + Pow(HostBits(ones, j))
         /\ \E q \in Nat : Masked(ip, ones)[j] = q * Pow(HostBits(ones, j))
  <1> DEFINE h == Pow(HostBits(ones, j))
             b == ip[j]
  <1>1. b \in Nat
    BY AddressBytes
  <1>2. j \in Nat /\ j >= 1
    BY AddressBytes
  <1>3. HostBits(ones, j) \in Nat
    <2>1. HostBits(ones, j) \in 0..Bits
      BY <1>2, HostStep
    <2> QED BY <2>1, BitsAssumption
  <1>4. h \in Nat /\ h >= 1
    BY <1>3, PowPositive
  <1>5. Masked(ip, ones)[j] = (b \div h) * h
    BY DEF Masked, Pow
  <1> HIDE DEF h, b
  <1>6. PICK q \in Nat : b \div h = q /\ q * h <= b /\ b < q * h + h
    BY <1>1, <1>4, DivMod
  <1>7. Masked(ip, ones)[j] = q * h /\ q * h \in Nat
    BY <1>4, <1>5, <1>6
  <1>8. /\ Masked(ip, ones)[j] \in Nat
        /\ Masked(ip, ones)[j] <= b /\ b < Masked(ip, ones)[j] + h
        /\ \E k \in Nat : Masked(ip, ones)[j] = k * h
    BY <1>6, <1>7
  <1> QED BY <1>8 DEF h, b

\* A masked address is an address.
LEMMA MaskedAddress ==
  ASSUME NEW ip \in Addresses, NEW ones \in Nat
  PROVE  Masked(ip, ones) \in Addresses /\ Len(Masked(ip, ones)) = Len(ip)
  <1> DEFINE m == Masked(ip, ones)
             n == Len(ip)
             R == 0..(Base - 1)
  <1>1. n \in Nat
    BY AddressBytes
  <1>2. m = [j \in 1..n |-> m[j]]
    BY DEF Masked
  <1>3. \A j \in 1..n : m[j] \in R
    <2> TAKE j \in 1..n
    <2>1. m[j] \in Nat /\ m[j] <= ip[j]
      BY MaskedByte
    <2>2. ip[j] \in Nat /\ ip[j] < Base
      BY AddressBytes
    <2> HIDE DEF m
    <2> QED BY <2>1, <2>2, BaseType
  <1> HIDE DEF m, n, R
  <1>4. m \in [1..n -> R]
    BY <1>2, <1>3
  <1>5. m \in Seq(R) /\ Len(m) = n
    BY <1>1, <1>4
  <1> QED BY <1>5 DEF m, n, R, Addresses

----------------------------------------------------------------------------
\* m is what is left of v by a mask that leaves s to the hosts.
Rounds(m, v, s) == m <= v /\ v < m + s /\ \E k \in Nat : m = k * s

\* One more byte, where the mask ends in it or after it ...
LEMMA RoundsMasked ==
  ASSUME NEW m \in Nat, NEW v \in Nat, Rounds(m, v, 1),
         NEW c \in Nat, NEW b \in Nat, NEW h \in Nat, NEW g \in Nat, Rounds(c, b, h)
  PROVE  Rounds(m * (g * h) + c, v * (g * h) + b, h)
  <1>1. m = v
    BY DEF Rounds
  <1>2. PICK q \in Nat : c = q * h
    BY DEF Rounds
  <1> DEFINE x == m * (g * h)
  <1>3. x \in Nat /\ x = (m * g) * h /\ m * g \in Nat
    OBVIOUS
  <1> DEFINE k == m * g + q
  <1>4. k \in Nat /\ x + c = k * h
    <2> HIDE DEF x
    <2> DEFINE y == m * g
    <2>1. y \in Nat /\ x = y * h
      BY <1>3
    <2> HIDE DEF y
    <2>2. (y + q) * h = y * h + q * h
      BY <2>1
    <2> QED BY <1>2, <2>1, <2>2 DEF y
  <1>5. v * (g * h) = x
    BY <1>1
  <1> HIDE DEF x, k
  <1>6. Rounds(x + c, x + b, h)
    BY <1>3, <1>4 DEF Rounds
  <1> QED BY <1>5, <1>6 DEF x

\* ... and where it ended before.
LEMMA RoundsHost ==
  ASSUME NEW m \in Nat, NEW v \in Nat, NEW s \in Nat, Rounds(m, v, s),
         NEW c \in Nat, NEW b \in Nat, NEW h \in Nat, Rounds(c, b, h), b < h
  PROVE  Rounds(m * h + c, v * h + b, s * h)
  <1>1. c = 0
    <2>1. PICK q \in Nat : c = q * h
      BY DEF Rounds
    <2>2. q >= 1 => 1 * h <= q * h
      BY MulMono
    <2> QED BY <2>1, <2>2 DEF Rounds
  <1>2. m * h <= v * h
    BY MulMono DEF Rounds
  <1>3. (v + 1) * h <= (m + s) * h
    BY MulMono DEF Rounds
  <1>4. (v + 1) * h = v * h + h /\ (m + s) * h = m * h + s * h
    BY Distribute
  <1>5. m * h \in Nat /\ v * h \in Nat /\ s * h \in Nat
    OBVIOUS
  <1>6. \E k \in Nat : m * h = k * (s * h)
    <2>1. PICK k \in Nat : m = k * s
      BY DEF Rounds
    <2>2. (k * s) * h = k * (s * h)
      BY Associate
    <2> QED BY <2>1, <2>2
  <1> DEFINE x == m * h
             y == v * h
             z == s * h
  <1>7. /\ x \in Nat /\ y \in Nat /\ z \in Nat /\ x <= y
        /\ \E k \in Nat : x = k * z
    BY <1>2, <1>5, <1>6, Zenon
  <1>9. y + h <= x + z
    BY <1>3, <1>4, Zenon
  <1> HIDE DEF x, y, z
  <1>8. Rounds(x + c, y + b, z)
    <2>1. x + c = x
      BY <1>1, <1>7
    <2>2. x <= y + b /\ y + b < x + z
      BY <1>7, <1>9
    <2> QED BY <1>7, <2>1, <2>2, Zenon DEF Rounds
  <1> QED BY <1>8 DEF x, y, z

\* A masked address is the address rounded down to a multiple of what the mask
\* leaves to the hosts.
LEMMA MaskedRounds ==
  ASSUME NEW ip \in Addresses, NEW ones \in Nat
  PROVE  \A i \in 0..Len(ip) :
           Rounds(Vals(Masked(ip, ones))[i], Vals(ip)[i], Pow(Host(ones, i)))
  <1> DEFINE n == Len(ip)
             m == Vals(Masked(ip, ones))
             v == Vals(ip)
             c == Masked(ip, ones)
             s(i) == Pow(Host(ones, i))
             P == {i \in 0..n : Rounds(m[i], v[i], s(i))}
  <1>1. n \in Nat
    BY AddressBytes
  <1>2. /\ v \in [0..n -> Nat] /\ v[0] = 0
        /\ \A i \in 1..n : v[i] = v[i - 1] * Base + ip[i]
    BY ValsDef
  <1>3. c \in Addresses /\ Len(c) = n
    BY MaskedAddress
  <1>4. /\ m \in [0..n -> Nat] /\ m[0] = 0
        /\ \A i \in 1..n : m[i] = m[i - 1] * Base + c[i]
    <2> HIDE DEF c, n
    <2>1. /\ Vals(c) \in [0..n -> Nat] /\ Vals(c)[0] = 0
          /\ \A i \in 1..n : Vals(c)[i] = Vals(c)[i - 1] * Base + c[i]
      BY <1>3, ValsDef, Zenon
    <2> QED BY <2>1 DEF c
  <1>5. 0 \in P
    <2>1. Host(ones, 0) = 0
      BY BitsAssumption DEF Host
    <2>2. s(0) = 1
      BY <2>1, PowSmall
    <2>3. Rounds(0, 0, 1)
      BY DEF Rounds
    <2> HIDE DEF m, v, s, n
    <2>4. Rounds(m[0], v[0], s(0))
      BY <1>2, <1>4, <2>2, <2>3
    <2> QED BY <1>1, <2>4
  <1>6. ASSUME NEW i \in 1..n, i - 1 \in P PROVE i \in P
    <2> DEFINE h == Pow(HostBits(ones, i))
    <2>1. i \in Nat /\ i >= 1 /\ i \in 0..n /\ i - 1 \in 0..n
      BY <1>1
    <2>2. /\ HostBits(ones, i) \in Nat /\ Bits - HostBits(ones, i) \in Nat
          /\ Bits = (Bits - HostBits(ones, i)) + HostBits(ones, i)
          /\ Host(ones, i - 1) \in Nat
          /\ Host(ones, i) = Host(ones, i - 1) + HostBits(ones, i)
          /\ Host(ones, i - 1) = 0 \/ HostBits(ones, i) = Bits
      <3>1. /\ HostBits(ones, i) \in 0..Bits /\ Host(ones, i - 1) \in Nat
            /\ Host(ones, i) = Host(ones, i - 1) + HostBits(ones, i)
            /\ Host(ones, i - 1) = 0 \/ HostBits(ones, i) = Bits
        BY <2>1, HostStep
      <3> QED BY <3>1, BitsAssumption
    <2> DEFINE g == Pow(Bits - HostBits(ones, i))
    <2>3. Base = g * h /\ g \in Nat /\ h \in Nat
      BY <2>2, PowAdd, PowPositive DEF Base
    <2>4. s(i) = s(i - 1) * h /\ s(i - 1) \in Nat
      BY <2>2, PowAdd, PowPositive
    <2>5. c[i] \in Nat /\ ip[i] \in Nat /\ Rounds(c[i], ip[i], h) /\ ip[i] < Base
      <3>1. /\ c[i] \in Nat /\ c[i] <= ip[i] /\ ip[i] < c[i] + h
            /\ \E q \in Nat : c[i] = q * h
        BY MaskedByte
      <3>2. ip[i] \in Nat /\ ip[i] < Base
        BY AddressBytes
      <3> QED BY <3>1, <3>2, Zenon DEF Rounds
    <2>6. Rounds(m[i - 1], v[i - 1], s(i - 1)) /\ m[i - 1] \in Nat /\ v[i - 1] \in Nat
      BY <1>2, <1>4, <1>6, <2>1
    <2>7. s(i - 1) = 1 \/ h = Base
      BY <2>2, PowSmall DEF Base
    <2>8. m[i] = m[i - 1] * Base + c[i] /\ v[i] = v[i - 1] * Base + ip[i]
      BY <1>2, <1>4
    <2> HIDE DEF h, g, s, m, v, c, n
    <2>9. CASE s(i - 1) = 1
      <3>1. Rounds(m[i - 1], v[i - 1], 1)
        BY <2>6, <2>9
      <3>2. Rounds(m[i - 1] * (g * h) + c[i], v[i - 1] * (g * h) + ip[i], h)
        BY <2>3, <2>5, <2>6, <3>1, RoundsMasked
      <3>3. s(i) = h
        BY <2>3, <2>4, <2>9
      <3>4. Rounds(m[i], v[i], s(i))
        BY <2>3, <2>8, <3>2, <3>3, Zenon
      <3> QED BY <2>1, <3>4
    <2>10. CASE h = Base
      <3>1. ip[i] < h
        BY <2>5, <2>10
      <3>2. Rounds(m[i - 1] * h + c[i], v[i - 1] * h + ip[i], s(i - 1) * h)
        BY <2>3, <2>4, <2>5, <2>6, <3>1, RoundsHost
      <3>3. Rounds(m[i], v[i], s(i))
        BY <2>4, <2>8, <2>10, <3>2, Zenon
      <3> QED BY <2>1, <3>3
    <2> QED BY <2>7, <2>9, <2>10
  <1>7. \A i \in 0..n : i \in P
    <2> HIDE DEF P, n
    <2> QED BY <1>1, <1>5, <1>6, UpTo
  <1> QED BY <1>7

----------------------------------------------------------------------------
\* An address is less than the size of its address space.
LEMMA ValueBound ==
  ASSUME NEW ip \in Addresses
  PROVE  \A i \in 0..Len(ip) : Vals(ip)[i] < Pow(Bits * i) /\ Pow(Bits * i) \in Nat
  <1> DEFINE n == Len(ip)
             v == Vals(ip)
             s(i) == Pow(Bits * i)
             P == {i \in 0..n : v[i] < s(i) /\ s(i) \in Nat}
  <1>1. n \in Nat /\ Bits \in Nat
    BY AddressBytes, BitsAssumption
  <1>2. /\ v \in [0..n -> Nat] /\ v[0] = 0
        /\ \A i \in 1..n : v[i] = v[i - 1] * Base + ip[i]
    BY ValsDef
  <1>3. 0 \in P
    <2>1. Bits * 0 = 0
      BY <1>1
    <2>2. s(0) = 1
      BY <2>1, PowSmall
    <2> HIDE DEF v, n, s
    <2> QED BY <1>1, <1>2, <2>2
  <1>4. ASSUME NEW i \in 1..n, i - 1 \in P PROVE i \in P
    <2>1. i \in 0..n /\ i - 1 \in 0..n /\ i \in Nat /\ i - 1 \in Nat
      BY <1>1
    <2>2. Bits * i = Bits * (i - 1) + Bits /\ Bits * (i - 1) \in Nat
      BY <1>1, <2>1
    <2>3. s(i) = s(i - 1) * Base
      BY <1>1, <2>2, PowAdd DEF Base
    <2>4. ip[i] \in Nat /\ ip[i] < Base
      BY AddressBytes
    <2>5. v[i - 1] \in Nat /\ v[i - 1] < s(i - 1) /\ s(i - 1) \in Nat
      BY <1>2, <1>4, <2>1
    <2>6. v[i] = v[i - 1] * Base + ip[i]
      BY <1>2
    <2> HIDE DEF v, n, s
    <2>7. (v[i - 1] + 1) * Base <= s(i - 1) * Base
      BY <2>5, BaseType, MulMono
    <2>8. (v[i - 1] + 1) * Base = v[i - 1] * Base + Base
      BY <2>5, BaseType
    <2>9. v[i - 1] * Base \in Nat /\ s(i - 1) * Base \in Nat
      BY <2>5, BaseType
    <2>10. v[i] < s(i) /\ s(i) \in Nat
      <3> DEFINE x == v[i - 1] * Base
                 y == s(i - 1) * Base
      <3>1. x + Base <= y
        BY <2>7, <2>8, Zenon
      <3>2. x \in Nat /\ y \in Nat /\ v[i] = x + ip[i] /\ s(i) = y
        BY <2>3, <2>6, <2>9, Zenon
      <3> HIDE DEF x, y
      <3> QED BY <2>4, <3>1, <3>2, BaseType
    <2> QED BY <2>1, <2>10
  <1>5. \A i \in 0..n : i \in P
    <2> HIDE DEF P, n
    <2> QED BY <1>1, <1>3, <1>4, UpTo
  <1> QED BY <1>5

\* The last digit and the number before it are determined.
LEMMA Digits ==
  ASSUME NEW x \in Nat, NEW y \in Nat, NEW b \in Nat, NEW p \in Nat, NEW q \in Nat,
         p < b, q < b, x * b + p = y * b + q
  PROVE  x = y /\ p = q
  <1>1. ~(x < y)
    <2> SUFFICES ASSUME x < y PROVE FALSE
      OBVIOUS
    <2>1. (x + 1) * b <= y * b
      BY MulMono
    <2>2. (x + 1) * b = x * b + b
      OBVIOUS
    <2> QED BY <2>1, <2>2
  <1>2. ~(y < x)
    <2> SUFFICES ASSUME y < x PROVE FALSE
      OBVIOUS
    <2>1. (y + 1) * b <= x * b
      BY MulMono
    <2>2. (y + 1) * b = y * b + b
      OBVIOUS
    <2> QED BY <2>1, <2>2
  <1>3. x = y
    BY <1>1, <1>2
  <1> QED BY <1>3

\* The number of an address is its own.
LEMMA ValInjective ==
  ASSUME NEW a \in Addresses, NEW b \in Addresses, Len(a) = Len(b), Val(a) = Val(b)
  PROVE  a = b
  <1> DEFINE n == Len(a)
             v == Vals(a)
             w == Vals(b)
             P == {i \in 0..n : v[i] = w[i] => \A j \in 1..i : a[j] = b[j]}
  <1>1. n \in Nat
    BY AddressBytes
  <1>2. /\ v \in [0..n -> Nat] /\ v[0] = 0
        /\ \A i \in 1..n : v[i] = v[i - 1] * Base + a[i]
    BY ValsDef
  <1>3. /\ w \in [0..n -> Nat] /\ w[0] = 0
        /\ \A i \in 1..n : w[i] = w[i - 1] * Base + b[i]
    <2>1. /\ w \in [0..Len(b) -> Nat] /\ w[0] = 0
          /\ \A i \in 1..Len(b) : w[i] = w[i - 1] * Base + b[i]
      BY ValsDef
    <2> QED BY <2>1
  <1>4. 0 \in P
    <2>1. 0 \in 0..n /\ 1..0 = {}
      BY <1>1
    <2> HIDE DEF v, w, n
    <2> QED BY <2>1
  <1>5. ASSUME NEW i \in 1..n, i - 1 \in P PROVE i \in P
    <2>1. i \in 0..n /\ i - 1 \in 0..n /\ 1..i = 1..(i - 1) \cup {i}
      BY <1>1
    <2>2. SUFFICES ASSUME v[i] = w[i] PROVE \A j \in 1..i : a[j] = b[j]
      BY <2>1
    <2>3. a[i] \in Nat /\ a[i] < Base /\ b[i] \in Nat /\ b[i] < Base
      BY AddressBytes
    <2>4. /\ v[i - 1] \in Nat /\ w[i - 1] \in Nat
          /\ v[i - 1] * Base + a[i] = w[i - 1] * Base + b[i]
      BY <1>2, <1>3, <2>1, <2>2
    <2>5. v[i - 1] = w[i - 1] /\ a[i] = b[i]
      <3> DEFINE x == v[i - 1]
                 y == w[i - 1]
                 p == a[i]
                 q == b[i]
      <3>1. /\ x \in Nat /\ y \in Nat /\ p \in Nat /\ q \in Nat /\ Base \in Nat
            /\ p < Base /\ q < Base /\ x * Base + p = y * Base + q
        BY <2>3, <2>4, BaseType
      <3> HIDE DEF x, y, p, q
      <3>2. x = y /\ p = q
        BY <3>1, Digits
      <3> QED BY <3>2 DEF x, y, p, q
    <2>6. \A j \in 1..(i - 1) : a[j] = b[j]
      BY <1>5, <2>5
    <2> QED BY <2>1, <2>5, <2>6
  <1>6. \A i \in 0..n : i \in P
    <2> HIDE DEF P, n
    <2> QED BY <1>1, <1>4, <1>5, UpTo
  <1>7. n \in 0..n /\ v[n] = w[n]
    BY <1>1 DEF Val
  <1>8. \A j \in 1..n : a[j] = b[j]
    BY <1>6, <1>7
  <1> QED BY <1>8 DEF Addresses

----------------------------------------------------------------------------
(***************************************************************************)
(* Networks                                                                *)
(***************************************************************************)
\* The size of the address space of an address.
Space(ip) == Pow(Bits * Len(ip))

\* An address is in its address space.
LEMMA ValType ==
  ASSUME NEW ip \in Addresses
  PROVE  Val(ip) \in Nat /\ Space(ip) \in Nat /\ Val(ip) < Space(ip)
  <1>1. Len(ip) \in 0..Len(ip)
    BY AddressBytes
  <1>2. Vals(ip)[Len(ip)] < Pow(Bits * Len(ip)) /\ Pow(Bits * Len(ip)) \in Nat
    BY <1>1, ValueBound
  <1>3. Vals(ip) \in [0..Len(ip) -> Nat]
    BY ValsDef
  <1>4. Vals(ip)[Len(ip)] \in Nat
    BY <1>1, <1>3
  <1> QED BY <1>2, <1>4 DEF Val, Space

\* What net.ParseCIDR makes: an aligned range within the address space.
IsNet(net) ==
  /\ net.ip \in Addresses /\ net.ones \in Nat /\ Bits * Len(net.ip) - net.ones \in Nat
  /\ Size(net) \in Nat /\ Size(net) >= 1
  /\ \E k \in Nat : Val(net.ip) = k * Size(net)
  /\ Val(net.ip) + Size(net) <= Space(net.ip)
  /\ Space(net.ip) > dnsOffset

\* The range of a network.
LEMMA MaskedVal ==
  ASSUME NEW ip \in Addresses, NEW ones \in Nat, ones <= Bits * Len(ip)
  PROVE  /\ Bits * Len(ip) - ones \in Nat
         /\ Rounds(Val(Masked(ip, ones)), Val(ip), Pow(Bits * Len(ip) - ones))
  <1>1. Len(ip) \in 0..Len(ip) /\ Len(ip) \in Nat
    BY AddressBytes
  <1>2. Bits * Len(ip) \in Nat
    BY <1>1, BitsAssumption
  <1>3. Bits * Len(ip) - ones \in Nat /\ Host(ones, Len(ip)) = Bits * Len(ip) - ones
    BY <1>2 DEF Host
  <1>4. Rounds(Vals(Masked(ip, ones))[Len(ip)], Vals(ip)[Len(ip)], Pow(Host(ones, Len(ip))))
    BY <1>1, MaskedRounds
  <1>5. Len(Masked(ip, ones)) = Len(ip)
    BY MaskedAddress
  <1> QED BY <1>3, <1>4, <1>5, Zenon DEF Val

\* A flag that parses makes such a network.
LEMMA ParsedNet ==
  ASSUME NEW cidr \in CIDRs
  PROVE  IsNet(ParseCIDR(cidr))
  <1> DEFINE ip == cidr.ip
             ones == cidr.ones
             m == Masked(ip, ones)
             e == Bits * Len(ip) - ones
  <1>1. /\ ip \in Seq(0..(2^Bits - 1)) /\ ones \in Nat
        /\ ones <= Bits * Len(ip) /\ 2^(Bits * Len(ip)) > dnsOffset
    BY DEF CIDRs
  <1>2. ip \in Addresses /\ Space(ip) > dnsOffset
    BY <1>1 DEF Addresses, Base, Pow, Space
  <1>3. m \in Addresses /\ Len(m) = Len(ip)
    BY <1>1, <1>2, MaskedAddress
  <1>4. e \in Nat /\ Rounds(Val(m), Val(ip), Pow(e))
    BY <1>1, <1>2, MaskedVal
  <1>5. Val(ip) \in Nat /\ Val(m) \in Nat /\ Space(ip) \in Nat /\ Space(m) = Space(ip) /\ Val(m) < Space(ip)
    BY <1>2, <1>3, ValType DEF Space
  <1>6. Pow(e) \in Nat /\ Pow(e) >= 1 /\ Pow(ones) \in Nat
    BY <1>1, <1>4, PowPositive
  <1>7. Space(ip) = Pow(ones) * Pow(e)
    <2>1. Bits * Len(ip) = ones + e
      <3>1. Bits * Len(ip) \in Nat
        BY <1>2, AddressBytes, BitsAssumption
      <3> QED BY <1>1, <3>1
    <2>2. Pow(ones + e) = Pow(ones) * Pow(e)
      BY <1>1, <1>4, PowAdd
    <2> QED BY <2>1, <2>2 DEF Space
  <1>8. PICK k \in Nat : Val(m) = k * Pow(e)
    BY <1>4 DEF Rounds
  <1> DEFINE s == Pow(e)
             t == Pow(ones)
  <1>9. s \in Nat /\ s >= 1 /\ t \in Nat /\ k * s < t * s
    BY <1>5, <1>6, <1>7, <1>8
  <1>10. k * s + s <= t * s
    <2> HIDE DEF s, t
    <2>1. k < t
      <3> SUFFICES ASSUME t <= k PROVE FALSE
        BY <1>9
      <3>1. t * s <= k * s
        BY <1>9, MulMono
      <3>2. t * s \in Nat /\ k * s \in Nat
        BY <1>9
      <3> QED BY <1>9, <3>1, <3>2
    <2>2. (k + 1) * s <= t * s
      BY <1>9, <2>1, MulMono
    <2>3. (k + 1) * s = k * s + s
      BY <1>9
    <2> QED BY <2>2, <2>3
  <1>11. Val(m) + Pow(e) <= Space(m)
    BY <1>5, <1>7, <1>8, <1>10, Zenon
  <1>12. /\ ParseCIDR(cidr).ip = m /\ ParseCIDR(cidr).ones = ones
         /\ Bits * Len(m) - ones = e /\ Size(ParseCIDR(cidr)) = Pow(e)
    BY <1>3 DEF ParseCIDR, Size, Pow
  <1> HIDE DEF m, e, ones, ip
  <1> QED BY <1>1, <1>2, <1>3, <1>4, <1>5, <1>6, <1>8, <1>11, <1>12, Zenon DEF IsNet

\* IPNet.Contains finds the addresses of the network's range.
LEMMA ContainsIn ==
  ASSUME NEW net, IsNet(net), NEW ip \in Addresses
  PROVE  Contains(net, ip) <=> In(ip, net)
  <1> SUFFICES ASSUME Len(ip) = Len(net.ip)
               PROVE  Masked(ip, net.ones) = net.ip
                      <=> Val(ip) >= Val(net.ip) /\ Val(ip) < Val(net.ip) + Size(net)
    BY DEF Contains, In
  <1> DEFINE m == Masked(ip, net.ones)
             s == Size(net)
  <1>1. /\ net.ip \in Addresses /\ net.ones \in Nat /\ Bits * Len(net.ip) - net.ones \in Nat
        /\ s \in Nat /\ s >= 1
    BY DEF IsNet
  <1>2. m \in Addresses /\ Len(m) = Len(ip)
    BY <1>1, MaskedAddress
  <1>3. Val(m) \in Nat /\ Val(ip) \in Nat /\ Val(net.ip) \in Nat
    BY <1>1, <1>2, ValType
  <1>4. Rounds(Val(m), Val(ip), s)
    <2>1. net.ones <= Bits * Len(ip)
      <3>1. Bits * Len(ip) \in Nat
        BY AddressBytes, BitsAssumption
      <3> QED BY <1>1, <3>1
    <2>2. Rounds(Val(m), Val(ip), Pow(Bits * Len(ip) - net.ones))
      BY <1>1, <2>1, MaskedVal
    <2> QED BY <2>2 DEF Size, Pow
  <1> HIDE DEF m, s
  <1>5. Val(m) <= Val(ip) /\ Val(ip) < Val(m) + s
    BY <1>4 DEF Rounds
  <1>6. m = net.ip => Val(ip) >= Val(net.ip) /\ Val(ip) < Val(net.ip) + s
    BY <1>3, <1>5
  <1>7. ASSUME Val(ip) >= Val(net.ip), Val(ip) < Val(net.ip) + s
        PROVE  m = net.ip
    <2>1. PICK k \in Nat : Val(m) = k * s
      BY <1>4 DEF Rounds
    <2>2. PICK l \in Nat : Val(net.ip) = l * s
      BY DEF IsNet, s
    <2>3. Val(m) < Val(net.ip) + s /\ Val(net.ip) < Val(m) + s
      BY <1>1, <1>3, <1>5, <1>7
    <2>4. k * s < l * s + s /\ l * s < k * s + s
      BY <2>1, <2>2, <2>3, Zenon
    <2>5. k * s = l * s
      BY <1>1, <2>4, SameMultiple
    <2>6. Val(m) = Val(net.ip)
      BY <2>1, <2>2, <2>5, Zenon
    <2> QED BY <1>1, <1>2, <2>6, ValInjective
  <1> QED BY <1>6, <1>7 DEF m, s

\* Two ranges overlap when one has the other's first address.
LEMMA OverlapDisjoint ==
  ASSUME NEW p, NEW s, IsNet(p), IsNet(s)
  PROVE  Overlap(p, s) <=> ~Disjoint(p, s)
  <1>1. /\ p.ip \in Addresses /\ Size(p) \in Nat /\ Size(p) >= 1
        /\ s.ip \in Addresses /\ Size(s) \in Nat /\ Size(s) >= 1
    BY DEF IsNet
  <1>2. Val(p.ip) \in Nat /\ Val(s.ip) \in Nat
    BY <1>1, ValType
  <1>3. Overlap(p, s) <=> In(s.ip, p) \/ In(p.ip, s)
    BY <1>1, ContainsIn DEF Overlap
  <1>4. In(s.ip, p) \/ In(p.ip, s) <=> ~Disjoint(p, s)
    BY <1>1, <1>2 DEF In, Disjoint
  <1> QED BY <1>3, <1>4

----------------------------------------------------------------------------
(***************************************************************************)
(* Counting addresses                                                      *)
(***************************************************************************)
\* All bytes after i are at their limit, so that an increment reaches byte i.
Carry(ip, i) == \A k \in (i + 1)..Len(ip) : ip[k] = Base - 1

\* What incIPv4 does to one byte.
LEMMA IncByte ==
  ASSUME NEW ip \in Addresses, NEW j \in 1..Len(ip)
  PROVE  /\ Carry(ip, j - 1) <=> Carry(ip, j) /\ ip[j] = Base - 1
         /\ ~Carry(ip, j) => incIPv4(ip)[j] = ip[j]
         /\ Carry(ip, j) /\ ip[j] < Base - 1 => incIPv4(ip)[j] = ip[j] + 1
         /\ Carry(ip, j) /\ ip[j] = Base - 1 => incIPv4(ip)[j] = 0
         /\ incIPv4(ip)[j] \in 0..(Base - 1)
  <1>1. Len(ip) \in Nat /\ ip[j] \in Nat /\ ip[j] < Base
    BY AddressBytes
  <1>2. ((j - 1) + 1)..Len(ip) = {j} \cup (j + 1)..Len(ip)
    BY <1>1
  <1>3. Carry(ip, j - 1) <=> Carry(ip, j) /\ ip[j] = Base - 1
    BY <1>2 DEF Carry
  <1>4. incIPv4(ip)[j] = IF Carry(ip, j) THEN (ip[j] + 1) % Base ELSE ip[j]
    BY DEF incIPv4, Carry, Base, Pow
  <1>5. /\ ip[j] < Base - 1 => (ip[j] + 1) % Base = ip[j] + 1
        /\ ip[j] = Base - 1 => (ip[j] + 1) % Base = 0
    BY <1>1, BaseType, Wrap
  <1>6. ip[j] < Base - 1 \/ ip[j] = Base - 1
    BY <1>1, BaseType
  <1> DEFINE x == (ip[j] + 1) % Base
  <1>7. incIPv4(ip)[j] \in 0..(Base - 1)
    <2> HIDE DEF x
    <2>1. (x = ip[j] + 1 /\ ip[j] < Base - 1) \/ x = 0
      BY <1>5, <1>6 DEF x
    <2>2. x \in 0..(Base - 1) /\ ip[j] \in 0..(Base - 1)
      BY <1>1, <2>1, BaseType
    <2> QED BY <1>4, <2>2 DEF x
  <1> HIDE DEF x
  <1>8. ~Carry(ip, j) => incIPv4(ip)[j] = ip[j]
    BY <1>4
  <1>9. Carry(ip, j) /\ ip[j] < Base - 1 => incIPv4(ip)[j] = ip[j] + 1
    BY <1>4, <1>5, Zenon
  <1>10. Carry(ip, j) /\ ip[j] = Base - 1 => incIPv4(ip)[j] = 0
    BY <1>4, <1>5, Zenon
  <1> QED BY <1>3, <1>7, <1>8, <1>9, <1>10, Zenon

\* It makes an address of the same kind.
LEMMA IncAddress ==
  ASSUME NEW ip \in Addresses
  PROVE  incIPv4(ip) \in Addresses /\ Len(incIPv4(ip)) = Len(ip)
  <1> DEFINE c == incIPv4(ip)
             n == Len(ip)
             R == 0..(Base - 1)
  <1>1. n \in Nat
    BY AddressBytes
  <1>2. c = [j \in 1..n |-> c[j]]
    BY DEF incIPv4
  <1>3. \A j \in 1..n : c[j] \in R
    BY IncByte
  <1> HIDE DEF c, n, R
  <1>4. c \in [1..n -> R]
    BY <1>2, <1>3
  <1>5. c \in Seq(R) /\ Len(c) = n
    BY <1>1, <1>4
  <1> QED BY <1>5 DEF c, n, R, Addresses

\* w is v after a carry into its last byte, or with none.
Counted(w, v, carry, s) ==
  \/ w = v + (IF carry THEN 1 ELSE 0)
  \/ carry /\ v + 1 = s /\ w = 0

\* The first bytes of an address are counted up when the others carry.
LEMMA IncPrefixes ==
  ASSUME NEW ip \in Addresses
  PROVE  \A i \in 0..Len(ip) :
           Counted(Vals(incIPv4(ip))[i], Vals(ip)[i], Carry(ip, i), Pow(Bits * i))
  <1> DEFINE n == Len(ip)
             c == incIPv4(ip)
             v == Vals(ip)
             w == Vals(c)
             s(i) == Pow(Bits * i)
             P == {i \in 0..n : Counted(w[i], v[i], Carry(ip, i), s(i))}
  <1>1. n \in Nat /\ Bits \in Nat
    BY AddressBytes, BitsAssumption
  <1>2. /\ v \in [0..n -> Nat] /\ v[0] = 0
        /\ \A i \in 1..n : v[i] = v[i - 1] * Base + ip[i]
    BY ValsDef
  <1>3. c \in Addresses /\ Len(c) = n
    BY IncAddress
  <1>4. /\ w \in [0..n -> Nat] /\ w[0] = 0
        /\ \A i \in 1..n : w[i] = w[i - 1] * Base + c[i]
    <2> HIDE DEF c, n
    <2>1. /\ Vals(c) \in [0..n -> Nat] /\ Vals(c)[0] = 0
          /\ \A i \in 1..n : Vals(c)[i] = Vals(c)[i - 1] * Base + c[i]
      BY <1>3, ValsDef, Zenon
    <2> QED BY <2>1
  <1>5. 0 \in P
    <2>1. Bits * 0 = 0
      BY <1>1
    <2>2. s(0) = 1
      BY <2>1, PowSmall
    <2> HIDE DEF v, w, c, n, s
    <2>3. Counted(w[0], v[0], Carry(ip, 0), s(0))
      BY <1>2, <1>4, <2>2 DEF Counted
    <2> QED BY <1>1, <2>3
  <1>6. ASSUME NEW i \in 1..n, i - 1 \in P PROVE i \in P
    <2> DEFINE x == v[i - 1]
               y == w[i - 1]
               b == ip[i]
               t == s(i - 1)
    <2>1. i \in 0..n /\ i - 1 \in 0..n /\ i \in Nat /\ i - 1 \in Nat
      BY <1>1
    <2>2. Bits * i = Bits * (i - 1) + Bits /\ Bits * (i - 1) \in Nat
      BY <1>1, <2>1
    <2>3. s(i) = t * Base /\ t \in Nat
      BY <1>1, <2>2, PowAdd, PowPositive DEF Base
    <2>4. b \in Nat /\ b < Base
      BY AddressBytes
    <2>5. x \in Nat /\ y \in Nat /\ Counted(y, x, Carry(ip, i - 1), t)
      BY <1>2, <1>4, <1>6, <2>1
    <2>6. v[i] = x * Base + b /\ w[i] = y * Base + c[i]
      BY <1>2, <1>4
    <2>7. /\ Carry(ip, i - 1) <=> Carry(ip, i) /\ b = Base - 1
          /\ ~Carry(ip, i) => c[i] = b
          /\ Carry(ip, i) /\ b < Base - 1 => c[i] = b + 1
          /\ Carry(ip, i) /\ b = Base - 1 => c[i] = 0
      BY IncByte
    <2> HIDE DEF x, y, b, t, v, w, c, n, s
    <2>8. CASE ~Carry(ip, i)
      <3>1. y = x /\ c[i] = b
        BY <2>5, <2>7, <2>8 DEF Counted
      <3>2. w[i] = v[i] /\ v[i] \in Nat
        BY <2>4, <2>5, <2>6, <3>1, BaseType
      <3> QED BY <2>1, <2>8, <3>2 DEF Counted
    <2>9. CASE Carry(ip, i) /\ b < Base - 1
      <3>1. ~Carry(ip, i - 1)
        BY <2>4, <2>7, <2>9, BaseType
      <3>2. y = x /\ c[i] = b + 1
        BY <2>5, <2>7, <2>9, <3>1 DEF Counted
      <3>3. w[i] = v[i] + 1
        BY <2>4, <2>5, <2>6, <3>2, BaseType
      <3> QED BY <2>1, <2>9, <3>3 DEF Counted
    <2>10. CASE Carry(ip, i) /\ b = Base - 1
      <3>1. c[i] = 0 /\ Carry(ip, i - 1)
        BY <2>7, <2>10
      <3>2. y = x + 1 \/ (x + 1 = t /\ y = 0)
        BY <2>5, <3>1 DEF Counted
      <3>3. (x + 1) * Base = v[i] + 1
        <4>1. (x + 1) * Base = x * Base + Base /\ x * Base \in Nat
          BY <2>5, BaseType
        <4> QED BY <2>6, <2>10, <4>1, BaseType
      <3>4. w[i] = y * Base
        <4>1. y * Base \in Nat
          BY <2>5, BaseType
        <4> QED BY <2>6, <3>1, <4>1
      <3>5. CASE y = x + 1
        <4>1. w[i] = v[i] + 1
          BY <3>3, <3>4, <3>5, Zenon
        <4> QED BY <2>1, <2>10, <4>1 DEF Counted
      <3>6. CASE x + 1 = t /\ y = 0
        <4>1. v[i] + 1 = s(i)
          BY <2>3, <3>3, <3>6, Zenon
        <4>2. w[i] = 0
          BY <3>4, <3>6, BaseType
        <4> QED BY <2>1, <2>10, <4>1, <4>2 DEF Counted
      <3> QED BY <3>2, <3>5, <3>6
    <2>11. b < Base - 1 \/ b = Base - 1
      BY <2>4, BaseType
    <2> QED BY <2>8, <2>9, <2>10, <2>11
  <1>7. \A i \in 0..n : i \in P
    <2> HIDE DEF P, n
    <2> QED BY <1>1, <1>5, <1>6, UpTo
  <1> QED BY <1>7

\* incIPv4 adds one, and comes back to zero after the last address.
LEMMA IncVal ==
  ASSUME NEW ip \in Addresses
  PROVE  Val(incIPv4(ip)) = IF Val(ip) + 1 = Space(ip) THEN 0 ELSE Val(ip) + 1
  <1>1. Len(ip) \in 0..Len(ip) /\ Len(ip) \in Nat
    BY AddressBytes
  <1>2. Carry(ip, Len(ip))
    <2>1. (Len(ip) + 1)..Len(ip) = {}
      BY <1>1
    <2> QED BY <2>1 DEF Carry
  <1>3. Counted(Vals(incIPv4(ip))[Len(ip)], Vals(ip)[Len(ip)], Carry(ip, Len(ip)), Pow(Bits * Len(ip)))
    BY <1>1, IncPrefixes
  <1>4. incIPv4(ip) \in Addresses /\ Len(incIPv4(ip)) = Len(ip)
    BY IncAddress
  <1>5. Counted(Val(incIPv4(ip)), Val(ip), TRUE, Space(ip))
    BY <1>2, <1>3, <1>4 DEF Val, Space
  <1>6. /\ Val(ip) \in Nat /\ Val(incIPv4(ip)) \in Nat /\ Space(ip) \in Nat
        /\ Val(incIPv4(ip)) < Space(ip)
    BY <1>4, ValType DEF Space
  <1> QED BY <1>5, <1>6 DEF Counted

\* The addresses that offsetServiceIP counts through.
LEMMA OffsetDef ==
  ASSUME NEW net, net.ip \in Addresses, NEW offset \in Nat
  PROVE  \E g : /\ g[0] = net.ip /\ \A i \in 1..offset : g[i] = incIPv4(g[i - 1])
               /\ offsetServiceIP(net, offset) = {ip \in {g[offset]} : Contains(net, ip)}
  <1> DEFINE X == Addresses
             x0 == net.ip
             S == [i \in 1..offset |-> [x \in X |-> incIPv4(x)]]
  <1>1. S \in [1..offset -> [X -> X]] /\ x0 \in X
    BY IncAddress
  <1>2. PICK f : Iterates(f, offset, X, x0, S)
    <2> HIDE DEF X, x0, S
    <2> QED BY <1>1, Recursion, Zenon
  <1>3. f = [n \in 0..offset |-> IF n = 0 THEN net.ip ELSE incIPv4(f[n - 1])]
    <2>1. f \in [0..offset -> X] /\ f[0] = net.ip /\ \A i \in 1..offset : f[i] = S[i][f[i - 1]]
      BY <1>2, Zenon DEF Iterates
    <2>2. ASSUME NEW i \in 1..offset PROVE f[i] = incIPv4(f[i - 1])
      <3>1. i - 1 \in 0..offset
        OBVIOUS
      <3>2. f[i - 1] \in X
        BY <2>1, <3>1
      <3>3. S[i][f[i - 1]] = incIPv4(f[i - 1])
        BY <3>2
      <3> QED BY <2>1, <3>3, Zenon
    <2> QED BY <2>1, <2>2
  <1>4. PICK g : /\ g = [n \in 0..offset |-> IF n = 0 THEN net.ip ELSE incIPv4(g[n - 1])]
                 /\ offsetServiceIP(net, offset) = {ip \in {g[offset]} : Contains(net, ip)}
    BY <1>3, Zenon DEF offsetServiceIP
  <1>5. g[0] = net.ip /\ \A i \in 1..offset : g[i] = incIPv4(g[i - 1])
    BY <1>4
  <1> QED BY <1>4, <1>5, Zenon

\* The address at an offset is found when the network has so many.
LEMMA OffsetFound ==
  ASSUME NEW net, IsNet(net), NEW offset \in Nat, offset <= dnsOffset
  PROVE  /\ offsetServiceIP(net, offset) # {} <=> Size(net) > offset
         /\ \A ip \in offsetServiceIP(net, offset) :
              ip \in Addresses /\ In(ip, net) /\ Val(ip) = Val(net.ip) + offset
  <1> DEFINE m == Val(net.ip)
             sp == Space(net.ip)
             s == Size(net)
  <1>1. /\ net.ip \in Addresses /\ s \in Nat /\ s >= 1
        /\ m + s <= sp /\ offset < sp /\ sp \in Nat /\ m \in Nat /\ m < sp
    <2>1. net.ip \in Addresses /\ s \in Nat /\ s >= 1 /\ m + s <= sp /\ sp > dnsOffset
      BY DEF IsNet
    <2>2. sp \in Nat /\ m \in Nat /\ m < sp
      BY <2>1, ValType
    <2> HIDE DEF s, m, sp
    <2> QED BY <2>1, <2>2 DEF dnsOffset
  <1>2. PICK g : /\ g[0] = net.ip /\ \A i \in 1..offset : g[i] = incIPv4(g[i - 1])
                 /\ offsetServiceIP(net, offset) = {ip \in {g[offset]} : Contains(net, ip)}
    BY <1>1, OffsetDef
  <1> HIDE DEF m, sp, s
  <1> DEFINE P == {i \in 0..offset : /\ g[i] \in Addresses /\ Len(g[i]) = Len(net.ip)
                                     /\ Val(g[i]) = IF m + i < sp THEN m + i ELSE m + i - sp}
  <1>3. 0 \in P
    BY <1>1, <1>2 DEF m
  <1>4. ASSUME NEW i \in 1..offset, i - 1 \in P PROVE i \in P
    <2> DEFINE a == g[i - 1]
    <2>1. /\ a \in Addresses /\ Len(a) = Len(net.ip)
          /\ Val(a) = IF m + (i - 1) < sp THEN m + (i - 1) ELSE m + (i - 1) - sp
      BY <1>4
    <2>2. g[i] = incIPv4(a) /\ i \in 0..offset
      BY <1>2
    <2> HIDE DEF a
    <2>3. g[i] \in Addresses /\ Len(g[i]) = Len(net.ip)
      BY <2>1, <2>2, IncAddress
    <2>4. Space(a) = sp
      BY <2>1 DEF Space, sp
    <2>5. Val(g[i]) = IF Val(a) + 1 = sp THEN 0 ELSE Val(a) + 1
      BY <2>1, <2>2, <2>4, IncVal
    <2>6. Val(g[i]) = IF m + i < sp THEN m + i ELSE m + i - sp
      BY <1>1, <2>1, <2>5
    <2> QED BY <2>2, <2>3, <2>6
  <1>5. offset \in P
    <2> HIDE DEF P
    <2>1. \A i \in 0..offset : i \in P
      BY <1>3, <1>4, UpTo
    <2> QED BY <2>1
  <1> DEFINE ip == g[offset]
  <1>6. /\ ip \in Addresses /\ Len(ip) = Len(net.ip)
        /\ Val(ip) = IF m + offset < sp THEN m + offset ELSE m + offset - sp
    BY <1>5
  <1>7. offsetServiceIP(net, offset) # {} <=> Contains(net, ip)
    BY <1>2
  <1> HIDE DEF P
  <1>8. \A x \in offsetServiceIP(net, offset) : x = ip
    BY <1>2
  <1> HIDE DEF ip
  <1>9. Contains(net, ip) <=> In(ip, net)
    BY <1>6, ContainsIn
  <1>10. In(ip, net) <=> Val(ip) >= m /\ Val(ip) < m + s
    BY <1>6 DEF In, m, s
  <1>11. In(ip, net) <=> s > offset
    BY <1>1, <1>6, <1>10
  <1>12. In(ip, net) => Val(ip) = m + offset
    BY <1>1, <1>6, <1>10
  <1>13. offsetServiceIP(net, offset) # {} <=> s > offset
    BY <1>7, <1>9, <1>11
  <1>14. \A x \in offsetServiceIP(net, offset) :
           x \in Addresses /\ In(x, net) /\ Val(x) = m + offset
    BY <1>6, <1>7, <1>8, <1>9, <1>12
  <1> QED BY <1>13, <1>14 DEF m, s

\* A network with room for the DNS service's address starts at a multiple of 16.
LEMMA Aligned ==
  ASSUME NEW net, IsNet(net), Size(net) > dnsOffset
  PROVE  \E k \in Nat : Val(net.ip) = 16 * k
  <1> DEFINE e == Bits * Len(net.ip) - net.ones
  <1>1. e \in Nat /\ Pow(e) > 10 /\ Size(net) = Pow(e)
    BY DEF IsNet, Size, Pow, dnsOffset
  <1> HIDE DEF e
  <1>2. e >= 4
    BY <1>1, PowSmall
  <1>3. Pow(e) = 16 * Pow(e - 4) /\ Pow(e - 4) \in Nat
    <2>1. e - 4 \in Nat /\ e = 4 + (e - 4)
      BY <1>1, <1>2
    <2>2. Pow(4 + (e - 4)) = Pow(4) * Pow(e - 4)
      BY <2>1, PowAdd
    <2> QED BY <2>1, <2>2, PowPositive, PowSmall
  <1>4. PICK k \in Nat : Val(net.ip) = k * Pow(e)
    BY <1>1 DEF IsNet
  <1> DEFINE t == Pow(e - 4)
  <1>5. t \in Nat /\ Val(net.ip) = k * (16 * t)
    BY <1>3, <1>4
  <1> HIDE DEF t
  <1>6. k * t \in Nat /\ k * (16 * t) = 16 * (k * t)
    BY <1>5
  <1> QED BY <1>5, <1>6, Zenon

----------------------------------------------------------------------------
(***************************************************************************)
(* The flags                                                               *)
(***************************************************************************)
\* The networks of a flag.
LEMMA NetsFacts ==
  ASSUME NEW cidrs \in Seq(CIDRs)
  PROVE  /\ Len(Nets(cidrs)) = Len(cidrs) /\ Len(cidrs) \in Nat
         /\ \A i \in 1..Len(cidrs) : IsNet(Nets(cidrs)[i])
         /\ Elems(Nets(cidrs)) = {Nets(cidrs)[i] : i \in 1..Len(cidrs)}
  <1>1. Len(cidrs) \in Nat /\ \A i \in 1..Len(cidrs) : cidrs[i] \in CIDRs
    OBVIOUS
  <1>2. \A i \in 1..Len(cidrs) : Nets(cidrs)[i] = ParseCIDR(cidrs[i])
    BY DEF Nets
  <1>3. \A i \in 1..Len(cidrs) : IsNet(Nets(cidrs)[i])
    BY <1>1, <1>2, ParsedNet, Zenon
  <1>4. Len(Nets(cidrs)) = Len(cidrs)
    BY <1>1 DEF Nets
  <1> QED BY <1>1, <1>3, <1>4 DEF Elems

\* flagsToAssetConfig, which compares networks by masks and counts to the
\* services' addresses byte by byte, accepts a command line whose flags parse
\* exactly when, by the numbers, its networks are as many of a kind as of the
\* other, have no address in common, and have room for the services, whatever
\* their address families.
THEOREM FlagsAcceptedAreSeparate ==
  ASSUME NEW o \in Options
  PROVE  FlagsAccepted(o) <=> o.malformed = {} /\ NetworksSeparate(o)
  <1> DEFINE P == Nets(o.podCIDR)
             S == Nets(o.serviceCIDR)
             n == Len(o.podCIDR)
             m == Len(o.serviceCIDR)
  <1>1. /\ Len(P) = n /\ n \in Nat /\ (\A i \in 1..n : IsNet(P[i])) /\ Elems(P) = {P[i] : i \in 1..n}
        /\ Len(S) = m /\ m \in Nat /\ (\A i \in 1..m : IsNet(S[i])) /\ Elems(S) = {S[i] : i \in 1..m}
    <2>1. o.podCIDR \in Seq(CIDRs) /\ o.serviceCIDR \in Seq(CIDRs)
      BY OptionsAssumption
    <2> QED BY <2>1, NetsFacts
  <1>2. FlagsAccepted(o) <=>
          /\ o.malformed = {}
          /\ Len(P) = Len(S) /\ Len(P) \in 1..2
          /\ \A i \in 1..Len(P), j \in 1..Len(S) : ~Overlap(P[i], S[j])
          /\ \A offset \in {apiOffset, dnsOffset} : \A i \in 1..Len(S) : offsetServiceIP(S[i], offset) # {}
    BY DEF FlagsAccepted
  <1>3. NetworksSeparate(o) <=>
          /\ n = m /\ n \in {1, 2}
          /\ \A p \in Elems(P), s \in Elems(S) : Disjoint(p, s)
          /\ \A s \in Elems(S) : Size(s) > dnsOffset
    BY DEF NetworksSeparate
  <1> HIDE DEF P, S, n, m
  <1>4. (\A i \in 1..n, j \in 1..m : ~Overlap(P[i], S[j])) <=> \A p \in Elems(P), s \in Elems(S) : Disjoint(p, s)
    <2>1. \A i \in 1..n, j \in 1..m : Overlap(P[i], S[j]) <=> ~Disjoint(P[i], S[j])
      BY <1>1, OverlapDisjoint
    <2> QED BY <1>1, <2>1
  <1>5. (\A offset \in {apiOffset, dnsOffset} : \A i \in 1..m : offsetServiceIP(S[i], offset) # {})
        <=> \A s \in Elems(S) : Size(s) > dnsOffset
    <2>1. \A i \in 1..m : /\ offsetServiceIP(S[i], 1) # {} <=> Size(S[i]) > 1
                          /\ offsetServiceIP(S[i], 10) # {} <=> Size(S[i]) > 10
      BY <1>1, OffsetFound DEF dnsOffset
    <2>2. \A i \in 1..m : Size(S[i]) \in Nat
      BY <1>1 DEF IsNet
    <2>3. \A i \in 1..m : Size(S[i]) > 10 => Size(S[i]) > 1
      BY <2>2
    <2>4. (\A offset \in {1, 10} : \A i \in 1..m : offsetServiceIP(S[i], offset) # {})
          <=> \A i \in 1..m : Size(S[i]) > 10
      BY <2>1, <2>3
    <2> QED BY <1>1, <2>4 DEF apiOffset, dnsOffset
  <1>6. n \in 1..2 <=> n \in {1, 2}
    BY <1>1
  <1> QED BY <1>1, <1>2, <1>3, <1>4, <1>5, <1>6

\* What flagsToAssetConfig makes of the flags it accepts: the addresses of the
\* api server and of the DNS service.
LEMMA AcceptedServiceIPs ==
  ASSUME NEW o \in Options, FlagsAccepted(o)
  PROVE  LET c == AssetConfig(o)
         IN  /\ \A net \in Elems(c.serviceCIDRs) :
                  /\ \E ip \in c.apiServiceIPs : In(ip, net) /\ Val(ip) = Val(net.ip) + apiOffset
                  /\ \E ip \in c.dnsServiceIPs : In(ip, net) /\ Val(ip) = Val(net.ip) + dnsOffset
             /\ c.apiServiceIPs \cap c.dnsServiceIPs = {}
             /\ \A ip \in c.apiServiceIPs \cup c.dnsServiceIPs, net \in Elems(c.podCIDRs) : ~In(ip, net)
  <1> DEFINE P == Nets(o.podCIDR)
             S == Nets(o.serviceCIDR)
             m == Len(o.serviceCIDR)
             IPs(offset) == UNION {ServiceIPs(S, offset)[i] : i \in 1..m}
             api == IPs(apiOffset)
             dns == IPs(dnsOffset)
  <1>1. /\ \A p \in Elems(P) : IsNet(p)
        /\ Len(S) = m /\ m \in Nat /\ (\A i \in 1..m : IsNet(S[i])) /\ Elems(S) = {S[i] : i \in 1..m}
    <2>1. o.podCIDR \in Seq(CIDRs) /\ o.serviceCIDR \in Seq(CIDRs)
      BY OptionsAssumption
    <2>2. Elems(P) = {P[i] : i \in 1..Len(o.podCIDR)} /\ \A i \in 1..Len(o.podCIDR) : IsNet(P[i])
      BY <2>1, NetsFacts
    <2>3. /\ Len(S) = m /\ m \in Nat /\ \A i \in 1..m : IsNet(S[i])
          /\ Elems(S) = {S[i] : i \in 1..m}
      BY <2>1, NetsFacts
    <2> HIDE DEF P, S, m
    <2>4. \A p \in Elems(P) : IsNet(p)
      BY <2>2
    <2> QED BY <2>3, <2>4
  <1>2. /\ \A p \in Elems(P), s \in Elems(S) : Disjoint(p, s)
        /\ \A s \in Elems(S) : Size(s) > dnsOffset
    BY FlagsAcceptedAreSeparate DEF NetworksSeparate
  <1>3. /\ AssetConfig(o).serviceCIDRs = S /\ AssetConfig(o).podCIDRs = P
        /\ AssetConfig(o).apiServiceIPs = api /\ AssetConfig(o).dnsServiceIPs = dns
    BY DEF AssetConfig
  <1>4. \A offset : \A i \in 1..m : ServiceIPs(S, offset)[i] = offsetServiceIP(S[i], offset)
    BY <1>1 DEF ServiceIPs
  <1> HIDE DEF P, S, m
  <1>5. \A offset : \A ip : ip \in IPs(offset) <=> \E i \in 1..m : ip \in offsetServiceIP(S[i], offset)
    BY <1>4
  <1>6. \A s \in Elems(S) : IsNet(s) /\ Size(s) > dnsOffset
    BY <1>1, <1>2
  <1> DEFINE Serves(ip, offset, s) == ip \in Addresses /\ In(ip, s) /\ Val(ip) = Val(s.ip) + offset
  <1>7. ASSUME NEW offset \in {apiOffset, dnsOffset}
        PROVE  /\ \A ip \in IPs(offset) : \E s \in Elems(S) : Serves(ip, offset, s)
               /\ \A s \in Elems(S) : \E ip \in IPs(offset) : Serves(ip, offset, s)
    <2>1. offset \in Nat /\ offset <= dnsOffset
      BY DEF apiOffset, dnsOffset
    <2>2. ASSUME NEW i \in 1..m
          PROVE  /\ offsetServiceIP(S[i], offset) # {}
                 /\ \A ip \in offsetServiceIP(S[i], offset) : Serves(ip, offset, S[i])
      <3>1. IsNet(S[i]) /\ Size(S[i]) > dnsOffset
        BY <1>1, <1>6
      <3>2. /\ offsetServiceIP(S[i], offset) # {} <=> Size(S[i]) > offset
            /\ \A ip \in offsetServiceIP(S[i], offset) : Serves(ip, offset, S[i])
        BY <2>1, <3>1, OffsetFound, Zenon
      <3>3. Size(S[i]) \in Nat
        BY <3>1 DEF IsNet
      <3>4. Size(S[i]) > offset
        BY <2>1, <3>1, <3>3 DEF dnsOffset
      <3> QED BY <3>2, <3>4
    <2> HIDE DEF Serves, IPs
    <2>3. \A ip \in IPs(offset) : \E s \in Elems(S) : Serves(ip, offset, s)
      BY <1>1, <1>5, <2>2
    <2>4. \A s \in Elems(S) : \E ip \in IPs(offset) : Serves(ip, offset, s)
      BY <1>1, <1>5, <2>2
    <2> QED BY <2>3, <2>4
  <1> HIDE DEF IPs
  <1>8. \A net \in Elems(S) :
          /\ \E ip \in api : In(ip, net) /\ Val(ip) = Val(net.ip) + apiOffset
          /\ \E ip \in dns : In(ip, net) /\ Val(ip) = Val(net.ip) + dnsOffset
    BY <1>7
  <1>9. ASSUME NEW ip, ip \in api, ip \in dns PROVE FALSE
    <2>1. PICK s \in Elems(S) : Val(ip) = Val(s.ip) + apiOffset
      BY <1>7, <1>9
    <2>2. PICK t \in Elems(S) : Val(ip) = Val(t.ip) + dnsOffset
      BY <1>7, <1>9
    <2>3. PICK k \in Nat : Val(s.ip) = 16 * k
      BY <1>6, Aligned
    <2>4. PICK l \in Nat : Val(t.ip) = 16 * l
      BY <1>6, Aligned
    <2> QED BY <2>1, <2>2, <2>3, <2>4 DEF apiOffset, dnsOffset
  <1>10. ASSUME NEW ip \in api \cup dns, NEW net \in Elems(P) PROVE ~In(ip, net)
    <2>1. PICK s \in Elems(S) : ip \in Addresses /\ In(ip, s)
      BY <1>7
    <2>2. Disjoint(net, s) /\ IsNet(net) /\ IsNet(s)
      BY <1>1, <1>2, <1>6
    <2>3. net.ip \in Addresses /\ s.ip \in Addresses /\ Size(net) \in Nat /\ Size(s) \in Nat
      BY <2>2 DEF IsNet
    <2>4. Val(ip) \in Nat /\ Val(net.ip) \in Nat /\ Val(s.ip) \in Nat
      BY <2>1, <2>3, ValType
    <2> QED BY <2>1, <2>2, <2>3, <2>4 DEF In, Disjoint
  <1> QED BY <1>3, <1>8, <1>9, <1>10
=============================================================================
