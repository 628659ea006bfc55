---------------------------- MODULE ShardIdsProofs ----------------------------
(***************************************************************************)
(* The arithmetic of identifiers for an int of any width: what the run ids *)
(* checks for every input of a four-bit int.                               *)
(***************************************************************************)
EXTENDS MCShardIds, ChordUtilProofs

\* The remainder of a value less than twice the divisor.
LEMMA ModTwice ==
  ASSUME NEW m \in Nat \ {0}, NEW v \in Nat, v < 2 * m
  PROVE  v % m = IF v < m THEN v ELSE v - m
OBVIOUS

LEMMA Sizes ==
  /\ INT_MAX \in Nat \ {0} /\ INT_MIN = -INT_MAX - 1
  /\ RingSize = 2 * INT_MAX + 2 /\ RingSize \div 2 = INT_MAX + 1
  /\ RingSize \in Nat \ {0}
<1>1. INT_MAX \in Nat \ {0} /\ INT_MIN = -INT_MAX - 1 /\ RingSize = 2 * INT_MAX + 2
  BY IntAssumption DEF INT_MIN, RingSize
<1>2. QED BY <1>1

\* A cast to int of a value that is out of range by less than a circle.
LEMMA CastInt ==
  ASSUME NEW v \in Int, INT_MIN <= v, v < INT_MAX + RingSize
  PROVE  castInt(v) = IF v <= INT_MAX THEN v ELSE v - RingSize
<1> DEFINE w == v + RingSize \div 2
<1>1. w \in Nat /\ w = v + INT_MAX + 1 /\ w < 2 * RingSize
  BY Sizes
<1>2. castInt(v) = (w % RingSize) - RingSize \div 2
  BY DEF castInt, castTo
<1> HIDE DEF w
<1>3. w % RingSize = IF w < RingSize THEN w ELSE w - RingSize
  BY <1>1, Sizes, ModTwice
<1>4. QED BY <1>1, <1>2, <1>3, Sizes

\* A value that fits in an int fits in a long.
LEMMA CastLong ==
  ASSUME NEW v \in 0 .. RingSize - 1
  PROVE  castLong(v) = v
<1> DEFINE Q == RingSize * RingSize
           h == Q \div 2
<1>1. Q \in Nat /\ Q = 2 * ((INT_MAX + 1) * RingSize)
  BY Sizes
<1>2. (INT_MAX + 1) * RingSize \in Nat /\ (INT_MAX + 1) * RingSize >= RingSize
  BY Sizes
<1>3. castLong(v) = ((v + h) % Q) - h
  BY DEF castLong, castTo
<1> HIDE DEF Q
<1>4. h = (INT_MAX + 1) * RingSize
  BY <1>1, <1>2
<1> HIDE DEF h
<1>5. h \in Nat /\ h >= RingSize /\ Q = 2 * h
  BY <1>1, <1>2, <1>4
<1>6. (v + h) % Q = v + h
  <2> DEFINE w == v + h
  <2>1. w \in Nat /\ w < Q /\ Q \in Nat \ {0} /\ w < 2 * Q
    BY <1>5, Sizes
  <2> HIDE DEF w
  <2>2. w % Q = w
    BY <2>1, ModTwice
  <2>3. QED BY <2>2 DEF w
<1>7. QED BY <1>3, <1>5, <1>6, Sizes

-----------------------------------------------------------------------------
(* Arithmetic that wraps around. *)

\* x and y differ by a multiple of m.
Cong(m, x, y) == \E k \in Int : x = y + k * m

LEMMA ModCong ==
  ASSUME NEW m \in Nat \ {0}, NEW w \in Int
  PROVE  w % m \in Int /\ Cong(m, w % m, w)
<1>1. w = m * (w \div m) + (w % m) /\ w \div m \in Int /\ w % m \in Int
  OBVIOUS
<1>2. w % m = w + (-(w \div m)) * m /\ -(w \div m) \in Int
  BY <1>1
<1>3. QED BY <1>1, <1>2 DEF Cong

LEMMA CongSymmetric ==
  ASSUME NEW m \in Nat, NEW x \in Int, NEW y \in Int, Cong(m, x, y)
  PROVE  Cong(m, y, x)
<1>1. PICK k \in Int : x = y + k * m
  BY DEF Cong
<1>2. y = x + (-k) * m /\ -k \in Int
  BY <1>1
<1>3. QED BY <1>1, <1>2 DEF Cong

LEMMA CongTransitive ==
  ASSUME NEW m \in Nat, NEW x \in Int, NEW y \in Int, NEW z \in Int,
         Cong(m, x, y), Cong(m, y, z)
  PROVE  Cong(m, x, z)
<1>1. PICK k \in Int : x = y + k * m
  BY DEF Cong
<1>2. PICK l \in Int : y = z + l * m
  BY DEF Cong
<1>3. x = z + (k + l) * m /\ k + l \in Int
  BY <1>1, <1>2
<1>4. QED BY <1>3 DEF Cong

LEMMA CongAdd ==
  ASSUME NEW m \in Nat, NEW x \in Int, NEW y \in Int, NEW z \in Int, Cong(m, x, y)
  PROVE  Cong(m, x + z, y + z)
<1>1. PICK k \in Int : x = y + k * m
  BY DEF Cong
<1>2. QED BY <1>1 DEF Cong

\* Two values that differ by less than a circle.
LEMMA CongSmall ==
  ASSUME NEW m \in Nat \ {0}, NEW x \in Int, NEW y \in Int, Cong(m, x, y),
         x - y < m, y - x < m
  PROVE  x = y
<1>1. PICK k \in Int : x = y + k * m
  BY DEF Cong
<1>2. k * m < m /\ -(k * m) < m
  BY <1>1
<1>3. ~(k >= 1) /\ ~(k <= -1)
  BY <1>2
<1>4. k = 0
  BY <1>3
<1>5. QED BY <1>1, <1>4

\* A factor that has an inverse cancels.
LEMMA CongCancel ==
  ASSUME NEW m \in Nat, NEW factor \in Int, NEW inverse \in Int, NEW x \in Int, NEW y \in Int,
         Cong(m, factor * inverse, 1), Cong(m, x * factor, y * factor)
  PROVE  Cong(m, x, y)
<1>1. PICK k \in Int : factor * inverse = 1 + k * m
  BY DEF Cong
<1>2. PICK l \in Int : x * factor = y * factor + l * m
  BY DEF Cong
<1>3. (x * factor) * inverse = x + (x * k) * m /\ (y * factor) * inverse = y + (y * k) * m
  <2>1. (x * factor) * inverse = x * (1 + k * m)
    BY <1>1
  <2>2. (y * factor) * inverse = y * (1 + k * m)
    BY <1>1
  <2>3. QED BY <2>1, <2>2
<1>4. (x * factor) * inverse = (y * factor) * inverse + (l * inverse) * m
  <2>1. (x * factor) * inverse = (y * factor + l * m) * inverse
    BY <1>2
  <2>2. QED BY <2>1
<1>5. /\ x = y + (l * inverse + y * k - x * k) * m
      /\ l * inverse + y * k - x * k \in Int
  BY <1>3, <1>4
<1>6. QED BY <1>5 DEF Cong

\* A cast, and Java's %, change a value by a multiple of the size.
LEMMA CastCong ==
  ASSUME NEW size \in Nat \ {0}, NEW v \in Int
  PROVE  castTo(size, v) \in Int /\ Cong(size, castTo(size, v), v)
<1> DEFINE h == size \div 2
           w == v + h
           r == w % size
<1>1. h \in Int /\ w \in Int
  OBVIOUS
<1>2. r \in Int /\ Cong(size, r, w)
  BY <1>1, ModCong
<1>3. castTo(size, v) = r + (-h) /\ v = w + (-h)
  BY <1>1, <1>2 DEF castTo
<1> HIDE DEF h, w, r
<1>4. -h \in Int
  BY <1>1
<1>5. Cong(size, r + (-h), w + (-h))
  BY <1>1, <1>2, <1>4, CongAdd
<1>6. QED BY <1>1, <1>2, <1>3, <1>5

LEMMA CastIsId == ASSUME NEW v \in Int PROVE castInt(v) \in Id
<1> DEFINE w == v + RingSize \div 2
<1>1. w \in Int /\ castInt(v) = (w % RingSize) - RingSize \div 2
  BY Sizes DEF castInt, castTo
<1> HIDE DEF w
<1>2. w % RingSize \in 0 .. RingSize - 1
  BY <1>1, Sizes
<1>3. QED BY <1>1, <1>2, Sizes DEF Id

LEMMA RemCong ==
  ASSUME NEW size \in Nat \ {0}, NEW v \in Int
  PROVE  javaRem(v, size) \in Int /\ Cong(size, javaRem(v, size), v)
<1>1. CASE v >= 0
  BY <1>1, ModCong DEF javaRem
<1>2. CASE v < 0
  <2> DEFINE w == -v
  <2>1. w \in Int
    OBVIOUS
  <2>2. w % size \in Int /\ Cong(size, w % size, w)
    BY <2>1, ModCong
  <2>3. PICK k \in Int : w % size = w + k * size
    BY <2>2 DEF Cong
  <2>4. javaRem(v, size) = -(w % size)
    BY <1>2 DEF javaRem
  <2>5. javaRem(v, size) = v + (-k) * size /\ -k \in Int
    BY <2>3, <2>4
  <2>6. javaRem(v, size) \in Int
    BY <2>2, <2>4
  <2>7. Cong(size, javaRem(v, size), v)
    BY <2>5 DEF Cong
  <2>8. QED BY <2>6, <2>7
<1>3. QED BY <1>1, <1>2

\* Whatever overflows in it, intHash multiplies modulo the size of the circle.
LEMMA HashMultiplies ==
  ASSUME NEW input \in Id
  PROVE  /\ intHash(input) \in Int
         /\ Cong(RingSize, intHash(input), (input - INT_MIN) * KNUTH + INT_MIN)
<1> DEFINE R == RingSize
           p == (input - INT_MIN) * KNUTH
           l == castLong(p)
           r == javaRem(l, R)
           h == castInt(r + INT_MIN)
<1>1. p \in Int /\ R \in Nat \ {0} /\ R * R \in Nat \ {0} /\ INT_MIN \in Int
  BY Sizes, IdsAssumption DEF Id
<1>2. intHash(input) = h
  BY DEF intHash
<1> HIDE DEF p
<1>3. l \in Int /\ Cong(R * R, l, p)
  <2> DEFINE Q == R * R
  <2>1. l = castTo(Q, p) /\ Q \in Nat \ {0}
    BY <1>1 DEF castLong
  <2> HIDE DEF Q, l
  <2>2. l \in Int /\ Cong(Q, l, p)
    BY <1>1, <2>1, CastCong
  <2>3. QED BY <2>2 DEF Q
<1> HIDE DEF l
<1>4. Cong(R, l, p)
  <2>1. PICK k \in Int : l = p + k * (R * R)
    BY <1>3 DEF Cong
  <2>2. l = p + (k * R) * R /\ k * R \in Int
    BY <1>1, <2>1
  <2>3. QED BY <2>2 DEF Cong
<1>5. r \in Int /\ Cong(R, r, l)
  BY <1>1, <1>3, RemCong
<1> HIDE DEF r
<1>6. Cong(R, r, p)
  BY <1>1, <1>3, <1>4, <1>5, CongTransitive
<1>7. r + INT_MIN \in Int /\ p + INT_MIN \in Int
  BY <1>1, <1>5
<1>8. h \in Int /\ Cong(R, h, r + INT_MIN)
  BY <1>1, <1>7, CastCong DEF castInt
<1> HIDE DEF h, R
<1>9. Cong(R, h, p + INT_MIN)
  <2>1. Cong(R, r + INT_MIN, p + INT_MIN)
    BY <1>1, <1>5, <1>6, CongAdd
  <2>2. QED BY <1>1, <1>7, <1>8, <2>1, CongTransitive
<1>10. QED BY <1>2, <1>8, <1>9 DEF R, p

-----------------------------------------------------------------------------
(* The properties, of all identifiers. *)

TypeOK == a \in Id /\ b \in Id /\ c \in Id

LEMMA TypeCorrect == Spec => []TypeOK
<1>1. Init => TypeOK
  BY Sizes DEF Init, TypeOK, Id
<1>2. TypeOK /\ [Next]_vars => TypeOK'
  BY Sizes DEF TypeOK, Next, vars, plus1, Id
<1>3. QED BY <1>1, <1>2, PTL DEF Spec

\* For an int of any width, withinInterval is membership in the clockwise arc.
THEOREM IntervalsAreArcs == Spec => []IntervalIsArc
<1>1. TypeOK => IntervalIsArc
  BY WithinIsArc DEF TypeOK, IntervalIsArc
<1>2. QED BY <1>1, TypeCorrect, PTL

\* Between two nodes that are three apart, the intervals of the code mean what they
\* are meant to.
THEOREM NodeIntervalsCorrect == Spec => []NodeIntervals
<1>1. TypeOK => NodeIntervals
  BY IntAssumption
  DEF TypeOK, NodeIntervals, closer, covers, withinInterval, plus1, minus1, Dist, Id, INT_MIN,
      RingSize
<1>2. QED BY <1>1, TypeCorrect, PTL

\* intHash is one to one if the multiplier has an inverse.
LEMMA HashDiffers ==
  ASSUME NEW inverse \in Int, (KNUTH * inverse) % RingSize = 1,
         NEW i \in Id, NEW j \in Id, intHash(i) = intHash(j)
  PROVE  i = j
<1> DEFINE R == RingSize
<1>1. R \in Nat \ {0} /\ INT_MIN \in Int /\ KNUTH \in Int
  BY Sizes, IdsAssumption
<1>2. Cong(R, KNUTH * inverse, 1)
  <2> DEFINE w == KNUTH * inverse
  <2>1. w \in Int
    BY <1>1
  <2> HIDE DEF w
  <2>2. Cong(R, w % R, w) /\ w % R \in Int
    BY <1>1, <2>1, ModCong
  <2>3. w % R = 1
    BY DEF w
  <2>4. QED BY <1>1, <2>1, <2>2, <2>3, CongSymmetric DEF w
<1> DEFINE u == i - INT_MIN
           v == j - INT_MIN
           h == intHash(i)
<1>3. /\ u \in Int /\ v \in Int /\ u - v < R /\ v - u < R /\ i = u + INT_MIN /\ j = v + INT_MIN
  BY Sizes DEF Id
<1>4. /\ h \in Int
      /\ Cong(R, h, u * KNUTH + INT_MIN) /\ Cong(R, h, v * KNUTH + INT_MIN)
  BY HashMultiplies
<1> HIDE DEF u, v, h, R
<1> DEFINE U == u * KNUTH
           V == v * KNUTH
<1>5. U \in Int /\ V \in Int /\ U + INT_MIN \in Int /\ V + INT_MIN \in Int
  BY <1>1, <1>3
<1>6. Cong(R, U + INT_MIN, V + INT_MIN)
  <2>1. Cong(R, U + INT_MIN, h)
    BY <1>1, <1>4, <1>5, CongSymmetric
  <2>2. QED BY <1>1, <1>4, <1>5, <2>1, CongTransitive
<1>7. Cong(R, U, V)
  <2> DEFINE z == -INT_MIN
             S == U + INT_MIN
             T == V + INT_MIN
  <2>1. z \in Int /\ S + z = U /\ T + z = V /\ S \in Int /\ T \in Int /\ Cong(R, S, T)
    BY <1>1, <1>5, <1>6
  <2> HIDE DEF z, S, T
  <2>2. Cong(R, S + z, T + z)
    BY <1>1, <2>1, CongAdd
  <2>3. QED BY <2>1, <2>2
<1>8. Cong(R, u, v)
  BY <1>1, <1>2, <1>3, <1>7, CongCancel
<1>9. u = v
  BY <1>1, <1>3, <1>8, CongSmall
<1>10. QED BY <1>3, <1>9

\* No two hosts with different addresses get one shard identifier, if the multiplier
\* has an inverse, as every odd one has: that of 2654435761 in 32 bits is 244002641.
THEOREM HashIsOneToOne ==
  ASSUME NEW inverse \in Int, (KNUTH * inverse) % RingSize = 1
  PROVE  Spec => []IntHashOneToOne
<1>1. TypeOK => IntHashOneToOne
  BY HashDiffers DEF TypeOK, IntHashOneToOne
<1>2. QED BY <1>1, TypeCorrect, PTL

\* Different prefixes give different identifiers.
THEOREM PrefixesCorrect == Spec => []PrefixesKept
<1>1. ASSUME NEW id \in Id
      PROVE  hexStringToIdentifier(id - INT_MIN)
               = IF id - INT_MIN <= INT_MAX THEN id - INT_MIN ELSE id - INT_MIN - RingSize
  <2>1. id - INT_MIN \in 0 .. RingSize - 1
    BY Sizes DEF Id
  <2>2. castLong(id - INT_MIN) = id - INT_MIN
    BY <2>1, CastLong
  <2> DEFINE v == id - INT_MIN
  <2>3. v \in Int /\ INT_MIN <= v /\ v < INT_MAX + RingSize
    BY <2>1, Sizes
  <2>4. hexStringToIdentifier(v) = castInt(v)
    BY <2>2 DEF hexStringToIdentifier
  <2> HIDE DEF v
  <2>5. QED BY <2>3, <2>4, CastInt DEF v
<1>2. TypeOK => PrefixesKept
  BY <1>1, Sizes DEF TypeOK, PrefixesKept, Id
<1>3. QED BY <1>2, TypeCorrect, PTL

\* A finger looks for the identifier that lies its power of two after its node.
THEOREM FingerStartsCorrect == Spec => []FingerStarts
<1>1. ASSUME NEW id \in Id, NEW i \in 1 .. NUM_FINGERS - 1
      PROVE  Dist(id, computeIdToFind(id, i)) = 2 ^ (i - 1)
  <2> DEFINE p == 2 ^ (i - 1)
             u == id - INT_MIN + p
             r == javaRem(u, 2 ^ NUM_FINGERS)
  <2>1. p \in Nat /\ p < RingSize
    BY IdsAssumption, PowersAssumption
  <2>2. computeIdToFind(id, i) = castInt(r + INT_MIN)
    BY DEF computeIdToFind
  <2> HIDE DEF p
  <2>3. u \in Nat /\ u < 2 * RingSize /\ u = id - INT_MIN + p
    BY <2>1, Sizes DEF Id
  <2>4. r = u % RingSize
    <3>1. r = u % 2 ^ NUM_FINGERS
      BY <2>3, Sizes DEF javaRem
    <3>2. QED BY <3>1, IdsAssumption
  <2> HIDE DEF u, r
  <2>5. r = IF u < RingSize THEN u ELSE u - RingSize
    BY <2>3, <2>4, Sizes, ModTwice
  <2>6. castInt(r + INT_MIN) = r + INT_MIN
    <3>1. r + INT_MIN \in Int /\ INT_MIN <= r + INT_MIN /\ r + INT_MIN <= INT_MAX
      BY <2>3, <2>5, Sizes
    <3> DEFINE v == r + INT_MIN
    <3> HIDE DEF v
    <3>2. castInt(v) = v
      BY <3>1, Sizes, CastInt DEF v
    <3>3. QED BY <3>2 DEF v
  <2>7. Dist(id, r + INT_MIN) = p
    BY <2>1, <2>3, <2>5, Sizes DEF Dist, Id
  <2>8. QED BY <2>2, <2>6, <2>7 DEF p
<1>2. TypeOK => FingerStarts
  BY <1>1 DEF TypeOK, FingerStarts
<1>3. QED BY <1>2, TypeCorrect, PTL
-----------------------------------------------------------------------------
(* The bytes of an address. *)

LEMMA OddTimesOdd ==
  ASSUME NEW i \in Nat, NEW j \in Nat, i % 2 = 1, j % 2 = 1
  PROVE  (i * j) % 2 = 1
<1>1. PICK k \in Nat : i = 2 * k + 1
  <2>1. i = 2 * (i \div 2) + 1 /\ i \div 2 \in Nat
    OBVIOUS
  <2>2. QED BY <2>1
<1>2. PICK l \in Nat : j = 2 * l + 1
  <2>1. j = 2 * (j \div 2) + 1 /\ j \div 2 \in Nat
    OBVIOUS
  <2>2. QED BY <2>1
<1> DEFINE m == 2 * (k * l) + k + l
<1>3. m \in Nat /\ i * j = 2 * m + 1
  BY <1>1, <1>2
<1> HIDE DEF m
<1>4. QED BY <1>3

\* Shifting twice.
LEMMA DivTwice ==
  ASSUME NEW u \in Nat, NEW p \in Nat \ {0}, NEW q \in Nat \ {0}
  PROVE  (u \div p) \div q = u \div (q * p)
<1> DEFINE v == u \div p
           r == u % p
           t == v \div q
           s == v % q
           w == q * p
           z == s * p + r
<1>1. v \in Nat /\ r \in Nat /\ r < p /\ u = p * v + r
  OBVIOUS
<1> HIDE DEF v, r
<1>2. t \in Nat /\ s \in Nat /\ s <= q - 1 /\ v = q * t + s
  BY <1>1
<1> HIDE DEF t, s
<1>3. w \in Nat \ {0}
  OBVIOUS
<1>4. u = w * t + z /\ z \in Nat
  <2> DEFINE x == p * v
             y == w * t
             o == s * p
  <2>1. x = y + o
    BY <1>2
  <2>2. o \in Nat /\ y \in Nat /\ u = x + r /\ z = o + r
    BY <1>1, <1>2, <1>3
  <2> HIDE DEF x, y, o, w, z
  <2>3. u = y + z /\ z \in Nat
    BY <1>1, <2>1, <2>2
  <2>4. QED BY <2>3 DEF y
<1>5. z < w
  <2>1. s * p <= (q - 1) * p
    BY <1>2
  <2>2. (q - 1) * p = w - p
    OBVIOUS
  <2>3. QED BY <1>1, <1>2, <2>1, <2>2
<1> HIDE DEF w, z
<1>6. u \div w = t
  BY <1>2, <1>3, <1>4, <1>5
<1>7. QED BY <1>6 DEF v, t, w

LEMMA ByteSizes ==
  /\ ByteSize \in Nat \ {0} /\ ByteSize % 2 = 0
  /\ \A i \in 0 .. 4 : ByteSize ^ i \in Nat \ {0}
  /\ \A i \in 0 .. 3 : ByteSize ^ (i + 1) = ByteSize * ByteSize ^ i
  /\ ByteSize ^ 0 = 1 /\ ByteSize ^ 4 = RingSize
<1>1. ByteSize \in Nat \ {0}
  <2>1. NUM_FINGERS \div 4 \in 0 .. NUM_FINGERS
    BY IdsAssumption
  <2>2. QED BY <2>1, PowersAssumption DEF ByteSize
<1> DEFINE P(i) == ByteSize ^ i
<1>2. /\ P(0) = 1 /\ P(4) = RingSize
      /\ P(1) = ByteSize * P(0) /\ P(2) = ByteSize * P(1)
      /\ P(3) = ByteSize * P(2) /\ P(4) = ByteSize * P(3)
  <2>1. \A i \in 0 .. 3 : P(i + 1) = ByteSize * P(i)
    BY PowersAssumption
  <2>2. P(0 + 1) = ByteSize * P(0) /\ P(1 + 1) = ByteSize * P(1)
        /\ P(2 + 1) = ByteSize * P(2) /\ P(3 + 1) = ByteSize * P(3)
    BY <2>1
  <2>3. QED BY <2>2, PowersAssumption
<1> HIDE DEF P
<1>3. P(1) \in Nat \ {0}
  BY <1>1, <1>2
<1>4. P(2) \in Nat \ {0}
  BY <1>1, <1>2, <1>3
<1>5. P(3) \in Nat \ {0}
  BY <1>1, <1>2, <1>4
<1>6. ByteSize % 2 = 0
  <2> SUFFICES ASSUME ByteSize % 2 = 1 PROVE FALSE
    BY <1>1
  <2>1. P(1) % 2 = 1
    <3>1. P(1) = ByteSize
      BY <1>1, <1>2
    <3>2. QED BY <3>1
  <2>2. P(2) % 2 = 1
    BY <1>1, <1>2, <1>3, <2>1, OddTimesOdd
  <2>3. P(3) % 2 = 1
    BY <1>1, <1>2, <1>4, <2>2, OddTimesOdd
  <2>4. P(4) % 2 = 1
    BY <1>1, <1>2, <1>5, <2>3, OddTimesOdd
  <2>5. QED BY <1>2, <2>4, Sizes
<1>7. \A i \in 0 .. 4 : P(i) \in Nat \ {0}
  BY <1>2, <1>3, <1>4, <1>5, Sizes
<1>8. QED BY <1>1, <1>2, <1>6, <1>7, PowersAssumption DEF P

\* The loop of ipByteArrayToInt, unrolled.
LEMMA FourBytes ==
  ASSUME NEW bytes, \A i \in 1 .. 4 : bytes[i] \in Int
  PROVE  \E v : /\ v[0] = 0 /\ ipByteArrayToInt(bytes) = v[4]
                /\ \A i \in 1 .. 4 :
                     /\ v[i - 1] \in Int
                     /\ v[i] = castInt(v[i - 1] * ByteSize + (bytes[i] % ByteSize))
<1> DEFINE G(w, i) == castInt(w * ByteSize + (bytes[i] % ByteSize))
           F(f) == [i \in 0 .. 4 |-> IF i = 0 THEN 0 ELSE G(f[i - 1], i)]
           w1 == G(0, 1)
           w2 == G(w1, 2)
           w3 == G(w2, 3)
           w4 == G(w3, 4)
           W == [i \in 0 .. 4 |-> CASE i = 0 -> 0 [] i = 1 -> w1 [] i = 2 -> w2
                                    [] i = 3 -> w3 [] i = 4 -> w4]
           v == CHOOSE f : f = F(f)
<1>1. ASSUME NEW w \in Int, NEW i \in 1 .. 4 PROVE G(w, i) \in Int
  <2> DEFINE z == w * ByteSize + (bytes[i] % ByteSize)
  <2>1. z \in Int
    BY ByteSizes
  <2> HIDE DEF z
  <2>2. castInt(z) \in Int
    BY <2>1, CastCong, Sizes DEF castInt
  <2>3. QED BY <2>2 DEF z
<1>2. ipByteArrayToInt(bytes) = v[4]
  BY DEF ipByteArrayToInt
<1>3. W = F(W)
  <2>1. ASSUME NEW i \in 0 .. 4 PROVE W[i] = IF i = 0 THEN 0 ELSE G(W[i - 1], i)
    <3> HIDE DEF G
    <3>1. i = 0 \/ i = 1 \/ i = 2 \/ i = 3 \/ i = 4
      OBVIOUS
    <3>2. QED BY <3>1
  <2> HIDE DEF G
  <2>2. QED BY <2>1
<1> HIDE DEF G, W
<1>4. v = F(v)
  BY <1>3
<1> HIDE DEF v
<1>5. v[0] = 0 /\ \A i \in 1 .. 4 : v[i] = G(v[i - 1], i)
  BY <1>4
<1>6. v[0] \in Int /\ v[1] \in Int /\ v[2] \in Int /\ v[3] \in Int
  <2>1. v[1] = G(v[0], 1) /\ v[2] = G(v[1], 2) /\ v[3] = G(v[2], 3)
    <3>1. v[1] = G(v[1 - 1], 1) /\ v[2] = G(v[2 - 1], 2) /\ v[3] = G(v[3 - 1], 3)
      BY <1>5
    <3>2. QED BY <3>1
  <2>2. v[1] \in Int
    BY <1>1, <1>5, <2>1
  <2>3. v[2] \in Int
    BY <1>1, <2>1, <2>2
  <2>4. v[3] \in Int
    BY <1>1, <2>1, <2>3
  <2>5. QED BY <1>5, <2>2, <2>3, <2>4
<1>7. \A i \in 1 .. 4 : v[i - 1] \in Int
  BY <1>6
<1>8. QED BY <1>2, <1>5, <1>7 DEF G

\* A byte is the remainder of the bits from it on, once its sign is masked.
LEMMA ByteKept ==
  ASSUME NEW u \in Nat
  PROVE  castByte(u % ByteSize) \in Byte /\ castByte(u % ByteSize) % ByteSize = u % ByteSize
<1> DEFINE B == ByteSize
           r == u % B
           s == castByte(r)
           h == B \div 2
<1>1. B \in Nat \ {0} /\ B = 2 * h /\ h \in Nat /\ Byte = -h .. h - 1
  BY ByteSizes DEF Byte
<1>2. r \in Nat /\ r < B
  BY <1>1
<1>3. s = ((r + h) % B) - h
  BY DEF castByte, castTo
<1> HIDE DEF B, r, h, s
<1>4. (r + h) % B = IF r + h < B THEN r + h ELSE r + h - B
  <2> DEFINE w == r + h
  <2>1. w \in Nat /\ w < 2 * B
    BY <1>1, <1>2
  <2> HIDE DEF w
  <2>2. w % B = IF w < B THEN w ELSE w - B
    BY <1>1, <2>1, ModTwice
  <2>3. QED BY <1>1, <1>2, <2>2 DEF w
<1>5. s \in -h .. h - 1 /\ (s = r \/ s = r - B)
  BY <1>1, <1>2, <1>3, <1>4
<1>6. s % B = r
  <2>1. s % B \in Int /\ Cong(B, s % B, s) /\ 0 <= s % B /\ s % B < B
    BY <1>1, <1>5, ModCong
  <2>2. Cong(B, s, r)
    <3>1. s = r + 0 * B \/ s = r + (-1) * B
      BY <1>1, <1>2, <1>5
    <3>2. QED BY <3>1 DEF Cong
  <2>3. Cong(B, s % B, r)
    BY <1>1, <1>2, <1>5, <2>1, <2>2, CongTransitive
  <2> DEFINE y == s % B
  <2> HIDE DEF y
  <2>4. y \in Int /\ Cong(B, y, r) /\ y - r < B /\ r - y < B
    BY <1>1, <1>2, <2>1, <2>3 DEF y
  <2>5. y = r
    BY <1>1, <1>2, <2>4, CongSmall
  <2>6. QED BY <2>5 DEF y
<1>7. QED BY <1>1, <1>5, <1>6 DEF s, r, B

\* One byte more.
LEMMA ShiftIn ==
  ASSUME NEW u \in Nat, NEW v \in Int, NEW i \in 0 .. 3,
         Cong(RingSize, v, u \div ByteSize ^ (i + 1))
  PROVE  Cong(RingSize, castInt(v * ByteSize + ((u \div ByteSize ^ i) % ByteSize)),
                        u \div ByteSize ^ i)
<1> DEFINE B == ByteSize
           R == RingSize
           q == u \div B ^ i
           t == u \div B ^ (i + 1)
           r == q % B
           z == v * B + r
           P == B ^ i
<1>1. B \in Nat \ {0} /\ P \in Nat \ {0} /\ B ^ (i + 1) = B * P /\ R \in Nat \ {0}
  BY ByteSizes, Sizes
<1>2. t = q \div B /\ q \in Nat
  <2> HIDE DEF P, B
  <2>1. u \div (B * P) = (u \div P) \div B
    BY <1>1, DivTwice
  <2>2. u \div P \in Nat
    BY <1>1
  <2>3. QED BY <1>1, <2>1, <2>2 DEF P
<1>3. Cong(R, v, t)
  OBVIOUS
<1> HIDE DEF q, t, P, R, B
<1>4. q = B * t + r /\ t \in Nat /\ r \in Nat
  BY <1>1, <1>2
<1> HIDE DEF r
<1>5. z \in Int
  BY <1>1, <1>4
<1>6. Cong(R, z, q)
  <2>1. PICK k \in Int : v = t + k * R
    BY <1>3 DEF Cong
  <2>2. z = q + (k * B) * R /\ k * B \in Int
    BY <1>1, <1>4, <2>1
  <2>3. QED BY <2>2 DEF Cong
<1> HIDE DEF z
<1>7. castTo(R, z) \in Int /\ Cong(R, castTo(R, z), z)
  BY <1>1, <1>5, CastCong
<1>8. Cong(R, castTo(R, z), q)
  BY <1>1, <1>2, <1>5, <1>6, <1>7, CongTransitive
<1>9. QED BY <1>8 DEF castInt, R, B, q, r, z

\* Whatever an address is, its bytes are bytes, and give it back.
LEMMA BytesGiveBack ==
  ASSUME NEW id \in Id
  PROVE  /\ intToByteArray(id) \in [1 .. 4 -> Byte]
         /\ ipByteArrayToInt(intToByteArray(id)) = id
<1> DEFINE u == id % RingSize
           shifted(i) == u \div ByteSize ^ i
           bytes == intToByteArray(id)
<1>1. u \in Nat /\ u < RingSize /\ Cong(RingSize, u, id) /\ id \in Int
  BY ModCong, Sizes DEF Id
<1>2. \A i \in 0 .. 4 : shifted(i) \in Nat
  <2> SUFFICES ASSUME NEW i \in 0 .. 4 PROVE shifted(i) \in Nat
    OBVIOUS
  <2>1. ByteSize ^ i \in Nat \ {0}
    BY ByteSizes
  <2> HIDE DEF u
  <2>2. QED BY <1>1, <2>1
<1>3. bytes = [i \in 1 .. 4 |-> castByte(shifted(4 - i) % ByteSize)]
  BY DEF intToByteArray
<1> HIDE DEF shifted, bytes
<1>4. ASSUME NEW i \in 1 .. 4
      PROVE  /\ bytes[i] \in Byte /\ bytes[i] \in Int
             /\ bytes[i] % ByteSize = shifted(4 - i) % ByteSize
  <2>1. bytes[i] = castByte(shifted(4 - i) % ByteSize) /\ shifted(4 - i) \in Nat
    BY <1>2, <1>3
  <2>2. Byte \subseteq Int
    BY ByteSizes DEF Byte
  <2>3. QED BY <2>1, <2>2, ByteKept
<1>5. bytes \in [1 .. 4 -> Byte]
  BY <1>3, <1>4
<1>6. PICK v : /\ v[0] = 0 /\ ipByteArrayToInt(bytes) = v[4]
               /\ \A i \in 1 .. 4 :
                    /\ v[i - 1] \in Int
                    /\ v[i] = castInt(v[i - 1] * ByteSize + (bytes[i] % ByteSize))
  BY <1>4, FourBytes
<1>7. ASSUME NEW i \in 1 .. 4, Cong(RingSize, v[i - 1], shifted(4 - (i - 1)))
      PROVE  Cong(RingSize, v[i], shifted(4 - i))
  <2> DEFINE k == 4 - i
  <2>1. k \in 0 .. 3 /\ 4 - (i - 1) = k + 1 /\ v[i - 1] \in Int
    BY <1>6
  <2> HIDE DEF k
  <2>2. Cong(RingSize, castInt(v[i - 1] * ByteSize + (shifted(k) % ByteSize)), shifted(k))
    BY <1>1, <1>7, <2>1, ShiftIn DEF shifted
  <2>3. v[i] = castInt(v[i - 1] * ByteSize + (shifted(k) % ByteSize))
    BY <1>4, <1>6 DEF k
  <2>4. QED BY <2>2, <2>3 DEF k
<1>8. Cong(RingSize, v[0], shifted(4))
  <2>1. shifted(4) = u \div RingSize
    BY ByteSizes DEF shifted
  <2> HIDE DEF u
  <2>2. shifted(4) = 0
    BY <1>1, <2>1, Sizes
  <2>3. v[0] = shifted(4) + 0 * RingSize
    BY <1>6, <2>2, Sizes
  <2>4. QED BY <2>3 DEF Cong
<1>9. Cong(RingSize, v[4], shifted(0))
  <2>1. \A i \in 1 .. 4 : Cong(RingSize, v[i - 1], shifted(4 - (i - 1)))
                            => Cong(RingSize, v[i], shifted(4 - i))
    BY <1>7
  <2>2. Cong(RingSize, v[1], shifted(3))
    <3>1. Cong(RingSize, v[1 - 1], shifted(4 - (1 - 1))) => Cong(RingSize, v[1], shifted(4 - 1))
      BY <2>1
    <3>2. QED BY <1>8, <3>1
  <2>3. Cong(RingSize, v[2], shifted(2))
    <3>1. Cong(RingSize, v[2 - 1], shifted(4 - (2 - 1))) => Cong(RingSize, v[2], shifted(4 - 2))
      BY <2>1
    <3>2. QED BY <2>2, <3>1
  <2>4. Cong(RingSize, v[3], shifted(1))
    <3>1. Cong(RingSize, v[3 - 1], shifted(4 - (3 - 1))) => Cong(RingSize, v[3], shifted(4 - 3))
      BY <2>1
    <3>2. QED BY <2>3, <3>1
  <2>5. Cong(RingSize, v[4 - 1], shifted(4 - (4 - 1))) => Cong(RingSize, v[4], shifted(4 - 4))
    BY <2>1
  <2>6. QED BY <2>4, <2>5
<1>10. shifted(0) = u
  BY <1>1, ByteSizes DEF shifted
<1>11. v[4] \in Id
  <2> DEFINE z == v[4 - 1] * ByteSize + (bytes[4] % ByteSize)
  <2>1. v[4] = castInt(z)
    BY <1>6
  <2>2. z \in Int
    <3>1. v[4 - 1] \in Int /\ bytes[4] \in Int
      BY <1>4, <1>6
    <3>2. QED BY <3>1, ByteSizes
  <2> HIDE DEF z
  <2>3. castInt(z) \in Id
    BY <2>2, CastIsId
  <2>4. QED BY <2>1, <2>3
<1>12. Cong(RingSize, v[4], id)
  <2> HIDE DEF u
  <2>1. v[4] \in Int /\ RingSize \in Nat
    BY <1>11, Sizes DEF Id
  <2>2. QED BY <1>1, <1>9, <1>10, <2>1, CongTransitive
<1>13. v[4] = id
  <2> DEFINE w == v[4]
  <2>1. w \in Int /\ w - id < RingSize /\ id - w < RingSize
    BY <1>11, Sizes DEF Id
  <2> HIDE DEF w
  <2>2. w = id
    BY <1>1, <1>12, <2>1, Sizes, CongSmall DEF w
  <2>3. QED BY <2>2 DEF w
<1>14. QED BY <1>5, <1>6, <1>13 DEF bytes

\* An address is read back from its four bytes as it was, and two hosts with different
\* addresses get different identifiers, if the multiplier has an inverse.
THEOREM AddressesAreKept ==
  ASSUME NEW inverse \in Int, (KNUTH * inverse) % RingSize = 1
  PROVE  Spec => []AddressBytesKept
<1>1. ASSUME NEW i \in Id, NEW j \in Id,
             inetAddressToShardId(intToByteArray(i)) = inetAddressToShardId(intToByteArray(j))
      PROVE  i = j
  <2>1. intHash(i) = intHash(j)
    BY <1>1, BytesGiveBack DEF inetAddressToShardId
  <2>2. QED BY <2>1, HashDiffers
<1>2. TypeOK => AddressBytesKept
  BY <1>1, BytesGiveBack DEF TypeOK, AddressBytesKept
<1>3. QED BY <1>2, TypeCorrect, PTL
=============================================================================
