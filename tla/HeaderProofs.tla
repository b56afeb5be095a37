---------------------------- MODULE HeaderProofs -----------------------------
(***************************************************************************)
(* Theorems about Header, for every base, all widths of the fields, any    *)
(* names, datagrams and byte order, and any number of packets:             *)
(*                                                                         *)
(*   NamesCorrect  commands are taken from a packet's own bytes            *)
(*   CodecCorrect  a journal is read back as it was received               *)
(***************************************************************************)
EXTENDS Header, SequenceTheorems, WellFoundedInduction, TLAPS

-----------------------------------------------------------------------------
(* Induction and quotients *)

(* A set of numbers has a least one.                                       *)
LEMMA Least ==
  ASSUME NEW T \in SUBSET Nat, T # {}
  PROVE  \E x \in T : \A y \in T : x <= y
<1>1. IsWellFoundedOn(OpToRel(<, Nat), Nat)
  BY NatLessThanWellFounded
<1> DEFINE R == OpToRel(<, Nat)
<1>2. \A x, y \in Nat : x < y => <<x, y>> \in R
  BY DEF OpToRel
<1> HIDE DEF R
<1>3. PICK x \in T : \A y \in T : ~(<<y, x>> \in R)
  BY <1>1, WFMin DEF R
<1>4. \A y \in T : ~(y < x)
  BY <1>2, <1>3
<1>5. \A y \in T : x <= y
  BY <1>4
<1> QED
  BY <1>5

(* Induction, for a property that is given as a set.                       *)
LEMMA SetInduction ==
  ASSUME NEW S, 0 \in S, \A n \in Nat : n \in S => n + 1 \in S
  PROVE  Nat \subseteq S
<1> SUFFICES ASSUME Nat \ S # {} PROVE FALSE
  OBVIOUS
<1>1. PICK x \in Nat \ S : \A y \in Nat \ S : x <= y
  BY Least
<1>2. x # 0 /\ x - 1 \in Nat /\ x = (x - 1) + 1
  BY <1>1
<1> QED
  BY <1>1, <1>2

(* Quotient and remainder.                                                 *)
LEMMA DivMod ==
  ASSUME NEW a \in Nat, NEW b \in Nat \ {0}
  PROVE  a \div b \in Nat /\ a % b \in 0..(b - 1) /\ a = b * (a \div b) + (a % b)
<1>1. a % b \in 0..(b - 1)
  OBVIOUS
<1>2. a = b * (a \div b) + (a % b)
  BY SMTT(30)
<1>3. a \div b \in Int
  OBVIOUS
<1>4. a \div b \in Nat
  BY <1>1, <1>2, <1>3
<1> QED
  BY <1>1, <1>2, <1>4

(* They are the only ones.                                                 *)
LEMMA DivUnique ==
  ASSUME NEW b \in Nat \ {0}, NEW q \in Nat, NEW r \in 0..(b - 1)
  PROVE  (b * q + r) \div b = q /\ (b * q + r) % b = r
<1> DEFINE a == b * q + r
<1>1. a \in Nat
  OBVIOUS
<1>2. PICK p \in Nat, s \in 0..(b - 1) : a \div b = p /\ a % b = s /\ a = b * p + s
  BY <1>1, DivMod
<1>3. b * (p - q) = r - s /\ b * (q - p) = s - r
  BY <1>2
<1>4. \A k \in Nat \ {0} : b * k >= b
  OBVIOUS
<1>5. CASE p > q
  <2>1. p - q \in Nat \ {0}
    BY <1>5
  <2> QED
    BY <1>3, <1>4, <2>1
<1>6. CASE q > p
  <2>1. q - p \in Nat \ {0}
    BY <1>6
  <2> QED
    BY <1>3, <1>4, <2>1
<1>7. CASE p = q
  BY <1>2, <1>3, <1>7
<1> QED
  BY <1>5, <1>6, <1>7

(* To divide twice is to divide by the product.                            *)
LEMMA DivTwice ==
  ASSUME NEW x \in Nat, NEW a \in Nat \ {0}, NEW b \in Nat \ {0}
  PROVE  (x \div a) \div b = x \div (b * a)
<1>1. PICK u \in Nat, r \in 0..(a - 1) : x \div a = u /\ x = a * u + r
  BY DivMod
<1>2. PICK v \in Nat, y \in 0..(b - 1) : u \div b = v /\ u = b * v + y
  BY DivMod
<1>3. PICK c \in Nat \ {0} : c = b * a
  OBVIOUS
<1>4. PICK z \in Nat : z = a * y + r
  OBVIOUS
<1>5. z < c
  <2>1. b - 1 - y \in Nat
    OBVIOUS
  <2>2. a * (b - 1 - y) \in Nat
    BY <2>1
  <2>3. a * (b - 1 - y) = a * b - a - a * y
    OBVIOUS
  <2> QED
    BY <1>3, <1>4, <2>2, <2>3
<1>6. x = c * v + z
  <2>1. a * u = a * (b * v) + a * y
    BY <1>2
  <2>2. a * (b * v) = (b * a) * v
    OBVIOUS
  <2> QED
    BY <1>1, <1>3, <1>4, <2>1, <2>2
<1>7. x \div c = v
  BY <1>5, <1>6, DivUnique
<1> QED
  BY <1>1, <1>2, <1>3, <1>7

-----------------------------------------------------------------------------
(* Tables: the recursive functions of the codec *)

\* v reads m digits in base b
IsTable(v, b, q, m) ==
  /\ v \in [0..m -> Nat]
  /\ v[0] = 0
  /\ \A i \in 1..m : v[i] = v[i - 1] * b + q[i]

(* Every sequence of digits has its table.                                 *)
LEMMA TableExists ==
  ASSUME NEW b \in Nat, NEW n \in Nat, NEW q \in [1..n -> Nat]
  PROVE  \E v : IsTable(v, b, q, n)
<1> DEFINE S == {m \in Nat : m <= n => \E v : IsTable(v, b, q, m)}
<1>1. 0 \in S
  <2>1. IsTable([i \in 0..0 |-> 0], b, q, 0)
    BY DEF IsTable
  <2> QED
    BY <2>1
<1>2. ASSUME NEW m \in Nat, m \in S
      PROVE  m + 1 \in S
  <2> SUFFICES ASSUME m + 1 <= n PROVE \E v : IsTable(v, b, q, m + 1)
    BY <1>2
  <2>1. PICK v : IsTable(v, b, q, m)
    BY <1>2
  <2>2. v[m] \in Nat /\ q[m + 1] \in Nat
    BY <2>1 DEF IsTable
  <2>3. PICK x \in Nat : x = v[m] * b + q[m + 1]
    <3>1. \A k, d \in Nat : k * b + d \in Nat
      OBVIOUS
    <3> QED
      BY <2>2, <3>1
  <2> DEFINE w == [i \in 0..(m + 1) |-> IF i = m + 1 THEN x ELSE v[i]]
  <2>4. w \in [0..(m + 1) -> Nat] /\ w[0] = 0
    BY <2>1 DEF IsTable
  <2>5. ASSUME NEW i \in 1..(m + 1) PROVE w[i] = w[i - 1] * b + q[i]
    <3>1. CASE i = m + 1
      <4>1. w[i] = x /\ w[i - 1] = v[m]
        BY <3>1
      <4> QED
        BY <2>3, <3>1, <4>1
    <3>2. CASE i \in 1..m
      <4>1. w[i] = v[i] /\ w[i - 1] = v[i - 1]
        BY <3>2
      <4> QED
        BY <2>1, <3>2, <4>1 DEF IsTable
    <3> QED
      BY <3>1, <3>2
  <2> HIDE DEF w
  <2>6. IsTable(w, b, q, m + 1)
    BY <2>4, <2>5 DEF IsTable
  <2> QED
    BY <2>6
<1> HIDE DEF S
<1>3. Nat \subseteq S
  BY <1>1, <1>2, SetInduction
<1> QED
  BY <1>3 DEF S

(* The values of a table are determined.                                   *)
LEMMA TableUnique ==
  ASSUME NEW b, NEW q, NEW n \in Nat, NEW v, IsTable(v, b, q, n),
         NEW w, IsTable(w, b, q, n)
  PROVE  v[n] = w[n]
<1> DEFINE S == {m \in Nat : m <= n => v[m] = w[m]}
<1>1. 0 \in S
  BY DEF IsTable
<1>2. ASSUME NEW m \in Nat, m \in S
      PROVE  m + 1 \in S
  <2> SUFFICES ASSUME m + 1 <= n PROVE v[m + 1] = w[m + 1]
    OBVIOUS
  <2>1. m + 1 \in 1..n /\ (m + 1) - 1 = m /\ v[m] = w[m]
    BY <1>2
  <2>2. v[m + 1] = v[m] * b + q[m + 1] /\ w[m + 1] = w[m] * b + q[m + 1]
    BY <2>1 DEF IsTable
  <2> QED
    BY <2>1, <2>2
<1> HIDE DEF S
<1>3. Nat \subseteq S
  BY <1>1, <1>2, SetInduction
<1> QED
  BY <1>3 DEF S

(* Unmarshal is the last value of the table of its bytes.                  *)
LEMMA UnmarshalIs ==
  ASSUME NEW n \in Nat, NEW q \in [1..n -> Nat], NEW v, IsTable(v, Base, q, n)
  PROVE  Unmarshal(q) = v[n]
<1>1. Len(q) = n
  OBVIOUS
<1> DEFINE Step(f, i) == IF i = 0 THEN 0 ELSE f[i - 1] * Base + q[i]
           w == CHOOSE f : f = [i \in 0..n |-> Step(f, i)]
<1>2. v = [i \in 0..n |-> Step(v, i)]
  <2>1. DOMAIN v = 0..n /\ v = [i \in 0..n |-> v[i]]
    BY DEF IsTable
  <2>2. \A i \in 0..n : v[i] = Step(v, i)
    BY DEF IsTable
  <2> QED
    BY <2>1, <2>2
<1>3. w = [i \in 0..n |-> Step(w, i)]
  BY <1>2
<1>4. Unmarshal(q) = w[n]
  BY <1>1 DEF Unmarshal
<1> HIDE DEF w
<1> DEFINE S == {m \in Nat : m <= n => w[m] = v[m]}
<1>5. 0 \in S
  BY <1>3 DEF IsTable
<1>6. ASSUME NEW m \in Nat, m \in S
      PROVE  m + 1 \in S
  <2> SUFFICES ASSUME m + 1 <= n PROVE w[m + 1] = v[m + 1]
    OBVIOUS
  <2>1. m + 1 \in 0..n /\ m + 1 # 0 /\ m + 1 \in 1..n /\ (m + 1) - 1 = m /\ w[m] = v[m]
    BY <1>6
  <2>2. w[m + 1] = Step(w, m + 1)
    BY <1>3, <2>1
  <2>3. v[m + 1] = v[m] * Base + q[m + 1]
    BY <2>1 DEF IsTable
  <2> QED
    BY <2>1, <2>2, <2>3
<1> HIDE DEF S
<1>7. Nat \subseteq S
  BY <1>5, <1>6, SetInduction
<1> QED
  BY <1>4, <1>7 DEF S

-----------------------------------------------------------------------------
(* Powers of the base *)

(* The number of values of a byte.                                         *)
LEMMA BaseType == Base \in Nat \ {0} /\ Base > 1
  BY HeaderAssumption

\* the powers up to m
IsPowers(p, m) ==
  /\ p \in [0..m -> Nat \ {0}]
  /\ p[0] = 1
  /\ \A i \in 1..m : p[i] = Base * p[i - 1]

(* There are powers up to every number.                                    *)
LEMMA PowersExist == \A n \in Nat : \E p : IsPowers(p, n)
<1> DEFINE S == {n \in Nat : \E p : IsPowers(p, n)}
<1>1. 0 \in S
  <2>1. IsPowers([i \in 0..0 |-> 1], 0)
    BY DEF IsPowers
  <2> QED
    BY <2>1
<1>2. ASSUME NEW n \in Nat, n \in S
      PROVE  n + 1 \in S
  <2>1. PICK p : IsPowers(p, n)
    BY <1>2
  <2>2. p[n] \in Nat \ {0}
    BY <2>1 DEF IsPowers
  <2>3. PICK x \in Nat \ {0} : x = Base * p[n]
    <3>1. \A b, k \in Nat \ {0} : b * k \in Nat \ {0}
      OBVIOUS
    <3> QED
      BY <2>2, <3>1, BaseType
  <2> DEFINE r == [i \in 0..(n + 1) |-> IF i = n + 1 THEN x ELSE p[i]]
  <2>4. r \in [0..(n + 1) -> Nat \ {0}] /\ r[0] = 1
    BY <2>1 DEF IsPowers
  <2>5. ASSUME NEW i \in 1..(n + 1) PROVE r[i] = Base * r[i - 1]
    <3>1. CASE i = n + 1
      <4>1. r[i] = x /\ r[i - 1] = p[n]
        BY <3>1
      <4> QED
        BY <2>3, <4>1
    <3>2. CASE i \in 1..n
      <4>1. r[i] = p[i] /\ r[i - 1] = p[i - 1]
        BY <3>2
      <4> QED
        BY <2>1, <3>2, <4>1 DEF IsPowers
    <3> QED
      BY <3>1, <3>2
  <2> HIDE DEF r
  <2>6. IsPowers(r, n + 1)
    BY <2>4, <2>5 DEF IsPowers
  <2> QED
    BY <2>6
<1> HIDE DEF S
<1>3. Nat \subseteq S
  BY <1>1, <1>2, SetInduction
<1> QED
  BY <1>3 DEF S

(* Two tables of powers agree as far as they go.                           *)
LEMMA PowersAgree ==
  ASSUME NEW m \in Nat, NEW p, IsPowers(p, m), NEW k \in Nat, NEW r, IsPowers(r, k)
  PROVE  \A n \in Nat : n <= m /\ n <= k => p[n] = r[n]
<1> DEFINE S == {n \in Nat : n <= m /\ n <= k => p[n] = r[n]}
<1>1. 0 \in S
  BY DEF IsPowers
<1>2. ASSUME NEW n \in Nat, n \in S
      PROVE  n + 1 \in S
  <2> SUFFICES ASSUME n + 1 <= m, n + 1 <= k PROVE p[n + 1] = r[n + 1]
    OBVIOUS
  <2>1. /\ n + 1 \in 1..m /\ n + 1 \in 1..k /\ (n + 1) - 1 = n
        /\ p[n] = r[n]
    BY <1>2
  <2>2. p[n + 1] = Base * p[n] /\ r[n + 1] = Base * r[n]
    BY <2>1 DEF IsPowers
  <2> QED
    BY <2>1, <2>2
<1> HIDE DEF S
<1>3. Nat \subseteq S
  BY <1>1, <1>2, SetInduction
<1> QED
  BY <1>3 DEF S

(* What Power is.                                                          *)
LEMMA PowerIs ==
  /\ Power[0] = 1
  /\ \A n \in Nat : Power[n + 1] = Base * Power[n]
  /\ \A n \in Nat : Power[n] \in Nat \ {0}
<1> DEFINE Table(n) == CHOOSE p : IsPowers(p, n)
           g == [n \in Nat |-> Table(n)[n]]
           Step(f, n) == IF n = 0 THEN 1 ELSE Base * f[n - 1]
<1>1. \A n \in Nat : IsPowers(Table(n), n)
  BY PowersExist
<1> HIDE DEF Table
<1>2. ASSUME NEW n \in Nat PROVE g[n] = Step(g, n)
  <2>1. CASE n = 0
    <3>1. Table(0)[0] = 1
      BY <1>1 DEF IsPowers
    <3> QED
      BY <2>1, <3>1
  <2>2. CASE n # 0
    <3>1. PICK m \in Nat : n = m + 1
      <4>1. n - 1 \in Nat /\ n = (n - 1) + 1
        BY <2>2
      <4> QED
        BY <4>1
    <3>2. IsPowers(Table(n), n) /\ IsPowers(Table(m), m)
      BY <1>1
    <3>3. Table(n)[m] = Table(m)[m]
      BY <3>1, <3>2, PowersAgree
    <3>4. n \in 1..n /\ n - 1 = m
      BY <3>1
    <3>5. Table(n)[n] = Base * Table(n)[m]
      BY <3>2, <3>4 DEF IsPowers
    <3> QED
      BY <2>2, <3>3, <3>4, <3>5
  <2> QED
    BY <2>1, <2>2
<1>3. \A n \in Nat : g[n] \in Nat \ {0}
  BY <1>1 DEF IsPowers
<1>4. g = [n \in Nat |-> Step(g, n)]
  <2>1. g = [n \in Nat |-> g[n]]
    OBVIOUS
  <2> HIDE DEF g
  <2> QED
    BY <1>2, <2>1
<1> HIDE DEF g
<1>5. Power = [n \in Nat |-> Step(Power, n)]
  BY <1>4 DEF Power
<1>6. Power[0] = 1
  BY <1>5
<1>7. ASSUME NEW n \in Nat PROVE Power[n + 1] = Base * Power[n]
  <2>1. n + 1 \in Nat /\ n + 1 # 0 /\ (n + 1) - 1 = n
    OBVIOUS
  <2>2. Power[n + 1] = Step(Power, n + 1)
    BY <1>5, <2>1
  <2> QED
    BY <2>1, <2>2
<1> DEFINE S == {n \in Nat : Power[n] \in Nat \ {0}}
<1>8. 0 \in S
  BY <1>6
<1>9. ASSUME NEW n \in Nat, n \in S
      PROVE  n + 1 \in S
  <2>1. \A b, k \in Nat \ {0} : b * k \in Nat \ {0}
    OBVIOUS
  <2> QED
    BY <1>7, <1>9, <2>1, BaseType
<1> HIDE DEF S
<1>10. Nat \subseteq S
  BY <1>8, <1>9, SetInduction
<1> QED
  BY <1>6, <1>7, <1>10 DEF S

-----------------------------------------------------------------------------
(* The codec *)

(* Marshal gives w bytes.                                                  *)
LEMMA MarshalType ==
  ASSUME NEW x \in Nat, NEW w \in Nat
  PROVE  /\ Marshal(x, w) \in Seq(Byte) /\ Marshal(x, w) \in [1..w -> Byte]
         /\ Len(Marshal(x, w)) = w
         /\ \A i \in 1..w : Marshal(x, w)[i] = (x \div Power[w - i]) % Base
<1>1. ASSUME NEW i \in 1..w PROVE (x \div Power[w - i]) % Base \in Byte
  <2>1. w - i \in Nat
    OBVIOUS
  <2>2. Power[w - i] \in Nat \ {0}
    BY <2>1, PowerIs
  <2>3. x \div Power[w - i] \in Nat
    BY <2>2, DivMod
  <2> QED
    BY <2>3, BaseType, DivMod DEF Byte
<1>2. Marshal(x, w) \in [1..w -> Byte]
  BY <1>1 DEF Marshal
<1> QED
  BY <1>2 DEF Marshal

(* A number that fits its field survives the codec.                        *)
LEMMA UnmarshalMarshal ==
  ASSUME NEW w \in Nat, NEW x \in Nat, x < Power[w]
  PROVE  Unmarshal(Marshal(x, w)) = x
<1> DEFINE q == Marshal(x, w)
           v == [i \in 0..w |-> x \div Power[w - i]]
<1>1. q \in [1..w -> Byte] /\ \A i \in 1..w : q[i] = (x \div Power[w - i]) % Base
  BY MarshalType
<1>2. Byte \subseteq Nat
  BY BaseType DEF Byte
<1>3. q \in [1..w -> Nat]
  BY <1>1, <1>2
<1>4. \A i \in 0..w : w - i \in Nat /\ Power[w - i] \in Nat \ {0}
  BY PowerIs
<1>5. v \in [0..w -> Nat]
  BY <1>4, DivMod
<1>6. v[0] = 0
  <2>1. Power[w] \in Nat \ {0} /\ w - 0 = w
    BY PowerIs
  <2>2. PICK k \in Nat \ {0} : k = Power[w]
    BY <2>1
  <2>3. (k * 0 + x) \div k = 0
    BY <2>2, DivUnique
  <2>4. k * 0 + x = x
    BY <2>2
  <2> QED
    BY <2>1, <2>2, <2>3, <2>4
<1>7. ASSUME NEW i \in 1..w PROVE v[i] = v[i - 1] * Base + q[i]
  <2>1. i \in 0..w /\ i - 1 \in 0..w /\ w - (i - 1) = (w - i) + 1 /\ w - i \in Nat
    OBVIOUS
  <2>2. PICK k \in Nat \ {0} : k = Power[w - i]
    BY <1>4, <2>1
  <2>3. Power[w - (i - 1)] = Base * k
    BY <2>1, <2>2, PowerIs
  <2>4. v[i] = x \div k /\ v[i - 1] = x \div (Base * k)
    BY <2>1, <2>2, <2>3
  <2>5. v[i] \in Nat /\ v[i - 1] = v[i] \div Base
    <3>1. x \div k \in Nat
      BY <2>2, DivMod
    <3>2. (x \div k) \div Base = x \div (Base * k)
      BY <2>2, BaseType, DivTwice
    <3> QED
      BY <2>4, <3>1, <3>2
  <2>6. q[i] = v[i] % Base
    BY <1>1, <2>2, <2>4
  <2> HIDE DEF v, q
  <2>7. v[i] = Base * (v[i] \div Base) + (v[i] % Base) /\ v[i] \div Base \in Nat
        /\ v[i] % Base \in Nat
    <3>1. \A a \in Nat, b \in Nat \ {0} :
            a = b * (a \div b) + (a % b) /\ a \div b \in Nat /\ a % b \in 0..(b - 1)
      BY DivMod, Zenon
    <3>2. 0..(Base - 1) \subseteq Nat
      BY BaseType
    <3> QED
      BY <2>5, <3>1, <3>2, BaseType, Zenon
  <2>8. Base * (v[i] \div Base) = (v[i] \div Base) * Base
    <3>1. \A a, b \in Nat : a * b = b * a
      OBVIOUS
    <3> QED
      BY <2>7, <3>1, BaseType, Zenon
  <2>9. v[i] = (v[i] \div Base) * Base + (v[i] % Base)
    BY <2>7, <2>8, Zenon
  <2> QED
    BY <2>5, <2>6, <2>9, Zenon
<1> HIDE DEF v, q
<1>8. IsTable(v, Base, q, w)
  BY <1>5, <1>6, <1>7 DEF IsTable
<1>9. Unmarshal(q) = v[w]
  BY <1>3, <1>8, UnmarshalIs
<1>10. v[w] = x
  <2>1. w \in 0..w /\ w - w = 0 /\ Power[0] = 1
    BY PowerIs
  <2>2. x \div 1 = x
    <3>1. (1 * x + 0) \div 1 = x
      BY DivUnique
    <3> QED
      BY <3>1
  <2> QED
    BY <2>1, <2>2 DEF v
<1> QED
  BY <1>9, <1>10 DEF q

(* What is read from w bytes fits w bytes, and they are its bytes.         *)
LEMMA MarshalUnmarshal ==
  ASSUME NEW w \in Nat, NEW q \in [1..w -> Byte]
  PROVE  /\ Unmarshal(q) \in Nat /\ Unmarshal(q) < Power[w]
         /\ Marshal(Unmarshal(q), w) = q
<1>1. Byte \subseteq Nat
  BY BaseType DEF Byte
<1>2. q \in [1..w -> Nat]
  BY <1>1
<1>3. PICK v : IsTable(v, Base, q, w)
  BY <1>2, BaseType, TableExists
<1>4. Unmarshal(q) = v[w]
  BY <1>2, <1>3, UnmarshalIs
<1>5. /\ \A i \in 0..w : v[i] \in Nat
      /\ \A i \in 1..w : v[i] = v[i - 1] * Base + q[i] /\ q[i] \in 0..(Base - 1)
      /\ v[0] = 0
  BY <1>3 DEF IsTable, Byte
<1>6. ASSUME NEW i \in 1..w PROVE v[i] \div Base = v[i - 1] /\ v[i] % Base = q[i]
  <2>1. v[i - 1] \in Nat /\ q[i] \in 0..(Base - 1)
    BY <1>5
  <2>2. v[i] = Base * v[i - 1] + q[i]
    <3>1. \A a, b \in Nat : a * b = b * a
      OBVIOUS
    <3> QED
      BY <1>5, <2>1, <3>1, BaseType
  <2> QED
    <3>1. \A b \in Nat \ {0}, p \in Nat : \A r \in 0..(b - 1) :
            (b * p + r) \div b = p /\ (b * p + r) % b = r
      BY DivUnique, Zenon
    <3>2. /\ (Base * v[i - 1] + q[i]) \div Base = v[i - 1]
          /\ (Base * v[i - 1] + q[i]) % Base = q[i]
      BY <2>1, <3>1, BaseType, Zenon
    <3> QED
      BY <2>2, <3>2, Zenon
<1> DEFINE S == {k \in Nat : k <= w => v[w] \div Power[k] = v[w - k]}
<1>7. 0 \in S
  <2>1. w - 0 = w /\ Power[0] = 1 /\ v[w] \in Nat
    BY <1>5, PowerIs
  <2>2. (1 * v[w] + 0) \div 1 = v[w]
    BY <2>1, DivUnique
  <2>3. 1 * v[w] + 0 = v[w]
    BY <2>1
  <2> QED
    BY <2>1, <2>2, <2>3
<1>8. ASSUME NEW k \in Nat, k \in S
      PROVE  k + 1 \in S
  <2> SUFFICES ASSUME k + 1 <= w PROVE v[w] \div Power[k + 1] = v[w - (k + 1)]
    OBVIOUS
  <2>1. w - k \in 1..w /\ (w - k) - 1 = w - (k + 1) /\ v[w] \div Power[k] = v[w - k]
    BY <1>8
  <2>2. Power[k] \in Nat \ {0} /\ Power[k + 1] = Base * Power[k] /\ v[w] \in Nat
    <3>1. v[w] \in Nat
      BY <1>5
    <3> QED
      BY <3>1, PowerIs, Zenon
  <2>3. (v[w] \div Power[k]) \div Base = v[w] \div (Base * Power[k])
    BY <2>2, BaseType, DivTwice
  <2>4. v[w - k] \div Base = v[(w - k) - 1]
    BY <1>6, <2>1
  <2> QED
    BY <2>1, <2>2, <2>3, <2>4
<1> HIDE DEF S
<1>9. Nat \subseteq S
  BY <1>7, <1>8, SetInduction
<1>10. \A k \in 0..w : v[w] \div Power[k] = v[w - k]
  BY <1>9 DEF S
<1>11. v[w] \in Nat
  BY <1>5
<1>12. v[w] < Power[w]
  <2>1. PICK k \in Nat \ {0} : k = Power[w]
    BY PowerIs
  <2>2. v[w] \div k = 0
    <3>1. w \in 0..w /\ w - w = 0
      OBVIOUS
    <3> QED
      BY <1>5, <1>10, <2>1, <3>1
  <2>3. PICK x \in Nat : x = v[w]
    BY <1>11
  <2>4. x = k * (x \div k) + (x % k) /\ x % k \in 0..(k - 1)
    BY DivMod, Zenon
  <2>5. k * 0 = 0
    OBVIOUS
  <2>6. x < k
    <3>1. PICK r \in 0..(k - 1) : r = x % k
      BY <2>4
    <3>2. x = 0 + r
      BY <2>2, <2>3, <2>4, <2>5, <3>1, Zenon
    <3> QED
      BY <3>1, <3>2
  <2> QED
    BY <2>1, <2>3, <2>6
<1>13. ASSUME NEW i \in 1..w PROVE Marshal(v[w], w)[i] = q[i]
  <2>1. w - i \in 0..w /\ w - (w - i) = i
    OBVIOUS
  <2>2. v[w] \div Power[w - i] = v[i]
    BY <1>10, <2>1
  <2> QED
    BY <1>6, <1>11, <2>2, MarshalType
<1>14. Marshal(v[w], w) = q
  <2>1. Marshal(v[w], w) \in [1..w -> Byte]
    BY <1>11, MarshalType
  <2>2. PICK r \in [1..w -> Byte] : r = Marshal(v[w], w)
    BY <2>1
  <2>3. \A i \in 1..w : r[i] = q[i]
    BY <1>13, <2>2, Zenon
  <2>4. r = q
    BY <2>3
  <2> QED
    BY <2>2, <2>4
<1> QED
  BY <1>4, <1>11, <1>12, <1>14

-----------------------------------------------------------------------------
(* Sequences of bytes and the layout of a message *)

\* t lies in s after the first off elements
Occurs(t, s, off) ==
  /\ off + Len(t) <= Len(s)
  /\ \A k \in 1..Len(t) : s[off + k] = t[k]

(* What lies in a sequence is cut out by its positions.                    *)
LEMMA OccursSub ==
  ASSUME NEW s \in Seq(Byte), NEW t \in Seq(Byte), NEW off \in Nat, Occurs(t, s, off)
  PROVE  SubSeq(s, off + 1, off + Len(t)) = t
<1>1. Len(t) \in Nat /\ Len(s) \in Nat /\ off + Len(t) <= Len(s)
  BY DEF Occurs
<1>2. \A i \in (off + 1)..(off + Len(t)) : s[i] \in Byte
  BY <1>1
<1> DEFINE u == SubSeq(s, off + 1, off + Len(t))
<1>3. /\ u \in Seq(Byte) /\ Len(u) = Len(t)
      /\ \A i \in 1..Len(t) : u[i] = s[off + i]
  <2>1. /\ u \in Seq(Byte)
        /\ Len(u) = IF off + 1 <= off + Len(t) THEN off + Len(t) - (off + 1) + 1 ELSE 0
        /\ \A i \in 1..(off + Len(t) - (off + 1) + 1) : u[i] = s[off + 1 + i - 1]
    <3>1. off + 1 \in Int /\ off + Len(t) \in Int
      BY <1>1
    <3> QED
      BY <1>2, <3>1, SubSeqProperties
  <2> HIDE DEF u
  <2> QED
    BY <1>1, <2>1
<1> HIDE DEF u
<1>4. u = t
  BY <1>1, <1>3, SeqEqual DEF Occurs
<1> QED
  BY <1>4 DEF u

(* A sequence lies in itself.                                              *)
LEMMA OccursSelf ==
  ASSUME NEW s \in Seq(Byte)
  PROVE  Occurs(s, s, 0)
  BY DEF Occurs

(* Both parts of a concatenation lie in it, and all that lies in the first.*)
LEMMA OccursConcat ==
  ASSUME NEW s \in Seq(Byte), NEW t \in Seq(Byte)
  PROVE  /\ s \o t \in Seq(Byte) /\ Len(s \o t) = Len(s) + Len(t)
         /\ Occurs(t, s \o t, Len(s))
         /\ \A u \in Seq(Byte), off \in Nat : Occurs(u, s, off) => Occurs(u, s \o t, off)
<1> DEFINE w == s \o t
<1>1. /\ w \in Seq(Byte) /\ Len(w) = Len(s) + Len(t)
      /\ \A i \in 1..(Len(s) + Len(t)) :
           w[i] = IF i <= Len(s) THEN s[i] ELSE t[i - Len(s)]
  BY ConcatProperties
<1> HIDE DEF w
<1>2. Len(s) \in Nat /\ Len(t) \in Nat
  OBVIOUS
<1>3. Occurs(t, w, Len(s))
  <2>1. ASSUME NEW k \in 1..Len(t) PROVE w[Len(s) + k] = t[k]
    <3>1. Len(s) + k \in 1..(Len(s) + Len(t)) /\ ~(Len(s) + k <= Len(s))
          /\ (Len(s) + k) - Len(s) = k
      BY <1>2
    <3> QED
      BY <1>1, <3>1, Zenon
  <2> QED
    BY <1>1, <1>2, <2>1 DEF Occurs
<1>4. ASSUME NEW u \in Seq(Byte), NEW off \in Nat, Occurs(u, s, off)
      PROVE  Occurs(u, w, off)
  <2>1. Len(u) \in Nat /\ off + Len(u) <= Len(s)
    BY <1>4 DEF Occurs
  <2>2. ASSUME NEW k \in 1..Len(u) PROVE w[off + k] = u[k]
    <3>1. off + k \in 1..(Len(s) + Len(t)) /\ off + k <= Len(s)
      BY <1>2, <2>1
    <3>2. w[off + k] = s[off + k]
      BY <1>1, <3>1, Zenon
    <3> QED
      BY <1>4, <3>2 DEF Occurs
  <2> QED
    BY <1>1, <1>2, <2>1, <2>2 DEF Occurs
<1> QED
  BY <1>1, <1>3, <1>4 DEF w

(* What lies in a part lies in the whole.                                  *)
LEMMA OccursInside ==
  ASSUME NEW s \in Seq(Byte), NEW t \in Seq(Byte), NEW u \in Seq(Byte),
         NEW off \in Nat, NEW in \in Nat, Occurs(t, s, off), Occurs(u, t, in)
  PROVE  Occurs(u, s, off + in)
<1>1. Len(s) \in Nat /\ Len(t) \in Nat /\ Len(u) \in Nat
  OBVIOUS
<1>2. off + Len(t) <= Len(s) /\ in + Len(u) <= Len(t)
  BY DEF Occurs
<1>3. ASSUME NEW k \in 1..Len(u) PROVE s[(off + in) + k] = u[k]
  <2>1. in + k \in 1..Len(t) /\ (off + in) + k = off + (in + k)
    BY <1>1, <1>2
  <2>2. s[off + (in + k)] = t[in + k] /\ t[in + k] = u[k]
    BY <2>1 DEF Occurs
  <2> QED
    BY <2>1, <2>2
<1> QED
  BY <1>1, <1>2, <1>3 DEF Occurs

(* Where the fields begin.                                                 *)
LEMMA OffsetIs ==
  /\ Offset(1) = 0
  /\ \A f \in 1..6 : Offset(f) \in Nat /\ Offset(f + 1) = Offset(f) + Widths[f]
  /\ Offset(7) \in Nat /\ HEADER_LENGTH = Offset(7)
<1>0. Widths \in [1..6 -> Nat]
  BY HeaderAssumption DEF NFields
<1>1. PICK v : IsTable(v, 1, Widths, 6)
  BY <1>0, TableExists
<1>2. /\ \A i \in 0..6 : v[i] \in Nat
      /\ v[0] = 0
      /\ \A i \in 1..6 : v[i] = v[i - 1] + Widths[i]
  <2>1. \A k \in Nat : k * 1 = k
    OBVIOUS
  <2>2. \A i \in 1..6 : i - 1 \in 0..6
    OBVIOUS
  <2> QED
    BY <1>1, <2>1, <2>2 DEF IsTable
<1>3. ASSUME NEW f \in 1..7 PROVE Offset(f) = v[f - 1]
  <2> DEFINE Step(g, i) == IF i = 1 THEN 0 ELSE g[i - 1] + Widths[i - 1]
             w == CHOOSE g : g = [i \in 1..f |-> Step(g, i)]
             r == [i \in 1..f |-> v[i - 1]]
  <2>1. ASSUME NEW i \in 1..f PROVE r[i] = Step(r, i)
    <3>1. CASE i = 1
      BY <1>2, <3>1
    <3>2. CASE i # 1
      <4>1. i - 1 \in 1..f /\ i - 1 \in 1..6
        BY <3>2
      <4>2. r[i] = v[i - 1] /\ r[i - 1] = v[(i - 1) - 1]
        BY <4>1
      <4>3. v[i - 1] = v[(i - 1) - 1] + Widths[i - 1]
        BY <1>2, <4>1
      <4> QED
        BY <3>2, <4>2, <4>3
    <3> QED
      BY <3>1, <3>2
  <2>2. r = [i \in 1..f |-> Step(r, i)]
    <3>1. r = [i \in 1..f |-> r[i]]
      OBVIOUS
    <3> HIDE DEF r
    <3> QED
      BY <2>1, <3>1
  <2> HIDE DEF r
  <2>3. w = [i \in 1..f |-> Step(w, i)]
    BY <2>2
  <2>4. Offset(f) = w[f]
    BY DEF Offset
  <2> HIDE DEF w
  <2> DEFINE S == {m \in Nat : m < f => w[m + 1] = v[m]}
  <2>5. 0 \in S
    BY <1>2, <2>3
  <2>6. ASSUME NEW m \in Nat, m \in S
        PROVE  m + 1 \in S
    <3> SUFFICES ASSUME m + 1 < f PROVE w[(m + 1) + 1] = v[m + 1]
      OBVIOUS
    <3>1. /\ (m + 1) + 1 \in 1..f /\ (m + 1) + 1 # 1 /\ m + 1 \in 1..6
          /\ ((m + 1) + 1) - 1 = m + 1 /\ (m + 1) - 1 = m /\ w[m + 1] = v[m]
      BY <2>6
    <3>2. w[(m + 1) + 1] = w[m + 1] + Widths[m + 1]
      BY <2>3, <3>1
    <3>3. v[m + 1] = v[m] + Widths[m + 1]
      BY <1>2, <3>1
    <3> QED
      BY <3>1, <3>2, <3>3
  <2> HIDE DEF S
  <2>7. Nat \subseteq S
    BY <2>5, <2>6, SetInduction
  <2>8. f - 1 \in S /\ f - 1 < f /\ (f - 1) + 1 = f
    BY <2>7
  <2> QED
    BY <2>4, <2>8 DEF S
<1>4. Offset(1) = 0
  BY <1>2, <1>3
<1>5. ASSUME NEW f \in 1..6
      PROVE  Offset(f) \in Nat /\ Offset(f + 1) = Offset(f) + Widths[f]
  <2>1. f \in 1..7 /\ f + 1 \in 1..7 /\ f - 1 \in 0..6 /\ (f + 1) - 1 = f
    OBVIOUS
  <2> QED
    BY <1>2, <1>3, <2>1
<1>6. Offset(7) \in Nat /\ HEADER_LENGTH = Offset(7)
  <2>1. 7 \in 1..7 /\ 7 - 1 \in 0..6 /\ NFields + 1 = 7
    BY DEF NFields
  <2> QED
    BY <1>2, <1>3, <2>1 DEF HEADER_LENGTH
<1> QED
  BY <1>4, <1>5, <1>6

(* HEADER_LENGTH and the widths.                                           *)
LEMMA HeaderLength ==
  /\ HEADER_LENGTH \in Nat \ {0}
  /\ Offset(6) \in Nat /\ HEADER_LENGTH = Offset(6) + Widths[6]
  /\ \A f \in 1..6 : Widths[f] \in Nat \ {0} /\ Widths[f] > 0
<1>1. \A f \in 1..6 : Widths[f] \in Nat \ {0}
  BY HeaderAssumption DEF NFields
<1>2. 6 \in 1..6 /\ 6 + 1 = 7
  OBVIOUS
<1>3. /\ Offset(6) \in Nat /\ Offset(7) = Offset(6) + Widths[6]
      /\ HEADER_LENGTH = Offset(7) /\ Widths[6] \in Nat \ {0}
  BY <1>1, <1>2, OffsetIs
<1> QED
  BY <1>1, <1>3

\* what header_add writes, and a whole message
HeaderBytes(count, tm, addr, port) ==
  Marshal(count, Widths[1]) \o Marshal(tm, Widths[2]) \o Marshal(addr, Widths[3])
    \o Marshal(port, Widths[4]) \o Marshal(Site, Widths[5])

MessageOf(count, tm, addr, port, body) ==
  HeaderBytes(count, tm, addr, port) \o Marshal(0, Widths[6]) \o body

(* Each field of a message is at its offset.                               *)
LEMMA Layout ==
  ASSUME NEW count \in Nat, NEW tm \in Nat, NEW addr \in Nat, NEW port \in Nat,
         NEW body \in Seq(Byte),
         NEW h, h = HeaderBytes(count, tm, addr, port),
         NEW m, m = MessageOf(count, tm, addr, port, body)
  PROVE  /\ h \in Seq(Byte) /\ Len(h) = Offset(6)
         /\ m \in Seq(Byte) /\ Len(m) = HEADER_LENGTH + Len(body)
         /\ Occurs(Marshal(count, Widths[1]), m, Offset(1))
         /\ Occurs(Marshal(tm, Widths[2]), m, Offset(2))
         /\ Occurs(Marshal(addr, Widths[3]), m, Offset(3))
         /\ Occurs(Marshal(port, Widths[4]), m, Offset(4))
         /\ Occurs(Marshal(Site, Widths[5]), m, Offset(5))
         /\ Occurs(Marshal(0, Widths[6]), m, Offset(6))
         /\ Occurs(body, m, HEADER_LENGTH)
         /\ Occurs(h, m, 0)
<1> DEFINE m1 == Marshal(count, Widths[1])
           m2 == Marshal(tm, Widths[2])
           m3 == Marshal(addr, Widths[3])
           m4 == Marshal(port, Widths[4])
           m5 == Marshal(Site, Widths[5])
           m6 == Marshal(0, Widths[6])
           p2 == m1 \o m2
           p3 == p2 \o m3
           p4 == p3 \o m4
           p5 == p4 \o m5
           p6 == p5 \o m6
           p7 == p6 \o body
<1>0. h = p5 /\ m = p7
  BY DEF HeaderBytes, MessageOf
<1>1. \A x, w \in Nat : Marshal(x, w) \in Seq(Byte) /\ Len(Marshal(x, w)) = w
  BY MarshalType
<1>2. Site \in Nat /\ \A f \in 1..6 : Widths[f] \in Nat
  <2>1. 5 \in 1..6 /\ Site \in 0..(Power[Widths[5]] - 1)
    BY HeaderAssumption
  <2>2. \A k \in Nat : 0..(k - 1) \subseteq Nat
    OBVIOUS
  <2>3. \A f \in 1..6 : Widths[f] \in Nat /\ Power[Widths[f]] \in Nat
    BY HeaderLength, PowerIs
  <2> QED
    BY <2>1, <2>2, <2>3, Zenon
<1>3. /\ m1 \in Seq(Byte) /\ Len(m1) = Widths[1] /\ m2 \in Seq(Byte) /\ Len(m2) = Widths[2]
      /\ m3 \in Seq(Byte) /\ Len(m3) = Widths[3] /\ m4 \in Seq(Byte) /\ Len(m4) = Widths[4]
      /\ m5 \in Seq(Byte) /\ Len(m5) = Widths[5] /\ m6 \in Seq(Byte) /\ Len(m6) = Widths[6]
  <2>1. 1 \in 1..6 /\ 2 \in 1..6 /\ 3 \in 1..6 /\ 4 \in 1..6 /\ 5 \in 1..6 /\ 6 \in 1..6
        /\ 0 \in Nat
    OBVIOUS
  <2> QED
    BY <1>1, <1>2, <2>1, Zenon
<1>4. /\ Offset(1) = 0 /\ Offset(2) = Offset(1) + Widths[1]
      /\ Offset(3) = Offset(2) + Widths[2] /\ Offset(4) = Offset(3) + Widths[3]
      /\ Offset(5) = Offset(4) + Widths[4] /\ Offset(6) = Offset(5) + Widths[5]
      /\ HEADER_LENGTH = Offset(6) + Widths[6]
      /\ Widths[1] \in Nat
      /\ \A f \in 1..6 : Offset(f) \in Nat
  <2>1. /\ 1 \in 1..6 /\ 2 \in 1..6 /\ 3 \in 1..6 /\ 4 \in 1..6 /\ 5 \in 1..6 /\ 6 \in 1..6
        /\ 1 + 1 = 2 /\ 2 + 1 = 3 /\ 3 + 1 = 4 /\ 4 + 1 = 5 /\ 5 + 1 = 6 /\ 6 + 1 = 7
    OBVIOUS
  <2> QED
    BY <1>2, <2>1, OffsetIs
<1>5. /\ Offset(2) \in Nat /\ Offset(3) \in Nat /\ Offset(4) \in Nat /\ Offset(5) \in Nat
      /\ Offset(6) \in Nat /\ HEADER_LENGTH \in Nat /\ Len(m1) = Offset(2) /\ 0 \in Nat
  <2>1. 2 \in 1..6 /\ 3 \in 1..6 /\ 4 \in 1..6 /\ 5 \in 1..6 /\ 6 \in 1..6
    OBVIOUS
  <2>2. 0 + Widths[1] = Widths[1]
    BY <1>4
  <2> QED
    BY <1>3, <1>4, <2>1, <2>2, HeaderLength, Zenon
<1> HIDE DEF m1, m2, m3, m4, m5, m6
<1>6. Occurs(m1, m1, 0)
  BY <1>3, OccursSelf, Zenon
<1>7. /\ p2 \in Seq(Byte) /\ Len(p2) = Offset(3)
      /\ Occurs(m1, p2, 0) /\ Occurs(m2, p2, Offset(2))
  <2>1. /\ p2 \in Seq(Byte) /\ Len(p2) = Len(m1) + Len(m2)
        /\ Occurs(m2, p2, Len(m1))
        /\ \A u \in Seq(Byte), off \in Nat : Occurs(u, m1, off) => Occurs(u, p2, off)
    BY <1>3, OccursConcat
  <2> HIDE DEF p2
  <2> QED
    BY <1>3, <1>4, <1>5, <1>6, <2>1
<1> HIDE DEF p2
<1>8. /\ p3 \in Seq(Byte) /\ Len(p3) = Offset(4)
      /\ Occurs(m1, p3, 0) /\ Occurs(m2, p3, Offset(2)) /\ Occurs(m3, p3, Offset(3))
  <2>1. /\ p3 \in Seq(Byte) /\ Len(p3) = Len(p2) + Len(m3)
        /\ Occurs(m3, p3, Len(p2))
        /\ \A u \in Seq(Byte), off \in Nat : Occurs(u, p2, off) => Occurs(u, p3, off)
    BY <1>3, <1>7, OccursConcat
  <2> HIDE DEF p3
  <2> QED
    BY <1>3, <1>4, <1>5, <1>7, <2>1
<1> HIDE DEF p3
<1>9. /\ p4 \in Seq(Byte) /\ Len(p4) = Offset(5)
      /\ Occurs(m1, p4, 0) /\ Occurs(m2, p4, Offset(2)) /\ Occurs(m3, p4, Offset(3))
      /\ Occurs(m4, p4, Offset(4))
  <2>1. /\ p4 \in Seq(Byte) /\ Len(p4) = Len(p3) + Len(m4)
        /\ Occurs(m4, p4, Len(p3))
        /\ \A u \in Seq(Byte), off \in Nat : Occurs(u, p3, off) => Occurs(u, p4, off)
    BY <1>3, <1>8, OccursConcat
  <2> HIDE DEF p4
  <2> QED
    BY <1>3, <1>4, <1>5, <1>8, <2>1
<1> HIDE DEF p4
<1>10. /\ p5 \in Seq(Byte) /\ Len(p5) = Offset(6)
       /\ Occurs(m1, p5, 0) /\ Occurs(m2, p5, Offset(2)) /\ Occurs(m3, p5, Offset(3))
       /\ Occurs(m4, p5, Offset(4)) /\ Occurs(m5, p5, Offset(5))
  <2>1. /\ p5 \in Seq(Byte) /\ Len(p5) = Len(p4) + Len(m5)
        /\ Occurs(m5, p5, Len(p4))
        /\ \A u \in Seq(Byte), off \in Nat : Occurs(u, p4, off) => Occurs(u, p5, off)
    BY <1>3, <1>9, OccursConcat
  <2> HIDE DEF p5
  <2> QED
    BY <1>3, <1>4, <1>5, <1>9, <2>1
<1> HIDE DEF p5
<1>11. Occurs(p5, p5, 0)
  BY <1>10, OccursSelf, Zenon
<1>12. /\ p6 \in Seq(Byte) /\ Len(p6) = HEADER_LENGTH
       /\ Occurs(m1, p6, 0) /\ Occurs(m2, p6, Offset(2)) /\ Occurs(m3, p6, Offset(3))
       /\ Occurs(m4, p6, Offset(4)) /\ Occurs(m5, p6, Offset(5))
       /\ Occurs(m6, p6, Offset(6)) /\ Occurs(p5, p6, 0)
  <2>1. /\ p6 \in Seq(Byte) /\ Len(p6) = Len(p5) + Len(m6)
        /\ Occurs(m6, p6, Len(p5))
        /\ \A u \in Seq(Byte), off \in Nat : Occurs(u, p5, off) => Occurs(u, p6, off)
    BY <1>3, <1>10, OccursConcat
  <2> HIDE DEF p6
  <2> QED
    BY <1>3, <1>4, <1>5, <1>10, <1>11, <2>1
<1> HIDE DEF p6
<1>13. /\ p7 \in Seq(Byte) /\ Len(p7) = HEADER_LENGTH + Len(body)
       /\ Occurs(m1, p7, 0) /\ Occurs(m2, p7, Offset(2)) /\ Occurs(m3, p7, Offset(3))
       /\ Occurs(m4, p7, Offset(4)) /\ Occurs(m5, p7, Offset(5))
       /\ Occurs(m6, p7, Offset(6)) /\ Occurs(p5, p7, 0)
       /\ Occurs(body, p7, HEADER_LENGTH)
  <2>1. /\ p7 \in Seq(Byte) /\ Len(p7) = Len(p6) + Len(body)
        /\ Occurs(body, p7, Len(p6))
        /\ \A u \in Seq(Byte), off \in Nat : Occurs(u, p6, off) => Occurs(u, p7, off)
    BY <1>12, OccursConcat
  <2> HIDE DEF p7
  <2> QED
    BY <1>3, <1>5, <1>10, <1>12, <2>1
<1> HIDE DEF p7
<1> QED
  BY <1>0, <1>4, <1>10, <1>13, Zenon DEF m1, m2, m3, m4, m5, m6

(* A field is read as it was written.                                      *)
LEMMA FieldIs ==
  ASSUME NEW h \in Seq(Byte), NEW f \in 1..6, NEW x \in Nat, x < Power[Widths[f]],
         Occurs(Marshal(x, Widths[f]), h, Offset(f))
  PROVE  Field(h, f) = x
<1>1. Widths[f] \in Nat /\ Offset(f) \in Nat /\ Offset(f + 1) = Offset(f) + Widths[f]
  BY HeaderLength, OffsetIs
<1>2. Marshal(x, Widths[f]) \in Seq(Byte) /\ Len(Marshal(x, Widths[f])) = Widths[f]
  BY <1>1, MarshalType
<1>3. SubSeq(h, Offset(f) + 1, Offset(f + 1)) = Marshal(x, Widths[f])
  BY <1>1, <1>2, OccursSub, Zenon
<1> QED
  BY <1>1, <1>3, UnmarshalMarshal, Zenon DEF Field

(* Turned twice, bytes are in their order again.                           *)
LEMMA ReverseTwice ==
  ASSUME NEW n \in Nat, NEW s \in [1..n -> Byte]
  PROVE  Reverse(s) \in [1..n -> Byte] /\ Reverse(Reverse(s)) = s
<1>1. \A t \in [1..n -> Byte] :
        Reverse(t) \in [1..n -> Byte] /\ \A i \in 1..n : Reverse(t)[i] = t[n - i + 1]
  <2>1. \A t \in [1..n -> Byte] : Len(t) = n
    OBVIOUS
  <2> QED
    BY <2>1 DEF Reverse
<1>2. PICK r \in [1..n -> Byte] : r = Reverse(s) /\ \A i \in 1..n : r[i] = s[n - i + 1]
  BY <1>1
<1>3. PICK t \in [1..n -> Byte] : t = Reverse(r) /\ \A i \in 1..n : t[i] = r[n - i + 1]
  BY <1>1
<1>4. ASSUME NEW i \in 1..n PROVE t[i] = s[i]
  <2>1. n - i + 1 \in 1..n /\ n - (n - i + 1) + 1 = i
    OBVIOUS
  <2>2. t[i] = r[n - i + 1] /\ r[n - i + 1] = s[n - (n - i + 1) + 1]
    BY <1>2, <1>3, <2>1, Zenon
  <2> QED
    BY <2>1, <2>2
<1>5. t = s
  BY <1>4
<1> QED
  BY <1>2, <1>3, <1>5

(* The address fits its field and is printed as it came.                   *)
LEMMA AddressIs ==
  ASSUME NEW addr \in [1..Widths[3] -> Byte]
  PROVE  /\ HostLong(addr) \in Nat /\ HostLong(addr) < Power[Widths[3]]
         /\ InetNtoa(HostLong(addr)) = addr
<1>1. Widths[3] \in Nat /\ Len(addr) = Widths[3]
  BY HeaderLength
<1> DEFINE n == Widths[3]
           q == IF LittleEndian THEN Reverse(addr) ELSE addr
<1>2. Reverse(addr) \in [1..n -> Byte]
  BY <1>1, ReverseTwice
<1>3. q \in [1..n -> Byte]
  BY <1>2
<1>4. /\ HostLong(addr) = Unmarshal(q) /\ Unmarshal(q) \in Nat
      /\ Unmarshal(q) < Power[n] /\ Marshal(Unmarshal(q), n) = q
  BY <1>1, <1>3, MarshalUnmarshal DEF HostLong
<1>5. Reverse(Reverse(addr)) = addr
  BY <1>1, ReverseTwice
<1>6. InetNtoa(HostLong(addr)) = IF LittleEndian THEN Reverse(q) ELSE q
  BY <1>4 DEF InetNtoa
<1> QED
  BY <1>4, <1>5, <1>6

-----------------------------------------------------------------------------
(* Packets and buffers *)

Packets == [body: Datagrams \cup {RotateEvent}, time: Times, addr: Addrs,
            port: Ports, site: {Site}]

Message(g) == MessageOf(Len(g.body), g.time, HostLong(g.addr), g.port, g.body)

BufferSize == HEADER_LENGTH + MaxBody

(* The sizes of the buffers.                                               *)
LEMMA SizeTypes ==
  /\ MaxBody \in Nat /\ BufferSize \in Nat /\ Buffer = [1..BufferSize -> Byte]
  /\ ClearedBody \in Nat /\ ClearedBody <= MaxBody /\ 0 \in Byte
<1>1. /\ MaxBody \in Nat /\ Len(DepthName) <= MaxBody
      /\ ClearedBody \in Len(RotateName)..Len(DepthName)
      /\ RotateName \in Seq(Byte \ {0}) /\ DepthName \in Seq(Byte \ {0})
  BY HeaderAssumption
<1>2. Len(RotateName) \in Nat /\ Len(DepthName) \in Nat
  BY <1>1
<1> QED
  <2>1. 0 \in Byte
    BY BaseType DEF Byte
  <2>2. ClearedBody \in Nat /\ ClearedBody <= MaxBody
    BY <1>1, <1>2
  <2>3. \A a, b \in Nat : a + b \in Nat
    OBVIOUS
  <2>4. BufferSize \in Nat /\ Buffer = [1..BufferSize -> Byte]
    BY <1>1, <2>3, HeaderLength, Zenon DEF BufferSize, Buffer
  <2> QED
    BY <1>1, <2>1, <2>2, <2>4

(* What a packet received is, and its message.                             *)
LEMMA PacketType ==
  ASSUME NEW g \in Packets
  PROVE  /\ g.body \in Seq(Byte) /\ Len(g.body) \in 0..MaxBody
         /\ Len(g.body) < Power[Widths[1]]
         /\ g.time \in Nat /\ g.time < Power[Widths[2]]
         /\ g.addr \in [1..Widths[3] -> Byte]
         /\ HostLong(g.addr) \in Nat /\ HostLong(g.addr) < Power[Widths[3]]
         /\ g.port \in Nat /\ g.port < Power[Widths[4]]
         /\ g.site = Site /\ Site \in Nat /\ Site < Power[Widths[5]]
         /\ Message(g) \in Seq(Byte) /\ Len(Message(g)) = HEADER_LENGTH + Len(g.body)
<1>1. /\ g.body \in Datagrams \cup {RotateEvent} /\ g.time \in Times /\ g.addr \in Addrs
      /\ g.port \in Ports /\ g.site = Site
  BY DEF Packets
<1>2. /\ g.body \in Seq(Byte) /\ Len(g.body) <= MaxBody /\ Len(g.body) < Power[Widths[1]]
      /\ g.time \in 0..(Power[Widths[2]] - 1) /\ g.addr \in [1..Widths[3] -> Byte]
      /\ g.port \in 0..(Power[Widths[4]] - 1) /\ Site \in 0..(Power[Widths[5]] - 1)
  BY <1>1, HeaderAssumption
<1>3. Power[Widths[2]] \in Nat /\ Power[Widths[4]] \in Nat /\ Power[Widths[5]] \in Nat
  <2>1. 2 \in 1..6 /\ 4 \in 1..6 /\ 5 \in 1..6
    OBVIOUS
  <2> QED
    BY <2>1, HeaderLength, PowerIs, Zenon
<1>4. \A k \in Nat : \A x \in 0..(k - 1) : x \in Nat /\ x < k
  OBVIOUS
<1>5. Len(g.body) \in 0..MaxBody
  BY <1>2, SizeTypes
<1>6. HostLong(g.addr) \in Nat /\ HostLong(g.addr) < Power[Widths[3]]
  BY <1>2, AddressIs
<1>7. g.time \in Nat /\ g.port \in Nat /\ Len(g.body) \in Nat
  <2>1. g.time \in Nat /\ g.port \in Nat
    BY <1>2, <1>3, <1>4, Zenon
  <2> QED
    BY <1>2, <2>1
<1>8. Message(g) \in Seq(Byte) /\ Len(Message(g)) = HEADER_LENGTH + Len(g.body)
  <2>1. PICK count \in Nat, tm \in Nat, addr \in Nat, port \in Nat, body \in Seq(Byte) :
          /\ count = Len(g.body) /\ tm = g.time /\ addr = HostLong(g.addr)
          /\ port = g.port /\ body = g.body
    BY <1>2, <1>6, <1>7, Zenon
  <2>2. PICK h, m : h = HeaderBytes(count, tm, addr, port) /\ m = Message(g)
    OBVIOUS
  <2>3. m = MessageOf(count, tm, addr, port, body)
    BY <2>1, <2>2, Zenon DEF Message
  <2>4. m \in Seq(Byte)
    BY <2>3, Layout
  <2>5. Len(m) = HEADER_LENGTH + Len(body)
    BY <2>3, Layout
  <2> QED
    BY <2>1, <2>2, <2>4, <2>5, Zenon
<1> QED
  BY <1>1, <1>2, <1>3, <1>4, <1>5, <1>6, <1>8, Zenon

(* memcpy into a buffer.                                                   *)
LEMMA PutIs ==
  ASSUME NEW buf \in Buffer, NEW off \in Nat, NEW bytes \in Seq(Byte)
  PROVE  /\ Put(buf, off, bytes) \in Buffer
         /\ \A i \in 1..BufferSize :
              Put(buf, off, bytes)[i]
                = IF i - off \in 1..Len(bytes) THEN bytes[i - off] ELSE buf[i]
<1>1. DOMAIN buf = 1..BufferSize /\ DOMAIN bytes = 1..Len(bytes)
  BY SizeTypes
<1>2. \A i \in 1..BufferSize : buf[i] \in Byte
  BY SizeTypes
<1>3. \A i \in 1..Len(bytes) : bytes[i] \in Byte
  OBVIOUS
<1> QED
  BY <1>1, <1>2, <1>3, SizeTypes DEF Put

(* memset on a buffer.                                                     *)
LEMMA ClearIs ==
  ASSUME NEW buf \in Buffer
  PROVE  /\ Clear(buf) \in Buffer
         /\ \A i \in 1..BufferSize :
              Clear(buf)[i] = IF i <= HEADER_LENGTH + ClearedBody THEN 0 ELSE buf[i]
<1>1. DOMAIN buf = 1..BufferSize /\ \A i \in 1..BufferSize : buf[i] \in Byte
  BY SizeTypes
<1> QED
  BY <1>1, SizeTypes DEF Clear

\* behind the size bytes of a packet what was cleared is still zero
Clean(buf, size) ==
  \A i \in 1..(HEADER_LENGTH + ClearedBody) : i > HEADER_LENGTH + size => buf[i] = 0

(* The bytes that the enqueuer sends are the message of the packet.        *)
LEMMA EnqueuerWrites ==
  ASSUME NEW buf \in Buffer, NEW g \in Packets
  PROVE  LET new == HeaderAdd(Put(Clear(buf), HEADER_LENGTH, g.body),
                              Len(g.body), g.time, HostLong(g.addr), g.port)
         IN  /\ new \in Buffer
             /\ Clean(new, Len(g.body))
             /\ SubSeq(new, 1, Len(g.body) + HEADER_LENGTH) = Message(g)
<1> DEFINE body == g.body
           HL == HEADER_LENGTH
           h == HeaderBytes(Len(body), g.time, HostLong(g.addr), g.port)
           m == Message(g)
           z == Marshal(0, Widths[6])
           b1 == Put(Clear(buf), HL, body)
           new == Put(b1, 0, h)
<1>1. /\ body \in Seq(Byte) /\ Len(body) \in 0..MaxBody /\ g.time \in Nat
      /\ HostLong(g.addr) \in Nat /\ g.port \in Nat
      /\ m \in Seq(Byte) /\ Len(m) = HL + Len(body)
  BY PacketType
<1>2. /\ h \in Seq(Byte) /\ Len(h) = Offset(6)
      /\ Occurs(h, m, 0) /\ Occurs(z, m, Offset(6)) /\ Occurs(body, m, HL)
  <2>1. Len(body) \in Nat
    BY <1>1
  <2> QED
    <3>1. PICK count \in Nat, tm \in Nat, addr \in Nat, port \in Nat, bd \in Seq(Byte) :
            /\ count = Len(body) /\ tm = g.time /\ addr = HostLong(g.addr)
            /\ port = g.port /\ bd = body
      BY <1>1, <2>1, Zenon
    <3>2. h = HeaderBytes(count, tm, addr, port) /\ m = MessageOf(count, tm, addr, port, bd)
      BY <3>1, Zenon DEF Message
    <3> HIDE DEF h, m
    <3>3. h \in Seq(Byte)
      BY <3>2, Layout
    <3>4. Len(h) = Offset(6)
      BY <3>2, Layout
    <3>5. Occurs(h, m, 0) /\ Occurs(z, m, Offset(6)) /\ Occurs(bd, m, HL)
      BY <3>2, Layout, Zenon
    <3> QED
      BY <3>1, <3>3, <3>4, <3>5, Zenon
<1>3. HeaderAdd(b1, Len(body), g.time, HostLong(g.addr), g.port) = new
  BY DEF HeaderAdd, HeaderBytes
<1>4. /\ HL \in Nat \ {0} /\ Offset(6) \in Nat /\ Widths[6] \in Nat
      /\ HL = Offset(6) + Widths[6]
  BY HeaderLength
<1>5. Clear(buf) \in Buffer
      /\ \A i \in 1..BufferSize :
           Clear(buf)[i] = IF i <= HL + ClearedBody THEN 0 ELSE buf[i]
  BY ClearIs
<1>6. b1 \in Buffer
      /\ \A i \in 1..BufferSize :
           b1[i] = IF i - HL \in 1..Len(body) THEN body[i - HL] ELSE Clear(buf)[i]
  <2>1. PICK c \in Buffer : c = Clear(buf)
    BY <1>5
  <2>2. HL \in Nat /\ body \in Seq(Byte)
    BY <1>1, <1>4
  <2> HIDE DEF HL, body
  <2>3. /\ Put(c, HL, body) \in Buffer
        /\ \A i \in 1..BufferSize :
             Put(c, HL, body)[i] = IF i - HL \in 1..Len(body) THEN body[i - HL] ELSE c[i]
    BY <2>2, PutIs
  <2> QED
    BY <2>1, <2>3, Zenon DEF b1
<1> HIDE DEF b1, h, m, HL, body, z
<1>7. new \in Buffer
      /\ \A i \in 1..BufferSize : new[i] = IF i - 0 \in 1..Len(h) THEN h[i - 0] ELSE b1[i]
  BY <1>2, <1>6, PutIs
<1> HIDE DEF new
<1>8. /\ BufferSize = HL + MaxBody /\ MaxBody \in Nat /\ ClearedBody \in Nat
      /\ ClearedBody <= MaxBody /\ BufferSize \in Nat
  BY SizeTypes DEF BufferSize, HL
<1>9. /\ HL \in Nat /\ ClearedBody \in Nat /\ BufferSize \in Nat
       /\ Len(h) \in Nat /\ Len(body) \in Nat /\ Len(h) <= HL
       /\ HL + ClearedBody <= BufferSize /\ HL + Len(body) <= BufferSize
  <2>1. Len(body) \in Nat /\ Len(body) <= MaxBody
    BY <1>1, <1>8
  <2>2. Offset(6) <= HL
    BY <1>4
  <2> QED
    BY <1>2, <1>4, <1>8, <2>1, <2>2
<1>10. Clean(new, Len(body))
  <2> SUFFICES ASSUME NEW i \in 1..(HL + ClearedBody), i > HL + Len(body)
               PROVE  new[i] = 0
    BY DEF Clean, HL
  <2>1. /\ i \in 1..BufferSize /\ ~(i - 0 \in 1..Len(h)) /\ ~(i - HL \in 1..Len(body))
        /\ i <= HL + ClearedBody
    BY <1>9
  <2> QED
    BY <1>5, <1>6, <1>7, <2>1, Zenon
<1>11. \A k \in 1..Widths[6] : z[k] = 0
  <2>1. z = [i \in 1..Widths[6] |-> (0 \div Power[Widths[6] - i]) % Base]
    BY DEF Marshal, z
  <2>2. ASSUME NEW k \in 1..Widths[6] PROVE (0 \div Power[Widths[6] - k]) % Base = 0
    <3>1. Widths[6] - k \in Nat
      BY <1>4
    <3>2. PICK p \in Nat \ {0} : p = Power[Widths[6] - k]
      BY <3>1, PowerIs
    <3>3. (p * 0 + 0) \div p = 0 /\ p * 0 + 0 = 0
      BY DivUnique
    <3>4. (Base * 0 + 0) % Base = 0 /\ Base * 0 + 0 = 0
      BY BaseType, DivUnique
    <3> QED
      BY <3>2, <3>3, <3>4
  <2> QED
    BY <2>1, <2>2
<1>12. ASSUME NEW i \in 1..(HL + Len(body)) PROVE new[i] = m[i]
  <2>0. i \in 1..BufferSize
    BY <1>9
  <2>1. CASE i <= Offset(6)
    <3>1. i - 0 \in 1..Len(h) /\ i - 0 = i /\ i \in 1..Len(h) /\ 0 + i = i
      BY <1>2, <1>4, <2>1
    <3>2. new[i] = h[i] /\ m[0 + i] = h[i]
      BY <1>2, <1>7, <2>0, <3>1 DEF Occurs
    <3> QED
      BY <3>1, <3>2
  <2>2. CASE Offset(6) < i /\ i <= HL
    <3>1. PICK k \in 1..Widths[6] : i = Offset(6) + k
      <4>1. i - Offset(6) \in 1..Widths[6] /\ i = Offset(6) + (i - Offset(6))
        BY <1>4, <2>2
      <4> QED
        BY <4>1
    <3>2. ~(i - 0 \in 1..Len(h)) /\ ~(i - HL \in 1..Len(body)) /\ i <= HL + ClearedBody
      BY <1>2, <1>9, <2>2
    <3>3. new[i] = 0
      BY <1>5, <1>6, <1>7, <2>0, <3>2, Zenon
    <3>4. Len(z) = Widths[6]
      BY <1>4 DEF Marshal, z
    <3>5. m[Offset(6) + k] = z[k]
      BY <1>2, <3>4 DEF Occurs
    <3> QED
      BY <1>11, <3>1, <3>3, <3>5
  <2>3. CASE HL < i
    <3>1. PICK k \in 1..Len(body) : i = HL + k
      <4>1. i - HL \in 1..Len(body) /\ i = HL + (i - HL)
        BY <1>9, <2>3
      <4> QED
        BY <4>1
    <3>2. ~(i - 0 \in 1..Len(h)) /\ i - HL \in 1..Len(body) /\ i - HL = k
      BY <1>9, <3>1
    <3>3. new[i] = body[k]
      BY <1>6, <1>7, <2>0, <3>2, Zenon
    <3>4. m[HL + k] = body[k]
      BY <1>2 DEF Occurs
    <3> QED
      BY <3>1, <3>3, <3>4
  <2> QED
    BY <1>1, <1>4, <2>1, <2>2, <2>3
<1>13. SubSeq(new, 1, Len(body) + HL) = m
  <2>1. new \in Seq(Byte) /\ Len(new) = BufferSize
    BY <1>7, <1>8, SizeTypes
  <2>2. Occurs(m, new, 0)
    <3>1. \A k \in 1..Len(m) : new[0 + k] = m[k]
      BY <1>1, <1>4, <1>12
    <3> QED
      BY <1>1, <1>4, <1>8, <2>1, <3>1 DEF Occurs
  <2>3. SubSeq(new, 0 + 1, 0 + Len(m)) = m
    BY <1>1, <2>1, <2>2, OccursSub
  <2>4. 0 + 1 = 1 /\ 0 + Len(m) = Len(body) + HL
    BY <1>1, <1>4
  <2> QED
    BY <2>3, <2>4
<1> QED
  BY <1>3, <1>7, <1>10, <1>13 DEF HL, body, b1, m

(* The dequeuer's buffer gets the message it took, and writes it.          *)
LEMMA DequeuerWrites ==
  ASSUME NEW buf \in Buffer, NEW m \in Seq(Byte), NEW n \in 0..MaxBody,
         Len(m) = HEADER_LENGTH + n,
         NEW new, new = Put(Clear(buf), 0, m)
  PROVE  /\ new \in Buffer
         /\ Clean(new, n)
         /\ SubSeq(new, 1, Len(m)) = m
<1>1. /\ HEADER_LENGTH \in Nat /\ MaxBody \in Nat /\ ClearedBody \in Nat
      /\ ClearedBody <= MaxBody /\ BufferSize = HEADER_LENGTH + MaxBody
  BY HeaderLength, SizeTypes DEF BufferSize
<1>2. /\ Clear(buf) \in Buffer
      /\ \A i \in 1..BufferSize :
           Clear(buf)[i] = IF i <= HEADER_LENGTH + ClearedBody THEN 0 ELSE buf[i]
  BY ClearIs
<1>3. new \in Buffer
      /\ \A i \in 1..BufferSize :
           new[i] = IF i - 0 \in 1..Len(m) THEN m[i - 0] ELSE Clear(buf)[i]
  BY <1>2, PutIs
<1>4. Clean(new, n)
  <2> SUFFICES ASSUME NEW i \in 1..(HEADER_LENGTH + ClearedBody), i > HEADER_LENGTH + n
               PROVE  new[i] = 0
    BY DEF Clean
  <2>1. i \in 1..BufferSize /\ ~(i - 0 \in 1..Len(m)) /\ i <= HEADER_LENGTH + ClearedBody
    BY <1>1
  <2> QED
    BY <1>2, <1>3, <2>1, Zenon
<1>5. new \in Seq(Byte) /\ Len(new) = BufferSize
  BY <1>1, <1>3, SizeTypes
<1>6. Occurs(m, new, 0)
  <2>1. ASSUME NEW k \in 1..Len(m) PROVE new[0 + k] = m[k]
    <3>1. k \in 1..BufferSize /\ k - 0 = k /\ 0 + k = k
      BY <1>1
    <3> QED
      BY <1>3, <3>1
  <2> QED
    BY <1>1, <1>5, <2>1 DEF Occurs
<1>7. SubSeq(new, 0 + 1, 0 + Len(m)) = m
  BY <1>5, <1>6, OccursSub
<1>8. 0 + 1 = 1 /\ 0 + Len(m) = Len(m)
  OBVIOUS
<1> QED
  BY <1>3, <1>4, <1>7, <1>8

-----------------------------------------------------------------------------
(* The invariant *)

BufferInv ==
  /\ ebuf \in Buffer /\ eret \in {INTR} \cup 0..MaxBody
  /\ Clean(ebuf, eret)
  /\ dbuf \in Buffer
  /\ dret \in {INTR} \cup HEADER_LENGTH..(HEADER_LENGTH + MaxBody)
  /\ Clean(dbuf, dret - HEADER_LENGTH)

\* the messages in the queue are those of the packets received last
QueueInv ==
  /\ got \in Seq(Packets)
  /\ queue \in Seq(Seq(Byte))
  /\ Len(queue) <= Len(got)
  /\ \A i \in 1..Len(queue) : queue[i] = Message(got[Len(got) - Len(queue) + i])

\* cut has the ends of the first n messages of g, which make up j
Cuts(cut, n, g, j) ==
  /\ cut \in [0..n -> Nat] /\ cut[0] = 0 /\ cut[n] = Len(j)
  /\ \A i \in 1..n : /\ cut[i] = cut[i - 1] + Len(Message(g[i]))
                     /\ Occurs(Message(g[i]), j, cut[i - 1])

\* the journal has the others, and is read from message to message
JournalInv ==
  /\ journal \in Seq(Byte)
  /\ parsed \in Seq(Packets)
  /\ Len(parsed) <= Len(got) - Len(queue)
  /\ \A i \in 1..Len(parsed) : parsed[i] = got[i]
  /\ \E cut : /\ Cuts(cut, Len(got) - Len(queue), got, journal)
              /\ pos = cut[Len(parsed)]

HeaderInv == BufferInv /\ QueueInv /\ JournalInv

(* The invariant holds of empty buffers and an empty queue and journal.    *)
LEMMA HeaderInit == Init => HeaderInv
<1> SUFFICES ASSUME Init PROVE HeaderInv
  OBVIOUS
<1>1. BufferInv
  <2>1. ebuf \in Buffer /\ \A i \in 1..BufferSize : ebuf[i] = 0
    BY SizeTypes DEF Init, BufferSize
  <2>2. \A i \in 1..(HEADER_LENGTH + ClearedBody) : i \in 1..BufferSize
    BY SizeTypes, HeaderLength DEF BufferSize
  <2> QED
    BY <2>1, <2>2 DEF Init, BufferInv, Clean
<1>2. QueueInv
  BY DEF Init, QueueInv
<1>3. JournalInv
  <2>1. Cuts([i \in 0..0 |-> 0], 0, <<>>, <<>>)
    BY DEF Cuts
  <2>2. [i \in 0..0 |-> 0][0] = 0
    OBVIOUS
  <2>3. Len(<<>>) = 0 /\ 0 - 0 = 0
    OBVIOUS
  <2>4. \E cut : Cuts(cut, Len(got) - Len(queue), got, journal) /\ pos = cut[Len(parsed)]
    BY <2>1, <2>2, <2>3, Zenon DEF Init
  <2> QED
    BY <2>3, <2>4 DEF Init, JournalInv
<1> QED
  BY <1>1, <1>2, <1>3 DEF HeaderInv

\* what receiving g does
Receives(g) ==
  /\ ebuf' = HeaderAdd(Put(Clear(ebuf), HEADER_LENGTH, g.body),
                       Len(g.body), g.time, HostLong(g.addr), g.port)
  /\ eret' = Len(g.body)
  /\ queue' = Append(queue, SubSeq(ebuf', 1, Len(g.body) + HEADER_LENGTH))
  /\ got' = Append(got, g)
  /\ UNCHANGED <<dbuf, dret, pos, parsed, journal>>

(* A received packet is one of Packets.                                    *)
LEMMA ReceiveIs ==
  ASSUME NEW body \in Datagrams \cup {RotateEvent}, NEW tm \in Times,
         NEW addr \in Addrs, NEW port \in Ports, Receive(body, tm, addr, port)
  PROVE  \E g \in Packets : Receives(g)
<1> DEFINE g == [body |-> body, time |-> tm, addr |-> addr, port |-> port, site |-> Site]
<1>1. g \in Packets
  BY DEF Packets
<1>2. g.body = body /\ g.time = tm /\ g.addr = addr /\ g.port = port
  OBVIOUS
<1>3. /\ ebuf' = HeaderAdd(Put(Clear(ebuf), HEADER_LENGTH, body),
                           Len(body), tm, HostLong(addr), port)
      /\ eret' = Len(body)
      /\ queue' = Append(queue, SubSeq(ebuf', 1, Len(body) + HEADER_LENGTH))
      /\ got' = Append(got, g)
      /\ UNCHANGED <<dbuf, dret, pos, parsed, journal>>
  BY DEF Receive, dvars, rvars
<1> HIDE DEF g
<1>4. Receives(g)
  BY <1>2, <1>3, Zenon DEF Receives
<1> QED
  BY <1>1, <1>4

(* Receiving puts the message of the packet at the end of the queue.       *)
LEMMA ReceiveKeeps ==
  ASSUME HeaderInv, NEW g \in Packets, Receives(g)
  PROVE  HeaderInv'
<1>1. /\ ebuf' \in Buffer /\ Clean(ebuf', Len(g.body))
      /\ SubSeq(ebuf', 1, Len(g.body) + HEADER_LENGTH) = Message(g)
  <2>1. ebuf \in Buffer
    BY DEF HeaderInv, BufferInv
  <2> QED
    BY <2>1, EnqueuerWrites DEF Receives
<1>2. Len(g.body) \in 0..MaxBody /\ Message(g) \in Seq(Byte)
  BY PacketType
<1>3. BufferInv'
  <2>1. /\ eret' = Len(g.body) /\ dbuf' = dbuf /\ dret' = dret
    BY DEF Receives
  <2>2. BufferInv
    BY DEF HeaderInv
  <2>3. /\ dbuf' \in Buffer /\ dret' \in {INTR} \cup HEADER_LENGTH..(HEADER_LENGTH + MaxBody)
        /\ Clean(dbuf', dret' - HEADER_LENGTH)
    BY <2>1, <2>2, Zenon DEF BufferInv
  <2>4. eret' \in {INTR} \cup 0..MaxBody /\ Clean(ebuf', eret')
    BY <1>1, <1>2, <2>1, Zenon
  <2> QED
    BY <1>1, <2>3, <2>4, Zenon DEF BufferInv
<1> DEFINE n == Len(got)
           k == Len(queue)
<1>4. /\ got \in Seq(Packets) /\ queue \in Seq(Seq(Byte)) /\ k <= n
      /\ n \in Nat /\ k \in Nat
      /\ \A i \in 1..k : queue[i] = Message(got[n - k + i])
  BY DEF HeaderInv, QueueInv
<1>5. /\ queue' = Append(queue, Message(g)) /\ got' = Append(got, g)
      /\ journal' = journal /\ parsed' = parsed /\ pos' = pos
  BY <1>1 DEF Receives
<1>6. /\ got' \in Seq(Packets) /\ Len(got') = n + 1
      /\ \A i \in 1..n : got'[i] = got[i]
      /\ got'[n + 1] = g
  BY <1>4, <1>5
<1>7. /\ queue' \in Seq(Seq(Byte)) /\ Len(queue') = k + 1
      /\ \A i \in 1..k : queue'[i] = queue[i]
      /\ queue'[k + 1] = Message(g)
  BY <1>2, <1>4, <1>5
<1> HIDE DEF n, k
<1>8. QueueInv'
  <2>1. ASSUME NEW i \in 1..(k + 1)
        PROVE  queue'[i] = Message(got'[(n + 1) - (k + 1) + i])
    <3>1. CASE i = k + 1
      <4>1. (n + 1) - (k + 1) + i = n + 1
        BY <1>4, <3>1
      <4> QED
        BY <1>6, <1>7, <3>1, <4>1, Zenon
    <3>2. CASE i # k + 1
      <4>1. i \in 1..k /\ (n + 1) - (k + 1) + i = n - k + i /\ n - k + i \in 1..n
        BY <1>4, <3>2
      <4> QED
        BY <1>4, <1>6, <1>7, <4>1, Zenon
    <3> QED
      BY <3>1, <3>2
  <2>2. k + 1 <= n + 1
    BY <1>4
  <2> QED
    BY <1>6, <1>7, <2>1, <2>2, Zenon DEF QueueInv
<1>9. JournalInv'
  <2>1. JournalInv
    BY DEF HeaderInv
  <2>2. PICK cut : Cuts(cut, n - k, got, journal) /\ pos = cut[Len(parsed)]
    BY <2>1, Zenon DEF JournalInv, n, k
  <2>3. n - k \in Nat /\ \A i \in 1..(n - k) : got'[i] = got[i]
    BY <1>4, <1>6
  <2>4. Cuts(cut, n - k, got', journal')
    BY <1>5, <2>2, <2>3, Zenon DEF Cuts
  <2>5. (n + 1) - (k + 1) = n - k
    BY <1>4
  <2>6. Cuts(cut, Len(got') - Len(queue'), got', journal') /\ pos' = cut[Len(parsed')]
    BY <1>5, <1>6, <1>7, <2>2, <2>4, <2>5, Zenon
  <2>7. /\ journal' \in Seq(Byte) /\ parsed' \in Seq(Packets)
        /\ Len(parsed) \in Nat /\ Len(parsed) <= n - k
        /\ \A i \in 1..Len(parsed) : parsed[i] = got[i]
    BY <1>5, <2>1 DEF JournalInv, n, k
  <2>8. \A i \in 1..Len(parsed') : parsed'[i] = got'[i]
    <3>1. \A i \in 1..Len(parsed) : i \in 1..(n - k)
      BY <2>3, <2>7
    <3> QED
      BY <1>5, <2>3, <2>7, <3>1, Zenon
  <2>9. Len(parsed') <= Len(got') - Len(queue')
    BY <1>5, <1>6, <1>7, <2>5, <2>7, Zenon
  <2> QED
    BY <2>6, <2>7, <2>8, <2>9, Zenon DEF JournalInv
<1> QED
  BY <1>3, <1>8, <1>9 DEF HeaderInv

(* A read that is interrupted leaves a clear buffer.                       *)
LEMMA InterruptedKeeps ==
  ASSUME HeaderInv, ReceiveInterrupted \/ DequeueInterrupted
  PROVE  HeaderInv'
<1>1. /\ HEADER_LENGTH \in Nat /\ MaxBody \in Nat /\ ClearedBody \in Nat
      /\ ClearedBody <= MaxBody /\ BufferSize = HEADER_LENGTH + MaxBody
  BY HeaderLength, SizeTypes DEF BufferSize
<1>2. ASSUME NEW buf \in Buffer, NEW size
      PROVE  Clear(buf) \in Buffer /\ Clean(Clear(buf), size)
  <2>1. \A i \in 1..(HEADER_LENGTH + ClearedBody) :
          i \in 1..BufferSize /\ i <= HEADER_LENGTH + ClearedBody
    BY <1>1
  <2>2. \A i \in 1..(HEADER_LENGTH + ClearedBody) : Clear(buf)[i] = 0
    BY <2>1, ClearIs, Zenon
  <2> QED
    BY <2>2, ClearIs, Zenon DEF Clean
<1>3. BufferInv'
  <2>1. BufferInv
    BY DEF HeaderInv
  <2>2. CASE ReceiveInterrupted
    <3>1. /\ ebuf' = Clear(ebuf) /\ eret' = INTR /\ dbuf' = dbuf /\ dret' = dret
      BY <2>2 DEF ReceiveInterrupted, dvars
    <3>2. ebuf' \in Buffer /\ Clean(ebuf', eret') /\ eret' \in {INTR} \cup 0..MaxBody
      BY <1>2, <2>1, <3>1, Zenon DEF BufferInv
    <3> QED
      BY <2>1, <3>1, <3>2, Zenon DEF BufferInv
  <2>3. CASE DequeueInterrupted
    <3>1. /\ dbuf' = Clear(dbuf) /\ dret' = INTR /\ ebuf' = ebuf /\ eret' = eret
      BY <2>3 DEF DequeueInterrupted, evars
    <3>2. /\ dbuf' \in Buffer /\ Clean(dbuf', dret' - HEADER_LENGTH)
          /\ dret' \in {INTR} \cup HEADER_LENGTH..(HEADER_LENGTH + MaxBody)
      BY <1>2, <2>1, <3>1, Zenon DEF BufferInv
    <3> QED
      BY <2>1, <3>1, <3>2, Zenon DEF BufferInv
  <2> QED
    BY <2>2, <2>3
<1>4. UNCHANGED <<queue, journal, got, pos, parsed>>
  BY DEF ReceiveInterrupted, DequeueInterrupted, rvars
<1>5. QueueInv'
  BY <1>4 DEF HeaderInv, QueueInv
<1>6. JournalInv'
  <2>1. JournalInv
    BY DEF HeaderInv
  <2>2. PICK cut : Cuts(cut, Len(got) - Len(queue), got, journal) /\ pos = cut[Len(parsed)]
    BY <2>1, Zenon DEF JournalInv
  <2>3. Cuts(cut, Len(got') - Len(queue'), got', journal') /\ pos' = cut[Len(parsed')]
    BY <1>4, <2>2, Zenon
  <2> QED
    BY <1>4, <2>1, <2>3, Zenon DEF JournalInv
<1> QED
  BY <1>3, <1>5, <1>6 DEF HeaderInv

(* Writing moves the first message of the queue to the end of the journal. *)
LEMMA DequeueKeeps ==
  ASSUME HeaderInv, Dequeue
  PROVE  HeaderInv'
<1> DEFINE n == Len(got)
           k == Len(queue)
           m == Head(queue)
           d == n - k
<1>1. /\ got \in Seq(Packets) /\ queue \in Seq(Seq(Byte)) /\ k <= n
      /\ n \in Nat /\ k \in Nat
      /\ \A i \in 1..k : queue[i] = Message(got[n - k + i])
  BY DEF HeaderInv, QueueInv
<1>2. /\ queue # <<>> /\ k # 0 /\ m = queue[1] /\ m \in Seq(Byte)
      /\ queue' = Tail(queue) /\ queue' \in Seq(Seq(Byte)) /\ Len(queue') = k - 1
      /\ \A i \in 1..(k - 1) : queue'[i] = queue[i + 1]
  BY <1>1 DEF Dequeue
<1>3. /\ dbuf' = Put(Clear(dbuf), 0, m) /\ dret' = Len(m)
      /\ journal' = journal \o SubSeq(dbuf', 1, dret')
      /\ UNCHANGED <<ebuf, eret, pos, parsed, got>>
  BY DEF Dequeue, evars, rvars
<1> HIDE DEF n, k, m
<1>4. d \in Nat /\ d + 1 \in 1..n /\ 1 \in 1..k
  BY <1>1, <1>2
<1>5. m = Message(got[d + 1]) /\ got[d + 1] \in Packets
  BY <1>1, <1>2, <1>4 DEF n
<1> HIDE DEF d
<1>6. PICK size \in 0..MaxBody : Len(m) = HEADER_LENGTH + size
  BY <1>5, PacketType
<1>7. BufferInv'
  <2>1. BufferInv
    BY DEF HeaderInv
  <2>2. dbuf' \in Buffer /\ Clean(dbuf', size)
    BY <1>2, <1>3, <1>6, <2>1, DequeuerWrites DEF BufferInv
  <2>3. /\ (HEADER_LENGTH + size) - HEADER_LENGTH = size
        /\ HEADER_LENGTH + size \in HEADER_LENGTH..(HEADER_LENGTH + MaxBody)
    <3>1. \A h, l \in Nat : \A j \in 0..l : (h + j) - h = j /\ h + j \in h..(h + l)
      OBVIOUS
    <3> QED
      BY <1>6, <3>1, HeaderLength, SizeTypes, Zenon
  <2>4. /\ dret' \in {INTR} \cup HEADER_LENGTH..(HEADER_LENGTH + MaxBody)
        /\ Clean(dbuf', dret' - HEADER_LENGTH)
    <3>1. dret' = HEADER_LENGTH + size
      BY <1>3, <1>6, Zenon
    <3>2. dret' - HEADER_LENGTH = size /\ dret' \in HEADER_LENGTH..(HEADER_LENGTH + MaxBody)
      BY <2>3, <3>1, Zenon
    <3> QED
      BY <2>2, <3>2
  <2> QED
    BY <1>3, <2>1, <2>2, <2>4, Zenon DEF BufferInv
<1>8. QueueInv'
  <2>1. ASSUME NEW i \in 1..(k - 1)
        PROVE  queue'[i] = Message(got[n - (k - 1) + i])
    <3>1. i + 1 \in 1..k /\ n - (k - 1) + i = n - k + (i + 1)
      BY <1>1
    <3> QED
      BY <1>1, <1>2, <3>1, Zenon
  <2>2. k - 1 <= n
    BY <1>1
  <2>3. got' = got /\ Len(got) = n
    BY <1>3 DEF n
  <2> QED
    BY <1>1, <1>2, <2>1, <2>2, <2>3, Zenon DEF QueueInv
<1>9. JournalInv'
  <2>1. /\ journal \in Seq(Byte) /\ parsed \in Seq(Packets) /\ Len(parsed) \in Nat
        /\ Len(parsed) <= d /\ \A i \in 1..Len(parsed) : parsed[i] = got[i]
    BY DEF HeaderInv, JournalInv, d, n, k
  <2>2. PICK cut : Cuts(cut, d, got, journal) /\ pos = cut[Len(parsed)]
    BY Zenon DEF HeaderInv, JournalInv, d, n, k
  <2>3. journal' = journal \o m
    <3>1. dbuf \in Buffer
      BY DEF HeaderInv, BufferInv
    <3>2. SubSeq(dbuf', 1, Len(m)) = m
      BY <1>2, <1>3, <1>6, <3>1, DequeuerWrites
    <3> QED
      BY <1>3, <3>2, Zenon
  <2>4. /\ journal' \in Seq(Byte) /\ Len(journal') = Len(journal) + Len(m)
        /\ Occurs(m, journal', Len(journal))
        /\ \A u \in Seq(Byte), off \in Nat :
             Occurs(u, journal, off) => Occurs(u, journal', off)
    BY <1>2, <2>1, <2>3, OccursConcat
  <2> DEFINE new == [i \in 0..(d + 1) |-> IF i = d + 1 THEN Len(journal') ELSE cut[i]]
  <2>5. /\ cut \in [0..d -> Nat] /\ cut[0] = 0 /\ cut[d] = Len(journal)
        /\ \A i \in 1..d : /\ cut[i] = cut[i - 1] + Len(Message(got[i]))
                           /\ Occurs(Message(got[i]), journal, cut[i - 1])
    BY <2>2, Zenon DEF Cuts
  <2>6. /\ new \in [0..(d + 1) -> Nat] /\ new[0] = 0 /\ new[d + 1] = Len(journal')
        /\ \A i \in 0..d : new[i] = cut[i]
    BY <1>4, <2>4, <2>5
  <2> HIDE DEF new
  <2>7. ASSUME NEW i \in 1..(d + 1)
        PROVE  /\ new[i] = new[i - 1] + Len(Message(got[i]))
               /\ Occurs(Message(got[i]), journal', new[i - 1])
    <3>1. CASE i = d + 1
      <4>1. i - 1 = d /\ d \in 0..d
        BY <1>4, <3>1
      <4> QED
        BY <1>5, <2>4, <2>5, <2>6, <3>1, <4>1, Zenon
    <3>2. CASE i # d + 1
      <4>1. i \in 1..d /\ i - 1 \in 0..d /\ i \in 0..d
        BY <1>4, <3>2
      <4>2. i \in 1..n
        BY <1>1, <1>4, <4>1
      <4>3. got[i] \in Packets
        BY <1>1, <4>2 DEF n
      <4>4. Message(got[i]) \in Seq(Byte)
        BY <4>3, PacketType
      <4>5. cut[i - 1] \in Nat
        BY <2>5, <4>1
      <4> QED
        BY <2>4, <2>5, <2>6, <4>1, <4>4, <4>5, Zenon
    <3> QED
      BY <3>1, <3>2
  <2>8. Cuts(new, d + 1, got, journal')
    BY <2>6, <2>7, Zenon DEF Cuts
  <2>9. Len(got) - Len(queue') = d + 1
    BY <1>1, <1>2 DEF d, n, k
  <2>10. Len(parsed) \in 0..d /\ Len(parsed) <= d + 1
    BY <1>4, <2>1
  <2>11. Cuts(new, Len(got') - Len(queue'), got', journal') /\ pos' = new[Len(parsed')]
    BY <1>3, <2>2, <2>6, <2>8, <2>9, <2>10, Zenon
  <2> QED
    BY <1>3, <2>1, <2>4, <2>9, <2>10, <2>11, Zenon DEF JournalInv
<1> QED
  BY <1>7, <1>8, <1>9 DEF HeaderInv

(* The fields lie in the header.                                           *)
LEMMA FieldsInside ==
  \A f \in 1..6 : Offset(f) \in Nat /\ Offset(f) + Widths[f] <= HEADER_LENGTH
<1>1. /\ 1 \in 1..6 /\ 2 \in 1..6 /\ 3 \in 1..6 /\ 4 \in 1..6 /\ 5 \in 1..6 /\ 6 \in 1..6
      /\ 1 + 1 = 2 /\ 2 + 1 = 3 /\ 3 + 1 = 4 /\ 4 + 1 = 5 /\ 5 + 1 = 6 /\ 6 + 1 = 7
  OBVIOUS
<1>2. /\ Offset(2) = Offset(1) + Widths[1] /\ Offset(3) = Offset(2) + Widths[2]
      /\ Offset(4) = Offset(3) + Widths[3] /\ Offset(5) = Offset(4) + Widths[4]
      /\ Offset(6) = Offset(5) + Widths[5] /\ HEADER_LENGTH = Offset(6) + Widths[6]
      /\ \A f \in 1..6 : Offset(f) \in Nat
  BY <1>1, OffsetIs, Zenon
<1>3. \A f \in 1..6 : Widths[f] \in Nat
  BY HeaderLength
<1>4. /\ Offset(1) \in Nat /\ Widths[1] \in Nat /\ Offset(2) \in Nat /\ Widths[2] \in Nat
      /\ Offset(3) \in Nat /\ Widths[3] \in Nat /\ Offset(4) \in Nat /\ Widths[4] \in Nat
      /\ Offset(5) \in Nat /\ Widths[5] \in Nat /\ Offset(6) \in Nat /\ Widths[6] \in Nat
  BY <1>1, <1>2, <1>3, Zenon
<1>5. /\ Offset(1) + Widths[1] <= HEADER_LENGTH /\ Offset(2) + Widths[2] <= HEADER_LENGTH
      /\ Offset(3) + Widths[3] <= HEADER_LENGTH /\ Offset(4) + Widths[4] <= HEADER_LENGTH
      /\ Offset(5) + Widths[5] <= HEADER_LENGTH /\ Offset(6) + Widths[6] <= HEADER_LENGTH
  BY <1>2, <1>4
<1>6. \A f \in 1..6 : f = 1 \/ f = 2 \/ f = 3 \/ f = 4 \/ f = 5 \/ f = 6
  OBVIOUS
<1> QED
  BY <1>2, <1>5, <1>6, Zenon

(* All fields of a header are read as they were written.                   *)
LEMMA FieldsRead ==
  ASSUME NEW g \in Packets, NEW h \in Seq(Byte),
         \A f \in 1..6 : \A t \in Seq(Byte) :
           Len(t) = Widths[f] /\ Occurs(t, Message(g), Offset(f)) => Occurs(t, h, Offset(f))
  PROVE  /\ HeaderPayloadLength(h) = Len(g.body)
         /\ HeaderReceiptTime(h) = g.time
         /\ HeaderSenderIpFormatted(h) = g.addr
         /\ HeaderSenderPort(h) = g.port
         /\ HeaderSiteId(h) = g.site
         /\ Reserved(h) = 0
<1>1. PICK count \in Nat, tm \in Nat, addr \in Nat, port \in Nat, body \in Seq(Byte),
          m \in {Message(g)} :
        /\ count = Len(g.body) /\ tm = g.time /\ addr = HostLong(g.addr)
        /\ port = g.port /\ body = g.body /\ m = Message(g)
  <2>1. /\ Len(g.body) \in Nat /\ g.time \in Nat /\ HostLong(g.addr) \in Nat
        /\ g.port \in Nat /\ g.body \in Seq(Byte)
    BY PacketType
  <2> QED
    BY <2>1, Zenon
<1>2. m = MessageOf(count, tm, addr, port, body)
  BY <1>1, Zenon DEF Message
<1>3. /\ Occurs(Marshal(count, Widths[1]), m, Offset(1))
      /\ Occurs(Marshal(tm, Widths[2]), m, Offset(2))
      /\ Occurs(Marshal(addr, Widths[3]), m, Offset(3))
      /\ Occurs(Marshal(port, Widths[4]), m, Offset(4))
      /\ Occurs(Marshal(Site, Widths[5]), m, Offset(5))
      /\ Occurs(Marshal(0, Widths[6]), m, Offset(6))
  BY <1>2, Layout, Zenon
<1>4. ASSUME NEW f \in 1..6, NEW x \in Nat, x < Power[Widths[f]],
             Occurs(Marshal(x, Widths[f]), m, Offset(f))
      PROVE  Field(h, f) = x
  <2>1. Widths[f] \in Nat
    BY HeaderLength
  <2>2. Marshal(x, Widths[f]) \in Seq(Byte) /\ Len(Marshal(x, Widths[f])) = Widths[f]
    BY <2>1, MarshalType
  <2>3. Occurs(Marshal(x, Widths[f]), h, Offset(f))
    BY <1>1, <1>4, <2>2, Zenon
  <2> QED
    BY <1>4, <2>3, FieldIs
<1>5. /\ count < Power[Widths[1]] /\ tm < Power[Widths[2]] /\ addr < Power[Widths[3]]
      /\ port < Power[Widths[4]] /\ Site \in Nat /\ Site < Power[Widths[5]]
      /\ g.site = Site
  BY <1>1, PacketType
<1>6. 0 < Power[Widths[6]]
  <2>1. 6 \in 1..6 /\ Widths[6] \in Nat
    BY HeaderLength
  <2>2. PICK k \in Nat \ {0} : k = Power[Widths[6]]
    BY <2>1, PowerIs, Zenon
  <2> QED
    BY <2>2
<1>7. /\ 1 \in 1..6 /\ 2 \in 1..6 /\ 3 \in 1..6 /\ 4 \in 1..6 /\ 5 \in 1..6 /\ 6 \in 1..6
      /\ 0 \in Nat
  OBVIOUS
<1>8. /\ Field(h, 1) = count /\ Field(h, 2) = tm /\ Field(h, 3) = addr
      /\ Field(h, 4) = port /\ Field(h, 5) = Site /\ Field(h, 6) = 0
  <2>1. Field(h, 1) = count
    BY <1>3, <1>4, <1>5, <1>7
  <2>2. Field(h, 2) = tm
    BY <1>3, <1>4, <1>5, <1>7
  <2>3. Field(h, 3) = addr
    BY <1>3, <1>4, <1>5, <1>7
  <2>4. Field(h, 4) = port
    BY <1>3, <1>4, <1>5, <1>7
  <2>5. Field(h, 5) = Site
    BY <1>3, <1>4, <1>5, <1>7
  <2>6. Field(h, 6) = 0
    BY <1>3, <1>4, <1>6, <1>7
  <2> QED
    BY <2>1, <2>2, <2>3, <2>4, <2>5, <2>6
<1>9. InetNtoa(HostLong(g.addr)) = g.addr
  BY PacketType, AddressIs
<1> QED
  BY <1>1, <1>5, <1>8, <1>9, Zenon
  DEF HeaderPayloadLength, HeaderReceiptTime, HeaderSenderIpFormatted, HeaderSenderPort,
      HeaderSiteId, Reserved

(* A reader that has read some packets reads the next one.                 *)
LEMMA ReadKeeps ==
  ASSUME HeaderInv, ReadRecord
  PROVE  HeaderInv'
<1> DEFINE n == Len(got)
           p == Len(parsed)
           d == n - Len(queue)
           header == SubSeq(journal, pos + 1, pos + HEADER_LENGTH)
           start == pos + HEADER_LENGTH
           end == start + HeaderPayloadLength(header)
           record == [body |-> SubSeq(journal, start + 1, end),
                      time |-> HeaderReceiptTime(header),
                      addr |-> HeaderSenderIpFormatted(header),
                      port |-> HeaderSenderPort(header),
                      site |-> HeaderSiteId(header)]
<1>1. /\ got \in Seq(Packets) /\ n \in Nat /\ d \in Nat /\ d <= n
  BY DEF HeaderInv, QueueInv
<1>2. /\ journal \in Seq(Byte) /\ parsed \in Seq(Packets) /\ p \in Nat /\ p <= d
      /\ \A i \in 1..p : parsed[i] = got[i]
  BY DEF HeaderInv, JournalInv
<1>3. PICK cut : Cuts(cut, d, got, journal) /\ pos = cut[p]
  BY Zenon DEF HeaderInv, JournalInv
<1>4. /\ pos + HEADER_LENGTH <= Len(journal)
      /\ IF end <= Len(journal) THEN pos' = end /\ parsed' = Append(parsed, record)
                                ELSE pos' = Failed /\ UNCHANGED parsed
      /\ UNCHANGED <<ebuf, eret, dbuf, dret, queue, journal, got>>
  BY DEF ReadRecord, evars, dvars
<1> HIDE DEF n, d, header, record
<1>5. /\ cut \in [0..d -> Nat] /\ cut[d] = Len(journal)
      /\ \A i \in 1..d : /\ cut[i] = cut[i - 1] + Len(Message(got[i]))
                         /\ Occurs(Message(got[i]), journal, cut[i - 1])
  BY <1>3, Zenon DEF Cuts
<1> HIDE DEF p
<1>6. pos \in Nat /\ HEADER_LENGTH \in Nat \ {0}
  <2>1. p \in 0..d
    BY <1>1, <1>2
  <2> QED
    BY <1>3, <1>5, <2>1, HeaderLength
<1>7. p + 1 \in 1..d /\ (p + 1) - 1 = p /\ p + 1 \in 1..n
  <2>1. p # d
    <3>1. ASSUME p = d PROVE FALSE
      <4>1. pos = Len(journal)
        BY <1>3, <1>5, <3>1
      <4> QED
        BY <1>4, <1>6, <4>1
    <3> QED
      BY <3>1
  <2> QED
    BY <1>1, <1>2, <2>1
<1> DEFINE g == got[p + 1]
           m == Message(g)
<1>8. g \in Packets
  BY <1>1, <1>7 DEF n
<1>9. cut[p + 1] = pos + Len(m) /\ Occurs(m, journal, pos)
  BY <1>3, <1>5, <1>7
<1>10. /\ m \in Seq(Byte) /\ Len(m) = HEADER_LENGTH + Len(g.body) /\ g.body \in Seq(Byte)
       /\ Len(g.body) \in Nat
  BY <1>8, PacketType
<1> HIDE DEF m, g, start, end
<1>11. /\ header \in Seq(Byte) /\ Len(header) = HEADER_LENGTH
       /\ \A k \in 1..HEADER_LENGTH : header[k] = m[k]
  <2>1. \A i \in (pos + 1)..(pos + HEADER_LENGTH) : journal[i] \in Byte
    BY <1>2, <1>4, <1>6
  <2>2. pos + 1 \in Int /\ pos + HEADER_LENGTH \in Int
    BY <1>6
  <2>3. /\ header \in Seq(Byte)
        /\ Len(header) = IF pos + 1 <= pos + HEADER_LENGTH
                         THEN (pos + HEADER_LENGTH) - (pos + 1) + 1 ELSE 0
        /\ \A i \in 1..((pos + HEADER_LENGTH) - (pos + 1) + 1) :
             header[i] = journal[((pos + 1) + i) - 1]
    BY <2>1, <2>2, SubSeqProperties DEF header
  <2>4. Len(header) = HEADER_LENGTH
        /\ \A i \in 1..HEADER_LENGTH : header[i] = journal[pos + i]
    BY <1>6, <2>3
  <2>5. \A i \in 1..HEADER_LENGTH : i \in 1..Len(m)
    BY <1>6, <1>10
  <2> QED
    BY <1>9, <2>3, <2>4, <2>5 DEF Occurs
<1>12. ASSUME NEW f \in 1..6, NEW t \in Seq(Byte), Len(t) = Widths[f],
              Occurs(t, m, Offset(f))
       PROVE  Occurs(t, header, Offset(f))
  <2>1. /\ Offset(f) \in Nat /\ Offset(f) + Len(t) <= HEADER_LENGTH /\ Len(t) \in Nat
    BY <1>12, FieldsInside
  <2>2. ASSUME NEW k \in 1..Len(t) PROVE header[Offset(f) + k] = t[k]
    <3>1. Offset(f) + k \in 1..HEADER_LENGTH
      BY <1>6, <2>1
    <3>2. m[Offset(f) + k] = t[k]
      BY <1>12 DEF Occurs
    <3> QED
      BY <1>11, <3>1, <3>2
  <2> QED
    BY <1>11, <2>1, <2>2 DEF Occurs
<1>13. /\ HeaderPayloadLength(header) = Len(g.body)
       /\ HeaderReceiptTime(header) = g.time
       /\ HeaderSenderIpFormatted(header) = g.addr
       /\ HeaderSenderPort(header) = g.port
       /\ HeaderSiteId(header) = g.site
  <2>1. \A f \in 1..6 : \A t \in Seq(Byte) :
          Len(t) = Widths[f] /\ Occurs(t, Message(g), Offset(f)) => Occurs(t, header, Offset(f))
    BY <1>12 DEF m
  <2> QED
    BY <1>8, <1>11, <2>1, FieldsRead
<1>14. /\ start \in Nat /\ end = start + Len(g.body) /\ end = cut[p + 1]
       /\ end <= Len(journal)
  <2>1. start = pos + HEADER_LENGTH /\ end = start + Len(g.body)
    BY <1>13 DEF start, end
  <2>2. pos + Len(m) <= Len(journal)
    BY <1>9 DEF Occurs
  <2> QED
    <3>1. PICK b \in Nat, c \in Nat, l \in Nat : b = Len(g.body) /\ c = pos /\ l = Len(m)
      <4>1. Len(m) \in Nat
        BY <1>10
      <4> QED
        BY <1>6, <1>10, <4>1, Zenon
    <3>2. l = HEADER_LENGTH + b /\ start = c + HEADER_LENGTH /\ end = start + b
      BY <1>10, <2>1, <3>1, Zenon
    <3>3. start \in Nat /\ end = c + l
      BY <1>6, <3>2
    <3> QED
      BY <1>9, <2>1, <2>2, <3>1, <3>3, Zenon
<1>15. SubSeq(journal, start + 1, end) = g.body
  <2>1. Occurs(g.body, m, HEADER_LENGTH)
    <3>1. PICK count \in Nat, tm \in Nat, addr \in Nat, port \in Nat, body \in Seq(Byte) :
            /\ count = Len(g.body) /\ tm = g.time /\ addr = HostLong(g.addr)
            /\ port = g.port /\ body = g.body
      <4>1. /\ Len(g.body) \in Nat /\ g.time \in Nat /\ HostLong(g.addr) \in Nat
            /\ g.port \in Nat /\ g.body \in Seq(Byte)
        BY <1>8, PacketType
      <4> QED
        BY <4>1, Zenon
    <3>2. m = MessageOf(count, tm, addr, port, body)
      BY <3>1, Zenon DEF Message, m
    <3>3. Occurs(body, m, HEADER_LENGTH)
      BY <3>2, Layout, Zenon
    <3> QED
      BY <3>1, <3>3, Zenon
  <2>2. Occurs(g.body, journal, pos + HEADER_LENGTH)
    BY <1>2, <1>6, <1>9, <1>10, <2>1, OccursInside
  <2> QED
    BY <1>2, <1>10, <1>14, <2>2, OccursSub DEF start
<1>16. record = g
  <2>1. g = [body |-> g.body, time |-> g.time, addr |-> g.addr, port |-> g.port,
             site |-> g.site]
    BY <1>8 DEF Packets
  <2> QED
    BY <1>13, <1>15, <2>1, Zenon DEF record
<1>17. pos' = cut[p + 1] /\ parsed' = Append(parsed, g)
  BY <1>4, <1>14, <1>16
<1>18. BufferInv' /\ QueueInv'
  BY <1>4 DEF HeaderInv, BufferInv, QueueInv, Clean
<1>19. JournalInv'
  <2>1. /\ parsed' \in Seq(Packets) /\ Len(parsed') = p + 1
        /\ \A i \in 1..p : parsed'[i] = parsed[i]
        /\ parsed'[p + 1] = g
    BY <1>2, <1>8, <1>17 DEF p
  <2>2. ASSUME NEW i \in 1..(p + 1) PROVE parsed'[i] = got[i]
    <3>1. CASE i = p + 1
      BY <2>1, <3>1 DEF g
    <3>2. CASE i # p + 1
      <4>1. i \in 1..p
        BY <1>2, <3>2
      <4> QED
        BY <1>2, <2>1, <4>1, Zenon
    <3> QED
      BY <3>1, <3>2
  <2>3. p + 1 <= d
    BY <1>1, <1>7
  <2>4. Cuts(cut, Len(got') - Len(queue'), got', journal') /\ pos' = cut[Len(parsed')]
    BY <1>3, <1>4, <1>17, <2>1, Zenon DEF d, n
  <2> QED
    BY <1>2, <1>4, <2>1, <2>2, <2>3, <2>4, Zenon DEF JournalInv, d, n
<1> QED
  BY <1>18, <1>19 DEF HeaderInv

(* The invariant holds always.                                             *)
LEMMA HeaderInvariant == Spec => []HeaderInv
<1>1. Init => HeaderInv
  BY HeaderInit
<1>2. HeaderInv /\ [Next]_vars => HeaderInv'
  <2> SUFFICES ASSUME HeaderInv, [Next]_vars PROVE HeaderInv'
    OBVIOUS
  <2>1. ASSUME NEW body \in Datagrams \cup {RotateEvent}, NEW tm \in Times,
               NEW addr \in Addrs, NEW port \in Ports, Receive(body, tm, addr, port)
        PROVE  HeaderInv'
    BY <2>1, ReceiveIs, ReceiveKeeps
  <2>2. CASE RotateCommand
    BY <2>1, <2>2 DEF RotateCommand
  <2>3. CASE ReceiveInterrupted \/ DequeueInterrupted
    BY <2>3, InterruptedKeeps
  <2>4. CASE Dequeue
    BY <2>4, DequeueKeeps
  <2>5. CASE ReadRecord
    BY <2>5, ReadKeeps
  <2>6. CASE UNCHANGED vars
    BY <2>6 DEF vars, evars, dvars, rvars, HeaderInv, BufferInv, QueueInv, JournalInv,
                Clean, Cuts, Occurs
  <2> QED
    BY <2>1, <2>2, <2>3, <2>4, <2>5, <2>6 DEF Next
<1> QED
  BY <1>1, <1>2, PTL DEF Spec

-----------------------------------------------------------------------------
(* The theorems *)

(* What a prefix is.                                                       *)
LEMMA PrefixIs ==
  ASSUME NEW S, NEW s \in Seq(S), NEW t \in Seq(S)
  PROVE  IsPrefix(s, t) <=> Len(s) <= Len(t) /\ \A i \in 1..Len(s) : s[i] = t[i]
<1>1. Len(s) \in Nat /\ Len(t) \in Nat /\ SubSeq(s, 1, Len(s)) = s
  OBVIOUS
<1>2. ASSUME Len(s) <= Len(t)
      PROVE  SubSeq(t, 1, Len(s)) = s <=> \A i \in 1..Len(s) : s[i] = t[i]
  <2>1. /\ SubSeq(t, 1, Len(s)) \in Seq(S) /\ Len(SubSeq(t, 1, Len(s))) = Len(s)
        /\ \A i \in 1..Len(s) : SubSeq(t, 1, Len(s))[i] = t[i]
    BY <1>1, <1>2
  <2>2. ASSUME \A i \in 1..Len(s) : s[i] = t[i] PROVE SubSeq(t, 1, Len(s)) = s
    BY <2>1, <2>2, SeqEqual
  <2>3. ASSUME SubSeq(t, 1, Len(s)) = s PROVE \A i \in 1..Len(s) : s[i] = t[i]
    BY <2>1, <2>3, Zenon
  <2> QED
    BY <2>2, <2>3
<1> QED
  BY <1>1, <1>2, Zenon DEF IsPrefix

(* A name without zero bytes, as far as it lies in what is cleared, is     *)
(* found in a buffer exactly if the packet begins with it.                 *)
LEMMA NameFound ==
  ASSUME NEW buf \in Buffer, NEW size \in Int, size <= MaxBody, Clean(buf, size),
         NEW name \in Seq(Byte \ {0}), NEW k \in 1..Len(name), k <= ClearedBody
  PROVE  (\A i \in 1..k : buf[HEADER_LENGTH + i] = name[i])
           <=> size >= 0 /\ IsPrefix(SubSeq(name, 1, k), Own(buf, size))
<1>1. /\ HEADER_LENGTH \in Nat /\ MaxBody \in Nat /\ ClearedBody \in Nat
      /\ BufferSize = HEADER_LENGTH + MaxBody
      /\ buf \in [1..BufferSize -> Byte]
  BY HeaderLength, SizeTypes DEF BufferSize
<1> DEFINE s == SubSeq(name, 1, k)
           t == Own(buf, size)
<1>2. /\ s \in Seq(Byte) /\ Len(s) = k /\ \A i \in 1..k : s[i] = name[i]
  <2>1. Len(name) \in Nat /\ \A i \in 1..Len(name) : name[i] \in Byte
    OBVIOUS
  <2>2. \A i \in 1..k : name[i] \in Byte
    BY <2>1
  <2>3. /\ s \in Seq(Byte) /\ Len(s) = IF 1 <= k THEN k - 1 + 1 ELSE 0
        /\ \A i \in 1..(k - 1 + 1) : s[i] = name[1 + i - 1]
    BY <2>2, SubSeqProperties
  <2> QED
    BY <2>3
<1>3. ASSUME size >= 0
      PROVE  /\ t \in Seq(Byte) /\ Len(t) = size
             /\ \A i \in 1..size : t[i] = buf[HEADER_LENGTH + i]
  <2>1. \A i \in (HEADER_LENGTH + 1)..(HEADER_LENGTH + size) : buf[i] \in Byte
    BY <1>1
  <2>2. HEADER_LENGTH + 1 \in Int /\ HEADER_LENGTH + size \in Int
    BY <1>1
  <2>3. /\ t \in Seq(Byte)
        /\ Len(t) = IF HEADER_LENGTH + 1 <= HEADER_LENGTH + size
                    THEN (HEADER_LENGTH + size) - (HEADER_LENGTH + 1) + 1 ELSE 0
        /\ \A i \in 1..((HEADER_LENGTH + size) - (HEADER_LENGTH + 1) + 1) :
             t[i] = buf[((HEADER_LENGTH + 1) + i) - 1]
    BY <2>1, <2>2, SubSeqProperties DEF Own
  <2> HIDE DEF t
  <2> QED
    BY <1>1, <1>3, <2>3
<1> HIDE DEF s, t
<1>4. ASSUME \A i \in 1..k : buf[HEADER_LENGTH + i] = name[i]
      PROVE  size >= 0 /\ IsPrefix(s, t)
  <2>1. name[k] # 0 /\ buf[HEADER_LENGTH + k] = name[k]
    BY <1>4
  <2>2. k <= size
    <3>1. SUFFICES ASSUME ~(k <= size) PROVE FALSE
      OBVIOUS
    <3>2. HEADER_LENGTH + k \in 1..(HEADER_LENGTH + ClearedBody)
          /\ HEADER_LENGTH + k > HEADER_LENGTH + size
      BY <1>1, <3>1
    <3> QED
      BY <2>1, <3>2, Zenon DEF Clean
  <2>3. size >= 0
    BY <2>2
  <2>4. \A i \in 1..k : s[i] = t[i]
    BY <1>2, <1>3, <1>4, <2>2, <2>3
  <2> QED
    BY <1>2, <1>3, <2>2, <2>3, <2>4, PrefixIs
<1>5. ASSUME size >= 0, IsPrefix(s, t)
      PROVE  \A i \in 1..k : buf[HEADER_LENGTH + i] = name[i]
  <2>1. k <= size /\ \A i \in 1..k : s[i] = t[i]
    BY <1>2, <1>3, <1>5, PrefixIs
  <2> QED
    BY <1>2, <1>3, <1>5, <2>1
<1> QED
  BY <1>4, <1>5 DEF s, t

(* The invariant tells commands from what was left in a buffer.            *)
LEMMA NamesTold == BufferInv => NamesFromOwnBytes
<1> SUFFICES ASSUME BufferInv PROVE NamesFromOwnBytes
  OBVIOUS
<1>1. /\ RotateName \in Seq(Byte \ {0}) /\ RotateName # <<>>
      /\ Len(RotateName) = RotateName[1] + 1
      /\ DepthName \in Seq(Byte \ {0}) /\ DepthName # <<>>
      /\ Len(DepthName) = DepthName[1] + 1
      /\ ClearedBody \in Len(RotateName)..Len(DepthName)
  BY HeaderAssumption
<1>2. /\ Len(RotateName) \in 1..Len(RotateName) /\ Len(RotateName) <= ClearedBody
      /\ ClearedBody \in 1..Len(DepthName) /\ ClearedBody <= ClearedBody
      /\ SubSeq(RotateName, 1, Len(RotateName)) = RotateName
  <2>1. /\ Len(RotateName) \in Nat \ {0} /\ Len(DepthName) \in Nat
        /\ SubSeq(RotateName, 1, Len(RotateName)) = RotateName
    BY <1>1
  <2> QED
    BY <1>1, <2>1
<1>3. ASSUME NEW buf \in Buffer, NEW size \in Int, size <= MaxBody, Clean(buf, size)
      PROVE  /\ HeaderIsRotate(buf) <=> size >= 0 /\ IsPrefix(RotateName, Own(buf, size))
             /\ ToknamEq(buf, DepthName)
                  => size >= 0 /\ IsPrefix(SubSeq(DepthName, 1, ClearedBody), Own(buf, size))
  <2>1. (\A i \in 1..Len(RotateName) : buf[HEADER_LENGTH + i] = RotateName[i])
          <=> size >= 0 /\ IsPrefix(RotateName, Own(buf, size))
    <3>1. (\A i \in 1..Len(RotateName) : buf[HEADER_LENGTH + i] = RotateName[i])
            <=> /\ size >= 0
                /\ IsPrefix(SubSeq(RotateName, 1, Len(RotateName)), Own(buf, size))
      BY <1>1, <1>2, <1>3, NameFound
    <3> QED
      BY <1>2, <3>1, Zenon
  <2>2. HeaderIsRotate(buf)
          <=> \A i \in 1..Len(RotateName) : buf[HEADER_LENGTH + i] = RotateName[i]
    BY <1>1, Zenon DEF HeaderIsRotate, ToknamEq
  <2>3. ASSUME ToknamEq(buf, DepthName)
        PROVE  \A i \in 1..ClearedBody : buf[HEADER_LENGTH + i] = DepthName[i]
    <3>1. \A i \in 1..Len(DepthName) : buf[HEADER_LENGTH + i] = DepthName[i]
      BY <1>1, <2>3, Zenon DEF ToknamEq
    <3>2. \A i \in 1..ClearedBody : i \in 1..Len(DepthName)
      BY <1>1, <1>2
    <3> QED
      BY <3>1, <3>2, Zenon
  <2>4. (\A i \in 1..ClearedBody : buf[HEADER_LENGTH + i] = DepthName[i])
          => size >= 0 /\ IsPrefix(SubSeq(DepthName, 1, ClearedBody), Own(buf, size))
    BY <1>1, <1>2, <1>3, NameFound
  <2> QED
    BY <2>1, <2>2, <2>3, <2>4
<1>4. eret \in Int /\ eret <= MaxBody
  BY SizeTypes DEF BufferInv, INTR
<1>5. dret - HEADER_LENGTH \in Int /\ dret - HEADER_LENGTH <= MaxBody
  <2>1. \A h, m \in Nat : \A x \in {-1} \cup h..(h + m) : x - h \in Int /\ x - h <= m
    OBVIOUS
  <2>2. dret \in {-1} \cup HEADER_LENGTH..(HEADER_LENGTH + MaxBody)
    BY DEF BufferInv, INTR
  <2>3. HEADER_LENGTH \in Nat /\ MaxBody \in Nat
    BY SizeTypes, HeaderLength
  <2> QED
    BY <2>1, <2>2, <2>3, Zenon
<1>6. ebuf \in Buffer /\ Clean(ebuf, eret) /\ dbuf \in Buffer
      /\ Clean(dbuf, dret - HEADER_LENGTH)
  BY DEF BufferInv
<1>7. ASSUME NEW w \in {[buf |-> ebuf, size |-> eret],
                        [buf |-> dbuf, size |-> dret - HEADER_LENGTH]}
      PROVE  w.buf \in Buffer /\ w.size \in Int /\ w.size <= MaxBody
             /\ Clean(w.buf, w.size)
  BY <1>4, <1>5, <1>6
<1> QED
  BY <1>3, <1>7, Zenon DEF NamesFromOwnBytes

(* A command is taken from a packet's own bytes, whatever an earlier       *)
(* packet left in the buffers of xport_to_queue and queue_to_journal.      *)
THEOREM NamesCorrect == Spec => []NamesFromOwnBytes
<1>1. HeaderInv => NamesFromOwnBytes
  BY NamesTold DEF HeaderInv
<1> QED
  BY <1>1, HeaderInvariant, PTL

(* The types; a reader is never behind the end of the journal.             *)
LEMMA HeaderTypes == HeaderInv => TypeOK
<1> SUFFICES ASSUME HeaderInv PROVE TypeOK
  OBVIOUS
<1>1. /\ ebuf \in Buffer /\ dbuf \in Buffer /\ eret \in {INTR} \cup 0..MaxBody
      /\ dret \in {INTR} \cup HEADER_LENGTH..(HEADER_LENGTH + MaxBody)
      /\ queue \in Seq(Seq(Byte)) /\ journal \in Seq(Byte) /\ got \in Seq(Packets)
  BY DEF HeaderInv, BufferInv, QueueInv, JournalInv
<1> DEFINE d == Len(got) - Len(queue)
           p == Len(parsed)
<1>2. d \in Nat /\ p \in 0..d
  BY DEF HeaderInv, QueueInv, JournalInv
<1>3. PICK cut : Cuts(cut, d, got, journal) /\ pos = cut[p]
  BY Zenon DEF HeaderInv, JournalInv
<1> HIDE DEF d, p
<1>4. /\ cut \in [0..d -> Nat] /\ cut[d] = Len(journal)
      /\ \A i \in 1..d : Occurs(Message(got[i]), journal, cut[i - 1])
  BY <1>3, Zenon DEF Cuts
<1>5. pos \in Nat /\ pos <= Len(journal)
  <2>1. pos \in Nat
    BY <1>2, <1>3, <1>4
  <2>2. CASE p = d
    BY <1>1, <1>3, <1>4, <2>1, <2>2
  <2>3. CASE p # d
    <3>1. p + 1 \in 1..d /\ (p + 1) - 1 = p
      BY <1>2, <2>3
    <3>2. Occurs(Message(got[p + 1]), journal, pos)
      BY <1>3, <1>4, <3>1, Zenon
    <3>3. p + 1 \in 1..Len(got)
      <4>1. d <= Len(got)
        BY <1>1 DEF d
      <4> QED
        BY <1>1, <1>2, <3>1, <4>1
    <3>4. got[p + 1] \in Packets
      BY <1>1, <3>3
    <3>5. Message(got[p + 1]) \in Seq(Byte)
      BY <3>4, PacketType
    <3>6. pos + Len(Message(got[p + 1])) <= Len(journal)
          /\ Len(Message(got[p + 1])) \in Nat
      BY <3>2, <3>5 DEF Occurs
    <3> QED
      BY <1>1, <2>1, <3>6
  <2> QED
    BY <2>2, <2>3
<1>6. pos \in {Failed} \cup 0..Len(journal)
  BY <1>1, <1>5
<1> QED
  BY <1>1, <1>6, Zenon DEF TypeOK, Packets

(* A reader that never fails has read a prefix of what was received.       *)
LEMMA HeaderSurvives == HeaderInv => RecordsSurvive
<1> SUFFICES ASSUME HeaderInv PROVE RecordsSurvive
  OBVIOUS
<1>1. /\ got \in Seq(Packets) /\ parsed \in Seq(Packets)
      /\ Len(parsed) <= Len(got) - Len(queue) /\ Len(queue) \in Nat
      /\ \A i \in 1..Len(parsed) : parsed[i] = got[i]
  BY DEF HeaderInv, QueueInv, JournalInv
<1>2. Len(parsed) <= Len(got)
  BY <1>1
<1>3. IsPrefix(parsed, got)
  BY <1>1, <1>2, PrefixIs
<1>4. PICK cut : Cuts(cut, Len(got) - Len(queue), got, journal) /\ pos = cut[Len(parsed)]
  BY Zenon DEF HeaderInv, JournalInv
<1>5. Len(parsed) \in 0..(Len(got) - Len(queue))
  BY <1>1
<1>6. pos \in Nat
  BY <1>4, <1>5 DEF Cuts
<1> QED
  BY <1>3, <1>6 DEF RecordsSurvive, Failed

(* The reserved bytes of the messages in the queue are those of a message. *)
LEMMA HeaderReserved == HeaderInv => ReservedZero
<1> SUFFICES ASSUME HeaderInv, NEW i \in 1..Len(queue) PROVE Reserved(queue[i]) = 0
  BY DEF ReservedZero, HeaderInv, QueueInv
<1>1. /\ got \in Seq(Packets) /\ queue \in Seq(Seq(Byte)) /\ Len(queue) <= Len(got)
      /\ \A j \in 1..Len(queue) : queue[j] = Message(got[Len(got) - Len(queue) + j])
  BY DEF HeaderInv, QueueInv
<1>2. Len(got) - Len(queue) + i \in 1..Len(got)
  <2>1. \A a, b \in Nat : b <= a => \A j \in 1..b : a - b + j \in 1..a
    OBVIOUS
  <2>2. Len(got) \in Nat /\ Len(queue) \in Nat
    BY <1>1
  <2> QED
    BY <1>1, <2>1, <2>2, Zenon
<1>3. PICK g \in Packets : queue[i] = Message(g)
  <2>1. got[Len(got) - Len(queue) + i] \in Packets
    BY <1>1, <1>2
  <2> QED
    BY <1>1, <2>1, Zenon
<1>4. Message(g) \in Seq(Byte)
  BY PacketType
<1>5. Reserved(Message(g)) = 0
  BY <1>4, FieldsRead
<1> QED
  BY <1>3, <1>5

(* What header_add writes and the journal keeps, a reader gets back, packet *)
(* for packet, and no reserved byte of a message is left to chance.         *)
THEOREM CodecCorrect == Spec => []CodecSound
<1>1. HeaderInv => CodecSound
  BY HeaderTypes, HeaderSurvives, HeaderReserved DEF CodecSound
<1> QED
  BY <1>1, HeaderInvariant, PTL

=============================================================================
