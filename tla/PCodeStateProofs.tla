--------------------------- MODULE PCodeStateProofs ---------------------------
(***************************************************************************)
(* Addresses are read as the numbers operands hold and held once they are  *)
(* set, a call changes the operand it names and nothing else, and a state  *)
(* that is rewound is the snapshot, for every radix, byte order, width,    *)
(* set of operands and number of states.  What is needed of a state is     *)
(* which bytes it has, and that they are digits.                           *)
(***************************************************************************)
EXTENDS PCodeState, WellFoundedInduction, TLAPS

-----------------------------------------------------------------------------
(* Powers of the radix, by induction.                                      *)

LEMMA NatInduct ==
    ASSUME NEW S, 0 \in S, \A n \in Nat : n \in S => n + 1 \in S
    PROVE  Nat \subseteq S
<1> SUFFICES ASSUME Nat \ S # {} PROVE FALSE
  OBVIOUS
<1> DEFINE R == {ss \in Nat \X Nat : ss[1] < ss[2]}
           T == Nat \ S
<1>1. IsWellFoundedOn(R, Nat)
  BY NatLessThanWellFounded DEF OpToRel
<1>2. \A x, y \in Nat : x < y => <<x, y>> \in R
  OBVIOUS
<1>3. T \subseteq Nat /\ T # {}
  OBVIOUS
<1> HIDE DEF R
<1>4. PICK m \in T : \A k \in T : ~(<<k, m>> \in R)
  BY <1>1, <1>3, WFMin
<1>5. m \in Nat /\ m # 0 /\ m - 1 \in Nat /\ m - 1 < m /\ (m - 1) + 1 = m
  BY <1>4
<1>6. m - 1 \in S
  BY <1>2, <1>4, <1>5
<1> QED BY <1>4, <1>5, <1>6


\* A function on 0..n defined by its first value and the step to the next.
Iterates(g, n, S, f0, F) ==
    /\ g \in [0..n -> S]
    /\ g[0] = f0
    /\ \A i \in 1..n : g[i] = F[<<g[i - 1], i>>]

LEMMA Iterated ==
    ASSUME NEW S, NEW f0 \in S, NEW F \in [S \X Nat -> S], NEW n \in Nat
    PROVE  \E g : Iterates(g, n, S, f0, F)
<1> DEFINE D == {m \in Nat : \E g : Iterates(g, m, S, f0, F)}
<1>1. 0 \in D
  <2>1. Iterates([i \in 0..0 |-> f0], 0, S, f0, F)
    BY DEF Iterates
  <2> QED BY <2>1
<1>2. ASSUME NEW m \in Nat, m \in D PROVE m + 1 \in D
  <2>1. PICK g : Iterates(g, m, S, f0, F)
    BY <1>2
  <2> DEFINE h == [i \in 0..(m + 1) |-> IF i = m + 1 THEN F[<<g[m], m + 1>>] ELSE g[i]]
  <2>2. g[m] \in S /\ F[<<g[m], m + 1>>] \in S
    BY <2>1 DEF Iterates
  <2>3. h \in [0..(m + 1) -> S] /\ h[0] = f0
    BY <2>1, <2>2 DEF Iterates
  <2>4. ASSUME NEW i \in 1..(m + 1) PROVE h[i] = F[<<h[i - 1], i>>]
    <3>1. i - 1 \in 0..m /\ i - 1 # m + 1
      OBVIOUS
    <3>2. h[i - 1] = g[i - 1]
      BY <3>1
    <3>3. CASE i = m + 1
      <4>1. h[i] = F[<<g[m], m + 1>>] /\ i - 1 = m
        BY <3>3
      <4> QED BY <3>2, <3>3, <4>1
    <3>4. CASE i # m + 1
      <4>1. i \in 1..m /\ i \in 0..(m + 1)
        BY <3>4
      <4>2. h[i] = g[i]
        BY <3>4, <4>1
      <4>3. g[i] = F[<<g[i - 1], i>>]
        BY <2>1, <4>1 DEF Iterates
      <4> QED BY <3>2, <4>2, <4>3
    <3> QED BY <3>3, <3>4
  <2> HIDE DEF h
  <2>5. Iterates(h, m + 1, S, f0, F)
    BY <2>3, <2>4 DEF Iterates
  <2> QED BY <2>5
<1> HIDE DEF D
<1>3. n \in D
  BY <1>1, <1>2, NatInduct
<1> QED BY <1>3 DEF D

\* Two of them agree where both are defined.
LEMMA IteratedAgree ==
    \A S, f0, F, g, h : \A m, n \in Nat :
        Iterates(g, m, S, f0, F) /\ Iterates(h, n, S, f0, F) =>
            \A i \in Nat : i <= m /\ i <= n => g[i] = h[i]
<1> SUFFICES ASSUME NEW S, NEW f0, NEW F, NEW m \in Nat, NEW n \in Nat, NEW g, NEW h,
                    Iterates(g, m, S, f0, F), Iterates(h, n, S, f0, F)
             PROVE  \A i \in Nat : i <= m /\ i <= n => g[i] = h[i]
  OBVIOUS
<1> DEFINE D == {i \in Nat : i <= m /\ i <= n => g[i] = h[i]}
<1>1. 0 \in D
  BY DEF Iterates
<1>2. ASSUME NEW i \in Nat, i \in D PROVE i + 1 \in D
  <2> SUFFICES ASSUME i + 1 <= m, i + 1 <= n PROVE g[i + 1] = h[i + 1]
    OBVIOUS
  <2>1. i + 1 \in 1..m /\ i + 1 \in 1..n /\ (i + 1) - 1 = i
    OBVIOUS
  <2>2. g[i] = h[i]
    BY <1>2
  <2> QED BY <2>1, <2>2 DEF Iterates
<1> HIDE DEF D
<1>3. Nat \subseteq D
  BY <1>1, <1>2, NatInduct
<1> QED BY <1>3 DEF D

IteratesForever(g, S, f0, F) ==
    /\ g \in [Nat -> S]
    /\ g[0] = f0
    /\ \A n \in Nat : g[n + 1] = F[<<g[n], n + 1>>]

LEMMA IteratedForever ==
    ASSUME NEW S, NEW f0 \in S, NEW F \in [S \X Nat -> S]
    PROVE  \E g : IteratesForever(g, S, f0, F)
<1> DEFINE P == [n \in Nat |-> CHOOSE g : Iterates(g, n, S, f0, F)]
           p == [n \in Nat |-> P[n][n]]
<1>1. ASSUME NEW n \in Nat PROVE Iterates(P[n], n, S, f0, F)
  <2>1. \E g : Iterates(g, n, S, f0, F)
    BY Iterated
  <2> QED BY <2>1
<1> HIDE DEF P
<1>2. p \in [Nat -> S] /\ p[0] = f0
  BY <1>1 DEF Iterates
<1>3. ASSUME NEW n \in Nat PROVE p[n + 1] = F[<<p[n], n + 1>>]
  <2> DEFINE m == n + 1
  <2>1. n \in Nat /\ m \in Nat /\ n <= m /\ n <= n /\ m \in 1..m /\ m - 1 = n
    OBVIOUS
  <2> HIDE DEF m
  <2>2. Iterates(P[n], n, S, f0, F) /\ Iterates(P[m], m, S, f0, F)
    BY <1>1, <2>1
  <2>3. P[m][n] = P[n][n]
    BY <2>1, <2>2, IteratedAgree
  <2>4. P[m][m] = F[<<P[m][n], m>>]
    BY <2>1, <2>2 DEF Iterates
  <2> QED BY <2>1, <2>3, <2>4 DEF m
<1> HIDE DEF p
<1> QED BY <1>2, <1>3 DEF IteratesForever

LEMMA PowerIs ==
    /\ Power \in [Nat -> Nat] /\ Power[0] = 1
    /\ \A n \in Nat : Power[n + 1] = Base * Power[n]
<1> DEFINE F == [x \in Nat \X Nat |-> Base * x[1]]
<1>1. Base \in Nat /\ 1 \in Nat /\ F \in [Nat \X Nat -> Nat]
  BY PCodeAssumption
<1>2. \A x, i \in Nat : F[<<x, i>>] = Base * x
  OBVIOUS
<1> HIDE DEF F
<1>3. PICK p : IteratesForever(p, Nat, 1, F)
  BY <1>1, IteratedForever
<1>4. p \in [Nat -> Nat] /\ p[0] = 1
  BY <1>3 DEF IteratesForever
<1>5. ASSUME NEW n \in Nat PROVE p[n + 1] = Base * p[n]
  <2>1. n + 1 \in Nat /\ p[n] \in Nat /\ p[n + 1] = F[<<p[n], n + 1>>]
    BY <1>3 DEF IteratesForever
  <2> QED BY <1>2, <2>1
<1>6. p = [i \in Nat |-> IF i = 0 THEN 1 ELSE Base * p[i - 1]]
  <2>1. ASSUME NEW i \in Nat PROVE p[i] = IF i = 0 THEN 1 ELSE Base * p[i - 1]
    <3>1. CASE i = 0
      BY <1>4, <3>1
    <3>2. CASE i # 0
      <4>1. i - 1 \in Nat /\ (i - 1) + 1 = i
        BY <3>2
      <4> QED BY <1>5, <3>2, <4>1
    <3> QED BY <3>1, <3>2
  <2> QED BY <1>4, <2>1
<1>7. Power = [i \in Nat |-> IF i = 0 THEN 1 ELSE Base * Power[i - 1]]
  <2> DEFINE Is(g) == g = [i \in Nat |-> IF i = 0 THEN 1 ELSE Base * g[i - 1]]
  <2>1. \E g : Is(g)
    BY <1>6
  <2>2. Power = CHOOSE g : Is(g)
    BY DEF Power
  <2> QED BY <2>1, <2>2
<1>8. ASSUME NEW n \in Nat PROVE Power[n + 1] = Base * Power[n]
  BY <1>7
<1>9. Power[0] = 1
  BY <1>7
<1>10. \A n \in Nat : Power[n] \in Nat
  <2> DEFINE D == {n \in Nat : Power[n] \in Nat}
  <2>1. 0 \in D
    BY <1>9
  <2>2. \A n \in Nat : n \in D => n + 1 \in D
    BY <1>1, <1>8
  <2> HIDE DEF D
  <2>3. Nat \subseteq D
    BY <2>1, <2>2, NatInduct
  <2> QED BY <2>3 DEF D
<1>11. Power = [i \in Nat |-> Power[i]]
  BY <1>7
<1> QED BY <1>8, <1>9, <1>10, <1>11

LEMMA PowerPositive == \A n \in Nat : Power[n] \in Nat \ {0}
<1> DEFINE D == {n \in Nat : Power[n] \in Nat \ {0}}
<1>1. 0 \in D
  BY PowerIs
<1>2. ASSUME NEW n \in Nat, n \in D PROVE n + 1 \in D
  <2>1. \A x, y \in Nat \ {0} : x * y \in Nat \ {0}
    OBVIOUS
  <2>2. Base \in Nat \ {0} /\ Power[n] \in Nat \ {0} /\ Power[n + 1] = Base * Power[n]
    BY <1>2, PowerIs, PCodeAssumption
  <2>3. Power[n + 1] \in Nat \ {0}
    BY <2>1, <2>2
  <2> QED BY <2>3
<1> HIDE DEF D
<1>3. Nat \subseteq D
  BY <1>1, <1>2, NatInduct
<1> QED BY <1>3 DEF D

LEMMA PowerAdds == \A m, n \in Nat : Power[m + n] = Power[m] * Power[n]
<1> SUFFICES ASSUME NEW m \in Nat PROVE \A n \in Nat : Power[m + n] = Power[m] * Power[n]
  OBVIOUS
<1> DEFINE D == {n \in Nat : Power[m + n] = Power[m] * Power[n]}
<1>0. Power[m] \in Nat
  BY PowerPositive
<1>1. 0 \in D
  BY <1>0, PowerIs
<1>2. ASSUME NEW n \in Nat, n \in D PROVE n + 1 \in D
  <2>1. Power[m + (n + 1)] = Base * Power[m + n]
    <3>1. m + n \in Nat /\ m + (n + 1) = (m + n) + 1
      OBVIOUS
    <3> QED BY <3>1, PowerIs
  <2>2. Power[n + 1] = Base * Power[n] /\ Power[m + n] = Power[m] * Power[n]
    BY <1>2, PowerIs
  <2>3. Base \in Nat /\ Power[n] \in Nat
    BY PowerPositive, PCodeAssumption
  <2>4. \A x, y, z \in Nat : x * (y * z) = y * (x * z)
    OBVIOUS
  <2> QED BY <1>0, <2>1, <2>2, <2>3, <2>4
<1> HIDE DEF D
<1>3. Nat \subseteq D
  BY <1>1, <1>2, NatInduct
<1> QED BY <1>3 DEF D

LEMMA DivMod ==
    \A x \in Int, c \in Nat \ {0} :
        /\ x \div c \in Int /\ x % c \in 0..(c - 1)
        /\ x = (x \div c) * c + (x % c)
        /\ x \in Nat => x \div c \in Nat
<1> SUFFICES ASSUME NEW x \in Int, NEW c \in Nat \ {0}
             PROVE  /\ x \div c \in Int /\ x % c \in 0..(c - 1)
                    /\ x = (x \div c) * c + (x % c)
                    /\ x \in Nat => x \div c \in Nat
  OBVIOUS
<1>1. x \div c \in Int /\ x % c \in 0..(c - 1) /\ x = (x \div c) * c + (x % c)
  OBVIOUS
<1>2. ASSUME x \in Nat, x \div c <= -1 PROVE FALSE
  <2>1. (x \div c) * c <= (-1) * c
    BY <1>1, <1>2
  <2> QED BY <1>1, <1>2, <2>1
<1> QED BY <1>1, <1>2

\* Quotient and remainder are unique.
LEMMA DivModUnique ==
    ASSUME NEW c \in Nat \ {0}, NEW q \in Int, NEW r \in 0..(c - 1)
    PROVE  (q * c + r) \div c = q /\ (q * c + r) % c = r
OBVIOUS

LEMMA DivModAdds ==
    ASSUME NEW x \in Int, NEW m \in Int, NEW c \in Nat \ {0}
    PROVE  (x + m * c) \div c = (x \div c) + m /\ (x + m * c) % c = x % c
<1>1. x \div c \in Int /\ x % c \in 0..(c - 1) /\ x = (x \div c) * c + (x % c)
  BY DivMod
<1>2. x + m * c = ((x \div c) + m) * c + (x % c)
  <2>1. \A a, b, d \in Int : (a * c + b) + d * c = (a + d) * c + b
    OBVIOUS
  <2> QED BY <1>1, <2>1
<1> DEFINE q == (x \div c) + m
           r == x % c
<1>3. q \in Int /\ r \in 0..(c - 1) /\ x + m * c = q * c + r
  BY <1>1, <1>2
<1> HIDE DEF q, r
<1>4. (q * c + r) \div c = q /\ (q * c + r) % c = r
  BY <1>3, DivModUnique
<1>5. (x + m * c) \div c = q /\ (x + m * c) % c = r
  BY <1>3, <1>4
<1> QED BY <1>5 DEF q, r

-----------------------------------------------------------------------------
LEMMA DigitType ==
    ASSUME NEW v \in Nat, NEW i \in Nat
    PROVE  Digit(v, i) \in 0..(Base - 1)
<1>1. v \div Power[i] \in Int
  <2>1. v \in Int /\ Power[i] \in Nat \ {0}
    BY PowerPositive
  <2> QED BY Zenon, <2>1, DivMod
<1>2. Base \in Nat \ {0}
  BY PCodeAssumption
<1> QED BY <1>1, <1>2, DivMod DEF Digit

\* One more digit.
LEMMA ModDigit ==
    ASSUME NEW v \in Nat, NEW k \in Nat
    PROVE  v % Power[k + 1] = (v % Power[k]) + Digit(v, k) * Power[k]
<1> DEFINE w == Power[k]
           q == v \div w
           d == q % Base
           r == v % w
<1>1. Base \in Nat \ {0} /\ w \in Nat \ {0} /\ Power[k + 1] = Base * w
      /\ Power[k + 1] \in Nat \ {0}
  BY PowerIs, PowerPositive, PCodeAssumption
<1>2. q \in Int /\ r \in 0..(w - 1) /\ v = q * w + r
  <2>1. v \in Int
    OBVIOUS
  <2> QED BY Zenon, <1>1, <2>1, DivMod
<1>3. q \div Base \in Int /\ d \in 0..(Base - 1) /\ q = (q \div Base) * Base + d
  BY <1>1, <1>2, DivMod
<1> DEFINE h == q \div Base
<1>4. Digit(v, k) = d
  BY DEF Digit
<1>5. h \in Int /\ q = h * Base + d
  BY <1>3
<1> HIDE DEF w, q, d, r, h
<1>6. v = h * (Base * w) + (d * w + r)
  <2>1. \A a, b, x, y \in Int : (a * b + x) * y = a * (b * y) + x * y
    OBVIOUS
  <2>2. q * w = h * (Base * w) + d * w
    BY <1>1, <1>3, <1>5, <2>1
  <2> QED BY <1>1, <1>2, <1>3, <1>5, <2>2
<1>7. d * w + r \in 0..(Base * w - 1)
  <2>1. \A x, y, z \in Nat : x <= y - 1 /\ y > 0 => x * z <= y * z - z /\ x * z \in Nat
    <3>1. ASSUME NEW x \in Nat, NEW y \in Nat, NEW z \in Nat, x <= y - 1
          PROVE  x * z <= y * z - z /\ x * z \in Nat
      <4>1. (y - 1) * z = y * z - z /\ x * z \in Nat
        OBVIOUS
      <4>2. x * z <= (y - 1) * z
        BY <3>1
      <4> QED BY <4>1, <4>2
    <3> QED BY <3>1
  <2>2. d * w <= Base * w - w /\ d * w \in Nat
    BY <1>1, <1>3, <2>1
  <2>3. Base * w \in Nat
    BY <1>1
  <2> QED BY <1>1, <1>2, <2>2, <2>3
<1>8. v % (Base * w) = d * w + r
  BY <1>1, <1>5, <1>6, <1>7, DivModUnique
<1>9. r = v % Power[k] /\ w = Power[k]
  BY DEF r, w
<1>10. d * w + r = r + d * w
  BY <1>1, <1>2, <1>3
<1> QED BY <1>1, <1>4, <1>8, <1>9, <1>10

\* Digits further down are not changed by digits further up.
LEMMA DigitKept ==
    ASSUME NEW x \in Nat, NEW d \in Nat, NEW k \in Nat, NEW e \in Nat, e < k
    PROVE  Digit(x + d * Power[k], e) = Digit(x, e)
<1> DEFINE w == Power[e]
           u == Power[k - 1 - e]
<1>1. k - 1 - e \in Nat /\ (k - 1 - e) + e = k - 1 /\ k - 1 \in Nat /\ (k - 1) + 1 = k
  OBVIOUS
<1>2. Base \in Nat \ {0} /\ w \in Nat \ {0} /\ u \in Nat
  BY <1>1, PowerPositive, PCodeAssumption
<1>3. Power[k] = Base * (u * w)
  BY <1>1, PowerIs, PowerAdds
<1> HIDE DEF u
<1>4. d * Power[k] = ((d * u) * Base) * w
  <2>1. w \in Nat
    BY <1>2
  <2> HIDE DEF w
  <2>2. \A a, b, c, f \in Nat : a * (b * (c * f)) = ((a * c) * b) * f
    OBVIOUS
  <2> QED BY <1>2, <1>3, <2>1, <2>2
<1>5. d * u \in Int /\ (d * u) * Base \in Int
  BY <1>2
<1>6. (x + d * Power[k]) \div w = (x \div w) + (d * u) * Base
  <2> DEFINE m == (d * u) * Base
  <2>1. x \in Int /\ m \in Int
    BY <1>5
  <2>2. d * Power[k] = m * w
    BY <1>4
  <2> HIDE DEF m, w
  <2>3. (x + m * w) \div w = (x \div w) + m
    BY <1>2, <2>1, DivModAdds
  <2> QED BY <2>2, <2>3 DEF m
<1>7. x \div w \in Int
  BY <1>2, DivMod
<1>8. ((x \div w) + (d * u) * Base) % Base = (x \div w) % Base
  BY <1>2, <1>5, <1>7, DivModAdds
<1> QED BY <1>6, <1>8 DEF Digit

LEMMA DigitOnTop ==
    ASSUME NEW k \in Nat, NEW x \in 0..(Power[k] - 1), NEW d \in 0..(Base - 1)
    PROVE  Digit(x + d * Power[k], k) = d
<1>1. Base \in Nat \ {0} /\ Power[k] \in Nat \ {0}
  BY PowerPositive, PCodeAssumption
<1>2. x + d * Power[k] = d * Power[k] + x
  BY <1>1
<1>3. (x + d * Power[k]) \div Power[k] = d
  BY <1>1, <1>2, DivModUnique
<1>4. d % Base = d
  BY <1>1
<1> QED BY <1>3, <1>4 DEF Digit

\* The low digits of a number are those of its remainder.
LEMMA DigitOfMod ==
    ASSUME NEW v \in Nat, NEW n \in Nat, NEW e \in Nat, e < n
    PROVE  Digit(v % Power[n], e) = Digit(v, e)
<1>1. /\ v \div Power[n] \in Nat /\ v % Power[n] \in Nat
      /\ v = (v % Power[n]) + (v \div Power[n]) * Power[n]
  <2>1. Power[n] \in Nat \ {0}
    BY PowerPositive
  <2>2. /\ v \div Power[n] \in Nat /\ v % Power[n] \in 0..(Power[n] - 1)
        /\ v = (v \div Power[n]) * Power[n] + (v % Power[n])
    <3>1. v \in Int
      OBVIOUS
    <3> QED BY Zenon, <2>1, <3>1, DivMod
  <2> QED BY <2>1, <2>2
<1> QED BY <1>1, DigitKept

-----------------------------------------------------------------------------
(* From bytes to numbers and back.                                         *)

LEMMA Places ==
    ASSUME NEW n \in Nat, NEW i \in Digits(n)
    PROVE  Place(i, n) \in Digits(n) /\ Place(Place(i, n), n) = i
BY DEF Digits, Place

\* Bytes that are the digits of v make the number v, as far as they reach.
LEMMA FromBytesIs ==
    ASSUME NEW n \in Nat, NEW v \in Nat, NEW bytes,
           \A e \in Digits(n) : bytes[Place(e, n)] = Digit(v, e)
    PROVE  FromBytes(bytes, n) = v % Power[n]
<1> DEFINE Is(g) ==
               g = [i \in 0..n |->
                       IF i = 0 THEN 0
                       ELSE g[i - 1] + bytes[Place(i - 1, n)] * Power[i - 1]]
           f == CHOOSE g : Is(g)
           w == [i \in 0..n |-> v % Power[i]]
<1>0. v % Power[0] = 0
  BY PowerIs
<1>1. ASSUME NEW i \in 1..n
      PROVE  /\ i - 1 \in 0..n
             /\ v % Power[i] = (v % Power[i - 1]) + bytes[Place(i - 1, n)] * Power[i - 1]
  <2>1. i - 1 \in Nat /\ i - 1 \in Digits(n) /\ i - 1 \in 0..n /\ (i - 1) + 1 = i
    BY DEF Digits
  <2>2. v % Power[(i - 1) + 1] = (v % Power[i - 1]) + Digit(v, i - 1) * Power[i - 1]
    BY <2>1, ModDigit
  <2> QED BY <2>1, <2>2
<1>2. Is(w)
  <2>1. ASSUME NEW i \in 0..n
        PROVE  v % Power[i] = IF i = 0 THEN 0
                              ELSE w[i - 1] + bytes[Place(i - 1, n)] * Power[i - 1]
    <3>1. CASE i = 0
      BY <1>0, <3>1
    <3>2. CASE i # 0
      BY <1>1, <3>2
    <3> QED BY <3>1, <3>2
  <2> QED BY <2>1
<1>3. Is(f)
  <2> HIDE DEF w
  <2> QED BY <1>2
<1>4. FromBytes(bytes, n) = f[n]
  BY DEF FromBytes
<1> HIDE DEF f
<1> DEFINE D == {i \in Nat : i <= n => f[i] = v % Power[i]}
<1>5. 0 \in D
  BY <1>0, <1>3
<1>6. ASSUME NEW i \in Nat, i \in D PROVE i + 1 \in D
  <2> SUFFICES ASSUME i + 1 <= n PROVE f[i + 1] = v % Power[i + 1]
    OBVIOUS
  <2>1. i + 1 \in 1..n /\ i + 1 \in 0..n /\ i + 1 # 0 /\ (i + 1) - 1 = i
    OBVIOUS
  <2>2. f[i + 1] = f[i] + bytes[Place(i, n)] * Power[i]
    BY <1>3, <2>1
  <2>3. v % Power[i + 1] = (v % Power[i]) + bytes[Place(i, n)] * Power[i]
    BY <1>1, <2>1
  <2> QED BY <1>6, <2>2, <2>3
<1> HIDE DEF D
<1>7. n \in D
  BY <1>5, <1>6, NatInduct
<1> QED BY <1>4, <1>7 DEF D

\* Any digits are those of a number.
LEMMA DigitsMake ==
    ASSUME NEW n \in Nat, NEW d \in [Digits(n) -> 0..(Base - 1)]
    PROVE  \E v \in 0..(Power[n] - 1) : \A e \in Digits(n) : Digit(v, e) = d[e]
<1> DEFINE Makes(v, m) == v \in 0..(Power[m] - 1) /\ \A e \in Digits(m) : Digit(v, e) = d[e]
           D == {m \in Nat : m <= n => \E v : Makes(v, m)}
<1>1. 0 \in D
  <2>1. 0 \in 0..(Power[0] - 1) /\ Digits(0) = {}
    BY PowerIs DEF Digits
  <2> QED BY <2>1
<1>2. ASSUME NEW m \in Nat, m \in D PROVE m + 1 \in D
  <2> SUFFICES ASSUME m + 1 <= n PROVE \E v : Makes(v, m + 1)
    OBVIOUS
  <2>1. PICK v : Makes(v, m)
    BY <1>2
  <2>2. m \in Digits(n) /\ d[m] \in 0..(Base - 1)
    BY DEF Digits
  <2>3. Base \in Nat \ {0} /\ Power[m] \in Nat \ {0} /\ Power[m + 1] = Base * Power[m]
    BY PowerIs, PowerPositive, PCodeAssumption
  <2> DEFINE u == v + d[m] * Power[m]
  <2>4. u \in 0..(Power[m + 1] - 1)
    <3>1. d[m] * Power[m] \in Nat /\ d[m] * Power[m] <= (Base - 1) * Power[m]
      BY <2>2, <2>3
    <3>2. (Base - 1) * Power[m] = Base * Power[m] - Power[m] /\ Base * Power[m] \in Nat
      BY <2>3
    <3> QED BY <2>1, <2>3, <3>1, <3>2
  <2>5. Digit(u, m) = d[m]
    BY <2>1, <2>2, DigitOnTop
  <2>6. ASSUME NEW e \in Digits(m + 1), e # m PROVE Digit(u, e) = d[e]
    <3>1. e \in Nat /\ e < m /\ e \in Digits(m)
      BY <2>6 DEF Digits
    <3>2. v \in Nat /\ d[m] \in Nat
      BY <2>1, <2>2, <2>3
    <3>3. Digit(u, e) = Digit(v, e)
      BY <3>1, <3>2, DigitKept
    <3> QED BY <2>1, <3>1, <3>3
  <2> HIDE DEF u
  <2> QED BY <2>4, <2>5, <2>6
<1> HIDE DEF D
<1>3. n \in D
  BY <1>1, <1>2, NatInduct
<1> QED BY <1>3 DEF D
-----------------------------------------------------------------------------
(* What a call may do.                                                     *)

\* Every state has the three parts, and each the bytes that exist.
CellsShaped ==
    /\ cells = [h \in Handles |-> cells[h]]
    /\ \A h \in Handles :
          /\ cells[h] = [s \in Parts |-> cells[h][s]]
          /\ \A s \in Parts : DOMAIN cells[h][s] = Offsets[s]

ByteValues == 0..(Base - 1)
CellsAreBytes == \A h \in Handles, s \in Parts : \A o \in Offsets[s] : cells[h][s][o] \in ByteValues

\* Bytes fit to be left in an operand.
OperandShaped(op) == op.offset \in Nat /\ op.size \in Nat
Fit(bytes, op) == OperandShaped(op) /\ \A i \in Digits(op.size) : bytes[i] \in ByteValues

\* What a call may have done, by its name.
Harmless == UNCHANGED cells

Wrote(h, op) ==
    /\ h \in Handles /\ op.space \in Parts
    /\ cells' = [cells EXCEPT ![h][op.space] = cells'[h][op.space]]
    /\ DOMAIN cells'[h][op.space] = Offsets[op.space]
    /\ \A o \in Offsets[op.space] \ Extent(op) : cells'[h][op.space][o] = cells[h][op.space][o]
    /\ \A o \in Offsets[op.space] \cap Extent(op) : cells'[h][op.space][o] \in ByteValues

Became(h, k) == cells' = [cells EXCEPT ![h] = cells[k]]

LEMMA ReadsHarmless ==
    ASSUME NEW h, NEW op, GetOperand(h, op) \/ GetAddress(h, op)
    PROVE  Harmless
  BY DEF GetOperand, GetAddress, NoOperandValues, Return, Harmless

\* Whatever bytes are left in the operand.
LEMMA PutWrites ==
    ASSUME CellsShaped, NEW h \in Handles, NEW op, op.space \in Parts, NEW bytes,
           Fit(bytes, op), cells' = Put(h, op, bytes)
    PROVE  Wrote(h, op)
  <1> DEFINE s == op.space
             new == [o \in DOMAIN cells[h][s] |->
                        IF o \in Extent(op) THEN bytes[o - op.offset] ELSE cells[h][s][o]]
  <1>1. DOMAIN cells[h][s] = Offsets[s] BY DEF CellsShaped
  <1>2. cells' = [cells EXCEPT ![h][s] = new] BY DEF Put
  <1>3. cells'[h][s] = new BY <1>2 DEF CellsShaped
  <1>4. DOMAIN new = Offsets[s] /\ \A o \in Offsets[s] \ Extent(op) : new[o] = cells[h][s][o]
    BY <1>1
  <1>5. ASSUME NEW o \in Offsets[s] \cap Extent(op) PROVE new[o] \in ByteValues
    <2>1. o - op.offset \in Digits(op.size) BY DEF Extent, Digits, Fit, OperandShaped
    <2>2. new[o] = bytes[o - op.offset] BY <1>1
    <2> QED BY <2>1, <2>2 DEF Fit
  <1> HIDE DEF new
  <1> QED BY <1>2, <1>3, <1>4, <1>5 DEF Wrote

LEMMA WritesWithin ==
    ASSUME CellsShaped, NEW h \in Handles, NEW op, NEW bytes, Fit(bytes, op),
           WithOperandValuesMut(h, op, bytes)
    PROVE  Harmless \/ Wrote(h, op)
  <1>1. CASE Exists(op) /\ cells' = Put(h, op, bytes)
    <2>1. op.space \in Parts BY <1>1 DEF Exists
    <2> QED BY <1>1, <2>1, PutWrites
  <1>2. CASE UNCHANGED cells BY <1>2 DEF Harmless
  <1> QED BY <1>1, <1>2 DEF WithOperandValuesMut, Return

LEMMA NumbersNat == Numbers \subseteq Nat
  <1>1. AddressSize \in Nat BY PCodeAssumption DEF MaxPointerSize
  <1>2. Power[AddressSize] \in Nat BY <1>1, PowerPositive
  <1> QED BY <1>2, PCodeAssumption

LEMMA AddressFits ==
    ASSUME NEW v \in Nat, NEW n \in Nat
    PROVE  \A i \in Digits(n) : AddressBytes(v, n)[i] \in ByteValues
  <1> SUFFICES ASSUME NEW i \in Digits(n) PROVE AddressBytes(v, n)[i] \in ByteValues
    OBVIOUS
  <1>1. Place(i, n) \in Nat BY Places DEF Digits
  <1>2. AddressBytes(v, n)[i] = Digit(v, Place(i, n)) BY DEF AddressBytes, IntoBytes
  <1> QED BY <1>1, <1>2, DigitType DEF ByteValues

LEMMA OperandsShaped == \A op \in Operands : OperandShaped(op) /\ op.size > 0
  BY PCodeAssumption DEF OperandShaped

LEMMA AccessWithin ==
    ASSUME CellsShaped, CellsAreBytes, NEW h \in Handles, Access(h)
    PROVE  /\ call'[1] # "Become" /\ call'[2] = h
           /\ Harmless \/ Wrote(h, call'[3])
  <1>1. ASSUME NEW op \in Operands, GetOperand(h, op), call' = <<"GetOperand", h, op>>
        PROVE  /\ call'[1] # "Become" /\ call'[2] = h
               /\ Harmless \/ Wrote(h, call'[3])
    BY <1>1, ReadsHarmless
  <1>2. ASSUME NEW op \in Operands, GetAddress(h, op), call' = <<"GetAddress", h, op>>
        PROVE  /\ call'[1] # "Become" /\ call'[2] = h
               /\ Harmless \/ Wrote(h, call'[3])
    BY <1>2, ReadsHarmless
  <1>3. ASSUME NEW op \in Operands, NEW b \in Bytes,
               SetOperand(h, op, [i \in Digits(op.size) |-> b]),
               call' = <<"SetOperand", h, op>>
        PROVE  /\ call'[1] # "Become" /\ call'[2] = h
               /\ Harmless \/ Wrote(h, call'[3])
    <2>0. Fit([i \in Digits(op.size) |-> b], op)
      BY OperandsShaped, PCodeAssumption DEF Fit, ByteValues
    <2>1. Harmless \/ Wrote(h, op) BY <1>3, <2>0, WritesWithin DEF SetOperand
    <2> QED BY <1>3, <2>1
  <1>4. ASSUME NEW op \in Operands, NEW v \in Numbers, SetAddress(h, op, v),
               call' = <<"SetAddress", h, op, v>>
        PROVE  /\ call'[1] # "Become" /\ call'[2] = h
               /\ Harmless \/ Wrote(h, call'[3])
    <2>0. Fit(AddressBytes(v, op.size), op)
      <3>1. OperandShaped(op) /\ op.size \in Nat /\ v \in Nat
        BY OperandsShaped, NumbersNat DEF OperandShaped
      <3>2. \A i \in Digits(op.size) : AddressBytes(v, op.size)[i] \in ByteValues
        BY <3>1, AddressFits
      <3> QED BY <3>1, <3>2 DEF Fit
    <2>1. Harmless \/ Wrote(h, op)
      BY <1>4, <2>0, WritesWithin DEF SetAddress, Return, Harmless
    <2> QED BY <1>4, <2>1
  <1>5. ASSUME NEW s \in Offsets.Memory, NEW d \in Offsets.Memory, NEW n \in 1..2,
               CopyValues(h, s, d, n),
               call' = <<"CopyValues", h, [space |-> "Memory", offset |-> d, size |-> n]>>
        PROVE  /\ call'[1] # "Become" /\ call'[2] = h
               /\ Harmless \/ Wrote(h, call'[3])
    <2> DEFINE to == [space |-> "Memory", offset |-> d, size |-> n]
    <2>1. \/ UNCHANGED cells
          \/ WithOperandValuesMut(h, to, [i \in Digits(n) |-> cells[h].Memory[s + i]])
      BY <1>5 DEF CopyValues, SetOperand, Return
    <2>0. Exists([space |-> "Memory", offset |-> s, size |-> n]) =>
             Fit([i \in Digits(n) |-> cells[h].Memory[s + i]], to)
      <3> SUFFICES ASSUME Exists([space |-> "Memory", offset |-> s, size |-> n])
                   PROVE  Fit([i \in Digits(n) |-> cells[h].Memory[s + i]], to)
        OBVIOUS
      <3>1. s..(s + n - 1) \subseteq Offsets.Memory BY DEF Exists, Extent
      <3>2. s \in Nat /\ d \in Nat BY PCodeAssumption DEF Parts
      <3>3. \A i \in Digits(n) : s + i \in Offsets["Memory"] BY <3>1, <3>2 DEF Digits
      <3>4. \A i \in Digits(n) : cells[h]["Memory"][s + i] \in ByteValues
        BY <3>3 DEF CellsAreBytes, Parts
      <3> QED BY <3>2, <3>4 DEF Fit, OperandShaped
    <2>2. Harmless \/ Wrote(h, to)
      BY <1>5, <2>0, <2>1, WritesWithin DEF Harmless, CopyValues, Return
    <2> QED BY <1>5, <2>2
  <1> QED BY <1>1, <1>2, <1>3, <1>4, <1>5 DEF Access

LEMMA BecomesCopy ==
    ASSUME CellsShaped, NEW h \in Handles, NEW k \in Handles,
           Fork(k, h) \/ Restore(h, k)
    PROVE  Became(h, k)
  <1>1. Restored = Parts BY DEF Restored, Parts
  <1>2. Becomes(h, k, Parts) BY <1>1 DEF Fork, Restore
  <1>3. cells' = [cells EXCEPT ![h] = [s \in Parts |-> cells[k][s]]]
    BY <1>2 DEF Becomes, CellsShaped
  <1> QED BY <1>3 DEF Became, CellsShaped

PartsInv == CellsShaped /\ CellsAreBytes /\ live \subseteq Handles

\* Every step is one of four.
Kinds ==
    \/ Harmless /\ call'[1] # "Become"
    \/ \E h \in Handles : Wrote(h, call'[3]) /\ call'[1] # "Become" /\ call'[2] = h
    \/ \E h, k \in Handles : Became(h, k) /\ call' = <<"Become", h, k>>
    \/ UNCHANGED vars

LEMMA StepKinds == PartsInv /\ [Next]_vars => Kinds
  <1> USE DEF PartsInv
  <1> SUFFICES ASSUME CellsShaped, CellsAreBytes, live \subseteq Handles, [Next]_vars PROVE Kinds
    OBVIOUS
  <1>1. ASSUME NEW h \in live, Access(h) PROVE Kinds
    BY <1>1, AccessWithin DEF Kinds
  <1>2. ASSUME NEW h \in live, NEW k \in Handles, Fork(h, k), call' = <<"Become", k, h>>
        PROVE  Kinds
    BY <1>2, BecomesCopy DEF Kinds
  <1>3. ASSUME NEW h \in live, NEW k \in live, Restore(h, k), call' = <<"Become", h, k>>
        PROVE  Kinds
    BY <1>3, BecomesCopy DEF Kinds
  <1> QED BY <1>1, <1>2, <1>3 DEF Next, Kinds

-----------------------------------------------------------------------------
LEMMA InitParts == Init => PartsInv
  <1> SUFFICES ASSUME Init PROVE PartsInv OBVIOUS
  <1>1. CellsShaped BY DEF Init, CellsShaped
  <1>2. CellsAreBytes BY PCodeAssumption DEF Init, CellsAreBytes, ByteValues
  <1> QED BY <1>1, <1>2 DEF PartsInv, Init

LEMMA ShapeStep == CellsShaped /\ Kinds => CellsShaped'
  <1> SUFFICES ASSUME CellsShaped, Kinds PROVE CellsShaped' OBVIOUS
  <1>1. CASE UNCHANGED cells BY <1>1 DEF CellsShaped
  <1>2. ASSUME NEW h \in Handles, NEW op, Wrote(h, op) PROVE CellsShaped'
    <2> DEFINE new == cells'[h][op.space]
    <2>1. cells' = [cells EXCEPT ![h][op.space] = new] /\ op.space \in Parts
          /\ DOMAIN new = Offsets[op.space]
      BY <1>2 DEF Wrote
    <2> HIDE DEF new
    <2>2. cells' = [i \in Handles |-> cells'[i]] BY <2>1 DEF CellsShaped
    <2>3. \A i \in Handles : cells'[i] = [s \in Parts |-> cells'[i][s]]
      BY <2>1 DEF CellsShaped
    <2>4. \A i \in Handles : \A s \in Parts : DOMAIN cells'[i][s] = Offsets[s]
      BY <2>1 DEF CellsShaped
    <2> QED BY <2>2, <2>3, <2>4 DEF CellsShaped
  <1>3. ASSUME NEW h \in Handles, NEW k \in Handles, Became(h, k) PROVE CellsShaped'
    BY <1>3 DEF Became, CellsShaped
  <1> QED BY <1>1, <1>2, <1>3 DEF Kinds, Harmless, vars

LEMMA BytesStep == CellsShaped /\ CellsAreBytes /\ Kinds => CellsAreBytes'
  <1> SUFFICES ASSUME CellsShaped, CellsAreBytes, Kinds,
                      NEW h \in Handles, NEW s \in Parts, NEW o \in Offsets[s]
               PROVE  cells'[h][s][o] \in ByteValues
    BY DEF CellsAreBytes
  <1>0. cells[h][s][o] \in ByteValues BY DEF CellsAreBytes
  <1>1. CASE UNCHANGED cells BY <1>0, <1>1
  <1>2. ASSUME NEW i \in Handles, NEW op, Wrote(i, op) PROVE cells'[h][s][o] \in ByteValues
    <2>1. CASE h # i \/ s # op.space
      <3>1. cells'[h][s] = cells[h][s] BY <1>2, <2>1 DEF Wrote, CellsShaped
      <3> QED BY <1>0, <3>1
    <2>2. CASE h = i /\ s = op.space BY <1>0, <1>2, <2>2 DEF Wrote
    <2> QED BY <2>1, <2>2
  <1>3. ASSUME NEW i \in Handles, NEW k \in Handles, Became(i, k)
        PROVE  cells'[h][s][o] \in ByteValues
    <2>1. cells[k][s][o] \in ByteValues BY DEF CellsAreBytes
    <2>2. cells'[h] = cells[h] \/ cells'[h] = cells[k] BY <1>3 DEF Became, CellsShaped
    <2> QED BY <1>0, <2>1, <2>2
  <1> QED BY <1>1, <1>2, <1>3 DEF Kinds, Harmless, vars

LEMMA PartsStep == PartsInv /\ [Next]_vars => PartsInv'
  <1> SUFFICES ASSUME PartsInv, [Next]_vars PROVE PartsInv' OBVIOUS
  <1>1. CellsShaped' /\ CellsAreBytes' BY StepKinds, ShapeStep, BytesStep DEF PartsInv
  <1>2. live' \subseteq Handles
    <2>1. ASSUME NEW h \in live, Access(h) PROVE live' = live
      <3>1. \A op, bytes : WithOperandValuesMut(h, op, bytes) => live' = live
        BY DEF WithOperandValuesMut, Return
      <3>2. \A op : GetOperand(h, op) \/ GetAddress(h, op) => live' = live
        BY DEF GetOperand, GetAddress, NoOperandValues, Return
      <3>3. \A op, v : SetAddress(h, op, v) => live' = live
        BY <3>1 DEF SetAddress, Return
      <3>4. \A s, d, n : CopyValues(h, s, d, n) => live' = live
        BY <3>1 DEF CopyValues, SetOperand, Return
      <3> QED BY <2>1, <3>1, <3>2, <3>3, <3>4 DEF Access, SetOperand
    <2> QED BY <2>1 DEF Next, Fork, Restore, vars, PartsInv
  <1> QED BY <1>1, <1>2 DEF PartsInv

LEMMA PartsInvariant == Spec => []PartsInv
  <1>1. Init => PartsInv BY InitParts
  <1>2. PartsInv /\ [Next]_vars => PartsInv' BY PartsStep
  <1> QED BY <1>1, <1>2, PTL DEF Spec

LEMMA OthersStep ==
    ASSUME CellsShaped, Kinds, NEW h \in Handles, NEW s \in Parts
    PROVE  \/ UNCHANGED vars
           \/ /\ call'[1] = "Become" /\ call'[2] = h => cells'[h] = cells[call'[3]]
              /\ Changed(h, s) # {} =>
                    /\ call'[2] = h
                    /\ call'[1] # "Become" =>
                          call'[3].space = s /\ Changed(h, s) \subseteq Extent(call'[3])
  <1>1. CASE Harmless /\ call'[1] # "Become"
    BY <1>1 DEF Harmless, Changed
  <1>2. ASSUME NEW i \in Handles, Wrote(i, call'[3]), call'[1] # "Become", call'[2] = i
        PROVE  Changed(h, s) # {} =>
                  /\ call'[2] = h
                  /\ call'[3].space = s /\ Changed(h, s) \subseteq Extent(call'[3])
    <2> DEFINE op == call'[3]
    <2>1. i # h \/ op.space # s => cells'[h][s] = cells[h][s]
      BY <1>2 DEF Wrote, CellsShaped
    <2>2. i = h /\ op.space = s => Changed(h, s) \subseteq Extent(op)
      BY <1>2 DEF Wrote, Changed
    <2> QED BY <1>2, <2>1, <2>2 DEF Changed
  <1>3. ASSUME NEW i \in Handles, NEW k \in Handles, Became(i, k), call' = <<"Become", i, k>>
        PROVE  /\ call'[2] = h => cells'[h] = cells[call'[3]]
               /\ Changed(h, s) # {} => call'[2] = h
    BY <1>3 DEF Became, CellsShaped, Changed
  <1> QED BY <1>1, <1>2, <1>3 DEF Kinds

\* Of every state the program holds a call changes the operand it names, and a
\* fork or restore makes a state the other in all its parts, whatever the widths
\* and wherever operands overlap (pcode.rs:145-179, 281-303).
THEOREM PCodeOthersKept == Spec => OthersKept
  <1>1. PartsInv /\ [Next]_vars =>
            [ \A h \in Handles, s \in Parts :
                /\ call'[1] = "Become" /\ call'[2] = h => cells'[h] = cells[call'[3]]
                /\ Changed(h, s) # {} =>
                      /\ call'[2] = h
                      /\ call'[1] # "Become" =>
                            call'[3].space = s /\ Changed(h, s) \subseteq Extent(call'[3])
            ]_vars
    BY StepKinds, OthersStep DEF PartsInv
  <1> QED BY <1>1, PartsInvariant, PTL DEF Spec, OthersKept

-----------------------------------------------------------------------------
(* Addresses.                                                              *)

LEMMA PointersShort == PointerSizes \subseteq 1..8
  BY DEF PointerSizes

\* The low bytes of a constant make its low digits.
LEMMA ConstantRead ==
    ASSUME NEW v \in Nat, NEW n \in 1..8
    PROVE  FromBytes(ConstantBytes(v, n), n) = v % Power[n]
  <1>1. ASSUME NEW e \in Digits(n) PROVE ConstantBytes(v, n)[Place(e, n)] = Digit(v, e)
    <2> DEFINE i == Place(e, n)
               j == IF BigEndian THEN 8 - n + i ELSE i
    <2>1. i \in Digits(n) BY Places
    <2>2. j \in Digits(8) /\ Place(j, 8) = e BY DEF Digits, Place
    <2>3. ConstantBytes(v, n)[i] = IntoBytes(v, 8)[j] BY <2>1 DEF ConstantBytes
    <2>4. IntoBytes(v, 8)[j] = Digit(v, Place(j, 8)) BY <2>2 DEF IntoBytes
    <2> QED BY <2>2, <2>3, <2>4
  <1> QED BY <1>1, FromBytesIs

\* The cells of an operand make a number it holds.
LEMMA CellsRead ==
    ASSUME CellsAreBytes, NEW h \in Handles, NEW op, OperandShaped(op), Exists(op)
    PROVE  \E v \in 0..(Power[op.size] - 1) :
              /\ Holds(h, op, v)
              /\ FromBytes([i \in Digits(op.size) |-> cells[h][op.space][op.offset + i]], op.size) = v
  <1> DEFINE n == op.size
             bytes == [i \in Digits(n) |-> cells[h][op.space][op.offset + i]]
             d == [e \in Digits(n) |-> bytes[Place(e, n)]]
  <1>0. n \in Nat /\ op.offset \in Nat BY DEF OperandShaped
  <1>1. ASSUME NEW i \in Digits(n) PROVE bytes[i] \in 0..(Base - 1)
    <2>1. op.offset + i \in Offsets[op.space] BY <1>0 DEF Exists, Extent, Digits
    <2> QED BY <2>1 DEF CellsAreBytes, Exists, ByteValues
  <1>2. d \in [Digits(n) -> 0..(Base - 1)] BY <1>0, <1>1, Places
  <1> HIDE DEF d
  <1>3. PICK v \in 0..(Power[n] - 1) : \A e \in Digits(n) : Digit(v, e) = d[e]
    BY <1>0, <1>2, DigitsMake
  <1>4. Power[n] \in Nat \ {0} BY <1>0, PowerPositive
  <1>5. v \in Nat /\ v % Power[n] = v BY <1>4
  <1>6. \A e \in Digits(n) : bytes[Place(e, n)] = Digit(v, e) BY <1>3 DEF d
  <1>7. FromBytes(bytes, n) = v BY <1>0, <1>5, <1>6, FromBytesIs
  <1>8. Holds(h, op, v)
    <2> SUFFICES ASSUME NEW o \in Extent(op)
                 PROVE  cells[h][op.space][o] =
                            Digit(v, IF BigEndian THEN op.offset + op.size - 1 - o ELSE o - op.offset)
      BY DEF Holds
    <2> DEFINE i == o - op.offset
    <2>1. i \in Digits(n) /\ op.offset + i = o BY <1>0 DEF Extent, Digits
    <2>2. Place(i, n) \in Digits(n) /\ Place(Place(i, n), n) = i BY <1>0, <2>1, Places
    <2>3. bytes[i] = Digit(v, Place(i, n)) BY <1>6, <2>2
    <2>4. Place(i, n) = IF BigEndian THEN op.offset + op.size - 1 - o ELSE o - op.offset
      BY <1>0, <2>1 DEF Place, Extent
    <2> QED BY <2>1, <2>3, <2>4
  <1> QED BY <1>7, <1>8

LEMMA GetAddressReads ==
    ASSUME CellsAreBytes, NEW h \in Handles, NEW op \in Operands, GetAddress(h, op),
           call' = <<"GetAddress", h, op>>
    PROVE  AddressesRead'
  <1> SUFFICES ASSUME result'.status = "Ok"
               PROVE  IF op.space = "Constant"
                      THEN result'.value = Wrapped(op.offset % Power[op.size])
                      ELSE \E v \in 0..(Power[op.size] - 1) :
                              Holds(h, op, v)' /\ result'.value = Wrapped(v)
    BY DEF AddressesRead
  <1>1. /\ op.size \in PointerSizes /\ HasOperandValues(op)
        /\ result'.value = Wrapped(FromBytes(OperandValues(h, op), op.size))
        /\ UNCHANGED cells
    BY DEF GetAddress, NoOperandValues, Return, Parts
  <1>2. OperandShaped(op) /\ op.size \in 1..8 BY <1>1, OperandsShaped, PointersShort
  <1>3. CASE op.space = "Constant"
    <2>1. FromBytes(OperandValues(h, op), op.size) = op.offset % Power[op.size]
      BY <1>2, <1>3, ConstantRead DEF OperandValues, OperandShaped
    <2> QED BY <1>1, <1>3, <2>1
  <1>4. CASE op.space # "Constant"
    <2>1. Exists(op) BY <1>1, <1>4 DEF HasOperandValues
    <2>2. PICK v \in 0..(Power[op.size] - 1) :
              Holds(h, op, v) /\ FromBytes(OperandValues(h, op), op.size) = v
      BY <1>2, <1>4, <2>1, CellsRead DEF OperandValues
    <2>3. Holds(h, op, v)' BY <1>1, <2>2 DEF Holds
    <2> QED BY <1>1, <1>4, <2>2, <2>3
  <1> QED BY <1>3, <1>4

LEMMA SetAddressSets ==
    ASSUME CellsShaped, NEW h \in Handles, NEW op \in Operands, NEW v \in Numbers,
           SetAddress(h, op, v), call' = <<"SetAddress", h, op, v>>
    PROVE  AddressesSet'
  <1> SUFFICES ASSUME result'.status = "Ok"
               PROVE  op.size \in PointerSizes /\ Holds(h, op, v % Power[op.size])'
    BY DEF AddressesSet
  <1> DEFINE n == op.size
             bytes == AddressBytes(v, n)
  <1>1. n \in PointerSizes /\ Exists(op) /\ cells' = Put(h, op, bytes)
    BY DEF SetAddress, WithOperandValuesMut, Return, Parts
  <1>2. n \in Nat /\ op.offset \in Nat /\ v \in Nat
    BY OperandsShaped, NumbersNat DEF OperandShaped
  <1>3. ASSUME NEW o \in Extent(op)
        PROVE  cells'[h][op.space][o] =
                  Digit(v % Power[n], IF BigEndian THEN op.offset + n - 1 - o ELSE o - op.offset)
    <2> DEFINE i == o - op.offset
    <2>1. i \in Digits(n) BY <1>2 DEF Extent, Digits
    <2>2. cells'[h][op.space][o] = bytes[i]
      BY <1>1 DEF Put, Exists, CellsShaped
    <2>3. bytes[i] = Digit(v, Place(i, n)) BY <2>1 DEF AddressBytes, IntoBytes
    <2>4. Place(i, n) \in Nat /\ Place(i, n) < n
      <3>1. Place(i, n) \in Digits(n) BY <1>2, <2>1, Places
      <3> QED BY <1>2, <3>1 DEF Digits
    <2>5. Digit(v % Power[n], Place(i, n)) = Digit(v, Place(i, n))
      BY <1>2, <2>4, DigitOfMod
    <2>6. Place(i, n) = IF BigEndian THEN op.offset + n - 1 - o ELSE o - op.offset
      BY <1>2, <2>1 DEF Place, Extent
    <2> QED BY <2>2, <2>3, <2>5, <2>6
  <1> QED BY <1>1, <1>3 DEF Holds

AddressInv == PartsInv /\ AddressesRead /\ AddressesSet

LEMMA AddressStep == AddressInv /\ [Next]_vars => AddressInv'
  <1> SUFFICES ASSUME AddressInv, [Next]_vars PROVE AddressesRead' /\ AddressesSet'
    BY PartsStep DEF AddressInv
  <1>0. CellsShaped /\ CellsAreBytes /\ live \subseteq Handles BY DEF AddressInv, PartsInv
  <1>1. CASE UNCHANGED vars
    BY <1>1 DEF AddressInv, vars, AddressesRead, AddressesSet, Holds
  <1>2. CASE call'[1] \notin {"GetAddress", "SetAddress"}
    BY <1>2 DEF AddressesRead, AddressesSet
  <1>3. ASSUME NEW h \in live, NEW op \in Operands, GetAddress(h, op),
               call' = <<"GetAddress", h, op>>
        PROVE  AddressesRead' /\ AddressesSet'
    BY <1>0, <1>3, GetAddressReads DEF AddressesSet
  <1>4. ASSUME NEW h \in live, NEW op \in Operands, NEW v \in Numbers, SetAddress(h, op, v),
               call' = <<"SetAddress", h, op, v>>
        PROVE  AddressesRead' /\ AddressesSet'
    BY <1>0, <1>4, SetAddressSets DEF AddressesRead
  <1>5. ASSUME NEW h \in live, Access(h) PROVE AddressesRead' /\ AddressesSet'
    <2> DEFINE done == AddressesRead' /\ AddressesSet'
    <2>1. ASSUME NEW op \in Operands, GetOperand(h, op), call' = <<"GetOperand", h, op>>
          PROVE  done
      BY <1>2, <2>1
    <2>2. ASSUME NEW op \in Operands, GetAddress(h, op), call' = <<"GetAddress", h, op>>
          PROVE  done
      BY <1>3, <2>2
    <2>3. ASSUME NEW op \in Operands, NEW b \in Bytes,
                 SetOperand(h, op, [i \in Digits(op.size) |-> b]),
                 call' = <<"SetOperand", h, op>>
          PROVE  done
      BY <1>2, <2>3
    <2>4. ASSUME NEW op \in Operands, NEW v \in Numbers, SetAddress(h, op, v),
                 call' = <<"SetAddress", h, op, v>>
          PROVE  done
      BY <1>4, <2>4
    <2>5. ASSUME NEW s \in Offsets.Memory, NEW d \in Offsets.Memory, NEW n \in 1..2,
                 CopyValues(h, s, d, n),
                 call' = <<"CopyValues", h, [space |-> "Memory", offset |-> d, size |-> n]>>
          PROVE  done
      BY <1>2, <2>5
    <2> HIDE DEF done
    <2>6. done BY <1>5, <2>1, <2>2, <2>3, <2>4, <2>5 DEF Access
    <2> QED BY <2>6 DEF done
  <1>6. ASSUME NEW h, NEW k, call' = <<"Become", h, k>> PROVE AddressesRead' /\ AddressesSet'
    BY <1>2, <1>6
  <1> QED BY <1>1, <1>5, <1>6 DEF Next

LEMMA AddressInvariant == Spec => []AddressInv
  <1>1. Init => AddressInv BY InitParts DEF Init, AddressInv, AddressesRead, AddressesSet
  <1> QED BY <1>1, AddressStep, PTL DEF Spec

\* Whatever the width, the byte order and the part it is in, an address is read
\* as the number whose digits the operand holds, a constant as the low bytes of
\* its value, both cut to the memory space (pcode.rs:105-143, 207-236).
THEOREM PCodeAddressesRead == Spec => []AddressesRead
  BY AddressInvariant, PTL DEF AddressInv

\* An address that is set is held from then on, cut to the width of the operand,
\* which is that of a pointer (pcode.rs:248-275).
THEOREM PCodeAddressesSet == Spec => []AddressesSet
  BY AddressInvariant, PTL DEF AddressInv
=============================================================================
