---------------------------- MODULE InputProofs ----------------------------
(***************************************************************************)
(* The input provider for any number of word lists of any length, any      *)
(* number of jobs, and resets at any time: the cursors count through the   *)
(* combinations like the digits of a number whose base changes from place  *)
(* to place.                                                               *)
(***************************************************************************)
EXTENDS InputProvider, FiniteSetTheorems, WellFoundedInduction, TLAPS

-----------------------------------------------------------------------------
(* Induction, as a fact about sets: the least element of the complement has
   no predecessor in the set. *)
LEMMA SetInduction ==
  ASSUME NEW S, 0 \in S, \A n \in Nat : n \in S => n + 1 \in S
  PROVE  Nat \subseteq S
<1> SUFFICES ASSUME Nat \ S # {} PROVE FALSE
  OBVIOUS
<1>1. PICK x \in Nat \ S : \A y \in Nat \ S : ~(<<y, x>> \in OpToRel(<, Nat))
  BY WFMin, NatLessThanWellFounded
<1>2. \A y \in Nat \ S : ~(y < x)
  BY <1>1 DEF OpToRel
<1>3. x - 1 \in Nat /\ x - 1 < x /\ (x - 1) + 1 = x
  BY x # 0
<1> QED
  BY <1>2, <1>3

(* The same up to a bound. *)
LEMMA RangeInduction ==
  ASSUME NEW N \in Nat, NEW S, 0 \in S, \A n \in 1 .. N : n - 1 \in S => n \in S
  PROVE  0 .. N \subseteq S
<1> DEFINE T == {n \in Nat : n <= N => n \in S}
<1>1. 0 \in T
  OBVIOUS
<1>2. ASSUME NEW n \in Nat, n \in T PROVE n + 1 \in T
  BY <1>2, n + 1 \in 1 .. N => (n + 1) - 1 \in S
<1> HIDE DEF T
<1>3. Nat \subseteq T
  BY <1>1, <1>2, SetInduction
<1> QED
  BY <1>3 DEF T

(* Some function starts with base and goes from each value to the next by F. *)
Defines(N, S, base, F) ==
  \E g \in [0 .. N -> S] : g[0] = base /\ \A i \in 1 .. N : g[i] = F[i][g[i - 1]]

LEMMA Recursion ==
  ASSUME NEW N \in Nat, NEW S, NEW base \in S, NEW F \in [1 .. N -> [S -> S]]
  PROVE  Defines(N, S, base, F)
<1> DEFINE Upto(m, g) == /\ g[0] = base
                         /\ \A i \in 1 .. m : g[i] = F[i][g[i - 1]]
           T == {m \in 0 .. N : \E g \in [0 .. m -> S] : Upto(m, g)}
<1>1. 0 \in T
  <2> DEFINE g == [i \in 0 .. 0 |-> base]
  <2>1. g \in [0 .. 0 -> S] /\ Upto(0, g)
    OBVIOUS
  <2>2. 0 \in 0 .. N
    OBVIOUS
  <2> HIDE DEF g, Upto
  <2> QED
    BY <2>1, <2>2
<1>2. ASSUME NEW m \in 1 .. N, m - 1 \in T PROVE m \in T
  <2>1. PICK g \in [0 .. m - 1 -> S] : Upto(m - 1, g)
    BY <1>2
  <2> DEFINE h == [i \in 0 .. m |-> IF i = m THEN F[m][g[m - 1]] ELSE g[i]]
  <2>2. h \in [0 .. m -> S]
    <3>1. \A i \in 0 .. m : i = m \/ i \in 0 .. m - 1
      OBVIOUS
    <3>2. m - 1 \in 0 .. m - 1 /\ F[m] \in [S -> S]
      OBVIOUS
    <3> QED
      BY <3>1, <3>2
  <2>3. /\ h[m] = F[m][g[m - 1]]
        /\ \A i \in 0 .. m - 1 : h[i] = g[i]
    OBVIOUS
  <2> HIDE DEF h
  <2>4. Upto(m, h)
    <3>1. h[0] = base
      BY <2>1, <2>3
    <3>2. ASSUME NEW i \in 1 .. m PROVE h[i] = F[i][h[i - 1]]
      <4>1. i - 1 \in 0 .. m - 1
        OBVIOUS
      <4>2. CASE i = m
        BY <2>3, <4>1, <4>2
      <4>3. CASE i # m
        <5>1. i \in 0 .. m - 1 /\ i \in 1 .. m - 1
          BY <4>3
        <5> QED
          BY <2>1, <2>3, <4>1, <5>1
      <4> QED
        BY <4>2, <4>3
    <3> QED
      BY <3>1, <3>2
  <2> QED
    BY <2>2, <2>4
<1> HIDE DEF T
<1>3. N \in T
  <2>1. 0 .. N \subseteq T
    BY <1>1, <1>2, RangeInduction
  <2> QED
    BY <2>1
<1> QED
  BY <1>3 DEF T, Defines

-----------------------------------------------------------------------------
(* Division by a positive number leaves a quotient and a smaller rest, and
   they are the only ones. *)
LEMMA DivMod ==
  ASSUME NEW n \in Nat, NEW w \in Nat \ {0}
  PROVE  /\ n \div w \in Nat /\ n % w \in 0 .. w - 1
         /\ n = w * (n \div w) + (n % w)
OBVIOUS

LEMMA DivModUnique ==
  ASSUME NEW w \in Nat \ {0}, NEW q \in Nat, NEW r \in 0 .. w - 1
  PROVE  /\ (w * q + r) \div w = q
         /\ (w * q + r) % w = r
OBVIOUS

\* The digit of n that counts to s, behind digits with w values together.
Digit(n, w, s) == (n \div w) % s

\* All digits before it are at their last value.
Full(n, w) == n % w = w - 1

(* Dividing by w and then by s is dividing by w * s. *)
LEMMA Wider ==
  ASSUME NEW n \in Nat, NEW w \in Nat \ {0}, NEW s \in Nat \ {0}
  PROVE  /\ w * s \in Nat \ {0}
         /\ n \div (w * s) = (n \div w) \div s
         /\ n % (w * s) = w * Digit(n, w, s) + (n % w)
<1> DEFINE a == n \div w  b == n % w  d == a % s  e == a \div s
<1>1. a \in Nat /\ b \in 0 .. w - 1 /\ n = w * a + b
  BY DivMod
<1>2. d \in 0 .. s - 1 /\ e \in Nat /\ a = s * e + d
  BY <1>1, DivMod
<1>3. w * s \in Nat \ {0}
  OBVIOUS
<1>4. n = (w * s) * e + (w * d + b)
  <2> HIDE DEF a, b, d, e
  <2>1. w * (s * e + d) = (w * s) * e + w * d
    BY <1>2
  <2> QED
    BY <1>1, <1>2, <2>1
<1>5. w * d + b \in 0 .. (w * s) - 1
  <2> HIDE DEF a, b, d, e
  <2>1. w * d <= w * (s - 1)
    BY <1>2
  <2>2. w * (s - 1) = w * s - w
    OBVIOUS
  <2> QED
    BY <1>1, <1>2, <2>1, <2>2, <1>3
<1> HIDE DEF a, b, d, e
<1>6. n \div (w * s) = e /\ n % (w * s) = w * d + b
  BY <1>2, <1>3, <1>4, <1>5, DivModUnique
<1> QED
  BY <1>3, <1>6 DEF a, b, d, e, Digit

(* The digits up to the next one are at their last value when that one and
   all before it are. *)
LEMMA FullWider ==
  ASSUME NEW n \in Nat, NEW w \in Nat \ {0}, NEW s \in Nat \ {0}
  PROVE  Full(n, w * s) <=> (Full(n, w) /\ Digit(n, w, s) = s - 1)
<1> DEFINE d == Digit(n, w, s)  b == n % w
<1>1. b \in 0 .. w - 1 /\ n \div w \in Nat
  BY DivMod
<1>2. d \in 0 .. s - 1
  BY <1>1, DivMod DEF Digit
<1>3. n % (w * s) = w * d + b
  BY Wider
<1> HIDE DEF d, b
<1>4. CASE d = s - 1
  <2>1. w * d = w * s - w
    BY <1>4
  <2> QED
    BY <1>1, <1>3, <2>1, <1>4 DEF Full, d, b
<1>5. CASE d # s - 1
  <2>1. d <= s - 2
    BY <1>2, <1>5
  <2>2. w * d <= w * (s - 2)
    BY <1>2, <2>1
  <2>3. w * (s - 2) = w * s - 2 * w
    OBVIOUS
  <2>4. w * d + b < w * s - 1
    BY <1>1, <1>2, <2>2, <2>3
  <2> QED
    BY <1>1, <1>3, <2>4, <1>5 DEF Full, d
<1> QED
  BY <1>4, <1>5

(* Counting on: a digit moves exactly when all before it are at their last
   value. *)
LEMMA NextDigit ==
  ASSUME NEW n \in Nat, NEW w \in Nat \ {0}, NEW s \in Nat \ {0}
  PROVE  /\ Digit(n, w, s) \in 0 .. s - 1
         /\ ~Full(n, w) => Digit(n + 1, w, s) = Digit(n, w, s)
         /\ Full(n, w) /\ Digit(n, w, s) # s - 1
              => Digit(n + 1, w, s) = Digit(n, w, s) + 1
         /\ Full(n, w) /\ Digit(n, w, s) = s - 1 => Digit(n + 1, w, s) = 0
<1> DEFINE a == n \div w  b == n % w  d == a % s  e == a \div s
<1>1. a \in Nat /\ b \in 0 .. w - 1 /\ n = w * a + b
  BY DivMod
<1>2. d \in 0 .. s - 1 /\ e \in Nat /\ a = s * e + d
  BY <1>1, DivMod
<1> HIDE DEF a, b, d, e
<1>3. d = Digit(n, w, s) /\ (Full(n, w) <=> b = w - 1)
  BY DEF Digit, Full, d, a, b
<1>4. ASSUME b # w - 1 PROVE (n + 1) \div w = a
  <2>1. n + 1 = w * a + (b + 1) /\ b + 1 \in 0 .. w - 1
    BY <1>1, <1>4
  <2> QED
    BY <1>1, <2>1, DivModUnique
<1>5. ASSUME b = w - 1 PROVE (n + 1) \div w = a + 1
  <2>1. n + 1 = w * (a + 1) + 0 /\ 0 \in 0 .. w - 1 /\ a + 1 \in Nat
    <3>1. w * (a + 1) = w * a + w
      BY <1>1
    <3> QED
      BY <1>1, <1>5, <3>1
  <2> QED
    BY <2>1, DivModUnique
<1>6. ASSUME d # s - 1 PROVE (a + 1) % s = d + 1
  <2>1. a + 1 = s * e + (d + 1) /\ d + 1 \in 0 .. s - 1
    BY <1>2, <1>6
  <2> QED
    BY <1>2, <2>1, DivModUnique
<1>7. ASSUME d = s - 1 PROVE (a + 1) % s = 0
  <2>1. a + 1 = s * (e + 1) + 0 /\ 0 \in 0 .. s - 1 /\ e + 1 \in Nat
    <3>1. s * (e + 1) = s * e + s
      BY <1>2
    <3> QED
      BY <1>2, <1>7, <3>1
  <2> QED
    BY <2>1, DivModUnique
<1> QED
  BY <1>2, <1>3, <1>4, <1>5, <1>6, <1>7 DEF Digit, d
(* The same for the rest of a division. *)
LEMMA NextRest ==
  ASSUME NEW n \in Nat, NEW s \in Nat \ {0}
  PROVE  /\ n % s \in 0 .. s - 1
         /\ n % s # s - 1 => (n + 1) % s = (n % s) + 1
         /\ n % s = s - 1 => (n + 1) % s = 0
<1>1. /\ n \div 1 = n /\ (n + 1) \div 1 = n + 1 /\ n % 1 = 0
  OBVIOUS
<1>2. PICK w \in Nat \ {0} : w = 1
  OBVIOUS
<1>3. /\ Digit(n, w, s) = n % s /\ Digit(n + 1, w, s) = (n + 1) % s /\ Full(n, w)
  BY <1>1, <1>2 DEF Digit, Full
<1>4. /\ Digit(n, w, s) \in 0 .. s - 1
      /\ Digit(n, w, s) # s - 1 => Digit(n + 1, w, s) = Digit(n, w, s) + 1
      /\ Digit(n, w, s) = s - 1 => Digit(n + 1, w, s) = 0
  BY <1>3, NextDigit
<1> QED
  BY <1>3, <1>4

-----------------------------------------------------------------------------
SetupOK == /\ sizes \in [Providers -> 1 .. MaxWords]
           /\ active \subseteq Providers

(* The index grows by one at each active provider. *)
LEMMA IndexSteps ==
  SetupOK => /\ index(1) = 0
             /\ \A p \in 1 .. P + 1 : index(p) \in Nat
             /\ \A p \in Providers :
                  index(p + 1) = IF p \in active THEN index(p) + 1 ELSE index(p)
<1> SUFFICES ASSUME SetupOK
             PROVE  /\ index(1) = 0
                    /\ \A p \in 1 .. P + 1 : index(p) \in Nat
                    /\ \A p \in Providers :
                         index(p + 1) = IF p \in active THEN index(p) + 1
                                        ELSE index(p)
  OBVIOUS
<1>0. P \in Nat /\ \A q \in active : q \in Nat /\ 1 <= q /\ q <= P
  BY InputAssumption DEF SetupOK, Providers
<1> DEFINE Before(p) == {q \in active : q < p}
<1>1. ASSUME NEW p \in 1 .. P + 1 PROVE IsFiniteSet(Before(p))
  <2>1. Before(p) \subseteq 1 .. P /\ IsFiniteSet(1 .. P)
    BY <1>0, FS_Interval
  <2> QED
    BY <2>1, FS_Subset
<1>2. ASSUME NEW p \in 1 .. P + 1 PROVE index(p) \in Nat
  BY <1>1, FS_CardinalityType DEF index
<1>3. Before(1) = {}
  BY <1>0
<1>4. index(1) = 0
  BY <1>3, FS_EmptySet DEF index
<1>5. ASSUME NEW p \in Providers
      PROVE  index(p + 1) = IF p \in active THEN index(p) + 1 ELSE index(p)
  <2>1. p \in 1 .. P + 1 /\ p \in Nat
    BY <1>0 DEF Providers
  <2>2. CASE p \in active
    <3>1. Before(p + 1) = Before(p) \cup {p} /\ p \notin Before(p)
      <4>1. \A q \in active : q < p + 1 <=> q < p \/ q = p
        BY <1>0, <2>1
      <4>2. \A q : q \in Before(p + 1) <=> q \in Before(p) \/ q = p
        BY <2>2, <4>1
      <4>3. p \notin Before(p)
        BY <2>1
      <4> HIDE DEF Before
      <4> QED
        BY <4>2, <4>3
    <3>2. Cardinality(Before(p + 1)) = Cardinality(Before(p)) + 1
      BY <1>1, <2>1, <3>1, FS_AddElement
    <3> QED
      BY <2>2, <3>2 DEF index
  <2>3. CASE p \notin active
    <3>1. Before(p + 1) = Before(p)
      BY <1>0, <2>1, <2>3
    <3> QED
      BY <2>3, <3>1 DEF index
  <2> QED
    BY <2>2, <2>3
<1> QED
  BY <1>2, <1>4, <1>5

(* An active provider has a smaller index than all behind it, and its own is
   less than the number of providers. *)
LEMMA IndexFacts ==
  SetupOK => /\ \A p \in active : index(p) \in 0 .. P - 1
             /\ \A p \in active : \A q \in 1 .. P + 1 :
                  p < q => index(p) + 1 <= index(q)
<1> SUFFICES ASSUME SetupOK
             PROVE  /\ \A p \in active : index(p) \in 0 .. P - 1
                    /\ \A p \in active : \A q \in 1 .. P + 1 :
                         p < q => index(p) + 1 <= index(q)
  OBVIOUS
<1>0. /\ P \in Nat /\ active \subseteq 1 .. P
      /\ index(1) = 0 /\ \A p \in 1 .. P + 1 : index(p) \in Nat
      /\ \A p \in 1 .. P :
           index(p + 1) = IF p \in active THEN index(p) + 1 ELSE index(p)
  BY InputAssumption, IndexSteps DEF SetupOK, Providers
<1> HIDE DEF index
<1>1. ASSUME NEW p \in active, NEW q \in 1 .. P + 1, p < q
      PROVE  index(p) + 1 <= index(q)
  <2> DEFINE T == {n \in 0 .. P : p + 1 <= n + 1 => p = n + 1 \/ index(p) + 1 <= index(n + 1)}
  <2>1. 0 \in T
    BY <1>0
  <2>2. ASSUME NEW n \in 1 .. P, n - 1 \in T PROVE n \in T
    <3>1. n \in 1 .. P + 1 /\ n + 1 \in 1 .. P + 1 /\ p \in 1 .. P + 1 /\ (n - 1) + 1 = n
      BY <1>0
    <3>2. index(n + 1) = IF n \in active THEN index(n) + 1 ELSE index(n)
      BY <1>0
    <3>3. index(n) \in Nat /\ index(p) \in Nat
      BY <1>0, <3>1
    <3>4. CASE p = n
      BY <3>1, <3>2, <3>3, <3>4
    <3>5. CASE p # n /\ p <= n
      <4>1. index(p) + 1 <= index(n)
        BY <2>2, <3>1, <3>5
      <4> QED
        BY <3>1, <3>2, <3>3, <4>1
    <3>6. CASE p > n
      BY <3>1, <3>6
    <3> QED
      BY <3>1, <3>4, <3>5, <3>6
  <2> HIDE DEF T
  <2>3. 0 .. P \subseteq T
    BY <1>0, <2>1, <2>2, RangeInduction
  <2>4. q - 1 \in T /\ (q - 1) + 1 = q /\ p \in 1 .. P
    BY <1>0, <2>3
  <2> QED
    BY <1>1, <2>4 DEF T
<1>2. ASSUME NEW p \in 1 .. P + 1 PROVE index(p) <= p - 1
  <2> DEFINE T == {n \in 0 .. P : index(n + 1) <= n}
  <2>1. 0 \in T
    BY <1>0
  <2>2. ASSUME NEW n \in 1 .. P, n - 1 \in T PROVE n \in T
    <3>1. n \in 1 .. P + 1 /\ (n - 1) + 1 = n /\ index(n) \in Nat
      BY <1>0
    <3> QED
      BY <1>0, <2>2, <3>1
  <2> HIDE DEF T
  <2>3. 0 .. P \subseteq T
    BY <1>0, <2>1, <2>2, RangeInduction
  <2>4. p - 1 \in T /\ (p - 1) + 1 = p
    BY <1>0, <2>3
  <2> QED
    BY <2>4 DEF T
<1>3. ASSUME NEW p \in active PROVE index(p) \in 0 .. P - 1
  <2>1. p \in 1 .. P + 1 /\ p <= P
    BY <1>0
  <2> QED
    BY <1>0, <1>2, <2>1
<1> QED
  BY <1>1, <1>3

(* Each active provider multiplies the combinations. *)
LEMMA Multiplies ==
  SetupOK => /\ combinations[0] = 1
             /\ \A p \in 0 .. P : combinations[p] \in Nat \ {0}
             /\ \A p \in Providers :
                  combinations[p] = IF p \in active
                                    THEN combinations[p - 1] * sizes[p]
                                    ELSE combinations[p - 1]
<1> SUFFICES ASSUME SetupOK
             PROVE  /\ combinations[0] = 1
                    /\ \A p \in 0 .. P : combinations[p] \in Nat \ {0}
                    /\ \A p \in Providers :
                         combinations[p] = IF p \in active
                                           THEN combinations[p - 1] * sizes[p]
                                           ELSE combinations[p - 1]
  OBVIOUS
<1>0. P \in Nat /\ MaxWords \in Nat
  BY InputAssumption
<1> DEFINE Step(g, p) == IF p = 0 THEN 1
                         ELSE IF p \in active THEN g[p - 1] * sizes[p]
                         ELSE g[p - 1]
           F == [p \in 1 .. P |-> [x \in Nat \ {0} |->
                   IF p \in active THEN x * sizes[p] ELSE x]]
<1>1. \A p \in active : sizes[p] \in Nat \ {0}
  BY <1>0 DEF SetupOK
<1>2. F \in [1 .. P -> [Nat \ {0} -> Nat \ {0}]]
  <2>1. ASSUME NEW p \in 1 .. P, NEW x \in Nat \ {0}, p \in active
        PROVE  x * sizes[p] \in Nat \ {0}
    BY <1>1, <2>1
  <2> QED
    BY <2>1
<1>3. PICK g \in [0 .. P -> Nat \ {0}] :
        g[0] = 1 /\ \A p \in 1 .. P : g[p] = F[p][g[p - 1]]
  <2> HIDE DEF F
  <2>1. Defines(P, Nat \ {0}, 1, F)
    BY <1>0, <1>2, 1 \in Nat \ {0}, Recursion
  <2> QED
    BY <2>1 DEF Defines
<1>4. g = [p \in 0 .. P |-> Step(g, p)]
  <2>1. ASSUME NEW p \in 0 .. P PROVE g[p] = Step(g, p)
    <3>1. CASE p = 0
      BY <1>3, <3>1
    <3>2. CASE p # 0
      <4>1. p \in 1 .. P /\ p - 1 \in 0 .. P
        BY <1>0, <3>2
      <4>2. g[p] = F[p][g[p - 1]] /\ g[p - 1] \in Nat \ {0}
        BY <1>3, <4>1, p \in 0 .. P
      <4> QED
        BY <4>1, <4>2
    <3> QED
      BY <3>1, <3>2
  <2> QED
    BY <1>3, <2>1
<1> HIDE DEF F
<1>5. combinations = [p \in 0 .. P |-> Step(combinations, p)]
  BY <1>4 DEF combinations
<1>6. combinations[0] = 1
  BY <1>0, <1>5
<1>7. ASSUME NEW p \in 1 .. P
      PROVE  combinations[p] = IF p \in active
                               THEN combinations[p - 1] * sizes[p]
                               ELSE combinations[p - 1]
  BY <1>0, <1>5
<1> HIDE DEF Step
<1> DEFINE T == {p \in 0 .. P : combinations[p] \in Nat \ {0}}
<1>8. 0 .. P \subseteq T
  <2>1. 0 \in T
    BY <1>0, <1>6
  <2>2. ASSUME NEW p \in 1 .. P, p - 1 \in T PROVE p \in T
    <3>1. CASE p \in active
      <4>1. combinations[p] = combinations[p - 1] * sizes[p]
        BY <1>7, <3>1
      <4>2. combinations[p - 1] \in Nat \ {0} /\ sizes[p] \in Nat \ {0}
        BY <1>1, <2>2, <3>1
      <4>3. combinations[p] \in Nat \ {0}
        BY <4>1, <4>2
      <4> QED
        BY <4>3
    <3>2. CASE p \notin active
      BY <1>7, <2>2, <3>2
    <3> QED
      BY <3>1, <3>2
  <2> HIDE DEF T
  <2> QED
    BY <1>0, <2>1, <2>2, RangeInduction
<1> QED
  BY <1>6, <1>7, <1>8 DEF Providers

(* The combinations of more providers are a multiple of those of fewer, and
   as many where all between are disabled. *)
LEMMA Nested ==
  ASSUME SetupOK, NEW q \in 0 .. P, NEW p \in q .. P
  PROVE  /\ \E m \in Nat \ {0} : combinations[p] = combinations[q] * m
         /\ (\A r \in q + 1 .. p : r \notin active)
              => combinations[p] = combinations[q]
<1> DEFINE C == combinations
<1>0. /\ P \in Nat /\ MaxWords \in Nat
      /\ \A i \in 0 .. P : C[i] \in Nat \ {0}
      /\ \A i \in 1 .. P : C[i] = IF i \in active THEN C[i - 1] * sizes[i]
                                                 ELSE C[i - 1]
      /\ \A i \in active : sizes[i] \in Nat \ {0}
  <2>1. P \in Nat /\ MaxWords \in Nat /\ \A i \in active : sizes[i] \in Nat \ {0}
    BY InputAssumption DEF SetupOK
  <2> QED
    BY <2>1, Multiplies DEF Providers
<1> HIDE DEF C
<1> DEFINE Goal(n) == /\ \E m \in Nat \ {0} : C[n] = C[q] * m
                      /\ (\A r \in q + 1 .. n : r \notin active) => C[n] = C[q]
           T == {n \in 0 .. P : n >= q => Goal(n)}
<1>1. Goal(q)
  BY <1>0, C[q] = C[q] * 1
<1>2. 0 \in T
  BY <1>0, <1>1
<1>3. ASSUME NEW n \in 1 .. P, n - 1 \in T PROVE n \in T
  <2> SUFFICES ASSUME n >= q, n # q PROVE Goal(n)
    BY <1>1
  <2>1. n - 1 \in 0 .. P /\ n - 1 >= q /\ n - 1 \in Nat
    BY <1>0
  <2>2. PICK m \in Nat \ {0} : C[n - 1] = C[q] * m
    BY <1>3, <2>1
  <2>3. (\A r \in q + 1 .. n : r \notin active)
          => C[n - 1] = C[q] /\ n \notin active
    BY <1>3, <2>1
  <2>4. CASE n \in active
    <3>1. C[n] = (C[q] * m) * sizes[n] /\ sizes[n] \in Nat \ {0}
      BY <1>0, <2>2, <2>4
    <3>2. (C[q] * m) * sizes[n] = C[q] * (m * sizes[n])
          /\ m * sizes[n] \in Nat \ {0}
      BY <1>0, <3>1
    <3> QED
      BY <2>3, <2>4, <3>1, <3>2
  <2>5. CASE n \notin active
    BY <1>0, <2>2, <2>3, <2>5
  <2> QED
    BY <2>4, <2>5
<1> HIDE DEF T
<1>4. 0 .. P \subseteq T
  BY <1>0, <1>2, <1>3, RangeInduction
<1>5. p \in 0 .. P /\ p >= q
  BY <1>0
<1> QED
  BY <1>4, <1>5 DEF T, C

(* A multiple of a number has the digits of zero below it. *)
LEMMA ZeroDigit ==
  ASSUME NEW n \in Nat, NEW w \in Nat \ {0}, NEW s \in Nat \ {0},
         NEW m \in Nat \ {0}, n % ((w * s) * m) = 0
  PROVE  Digit(n, w, s) = 0
<1>1. (w * s) * m \in Nat \ {0}
  <2>1. w * s \in Nat \ {0}
    OBVIOUS
  <2> QED
    BY <2>1
<1> DEFINE t == n \div ((w * s) * m)
<1>2. t \in Nat /\ n = ((w * s) * m) * t + 0
  BY <1>1, DivMod
<1> HIDE DEF t
<1>3. m * t \in Nat /\ s * (m * t) \in Nat
  BY <1>2
<1>4. ((w * s) * m) * t = w * (s * (m * t))
  BY <1>2
<1>5. n = w * (s * (m * t)) + 0 /\ 0 \in 0 .. w - 1
  BY <1>2, <1>4
<1>6. n \div w = s * (m * t) + 0
  <2>1. n \div w = s * (m * t)
    BY <1>3, <1>5, DivModUnique
  <2> QED
    BY <2>1, <1>3
<1> QED
  BY <1>3, <1>6, DivModUnique DEF Digit

(* The number after one whose digits are all at their last value. *)
LEMMA FullNext ==
  ASSUME NEW n \in Nat, NEW w \in Nat \ {0}, Full(n, w)
  PROVE  (n + 1) % w = 0
<1> DEFINE q == n \div w
<1>1. q \in Nat /\ n = w * q + (w - 1)
  BY DivMod DEF Full
<1> HIDE DEF q
<1>2. n + 1 = w * (q + 1) + 0 /\ 0 \in 0 .. w - 1 /\ q + 1 \in Nat
  <2>1. w * (q + 1) = w * q + w
    BY <1>1
  <2> QED
    BY <1>1, <2>1
<1> QED
  BY <1>2, DivModUnique

-----------------------------------------------------------------------------
Cursors == [Providers -> Nat]
Scans == [cursor : Cursors, signalNext : BOOLEAN, again : BOOLEAN,
          values : [active -> Nat]]

(* One turn of the loop touches the provider it is at. *)
LEMMA TurnFacts ==
  ASSUME SetupOK, NEW a \in Scans, NEW p \in active, NEW msb \in Nat,
         NEW t, t = turn(a, p, msb), NEW c,
         c = a.cursor[p] + (IF a.signalNext THEN 1 ELSE 0)
  PROVE  /\ t \in Scans
         /\ \A q \in Providers : q # p => t.cursor[q] = a.cursor[q]
         /\ \A q \in active : q # p => t.values[q] = a.values[q]
         /\ t.again <=> (a.again \/ (c >= sizes[p] /\ index(p) = msb))
         /\ a.again => t.cursor[p] = a.cursor[p]
         /\ ~t.again =>
              /\ t.signalNext = (c >= sizes[p])
              /\ t.values[p] = IF c >= sizes[p] THEN 0 ELSE c
              /\ t.cursor[p] = IF index(p) = 0 THEN t.values[p] + 1 ELSE t.values[p]
<1>1. /\ p \in Providers /\ a.cursor[p] \in Nat /\ a.cursor \in Cursors
      /\ a.signalNext \in BOOLEAN /\ a.again \in BOOLEAN
      /\ a.values \in [active -> Nat]
  BY DEF SetupOK, Scans, Cursors
<1>2. c \in Nat
  BY <1>1
<1> DEFINE out == c >= sizes[p]
           word == IF out THEN 0 ELSE c
           stop == a.again \/ (out /\ index(p) = msb)
<1>3. out \in BOOLEAN /\ word \in Nat
  BY <1>2
<1>4. t = IF stop
          THEN [a EXCEPT !.again = TRUE,
                         !.cursor[p] = IF a.again THEN @ ELSE c]
          ELSE [a EXCEPT !.signalNext = out,
                         !.values[p] = word,
                         !.cursor[p] = IF index(p) = 0 THEN word + 1 ELSE word]
  BY DEF turn
<1>5. CASE stop
  <2> DEFINE k == IF a.again THEN a.cursor[p] ELSE c
  <2>1. t = [a EXCEPT !.again = TRUE, !.cursor = [@ EXCEPT ![p] = k]]
    BY <1>4, <1>5
  <2>2. k \in Nat
    BY <1>1, <1>2
  <2> HIDE DEF k
  <2>3. [a.cursor EXCEPT ![p] = k] \in Cursors
    BY <1>1, <2>2 DEF Cursors
  <2>4. /\ t \in Scans /\ t.again = TRUE /\ t.values = a.values
        /\ t.cursor = [a.cursor EXCEPT ![p] = k]
    BY <2>1, <2>3 DEF Scans
  <2>5. t.cursor[p] = k
    BY <1>1, <2>4 DEF Cursors
  <2> QED
    BY <1>1, <1>5, <2>4, <2>5 DEF Cursors, k
<1>6. CASE ~stop
  <2> DEFINE k == IF index(p) = 0 THEN word + 1 ELSE word
  <2>1. t = [a EXCEPT !.signalNext = out,
                      !.values = [@ EXCEPT ![p] = word],
                      !.cursor = [@ EXCEPT ![p] = k]]
    BY <1>4, <1>6
  <2>2. k \in Nat
    BY <1>3
  <2> HIDE DEF k
  <2>3. /\ [a.cursor EXCEPT ![p] = k] \in Cursors
        /\ [a.values EXCEPT ![p] = word] \in [active -> Nat]
    <3> HIDE DEF word
    <3> QED
      BY <1>1, <1>3, <2>2 DEF Cursors
  <2>4. /\ t \in Scans /\ t.again = a.again /\ t.signalNext = out
        /\ t.values = [a.values EXCEPT ![p] = word]
        /\ t.cursor = [a.cursor EXCEPT ![p] = k]
    <3> HIDE DEF word, out
    <3> QED
      BY <1>3, <2>1, <2>3 DEF Scans
  <2>5. t.values[p] = word /\ t.cursor[p] = k
    BY <1>1, <2>4 DEF Cursors
  <2> QED
    BY <1>1, <1>6, <2>4, <2>5 DEF Cursors, k
<1> QED
  BY <1>5, <1>6

ScanStart(c) == [cursor |-> c, signalNext |-> FALSE, again |-> FALSE,
                 values |-> [q \in active |-> 0]]

(* The scan is the last of its turns. *)
LEMMA ScanTurns ==
  ASSUME SetupOK, NEW c \in Cursors, NEW msb \in Nat
  PROVE  \E a \in [0 .. P -> Scans] :
           /\ a[0] = ScanStart(c) /\ a[P] = scan(c, msb)
           /\ \A p \in Providers :
                a[p] = IF p \in active THEN turn(a[p - 1], p, msb) ELSE a[p - 1]
<1>0. P \in Nat /\ Providers = 1 .. P
  BY InputAssumption DEF Providers
<1> DEFINE Step(g, p) ==
             IF p = 0
             THEN [cursor |-> c, signalNext |-> FALSE, again |-> FALSE,
                   values |-> [q \in active |-> 0]]
             ELSE IF p \in active THEN turn(g[p - 1], p, msb) ELSE g[p - 1]
           h == CHOOSE g : g = [p \in 0 .. P |-> Step(g, p)]
           F == [p \in 1 .. P |-> [x \in Scans |->
                   IF p \in active THEN turn(x, p, msb) ELSE x]]
<1>1. scan(c, msb) = h[P]
  BY DEF scan
<1>2. ScanStart(c) \in Scans
  BY DEF ScanStart, Scans
<1>3. F \in [1 .. P -> [Scans -> Scans]]
  <2>1. ASSUME NEW p \in 1 .. P, NEW x \in Scans, p \in active
        PROVE  turn(x, p, msb) \in Scans
    BY <2>1, TurnFacts
  <2> QED
    BY <2>1
<1>4. \E g : g = [p \in 0 .. P |-> Step(g, p)]
  <2>1. Defines(P, Scans, ScanStart(c), F)
    <3> HIDE DEF F
    <3> QED
      BY <1>0, <1>2, <1>3, Recursion
  <2>2. PICK g \in [0 .. P -> Scans] :
          g[0] = ScanStart(c) /\ \A p \in 1 .. P : g[p] = F[p][g[p - 1]]
    <3> HIDE DEF F
    <3> QED
      BY <2>1 DEF Defines
  <2>3. ASSUME NEW p \in 0 .. P PROVE g[p] = Step(g, p)
    <3>1. CASE p = 0
      BY <2>2, <3>1 DEF ScanStart
    <3>2. CASE p # 0
      <4>1. p \in 1 .. P /\ p - 1 \in 0 .. P
        BY <1>0, <3>2
      <4>2. g[p] = F[p][g[p - 1]] /\ g[p - 1] \in Scans
        BY <2>2, <4>1
      <4> QED
        BY <4>1, <4>2
    <3> QED
      BY <3>1, <3>2
  <2>4. g = [p \in 0 .. P |-> Step(g, p)]
    <3> HIDE DEF Step
    <3> QED
      BY <2>3
  <2> QED
    BY <2>4
<1>5. h = [p \in 0 .. P |-> Step(h, p)]
  <2> HIDE DEF Step
  <2> QED
    BY <1>4
<1> HIDE DEF h, F
<1>6. h[0] = ScanStart(c)
  BY <1>0, <1>5 DEF ScanStart
<1>7. ASSUME NEW p \in 1 .. P
      PROVE  h[p] = IF p \in active THEN turn(h[p - 1], p, msb) ELSE h[p - 1]
  <2>1. p \in 0 .. P /\ p # 0
    BY <1>0
  <2>2. h[p] = Step(h, p)
    <3> HIDE DEF Step
    <3> QED
      BY <1>5, <2>1
  <2> QED
    BY <2>1, <2>2
<1>8. ASSUME NEW p \in 0 .. P PROVE h[p] \in Scans
  <2> DEFINE T == {i \in 0 .. P : h[i] \in Scans}
  <2>1. 0 \in T
    BY <1>0, <1>2, <1>6
  <2>2. ASSUME NEW i \in 1 .. P, i - 1 \in T PROVE i \in T
    BY <1>7, <2>2, TurnFacts
  <2> HIDE DEF T
  <2>3. 0 .. P \subseteq T
    BY <1>0, <2>1, <2>2, RangeInduction
  <2> QED
    BY <2>3 DEF T
<1>9. h = [p \in 0 .. P |-> h[p]]
  BY <1>5
<1>10. h \in [0 .. P -> Scans]
  <2> HIDE DEF Step
  <2> QED
    BY <1>8, <1>9
<1> QED
  BY <1>0, <1>1, <1>6, <1>7, <1>10

-----------------------------------------------------------------------------
\* The word that the combination behind n others takes from list p.
D(n, p) == Digit(n, combinations[p - 1], sizes[p])

(* What the cursors are when N values were drawn: those with an index below j
   were put back to the start, the one at j was stepped, and the others are
   where the value before left them.  Fresh cursors have them all below j;
   after a value j is 0, for the first provider is always one ahead. *)
Ready(c, N, j) ==
  \A p \in active :
    /\ index(p) < j => c[p] = 0 /\ D(N, p) = 0
    /\ index(p) = j => /\ N > 0 /\ Full(N - 1, combinations[p - 1])
                       /\ c[p] = D(N - 1, p) + 1
    /\ index(p) > j => N > 0 /\ c[p] = D(N - 1, p)

(* A provider that is stepped when all before it have wrapped: it is exhausted
   when its own digit wraps, and otherwise has the next digit. *)
LEMMA SteppedDigit ==
  ASSUME SetupOK, NEW c \in Cursors, NEW N \in Nat, NEW j \in Nat, Ready(c, N, j),
         NEW p \in active, NEW signal \in BOOLEAN,
         index(p) <= j => ~signal,
         index(p) > j => (signal <=> Full(N - 1, combinations[p - 1])),
         NEW x, x = c[p] + (IF signal THEN 1 ELSE 0)
  PROVE  /\ (IF x >= sizes[p] THEN 0 ELSE x) = D(N, p)
         /\ index(p) < j => ~(x >= sizes[p])
         /\ index(p) >= j => /\ N > 0
                             /\ x >= sizes[p] <=> Full(N - 1, combinations[p])
<1>1. /\ P \in Nat /\ p \in 1 .. P /\ p - 1 \in 0 .. P /\ MaxWords \in Nat
      /\ c[p] \in Nat
  BY InputAssumption DEF SetupOK, Providers, Cursors
<1>2. /\ sizes[p] \in Nat \ {0} /\ combinations[p - 1] \in Nat \ {0}
      /\ combinations[p] = combinations[p - 1] * sizes[p]
      /\ index(p) \in Nat
  <2>1. p \in Providers /\ p \in 1 .. P + 1
    BY <1>1 DEF Providers
  <2>2. sizes[p] \in Nat \ {0}
    BY <1>1, <2>1 DEF SetupOK
  <2> QED
    BY <1>1, <2>1, <2>2, Multiplies, IndexSteps
<1>3. CASE index(p) < j
  <2>1. c[p] = 0 /\ D(N, p) = 0 /\ x = 0
    BY <1>3, <1>2 DEF Ready
  <2> QED
    BY <1>2, <1>3, <2>1
<1>4. CASE index(p) >= j
  <2>1. N > 0 /\ N - 1 \in Nat /\ (N - 1) + 1 = N
    BY <1>2, <1>4 DEF Ready
  <2> DEFINE full == Full(N - 1, combinations[p - 1])
             d == D(N - 1, p)
  <2>2. x = d + (IF full THEN 1 ELSE 0)
    <3>1. CASE index(p) = j
      <4>1. ~signal /\ full /\ c[p] = d + 1
        BY <3>1, <1>2 DEF Ready
      <4> QED
        BY <1>1, <4>1
    <3>2. CASE index(p) > j
      <4>1. (signal <=> full) /\ c[p] = d
        BY <3>2, <1>2 DEF Ready
      <4> QED
        BY <4>1
    <3> QED
      BY <1>2, <1>4, <3>1, <3>2
  <2>3. /\ d \in 0 .. sizes[p] - 1
        /\ ~full => D(N, p) = d
        /\ full /\ d # sizes[p] - 1 => D(N, p) = d + 1
        /\ full /\ d = sizes[p] - 1 => D(N, p) = 0
    <3> DEFINE n == N - 1  w == combinations[p - 1]  s == sizes[p]
    <3>1. n \in Nat /\ w \in Nat \ {0} /\ s \in Nat \ {0} /\ n + 1 = N
      BY <1>2, <2>1
    <3>2. D(N, p) = Digit(n + 1, w, s) /\ d = Digit(n, w, s) /\ full = Full(n, w)
      BY <3>1 DEF D
    <3> HIDE DEF n, w, d, full
    <3> QED
      BY <3>1, <3>2, NextDigit
  <2>4. Full(N - 1, combinations[p]) <=> full /\ d = sizes[p] - 1
    <3> DEFINE n == N - 1  w == combinations[p - 1]  s == sizes[p]
    <3>1. n \in Nat /\ w \in Nat \ {0} /\ s \in Nat \ {0}
      BY <1>2, <2>1
    <3>2. /\ d = Digit(n, w, s) /\ full = Full(n, w)
          /\ Full(N - 1, combinations[p]) = Full(n, w * s)
      BY <1>2 DEF D
    <3> HIDE DEF n, w, d, full
    <3> QED
      BY <3>1, <3>2, FullWider
  <2> HIDE DEF full, d
  <2> QED
    BY <1>2, <1>4, <2>1, <2>2, <2>3, <2>4
<1> QED
  BY <1>2, <1>3, <1>4

\* The scan was stopped at r, whose digit wraps with all before it.
StoppedAt(a, c, N, j, msb, r) ==
  /\ index(r) = msb /\ msb >= j /\ N > 0
  /\ Full(N - 1, combinations[r])
  /\ \A q \in Providers : (q > r \/ q \notin active) => a.cursor[q] = c[q]

\* The scan when it has passed the providers up to p.
Passed(a, c, N, j, msb, p) ==
  /\ a.again => \E r \in active : r <= p /\ StoppedAt(a, c, N, j, msb, r)
  /\ ~a.again =>
       /\ \A q \in Providers : (q > p \/ q \notin active) => a.cursor[q] = c[q]
       /\ \A q \in active : q <= p =>
            /\ a.values[q] = D(N, q)
            /\ a.cursor[q] = IF index(q) = 0 THEN D(N, q) + 1 ELSE D(N, q)
       /\ index(p + 1) <= j => ~a.signalNext
       /\ index(p + 1) > j =>
            N > 0 /\ (a.signalNext <=> Full(N - 1, combinations[p]))

LEMMA TurnReady ==
  ASSUME SetupOK, NEW c \in Cursors, NEW N \in Nat, NEW j \in Nat, Ready(c, N, j),
         NEW msb \in Nat, NEW p \in active, NEW a \in Scans,
         Passed(a, c, N, j, msb, p - 1)
  PROVE  Passed(turn(a, p, msb), c, N, j, msb, p)
<1> DEFINE t == turn(a, p, msb)
           x == a.cursor[p] + (IF a.signalNext THEN 1 ELSE 0)
           out == x >= sizes[p]
<1>1. /\ P \in Nat /\ p \in 1 .. P /\ p \in Providers
      /\ \A q \in Providers : q \in Nat
      /\ active \subseteq Providers
      /\ index(p + 1) = index(p) + 1 /\ index(p) \in Nat
  BY InputAssumption, IndexSteps DEF SetupOK, Providers
<1>2. /\ t \in Scans
      /\ \A q \in Providers : q # p => t.cursor[q] = a.cursor[q]
      /\ \A q \in active : q # p => t.values[q] = a.values[q]
      /\ t.again <=> (a.again \/ (out /\ index(p) = msb))
      /\ a.again => t.cursor[p] = a.cursor[p]
      /\ ~t.again =>
           /\ t.signalNext = out
           /\ t.values[p] = IF out THEN 0 ELSE x
           /\ t.cursor[p] = IF index(p) = 0 THEN t.values[p] + 1 ELSE t.values[p]
  BY TurnFacts
<1> HIDE DEF t
<1>3. CASE a.again
  <2>1. PICK r \in active : r <= p - 1 /\ StoppedAt(a, c, N, j, msb, r)
    BY <1>3 DEF Passed
  <2>2. StoppedAt(t, c, N, j, msb, r)
    BY <1>2, <1>3, <2>1 DEF StoppedAt
  <2>3. r <= p
    BY <1>1, <2>1
  <2> QED
    BY <1>2, <1>3, <2>2, <2>3 DEF Passed, t
<1>4. CASE ~a.again
  <2>0. (p - 1) + 1 = p /\ a.signalNext \in BOOLEAN
    BY <1>1 DEF Scans
  <2>1. /\ index(p) <= j => ~a.signalNext
        /\ index(p) > j => (a.signalNext <=> Full(N - 1, combinations[p - 1]))
        /\ a.cursor[p] = c[p]
    BY <1>1, <1>4, <2>0 DEF Passed
  <2>2. x = c[p] + (IF a.signalNext THEN 1 ELSE 0)
    BY <2>1
  <2>3. /\ (IF out THEN 0 ELSE x) = D(N, p)
        /\ index(p) < j => ~out
        /\ index(p) >= j => N > 0 /\ (out <=> Full(N - 1, combinations[p]))
    <3> HIDE DEF x
    <3> QED
      BY <2>0, <2>1, <2>2, SteppedDigit
  <2> HIDE DEF x, out
  <2>4. CASE out /\ index(p) = msb
    <3>1. t.again
      BY <1>2, <2>4
    <3>2. msb >= j
      BY <1>1, <2>3, <2>4
    <3>3. \A q \in Providers : (q > p \/ q \notin active) => t.cursor[q] = c[q]
      <4> SUFFICES ASSUME NEW q \in Providers, q > p \/ q \notin active
                   PROVE  t.cursor[q] = c[q]
        OBVIOUS
      <4>1. q # p /\ (q > p - 1 \/ q \notin active)
        BY <1>1
      <4> QED
        BY <1>2, <1>4, <4>1 DEF Passed
    <3>4. StoppedAt(t, c, N, j, msb, p)
      BY <2>3, <2>4, <3>2, <3>3 DEF StoppedAt
    <3> QED
      BY <1>1, <3>1, <3>4 DEF Passed, t
  <2>5. CASE ~(out /\ index(p) = msb)
    <3>1. ~t.again
      BY <1>2, <1>4, <2>5
    <3>2. \A q \in Providers : (q > p \/ q \notin active) => t.cursor[q] = c[q]
      <4> SUFFICES ASSUME NEW q \in Providers, q > p \/ q \notin active
                   PROVE  t.cursor[q] = c[q]
        OBVIOUS
      <4>1. q # p /\ (q > p - 1 \/ q \notin active)
        BY <1>1
      <4> QED
        BY <1>2, <1>4, <4>1 DEF Passed
    <3>3. ASSUME NEW q \in active, q <= p
          PROVE  /\ t.values[q] = D(N, q)
                 /\ t.cursor[q] = IF index(q) = 0 THEN D(N, q) + 1 ELSE D(N, q)
      <4>1. CASE q = p
        BY <1>2, <2>3, <3>1, <4>1
      <4>2. CASE q # p
        <5>1. q <= p - 1 /\ q \in Providers
          BY <1>1, <3>3, <4>2
        <5> QED
          BY <1>2, <1>4, <4>2, <5>1 DEF Passed
      <4> QED
        BY <4>1, <4>2
    <3>4. /\ index(p + 1) <= j => ~t.signalNext
          /\ index(p + 1) > j =>
               N > 0 /\ (t.signalNext <=> Full(N - 1, combinations[p]))
      BY <1>1, <1>2, <2>3, <3>1
    <3> QED
      BY <3>1, <3>2, <3>3, <3>4 DEF Passed, t
  <2> QED
    BY <2>4, <2>5
<1> QED
  BY <1>3, <1>4

(* A scan that is not stopped gives the next combination and leaves the
   cursors ready for the one behind it. *)
LEMMA ScanReady ==
  ASSUME SetupOK, NEW c \in Cursors, NEW N \in Nat, NEW j \in Nat, Ready(c, N, j),
         NEW msb \in Nat
  PROVE  scan(c, msb) \in Scans /\ Passed(scan(c, msb), c, N, j, msb, P)
<1>0. /\ P \in Nat /\ Providers = 1 .. P /\ active \subseteq 1 .. P
  BY InputAssumption DEF Providers, SetupOK
<1>1. PICK a \in [0 .. P -> Scans] :
        /\ a[0] = ScanStart(c) /\ a[P] = scan(c, msb)
        /\ \A p \in Providers :
             a[p] = IF p \in active THEN turn(a[p - 1], p, msb) ELSE a[p - 1]
  BY ScanTurns
<1> DEFINE T == {p \in 0 .. P : Passed(a[p], c, N, j, msb, p)}
<1>2. 0 \in T
  <2>1. /\ ~a[0].again /\ ~a[0].signalNext /\ a[0].cursor = c
    BY <1>1 DEF ScanStart
  <2>2. index(0 + 1) = 0
    BY IndexSteps
  <2>3. \A q \in active : ~(q <= 0)
    BY <1>0
  <2>4. ~(index(0 + 1) > j)
    BY <2>2
  <2>5. Passed(a[0], c, N, j, msb, 0)
    BY <2>1, <2>3, <2>4 DEF Passed
  <2> QED
    BY <1>0, <2>5
<1>3. ASSUME NEW p \in 1 .. P, p - 1 \in T PROVE p \in T
  <2>0. p - 1 \in 0 .. P /\ p \in Providers /\ p \in 0 .. P
    BY <1>0
  <2>1. Passed(a[p - 1], c, N, j, msb, p - 1) /\ a[p - 1] \in Scans
    BY <1>3, <2>0
  <2>2. CASE p \in active
    <3>1. Passed(a[p], c, N, j, msb, p)
      BY <1>1, <2>0, <2>1, <2>2, TurnReady
    <3> QED
      BY <2>0, <3>1
  <2>3. CASE p \notin active
    <3>1. a[p] = a[p - 1] /\ combinations[p] = combinations[p - 1]
          /\ index(p + 1) = index(p) /\ (p - 1) + 1 = p
      BY <1>0, <1>1, <2>0, <2>3, IndexSteps, Multiplies
    <3>2. \A q \in active : q <= p - 1 <=> q <= p
      BY <1>0, <2>3
    <3>3. \A q \in Providers : (q > p \/ q \notin active) <=> (q > p - 1 \/ q \notin active)
      BY <1>0, <2>3
    <3>4. Passed(a[p], c, N, j, msb, p)
      BY <2>1, <3>1, <3>2, <3>3 DEF Passed
    <3> QED
      BY <2>0, <3>4
  <2> QED
    BY <2>2, <2>3
<1> HIDE DEF T
<1>4. 0 .. P \subseteq T
  BY <1>0, <1>2, <1>3, RangeInduction
<1> QED
  BY <1>0, <1>1, <1>4 DEF T

(* A scan that was stopped starts over with the providers up to the most
   significant one at the start and the next one stepped. *)
LEMMA StoppedReady ==
  ASSUME SetupOK, NEW c \in Cursors, NEW N \in Nat, NEW j \in Nat, Ready(c, N, j),
         NEW msb \in Nat, NEW a \in Scans, NEW r \in active,
         StoppedAt(a, c, N, j, msb, r),
         NEW b, b = clusterbombIteratorReset(a.cursor, msb + 1)
  PROVE  /\ b \in Cursors /\ Ready(b, N, msb + 1) /\ msb + 1 <= P
         /\ \A q \in Providers : q \notin active => b[q] = c[q]
<1>0. /\ P \in Nat /\ Providers = 1 .. P /\ active \subseteq 1 .. P
      /\ MaxWords \in Nat
  BY InputAssumption DEF Providers, SetupOK
<1>1. /\ index(r) = msb /\ msb >= j /\ N > 0 /\ Full(N - 1, combinations[r])
      /\ \A q \in Providers : (q > r \/ q \notin active) => a.cursor[q] = c[q]
      /\ a.cursor \in [Providers -> Nat]
  BY DEF StoppedAt, Scans, Cursors
<1>2. b = [p \in Providers |->
             IF p \notin active \/ index(p) > msb + 1 THEN a.cursor[p]
             ELSE IF index(p) = msb + 1 THEN a.cursor[p] + 1 ELSE 0]
  BY DEF clusterbombIteratorReset
<1>3. msb + 1 <= P
  BY <1>0, <1>1, IndexFacts
<1>4. b \in Cursors
  BY <1>1, <1>2 DEF Cursors
<1>5. \A q \in Providers : q \notin active => b[q] = c[q]
  BY <1>1, <1>2
<1>6. ASSUME NEW p \in active
      PROVE  /\ index(p) < msb + 1 =>
                  b[p] = 0 /\ Digit(N, combinations[p - 1], sizes[p]) = 0
             /\ index(p) = msb + 1 =>
                  /\ Full(N - 1, combinations[p - 1])
                  /\ b[p] = D(N - 1, p) + 1
             /\ index(p) > msb + 1 => b[p] = D(N - 1, p)
  <2>0. /\ p \in Providers /\ p \in 1 .. P /\ r \in 1 .. P
        /\ index(p) \in Nat /\ index(r) \in Nat
    BY <1>0, IndexSteps
  <2>1. p < r => index(p) + 1 <= index(r)
    BY <1>0, <2>0, IndexFacts
  <2>2. r < p => index(r) + 1 <= index(p)
    BY <1>0, <2>0, IndexFacts
  <2>3. CASE index(p) < msb + 1
    <3>1. p <= r
      BY <1>1, <2>0, <2>2, <2>3
    <3> DEFINE w == combinations[p - 1]  s == sizes[p]
    <3>2. /\ w \in Nat \ {0} /\ combinations[p] = w * s
          /\ combinations[r] \in Nat \ {0}
      BY <1>0, <2>0, Multiplies
    <3>3. s \in Nat \ {0}
      BY <1>0, <2>0 DEF SetupOK
    <3>4. PICK m \in Nat \ {0} : combinations[r] = combinations[p] * m
      BY <1>0, <2>0, <3>1, p \in 0 .. P, r \in p .. P, Nested
    <3>5. N % combinations[r] = 0
      BY <1>1, <3>2, N - 1 \in Nat, (N - 1) + 1 = N, FullNext
    <3>6. N % ((w * s) * m) = 0
      BY <3>2, <3>4, <3>5
    <3> HIDE DEF w, s
    <3>7. Digit(N, w, s) = 0
      BY <3>2, <3>3, <3>6, ZeroDigit
    <3>8. b[p] = 0
      BY <1>2, <2>0, <2>3
    <3> QED
      BY <2>0, <2>3, <3>7, <3>8 DEF w, s
  <2>4. CASE index(p) >= msb + 1
    <3>1. p > r
      BY <1>1, <2>0, <2>1, <2>4
    <3>2. a.cursor[p] = c[p] /\ index(p) > j
      BY <1>1, <2>0, <2>4, <3>1
    <3>3. c[p] = D(N - 1, p)
      BY <3>2 DEF Ready
    <3>4. ASSUME index(p) = msb + 1 PROVE Full(N - 1, combinations[p - 1])
      <4>1. ASSUME NEW i \in r + 1 .. p - 1, i \in active PROVE FALSE
        <5>0. i \in 1 .. P + 1 /\ r < i /\ i < p /\ p \in 1 .. P + 1
          BY <2>0, <1>0
        <5>1. /\ i \in 1 .. P + 1 /\ r < i /\ i < p /\ p \in 1 .. P + 1
              /\ index(i) \in Nat
          BY <5>0, IndexSteps
        <5>2. index(r) + 1 <= index(i) /\ index(i) + 1 <= index(p)
          BY <4>1, <5>1, IndexFacts
        <5> QED
          BY <1>1, <2>0, <3>4, <5>1, <5>2
      <4>2. r \in 0 .. P /\ p - 1 \in r .. P
        BY <2>0, <3>1, <1>0
      <4>3. combinations[p - 1] = combinations[r]
        BY <4>1, <4>2, Nested
      <4> QED
        BY <1>1, <4>3
    <3>5. /\ index(p) = msb + 1 => b[p] = c[p] + 1
          /\ index(p) > msb + 1 => b[p] = c[p]
      BY <1>2, <2>0, <3>2
    <3> QED
      BY <2>0, <2>4, <3>3, <3>4, <3>5
  <2> QED
    BY <2>0, <2>3, <2>4
<1>7. Ready(b, N, msb + 1)
  BY <1>1, <1>6 DEF Ready, D
<1> QED
  BY <1>3, <1>4, <1>5, <1>7

(* The cursors that a scan leaves which was not stopped. *)
LEMMA PassedReady ==
  ASSUME SetupOK, NEW c \in Cursors, NEW N \in Nat, NEW j \in Nat,
         NEW msb \in Nat, NEW a \in Scans, Passed(a, c, N, j, msb, P), ~a.again
  PROVE  /\ Ready(a.cursor, N + 1, 0) /\ a.values = [p \in active |-> D(N, p)]
         /\ \A q \in Providers : q \notin active => a.cursor[q] = c[q]
<1>0. /\ P \in Nat /\ Providers = 1 .. P /\ active \subseteq 1 .. P
  BY InputAssumption DEF Providers, SetupOK
<1>1. \A p \in active :
        /\ a.values[p] = D(N, p)
        /\ a.cursor[p] = IF index(p) = 0 THEN D(N, p) + 1 ELSE D(N, p)
  BY <1>0 DEF Passed
<1>2. a.values \in [active -> Nat]
  BY DEF Scans
<1>3. a.values = [p \in active |-> D(N, p)]
  BY <1>1, <1>2
<1>4. N + 1 > 0 /\ (N + 1) - 1 = N
  OBVIOUS
<1>5. ASSUME NEW p \in active, index(p) = 0 PROVE Full(N, combinations[p - 1])
  <2>1. ASSUME NEW i \in 0 + 1 .. p - 1, i \in active PROVE FALSE
    <3>1. i < p /\ p \in 1 .. P + 1 /\ index(i) \in Nat
      BY <1>0, <2>1, IndexFacts
    <3> QED
      BY <1>5, <2>1, <3>1, IndexFacts
  <2>2. 0 \in 0 .. P /\ p - 1 \in 0 .. P
    BY <1>0
  <2>3. combinations[p - 1] = combinations[0]
    BY <2>1, <2>2, Nested
  <2>4. combinations[p - 1] = 1
    BY <2>3, Multiplies
  <2> QED
    BY <2>4 DEF Full
<1>6. \A p \in active : index(p) \in Nat
  BY <1>0, IndexFacts
<1>7. Ready(a.cursor, N + 1, 0)
  BY <1>1, <1>4, <1>5, <1>6 DEF Ready
<1> QED
  BY <1>0, <1>3, <1>7 DEF Passed

-----------------------------------------------------------------------------
Tries == [cursor : Cursors, msb : Nat]

TryAgain(t) == clusterbombIteratorReset(scan(t.cursor, t.msb).cursor, t.msb + 1)

(* Value by itself: each call resets what the scan before it left. *)
LEMMA Retries ==
  ASSUME SetupOK, NEW c \in Cursors, NEW msb \in Nat
  PROVE  /\ retried(c, msb) \in [0 .. P -> Tries]
         /\ retried(c, msb)[0] = [cursor |-> c, msb |-> msb]
         /\ \A n \in 1 .. P :
              LET t == retried(c, msb)[n - 1]
              IN  retried(c, msb)[n] = [cursor |-> TryAgain(t), msb |-> t.msb + 1]
<1>0. P \in Nat
  BY InputAssumption
<1> DEFINE first == [cursor |-> c, msb |-> msb]
           again(t) == [cursor |-> clusterbombIteratorReset(
                                     scan(t.cursor, t.msb).cursor, t.msb + 1),
                        msb |-> t.msb + 1]
           Step(g, n) == IF n = 0 THEN [cursor |-> c, msb |-> msb]
                         ELSE LET t == g[n - 1] IN
                              [cursor |-> clusterbombIteratorReset(
                                            scan(t.cursor, t.msb).cursor,
                                            t.msb + 1),
                               msb |-> t.msb + 1]
           h == CHOOSE g : g = [n \in 0 .. P |-> Step(g, n)]
           F == [n \in 1 .. P |-> [t \in Tries |-> again(t)]]
<1>1. retried(c, msb) = h
  BY DEF retried
<1>2. ASSUME NEW t \in Tries PROVE again(t) \in Tries
  <2>1. t.cursor \in Cursors /\ t.msb \in Nat /\ t.msb + 1 \in Nat
    BY DEF Tries
  <2>2. PICK a \in [0 .. P -> Scans] : a[P] = scan(t.cursor, t.msb)
    BY <2>1, ScanTurns
  <2>3. scan(t.cursor, t.msb).cursor \in Cursors
    BY <1>0, <2>2 DEF Scans
  <2>4. clusterbombIteratorReset(scan(t.cursor, t.msb).cursor, t.msb + 1) \in Cursors
    <3> DEFINE k == scan(t.cursor, t.msb).cursor
    <3>1. k \in [Providers -> Nat]
      BY <2>3 DEF Cursors
    <3> HIDE DEF k
    <3>2. clusterbombIteratorReset(k, t.msb + 1) \in [Providers -> Nat]
      BY <3>1 DEF clusterbombIteratorReset
    <3> QED
      BY <3>2 DEF k, Cursors
  <2> QED
    BY <2>1, <2>4 DEF Tries
<1>3. first \in Tries
  BY DEF Tries
<1>4. \E g : g = [n \in 0 .. P |-> Step(g, n)]
  <2> HIDE DEF again
  <2>1. F \in [1 .. P -> [Tries -> Tries]]
    BY <1>2
  <2>2. Defines(P, Tries, first, F)
    <3> HIDE DEF F, first
    <3> QED
      BY <1>0, <1>3, <2>1, Recursion
  <2>3. PICK g \in [0 .. P -> Tries] :
          g[0] = first /\ \A n \in 1 .. P : g[n] = F[n][g[n - 1]]
    <3> HIDE DEF F, first
    <3> QED
      BY <2>2 DEF Defines
  <2>4. ASSUME NEW n \in 0 .. P PROVE g[n] = Step(g, n)
    <3>1. CASE n = 0
      BY <2>3, <3>1
    <3>2. CASE n # 0
      <4>1. n \in 1 .. P /\ n - 1 \in 0 .. P
        BY <1>0, <3>2
      <4>2. g[n] = F[n][g[n - 1]] /\ g[n - 1] \in Tries
        <5> HIDE DEF F
        <5> QED
          BY <2>3, <4>1
      <4>3. g[n] = again(g[n - 1])
        BY <4>1, <4>2
      <4> QED
        BY <3>2, <4>3 DEF again
    <3> QED
      BY <3>1, <3>2
  <2>5. g = [n \in 0 .. P |-> Step(g, n)]
    <3> HIDE DEF Step
    <3> QED
      BY <2>3, <2>4
  <2> QED
    BY <2>5
<1>5. h = [n \in 0 .. P |-> Step(h, n)]
  <2> HIDE DEF Step
  <2> QED
    BY <1>4
<1> HIDE DEF h, F
<1>6. h[0] = first
  BY <1>0, <1>5
<1>7. ASSUME NEW n \in 1 .. P PROVE h[n] = again(h[n - 1])
  <2>1. n \in 0 .. P /\ n # 0
    BY <1>0
  <2>2. h[n] = Step(h, n)
    <3> HIDE DEF Step
    <3> QED
      BY <1>5, <2>1
  <2> QED
    BY <2>1, <2>2
<1> HIDE DEF again, first
<1> DEFINE T == {n \in 0 .. P : h[n] \in Tries}
<1>8. 0 .. P \subseteq T
  <2>1. 0 \in T
    BY <1>0, <1>3, <1>6
  <2>2. ASSUME NEW n \in 1 .. P, n - 1 \in T PROVE n \in T
    BY <1>2, <1>7, <2>2
  <2> HIDE DEF T
  <2> QED
    BY <1>0, <2>1, <2>2, RangeInduction
<1>9. h \in [0 .. P -> Tries]
  <2>1. h = [n \in 0 .. P |-> h[n]]
    BY <1>5
  <2> HIDE DEF Step
  <2> QED
    BY <1>8, <2>1
<1> QED
  BY <1>1, <1>6, <1>7, <1>9 DEF first, again, TryAgain

(* Value gives the combination behind those that were drawn, however many
   times it starts over, and leaves the cursors ready for the next one. *)
LEMMA ValueInOrder ==
  ASSUME SetupOK, NEW c \in Cursors, NEW N \in Nat, NEW j \in Nat, Ready(c, N, j),
         NEW msb \in Nat, NEW v, v = clusterbombValue(c, msb)
  PROVE  /\ v.values = [p \in active |-> D(N, p)]
         /\ v.cursor \in Cursors /\ Ready(v.cursor, N + 1, 0)
         /\ \A q \in Providers : q \notin active => v.cursor[q] = c[q]
         /\ v.msb \in Nat /\ (msb <= P => v.msb <= P)
<1>0. P \in Nat
  BY InputAssumption
<1> DEFINE try == retried(c, msb)
           last(n) == scan(try[n].cursor, try[n].msb)
           again(n) == last(n).again
           Least(n) == ~again(n) /\ \A m \in 0 .. P : m < n => again(m)
           n0 == CHOOSE n \in 0 .. P : Least(n)
<1>1. /\ try \in [0 .. P -> Tries] /\ try[0] = [cursor |-> c, msb |-> msb]
      /\ \A n \in 1 .. P : try[n] = [cursor |-> TryAgain(try[n - 1]),
                                   msb |-> try[n - 1].msb + 1]
  BY Retries
<1>2. v = [cursor |-> last(n0).cursor, values |-> last(n0).values,
           msb |-> try[n0].msb]
  BY DEF clusterbombValue
<1> HIDE DEF try
<1> DEFINE Good(n) == /\ \E k \in Nat : Ready(try[n].cursor, N, k)
                      /\ try[n].msb = msb + n /\ (msb <= P => try[n].msb <= P)
                      /\ \A q \in Providers : q \notin active =>
                           try[n].cursor[q] = c[q]
           Reached(n) == \A m \in 0 .. P : m < n => again(m)
           T == {n \in 0 .. P : Reached(n) => Good(n)}
<1> HIDE DEF again, last
<1>3. ASSUME NEW n \in 0 .. P
      PROVE  /\ try[n].cursor \in Cursors /\ try[n].msb \in Nat
             /\ last(n) = scan(try[n].cursor, try[n].msb)
             /\ again(n) <=> last(n).again
  <2>1. try[n] \in Tries
    BY <1>1
  <2> QED
    BY <2>1 DEF Tries, last, again
<1>4. ASSUME NEW n \in 0 .. P, Good(n), again(n)
      PROVE  /\ try[n].msb + 1 <= P
             /\ Ready(TryAgain(try[n]), N, try[n].msb + 1)
             /\ \A q \in Providers : q \notin active => TryAgain(try[n])[q] = c[q]
  <2>1. PICK k \in Nat : Ready(try[n].cursor, N, k)
    BY <1>4
  <2>2. last(n) \in Scans /\ Passed(last(n), try[n].cursor, N, k, try[n].msb, P)
    BY <1>3, <2>1, ScanReady
  <2>3. PICK r \in active :
          StoppedAt(last(n), try[n].cursor, N, k, try[n].msb, r)
    BY <1>3, <1>4, <2>2 DEF Passed
  <2> DEFINE b == TryAgain(try[n])
  <2>4. b = clusterbombIteratorReset(last(n).cursor, try[n].msb + 1)
    BY <1>3 DEF TryAgain
  <2> HIDE DEF b
  <2>5. /\ Ready(b, N, try[n].msb + 1) /\ try[n].msb + 1 <= P
        /\ \A q \in Providers : q \notin active => b[q] = try[n].cursor[q]
    BY <1>3, <2>1, <2>2, <2>3, <2>4, StoppedReady
  <2> QED
    BY <1>4, <2>5 DEF b
<1>5. 0 .. P \subseteq T
  <2>1. 0 \in T
    BY <1>0, <1>1
  <2>2. ASSUME NEW n \in 1 .. P, n - 1 \in T PROVE n \in T
    <3> SUFFICES ASSUME Reached(n) PROVE Good(n)
      BY <1>0
    <3>0. n - 1 \in 0 .. P /\ n \in 0 .. P /\ n - 1 < n
      BY <1>0
    <3>1. again(n - 1) /\ Reached(n - 1)
      BY <1>0, <3>0
    <3>2. Good(n - 1)
      <4> HIDE DEF Good, Reached
      <4> QED
        BY <2>2, <3>1
    <3>3. /\ try[n - 1].msb + 1 <= P
          /\ Ready(TryAgain(try[n - 1]), N, try[n - 1].msb + 1)
          /\ \A q \in Providers : q \notin active => TryAgain(try[n - 1])[q] = c[q]
      <4> HIDE DEF Good
      <4> QED
        BY <1>4, <3>0, <3>1, <3>2
    <3>4. /\ try[n].cursor = TryAgain(try[n - 1])
          /\ try[n].msb = try[n - 1].msb + 1
      <4>1. try[n] = [cursor |-> TryAgain(try[n - 1]), msb |-> try[n - 1].msb + 1]
        <5> HIDE DEF Reached, Good
        <5> QED
          BY <1>1
      <4> QED
        BY <4>1
    <3>5. try[n - 1].msb \in Nat /\ try[n - 1].msb = msb + (n - 1)
      BY <1>3, <3>0, <3>2
    <3>6. try[n].msb = msb + n /\ try[n].msb <= P /\ try[n].msb \in Nat
      BY <3>0, <3>3, <3>4, <3>5
    <3> QED
      BY <3>3, <3>4, <3>6
  <2> HIDE DEF T
  <2> QED
    BY <1>0, <2>1, <2>2, RangeInduction
<1> HIDE DEF Good
<1>6. \E n \in 0 .. P : ~again(n)
  <2> SUFFICES ASSUME \A n \in 0 .. P : again(n) PROVE FALSE
    OBVIOUS
  <2>1. P \in 0 .. P /\ Good(P)
    BY <1>0, <1>5
  <2>2. try[P].msb + 1 <= P /\ try[P].msb = msb + P
    BY <1>4, <2>1 DEF Good
  <2> QED
    BY <1>0, <2>2
<1>7. \E n \in 0 .. P : Least(n)
  <2> SUFFICES ASSUME \A n \in 0 .. P : Reached(n) => again(n) PROVE FALSE
    OBVIOUS
  <2> DEFINE U == {n \in 0 .. P : Reached(n)}
  <2>1. 0 \in U
    BY <1>0
  <2>2. ASSUME NEW n \in 1 .. P, n - 1 \in U PROVE n \in U
    <3>1. again(n - 1) /\ n - 1 \in 0 .. P
      BY <1>0, <2>2
    <3>2. ASSUME NEW m \in 0 .. P, m < n PROVE again(m)
      <4>1. m = n - 1 \/ m < n - 1
        BY <1>0, <3>2
      <4> QED
        BY <2>2, <3>1, <4>1
    <3> QED
      BY <1>0, <3>2
  <2> HIDE DEF U
  <2>3. 0 .. P \subseteq U
    BY <1>0, <2>1, <2>2, RangeInduction
  <2> QED
    BY <1>6, <2>3 DEF U
<1>8. n0 \in 0 .. P /\ Least(n0)
  <2> HIDE DEF Least
  <2> QED
    BY <1>7
<1> HIDE DEF n0
<1>9. Good(n0) /\ ~again(n0)
  BY <1>5, <1>8
<1>10. PICK k \in Nat : Ready(try[n0].cursor, N, k)
  BY <1>9 DEF Good
<1>11. /\ last(n0) \in Scans /\ ~last(n0).again
       /\ Passed(last(n0), try[n0].cursor, N, k, try[n0].msb, P)
  BY <1>3, <1>8, <1>9, <1>10, ScanReady
<1>12. /\ Ready(last(n0).cursor, N + 1, 0)
       /\ last(n0).values = [p \in active |-> D(N, p)]
       /\ \A q \in Providers : q \notin active =>
            last(n0).cursor[q] = try[n0].cursor[q]
  <2> DEFINE a == last(n0)
  <2> HIDE DEF a
  <2>1. a \in Scans /\ ~a.again /\ Passed(a, try[n0].cursor, N, k, try[n0].msb, P)
    BY <1>11 DEF a
  <2>2. try[n0].cursor \in Cursors /\ try[n0].msb \in Nat
    BY <1>3, <1>8
  <2>3. /\ Ready(a.cursor, N + 1, 0) /\ a.values = [p \in active |-> D(N, p)]
        /\ \A q \in Providers : q \notin active => a.cursor[q] = try[n0].cursor[q]
    BY <2>1, <2>2, PassedReady
  <2> QED
    BY <2>3 DEF a
<1>13. last(n0).cursor \in Cursors /\ try[n0].msb \in Nat
  BY <1>3, <1>8, <1>11 DEF Scans
<1> QED
  BY <1>2, <1>9, <1>12, <1>13 DEF Good

-----------------------------------------------------------------------------
(* Total is the number of combinations, or the longest list. *)
LEMMA TotalFacts ==
  SetupOK => /\ Total \in Nat
             /\ Combines => Total = combinations[P]
             /\ ~Combines => \A p \in active : sizes[p] <= Total
<1> SUFFICES ASSUME SetupOK
             PROVE  /\ Total \in Nat
                    /\ Combines => Total = combinations[P]
                    /\ ~Combines => \A p \in active : sizes[p] <= Total
  OBVIOUS
<1>0. /\ P \in Nat /\ MaxWords \in Nat /\ Providers = 1 .. P
      /\ \A p \in active : sizes[p] \in Nat /\ p \in 1 .. P
  BY InputAssumption DEF SetupOK, Providers
<1>1. combinations[P] \in Nat
  BY <1>0, Multiplies
<1> DEFINE next(n, p) == IF p \in active /\ sizes[p] > n THEN sizes[p] ELSE n
           Step(g, p) == IF p = 0 THEN 0
                         ELSE LET n == g[p - 1] IN
                              IF p \in active /\ sizes[p] > n THEN sizes[p] ELSE n
           F == [p \in 1 .. P |-> [n \in Nat |-> next(n, p)]]
<1>2. F \in [1 .. P -> [Nat -> Nat]]
  BY <1>0
<1>3. \E g : g = [p \in 0 .. P |-> Step(g, p)]
  <2>1. Defines(P, Nat, 0, F)
    <3> HIDE DEF F
    <3> QED
      BY <1>0, <1>2, 0 \in Nat, Recursion
  <2>2. PICK g \in [0 .. P -> Nat] :
          g[0] = 0 /\ \A p \in 1 .. P : g[p] = F[p][g[p - 1]]
    <3> HIDE DEF F
    <3> QED
      BY <2>1 DEF Defines
  <2>3. ASSUME NEW p \in 0 .. P PROVE g[p] = Step(g, p)
    <3>1. CASE p = 0
      BY <2>2, <3>1
    <3>2. CASE p # 0
      <4>1. p \in 1 .. P /\ p - 1 \in 0 .. P
        BY <1>0, <3>2
      <4>2. g[p] = F[p][g[p - 1]] /\ g[p - 1] \in Nat
        BY <2>2, <4>1
      <4> QED
        BY <4>1, <4>2
    <3> QED
      BY <3>1, <3>2
  <2>4. g = [p \in 0 .. P |-> Step(g, p)]
    <3> HIDE DEF Step
    <3> QED
      BY <2>2, <2>3
  <2> QED
    BY <2>4
<1>4. longest = [p \in 0 .. P |-> Step(longest, p)]
  <2> DEFINE h == CHOOSE g : g = [p \in 0 .. P |-> Step(g, p)]
  <2>1. longest = h
    BY DEF longest
  <2>2. h = [p \in 0 .. P |-> Step(h, p)]
    <3> HIDE DEF Step
    <3> QED
      BY <1>3
  <2> QED
    BY <2>1, <2>2
<1>5. longest[0] = 0
  BY <1>0, <1>4
<1>6. ASSUME NEW p \in 1 .. P PROVE longest[p] = next(longest[p - 1], p)
  <2>1. p \in 0 .. P /\ p # 0
    BY <1>0
  <2>2. longest[p] = Step(longest, p)
    <3> HIDE DEF Step
    <3> QED
      BY <1>4, <2>1
  <2> QED
    BY <2>1, <2>2
<1> DEFINE T == {n \in 0 .. P : /\ longest[n] \in Nat
                               /\ \A p \in active : p <= n => sizes[p] <= longest[n]}
<1>7. 0 .. P \subseteq T
  <2>1. 0 \in T
    BY <1>0, <1>5
  <2>2. ASSUME NEW n \in 1 .. P, n - 1 \in T PROVE n \in T
    <3>1. /\ longest[n - 1] \in Nat
          /\ \A p \in active : p <= n - 1 => sizes[p] <= longest[n - 1]
          /\ n \in 0 .. P
      BY <1>0, <2>2
    <3>2. longest[n] \in Nat /\ longest[n - 1] <= longest[n]
          /\ (n \in active => sizes[n] <= longest[n])
      BY <1>0, <1>6, <3>1
    <3>3. ASSUME NEW p \in active, p <= n PROVE sizes[p] <= longest[n]
      <4>1. p = n \/ p <= n - 1
        BY <1>0, <3>3
      <4> QED
        BY <1>0, <3>1, <3>2, <4>1
    <3> QED
      BY <3>1, <3>2, <3>3
  <2> HIDE DEF T
  <2> QED
    BY <1>0, <2>1, <2>2, RangeInduction
<1>8. longest[P] \in Nat /\ \A p \in active : sizes[p] <= longest[P]
  BY <1>0, <1>7
<1> QED
  BY <1>1, <1>8 DEF Total

(* What depends on the lists and the mode only. *)
LEMMA SameLists ==
  ASSUME UNCHANGED <<setup, active>>
  PROVE  /\ combinations' = combinations /\ Total' = Total
         /\ SetupOK' = SetupOK /\ Combines' = Combines
         /\ \A k : Combination(k)' = Combination(k)
         /\ \A c, N, j : Ready(c, N, j)' = Ready(c, N, j)
<1>1. sizes' = sizes /\ active' = active /\ mode' = mode
  BY DEF setup
<1>2. combinations' = combinations /\ longest' = longest
  BY <1>1 DEF combinations, longest
<1>3. \A p : index(p)' = index(p)
  BY <1>1 DEF index
<1>4. Combines' = Combines /\ SetupOK' = SetupOK
  BY <1>1 DEF Combines, SetupOK
<1>5. Total' = Total
  BY <1>2, <1>4 DEF Total
<1>6. \A k : Combination(k)' = Combination(k)
  BY <1>1, <1>2, <1>4 DEF Combination
<1>7. \A c, N, j : Ready(c, N, j)' = Ready(c, N, j)
  BY <1>1, <1>2, <1>3 DEF Ready, D
<1> QED
  BY <1>2, <1>4, <1>5, <1>6, <1>7

-----------------------------------------------------------------------------
Draw == [pos : Nat, values : [active -> Nat]]

(* The inductive invariant.  The cursors are those of the values since the
   last reset, and until somebody types a reset the position counts them. *)
InputInv ==
  /\ mode \in Modes /\ SetupOK
  /\ cursor \in Cursors
  /\ \A p \in Providers : p \notin active => cursor[p] = 0
  /\ Combines => \E j \in Nat : Ready(cursor, Len(given), j)
  /\ ~Combines => \A p \in active :
       cursor[p] = IF Len(given) = 0 THEN 0 ELSE ((Len(given) - 1) % sizes[p]) + 1
  /\ position \in 0 .. Total /\ msbIterator \in 0 .. P
  /\ loop \in {"prepare", "next", "value"}
  /\ given \in Seq(Draw)
  /\ \A i \in 1 .. Len(given) : /\ given[i].pos \in 0 .. Total
                               /\ given[i].values = Combination(i)
  /\ resets \in Nat
  /\ resets = 0 => /\ loop = "next" => position = Len(given)
                   /\ loop = "value" => position = Len(given) + 1
                   /\ \A i \in 1 .. Len(given) : given[i].pos = i

LEMMA FreshReady == SetupOK => Ready([p \in Providers |-> 0], 0, P)
<1> SUFFICES ASSUME SetupOK, NEW p \in active
             PROVE  index(p) < P /\ p \in Providers /\ D(0, p) = 0
  BY IndexFacts, InputAssumption DEF Ready
<1>1. /\ P \in Nat /\ MaxWords \in Nat /\ p \in Providers /\ p \in 1 .. P
  BY InputAssumption DEF SetupOK, Providers
<1>2. index(p) < P
  BY <1>1, IndexFacts
<1>3. sizes[p] \in Nat \ {0} /\ combinations[p - 1] \in Nat \ {0}
  BY <1>1, Multiplies DEF SetupOK
<1>4. 0 % sizes[p] = 0 /\ 0 \div combinations[p - 1] = 0
  BY <1>3
<1> QED
  BY <1>1, <1>2, <1>4 DEF D, Digit

Rewound ==
  /\ mode \in Modes /\ SetupOK
  /\ cursor = [p \in Providers |-> 0] /\ position = 0 /\ msbIterator = 0
  /\ given = <<>>
  /\ loop \in {"prepare", "next", "value"}
  /\ resets \in Nat /\ (resets = 0 => loop # "value")

(* A reset leaves nothing of what was drawn before it. *)
LEMMA ResetReady == Rewound => InputInv
<1> SUFFICES ASSUME Rewound PROVE InputInv
  OBVIOUS
<1> USE DEF Rewound
<1>1. P \in Nat /\ active \subseteq Providers
  BY InputAssumption DEF SetupOK
<1>2. Ready(cursor, 0, P)
  BY FreshReady
<1>3. Len(given) = 0 /\ given \in Seq(Draw) /\ 1 .. Len(given) = {}
  BY Len(given) = 0
<1>4. Total \in Nat
  BY TotalFacts
<1> QED
  BY <1>1, <1>2, <1>3, <1>4 DEF InputInv, Cursors

LEMMA InputInit == Init => InputInv
<1> SUFFICES ASSUME Init PROVE InputInv
  OBVIOUS
<1>1. SetupOK
  BY DEF Init, SetupOK
<1> QED
  BY <1>1, ResetReady DEF Init, Rewound

(* Value, in every mode, gives the next combination. *)
LEMMA ValueStep ==
  ASSUME InputInv, NEW v, v = Value(cursor, msbIterator)
  PROVE  /\ v.values = Combination(Len(given) + 1)
         /\ v.values \in [active -> Nat]
         /\ v.cursor \in Cursors /\ v.msb \in 0 .. P
         /\ \A p \in Providers : p \notin active => v.cursor[p] = 0
         /\ Combines => Ready(v.cursor, Len(given) + 1, 0)
         /\ ~Combines => \A p \in active :
              v.cursor[p] = (Len(given) % sizes[p]) + 1
<1> DEFINE N == Len(given)
<1>0. /\ N \in Nat /\ (N + 1) - 1 = N /\ SetupOK /\ P \in Nat /\ MaxWords \in Nat
      /\ active \subseteq Providers /\ cursor \in Cursors
      /\ msbIterator \in Nat /\ msbIterator <= P
  BY InputAssumption DEF InputInv, SetupOK
<1>1. \A p \in active : /\ p \in Providers /\ sizes[p] \in Nat \ {0}
                        /\ combinations[p - 1] \in Nat \ {0}
  <2> SUFFICES ASSUME NEW p \in active
               PROVE  /\ p \in Providers /\ sizes[p] \in Nat \ {0}
                      /\ combinations[p - 1] \in Nat \ {0}
    OBVIOUS
  <2>1. p \in Providers /\ p - 1 \in 0 .. P
    BY <1>0 DEF Providers
  <2> QED
    BY <1>0, <2>1, Multiplies DEF SetupOK
<1>4. \A p \in Providers : p \notin active => cursor[p] = 0
  BY DEF InputInv
<1>2. CASE Combines
  <2>1. PICK j \in Nat : Ready(cursor, N, j)
    BY <1>2 DEF InputInv
  <2>2. v = clusterbombValue(cursor, msbIterator)
    BY <1>2 DEF Value
  <2> HIDE DEF N
  <2>3. /\ v.values = [p \in active |-> D(N, p)]
        /\ v.cursor \in Cursors /\ Ready(v.cursor, N + 1, 0)
        /\ \A q \in Providers : q \notin active => v.cursor[q] = cursor[q]
        /\ v.msb \in Nat /\ v.msb <= P
    BY <1>0, <2>1, <2>2, ValueInOrder
  <2>4. Combination(N + 1) = [p \in active |-> D(N, p)]
    BY <1>0, <1>2 DEF Combination, D, Digit
  <2>5. ASSUME NEW p \in active PROVE D(N, p) \in Nat
    <3> DEFINE w == combinations[p - 1]  s == sizes[p]
    <3>1. w \in Nat \ {0} /\ s \in Nat \ {0}
      BY <1>1
    <3> HIDE DEF w, s
    <3>2. Digit(N, w, s) \in 0 .. s - 1
      BY <1>0, <3>1, NextDigit
    <3>3. D(N, p) = Digit(N, w, s)
      BY DEF D, w, s
    <3> QED
      BY <3>1, <3>2, <3>3
  <2>6. v.values \in [active -> Nat]
    BY <2>3, <2>5
  <2> QED
    BY <1>0, <1>2, <1>4, <2>3, <2>4, <2>6 DEF N
<1>3. CASE ~Combines
  <2> DEFINE word == [p \in active |-> IF cursor[p] < sizes[p] THEN cursor[p] ELSE 0]
  <2>1. v = [cursor |-> [p \in Providers |-> IF p \in active THEN word[p] + 1
                                            ELSE cursor[p]],
             values |-> word, msb |-> msbIterator]
    BY <1>3 DEF Value, pitchforkValue
  <2>2. ASSUME NEW p \in active PROVE word[p] = N % sizes[p]
    <3>1. cursor[p] = IF N = 0 THEN 0 ELSE ((N - 1) % sizes[p]) + 1
      BY <1>3 DEF InputInv
    <3>2. CASE N = 0
      <4>1. 0 % sizes[p] = 0
        BY <1>1
      <4> QED
        BY <1>1, <3>1, <3>2, <4>1
    <3>3. CASE N # 0
      <4> DEFINE n == N - 1  s == sizes[p]
      <4>1. n \in Nat /\ n + 1 = N /\ s \in Nat \ {0}
        BY <1>0, <1>1, <3>3
      <4>2. cursor[p] = (n % s) + 1
        BY <3>1, <3>3
      <4>3. word[p] = IF cursor[p] < s THEN cursor[p] ELSE 0
        OBVIOUS
      <4> HIDE DEF n, s, word, N
      <4>4. /\ n % s \in 0 .. s - 1
            /\ n % s # s - 1 => (n + 1) % s = (n % s) + 1
            /\ n % s = s - 1 => (n + 1) % s = 0
        BY <4>1, NextRest
      <4>5. word[p] = (n + 1) % s
        BY <4>1, <4>2, <4>3, <4>4
      <4> QED
        BY <4>1, <4>5 DEF s
    <3> QED
      BY <3>2, <3>3
  <2>3. ASSUME NEW p \in active PROVE N % sizes[p] \in Nat
    <3> DEFINE s == sizes[p]
    <3>1. N \in Nat /\ s \in Nat \ {0}
      BY <1>0, <1>1
    <3> HIDE DEF N, s
    <3>2. N % s \in 0 .. s - 1
      BY <3>1, DivMod
    <3> QED
      BY <3>1, <3>2 DEF s
  <2>4. word = [p \in active |-> N % sizes[p]] /\ word \in [active -> Nat]
    BY <2>2, <2>3
  <2>5. Combination(N + 1) = [p \in active |-> N % sizes[p]]
    BY <1>0, <1>3 DEF Combination
  <2>6. /\ \A p \in active : v.cursor[p] = (N % sizes[p]) + 1
        /\ \A p \in Providers : p \notin active => v.cursor[p] = cursor[p]
    BY <1>1, <2>1, <2>2
  <2> HIDE DEF word
  <2>7. v.cursor \in Cursors
    <3>1. \A p \in active : word[p] + 1 \in Nat
      BY <2>4
    <3>2. \A p \in Providers : cursor[p] \in Nat
      BY <1>0 DEF Cursors
    <3> QED
      BY <2>1, <3>1, <3>2 DEF Cursors
  <2> QED
    BY <1>0, <1>3, <1>4, <2>1, <2>4, <2>5, <2>6, <2>7
<1> QED
  BY <1>2, <1>3

LEMMA InputStep == InputInv /\ [Next]_vars => InputInv'
<1> SUFFICES ASSUME InputInv, [Next]_vars PROVE InputInv'
  OBVIOUS
<1>0. (Rewound => InputInv)'
  BY ResetReady, PTL
<1>1. ASSUME UNCHANGED <<setup, active, cursor, msbIterator, given, resets>>,
             position' \in 0 .. Total, loop' \in {"prepare", "next", "value"},
             resets = 0 => /\ loop' = "next" => position' = Len(given)
                           /\ loop' = "value" => position' = Len(given) + 1
      PROVE  InputInv'
  <2>1. /\ mode' = mode /\ sizes' = sizes /\ active' = active
        /\ cursor' = cursor /\ msbIterator' = msbIterator /\ given' = given
        /\ resets' = resets
    BY <1>1 DEF setup
  <2>2. /\ Total' = Total /\ SetupOK' = SetupOK /\ Combines' = Combines
        /\ \A k : Combination(k)' = Combination(k)
        /\ \A c, N, j : Ready(c, N, j)' = Ready(c, N, j)
    BY <1>1, SameLists
  <2>3. Draw' = Draw
    BY <2>1 DEF Draw
  <2> QED
    BY <1>1, <2>1, <2>2, <2>3 DEF InputInv
<1>2. ASSUME NEW kws \in SUBSET active, PrepareJob(kws) PROVE InputInv'
  <2>1. /\ mode' = mode /\ sizes' = sizes /\ resets' = resets
        /\ active' = active \cap kws /\ loop' = "next"
        /\ cursor' = [p \in Providers |-> 0] /\ position' = 0
        /\ msbIterator' = 0 /\ given' = <<>>
    BY <1>2 DEF PrepareJob, Reset, setup
  <2>2. Rewound'
    BY <2>1 DEF Rewound, InputInv, SetupOK
  <2> QED
    BY <1>0, <2>2
<1>3. CASE Restart
  <2>1. /\ mode' = mode /\ sizes' = sizes /\ resets' = resets + 1
        /\ active' = active /\ loop' = loop
        /\ cursor' = [p \in Providers |-> 0] /\ position' = 0
        /\ msbIterator' = 0 /\ given' = <<>>
    BY <1>3 DEF Restart, Reset, setup
  <2>2. Rewound'
    BY <2>1 DEF Rewound, InputInv, SetupOK
  <2> QED
    BY <1>0, <2>2
<1>4. CASE NextInput
  <2>1. Total \in Nat /\ position \in 0 .. Total
    BY TotalFacts DEF InputInv
  <2> QED
    BY <1>1, <1>4, <2>1 DEF NextInput, InputInv
<1>5. CASE LeaveJob
  BY <1>1, <1>5 DEF LeaveJob, InputInv
<1>6. CASE Ended \/ UNCHANGED vars
  <2>1. UNCHANGED vars
    BY <1>6 DEF Ended
  <2> QED
    BY <1>1, <2>1 DEF vars, InputInv, setup
<1>7. CASE TakeValue
  <2> DEFINE v == Value(cursor, msbIterator)
             d == [pos |-> position, values |-> v.values]
             N == Len(given)
  <2>1. /\ mode' = mode /\ sizes' = sizes /\ active' = active
        /\ resets' = resets /\ position' = position /\ loop = "value"
        /\ loop' = "next" /\ cursor' = v.cursor /\ msbIterator' = v.msb
        /\ given' = Append(given, d)
    BY <1>7 DEF TakeValue, setup
  <2>2. /\ v.values = Combination(N + 1)
        /\ v.values \in [active -> Nat]
        /\ v.cursor \in Cursors /\ v.msb \in 0 .. P
        /\ \A p \in Providers : p \notin active => v.cursor[p] = 0
        /\ Combines => Ready(v.cursor, N + 1, 0)
        /\ ~Combines => \A p \in active : v.cursor[p] = (N % sizes[p]) + 1
    BY ValueStep
  <2> HIDE DEF v
  <2>3. /\ Total' = Total /\ SetupOK' = SetupOK /\ Combines' = Combines
        /\ \A k : Combination(k)' = Combination(k)
        /\ \A c, n, j : Ready(c, n, j)' = Ready(c, n, j)
    BY <2>1, SameLists DEF setup
  <2>4. Draw' = Draw
    BY <2>1 DEF Draw
  <2>5. /\ Total \in Nat /\ position \in 0 .. Total /\ given \in Seq(Draw)
        /\ N \in Nat
    BY TotalFacts DEF InputInv
  <2>6. d \in Draw /\ d.pos = position /\ d.values = v.values
    BY <2>2, <2>5 DEF Draw
  <2> HIDE DEF d
  <2>7. /\ given' \in Seq(Draw) /\ Len(given') = N + 1 /\ given'[N + 1] = d
        /\ \A i \in 1 .. N : given'[i] = given[i]
    BY <2>1, <2>5, <2>6
  <2>8. \A i \in 1 .. N + 1 : i \in 1 .. N \/ i = N + 1
    BY <2>5
  <2> HIDE DEF N
  <2>9. \A i \in 1 .. Len(given') : /\ given'[i].pos \in 0 .. Total
                                   /\ given'[i].values = Combination(i)
    BY <2>2, <2>5, <2>6, <2>7, <2>8 DEF InputInv, N
  <2>10. resets = 0 => /\ position = N + 1
                       /\ \A i \in 1 .. Len(given') : given'[i].pos = i
    BY <2>1, <2>5, <2>6, <2>7, <2>8 DEF InputInv, N
  <2>11. /\ Combines => \E j \in Nat : Ready(v.cursor, N + 1, j)
         /\ (N + 1) - 1 = N /\ N + 1 # 0
    BY <2>2, <2>5
  <2> QED
    BY <2>1, <2>2, <2>3, <2>4, <2>5, <2>7, <2>9, <2>10, <2>11 DEF InputInv
<1> QED
  BY <1>2, <1>3, <1>4, <1>5, <1>6, <1>7 DEF Next

LEMMA InputInvariant == Spec => []InputInv
<1>1. Init => InputInv
  BY InputInit
<1>2. InputInv /\ [Next]_vars => InputInv'
  BY InputStep
<1> QED
  BY <1>1, <1>2, PTL DEF Spec

LEMMA TypeFacts == InputInv => TypeOK
<1> SUFFICES ASSUME InputInv PROVE TypeOK
  OBVIOUS
<1>0. /\ P \in Nat /\ MaxWords \in Nat /\ SetupOK /\ active \subseteq Providers
      /\ sizes \in [Providers -> 1 .. MaxWords] /\ cursor \in Cursors
      /\ Providers = 1 .. P
  BY InputAssumption DEF InputInv, SetupOK, Providers
<1>1. ASSUME NEW n \in Nat, NEW p \in active PROVE D(n, p) + 1 \in 0 .. MaxWords
  <2> DEFINE w == combinations[p - 1]  s == sizes[p]
  <2>1. w \in Nat \ {0} /\ s \in 1 .. MaxWords /\ s \in Nat \ {0}
    BY <1>0, Multiplies
  <2> HIDE DEF w, s
  <2>2. Digit(n, w, s) \in 0 .. s - 1
    BY <2>1, NextDigit
  <2>3. Digit(n, w, s) + 1 \in 0 .. MaxWords
    BY <1>0, <2>1, <2>2
  <2> QED
    BY <2>3 DEF D, w, s
<1>2. ASSUME NEW p \in Providers PROVE cursor[p] \in 0 .. MaxWords
  <2>0. cursor[p] \in Nat /\ Len(given) \in Nat
    BY <1>0 DEF InputInv, Cursors
  <2>1. CASE p \notin active
    BY <1>0, <2>1 DEF InputInv
  <2>2. CASE p \in active /\ Combines
    <3>1. PICK j \in Nat : Ready(cursor, Len(given), j)
      BY <2>2 DEF InputInv
    <3>2. index(p) \in Nat
      BY <1>0, <2>2, IndexFacts
    <3>3. CASE index(p) < j
      BY <1>0, <2>2, <3>1, <3>3 DEF Ready
    <3>4. CASE index(p) >= j
      <4> DEFINE n == Len(given) - 1
      <4>1. /\ n \in Nat
            /\ cursor[p] = D(n, p) \/ cursor[p] = D(n, p) + 1
        <5>1. Len(given) > 0 /\ (index(p) = j \/ index(p) > j)
          BY <2>0, <2>2, <3>1, <3>2, <3>4 DEF Ready
        <5> QED
          BY <2>0, <2>2, <3>1, <5>1 DEF Ready
      <4> HIDE DEF n
      <4>2. D(n, p) + 1 \in 0 .. MaxWords
        BY <1>1, <2>2, <4>1
      <4>3. CASE cursor[p] = D(n, p)
        <5> DEFINE d == D(n, p)
        <5>1. d \in Nat /\ d + 1 \in 0 .. MaxWords
          BY <2>0, <4>2, <4>3
        <5> HIDE DEF d
        <5>2. d \in 0 .. MaxWords
          BY <1>0, <5>1
        <5> QED
          BY <4>3, <5>2 DEF d
      <4> QED
        BY <4>1, <4>2, <4>3
    <3> QED
      BY <3>2, <3>3, <3>4
  <2>3. CASE p \in active /\ ~Combines
    <3>1. cursor[p] = IF Len(given) = 0 THEN 0 ELSE ((Len(given) - 1) % sizes[p]) + 1
      BY <2>3 DEF InputInv
    <3>2. CASE Len(given) = 0
      BY <1>0, <3>1, <3>2
    <3>3. CASE Len(given) # 0
      <4> DEFINE n == Len(given) - 1  s == sizes[p]
      <4>1. n \in Nat /\ s \in 1 .. MaxWords /\ s \in Nat \ {0}
        BY <1>0, <2>0, <3>3
      <4>2. cursor[p] = (n % s) + 1
        BY <3>1, <3>3
      <4> HIDE DEF n, s
      <4>3. n % s \in 0 .. s - 1
        BY <4>1, DivMod
      <4> QED
        BY <1>0, <4>1, <4>2, <4>3
    <3> QED
      BY <3>2, <3>3
  <2> QED
    BY <2>1, <2>2, <2>3
<1>3. cursor \in [Providers -> 0 .. MaxWords]
  BY <1>0, <1>2 DEF Cursors
<1>4. msbIterator \in 0 .. P + 1
  BY <1>0 DEF InputInv
<1>5. \A i \in DOMAIN given : /\ given[i].pos \in 0 .. Total
                            /\ DOMAIN given[i].values = active
  <2>1. DOMAIN given = 1 .. Len(given) /\ given \in Seq(Draw)
    BY DEF InputInv
  <2>2. ASSUME NEW i \in DOMAIN given PROVE DOMAIN given[i].values = active
    <3>1. given[i] \in Draw
      BY <2>1
    <3>2. given[i].values \in [active -> Nat]
      BY <3>1 DEF Draw
    <3> QED
      BY <3>2
  <2> QED
    BY <2>1, <2>2 DEF InputInv
<1> QED
  BY <1>0, <1>3, <1>4, <1>5 DEF InputInv, TypeOK

(* No cursor is ever further than one past its list, and the position stays
   within the combinations, whoever resets the provider and when. *)
THEOREM TypeCorrect == Spec => []TypeOK
BY InputInvariant, TypeFacts, PTL

-----------------------------------------------------------------------------
\* n and k times the combinations of a digit and of m more.
Higher(n, w, s, m, k) == n + ((w * s) * m) * k

(* A digit does not change with those above it. *)
LEMMA DigitOfSum ==
  ASSUME NEW n \in Nat, NEW w \in Nat \ {0}, NEW s \in Nat \ {0},
         NEW m \in Nat \ {0}, NEW k \in Nat
  PROVE  Digit(Higher(n, w, s, m, k), w, s) = Digit(n, w, s)
<1> DEFINE a == n \div w  b == n % w
<1>1. a \in Nat /\ b \in 0 .. w - 1 /\ n = w * a + b
  BY DivMod
<1> DEFINE d == a % s  e == a \div s
<1>2. d \in 0 .. s - 1 /\ e \in Nat /\ a = s * e + d
  BY <1>1, DivMod
<1>3. Digit(n, w, s) = d
  BY DEF Digit
<1> HIDE DEF a, b, d, e
<1>4. m * k \in Nat /\ s * (m * k) \in Nat /\ e + m * k \in Nat
  BY <1>2
<1>5. ((w * s) * m) * k = w * (s * (m * k))
  OBVIOUS
<1>6. n + ((w * s) * m) * k = w * (a + s * (m * k)) + b
  <2>1. w * (a + s * (m * k)) = w * a + w * (s * (m * k))
    BY <1>1, <1>4
  <2> QED
    BY <1>1, <1>5, <2>1
<1>7. (w * (a + s * (m * k)) + b) \div w = a + s * (m * k)
  BY <1>1, <1>4, a + s * (m * k) \in Nat, DivModUnique
<1>8. a + s * (m * k) = s * (e + m * k) + d
  <2>1. s * (e + m * k) = s * e + s * (m * k)
    BY <1>2, <1>4
  <2> QED
    BY <1>2, <1>4, <2>1
<1>9. (s * (e + m * k) + d) % s = d
  BY <1>2, <1>4, DivModUnique
<1> QED
  BY <1>3, <1>6, <1>7, <1>8, <1>9 DEF Digit, Higher

(* Every choice of words is a combination: add it up place by place. *)
LEMMA EveryChoice ==
  ASSUME SetupOK, NEW v \in [active -> Nat], \A p \in active : v[p] < sizes[p]
  PROVE  \E n \in Nat : n < combinations[P] /\ \A p \in active : D(n, p) = v[p]
<1>0. /\ P \in Nat /\ MaxWords \in Nat /\ active \subseteq 1 .. P /\ Providers = 1 .. P
      /\ \A p \in active : sizes[p] \in Nat \ {0}
      /\ \A p \in 0 .. P : combinations[p] \in Nat \ {0}
      /\ \A p \in 1 .. P : combinations[p] = IF p \in active
                                            THEN combinations[p - 1] * sizes[p]
                                            ELSE combinations[p - 1]
  <2>1. /\ P \in Nat /\ MaxWords \in Nat /\ active \subseteq 1 .. P
        /\ Providers = 1 .. P
        /\ \A p \in active : sizes[p] \in Nat \ {0}
    BY InputAssumption DEF SetupOK, Providers
  <2> QED
    BY <2>1, Multiplies
<1> DEFINE Sum(m, n) == /\ n \in Nat /\ n < combinations[m]
                        /\ \A p \in active : p <= m => D(n, p) = v[p]
           T == {m \in 0 .. P : \E n : Sum(m, n)}
<1>1. 0 \in T
  <2>1. Sum(0, 0)
    BY <1>0
  <2> HIDE DEF Sum
  <2> QED
    BY <1>0, <2>1
<1>2. ASSUME NEW m \in 1 .. P, m - 1 \in T PROVE m \in T
  <2>0. m - 1 \in 0 .. P /\ m \in 0 .. P /\ m \in Nat
    BY <1>0
  <2>1. PICK n : Sum(m - 1, n)
    BY <1>2
  <2>2. CASE m \notin active
    <3>1. \A p \in active : p <= m => p <= m - 1
      BY <1>0, <2>0, <2>2
    <3>2. Sum(m, n)
      BY <1>0, <2>1, <2>2, <3>1
    <3> HIDE DEF Sum
    <3> QED
      BY <2>0, <3>2
  <2>3. CASE m \in active
    <3> DEFINE C == combinations[m - 1]  s == sizes[m]  k == n + C * v[m]
    <3>1. /\ C \in Nat \ {0} /\ s \in Nat \ {0} /\ combinations[m] = C * s
          /\ v[m] \in Nat /\ v[m] < s /\ n \in Nat /\ n < C
      BY <1>0, <2>0, <2>1, <2>3
    <3>2. k \in Nat /\ k < combinations[m] /\ D(k, m) = v[m]
      <4> DEFINE x == v[m]
      <4>1. x \in Nat /\ x + 1 <= s /\ n \in 0 .. C - 1 /\ k = C * x + n
        BY <3>1
      <4>2. combinations[m] = C * s /\ D(k, m) = (k \div C) % s
        BY <3>1 DEF D, Digit
      <4> HIDE DEF C, s, x, k, D
      <4>3. C * (x + 1) <= C * s
        BY <3>1, <4>1
      <4>4. C * (x + 1) = C * x + C
        BY <3>1, <4>1
      <4>5. k \div C = x
        BY <3>1, <4>1, DivModUnique
      <4>6. x = s * 0 + x /\ x \in 0 .. s - 1
        BY <3>1, <4>1
      <4>7. x % s = x
        BY <3>1, <4>6, DivModUnique
      <4>8. C * x \in Nat
        BY <3>1, <4>1
      <4> QED
        BY <3>1, <4>1, <4>2, <4>3, <4>4, <4>5, <4>7, <4>8 DEF x
    <3>3. ASSUME NEW p \in active, p <= m - 1 PROVE D(k, p) = v[p]
      <4> DEFINE w == combinations[p - 1]  t == sizes[p]
      <4>1. p \in 1 .. P /\ p - 1 \in 0 .. P /\ p \in 0 .. P /\ m - 1 \in p .. P
        BY <1>0, <2>0, <3>3
      <4>2. w \in Nat \ {0} /\ t \in Nat \ {0} /\ combinations[p] = w * t
        BY <1>0, <4>1
      <4>3. PICK i \in Nat \ {0} : C = combinations[p] * i
        BY <4>1, Nested
      <4>4. k = n + ((w * t) * i) * v[m]
        BY <4>2, <4>3
      <4>5. D(k, p) = Digit(k, w, t) /\ D(n, p) = Digit(n, w, t)
        BY DEF D
      <4> DEFINE x == v[m]
      <4>6. x \in Nat /\ n \in Nat /\ k = Higher(n, w, t, i, x)
        BY <3>1, <4>4 DEF Higher
      <4> HIDE DEF C, k, w, t, x, s
      <4>7. Digit(k, w, t) = Digit(n, w, t)
        BY <4>2, <4>6, DigitOfSum
      <4> QED
        BY <2>1, <3>3, <4>5, <4>6, <4>7
    <3> HIDE DEF C, s, k
    <3>4. ASSUME NEW p \in active, p <= m PROVE D(k, p) = v[p]
      <4>1. p = m \/ p <= m - 1
        BY <1>0, <2>0, <3>4
      <4> QED
        BY <3>2, <3>3, <4>1
    <3>5. Sum(m, k)
      BY <3>2, <3>4
    <3> HIDE DEF Sum
    <3> QED
      BY <2>0, <3>5
  <2> QED
    BY <2>2, <2>3
<1> HIDE DEF T
<1>3. P \in T
  <2>1. 0 .. P \subseteq T
    BY <1>0, <1>1, <1>2, RangeInduction
  <2> QED
    BY <1>0, <2>1
<1>4. PICK n : Sum(P, n)
  BY <1>3 DEF T
<1> QED
  BY <1>0, <1>4

LEMMA OrderFacts == InputInv => EveryCombinationInOrder
<1> SUFFICES ASSUME InputInv PROVE EveryCombinationInOrder
  OBVIOUS
<1>0. /\ SetupOK /\ P \in Nat /\ MaxWords \in Nat /\ active \subseteq 1 .. P
      /\ sizes \in [1 .. P -> 1 .. MaxWords]
      /\ given \in Seq(Draw) /\ DOMAIN given = 1 .. Len(given) /\ Len(given) \in Nat
      /\ \A i \in 1 .. Len(given) : given[i].values = Combination(i)
  BY InputAssumption DEF InputInv, SetupOK, Providers
<1>1. ValuesInOrder
  BY <1>0 DEF ValuesInOrder
<1>2. CompleteJob
  <2> SUFFICES ASSUME loop = "next", position = Total, resets = 0
               PROVE  /\ Len(given) = Total
                      /\ Combines => {given[i].values : i \in DOMAIN given}
                                       = {v \in [active -> 0 .. MaxWords - 1] :
                                            \A p \in active : v[p] < sizes[p]}
                      /\ ~Combines => \A p \in active :
                                        {given[i].values[p] : i \in DOMAIN given}
                                          = 0 .. sizes[p] - 1
    BY DEF CompleteJob
  <2>1. Len(given) = Total
    BY DEF InputInv
  <2>2. {given[i].values : i \in DOMAIN given} = {Combination(i) : i \in 1 .. Total}
    BY <1>0, <2>1
  <2>3. ASSUME Combines
        PROVE  {Combination(i) : i \in 1 .. Total}
                 = {v \in [active -> 0 .. MaxWords - 1] :
                      \A p \in active : v[p] < sizes[p]}
    <3>1. ASSUME NEW i \in 1 .. Total
          PROVE  Combination(i) \in {v \in [active -> 0 .. MaxWords - 1] :
                                       \A p \in active : v[p] < sizes[p]}
      <4>0. i - 1 \in Nat
        BY <1>0, TotalFacts
      <4>1. Combination(i) = [p \in active |-> D(i - 1, p)]
        BY <2>3 DEF Combination, D, Digit
      <4>2. ASSUME NEW p \in active
            PROVE  D(i - 1, p) \in 0 .. MaxWords - 1 /\ D(i - 1, p) < sizes[p]
        <5> DEFINE n == i - 1  w == combinations[p - 1]  s == sizes[p]
        <5>1. n \in Nat /\ w \in Nat \ {0} /\ s \in 1 .. MaxWords /\ s \in Nat \ {0}
          BY <1>0, <4>0, Multiplies
        <5>2. D(i - 1, p) = Digit(n, w, s)
          BY DEF D
        <5> HIDE DEF n, w, s
        <5>3. Digit(n, w, s) \in 0 .. s - 1
          BY <5>1, NextDigit
        <5>4. Digit(n, w, s) \in 0 .. MaxWords - 1 /\ Digit(n, w, s) < s
          BY <1>0, <5>1, <5>3
        <5> QED
          BY <5>2, <5>4 DEF s
      <4> HIDE DEF D
      <4> QED
        BY <4>1, <4>2
    <3>2. ASSUME NEW v \in [active -> 0 .. MaxWords - 1],
                 \A p \in active : v[p] < sizes[p]
          PROVE  \E i \in 1 .. Total : v = Combination(i)
      <4>1. v \in [active -> Nat]
        BY <1>0
      <4>2. PICK n \in Nat : n < combinations[P] /\ \A p \in active : D(n, p) = v[p]
        BY <1>0, <3>2, <4>1, EveryChoice
      <4>3. Total \in Nat /\ Total = combinations[P]
        BY <1>0, <2>3, TotalFacts
      <4>4. n + 1 \in 1 .. Total /\ (n + 1) - 1 = n
        BY <4>2, <4>3
      <4>5. Combination(n + 1) = [p \in active |-> D(n, p)]
        BY <2>3, <4>4 DEF Combination, D, Digit
      <4> HIDE DEF D
      <4>6. v = [p \in active |-> D(n, p)]
        BY <4>2
      <4> QED
        BY <4>4, <4>5, <4>6
    <3> QED
      BY <3>1, <3>2
  <2>4. ASSUME ~Combines, NEW p \in active
        PROVE  {given[i].values[p] : i \in DOMAIN given} = 0 .. sizes[p] - 1
    <3> DEFINE s == sizes[p]
    <3>1. s \in Nat \ {0} /\ s <= Total /\ Total \in Nat
      BY <1>0, <2>4, TotalFacts
    <3>2. ASSUME NEW i \in DOMAIN given
          PROVE  i - 1 \in Nat /\ given[i].values[p] = (i - 1) % s
      <4>1. i \in 1 .. Len(given) /\ given[i].values = Combination(i)
        BY <1>0
      <4>2. Combination(i)[p] = (i - 1) % s
        BY <2>4 DEF Combination
      <4>3. i - 1 \in Nat
        BY <1>0, <4>1
      <4> QED
        BY <4>1, <4>2, <4>3
    <3> HIDE DEF s
    <3>3. ASSUME NEW i \in DOMAIN given PROVE given[i].values[p] \in 0 .. s - 1
      <4>1. (i - 1) % s \in 0 .. s - 1
        BY <3>1, <3>2, DivMod
      <4> QED
        BY <3>2, <4>1
    <3>4. ASSUME NEW k \in 0 .. s - 1
          PROVE  \E i \in DOMAIN given : k = given[i].values[p]
      <4>1. k + 1 \in DOMAIN given /\ (k + 1) - 1 = k
        BY <1>0, <2>1, <3>1
      <4>2. k = s * 0 + k /\ 0 \in Nat
        BY <3>1
      <4>3. k % s = k
        BY <3>1, <4>2, DivModUnique
      <4> QED
        BY <3>2, <4>1, <4>3
    <3> QED
      BY <3>3, <3>4 DEF s
  <2> QED
    BY <2>1, <2>2, <2>3, <2>4
<1> QED
  BY <1>1, <1>2 DEF EveryCombinationInOrder

(* The k-th value after a reset is the k-th combination, in every mode, with
   any providers disabled, and past the end of the input; and a job that runs
   to its end has drawn each combination once. *)
THEOREM InOrder == Spec => []EveryCombinationInOrder
BY InputInvariant, OrderFacts, PTL

(* SetPosition draws values from a fresh provider. *)
LEMMA DrawnReady ==
  ASSUME SetupOK, Combines, NEW n \in 0 .. Total
  PROVE  /\ drawn[n].cursor \in Cursors /\ drawn[n].msb \in 0 .. P
         /\ \E j \in Nat : Ready(drawn[n].cursor, n, j)
<1>0. P \in Nat /\ Total \in Nat
  BY InputAssumption, TotalFacts
<1> DEFINE next(t) == [cursor |-> Value(t.cursor, t.msb).cursor,
                       msb |-> Value(t.cursor, t.msb).msb]
           Step(g, m) == IF m = 0 THEN Fresh
                         ELSE LET t == g[m - 1]
                                  v == Value(t.cursor, t.msb)
                              IN  [cursor |-> v.cursor, msb |-> v.msb]
           S == [cursor : Cursors, msb : 0 .. P]
           ReadyAt(t, m) == t \in S /\ \E j \in Nat : Ready(t.cursor, m, j)
           Pairs == {x \in S \X Nat : ReadyAt(x[1], x[2])}
           F == [m \in 1 .. Total |-> [x \in Pairs |-> <<next(x[1]), x[2] + 1>>]]
<1>1. ASSUME NEW t, NEW m \in Nat, ReadyAt(t, m) PROVE ReadyAt(next(t), m + 1)
  <2>1. PICK j \in Nat : Ready(t.cursor, m, j)
    BY <1>1
  <2>2. t.cursor \in Cursors /\ t.msb \in Nat /\ t.msb <= P
    BY <1>0, <1>1
  <2> DEFINE v == Value(t.cursor, t.msb)
  <2>3. v = clusterbombValue(t.cursor, t.msb)
    BY DEF Value
  <2> HIDE DEF v
  <2>4. /\ v.cursor \in Cursors /\ Ready(v.cursor, m + 1, 0)
        /\ v.msb \in Nat /\ v.msb <= P
    <3> DEFINE c == t.cursor  b == t.msb
    <3>1. /\ c \in Cursors /\ b \in Nat /\ b <= P /\ Ready(c, m, j)
          /\ v = clusterbombValue(c, b)
      BY <2>1, <2>2, <2>3
    <3> HIDE DEF c, b
    <3> QED
      BY <3>1, ValueInOrder
  <2> QED
    BY <1>0, <2>4 DEF v
<1>2. ReadyAt(Fresh, 0)
  <2>1. Fresh \in S
    BY <1>0 DEF Fresh, Cursors
  <2> QED
    BY <1>0, <2>1, FreshReady DEF Fresh
<1> HIDE DEF next, ReadyAt
<1>3. \E g : g = [m \in 0 .. Total |-> Step(g, m)]
  <2>1. ASSUME NEW x \in Pairs PROVE <<next(x[1]), x[2] + 1>> \in Pairs
    <3>1. x[2] \in Nat /\ ReadyAt(x[1], x[2])
      OBVIOUS
    <3>2. ReadyAt(next(x[1]), x[2] + 1) /\ x[2] + 1 \in Nat
      BY <1>1, <3>1
    <3> QED
      BY <3>2 DEF ReadyAt
  <2>2. <<Fresh, 0>> \in Pairs
    BY <1>2 DEF ReadyAt
  <2>3. F \in [1 .. Total -> [Pairs -> Pairs]]
    <3> HIDE DEF Pairs
    <3> QED
      BY <2>1
  <2>4. Defines(Total, Pairs, <<Fresh, 0>>, F)
    <3> HIDE DEF F, Pairs
    <3> QED
      BY <1>0, <2>2, <2>3, Recursion
  <2>5. PICK g \in [0 .. Total -> Pairs] :
          g[0] = <<Fresh, 0>> /\ \A m \in 1 .. Total : g[m] = F[m][g[m - 1]]
    <3> HIDE DEF F, Pairs
    <3> QED
      BY <2>4 DEF Defines
  <2> DEFINE h == [m \in 0 .. Total |-> g[m][1]]
  <2>6. ASSUME NEW m \in 0 .. Total PROVE h[m] = Step(h, m)
    <3>1. CASE m = 0
      BY <2>5, <3>1
    <3>2. CASE m # 0
      <4>1. m \in 1 .. Total /\ m - 1 \in 0 .. Total
        BY <1>0, <3>2
      <4>2. g[m] = F[m][g[m - 1]] /\ g[m - 1] \in Pairs
        <5> HIDE DEF F, Pairs
        <5> QED
          BY <2>5, <4>1
      <4>3. g[m] = <<next(g[m - 1][1]), g[m - 1][2] + 1>>
        <5> HIDE DEF Pairs
        <5> QED
          BY <4>1, <4>2
      <4>4. h[m] = next(h[m - 1])
        BY <4>1, <4>3
      <4> QED
        BY <3>2, <4>4 DEF next
    <3> QED
      BY <3>1, <3>2
  <2>7. h = [m \in 0 .. Total |-> Step(h, m)]
    <3> HIDE DEF Step
    <3> QED
      BY <2>6
  <2> QED
    BY <2>7
<1>4. drawn = [m \in 0 .. Total |-> Step(drawn, m)]
  <2> DEFINE h == CHOOSE g : g = [m \in 0 .. Total |-> Step(g, m)]
  <2>1. drawn = h
    BY DEF drawn
  <2>2. h = [m \in 0 .. Total |-> Step(h, m)]
    <3> HIDE DEF Step
    <3> QED
      BY <1>3
  <2> QED
    BY <2>1, <2>2
<1>5. drawn[0] = Fresh
  BY <1>0, <1>4
<1>6. ASSUME NEW m \in 1 .. Total PROVE drawn[m] = next(drawn[m - 1])
  <2>1. m \in 0 .. Total /\ m # 0
    BY <1>0
  <2>2. drawn[m] = Step(drawn, m)
    <3> HIDE DEF Step
    <3> QED
      BY <1>4, <2>1
  <2> QED
    BY <2>1, <2>2 DEF next
<1> DEFINE T == {m \in 0 .. Total : ReadyAt(drawn[m], m)}
<1>7. 0 .. Total \subseteq T
  <2>1. 0 \in T
    BY <1>0, <1>2, <1>5
  <2>2. ASSUME NEW m \in 1 .. Total, m - 1 \in T PROVE m \in T
    <3>1. m - 1 \in Nat /\ (m - 1) + 1 = m /\ m \in 0 .. Total
      BY <1>0
    <3> QED
      BY <1>1, <1>6, <2>2, <3>1
  <2> HIDE DEF T
  <2> QED
    BY <1>0, <2>1, <2>2, RangeInduction
<1> QED
  BY <1>7 DEF ReadyAt

LEMMA SearchFacts == InputInv => SearchFindsCombination
<1> SUFFICES ASSUME InputInv, Combines, resets = 0, NEW i \in DOMAIN given
             PROVE  SearchValue(given[i].pos) = given[i].values
  BY DEF SearchFindsCombination
<1>1. /\ SetupOK /\ Total \in Nat /\ i \in 1 .. Len(given) /\ Len(given) \in Nat
      /\ given[i].pos = i /\ given[i].values = Combination(i) /\ i \in 0 .. Total
  <2>1. given \in Seq(Draw) /\ SetupOK
    BY DEF InputInv
  <2>2. i \in 1 .. Len(given) /\ Len(given) \in Nat
    BY <2>1
  <2> QED
    BY <2>1, <2>2, TotalFacts DEF InputInv
<1> DEFINE n == i - 1
<1>2. n \in Nat /\ n \in 0 .. Total /\ i # 0 /\ i <= Total /\ P \in Nat
  BY <1>1, InputAssumption
<1>3. SetPosition(i) = drawn[n]
  BY <1>1, <1>2 DEF SetPosition, setclusterbombPosition
<1>4. SearchValue(i) = clusterbombValue(drawn[n].cursor, drawn[n].msb).values
  BY <1>3 DEF SearchValue, Value
<1>5. Combination(i) = [p \in active |-> D(n, p)]
  BY DEF Combination, D, Digit
<1> HIDE DEF n
<1>6. /\ drawn[n].cursor \in Cursors /\ drawn[n].msb \in Nat
  BY <1>1, <1>2, DrawnReady
<1>7. PICK j \in Nat : Ready(drawn[n].cursor, n, j)
  BY <1>1, <1>2, DrawnReady
<1>8. clusterbombValue(drawn[n].cursor, drawn[n].msb).values
        = [p \in active |-> D(n, p)]
  BY <1>1, <1>2, <1>6, <1>7, ValueInOrder
<1> QED
  BY <1>1, <1>4, <1>5, <1>8

(* A search with the position that a request was sent with draws up to it on a
   fresh provider and so finds the payload of that request. *)
THEOREM SearchFinds == Spec => []SearchFindsCombination
BY InputInvariant, SearchFacts, PTL
=============================================================================
