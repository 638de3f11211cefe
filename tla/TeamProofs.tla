----------------------------- MODULE TeamProofs -----------------------------
(* Safety of Team for every set of names, definitions, runs and restarts.    *)
EXTENDS Team, FiniteSetTheorems, WellFoundedInduction, TLAPS

-----------------------------------------------------------------------------
(* validateDAG: Kahn's loop judges a definition right, whatever its size.    *)

\* Induction over the numbers of a set.
LEMMA SetInduction ==
    ASSUME NEW S, 0 \in S, \A n \in Nat : n \in S => n + 1 \in S
    PROVE  Nat \subseteq S
<1> SUFFICES ASSUME Nat \ S # {} PROVE FALSE
  OBVIOUS
<1>1. PICK x \in Nat \ S : \A y \in Nat \ S : ~(<<y, x>> \in OpToRel(<, Nat))
  BY NatLessThanWellFounded, WFMin
<1>2. x \in Nat /\ x # 0
  BY <1>1
<1>3. x - 1 \in Nat /\ x - 1 < x /\ (x - 1) + 1 = x
  BY <1>2
<1>4. <<x - 1, x>> \in OpToRel(<, Nat)
  BY <1>2, <1>3 DEF OpToRel
<1>5. x - 1 \in S
  BY <1>1, <1>3, <1>4
<1> QED
  BY <1>1, <1>3, <1>5

\* No two workers of a definition share a name, so that each is found by it.
LEMMA NamesDistinct ==
    ASSUME NEW d \in Seq(Worker), ReferencesOK(d)
    PROVE  \A i, j \in DOMAIN d : d[i].name = d[j].name => i = j
<1> DEFINE f == [i \in 1..Len(d) |-> d[i].name]
<1>1. DOMAIN d = 1..Len(d) /\ Len(d) \in Nat
  OBVIOUS
<1>2. f \in Surjection(1..Len(d), Named(d))
  BY <1>1 DEF Surjection, Named
<1>3. IsFiniteSet(1..Len(d)) /\ Cardinality(1..Len(d)) = Len(d)
  BY <1>1, FS_Interval
<1>4. f \in Injection(1..Len(d), Named(d))
  BY <1>2, <1>3, FS_SurjSameCardinalityImpliesInj DEF ReferencesOK
<1> QED
  <2>1. \A i, j \in 1..Len(d) : f[i] = f[j] => i = j
    BY <1>4 DEF Injection, IsInjective
  <2> QED
    BY <1>1, <2>1

LEMMA BlockedByList ==
    ASSUME NEW d \in Seq(Worker), ReferencesOK(d), NEW n \in Named(d)
    PROVE  /\ BlockedBy(d, n) \in Seq(Name)
           /\ BlockersIn(d, n) = {BlockedBy(d, n)[k] : k \in DOMAIN BlockedBy(d, n)}
           /\ BlockersIn(d, n) \subseteq Named(d)
<1>1. PICK i \in DOMAIN d : d[i].name = n
  BY DEF Named
<1>2. (CHOOSE j \in DOMAIN d : d[j].name = n) = i
  BY <1>1, NamesDistinct
<1>3. BlockedBy(d, n) = d[i].blockedBy
  BY <1>2 DEF BlockedBy
<1>4. {j \in DOMAIN d : d[j].name = n} = {i}
  BY <1>1, NamesDistinct
<1>5. d[i] \in Worker
  BY <1>1
<1>6. d[i].blockedBy \in Seq(Name)
  BY <1>5 DEF Worker
<1>7. BlockersIn(d, n) = {d[i].blockedBy[k] : k \in DOMAIN d[i].blockedBy}
  BY <1>4 DEF BlockersIn
<1>8. \A k \in DOMAIN d[i].blockedBy : d[i].blockedBy[k] \in Named(d)
  BY <1>1 DEF ReferencesOK
<1> QED
  BY <1>3, <1>6, <1>7, <1>8

LEMMA NamedFinite ==
    ASSUME NEW d \in Seq(Worker)
    PROVE  IsFiniteSet(Named(d)) /\ Named(d) \subseteq Name
<1>1. Named(d) \subseteq Name
  <2>1. \A i \in DOMAIN d : d[i] \in Worker
    OBVIOUS
  <2> QED
    BY <2>1 DEF Named, Worker
<1> QED
  BY <1>1, NameFinite, FS_Subset

\* What a recursive function over 0..N returns, for the two of this module.
Add(d, F, s, k) == IF d[k].name \in F THEN Append(s, d[k].name) ELSE s

Upto(d, F) ==
    LET upto[k \in 0..Len(d)] == IF k = 0 THEN <<>> ELSE Add(d, F, upto[k - 1], k) IN upto

Turns(d) ==
    LET turn[k \in 0..Len(d)] == IF k = 0 THEN KahnStart(d) ELSE KahnTurn(d, turn[k - 1])
    IN  turn

LEMMA UptoHolds ==
    ASSUME NEW d \in Seq(Worker), NEW F
    PROVE  Upto(d, F) = [k \in 0..Len(d) |-> IF k = 0 THEN <<>> ELSE Add(d, F, Upto(d, F)[k - 1], k)]
<1> DEFINE S == {k \in Nat : \E f : f = [j \in 0..k |-> IF j = 0 THEN <<>> ELSE Add(d, F, f[j - 1], j)]}
<1>1. 0 \in S
  <2> DEFINE f == [j \in 0..0 |-> <<>>]
  <2>1. f = [j \in 0..0 |-> IF j = 0 THEN <<>> ELSE Add(d, F, f[j - 1], j)]
    OBVIOUS
  <2> HIDE DEF f
  <2> QED
    BY <2>1
<1>2. ASSUME NEW k \in Nat, k \in S PROVE k + 1 \in S
  <2>1. PICK f : f = [j \in 0..k |-> IF j = 0 THEN <<>> ELSE Add(d, F, f[j - 1], j)]
    BY <1>2
  <2> DEFINE g == [j \in 0..(k + 1) |-> IF j = k + 1 THEN Add(d, F, f[k], k + 1) ELSE f[j]]
  <2>2. \A j \in 0..(k + 1) : g[j] = IF j = 0 THEN <<>> ELSE Add(d, F, g[j - 1], j)
    <3> SUFFICES ASSUME NEW j \in 0..(k + 1)
                 PROVE  g[j] = IF j = 0 THEN <<>> ELSE Add(d, F, g[j - 1], j)
      OBVIOUS
    <3>1. CASE j = 0
      BY <2>1, <3>1
    <3>2. CASE j # 0 /\ j # k + 1
      <4>1. f[j] = Add(d, F, f[j - 1], j)
        BY <2>1, <3>2
      <4>2. g[j] = f[j] /\ g[j - 1] = f[j - 1]
        BY <3>2
      <4> QED
        BY <3>2, <4>1, <4>2
    <3>3. CASE j = k + 1
      <4>1. g[j] = Add(d, F, f[k], k + 1) /\ g[j - 1] = f[k]
        BY <3>3
      <4> QED
        BY <3>3, <4>1
    <3> QED
      BY <3>1, <3>2, <3>3
  <2>3. g = [j \in 0..(k + 1) |-> g[j]]
    OBVIOUS
  <2> HIDE DEF g
  <2>4. g = [j \in 0..(k + 1) |-> IF j = 0 THEN <<>> ELSE Add(d, F, g[j - 1], j)]
    BY <2>2, <2>3
  <2> QED
    BY <2>4
<1>3. Len(d) \in S
  <2>1. Len(d) \in Nat
    OBVIOUS
  <2> HIDE DEF S
  <2> QED
    BY <1>1, <1>2, <2>1, SetInduction
<1> QED
  BY <1>3 DEF Upto

LEMMA TurnsHold ==
    ASSUME NEW d \in Seq(Worker)
    PROVE  Turns(d) = [k \in 0..Len(d) |-> IF k = 0 THEN KahnStart(d) ELSE KahnTurn(d, Turns(d)[k - 1])]
<1> DEFINE S == {k \in Nat : \E f : f = [j \in 0..k |-> IF j = 0 THEN KahnStart(d) ELSE KahnTurn(d, f[j - 1])]}
<1>1. 0 \in S
  <2> DEFINE f == [j \in 0..0 |-> KahnStart(d)]
  <2>1. f = [j \in 0..0 |-> IF j = 0 THEN KahnStart(d) ELSE KahnTurn(d, f[j - 1])]
    OBVIOUS
  <2> HIDE DEF f
  <2> QED
    BY <2>1
<1>2. ASSUME NEW k \in Nat, k \in S PROVE k + 1 \in S
  <2>1. PICK f : f = [j \in 0..k |-> IF j = 0 THEN KahnStart(d) ELSE KahnTurn(d, f[j - 1])]
    BY <1>2
  <2> DEFINE g == [j \in 0..(k + 1) |-> IF j = k + 1 THEN KahnTurn(d, f[k]) ELSE f[j]]
  <2>2. \A j \in 0..(k + 1) : g[j] = IF j = 0 THEN KahnStart(d) ELSE KahnTurn(d, g[j - 1])
    <3> SUFFICES ASSUME NEW j \in 0..(k + 1)
                 PROVE  g[j] = IF j = 0 THEN KahnStart(d) ELSE KahnTurn(d, g[j - 1])
      OBVIOUS
    <3>1. CASE j = 0
      BY <2>1, <3>1
    <3>2. CASE j # 0 /\ j # k + 1
      <4>1. f[j] = KahnTurn(d, f[j - 1])
        BY <2>1, <3>2
      <4>2. g[j] = f[j] /\ g[j - 1] = f[j - 1]
        BY <3>2
      <4> QED
        BY <3>2, <4>1, <4>2
    <3>3. CASE j = k + 1
      <4>1. g[j] = KahnTurn(d, f[k]) /\ g[j - 1] = f[k]
        BY <3>3
      <4> QED
        BY <3>3, <4>1
    <3> QED
      BY <3>1, <3>2, <3>3
  <2>3. g = [j \in 0..(k + 1) |-> g[j]]
    OBVIOUS
  <2> HIDE DEF g
  <2>4. g = [j \in 0..(k + 1) |-> IF j = 0 THEN KahnStart(d) ELSE KahnTurn(d, g[j - 1])]
    BY <2>2, <2>3
  <2> QED
    BY <2>4
<1>3. Len(d) \in S
  <2>1. Len(d) \in Nat
    OBVIOUS
  <2> HIDE DEF S
  <2> QED
    BY <1>1, <1>2, <2>1, SetInduction
<1> QED
  BY <1>3 DEF Turns

\* s lists the members of F among the first k workers, each once.
Lists(d, F, s, k) ==
    /\ s \in Seq(F)
    /\ \A i \in 1..k : d[i].name \in F => \E m \in 1..Len(s) : s[m] = d[i].name
    /\ \A m \in 1..Len(s) : \E i \in 1..k : s[m] = d[i].name
    /\ \A m, l \in 1..Len(s) : s[m] = s[l] => m = l

LEMMA AddLists ==
    ASSUME NEW d \in Seq(Worker), ReferencesOK(d), NEW F \in SUBSET Named(d),
           NEW k \in Nat, k + 1 <= Len(d), NEW s, Lists(d, F, s, k)
    PROVE  Lists(d, F, Add(d, F, s, k + 1), k + 1)
<1> DEFINE n == d[k + 1].name
<1>0. /\ s \in Seq(F) /\ Len(s) \in Nat /\ DOMAIN d = 1..Len(d) /\ Len(d) \in Nat
      /\ \A i \in 1..(k + 1) : i \in 1..k \/ i = k + 1
      /\ \A i \in 1..k : i \in 1..(k + 1) /\ k + 1 \in 1..(k + 1)
  BY DEF Lists
<1>s. /\ \A i \in 1..k : d[i].name \in F => \E m \in 1..Len(s) : s[m] = d[i].name
      /\ \A m \in 1..Len(s) : \E i \in 1..k : s[m] = d[i].name
      /\ \A m, l \in 1..Len(s) : s[m] = s[l] => m = l
  BY DEF Lists
<1>n. n \in F \/ n \notin F
  OBVIOUS
<1> HIDE DEF n
<1>1. CASE n \in F
  <2> DEFINE t == Append(s, n)
  <2>1. /\ t \in Seq(F) /\ Len(t) = Len(s) + 1 /\ t[Len(s) + 1] = n
        /\ \A m \in 1..Len(s) : t[m] = s[m]
        /\ \A m \in 1..Len(t) : m \in 1..Len(s) \/ m = Len(s) + 1
        /\ \A m \in 1..Len(s) : m \in 1..Len(t)
        /\ Len(s) + 1 \in 1..Len(t)
    BY <1>0, <1>1
  <2>2. Add(d, F, s, k + 1) = t
    BY <1>1 DEF Add, n
  <2> HIDE DEF t
  <2>3. \A m \in 1..Len(s) : s[m] # n
    <3> SUFFICES ASSUME NEW m \in 1..Len(s), s[m] = n PROVE FALSE
      OBVIOUS
    <3>1. PICK i \in 1..k : s[m] = d[i].name
      BY <1>s
    <3>2. i \in DOMAIN d /\ k + 1 \in DOMAIN d /\ i # k + 1
      BY <1>0, <3>1
    <3> QED
      BY <3>1, <3>2, NamesDistinct DEF n
  <2>4. \A m, l \in 1..Len(t) : t[m] = t[l] => m = l
    <3> SUFFICES ASSUME NEW m \in 1..Len(t), NEW l \in 1..Len(t), t[m] = t[l] PROVE m = l
      OBVIOUS
    <3>1. CASE m \in 1..Len(s) /\ l \in 1..Len(s)
      BY <1>s, <2>1, <3>1
    <3> QED
      BY <2>1, <2>3, <3>1
  <2>5. ASSUME NEW i \in 1..(k + 1), d[i].name \in F PROVE \E m \in 1..Len(t) : t[m] = d[i].name
    <3>1. CASE i = k + 1
      BY <2>1, <3>1 DEF n
    <3>2. CASE i \in 1..k
      <4>1. PICK m \in 1..Len(s) : s[m] = d[i].name
        BY <1>s, <2>5, <3>2
      <4> QED
        BY <2>1, <4>1
    <3> QED
      BY <1>0, <3>1, <3>2
  <2>6. ASSUME NEW m \in 1..Len(t) PROVE \E i \in 1..(k + 1) : t[m] = d[i].name
    <3>1. CASE m = Len(s) + 1
      BY <1>0, <2>1, <3>1 DEF n
    <3>2. CASE m \in 1..Len(s)
      <4>1. PICK i \in 1..k : s[m] = d[i].name
        BY <1>s, <3>2
      <4> QED
        BY <1>0, <2>1, <3>2, <4>1
    <3> QED
      BY <2>1, <3>1, <3>2
  <2> QED
    BY <2>1, <2>2, <2>4, <2>5, <2>6 DEF Lists
<1>2. CASE n \notin F
  <2>1. Add(d, F, s, k + 1) = s
    BY <1>2 DEF Add, n
  <2>2. \A i \in 1..(k + 1) : d[i].name \in F => i \in 1..k
    BY <1>0, <1>2 DEF n
  <2>3. \A i \in 1..(k + 1) : d[i].name \in F => \E m \in 1..Len(s) : s[m] = d[i].name
    BY <1>s, <2>2
  <2>4. \A m \in 1..Len(s) : \E i \in 1..(k + 1) : s[m] = d[i].name
    BY <1>s, <1>0
  <2> QED
    BY <1>0, <1>s, <2>1, <2>3, <2>4 DEF Lists
<1> QED
  BY <1>n, <1>1, <1>2

\* Every name of F once, and nothing else.
LEMMA InOrderIs ==
    ASSUME NEW d \in Seq(Worker), ReferencesOK(d), NEW F \in SUBSET Named(d)
    PROVE  /\ InOrder(d, F) \in Seq(F)
           /\ \A n \in F : \E i \in 1..Len(InOrder(d, F)) : InOrder(d, F)[i] = n
           /\ \A i, j \in 1..Len(InOrder(d, F)) : InOrder(d, F)[i] = InOrder(d, F)[j] => i = j
<1> DEFINE u == Upto(d, F)
           S == {k \in Nat : k <= Len(d) => Lists(d, F, u[k], k)}
<1>1. DOMAIN d = 1..Len(d) /\ Len(d) \in Nat
  OBVIOUS
<1>2. u = [k \in 0..Len(d) |-> IF k = 0 THEN <<>> ELSE Add(d, F, u[k - 1], k)]
  BY UptoHolds
<1>3. InOrder(d, F) = u[Len(d)]
  BY DEF InOrder, Upto, Add
<1> HIDE DEF u
<1>4. 0 \in S
  <2>1. u[0] = <<>>
    BY <1>1, <1>2
  <2>2. Lists(d, F, <<>>, 0)
    BY DEF Lists
  <2> QED
    BY <2>1, <2>2
<1>5. ASSUME NEW k \in Nat, k \in S PROVE k + 1 \in S
  <2> SUFFICES ASSUME k + 1 <= Len(d) PROVE Lists(d, F, u[k + 1], k + 1)
    OBVIOUS
  <2>1. k + 1 \in 0..Len(d) /\ k + 1 # 0 /\ (k + 1) - 1 = k /\ k <= Len(d)
    BY <1>1
  <2>2. u[k + 1] = Add(d, F, u[k], k + 1)
    BY <1>2, <2>1
  <2>3. Lists(d, F, u[k], k)
    BY <1>5, <2>1
  <2> QED
    BY <2>2, <2>3, AddLists
<1> HIDE DEF S
<1>6. Nat \subseteq S
  BY <1>4, <1>5, SetInduction
<1>7. Lists(d, F, InOrder(d, F), Len(d))
  BY <1>1, <1>3, <1>6 DEF S
<1>8. \A n \in F : \E i \in 1..Len(d) : d[i].name = n
  BY <1>1 DEF Named
<1> DEFINE r == InOrder(d, F)
<1>9. /\ r \in Seq(F)
      /\ \A i \in 1..Len(d) : d[i].name \in F => \E m \in 1..Len(r) : r[m] = d[i].name
      /\ \A m, l \in 1..Len(r) : r[m] = r[l] => m = l
  BY <1>7 DEF Lists
<1> HIDE DEF r
<1>10. \A n \in F : \E m \in 1..Len(r) : r[m] = n
  <2> SUFFICES ASSUME NEW n \in F PROVE \E m \in 1..Len(r) : r[m] = n
    OBVIOUS
  <2>1. PICK i \in 1..Len(d) : d[i].name = n
    BY <1>8
  <2> QED
    BY <1>9, <2>1
<1> QED
  BY <1>9, <1>10 DEF r

\* The entries of a worker's list that are not yet processed.
Left(d, n, P) == {i \in DOMAIN BlockedBy(d, n) : BlockedBy(d, n)[i] \notin P}

LEMMA LeftCounts ==
    ASSUME NEW d \in Seq(Worker), ReferencesOK(d), NEW n \in Named(d), NEW P \in SUBSET Named(d)
    PROVE  /\ IsFiniteSet(Left(d, n, P)) /\ Cardinality(Left(d, n, P)) \in Nat
           /\ Cardinality(Left(d, n, P)) = 0 <=> BlockersIn(d, n) \subseteq P
           /\ \A h \in Named(d) \ P :
                  Cardinality(Left(d, n, P)) - Occurrences(h, BlockedBy(d, n))
                      = Cardinality(Left(d, n, P \cup {h}))
<1> DEFINE l == BlockedBy(d, n)
<1>1. l \in Seq(Name) /\ BlockersIn(d, n) = {l[k] : k \in DOMAIN l}
  BY BlockedByList
<1>2. DOMAIN l = 1..Len(l) /\ Len(l) \in Nat
  BY <1>1
<1>3. IsFiniteSet(DOMAIN l)
  BY <1>2, FS_Interval
<1>4. Left(d, n, P) \subseteq DOMAIN l /\ Left(d, n, P) = {i \in DOMAIN l : l[i] \notin P}
  BY DEF Left
<1>5. IsFiniteSet(Left(d, n, P)) /\ Cardinality(Left(d, n, P)) \in Nat
  BY <1>3, <1>4, FS_Subset, FS_CardinalityType
<1>6. Cardinality(Left(d, n, P)) = 0 <=> Left(d, n, P) = {}
  BY <1>5, FS_EmptySet
<1>7. Left(d, n, P) = {} <=> BlockersIn(d, n) \subseteq P
  BY <1>1, <1>4
<1>8. ASSUME NEW h \in Named(d) \ P
      PROVE  Cardinality(Left(d, n, P)) - Occurrences(h, l) = Cardinality(Left(d, n, P \cup {h}))
  <2> DEFINE B == {k \in DOMAIN l : l[k] = h}
  <2>1. IsFiniteSet(B)
    BY <1>3, FS_Subset
  <2>2. Left(d, n, P \cup {h}) = Left(d, n, P) \ B
    BY DEF Left
  <2>3. Left(d, n, P) \cap B = B
    BY DEF Left
  <2>4. Cardinality(Left(d, n, P) \ B) = Cardinality(Left(d, n, P)) - Cardinality(Left(d, n, P) \cap B)
    BY <1>5, FS_Difference
  <2> QED
    BY <2>2, <2>3, <2>4 DEF Occurrences
<1> QED
  BY <1>5, <1>6, <1>7, <1>8

\* Where Kahn's loop stands when it has processed P: the degrees count what is
\* left, the queue holds the other workers with nothing left, each once, and
\* no set of workers that block one another has been entered.
Turned(d, st, P) ==
    /\ P \in SUBSET Named(d) /\ st.done = Cardinality(P)
    /\ st.degree = [n \in Named(d) |-> Cardinality(Left(d, n, P))]
    /\ st.queue \in Seq(Named(d))
    /\ \A i, j \in 1..Len(st.queue) : st.queue[i] = st.queue[j] => i = j
    /\ \A i \in 1..Len(st.queue) : st.queue[i] \notin P
    /\ \A n \in Named(d) : BlockersIn(d, n) \subseteq P
                              <=> n \in P \/ \E i \in 1..Len(st.queue) : st.queue[i] = n
    /\ \A S \in SUBSET Named(d) :
          (\A n \in S : BlockersIn(d, n) \cap S # {}) => P \cap S = {}

LEMMA TurnedAtStart ==
    ASSUME NEW d \in Seq(Worker), ReferencesOK(d)
    PROVE  Turned(d, KahnStart(d), {})
<1> DEFINE st == KahnStart(d)
           F == {n \in Named(d) : Degrees(d)[n] = 0}
<1>1. \A n \in Named(d) : Degrees(d)[n] = Cardinality(Left(d, n, {}))
  <2> SUFFICES ASSUME NEW n \in Named(d) PROVE Degrees(d)[n] = Cardinality(Left(d, n, {}))
    OBVIOUS
  <2>1. BlockedBy(d, n) \in Seq(Name)
    BY BlockedByList
  <2>2. Left(d, n, {}) = 1..Len(BlockedBy(d, n)) /\ Len(BlockedBy(d, n)) \in Nat
    BY <2>1 DEF Left
  <2> DEFINE m == Len(BlockedBy(d, n))
  <2>a. m \in Nat /\ Left(d, n, {}) = 1..m
    BY <2>2
  <2> HIDE DEF m
  <2>b. Cardinality(1..m) = IF 1 > m THEN 0 ELSE m - 1 + 1
    BY <2>a, FS_Interval
  <2>3. Cardinality(Left(d, n, {})) = m
    BY <2>a, <2>b
  <2> QED
    BY <2>3 DEF Degrees, m
<1>2. Degrees(d) = [n \in Named(d) |-> Cardinality(Left(d, n, {}))]
  BY <1>1 DEF Degrees
<1>3. F \in SUBSET Named(d)
  OBVIOUS
<1>4. st.queue = InOrder(d, F) /\ st.degree = Degrees(d) /\ st.done = 0
  BY DEF KahnStart
<1>5. \A n \in Named(d) : n \in F <=> BlockersIn(d, n) \subseteq {}
  BY <1>1, LeftCounts
<1> HIDE DEF F, st
<1>6. /\ InOrder(d, F) \in Seq(F)
      /\ \A n \in F : \E i \in 1..Len(InOrder(d, F)) : InOrder(d, F)[i] = n
      /\ \A i, j \in 1..Len(InOrder(d, F)) : InOrder(d, F)[i] = InOrder(d, F)[j] => i = j
  BY <1>3, InOrderIs
<1>7. st.queue \in Seq(Named(d)) /\ st.queue \in Seq(F)
  BY <1>3, <1>4, <1>6
<1>8. \A i \in 1..Len(st.queue) : st.queue[i] \in F
  BY <1>7
<1>9. \A n \in Named(d) : BlockersIn(d, n) \subseteq {}
                             <=> n \in {} \/ \E i \in 1..Len(st.queue) : st.queue[i] = n
  BY <1>4, <1>5, <1>6, <1>8
<1>10. Cardinality({}) = 0
  BY FS_EmptySet
<1> QED
  BY <1>2, <1>4, <1>6, <1>7, <1>9, <1>10 DEF Turned, st

\* A turn of the loop processes the head of the queue.
LEMMA TurnedStep ==
    ASSUME NEW d \in Seq(Worker), ReferencesOK(d), NEW st, NEW P, Turned(d, st, P), st.queue # <<>>
    PROVE  Turned(d, Process(d, st), P \cup {Head(st.queue)})
<1> DEFINE q == st.queue
           h == Head(st.queue)
           Q == P \cup {h}
           less == [n \in Named(d) |-> st.degree[n] - Occurrences(h, BlockedBy(d, n))]
           freed == {n \in Named(d) : st.degree[n] # 0 /\ less[n] = 0}
           F == InOrder(d, freed)
           r == Tail(q) \o F
<1>1. /\ P \in SUBSET Named(d) /\ st.done = Cardinality(P)
      /\ st.degree = [n \in Named(d) |-> Cardinality(Left(d, n, P))]
      /\ q \in Seq(Named(d))
      /\ \A i, j \in 1..Len(q) : q[i] = q[j] => i = j
      /\ \A i \in 1..Len(q) : q[i] \notin P
      /\ \A n \in Named(d) : BlockersIn(d, n) \subseteq P
                                <=> n \in P \/ \E i \in 1..Len(q) : q[i] = n
      /\ \A S \in SUBSET Named(d) :
            (\A n \in S : BlockersIn(d, n) \cap S # {}) => P \cap S = {}
  BY DEF Turned
<1>p. Process(d, st) = [queue |-> r, degree |-> less, done |-> st.done + 1]
  BY DEF Process
<1>2. /\ q # <<>> /\ h = q[1] /\ Len(q) \in Nat \ {0} /\ 1 \in 1..Len(q)
      /\ Tail(q) \in Seq(Named(d)) /\ Len(Tail(q)) = Len(q) - 1
      /\ \A i \in 1..Len(Tail(q)) : Tail(q)[i] = q[i + 1] /\ i + 1 \in 1..Len(q)
      /\ \A i \in 1..Len(q) : i = 1 \/ i - 1 \in 1..Len(Tail(q))
  BY <1>1
<1>3. h \in Named(d) \ P /\ Q \in SUBSET Named(d)
  BY <1>1, <1>2
<1>4. \A n \in Named(d) : less[n] = Cardinality(Left(d, n, Q))
  <2> SUFFICES ASSUME NEW n \in Named(d)
               PROVE  st.degree[n] - Occurrences(h, BlockedBy(d, n)) = Cardinality(Left(d, n, Q))
    OBVIOUS
  <2>1. Cardinality(Left(d, n, P)) - Occurrences(h, BlockedBy(d, n)) = Cardinality(Left(d, n, P \cup {h}))
    <3>1. P \in SUBSET Named(d) /\ h \in Named(d) \ P
      BY <1>1, <1>3
    <3> HIDE DEF q, h, r, F, less, freed, Q
    <3> QED
      BY <3>1, LeftCounts
  <2> QED
    BY <1>1, <2>1
<1>5. less = [n \in Named(d) |-> Cardinality(Left(d, n, Q))]
  BY <1>4
<1>6. \A n \in Named(d) : n \in freed <=> BlockersIn(d, n) \subseteq Q /\ ~(BlockersIn(d, n) \subseteq P)
  BY <1>1, <1>3, <1>4, LeftCounts
<1>7. freed \in SUBSET Named(d)
  OBVIOUS
<1> HIDE DEF less, freed
<1>8. /\ F \in Seq(freed)
      /\ \A n \in freed : \E i \in 1..Len(F) : F[i] = n
      /\ \A i, j \in 1..Len(F) : F[i] = F[j] => i = j
  BY <1>7, InOrderIs
<1> HIDE DEF F
<1>9. F \in Seq(Named(d)) /\ Len(F) \in Nat /\ \A i \in 1..Len(F) : F[i] \in freed
  BY <1>7, <1>8
<1> HIDE DEF q
<1> DEFINE t == Tail(q)
<1>10. /\ t \in Seq(Named(d)) /\ Len(t) = Len(q) - 1
       /\ \A i \in 1..Len(t) : t[i] = q[i + 1] /\ i + 1 \in 1..Len(q)
       /\ \A i \in 1..Len(q) : i = 1 \/ i - 1 \in 1..Len(t)
  BY <1>2 DEF q
<1> HIDE DEF t
<1>11. /\ r \in Seq(Named(d)) /\ Len(r) = Len(t) + Len(F) /\ Len(t) \in Nat
       /\ \A i \in 1..Len(t) : r[i] = t[i] /\ i \in 1..Len(r)
       /\ \A i \in 1..Len(F) : r[Len(t) + i] = F[i] /\ Len(t) + i \in 1..Len(r)
       /\ \A i \in 1..Len(r) : i \in 1..Len(t) \/ i - Len(t) \in 1..Len(F)
  <2>1. r = t \o F
    BY DEF t
  <2> HIDE DEF r
  <2>2. Len(t) \in Nat /\ Len(F) \in Nat /\ F \in Seq(Named(d)) /\ t \in Seq(Named(d))
    BY <1>9, <1>10
  <2>3. r \in Seq(Named(d)) /\ Len(r) = Len(t) + Len(F)
    BY <2>1, <2>2
  <2>4. \A i \in 1..(Len(t) + Len(F)) : r[i] = IF i <= Len(t) THEN t[i] ELSE F[i - Len(t)]
    BY <2>1, <2>2
  <2>5. \A i \in 1..Len(t) : r[i] = t[i] /\ i \in 1..Len(r)
    BY <2>2, <2>3, <2>4
  <2>6. \A i \in 1..Len(r) : i \in 1..Len(t) \/ i - Len(t) \in 1..Len(F)
    BY <2>2, <2>3
  <2>7. ASSUME NEW i \in 1..Len(F) PROVE r[Len(t) + i] = F[i] /\ Len(t) + i \in 1..Len(r)
    <3>1. Len(t) + i \in 1..(Len(t) + Len(F)) /\ ~(Len(t) + i <= Len(t)) /\ (Len(t) + i) - Len(t) = i
      BY <2>2
    <3> QED
      BY <2>3, <2>4, <3>1
  <2> QED
    BY <2>2, <2>3, <2>5, <2>6, <2>7
<1> HIDE DEF r
<1>12. \A i \in 1..Len(r) : \/ r[i] \in freed
                            \/ \E j \in 1..Len(q) : j # 1 /\ r[i] = q[j]
  <2> SUFFICES ASSUME NEW i \in 1..Len(r)
               PROVE  r[i] \in freed \/ \E j \in 1..Len(q) : j # 1 /\ r[i] = q[j]
    OBVIOUS
  <2>1. CASE i \in 1..Len(t)
    BY <1>10, <1>11, <2>1
  <2>2. CASE i - Len(t) \in 1..Len(F)
    <3>1. r[Len(t) + (i - Len(t))] = F[i - Len(t)] /\ Len(t) + (i - Len(t)) = i
      BY <1>11, <2>2
    <3> QED
      BY <1>9, <2>2, <3>1
  <2> QED
    BY <1>11, <2>1, <2>2
<1>13. \A n \in Named(d) : (\E i \in 1..Len(r) : r[i] = n)
                               <=> n \in freed \/ \E j \in 1..Len(q) : j # 1 /\ n = q[j]
  <2> SUFFICES ASSUME NEW n \in Named(d), n \in freed \/ \E j \in 1..Len(q) : j # 1 /\ n = q[j]
               PROVE  \E i \in 1..Len(r) : r[i] = n
    BY <1>12
  <2>1. CASE n \in freed
    <3>1. PICK i \in 1..Len(F) : F[i] = n
      BY <1>8, <2>1
    <3> QED
      BY <1>11, <3>1
  <2>2. ASSUME NEW j \in 1..Len(q), j # 1, n = q[j] PROVE \E i \in 1..Len(r) : r[i] = n
    <3>1. j - 1 \in 1..Len(t) /\ (j - 1) + 1 = j
      BY <1>10, <2>2
    <3>2. r[j - 1] = q[j] /\ j - 1 \in 1..Len(r)
      BY <1>10, <1>11, <3>1
    <3> QED
      BY <2>2, <3>2
  <2> QED
    BY <2>1, <2>2
<1>14. \A n \in freed : n \notin P /\ \A j \in 1..Len(q) : q[j] # n
  BY <1>1, <1>6, <1>7 DEF q
<1>15. \A i, j \in 1..Len(r) : r[i] = r[j] => i = j
  <2> SUFFICES ASSUME NEW i \in 1..Len(r), NEW j \in 1..Len(r), r[i] = r[j] PROVE i = j
    OBVIOUS
  <2>i. i \in Int /\ j \in Int /\ Len(t) \in Nat
    BY <1>11
  <2>a. (i \in 1..Len(t) \/ i - Len(t) \in 1..Len(F)) /\ (j \in 1..Len(t) \/ j - Len(t) \in 1..Len(F))
    BY <1>11
  <2>b. ASSUME NEW k \in 1..Len(r), k - Len(t) \in 1..Len(F)
        PROVE  r[k] = F[k - Len(t)]
    <3>1. r[Len(t) + (k - Len(t))] = F[k - Len(t)] /\ Len(t) + (k - Len(t)) = k
      BY <1>11, <2>b
    <3> QED
      BY <3>1
  <2>1. CASE i \in 1..Len(t) /\ j \in 1..Len(t)
    <3>1. q[i + 1] = q[j + 1] /\ i + 1 \in 1..Len(q) /\ j + 1 \in 1..Len(q)
      BY <1>10, <1>11, <2>1
    <3>2. i + 1 = j + 1
      BY <1>1, <3>1 DEF q
    <3> QED
      BY <2>i, <3>2
  <2>2. CASE i \in 1..Len(t) /\ j - Len(t) \in 1..Len(F)
    <3>1. r[i] = q[i + 1] /\ i + 1 \in 1..Len(q)
      BY <1>10, <1>11, <2>2
    <3>2. r[j] \in freed
      BY <1>9, <2>b, <2>2
    <3> QED
      BY <1>14, <3>1, <3>2
  <2>3. CASE i - Len(t) \in 1..Len(F) /\ j \in 1..Len(t)
    <3>1. r[j] = q[j + 1] /\ j + 1 \in 1..Len(q)
      BY <1>10, <1>11, <2>3
    <3>2. r[i] \in freed
      BY <1>9, <2>b, <2>3
    <3> QED
      BY <1>14, <3>1, <3>2
  <2>4. CASE i - Len(t) \in 1..Len(F) /\ j - Len(t) \in 1..Len(F)
    <3>1. F[i - Len(t)] = F[j - Len(t)]
      BY <2>b, <2>4
    <3>2. i - Len(t) = j - Len(t)
      BY <1>8, <2>4, <3>1
    <3> QED
      BY <2>i, <3>2
  <2> QED
    BY <2>a, <2>1, <2>2, <2>3, <2>4
<1>16. \A i \in 1..Len(r) : r[i] \notin Q
  <2> SUFFICES ASSUME NEW i \in 1..Len(r) PROVE r[i] \notin P /\ r[i] # h
    OBVIOUS
  <2>1. CASE r[i] \in freed
    BY <1>2, <1>14, <2>1 DEF q
  <2>2. ASSUME NEW j \in 1..Len(q), j # 1, r[i] = q[j] PROVE r[i] \notin P /\ r[i] # h
    BY <1>1, <1>2, <2>2 DEF q
  <2> QED
    BY <1>12, <2>1, <2>2
<1>17. \A n \in Named(d) : BlockersIn(d, n) \subseteq Q <=> n \in Q \/ \E i \in 1..Len(r) : r[i] = n
  <2> SUFFICES ASSUME NEW n \in Named(d)
               PROVE  BlockersIn(d, n) \subseteq Q
                         <=> n \in Q \/ n \in freed \/ \E j \in 1..Len(q) : j # 1 /\ n = q[j]
    BY <1>13
  <2>1. BlockersIn(d, n) \subseteq P <=> n \in P \/ \E j \in 1..Len(q) : q[j] = n
    BY <1>1 DEF q
  <2>2. BlockersIn(d, n) \subseteq Q <=> n \in freed \/ BlockersIn(d, n) \subseteq P
    BY <1>6
  <2>3. (\E j \in 1..Len(q) : q[j] = n) <=> n = h \/ \E j \in 1..Len(q) : j # 1 /\ n = q[j]
    BY <1>2 DEF q
  <2> QED
    BY <2>1, <2>2, <2>3
<1>18. ASSUME NEW S \in SUBSET Named(d), \A n \in S : BlockersIn(d, n) \cap S # {}
       PROVE  Q \cap S = {}
  <2>1. P \cap S = {}
    BY <1>1, <1>18
  <2>2. BlockersIn(d, h) \subseteq P
    BY <1>1, <1>2, <1>3 DEF q
  <2> QED
    BY <1>18, <2>1, <2>2
<1>19. Cardinality(Q) = st.done + 1
  <2>1. IsFiniteSet(P)
    BY <1>1, NamedFinite, FS_Subset
  <2>2. Cardinality(P \cup {h}) = IF h \in P THEN Cardinality(P) ELSE Cardinality(P) + 1
    BY <2>1, FS_AddElement
  <2> QED
    BY <1>1, <1>3, <2>2
<1> QED
  <2> DEFINE nx == Process(d, st)
  <2>1. nx.queue = r /\ nx.degree = less /\ nx.done = st.done + 1
    BY <1>p
  <2> HIDE DEF nx
  <2>2. Turned(d, nx, Q)
    BY <1>3, <1>5, <1>11, <1>15, <1>16, <1>17, <1>18, <1>19, <2>1 DEF Turned
  <2> QED
    BY <2>2 DEF nx

\* Kahn's loop accepts exactly the definitions without a cycle, and stops.
LEMMA KahnJudgesRight ==
    ASSUME NEW d \in Seq(Worker)
    PROVE  JudgedRight(d)
<1> SUFFICES ASSUME ReferencesOK(d)
             PROVE  /\ KahnAfter(d).done = Len(d) <=> WellFounded(d)
                    /\ KahnAfter(d).queue = <<>> /\ KahnAfter(d).done <= Len(d)
  BY DEF JudgedRight, Accepted
<1> DEFINE u == Turns(d)
           S == {k \in Nat : k <= Len(d) =>
                    \E P \in SUBSET Named(d) :
                        Turned(d, u[k], P) /\ (u[k].queue # <<>> => u[k].done = k)}
<1>1. Len(d) \in Nat
  OBVIOUS
<1>2. u = [k \in 0..Len(d) |-> IF k = 0 THEN KahnStart(d) ELSE KahnTurn(d, u[k - 1])]
  BY TurnsHold
<1>3. KahnAfter(d) = u[Len(d)]
  BY DEF KahnAfter, Turns
<1> HIDE DEF u
<1>4. 0 \in S
  <2>1. u[0] = KahnStart(d)
    BY <1>1, <1>2
  <2>2. Turned(d, u[0], {})
    BY <2>1, TurnedAtStart
  <2>3. u[0].done = 0
    BY <2>1 DEF KahnStart
  <2> QED
    BY <2>2, <2>3
<1>5. ASSUME NEW k \in Nat, k \in S PROVE k + 1 \in S
  <2> SUFFICES ASSUME k + 1 <= Len(d)
               PROVE  \E P \in SUBSET Named(d) :
                          Turned(d, u[k + 1], P) /\ (u[k + 1].queue # <<>> => u[k + 1].done = k + 1)
    OBVIOUS
  <2>1. k + 1 \in 0..Len(d) /\ k + 1 # 0 /\ (k + 1) - 1 = k /\ k <= Len(d)
    BY <1>1
  <2>2. u[k + 1] = KahnTurn(d, u[k])
    BY <1>2, <2>1
  <2>3. PICK P \in SUBSET Named(d) : Turned(d, u[k], P) /\ (u[k].queue # <<>> => u[k].done = k)
    BY <1>5, <2>1
  <2> HIDE DEF S
  <2>4. CASE u[k].queue = <<>>
    <3>1. u[k + 1] = u[k]
      BY <2>2, <2>4 DEF KahnTurn
    <3> QED
      BY <2>3, <2>4, <3>1
  <2>5. CASE u[k].queue # <<>>
    <3> DEFINE Q == P \cup {Head(u[k].queue)}
    <3>1. u[k + 1] = Process(d, u[k])
      BY <2>2, <2>5 DEF KahnTurn
    <3>2. Turned(d, u[k + 1], Q)
      BY <2>3, <2>5, <3>1, TurnedStep
    <3>3. u[k + 1].done = u[k].done + 1
      BY <3>1 DEF Process
    <3>4. Q \in SUBSET Named(d)
      BY <3>2 DEF Turned
    <3> QED
      BY <2>3, <2>5, <3>2, <3>3, <3>4
  <2> QED
    BY <2>4, <2>5
<1> HIDE DEF S
<1>6. Nat \subseteq S
  BY <1>4, <1>5, SetInduction
<1> DEFINE st == KahnAfter(d)
<1>7. PICK P \in SUBSET Named(d) : Turned(d, st, P) /\ (st.queue # <<>> => st.done = Len(d))
  BY <1>1, <1>3, <1>6 DEF S
<1> HIDE DEF st
<1>8. /\ st.done = Cardinality(P)
      /\ st.queue \in Seq(Named(d))
      /\ \A i \in 1..Len(st.queue) : st.queue[i] \notin P
      /\ \A n \in Named(d) : BlockersIn(d, n) \subseteq P
                                <=> n \in P \/ \E i \in 1..Len(st.queue) : st.queue[i] = n
      /\ \A T \in SUBSET Named(d) :
            (\A n \in T : BlockersIn(d, n) \cap T # {}) => P \cap T = {}
  BY <1>7 DEF Turned
<1>9. /\ Cardinality(Named(d)) = Len(d) /\ IsFiniteSet(Named(d))
      /\ Cardinality(P) <= Cardinality(Named(d))
      /\ Cardinality(P) = Cardinality(Named(d)) => P = Named(d)
  BY NamedFinite, FS_Subset DEF ReferencesOK
<1>10. st.queue = <<>>
  <2> SUFFICES ASSUME st.queue # <<>> PROVE FALSE
    OBVIOUS
  <2>1. P = Named(d)
    BY <1>7, <1>8, <1>9
  <2>2. 1 \in 1..Len(st.queue) /\ st.queue[1] \in Named(d)
    BY <1>8
  <2> QED
    BY <1>8, <2>1, <2>2
<1>11. st.done = Len(d) <=> P = Named(d)
  BY <1>8, <1>9
<1>12. P = Named(d) => WellFounded(d)
  <2> SUFFICES ASSUME P = Named(d), NEW T \in (SUBSET Named(d)) \ {{}},
                      \A n \in T : BlockersIn(d, n) \cap T # {}
               PROVE  FALSE
    BY DEF WellFounded
  <2>1. T \in SUBSET Named(d) /\ T # {}
    OBVIOUS
  <2>2. P \cap T = {}
    BY <1>8, <2>1
  <2> QED
    BY <2>1, <2>2
<1>13. WellFounded(d) => P = Named(d)
  <2> SUFFICES ASSUME WellFounded(d), P # Named(d) PROVE FALSE
    OBVIOUS
  <2>1. Named(d) \ P \in (SUBSET Named(d)) \ {{}}
    OBVIOUS
  <2>2. PICK n \in Named(d) \ P : BlockersIn(d, n) \cap (Named(d) \ P) = {}
    BY <2>1 DEF WellFounded
  <2>3. BlockersIn(d, n) \subseteq Named(d)
    BY BlockedByList
  <2>4. BlockersIn(d, n) \subseteq P
    BY <2>2, <2>3
  <2>5. 1..Len(st.queue) = {}
    BY <1>10
  <2> QED
    BY <1>8, <2>2, <2>4, <2>5
<1> QED
  BY <1>8, <1>9, <1>10, <1>11, <1>12, <1>13 DEF st

-----------------------------------------------------------------------------
(* Team.                                                                   *)

\* Of a definition that is accepted, the blockers are its own workers.
LEMMA BlockersAreNames ==
    ASSUME NEW d \in Definition, Accepted(d), NEW n \in Name
    PROVE  /\ BlockersIn(d, n) \subseteq Named(d)
           /\ Named(d) \subseteq Name
           /\ n \notin Named(d) => BlockersIn(d, n) = {}
<1>1. d \in Seq(Worker)
  BY TeamAssumption
<1>2. Named(d) \subseteq Name
  BY <1>1, NamedFinite
<1>3. \A i \in DOMAIN d : \A k \in DOMAIN d[i].blockedBy : d[i].blockedBy[k] \in Named(d)
  BY DEF Accepted, ReferencesOK
<1>4. BlockersIn(d, n) \subseteq Named(d)
  BY <1>3 DEF BlockersIn
<1>5. n \notin Named(d) => BlockersIn(d, n) = {}
  BY DEF BlockersIn, Named
<1> QED
  BY <1>2, <1>4, <1>5

LEMMA TypeInit == Init => TypeOK
BY TeamAssumption DEF Init, TypeOK

\* One iteration of the loop keeps the types, whatever typed statuses w it is
\* given.
LEMMA IterateTyped ==
    ASSUME TypeOK, NEW r \in Run, NEW STATE w, NEW ACTION f, Iterate(r, w, f),
           w \in [Name -> {"absent", "pending", "running", "completed", "failed"}],
           known' \in [Run -> SUBSET Name]
    PROVE  /\ worker' \in [Name -> {"absent", "pending", "running", "completed", "failed"}]
           /\ team' \in {"none", "active", "completed", "failed", "deleted"}
           /\ at' \in [Run -> {"idle", "wave", "done", "dead"}]
           /\ wave' \in [Run -> SUBSET Name]
           /\ outcome' \in [Run -> [Name -> {"open", "text", "blank", "error"}]]
           /\ context' \in [Name -> SUBSET Name]
<1>1. Ready(w) \subseteq Name
  BY DEF Ready
<1>2. CASE StartWave(r, w)
  BY <1>1, <1>2 DEF StartWave, TypeOK
<1>3. CASE EndRun(r, w, f)
  BY <1>3 DEF EndRun, TypeOK, Verdict
<1> QED
  BY <1>2, <1>3 DEF Iterate

LEMMA TypeStep == TypeOK /\ [Next]_vars => TypeOK'
<1> SUFFICES ASSUME TypeOK, [Next]_vars PROVE TypeOK'
  OBVIOUS
<1> USE DEF TypeOK
<1>1. ASSUME NEW d \in Definition, CreateTeam(d) PROVE TypeOK'
  <2>1. blockers' \in [Name -> SUBSET Name]
    BY <1>1, BlockersAreNames DEF CreateTeam
  <2> QED
    BY <1>1, <2>1 DEF CreateTeam, local
<1>2. ASSUME NEW r \in Run, RunTeam(r) PROVE TypeOK'
  BY <1>2, IterateTyped DEF RunTeam
<1>3. ASSUME NEW r \in Run, WaveSettles(r) PROVE TypeOK'
  <2>1. Settled(r) \in [Name -> {"absent", "pending", "running", "completed", "failed"}]
    BY DEF Settled
  <2>2. known' \in [Run -> SUBSET Name] /\ failures' \in [Run -> SUBSET Name] /\ texts' \subseteq Name
    BY <1>3 DEF WaveSettles
  <2>3. Iterate(r, Settled(r), failures'[r])
    BY <1>3 DEF WaveSettles
  <2>4. blockers' = blockers /\ aborted' = aborted /\ crashes' = crashes
    BY <1>3 DEF WaveSettles
  <2> QED
    BY <2>1, <2>2, <2>3, <2>4, IterateTyped
<1>4. ASSUME NEW r \in Run, Abort(r) PROVE TypeOK'
  BY <1>4 DEF Abort, store, local
<1>5. ASSUME NEW r \in Run, NEW n \in Name, WorkerSettles(r, n) PROVE TypeOK'
  BY <1>5 DEF WorkerSettles, store
<1>6. ASSUME DeleteTeam PROVE TypeOK'
  BY <1>6 DEF DeleteTeam, local
<1>7. ASSUME Restart PROVE TypeOK'
  BY <1>7, TeamAssumption DEF Restart, store
<1>8. ASSUME UNCHANGED vars PROVE TypeOK'
  BY <1>8 DEF vars, store, local
<1> QED
  BY <1>1, <1>2, <1>3, <1>4, <1>5, <1>6, <1>7, <1>8 DEF Next

\* Every reachable state of any instance is well typed.
THEOREM TypeCorrect == Spec => []TypeOK
BY TypeInit, TypeStep, PTL DEF Spec

-----------------------------------------------------------------------------
(* The inductive invariant.  At most one run has a wave, and it holds the     *)
(* texts of all workers that completed with one.  Once a worker has started,  *)
(* none is ready while the team is active: any other run ends at once.        *)

RowsOfLiveTeam == team \in {"none", "deleted"} => \A n \in Name : worker[n] = "absent"

RunsOfTeam ==
    /\ team = "none" => \A r \in Run : at[r] = "idle"
    /\ \A r \in Run : at[r] = "idle" => known[r] = {}
    /\ \A r \in Run : at[r] = "wave" <=> wave[r] # {}
    /\ \A r, q \in Run : at[r] = "wave" /\ at[q] = "wave" => r = q

WavesRun ==
    \A r \in Run : \A n \in wave[r] :
        worker[n] = (IF team = "deleted" THEN "absent" ELSE "running")

Swept == team = "active" /\ Started # {} => Ready(worker) = {}

TextsKnown ==
    /\ \A n \in texts : worker[n] = "completed"
    /\ \A r \in Run : at[r] = "wave" /\ team # "deleted" => known[r] = texts

\* A worker has started only if every worker it is blocked by has completed.
BlockersFirst == \A n \in Started : \A b \in blockers[n] : worker[b] = "completed"

IInv ==
    /\ TypeOK
    /\ RowsOfLiveTeam /\ RunsOfTeam /\ WavesRun /\ Swept /\ TextsKnown
    /\ BlockersFirst /\ FullContext

LEMMA IInvInit == Init => IInv
<1> SUFFICES ASSUME Init PROVE IInv
  OBVIOUS
<1>1. TypeOK
  BY TypeInit
<1> QED
  BY <1>1 DEF Init, IInv, RowsOfLiveTeam, RunsOfTeam, WavesRun, Swept, Started,
              TextsKnown, BlockersFirst, FullContext

\* The statuses a loop iteration starts from, and those it leaves.
Begun(w) == {n \in Name : w[n] \in {"running", "completed", "failed"}}

\* An iteration of the loop of r keeps the invariant, when it is given typed
\* statuses w that respect the blocking relation, and r knows all the texts.
LEMMA IterateKeeps ==
    ASSUME TypeOK, TypeOK', NEW r \in Run, NEW STATE w, NEW ACTION f, Iterate(r, w, f),
           w \in [Name -> {"absent", "pending", "running", "completed", "failed"}],
           blockers' = blockers, team # "none",
           team = "deleted" => \A n \in Name : w[n] = "absent",
           RunsOfTeam,
           \A q \in Run \ {r} : known'[q] = known[q],
           Ready(w) # {} => \A q \in Run \ {r} : at[q] # "wave",
           Ready(w) # {} => known'[r] = texts',
           \A q \in Run \ {r} : \A n \in wave[q] :
               w[n] = (IF team = "deleted" THEN "absent" ELSE "running"),
           \A q \in Run \ {r} : at[q] = "wave" /\ team # "deleted" => known[q] = texts',
           \A n \in texts' : w[n] = "completed",
           \A n \in Begun(w) : \A b \in blockers[n] : w[b] = "completed",
           \A n \in Begun(w) : context[n] = blockers[n] \cap texts'
    PROVE  IInv'
<1>0. blockers \in [Name -> SUBSET Name] /\ texts' \subseteq Name
  BY DEF TypeOK
<1>1. CASE StartWave(r, w)
  <2>1. Ready(w) # {} /\ Ready(w) \subseteq Name
    BY <1>1 DEF StartWave, Stops, Ready
  <2>2. team # "deleted" /\ team' = team
    BY <1>1, <2>1 DEF StartWave, Ready
  <2>3. \A n \in Name : worker'[n] = IF n \in Ready(w) THEN "running" ELSE w[n]
    BY <1>1 DEF StartWave, TypeOK
  <2>4. \A n \in Ready(w) : w[n] = "pending" /\ \A b \in blockers[n] : w[b] = "completed"
    BY DEF Ready
  <2>5. \A n \in Name : w[n] = "completed" => worker'[n] = "completed"
    BY <2>3, <2>4
  <2>6. \A q \in Run : at'[q] = (IF q = r THEN "wave" ELSE at[q])
                       /\ wave'[q] = (IF q = r THEN Ready(w) ELSE wave[q])
    BY <1>1 DEF StartWave, TypeOK
  <2>7. RowsOfLiveTeam'
    BY <2>2 DEF RowsOfLiveTeam
  <2>8. RunsOfTeam'
    <3>1. \A q \in Run \ {r} : at[q] # "wave"
      BY <2>1
    <3>2. \A q \in Run \ {r} : at'[q] = at[q] /\ wave'[q] = wave[q] /\ known'[q] = known[q]
      BY <2>6
    <3>3. at'[r] = "wave" /\ wave'[r] # {}
      BY <2>1, <2>6
    <3> QED
      BY <2>2, <3>1, <3>2, <3>3 DEF RunsOfTeam
  <2>9. WavesRun'
    <3>1. \A q \in Run \ {r} : wave'[q] = {}
      BY <2>1, <2>6 DEF RunsOfTeam
    <3>2. \A n \in wave'[r] : worker'[n] = "running"
      BY <2>1, <2>3, <2>6
    <3> QED
      BY <2>2, <3>1, <3>2 DEF WavesRun
  <2>10. Swept'
    <3>1. Ready(worker)' = {n \in Name : worker'[n] = "pending"
                                        /\ \A b \in blockers[n] : worker'[b] = "completed"}
      BY DEF Ready
    <3>2. \A n \in Name : worker'[n] = "completed" => w[n] = "completed"
      BY <2>3
    <3>3. \A n \in Name : worker'[n] = "pending" => w[n] = "pending" /\ n \notin Ready(w)
      BY <2>3
    <3>4. Ready(worker)' = {}
      BY <1>0, <3>1, <3>2, <3>3 DEF Ready
    <3> QED
      BY <3>4 DEF Swept
  <2>11. TextsKnown'
    BY <1>0, <2>1, <2>2, <2>5, <2>6 DEF TextsKnown, RunsOfTeam
  <2>12. BlockersFirst'
    BY <1>0, <2>3, <2>4, <2>5 DEF BlockersFirst, Started, Begun
  <2>13. FullContext'
    <3>1. \A n \in Name : context'[n] = IF n \in Ready(w) THEN blockers[n] \cap known'[r]
                                         ELSE context[n]
      BY <1>1 DEF StartWave
    <3> QED
      BY <2>1, <2>3, <3>1 DEF FullContext, Started, Begun
  <2> QED
    BY <2>7, <2>8, <2>9, <2>10, <2>11, <2>12, <2>13 DEF IInv
<1>2. CASE EndRun(r, w, f)
  <2>1. /\ worker' = w
        /\ IF team = "deleted" THEN team' = "deleted" ELSE team' \in {"completed", "failed"}
        /\ context' = context
    BY <1>2 DEF EndRun, Verdict
  <2>2. \A q \in Run : at'[q] = (IF q = r THEN "done" ELSE at[q])
                       /\ wave'[q] = (IF q = r THEN {} ELSE wave[q])
    BY <1>2 DEF EndRun, TypeOK
  <2>3. RowsOfLiveTeam' /\ Swept'
    BY <2>1 DEF RowsOfLiveTeam, Swept
  <2>4. RunsOfTeam'
    <3>1. \A q \in Run \ {r} : at'[q] = at[q] /\ wave'[q] = wave[q] /\ known'[q] = known[q]
      BY <2>2
    <3>2. at'[r] = "done" /\ wave'[r] = {} /\ team' # "none"
      BY <2>1, <2>2
    <3> QED
      BY <3>1, <3>2 DEF RunsOfTeam
  <2>4a. WavesRun'
    BY <2>1, <2>2 DEF WavesRun
  <2>5. TextsKnown'
    BY <2>1, <2>2 DEF TextsKnown
  <2>6. BlockersFirst' /\ FullContext'
    BY <2>1 DEF BlockersFirst, FullContext, Started, Begun
  <2> QED
    BY <2>3, <2>4, <2>4a, <2>5, <2>6 DEF IInv
<1> QED
  BY <1>1, <1>2 DEF Iterate

LEMMA IInvStep == IInv /\ [Next]_vars => IInv'
<1> SUFFICES ASSUME IInv, [Next]_vars PROVE IInv'
  OBVIOUS
<1>0. TypeOK /\ TypeOK'
  BY TypeStep DEF IInv
<1>1. ASSUME NEW d \in Definition, CreateTeam(d) PROVE IInv'
  <2>1. /\ team = "none" /\ team' = "active" /\ UNCHANGED <<texts, at, wave, known, context>>
        /\ \A n \in Name : worker'[n] \in {"pending", "absent"}
    BY <1>1 DEF CreateTeam, local
  <2>2. texts = {}
    BY <1>0, <2>1 DEF TypeOK, IInv, TextsKnown, RowsOfLiveTeam
  <2> QED
    BY <1>0, <2>1, <2>2 DEF TypeOK, IInv, RowsOfLiveTeam, RunsOfTeam, WavesRun, Swept, TextsKnown,
                      BlockersFirst, FullContext, Started
<1>2. ASSUME NEW r \in Run, RunTeam(r) PROVE IInv'
  <2>1. /\ team = "active" /\ at[r] = "idle" /\ Iterate(r, worker, {})
        /\ known' = known /\ texts' = texts /\ blockers' = blockers
    BY <1>2 DEF RunTeam
  <2>0. worker \in [Name -> {"absent", "pending", "running", "completed", "failed"}]
    BY <1>0 DEF TypeOK
  <2>2. Begun(worker) = Started
    BY DEF Begun, Started
  <2>3. Ready(worker) # {} => Started = {}
    BY <2>1 DEF IInv, Swept
  <2>4. Ready(worker) # {} => \A q \in Run \ {r} : at[q] # "wave"
    BY <1>0, <2>1, <2>3 DEF TypeOK, IInv, RunsOfTeam, WavesRun, Started
  <2>5. Ready(worker) # {} => known'[r] = texts'
    <3>1. Started = {} => texts = {}
      BY <1>0 DEF IInv, TextsKnown, Started, TypeOK
    <3>2. known[r] = {}
      BY <2>1 DEF IInv, RunsOfTeam
    <3> QED
      BY <2>1, <2>3, <3>1, <3>2
  <2>6. RunsOfTeam /\ \A n \in texts : worker[n] = "completed"
    BY DEF IInv, TextsKnown
  <2>7. \A q \in Run \ {r} : at[q] = "wave" /\ team # "deleted" => known[q] = texts'
    BY <2>1 DEF IInv, TextsKnown
  <2>8. \A q \in Run \ {r} : \A n \in wave[q] :
            worker[n] = (IF team = "deleted" THEN "absent" ELSE "running")
    BY DEF IInv, WavesRun
  <2>9. /\ \A n \in Begun(worker) : \A b \in blockers[n] : worker[b] = "completed"
        /\ \A n \in Begun(worker) : context[n] = blockers[n] \cap texts'
    BY <2>1, <2>2 DEF IInv, BlockersFirst, FullContext
  <2> QED
    BY <1>0, <2>0, <2>1, <2>4, <2>5, <2>6, <2>7, <2>8, <2>9, IterateKeeps
<1>3. ASSUME NEW r \in Run, WaveSettles(r) PROVE IInv'
  <2> DEFINE w == Settled(r)
  <2>1. /\ at[r] = "wave" /\ Iterate(r, w, failures'[r]) /\ blockers' = blockers
        /\ known' = [known EXCEPT ![r] = @ \cup {n \in wave[r] : outcome[r][n] = "text"}]
        /\ texts' = texts \cup {n \in wave[r] : outcome[r][n] = "text" /\ worker[n] # "absent"}
    BY <1>3 DEF WaveSettles
  <2>2. w \in [Name -> {"absent", "pending", "running", "completed", "failed"}]
    BY <1>0 DEF Settled, TypeOK
  <2>3. \A n \in Name : IF n \in wave[r] /\ worker[n] # "absent"
                        THEN w[n] = (IF outcome[r][n] = "error" THEN "failed" ELSE "completed")
                        ELSE w[n] = worker[n]
    BY <1>0 DEF Settled, TypeOK
  <2>4. RunsOfTeam /\ team # "none"
    BY <2>1 DEF IInv, RunsOfTeam
  <2>5. \A q \in Run \ {r} : at[q] # "wave" /\ wave[q] = {}
    BY <2>1, <2>4 DEF RunsOfTeam
  <2>6. \A n \in wave[r] : worker[n] = (IF team = "deleted" THEN "absent" ELSE "running")
    BY DEF IInv, WavesRun
  <2>7. team = "deleted" => \A n \in Name : w[n] = "absent"
    BY <2>3 DEF IInv, RowsOfLiveTeam
  <2>8. \A n \in Name : worker[n] = "completed" => w[n] = "completed"
    BY <2>3, <2>6
  <2>9. Begun(w) = Started
    BY <2>3, <2>6 DEF Begun, Started
  <2>10. Ready(w) # {} => known'[r] = texts'
    <3>1. Ready(w) # {} => team # "deleted"
      BY <2>7 DEF Ready
    <3>2. team # "deleted" => known[r] = texts
      BY <2>1 DEF IInv, TextsKnown
    <3>3. team # "deleted" => \A n \in wave[r] : worker[n] # "absent"
      BY <2>6
    <3> QED
      <4>1. ASSUME team # "deleted" PROVE known'[r] = texts'
        BY <1>0, <2>1, <3>2, <3>3, <4>1 DEF TypeOK
      <4> QED
        BY <3>1, <4>1
  <2>11. \A n \in texts' : w[n] = "completed"
    BY <1>0, <2>1, <2>3, <2>8 DEF TypeOK, IInv, TextsKnown
  <2>12. \A n \in Begun(w) : \A b \in blockers[n] : w[b] = "completed"
    BY <1>0, <2>8, <2>9 DEF TypeOK, IInv, BlockersFirst, Started
  <2>13. \A n \in Begun(w) : context[n] = blockers[n] \cap texts'
    <3> SUFFICES ASSUME NEW n \in Started PROVE context[n] = blockers[n] \cap texts'
      BY <2>9
    <3>1. \A b \in blockers[n] : b \notin wave[r] \/ worker[b] = "absent"
      BY <2>6 DEF IInv, BlockersFirst, Started
    <3>2. blockers[n] \cap texts' = blockers[n] \cap texts
      BY <2>1, <3>1
    <3> QED
      BY <3>2 DEF IInv, FullContext
  <2>14. \A q \in Run \ {r} : known'[q] = known[q]
    BY <2>1
  <2> HIDE DEF w
  <2> QED
    BY <1>0, <2>1, <2>2, <2>4, <2>5, <2>7, <2>10, <2>11, <2>12, <2>13, <2>14, IterateKeeps
<1>4. ASSUME NEW r \in Run, Abort(r) PROVE IInv'
  BY <1>0, <1>4 DEF TypeOK, Abort, store, local, IInv, RowsOfLiveTeam, RunsOfTeam, WavesRun, Swept,
              TextsKnown, BlockersFirst, FullContext, Started, Ready
<1>5. ASSUME NEW r \in Run, NEW n \in Name, WorkerSettles(r, n) PROVE IInv'
  BY <1>0, <1>5 DEF TypeOK, WorkerSettles, store, IInv, RowsOfLiveTeam, RunsOfTeam, WavesRun, Swept,
              TextsKnown, BlockersFirst, FullContext, Started, Ready
<1>6. ASSUME DeleteTeam PROVE IInv'
  BY <1>0, <1>6 DEF TypeOK, DeleteTeam, local, IInv, RowsOfLiveTeam, RunsOfTeam, WavesRun, Swept,
              TextsKnown, BlockersFirst, FullContext, Started
<1>7. ASSUME Restart PROVE IInv'
  BY <1>0, <1>7 DEF TypeOK, Restart, store, IInv, RowsOfLiveTeam, RunsOfTeam, WavesRun, Swept,
              TextsKnown, BlockersFirst, FullContext, Started, Ready
<1>8. ASSUME UNCHANGED vars PROVE IInv'
  BY <1>0, <1>8 DEF TypeOK, vars, store, local, IInv, RowsOfLiveTeam, RunsOfTeam, WavesRun, Swept,
              TextsKnown, BlockersFirst, FullContext, Started, Ready
<1> QED
  BY <1>1, <1>2, <1>3, <1>4, <1>5, <1>6, <1>7, <1>8 DEF Next

LEMMA Invariance == Spec => []IInv
BY IInvInit, IInvStep, PTL DEF Spec

\* For any team, definition, number of concurrent runs and restarts: a worker
\* starts only after its blockers completed, concurrent runs share no work, and
\* every prompt holds the texts of all blockers.
THEOREM TeamSafety == Spec => [](BlockersFirst /\ WavesDisjoint /\ FullContext)
<1>1. IInv => BlockersFirst /\ WavesDisjoint /\ FullContext
  <2> SUFFICES ASSUME IInv PROVE WavesDisjoint
    BY DEF IInv
  <2>1. WavesRun
    BY DEF IInv
  <2>2. ASSUME NEW r \in Run, at[r] = "wave", NEW q \in Run \ {r}
        PROVE  wave[q] \cap wave[r] = {}
    BY <2>2 DEF IInv, RunsOfTeam
  <2> QED
    BY <2>1, <2>2 DEF WavesDisjoint, WavesRun
<1> QED
  BY <1>1, Invariance, PTL

-----------------------------------------------------------------------------
(* Every step either leaves the rows of the team alone, or is a step of       *)
(* DagSchedule.                                                              *)

\* What one iteration of the loop does to the worker rows, given statuses w.
LEMMA IterateStarts ==
    ASSUME TypeOK, NEW r \in Run, NEW STATE w, NEW ACTION f, Iterate(r, w, f),
           w \in [Name -> {"absent", "pending", "running", "completed", "failed"}]
    PROVE  \A n \in Name :
              \/ worker'[n] = w[n]
              \/ /\ w[n] = "pending" /\ worker'[n] = "running"
                 /\ \A b \in blockers[n] : w[b] = "completed" /\ worker'[b] = "completed"
<1>1. CASE StartWave(r, w)
  <2>1. \A n \in Name : worker'[n] = IF n \in Ready(w) THEN "running" ELSE w[n]
    BY <1>1 DEF StartWave
  <2>2. \A n \in Name : blockers[n] \subseteq Name
    BY DEF TypeOK
  <2> QED
    BY <2>1, <2>2 DEF Ready
<1>2. CASE EndRun(r, w, f)
  BY <1>2 DEF EndRun
<1> QED
  BY <1>1, <1>2 DEF Iterate

\* So a step of a run is an Advance.
LEMMA RunAdvances ==
    ASSUME IInv, TypeOK', NEW r \in Run, RunTeam(r) \/ WaveSettles(r)
    PROVE  Schedule!Advance
<1>0. TypeOK
  BY DEF IInv
<1>1. blockers' = blockers /\ worker' \in [Name -> Schedule!Status]
  BY DEF RunTeam, WaveSettles, TypeOK, Schedule!Status
<1>2. CASE RunTeam(r)
  <2>1. Iterate(r, worker, {})
    BY <1>2 DEF RunTeam
  <2>2. worker \in [Name -> {"absent", "pending", "running", "completed", "failed"}]
    BY <1>0 DEF TypeOK
  <2>3. \A n \in Name :
           \/ worker'[n] = worker[n]
           \/ /\ worker[n] = "pending" /\ worker'[n] = "running"
              /\ \A b \in blockers[n] : worker[b] = "completed" /\ worker'[b] = "completed"
    BY <1>0, <2>1, <2>2, IterateStarts
  <2> QED
    BY <1>1, <2>3 DEF Schedule!Advance
<1>3. CASE WaveSettles(r)
  <2> DEFINE w == Settled(r)
  <2>1. Iterate(r, w, failures'[r])
    BY <1>3 DEF WaveSettles
  <2>2. w \in [Name -> {"absent", "pending", "running", "completed", "failed"}]
    BY <1>0 DEF Settled, TypeOK
  <2>3. \A n \in Name :
           \/ w[n] = worker[n]
           \/ worker[n] = "running" /\ w[n] \in {"completed", "failed"}
    <3>1. \A n \in wave[r] : worker[n] = "absent" \/ worker[n] = "running"
      BY DEF IInv, WavesRun
    <3>2. \A n \in Name : w[n] = IF n \in wave[r] /\ worker[n] # "absent"
                               THEN (IF outcome[r][n] = "error" THEN "failed" ELSE "completed")
                               ELSE worker[n]
      BY DEF Settled
    <3> QED
      BY <3>1, <3>2
  <2> HIDE DEF w
  <2>4. \A n \in Name :
           \/ worker'[n] = w[n]
           \/ /\ w[n] = "pending" /\ worker'[n] = "running"
              /\ \A b \in blockers[n] : w[b] = "completed" /\ worker'[b] = "completed"
    BY <1>0, <2>1, <2>2, IterateStarts
  <2>5. \A n \in Name :
           \/ worker'[n] = worker[n]
           \/ worker[n] = "running" /\ worker'[n] \in {"completed", "failed"}
           \/ /\ worker[n] = "pending" /\ worker'[n] = "running"
              /\ \A b \in blockers[n] : worker'[b] = "completed"
    BY <2>3, <2>4
  <2> QED
    BY <1>1, <2>5 DEF Schedule!Advance
<1> QED
  BY <1>2, <1>3

LEMMA StepsKeepSchedule ==
    ASSUME IInv, [Next]_vars
    PROVE  Schedule!Next \/ UNCHANGED <<blockers, worker>>
<1>0. TypeOK /\ TypeOK'
  BY TypeStep DEF IInv
<1>1. ASSUME NEW d \in Definition, CreateTeam(d) PROVE Schedule!Define
  <2>1. \A n \in Name : worker[n] = "absent"
    BY <1>1 DEF CreateTeam, IInv, RowsOfLiveTeam
  <2> QED
    BY <1>0, <1>1, <2>1 DEF CreateTeam, TypeOK, Schedule!Define
<1>2. ASSUME NEW r \in Run, RunTeam(r) \/ WaveSettles(r) PROVE Schedule!Advance
  BY <1>0, <1>2, RunAdvances
<1>3. ASSUME DeleteTeam PROVE Schedule!Disband
  BY <1>3 DEF DeleteTeam, Schedule!Disband
<1>4. ASSUME NEW r \in Run,
             Abort(r) \/ \E n \in Name : WorkerSettles(r, n)
      PROVE  UNCHANGED <<blockers, worker>>
  BY <1>4 DEF Abort, WorkerSettles, store
<1>5. ASSUME Restart \/ UNCHANGED vars PROVE UNCHANGED <<blockers, worker>>
  BY <1>5 DEF Restart, vars, store
<1> QED
  BY <1>1, <1>2, <1>3, <1>4, <1>5 DEF Next, Schedule!Next

\* Team implements DagSchedule.
THEOREM TeamKeepsSchedule == Spec => KeepsSchedule
<1>1. Init => Schedule!Init
  BY DEF Init, Schedule!Init
<1>2. IInv /\ [Next]_vars => [Schedule!Next]_<<blockers, worker>>
  BY StepsKeepSchedule
<1> QED
  BY <1>1, <1>2, Invariance, PTL DEF Spec, KeepsSchedule, Schedule!Spec

\* A wave that begins consists of workers that were pending.
LEMMA ClaimsPending ==
    ASSUME IInv, [Next]_vars, NEW r \in Run, wave'[r] # wave[r], NEW n \in wave'[r]
    PROVE  worker[n] = "pending"
<1>0. TypeOK /\ TypeOK'
  BY TypeStep DEF IInv
<1>1. n \in Name
  BY <1>0 DEF TypeOK
<1>2. ASSUME NEW q \in Run, RunTeam(q) PROVE worker[n] = "pending"
  <2>1. Iterate(q, worker, {})
    BY <1>2 DEF RunTeam
  <2>2. q = r /\ wave'[r] = Ready(worker)
    BY <1>0, <2>1 DEF Iterate, StartWave, EndRun, TypeOK
  <2> QED
    BY <2>2 DEF Ready
<1>3. ASSUME NEW q \in Run, WaveSettles(q) PROVE worker[n] = "pending"
  <2> DEFINE w == Settled(q)
  <2>1. Iterate(q, w, failures'[q])
    BY <1>3 DEF WaveSettles
  <2>2. q = r /\ wave'[r] = Ready(w)
    BY <1>0, <2>1 DEF Iterate, StartWave, EndRun, TypeOK
  <2>3. w[n] = "pending"
    BY <2>2 DEF Ready
  <2>4. w[n] = IF n \in wave[q] /\ worker[n] # "absent"
               THEN (IF outcome[q][n] = "error" THEN "failed" ELSE "completed")
               ELSE worker[n]
    BY <1>1 DEF Settled
  <2> QED
    BY <2>3, <2>4
<1>4. ASSUME Restart PROVE wave'[r] = {}
  BY <1>4 DEF Restart
<1>5. ASSUME NEW q \in Run, Abort(q) \/ \E m \in Name : WorkerSettles(q, m) PROVE FALSE
  BY <1>5 DEF Abort, WorkerSettles, local
<1>6. ASSUME (\E d \in Definition : CreateTeam(d)) \/ DeleteTeam \/ UNCHANGED vars PROVE FALSE
  BY <1>6 DEF CreateTeam, DeleteTeam, local, vars
<1> QED
  BY <1>2, <1>3, <1>4, <1>5, <1>6 DEF Next

\* No worker starts twice and no verdict on a worker is revised.
THEOREM WorkersMoveForward == Spec => StatusMovesForward
<1> DEFINE Moves ==
             \A n \in Started :
                worker[n]' \in {worker[n], "absent"}
                               \cup (IF worker[n] = "running" THEN {"completed", "failed"} ELSE {})
           Claims == \A r \in Run : wave[r]' # wave[r] => \A n \in wave[r]' : worker[n] = "pending"
<1>1. ASSUME IInv, [Next]_vars PROVE Moves
  <2>1. CASE Schedule!Define
    BY <2>1 DEF Schedule!Define, Started
  <2>2. CASE Schedule!Advance
    BY <2>2 DEF Schedule!Advance, Started
  <2>3. CASE Schedule!Disband
    BY <2>3 DEF Schedule!Disband, Started
  <2>4. CASE UNCHANGED <<blockers, worker>>
    BY <2>4
  <2> QED
    BY <1>1, <2>1, <2>2, <2>3, <2>4, StepsKeepSchedule DEF Schedule!Next
<1>2. IInv /\ [Next]_vars => [Moves /\ Claims]_vars
  BY <1>1, ClaimsPending
<1> QED
  BY <1>2, Invariance, PTL DEF Spec, StatusMovesForward

-----------------------------------------------------------------------------
(* The verdict.  While the only run goes on, its failures are the failed rows *)
(* and its wave is all that runs; when it ends with workers left that nobody  *)
(* made it leave, the least of them in the blocking relation has a blocker    *)
(* that failed.                                                              *)

\* The blocking relation of the team has no cycle.
Grounded == \A S \in (SUBSET Name) \ {{}} : \E n \in S : blockers[n] \cap S = {}

BlockersKnown ==
    team # "deleted" =>
        \A n \in Name : worker[n] # "absent" => \A b \in blockers[n] : worker[b] # "absent"

NothingFailedYet == \A r \in Run : at[r] = "idle" => failures[r] = {}

Told ==
    Undisturbed =>
        /\ team = "active" => \A r \in Run : at[r] \in {"idle", "wave"}
        /\ team = "active" /\ (\A r \in Run : at[r] = "idle") =>
               \A n \in Name : worker[n] \in {"absent", "pending"}
        /\ \A r \in Run : at[r] = "wave" /\ team # "deleted" =>
               /\ failures[r] = {n \in Name : worker[n] = "failed"}
               /\ \A n \in Name : worker[n] = "running" => n \in wave[r]

VInv == IInv /\ Grounded /\ BlockersKnown /\ NothingFailedYet /\ Told /\ VerdictIsRight

LEMMA VInvInit == Init => VInv
<1> SUFFICES ASSUME Init PROVE VInv
  OBVIOUS
<1>1. IInv
  BY IInvInit
<1> QED
  BY <1>1 DEF Init, VInv, Grounded, BlockersKnown, NothingFailedYet, Told, VerdictIsRight,
              CompletedMeansAllDone, FailedHasCause

\* When no worker is ready and none runs or failed, none is pending.
LEMMA StallHasCause ==
    ASSUME TypeOK, Grounded, NEW STATE w, Ready(w) = {},
           w \in [Name -> {"absent", "pending", "running", "completed", "failed"}],
           \A n \in Name : w[n] # "running",
           \A n \in Name : w[n] # "absent" => \A b \in blockers[n] : w[b] # "absent",
           \E n \in Name : w[n] = "pending"
    PROVE  \E n \in Name : w[n] = "failed"
<1> SUFFICES ASSUME \A n \in Name : w[n] # "failed" PROVE FALSE
  OBVIOUS
<1> DEFINE S == {n \in Name : w[n] = "pending"}
<1>1. S \in (SUBSET Name) \ {{}}
  OBVIOUS
<1>2. PICK n \in S : blockers[n] \cap S = {}
  BY <1>1 DEF Grounded
<1>3. n \in Name /\ blockers[n] \subseteq Name
  BY <1>2 DEF TypeOK
<1>4. \A b \in blockers[n] : w[b] = "completed"
  BY <1>2, <1>3
<1> QED
  BY <1>2, <1>3, <1>4 DEF Ready

\* What an iteration of the loop of the only run reports is right.
LEMMA IterateTells ==
    ASSUME TypeOK, NEW r \in Run, NEW STATE w, NEW ACTION f, Iterate(r, w, f),
           w \in [Name -> {"absent", "pending", "running", "completed", "failed"}],
           Grounded, aborted' = aborted, failures'[r] = f,
           team \notin {"none", "completed"},
           \A q \in Run \ {r} : at[q] = "idle",
           team # "deleted" =>
               /\ f = {n \in Name : w[n] = "failed"}
               /\ \A n \in Name : w[n] # "running"
               /\ \A n \in Name : w[n] # "absent" => \A b \in blockers[n] : w[b] # "absent",
           team = "failed" => aborted # {} \/ \E n \in Name : w[n] = "failed"
    PROVE  Told' /\ VerdictIsRight'
<1>1. CASE StartWave(r, w)
  <2>1. team' = team /\ Ready(w) \subseteq Name
    BY <1>1 DEF StartWave, Ready
  <2>2. \A n \in Name : worker'[n] = IF n \in Ready(w) THEN "running" ELSE w[n]
    BY <1>1 DEF StartWave
  <2>3. \A n \in Ready(w) : w[n] = "pending"
    BY DEF Ready
  <2>4. \A q \in Run : at'[q] = (IF q = r THEN "wave" ELSE at[q])
                       /\ wave'[q] = (IF q = r THEN Ready(w) ELSE wave[q])
    BY <1>1 DEF StartWave, TypeOK
  <2>5. \A n \in Name : (worker'[n] = "failed" <=> w[n] = "failed")
    BY <2>2, <2>3
  <2>6. VerdictIsRight'
    BY <2>1, <2>5 DEF VerdictIsRight, CompletedMeansAllDone, FailedHasCause
  <2>7. ASSUME team # "deleted"
        PROVE  /\ failures'[r] = {n \in Name : worker'[n] = "failed"}
               /\ \A n \in Name : worker'[n] = "running" => n \in wave'[r]
    <3>1. failures'[r] = {n \in Name : w[n] = "failed"}
      BY <2>7
    <3>2. \A n \in Name : worker'[n] = "running" => n \in wave'[r]
      BY <2>2, <2>4, <2>7
    <3> QED
      BY <2>5, <3>1, <3>2
  <2>8. Told'
    BY <2>1, <2>4, <2>7 DEF Told
  <2> QED
    BY <2>6, <2>8
<1>2. CASE EndRun(r, w, f)
  <2>1. /\ worker' = w /\ Stops(r, w)
        /\ team' = IF team = "deleted" THEN team ELSE Verdict(w, f)
    BY <1>2 DEF EndRun
  <2>2. \A q \in Run : at'[q] = (IF q = r THEN "done" ELSE at[q])
    BY <1>2 DEF EndRun, TypeOK
  <2>3. team' \in {"deleted", "completed", "failed"}
    BY <2>1 DEF Verdict
  <2>4. Told'
    BY <2>2, <2>3 DEF Told
  <2>5. CASE team = "deleted"
    BY <2>1, <2>4, <2>5 DEF VerdictIsRight, CompletedMeansAllDone, FailedHasCause
  <2>6. CASE team # "deleted"
    <3>1. team' = Verdict(w, f) /\ f = {n \in Name : w[n] = "failed"}
      BY <2>1, <2>6
    <3>2. ASSUME team' = "completed" PROVE \A n \in Name : worker'[n] \in {"absent", "completed"}
      <4>1. f = {} /\ ~\E n \in Name : w[n] = "pending"
        BY <3>1, <3>2 DEF Verdict
      <4> QED
        BY <2>1, <2>6, <3>1, <4>1
    <3>3. ASSUME team' = "failed" PROVE aborted # {} \/ \E n \in Name : worker'[n] = "failed"
      <4>1. f # {} \/ \E n \in Name : w[n] = "pending"
        BY <3>1, <3>3 DEF Verdict
      <4>2. CASE f # {}
        BY <2>1, <3>1, <4>2
      <4>3. CASE \E n \in Name : w[n] = "pending"
        <5>1. r \in aborted \/ Ready(w) = {}
          BY <2>1, <4>3 DEF Stops, Complete
        <5>2. CASE Ready(w) = {}
          BY <2>1, <2>6, <4>3, <5>2, StallHasCause
        <5> QED
          BY <5>1, <5>2
      <4> QED
        BY <4>1, <4>2, <4>3
    <3> QED
      BY <2>4, <3>2, <3>3 DEF VerdictIsRight, CompletedMeansAllDone, FailedHasCause
  <2> QED
    BY <2>4, <2>5, <2>6
<1> QED
  BY <1>1, <1>2 DEF Iterate

\* A step that runs the loop of r.
LEMMA LoopKeeps ==
    ASSUME VInv, IInv', NEW r \in Run, RunTeam(r) \/ WaveSettles(r)
    PROVE  VInv'
<1>0. TypeOK /\ IInv /\ Grounded /\ NothingFailedYet /\ BlockersKnown /\ Told
  BY DEF VInv, IInv
<1> DEFINE Row == {"absent", "pending", "running", "completed", "failed"}
<1>1. /\ blockers' = blockers /\ aborted' = aborted /\ crashes' = crashes
      /\ at[r] \in {"idle", "wave"} /\ team # "none"
      /\ \A q \in Run \ {r} : at'[q] = at[q] /\ failures'[q] = failures[q]
      /\ at'[r] \in {"wave", "done"}
  BY <1>0 DEF RunTeam, WaveSettles, Iterate, StartWave, EndRun, TypeOK, IInv, RunsOfTeam
<1>2. Grounded'
  BY <1>0, <1>1 DEF Grounded
<1>3. NothingFailedYet'
  BY <1>0, <1>1 DEF NothingFailedYet
<1>4. PICK w \in [Name -> Row] :
          /\ Iterate(r, w, failures'[r])
          /\ RunTeam(r) => w = worker
          /\ WaveSettles(r) => w = Settled(r)
  <2>1. CASE RunTeam(r)
    <3>1. failures'[r] = {}
      BY <1>0, <2>1 DEF RunTeam, NothingFailedYet
    <3>2. worker \in [Name -> Row] /\ Iterate(r, worker, failures'[r]) /\ at[r] = "idle"
      BY <1>0, <2>1, <3>1 DEF RunTeam, TypeOK
    <3>3. ~WaveSettles(r)
      BY <3>2 DEF WaveSettles
    <3> QED
      BY <3>2, <3>3
  <2>2. CASE WaveSettles(r)
    <3>1. Settled(r) \in [Name -> Row] /\ Iterate(r, Settled(r), failures'[r]) /\ at[r] = "wave"
      BY <1>0, <2>2 DEF WaveSettles, Settled, TypeOK
    <3>2. ~RunTeam(r)
      BY <3>1 DEF RunTeam
    <3> QED
      BY <3>1, <3>2
  <2> QED
    BY <2>1, <2>2
<1>5. \A n \in Name : w[n] = "absent" <=> worker[n] = "absent"
  BY <1>4 DEF Settled
<1>6. \A n \in Name : worker'[n] = "absent" <=> w[n] = "absent"
  <2>1. \A n \in Name : worker'[n] = w[n] \/ (w[n] = "pending" /\ worker'[n] = "running")
    BY <1>0, <1>4, IterateStarts
  <2> QED
    BY <2>1
<1>b. \A n \in Name : blockers[n] \subseteq Name
  BY <1>0 DEF TypeOK
<1>7. BlockersKnown'
  <2>1. team' # "deleted" => team # "deleted"
    BY <1>4 DEF Iterate, StartWave, EndRun
  <2> QED
    BY <1>0, <1>1, <1>5, <1>6, <1>b, <2>1 DEF BlockersKnown
<1>8. CASE ~Undisturbed'
  BY <1>2, <1>3, <1>7, <1>8 DEF VInv, Told, VerdictIsRight, CompletedMeansAllDone, FailedHasCause
<1>9. CASE Undisturbed'
  <2>1. \A q \in Run \ {r} : at[q] = "idle"
    BY <1>1, <1>9 DEF Undisturbed
  <2>2. Undisturbed
    BY <1>1, <1>9, <2>1 DEF Undisturbed
  <2>3. /\ team \notin {"none", "completed"}
        /\ team # "deleted" =>
               /\ failures'[r] = {n \in Name : w[n] = "failed"}
               /\ \A n \in Name : w[n] # "running"
        /\ team = "failed" => aborted # {} \/ \E n \in Name : w[n] = "failed"
    <3>1. CASE RunTeam(r)
      <4>1. team = "active" /\ at[r] = "idle" /\ failures'[r] = {} /\ w = worker
        BY <1>0, <1>4, <3>1 DEF RunTeam, NothingFailedYet
      <4>2. \A n \in Name : w[n] \in {"absent", "pending"}
        BY <1>0, <2>1, <2>2, <4>1 DEF Told
      <4> QED
        BY <4>1, <4>2
    <3>2. CASE WaveSettles(r)
      <4>1. /\ at[r] = "wave" /\ wave[r] # {} /\ wave[r] \subseteq Name
            /\ failures'[r] = failures[r] \cup {n \in wave[r] : outcome[r][n] = "error"}
        BY <1>0, <3>2 DEF WaveSettles, IInv, RunsOfTeam, TypeOK
      <4>2. \A n \in wave[r] : worker[n] = (IF team = "deleted" THEN "absent" ELSE "running")
        BY <1>0 DEF IInv, WavesRun
      <4>3. \A n \in Name : w[n] = IF n \in wave[r] /\ worker[n] # "absent"
                                   THEN (IF outcome[r][n] = "error" THEN "failed" ELSE "completed")
                                   ELSE worker[n]
        BY <1>4, <3>2 DEF Settled
      <4>4. team # "completed"
        <5>1. PICK n \in wave[r] : TRUE
          BY <4>1
        <5>2. team = "completed" => worker[n] \in {"absent", "completed"}
          BY <2>2, <4>1 DEF VInv, VerdictIsRight, CompletedMeansAllDone
        <5> QED
          BY <4>2, <5>2
      <4>5. ASSUME team # "deleted"
            PROVE  /\ failures'[r] = {n \in Name : w[n] = "failed"}
                   /\ \A n \in Name : w[n] # "running"
        <5>1. /\ failures[r] = {n \in Name : worker[n] = "failed"}
              /\ \A n \in Name : worker[n] = "running" => n \in wave[r]
          BY <1>0, <2>2, <4>1, <4>5 DEF Told
        <5>2. \A n \in wave[r] : worker[n] = "running"
          BY <4>2, <4>5
        <5>3. \A n \in Name : w[n] # "running"
          BY <4>3, <5>1, <5>2
        <5>4. \A n \in Name : w[n] = "failed"
                                 <=> worker[n] = "failed" \/ (n \in wave[r] /\ outcome[r][n] = "error")
          BY <4>3, <5>2
        <5>5. failures'[r] = {n \in Name : w[n] = "failed"}
          BY <4>1, <5>1, <5>4
        <5> QED
          BY <5>3, <5>5
      <4>6. ASSUME team = "failed" PROVE aborted # {} \/ \E n \in Name : w[n] = "failed"
        <5>1. aborted # {} \/ \E n \in Name : worker[n] = "failed"
          BY <2>2, <4>6 DEF VInv, VerdictIsRight, FailedHasCause
        <5>2. \A n \in Name : worker[n] = "failed" => w[n] = "failed"
          BY <4>2, <4>3, <4>6
        <5> QED
          BY <5>1, <5>2
      <4> QED
        BY <1>1, <4>4, <4>5, <4>6
    <3> QED
      BY <3>1, <3>2
  <2>4. team # "deleted" =>
            \A n \in Name : w[n] # "absent" => \A b \in blockers[n] : w[b] # "absent"
    BY <1>0, <1>5, <1>b DEF BlockersKnown
  <2>5. Told' /\ VerdictIsRight'
    BY <1>0, <1>1, <1>4, <2>1, <2>3, <2>4, IterateTells
  <2> QED
    BY <1>2, <1>3, <1>7, <2>5 DEF VInv
<1> QED
  BY <1>8, <1>9

LEMMA VInvStep == VInv /\ [Next]_vars => VInv'
<1> SUFFICES ASSUME VInv, [Next]_vars PROVE VInv'
  OBVIOUS
<1>0. /\ IInv /\ IInv' /\ TypeOK
      /\ Grounded /\ NothingFailedYet /\ BlockersKnown /\ Told /\ VerdictIsRight
  BY IInvStep DEF VInv, IInv
<1> USE DEF VerdictIsRight, CompletedMeansAllDone, FailedHasCause
<1>1. ASSUME NEW d \in Definition, CreateTeam(d) PROVE VInv'
  <2>1. /\ team = "none" /\ team' = "active" /\ UNCHANGED <<at, failures>> /\ Accepted(d)
        /\ \A n \in Name : worker'[n] = IF n \in Named(d) THEN "pending" ELSE "absent"
        /\ \A n \in Name : blockers'[n] = BlockersIn(d, n)
    BY <1>1 DEF CreateTeam, local
  <2>2. WellFounded(d)
    <3>1. d \in Seq(Worker)
      BY TeamAssumption
    <3> QED
      BY <2>1, <3>1, KahnJudgesRight DEF JudgedRight
  <2>3. Grounded'
    <3> SUFFICES ASSUME NEW S \in (SUBSET Name) \ {{}} PROVE \E n \in S : blockers'[n] \cap S = {}
      BY DEF Grounded
    <3>1. CASE S \subseteq Named(d)
      <4>1. PICK n \in S : BlockersIn(d, n) \cap S = {}
        BY <2>2, <3>1 DEF WellFounded
      <4> QED
        BY <2>1, <4>1
    <3>2. CASE ~(S \subseteq Named(d))
      <4>1. PICK n \in S : n \notin Named(d)
        BY <3>2
      <4>2. BlockersIn(d, n) = {}
        BY <2>1, <4>1, BlockersAreNames
      <4> QED
        BY <2>1, <4>2
    <3> QED
      BY <3>1, <3>2
  <2>4. BlockersKnown'
    BY <2>1, BlockersAreNames DEF BlockersKnown
  <2>5. NothingFailedYet'
    BY <1>0, <2>1 DEF NothingFailedYet
  <2>6. Told'
    BY <1>0, <2>1 DEF Told, IInv, RunsOfTeam
  <2> QED
    BY <1>0, <2>1, <2>3, <2>4, <2>5, <2>6 DEF VInv
<1>2. ASSUME NEW r \in Run, RunTeam(r) \/ WaveSettles(r) PROVE VInv'
  BY <1>0, <1>2, LoopKeeps
<1>3. ASSUME \/ \E r \in Run : Abort(r) \/ \E n \in Name : WorkerSettles(r, n)
             \/ UNCHANGED vars
      PROVE  VInv'
  <2>1. UNCHANGED <<team, worker, blockers, at, wave, failures, crashes>> /\ aborted \subseteq aborted'
    BY <1>3 DEF Abort, WorkerSettles, vars, store, local
  <2>2. Grounded' /\ BlockersKnown' /\ NothingFailedYet'
    BY <1>0, <2>1 DEF Grounded, BlockersKnown, NothingFailedYet
  <2>3. Told'
    BY <1>0, <2>1 DEF Told, Undisturbed
  <2>4. VerdictIsRight'
    BY <1>0, <2>1 DEF Undisturbed
  <2> QED
    BY <1>0, <2>2, <2>3, <2>4 DEF VInv
<1>4. ASSUME DeleteTeam PROVE VInv'
  <2>1. UNCHANGED <<blockers, at, failures>> /\ team' = "deleted"
    BY <1>4 DEF DeleteTeam, local
  <2>2. Grounded' /\ BlockersKnown' /\ NothingFailedYet' /\ Told'
    BY <1>0, <2>1 DEF Grounded, BlockersKnown, NothingFailedYet, Told
  <2> QED
    BY <1>0, <2>1, <2>2 DEF VInv
<1>5. ASSUME Restart PROVE VInv'
  <2>1. UNCHANGED <<team, worker, blockers, failures>> /\ crashes' # 0
    BY <1>0, <1>5 DEF Restart, store, TypeOK
  <2>2. \A r \in Run : at'[r] = "idle" => at[r] = "idle"
    BY <1>0, <1>5 DEF Restart, TypeOK
  <2>3. Grounded' /\ BlockersKnown' /\ NothingFailedYet'
    BY <1>0, <2>1, <2>2 DEF Grounded, BlockersKnown, NothingFailedYet
  <2>4. ~Undisturbed'
    BY <2>1 DEF Undisturbed
  <2> QED
    BY <1>0, <2>3, <2>4 DEF VInv, Told
<1> QED
  BY <1>1, <1>2, <1>3, <1>4, <1>5 DEF Next

\* For any set of names, definitions, runs and restarts: what an undisturbed run
\* reports of a team is what became of its workers, and it reports a failure of
\* its own accord only when a worker failed.
THEOREM VerdictsAreRight == Spec => []VerdictIsRight
<1>1. VInv => VerdictIsRight
  BY DEF VInv
<1> QED
  BY <1>1, VInvInit, VInvStep, PTL DEF Spec

\* validateDAG accepts exactly the definitions without a cycle among workers
\* they define, for teams of any size and lists that repeat a blocker.
THEOREM DagsAreAccepted == Spec => []AcceptsExactlyDags
<1>1. \A d \in Offered : JudgedRight(d)
  <2> SUFFICES ASSUME NEW d \in Offered PROVE JudgedRight(d)
    OBVIOUS
  <2>1. d \in Seq(Worker)
    BY TeamAssumption
  <2> QED
    BY <2>1, KahnJudgesRight
<1>2. AcceptsExactlyDags
  BY <1>1 DEF AcceptsExactlyDags
<1> QED
  BY <1>2, PTL
=============================================================================
