---------------------------- MODULE ListsAndSums -----------------------------
(***************************************************************************)
(* Lists of which some entries stay, in their order: what the code does    *)
(* entry by entry while it walks a list, said of all of them at once. And  *)
(* sums, of which one term changes at a time.                              *)
(***************************************************************************)
EXTENDS Integers, Sequences, FiniteSets, FiniteSetTheorems, TLAPS

\* Some places, which are numbers, from the first to the last
InOrder(places) ==
    [i \in 1 .. Cardinality(places) |->
        CHOOSE p \in places : Cardinality({q \in places : q < p}) = i - 1]

\* The entries of a list at some of its places
Only(list, places) == LET m == InOrder(places) IN [i \in DOMAIN m |-> list[m[i]]]

-----------------------------------------------------------------------------
(* What they promise. *)

\* m lists the places of a set in order.
Enumerates(m, places) ==
    /\ m \in [1 .. Cardinality(places) -> places]
    /\ \A i, j \in DOMAIN m : i < j => m[i] < m[j]
    /\ \A k \in places : \E i \in DOMAIN m : m[i] = k

\* Places up to n have an order when those before n have one.
LEMMA OneMorePlace ==
    ASSUME NEW n \in Nat, NEW P \in SUBSET (0 .. n), NEW m, Enumerates(m, P \ {n})
    PROVE  \E o : Enumerates(o, P)
<1> DEFINE Q == P \ {n}
           c == Cardinality(Q)
<1>1. IsFiniteSet(P) /\ IsFiniteSet(Q)
  <2>1. IsFiniteSet(0 .. n)
    BY FS_Interval
  <2>2. IsFiniteSet(P)
    BY <2>1, FS_Subset
  <2> QED
    BY <2>2, FS_Subset
<1>2. c \in Nat
  BY <1>1, FS_CardinalityType
<1>3. CASE n \notin P
  <2>1. Q = P
    BY <1>3
  <2> QED
    BY <2>1
<1>4. CASE n \in P
  <2>1. Cardinality(P) = c + 1
    <3>1. n \notin Q /\ Q \cup {n} = P
      BY <1>4
    <3>2. Cardinality(Q \cup {n}) = IF n \in Q THEN Cardinality(Q) ELSE Cardinality(Q) + 1
      BY <1>1, FS_AddElement
    <3> QED
      BY <3>1, <3>2
  <2>2. /\ m \in [1 .. c -> Q]
        /\ \A i, j \in 1 .. c : i < j => m[i] < m[j]
        /\ \A k \in Q : \E i \in 1 .. c : m[i] = k
    BY DEF Enumerates
  <2>3. \A i \in 1 .. c : m[i] \in P /\ m[i] < n
    <3>1. \A x \in Q : x \in P /\ x < n
      OBVIOUS
    <3>2. \A i \in 1 .. c : m[i] \in Q
      BY <2>2
    <3> QED
      BY <3>1, <3>2
  <2> DEFINE o == [i \in 1 .. c + 1 |-> IF i = c + 1 THEN n ELSE m[i]]
  <2>0. /\ \A i \in 1 .. c + 1 : i = c + 1 \/ i \in 1 .. c
        /\ \A i \in 1 .. c : i \in 1 .. c + 1 /\ i # c + 1
        /\ c + 1 \in 1 .. c + 1
    BY <1>2
  <2>4. o \in [1 .. c + 1 -> P]
    BY <1>4, <2>0, <2>3
  <2>d. /\ \A i \in 1 .. c : o[i] = m[i]
        /\ o[c + 1] = n
    BY <2>0
  <2> HIDE DEF o, c
  <2>5. \A i, j \in 1 .. c + 1 : i < j => o[i] < o[j]
    <3> SUFFICES ASSUME NEW i \in 1 .. c + 1, NEW j \in 1 .. c + 1, i < j
                 PROVE  o[i] < o[j]
      OBVIOUS
    <3>1. i \in 1 .. c
      BY <1>2
    <3> QED
      BY <2>0, <2>2, <2>3, <2>d, <3>1
  <2>6. \A k \in P : \E i \in 1 .. c + 1 : o[i] = k
    <3> SUFFICES ASSUME NEW k \in P
                 PROVE  \E i \in 1 .. c + 1 : o[i] = k
      OBVIOUS
    <3>1. CASE k = n
      BY <2>0, <2>d, <3>1
    <3>2. CASE k # n
      <4>1. PICK i \in 1 .. c : m[i] = k
        BY <2>2, <3>2
      <4> QED
        BY <2>0, <2>d, <4>1
    <3> QED
      BY <3>1, <3>2
  <2> QED
    BY <2>1, <2>4, <2>5, <2>6 DEF Enumerates
<1> QED
  BY <1>3, <1>4

\* By a smallest counterexample: the intervals 0 .. k - 1 with places that have no order.
LEMMA PlacesHaveOrder ==
    ASSUME NEW n \in Nat, NEW P \in SUBSET (0 .. n - 1)
    PROVE  \E m : Enumerates(m, P)
<1> DEFINE Orderless(k) == \E Q \in SUBSET (0 .. k - 1) : ~\E m : Enumerates(m, Q)
           Bad == {T \in SUBSET (0 .. n - 1) : \E k \in 0 .. n : T = 0 .. k - 1 /\ Orderless(k)}
<1> SUFFICES ASSUME ~\E m : Enumerates(m, P)
             PROVE  FALSE
  OBVIOUS
<1>1. 0 .. n - 1 \in Bad
  <2>1. n \in 0 .. n /\ 0 .. n - 1 \in SUBSET (0 .. n - 1)
    OBVIOUS
  <2> QED
    BY <2>1
<1>2. PICK T \in Bad : \A U \in Bad : U \subseteq T => U = T
  <2>1. IsFiniteSet(0 .. n - 1)
    BY FS_Interval
  <2>2. IsWellFoundedOn(StrictSubsetOrdering(0 .. n - 1), SUBSET (0 .. n - 1))
    BY <2>1, FS_StrictSubsetOrderingWellFounded, FS_FiniteSubsetsOfFinite
  <2>3. Bad \subseteq SUBSET (0 .. n - 1) /\ Bad # {}
    BY <1>1
  <2> HIDE DEF Bad
  <2>4. PICK T \in Bad : \A U \in Bad : <<U, T>> \notin StrictSubsetOrdering(0 .. n - 1)
    BY <2>2, <2>3, WFMin
  <2> QED
    BY <2>3, <2>4 DEF StrictSubsetOrdering
<1>3. PICK k \in 0 .. n : T = 0 .. k - 1 /\ Orderless(k)
  BY <1>2
<1>4. PICK Q \in SUBSET (0 .. k - 1) : ~\E m : Enumerates(m, Q)
  BY <1>3
<1>5. k # 0
  <2> SUFFICES ASSUME k = 0
               PROVE  FALSE
    OBVIOUS
  <2> HIDE DEF Bad
  <2>1. Q = {}
    BY <1>4
  <2>2. Cardinality({}) = 0
    BY FS_EmptySet
  <2> DEFINE m == [i \in {} |-> i]
  <2>3. m \in [1 .. 0 -> {}] /\ DOMAIN m = {}
    OBVIOUS
  <2> HIDE DEF m
  <2>4. Enumerates(m, {})
    BY <2>2, <2>3 DEF Enumerates
  <2> QED
    BY <1>4, <2>1, <2>4
<1>6. PICK p \in 0 .. n : k = p + 1 /\ p \in Nat
  <2>1. k - 1 \in 0 .. n /\ k = (k - 1) + 1 /\ k - 1 \in Nat
    BY <1>5
  <2> QED
    BY <2>1
<1>7. ~Orderless(p)
  <2>1. 0 .. p - 1 \in SUBSET (0 .. n - 1) /\ 0 .. p - 1 \subseteq T /\ 0 .. p - 1 # T
    <3>1. p \in 0 .. k - 1 /\ p \notin 0 .. p - 1
      BY <1>6
    <3> QED
      BY <1>3, <1>6, <3>1
  <2>2. 0 .. p - 1 \notin Bad
    BY <1>2, <2>1
  <2> HIDE DEF Orderless
  <2> QED
    BY <2>1, <2>2
<1>8. Q \ {p} \in SUBSET (0 .. p - 1)
  BY <1>4, <1>6
<1>9. PICK m : Enumerates(m, Q \ {p})
  <2> DEFINE R == Q \ {p}
  <2>1. R \in SUBSET (0 .. p - 1)
    BY <1>8
  <2> HIDE DEF R
  <2>2. \E m : Enumerates(m, R)
    BY <1>7, <2>1
  <2> QED
    BY <2>2 DEF R
<1> HIDE DEF Bad
<1> QED
  <2>1. Q \in SUBSET (0 .. p)
    BY <1>4, <1>6
  <2> QED
    BY <1>4, <1>6, <1>9, <2>1, OneMorePlace

\* In a list of places in order, i - 1 places come before the i-th.
LEMMA PlacesBefore ==
    ASSUME NEW c \in Nat, NEW P \in SUBSET Nat, NEW m \in [1 .. c -> P],
           \A i, j \in 1 .. c : i < j => m[i] < m[j],
           \A k \in P : \E i \in 1 .. c : m[i] = k,
           NEW i \in 1 .. c
    PROVE  Cardinality({q \in P : q < m[i]}) = i - 1
<1> DEFINE B == {q \in P : q < m[i]}
           f == [j \in 1 .. i - 1 |-> m[j]]
<1>1. \A j \in 1 .. i - 1 : j \in 1 .. c /\ j < i
  OBVIOUS
<1>2. \A j, k \in 1 .. c : m[j] \in Nat /\ m[k] \in Nat /\ (m[j] < m[k] => j < k)
  <2> SUFFICES ASSUME NEW j \in 1 .. c, NEW k \in 1 .. c
               PROVE  m[j] \in Nat /\ m[k] \in Nat /\ (m[j] < m[k] => j < k)
    OBVIOUS
  <2>1. m[j] \in Nat /\ m[k] \in Nat
    OBVIOUS
  <2>2. CASE j = k
    BY <2>1, <2>2
  <2>3. CASE k < j
    BY <2>1, <2>3
  <2>4. CASE j < k
    BY <2>1, <2>4
  <2> QED
    BY <2>2, <2>3, <2>4
<1>3. f \in Bijection(1 .. i - 1, B)
  <2>1. f \in [1 .. i - 1 -> B]
    BY <1>1, <1>2
  <2>2. \A j, k \in 1 .. i - 1 : f[j] = f[k] => j = k
    <3> SUFFICES ASSUME NEW j \in 1 .. i - 1, NEW k \in 1 .. i - 1, f[j] = f[k] PROVE j = k
      OBVIOUS
    <3>1. m[j] = m[k]
      OBVIOUS
    <3> QED
      BY <1>1, <1>2, <3>1
  <2>3. \A q \in B : \E j \in 1 .. i - 1 : f[j] = q
    <3> SUFFICES ASSUME NEW q \in B PROVE \E j \in 1 .. i - 1 : f[j] = q
      OBVIOUS
    <3>1. PICK j \in 1 .. c : m[j] = q
      OBVIOUS
    <3>2. j \in 1 .. i - 1
      BY <1>2, <3>1
    <3> QED
      BY <3>1, <3>2
  <2> HIDE DEF f, B
  <2> QED
    BY <2>1, <2>2, <2>3 DEF Bijection, Injection, IsInjective, Surjection
<1>4. 1 .. i - 1 = 1 .. i - 1 /\ i - 1 \in Nat
  OBVIOUS
<1> HIDE DEF f, B
<1>5. Cardinality(B) = i - 1
  BY <1>3, <1>4, FS_CountingElements DEF ExistsBijection
<1> QED
  BY <1>5 DEF B

\* InOrder() lists places from the first to the last, each once.
LEMMA InOrderEnumerates ==
    ASSUME NEW n \in Nat, NEW P \in SUBSET (0 .. n)
    PROVE  /\ Cardinality(P) \in Nat
           /\ Enumerates(InOrder(P), P)
<1>1. IsFiniteSet(0 .. n)
  BY FS_Interval
<1>2. IsFiniteSet(P)
  BY <1>1, FS_Subset
<1>3. Cardinality(P) \in Nat
  BY <1>2, FS_CardinalityType
<1> DEFINE c == Cardinality(P)
           Before(p) == Cardinality({q \in P : q < p})
<1>4. PICK m : Enumerates(m, P)
  <2>1. n + 1 \in Nat /\ P \in SUBSET (0 .. (n + 1) - 1)
    OBVIOUS
  <2> QED
    BY <2>1, PlacesHaveOrder
<1>5. /\ m \in [1 .. c -> P]
      /\ \A i, j \in 1 .. c : i < j => m[i] < m[j]
      /\ \A k \in P : \E i \in 1 .. c : m[i] = k
  BY <1>4 DEF Enumerates
<1>6. \A i \in 1 .. c : Before(m[i]) = i - 1
  <2>1. P \in SUBSET Nat /\ c \in Nat
    BY <1>3
  <2> HIDE DEF c
  <2> QED
    BY <1>5, <2>1, PlacesBefore
<1> HIDE DEF Before
<1>7. \A i \in 1 .. c : (CHOOSE p \in P : Before(p) = i - 1) = m[i]
  <2> SUFFICES ASSUME NEW i \in 1 .. c PROVE (CHOOSE p \in P : Before(p) = i - 1) = m[i]
    OBVIOUS
  <2> DEFINE p == CHOOSE x \in P : Before(x) = i - 1
  <2>1. m[i] \in P /\ Before(m[i]) = i - 1
    BY <1>5, <1>6
  <2>2. p \in P /\ Before(p) = i - 1
    BY <2>1
  <2> HIDE DEF p
  <2>3. PICK j \in 1 .. c : m[j] = p
    BY <1>5, <2>2
  <2>4. i - 1 = j - 1
    BY <1>6, <2>2, <2>3
  <2>5. i = j
    BY <1>3, <2>4
  <2> QED
    BY <2>3, <2>5 DEF p
<1>8. InOrder(P) = m
  <2>1. InOrder(P) = [i \in 1 .. c |-> CHOOSE p \in P : Before(p) = i - 1]
    BY DEF InOrder, Before
  <2> HIDE DEF c
  <2> QED
    BY <1>5, <1>7, <2>1
<1> QED
  BY <1>3, <1>4, <1>8

\* What Only() leaves of a list: the entries at those places, in the order of the list
LEMMA OnlyThose ==
    ASSUME NEW S, NEW list \in Seq(S), NEW P \in SUBSET (DOMAIN list)
    PROVE  /\ Only(list, P) \in Seq(S)
           /\ \E m \in [DOMAIN Only(list, P) -> P] :
                 /\ \A i \in DOMAIN Only(list, P) : Only(list, P)[i] = list[m[i]]
                 /\ \A i, j \in DOMAIN Only(list, P) : i < j => m[i] < m[j]
                 /\ \A k \in P : \E i \in DOMAIN Only(list, P) : m[i] = k
<1>1. Len(list) \in Nat /\ DOMAIN list = 1 .. Len(list)
  OBVIOUS
<1>2. P \in SUBSET (0 .. Len(list))
  BY <1>1
<1>3. Enumerates(InOrder(P), P)
  BY <1>1, <1>2, InOrderEnumerates
<1> DEFINE m == InOrder(P)
           c == Cardinality(P)
<1>4. c \in Nat
  BY <1>1, <1>2, InOrderEnumerates
<1>5. m \in [1 .. c -> P]
  BY <1>3 DEF Enumerates
<1>6. Only(list, P) = [i \in 1 .. c |-> list[m[i]]]
  BY <1>5 DEF Only
<1> DEFINE o == Only(list, P)
<1>7. o \in Seq(S) /\ DOMAIN o = 1 .. c /\ \A i \in 1 .. c : o[i] = list[m[i]]
  <2> HIDE DEF m, c, o
  <2>1. \A i \in 1 .. c : list[m[i]] \in S
    BY <1>1, <1>5
  <2>2. o = [i \in 1 .. c |-> list[m[i]]]
    BY <1>6 DEF o
  <2>3. o \in [1 .. c -> S]
    BY <2>1, <2>2
  <2> QED
    BY <1>4, <2>2, <2>3
<1>8. /\ \A i, j \in 1 .. c : i < j => m[i] < m[j]
      /\ \A k \in P : \E i \in 1 .. c : m[i] = k
  BY <1>3, <1>5 DEF Enumerates
<1> HIDE DEF m, c
<1>9. \E f \in [DOMAIN o -> P] :
         /\ \A i \in DOMAIN o : o[i] = list[f[i]]
         /\ \A i, j \in DOMAIN o : i < j => f[i] < f[j]
         /\ \A k \in P : \E i \in DOMAIN o : f[i] = k
  <2> HIDE DEF o
  <2>1. m \in [DOMAIN o -> P]
    BY <1>5, <1>7
  <2>2. /\ \A i \in DOMAIN o : o[i] = list[m[i]]
        /\ \A i, j \in DOMAIN o : i < j => m[i] < m[j]
        /\ \A k \in P : \E i \in DOMAIN o : m[i] = k
    BY <1>7, <1>8
  <2> QED
    BY <2>1, <2>2
<1> QED
  BY <1>7, <1>9

\* What Only() leaves comes from those places.
LEMMA OnlySome ==
    ASSUME NEW S, NEW list \in Seq(S), NEW P \in SUBSET (DOMAIN list)
    PROVE  \A i \in DOMAIN Only(list, P) : \E k \in P : Only(list, P)[i] = list[k]
<1>1. PICK m \in [DOMAIN Only(list, P) -> P] : \A i \in DOMAIN Only(list, P) : Only(list, P)[i] = list[m[i]]
  BY OnlyThose
<1> QED
  BY <1>1

-----------------------------------------------------------------------------
(* Sums over finite sets. Induction is by a smallest counterexample: the    *)
(* finite sets are well-founded under strict inclusion.                     *)

LEMMA SmallestSet ==
    ASSUME NEW S, IsFiniteSet(S), NEW Bad, Bad \subseteq SUBSET S, Bad # {}
    PROVE  \E T \in Bad : \A U \in Bad : U \subseteq T => U = T
<1> DEFINE R == StrictSubsetOrdering(S)
<1>1. IsWellFoundedOn(R, SUBSET S)
  BY FS_StrictSubsetOrderingWellFounded, FS_FiniteSubsetsOfFinite
<1>2. PICK T \in Bad : \A U \in Bad : <<U, T>> \notin R
  <2> HIDE DEF R
  <2> QED
    BY <1>1, WFMin
<1>3. \A U \in Bad : U \subseteq T => U = T
  BY <1>2 DEF StrictSubsetOrdering
<1> QED
  BY <1>3

Chosen(s) == CHOOSE x \in s : TRUE

\* One unfolding of the recursion behind SumFunctionOnSet, and the function it defines.
Adding(f, S, g) == [s \in SUBSET S |-> IF s = {} THEN 0 ELSE f[Chosen(s)] + g[s \ {Chosen(s)}]]
Sums(f, S) == CHOOSE g : g = Adding(f, S, g)

LEMMA SumIsSums ==
    ASSUME NEW f, NEW S
    PROVE  SumFunctionOnSet(f, S) = Sums(f, S)[S]
BY DEF SumFunctionOnSet, FoldFunctionOnSet, MapThenFoldSet, Sums, Adding, Chosen

\* Two solutions agree on the sets they both sum up.
LEMMA SumsAgree ==
    ASSUME NEW f, NEW S, NEW T, IsFiniteSet(S), NEW g, NEW h,
           g = Adding(f, S, g), h = Adding(f, T, h)
    PROVE  \A s \in (SUBSET S) \cap (SUBSET T) : g[s] = h[s]
<1> DEFINE Bad == {s \in (SUBSET S) \cap (SUBSET T) : g[s] # h[s]}
<1> SUFFICES ASSUME Bad # {} PROVE FALSE
  OBVIOUS
<1>0. Bad \subseteq SUBSET S /\ Bad # {}
  OBVIOUS
<1>1. PICK s \in Bad : \A u \in Bad : u \subseteq s => u = s
  <2> HIDE DEF Bad
  <2> QED
    BY <1>0, SmallestSet
<1>2. /\ g[s] = IF s = {} THEN 0 ELSE f[Chosen(s)] + g[s \ {Chosen(s)}]
      /\ h[s] = IF s = {} THEN 0 ELSE f[Chosen(s)] + h[s \ {Chosen(s)}]
  <2>1. s \in SUBSET S /\ s \in SUBSET T
    BY <1>1
  <2>2. Adding(f, S, g)[s] = IF s = {} THEN 0 ELSE f[Chosen(s)] + g[s \ {Chosen(s)}]
    BY <2>1 DEF Adding
  <2>3. Adding(f, T, h)[s] = IF s = {} THEN 0 ELSE f[Chosen(s)] + h[s \ {Chosen(s)}]
    BY <2>1 DEF Adding
  <2> QED
    BY <2>2, <2>3
<1>3. s # {}
  BY <1>2
<1>4. Chosen(s) \in s
  BY <1>3 DEF Chosen
<1>5. g[s \ {Chosen(s)}] = h[s \ {Chosen(s)}]
  BY <1>1, <1>4
<1> QED
  BY <1>2, <1>3, <1>5

LEMMA SumsExist ==
    ASSUME NEW f, NEW S, IsFiniteSet(S)
    PROVE  Sums(f, S) = Adding(f, S, Sums(f, S))
<1> DEFINE Bad == {T \in SUBSET S : ~\E g : g = Adding(f, T, g)}
<1> SUFFICES ASSUME Bad # {} PROVE FALSE
  <2>1. \E g : g = Adding(f, S, g)
    OBVIOUS
  <2> QED
    BY <2>1 DEF Sums
<1>0. Bad \subseteq SUBSET S /\ Bad # {}
  OBVIOUS
<1>1. PICK T \in Bad : \A U \in Bad : U \subseteq T => U = T
  <2> HIDE DEF Bad
  <2> QED
    BY <1>0, SmallestSet
<1> DEFINE G(U) == Sums(f, U)[U]
           g == [s \in SUBSET T |-> IF s # T THEN G(s)
                                    ELSE IF T = {} THEN 0 ELSE f[Chosen(T)] + G(T \ {Chosen(T)})]
<1>2. \A U \in SUBSET T : U # T => IsFiniteSet(U) /\ Sums(f, U) = Adding(f, U, Sums(f, U))
  <2> SUFFICES ASSUME NEW U \in SUBSET T, U # T
               PROVE  IsFiniteSet(U) /\ \E h : h = Adding(f, U, h)
    BY DEF Sums
  <2>1. U \in SUBSET S /\ U \notin Bad
    BY <1>1
  <2> QED
    BY <2>1, FS_Subset
<1>3. \A s \in SUBSET T : s # {} => Chosen(s) \in s
  BY DEF Chosen
<1>4. ASSUME NEW s \in SUBSET T, s # T, s # {}
      PROVE  G(s) = f[Chosen(s)] + G(s \ {Chosen(s)})
  <2> DEFINE u == s \ {Chosen(s)}
  <2>1. u \in SUBSET T /\ u # T /\ u \in SUBSET s /\ u \in SUBSET u
    BY <1>3, <1>4
  <2>2. Sums(f, s)[u] = Sums(f, u)[u]
    <3>1. Sums(f, s) = Adding(f, s, Sums(f, s)) /\ IsFiniteSet(s)
      BY <1>2, <1>4
    <3>2. Sums(f, u) = Adding(f, u, Sums(f, u))
      BY <1>2, <2>1
    <3>3. \A g1, h1 : g1 = Adding(f, s, g1) /\ h1 = Adding(f, u, h1) =>
              \A t \in (SUBSET s) \cap (SUBSET u) : g1[t] = h1[t]
      BY <3>1, SumsAgree
    <3>4. u \in (SUBSET s) \cap (SUBSET u)
      BY <2>1
    <3> HIDE DEF u
    <3> QED
      BY <3>1, <3>2, <3>3, <3>4
  <2>3. Sums(f, s)[s] = f[Chosen(s)] + Sums(f, s)[u]
    <3>1. Sums(f, s) = Adding(f, s, Sums(f, s))
      BY <1>2, <1>4
    <3>2. Adding(f, s, Sums(f, s))[s] = f[Chosen(s)] + Sums(f, s)[u]
      BY <1>4 DEF Adding
    <3> QED
      BY <3>1, <3>2
  <2> QED
    BY <2>2, <2>3
<1>5. {} # T => G({}) = 0
  <2> SUFFICES ASSUME {} # T PROVE G({}) = 0
    OBVIOUS
  <2>1. Sums(f, {}) = Adding(f, {}, Sums(f, {}))
    BY <1>2
  <2>2. Adding(f, {}, Sums(f, {}))[{}] = 0
    BY DEF Adding
  <2> QED
    BY <2>1, <2>2
<1> HIDE DEF G
<1>6. ASSUME NEW s \in SUBSET T
      PROVE  g[s] = IF s = {} THEN 0 ELSE f[Chosen(s)] + g[s \ {Chosen(s)}]
  <2>1. CASE s = {}
    BY <1>5, <2>1
  <2>2. CASE s # {}
    <3>1. s \ {Chosen(s)} \in SUBSET T /\ s \ {Chosen(s)} # T
      BY <1>3, <2>2
    <3>2. g[s \ {Chosen(s)}] = G(s \ {Chosen(s)})
      BY <3>1
    <3>3. g[s] = f[Chosen(s)] + G(s \ {Chosen(s)})
      BY <1>4, <2>2
    <3> QED
      BY <2>2, <3>2, <3>3
  <2> QED
    BY <2>1, <2>2
<1>7. g = [s \in SUBSET T |-> g[s]]
  OBVIOUS
<1> HIDE DEF g
<1>8. g = Adding(f, T, g)
  BY <1>6, <1>7 DEF Adding
<1> QED
  BY <1>1, <1>8

LEMMA SumOfNone ==
    ASSUME NEW f
    PROVE  SumFunctionOnSet(f, {}) = 0
<1>1. Sums(f, {}) = Adding(f, {}, Sums(f, {}))
  BY SumsExist, FS_EmptySet
<1>2. Adding(f, {}, Sums(f, {}))[{}] = 0
  BY DEF Adding
<1> QED
  BY <1>1, <1>2, SumIsSums

LEMMA SumByChosen ==
    ASSUME NEW f, NEW S, IsFiniteSet(S), S # {}
    PROVE  /\ Chosen(S) \in S
           /\ SumFunctionOnSet(f, S) = f[Chosen(S)] + SumFunctionOnSet(f, S \ {Chosen(S)})
<1> DEFINE u == S \ {Chosen(S)}
<1>1. Chosen(S) \in S
  BY DEF Chosen
<1>2. u \in SUBSET S /\ u \in SUBSET u /\ IsFiniteSet(u)
  BY FS_Subset
<1>3. Sums(f, S) = Adding(f, S, Sums(f, S)) /\ Sums(f, u) = Adding(f, u, Sums(f, u))
  <2> HIDE DEF u
  <2> QED
    BY <1>2, SumsExist
<1>4. Adding(f, S, Sums(f, S))[S] = f[Chosen(S)] + Sums(f, S)[u]
  BY DEF Adding
<1> HIDE DEF u
<1>5. Sums(f, S)[u] = Sums(f, u)[u]
  <2>1. \A g, h : g = Adding(f, S, g) /\ h = Adding(f, u, h) =>
              \A t \in (SUBSET S) \cap (SUBSET u) : g[t] = h[t]
    BY SumsAgree
  <2>2. u \in (SUBSET S) \cap (SUBSET u)
    BY <1>2
  <2> QED
    BY <1>3, <2>1, <2>2
<1>6. SumFunctionOnSet(f, S) = f[Chosen(S)] + SumFunctionOnSet(f, u)
  BY <1>3, <1>4, <1>5, SumIsSums
<1> QED
  BY <1>1, <1>6 DEF u

LEMMA SumIsNat ==
    ASSUME NEW f, NEW S, IsFiniteSet(S), \A x \in S : f[x] \in Nat
    PROVE  SumFunctionOnSet(f, S) \in Nat
<1> DEFINE Bad == {T \in SUBSET S : SumFunctionOnSet(f, T) \notin Nat}
<1> SUFFICES ASSUME Bad # {} PROVE FALSE
  OBVIOUS
<1>0. Bad \subseteq SUBSET S /\ Bad # {}
  OBVIOUS
<1>1. PICK T \in Bad : \A U \in Bad : U \subseteq T => U = T
  <2> HIDE DEF Bad
  <2> QED
    BY <1>0, SmallestSet
<1>2. T # {}
  <2>1. SumFunctionOnSet(f, {}) = 0
    BY SumOfNone
  <2>2. SumFunctionOnSet(f, T) \notin Nat
    BY <1>1
  <2> QED
    BY <2>1, <2>2
<1>3. IsFiniteSet(T)
  BY <1>1, FS_Subset
<1>4. /\ Chosen(T) \in T
      /\ SumFunctionOnSet(f, T) = f[Chosen(T)] + SumFunctionOnSet(f, T \ {Chosen(T)})
  BY <1>2, <1>3, SumByChosen
<1>5. SumFunctionOnSet(f, T \ {Chosen(T)}) \in Nat
  BY <1>1, <1>4
<1> QED
  BY <1>1, <1>4, <1>5

\* Any element may be the one taken apart.
LEMMA SumByAny ==
    ASSUME NEW f, NEW S, IsFiniteSet(S), \A x \in S : f[x] \in Nat, NEW k \in S
    PROVE  SumFunctionOnSet(f, S) = f[k] + SumFunctionOnSet(f, S \ {k})
<1> DEFINE Bad == {T \in SUBSET S : \E i \in T : SumFunctionOnSet(f, T)
                                                 # f[i] + SumFunctionOnSet(f, T \ {i})}
<1> SUFFICES ASSUME Bad # {} PROVE FALSE
  OBVIOUS
<1>0. Bad \subseteq SUBSET S /\ Bad # {}
  OBVIOUS
<1>1. PICK T \in Bad : \A U \in Bad : U \subseteq T => U = T
  <2> HIDE DEF Bad
  <2> QED
    BY <1>0, SmallestSet
<1>2. PICK i \in T : SumFunctionOnSet(f, T) # f[i] + SumFunctionOnSet(f, T \ {i})
  BY <1>1
<1> DEFINE x == Chosen(T)
           both == T \ {x, i}
<1>3. /\ x \in T
      /\ SumFunctionOnSet(f, T) = f[x] + SumFunctionOnSet(f, T \ {x})
      /\ IsFiniteSet(T)
  BY FS_Subset, SumByChosen
<1> HIDE DEF x
<1>4. x # i
  BY <1>2, <1>3
<1>5. T \ {x} \notin Bad /\ T \ {i} \notin Bad
  BY <1>1, <1>3
<1>6. /\ (T \ {x}) \ {i} = both /\ (T \ {i}) \ {x} = both
      /\ i \in T \ {x} /\ x \in T \ {i}
  BY <1>3, <1>4
<1>7. /\ SumFunctionOnSet(f, T \ {x}) = f[i] + SumFunctionOnSet(f, both)
      /\ SumFunctionOnSet(f, T \ {i}) = f[x] + SumFunctionOnSet(f, both)
  <2> HIDE DEF both
  <2> QED
    BY <1>5, <1>6
<1>8. SumFunctionOnSet(f, both) \in Nat /\ f[x] \in Nat /\ f[i] \in Nat
  BY <1>3, FS_Subset, SumIsNat
<1> HIDE DEF both
<1> QED
  BY <1>2, <1>3, <1>7, <1>8

LEMMA SumOfEqual ==
    ASSUME NEW f, NEW g, NEW S, IsFiniteSet(S), \A x \in S : f[x] = g[x]
    PROVE  SumFunctionOnSet(f, S) = SumFunctionOnSet(g, S)
<1> DEFINE Bad == {T \in SUBSET S : SumFunctionOnSet(f, T) # SumFunctionOnSet(g, T)}
<1> SUFFICES ASSUME Bad # {} PROVE FALSE
  OBVIOUS
<1>0. Bad \subseteq SUBSET S /\ Bad # {}
  OBVIOUS
<1>1. PICK T \in Bad : \A U \in Bad : U \subseteq T => U = T
  <2> HIDE DEF Bad
  <2> QED
    BY <1>0, SmallestSet
<1>2. T # {}
  BY <1>1, SumOfNone
<1>3. IsFiniteSet(T)
  BY <1>1, FS_Subset
<1>4. /\ Chosen(T) \in T
      /\ SumFunctionOnSet(f, T) = f[Chosen(T)] + SumFunctionOnSet(f, T \ {Chosen(T)})
      /\ SumFunctionOnSet(g, T) = g[Chosen(T)] + SumFunctionOnSet(g, T \ {Chosen(T)})
  BY <1>2, <1>3, SumByChosen
<1>5. SumFunctionOnSet(f, T \ {Chosen(T)}) = SumFunctionOnSet(g, T \ {Chosen(T)})
  BY <1>1, <1>4
<1> QED
  BY <1>1, <1>4, <1>5

\* A sum changes by what one of its terms changes.
LEMMA SumOfChanged ==
    ASSUME NEW f, NEW g, NEW S, IsFiniteSet(S), NEW k \in S,
           \A x \in S : f[x] \in Nat /\ g[x] \in Nat,
           \A x \in S \ {k} : g[x] = f[x]
    PROVE  SumFunctionOnSet(g, S) = SumFunctionOnSet(f, S) + (g[k] - f[k])
<1>1. /\ SumFunctionOnSet(f, S) = f[k] + SumFunctionOnSet(f, S \ {k})
      /\ SumFunctionOnSet(g, S) = g[k] + SumFunctionOnSet(g, S \ {k})
  BY SumByAny
<1>2. IsFiniteSet(S \ {k})
  BY FS_Subset
<1>3. SumFunctionOnSet(f, S \ {k}) = SumFunctionOnSet(g, S \ {k})
  BY <1>2, SumOfEqual
<1>4. SumFunctionOnSet(f, S \ {k}) \in Nat
  BY <1>2, SumIsNat
<1> QED
  BY <1>1, <1>3, <1>4

\* A sum of smaller terms is smaller.
LEMMA SumOfSmaller ==
    ASSUME NEW f, NEW g, NEW S, IsFiniteSet(S),
           \A x \in S : f[x] \in Nat /\ g[x] \in Nat /\ f[x] <= g[x]
    PROVE  SumFunctionOnSet(f, S) <= SumFunctionOnSet(g, S)
<1> DEFINE Bad == {T \in SUBSET S : ~(SumFunctionOnSet(f, T) <= SumFunctionOnSet(g, T))}
<1> SUFFICES ASSUME Bad # {} PROVE FALSE
  OBVIOUS
<1>0. Bad \subseteq SUBSET S /\ Bad # {}
  OBVIOUS
<1>1. PICK T \in Bad : \A U \in Bad : U \subseteq T => U = T
  <2> HIDE DEF Bad
  <2> QED
    BY <1>0, SmallestSet
<1>2. T # {}
  BY <1>1, SumOfNone
<1>3. IsFiniteSet(T)
  BY <1>1, FS_Subset
<1>4. /\ Chosen(T) \in T
      /\ SumFunctionOnSet(f, T) = f[Chosen(T)] + SumFunctionOnSet(f, T \ {Chosen(T)})
      /\ SumFunctionOnSet(g, T) = g[Chosen(T)] + SumFunctionOnSet(g, T \ {Chosen(T)})
  BY <1>2, <1>3, SumByChosen
<1>5. SumFunctionOnSet(f, T \ {Chosen(T)}) <= SumFunctionOnSet(g, T \ {Chosen(T)})
  BY <1>1, <1>4
<1>6. IsFiniteSet(T \ {Chosen(T)})
  BY <1>3, FS_Subset
<1>7. SumFunctionOnSet(f, T \ {Chosen(T)}) \in Nat /\ SumFunctionOnSet(g, T \ {Chosen(T)}) \in Nat
  <2>1. \A x \in T \ {Chosen(T)} : f[x] \in Nat /\ g[x] \in Nat
    OBVIOUS
  <2> QED
    BY <1>6, <2>1, SumIsNat
<1> QED
  BY <1>1, <1>4, <1>5, <1>7

LEMMA SumOfZeros ==
    ASSUME NEW f, NEW S, IsFiniteSet(S), \A x \in S : f[x] = 0
    PROVE  SumFunctionOnSet(f, S) = 0
<1> DEFINE Bad == {T \in SUBSET S : SumFunctionOnSet(f, T) # 0}
<1> SUFFICES ASSUME Bad # {} PROVE FALSE
  OBVIOUS
<1>0. Bad \subseteq SUBSET S /\ Bad # {}
  OBVIOUS
<1>1. PICK T \in Bad : \A U \in Bad : U \subseteq T => U = T
  <2> HIDE DEF Bad
  <2> QED
    BY <1>0, SmallestSet
<1>2. T # {}
  BY <1>1, SumOfNone
<1>3. IsFiniteSet(T)
  BY <1>1, FS_Subset
<1>4. /\ Chosen(T) \in T
      /\ SumFunctionOnSet(f, T) = f[Chosen(T)] + SumFunctionOnSet(f, T \ {Chosen(T)})
  BY <1>2, <1>3, SumByChosen
<1>5. SumFunctionOnSet(f, T \ {Chosen(T)}) = 0
  BY <1>1, <1>4
<1> QED
  BY <1>1, <1>4, <1>5
=============================================================================
