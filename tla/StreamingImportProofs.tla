------------------------ MODULE StreamingImportProofs ------------------------
(***************************************************************************)
(* Proofs about the import, whatever the sources, the ids that are         *)
(* generated, the limits of the sort and the order base64url gives to the  *)
(* identities.                                                             *)
(*                                                                         *)
(* First externalSortLines: the order of texts and what it is to be        *)
(* rearranged, then lines that move from one place to another (LinesOf),   *)
(* then the runs (RunInv) and the lines in them (SortInv).  What holds at  *)
(* every place of a file is shown for the least place where it would fail  *)
(* (LeastElement).                                                         *)
(*                                                                         *)
(* Then, in this order: the texts of the lines a call spools; what is next *)
(* to what in a file that is in order; what the identity index shows of a  *)
(* source; what is planned; the invariant of a call (CallInv), one lemma   *)
(* for each action; the loop over the two indexes of a replay (JoinInv);   *)
(* and the names of the runs, the files that are open and the workspaces.  *)
(***************************************************************************)
EXTENDS StreamingImport, FiniteSetTheorems, FunctionTheorems, SequenceTheorems,
        WellFoundedInduction, TLAPS

(***************************************************************************)
(* The order of texts.                                                     *)
(***************************************************************************)
(* Texts that the order puts in classes of equals: numbers, and of one     *)
(* length where they begin alike.                                          *)
Comparable(L) ==
  \A a, b \in L :
    /\ a.text \in Seq(Int) /\ Len(a.text) > 0
    /\ a.text[1] = b.text[1] => Len(a.text) = Len(b.text)

(* A set of natural numbers has a least one.                               *)
LEMMA LeastElement ==
  ASSUME NEW T \in SUBSET Nat, T # {}
  PROVE  \E m \in T : \A k \in T : m <= k
<1> DEFINE below(m) == {k \in T : k < m}
           family == {below(m) : m \in T}
<1>0. \A k \in T : k \in Nat
  OBVIOUS
<1>1. ASSUME NEW m \in T PROVE IsFiniteSet(below(m))
  <2>1. \A k \in below(m) : k \in T /\ k < m
    OBVIOUS
  <2> HIDE DEF below
  <2>2. m \in Nat /\ below(m) \subseteq Nat
    BY <1>0, <2>1
  <2>3. \A k \in below(m) : k <= m
    BY <1>0, <2>1, <2>2
  <2> QED BY <2>2, <2>3, FS_BoundedSetOfNaturals
<1>2. family \subseteq FiniteSubsetsOf(Nat) /\ family # {}
  BY <1>1 DEF FiniteSubsetsOf
<1>3. PICK low \in family : \A s \in family : <<s, low>> \notin StrictSubsetOrdering(Nat)
  <2> HIDE DEF family
  <2> QED BY <1>2, FS_StrictSubsetOrderingWellFounded, WFMin
<1>4. PICK m \in T : low = below(m)
  OBVIOUS
<1>5. ASSUME NEW k \in T PROVE m <= k
  <2> SUFFICES ASSUME k < m PROVE FALSE
    OBVIOUS
  <2>1. below(k) \subseteq below(m) /\ k \in below(m) /\ k \notin below(k)
    <3>1. \A j \in T : j < k => j < m
      BY <1>0
    <3>2. ~(k < k)
      BY <1>0
    <3> QED BY <3>1, <3>2
  <2>2. <<below(k), below(m)>> \in StrictSubsetOrdering(Nat)
    BY <2>1 DEF StrictSubsetOrdering
  <2> QED BY <1>3, <1>4, <2>2
<1> QED BY <1>5

(* Of two texts one is not before the other.                               *)
LEMMA BeforeIsOneWay ==
  ASSUME NEW a, NEW b, a.text \in Seq(Int), b.text \in Seq(Int), Before(a, b)
  PROVE  ~Before(b, a)
<1> SUFFICES ASSUME Before(b, a) PROVE FALSE
  OBVIOUS
<1>1. /\ DOMAIN a.text = 1 .. Len(a.text) /\ DOMAIN b.text = 1 .. Len(b.text)
      /\ Len(a.text) \in Nat /\ Len(b.text) \in Nat
      /\ \A i \in DOMAIN a.text : a.text[i] \in Int
      /\ \A i \in DOMAIN b.text : b.text[i] \in Int
  OBVIOUS
<1>2. PICK i \in DOMAIN a.text \cap DOMAIN b.text :
        a.text[i] < b.text[i] /\ \A j \in 1 .. i - 1 : a.text[j] = b.text[j]
  BY DEF Before
<1>3. PICK k \in DOMAIN a.text \cap DOMAIN b.text :
        b.text[k] < a.text[k] /\ \A j \in 1 .. k - 1 : b.text[j] = a.text[j]
  BY DEF Before
<1>a. /\ i \in DOMAIN a.text /\ i \in DOMAIN b.text /\ k \in DOMAIN a.text /\ k \in DOMAIN b.text
  OBVIOUS
<1>b. a.text[i] \in Int /\ a.text[k] \in Int /\ b.text[i] \in Int /\ b.text[k] \in Int
  BY <1>1, <1>a
<1>c. i \in Nat \ {0} /\ k \in Nat \ {0}
  BY <1>1, <1>a
<1>4. /\ i \in Nat \ {0} /\ k \in Nat \ {0}
      /\ a.text[i] \in Int /\ a.text[k] \in Int /\ b.text[i] \in Int /\ b.text[k] \in Int
  BY <1>b, <1>c
<1>5. ~(i < k)
  <2> SUFFICES ASSUME i < k PROVE FALSE
    OBVIOUS
  <2>1. i \in 1 .. k - 1
    BY <1>4
  <2>2. b.text[i] = a.text[i]
    BY <1>3, <2>1
  <2> QED BY <1>2, <1>4, <2>2
<1>6. ~(k < i)
  <2> SUFFICES ASSUME k < i PROVE FALSE
    OBVIOUS
  <2>1. k \in 1 .. i - 1
    BY <1>4
  <2>2. b.text[k] = a.text[k]
    BY <1>2, <2>1
  <2> QED BY <1>3, <1>4, <2>2
<1>7. i = k
  BY <1>4, <1>5, <1>6
<1> QED BY <1>2, <1>3, <1>4, <1>7

LEMMA BeforeAt ==
  ASSUME NEW a, NEW b, a.text \in Seq(Int), b.text \in Seq(Int),
         NEW i \in Nat \ {0}, i <= Len(a.text), i <= Len(b.text),
         a.text[i] < b.text[i], \A j \in 1 .. i - 1 : a.text[j] = b.text[j]
  PROVE  Before(a, b)
<1>1. i \in DOMAIN a.text \cap DOMAIN b.text
  OBVIOUS
<1> QED BY <1>1 DEF Before

(* What is not before a text that is not before another is not before      *)
(* that one.                                                               *)
LEMMA NotBeforeIsTransitive ==
  ASSUME NEW L, Comparable(L), NEW a \in L, NEW b \in L, NEW c \in L,
         ~Before(b, a), ~Before(c, b)
  PROVE  ~Before(c, a)
<1> SUFFICES ASSUME Before(c, a) PROVE FALSE
  OBVIOUS
<1> DEFINE s == a.text t == b.text u == c.text
<1>1. /\ s \in Seq(Int) /\ t \in Seq(Int) /\ u \in Seq(Int)
      /\ Len(s) > 0 /\ Len(t) > 0 /\ Len(u) > 0
      /\ s[1] = t[1] => Len(s) = Len(t)
  BY DEF Comparable
<1>2. /\ DOMAIN s = 1 .. Len(s) /\ DOMAIN t = 1 .. Len(t) /\ DOMAIN u = 1 .. Len(u)
      /\ Len(s) \in Nat /\ Len(t) \in Nat /\ Len(u) \in Nat
      /\ \A i \in 1 .. Len(s) : s[i] \in Int
      /\ \A i \in 1 .. Len(t) : t[i] \in Int
      /\ \A i \in 1 .. Len(u) : u[i] \in Int
  BY <1>1
<1>3. PICK i \in DOMAIN u \cap DOMAIN s : u[i] < s[i] /\ \A j \in 1 .. i - 1 : u[j] = s[j]
  BY DEF Before
<1>4. u[1] <= s[1]
  BY <1>2, <1>3
<1>5. s[1] = t[1]
  <2>1. ~(t[1] < s[1])
    <3> SUFFICES ASSUME t[1] < s[1] PROVE Before(b, a)
      OBVIOUS
    <3> QED BY <1>1, <1>2, BeforeAt
  <2>2. ~(u[1] < t[1])
    <3> SUFFICES ASSUME u[1] < t[1] PROVE Before(c, b)
      OBVIOUS
    <3> QED BY <1>1, <1>2, BeforeAt
  <2>a. \A n \in Nat : n > 0 => 1 \in 1 .. n
    OBVIOUS
  <2>3. 1 \in 1 .. Len(s) /\ 1 \in 1 .. Len(t) /\ 1 \in 1 .. Len(u)
    BY <1>1, <1>2, <2>a
  <2>4. s[1] \in Int /\ t[1] \in Int /\ u[1] \in Int
    BY <1>2, <2>3
  <2> QED BY <1>4, <2>1, <2>2, <2>4
<1>6. i \in 1 .. Len(t)
  BY <1>1, <1>2, <1>3, <1>5
<1> DEFINE Differ == {k \in 1 .. i : t[k] # s[k] \/ t[k] # u[k]}
<1>7. PICK k \in Differ : \A j \in Differ : k <= j
  <2>1. i \in Differ
    BY <1>2, <1>3, <1>6
  <2>2. Differ \subseteq Nat
    BY <1>2, <1>3
  <2> QED BY <2>1, <2>2, LeastElement
<1>8. /\ k \in Nat \ {0} /\ k <= i /\ i <= Len(s) /\ i <= Len(t) /\ i <= Len(u)
      /\ i \in Nat /\ k <= Len(s) /\ k <= Len(t) /\ k <= Len(u)
  BY <1>2, <1>3, <1>6
<1>9. ASSUME NEW j \in 1 .. k - 1 PROVE t[j] = s[j] /\ t[j] = u[j] /\ u[j] = s[j]
  <2>1. j \in 1 .. i /\ ~(k <= j)
    BY <1>8
  <2>2. j \notin Differ
    BY <1>7, <2>1
  <2> QED BY <2>1, <2>2
<1>10. s[k] \in Int /\ t[k] \in Int /\ u[k] \in Int
  BY <1>2, <1>8
<1>11. ~(t[k] < s[k])
  <2> SUFFICES ASSUME t[k] < s[k] PROVE Before(b, a)
    OBVIOUS
  <2> QED BY <1>1, <1>8, <1>9, BeforeAt
<1>12. ~(u[k] < t[k])
  <2> SUFFICES ASSUME u[k] < t[k] PROVE Before(c, b)
    OBVIOUS
  <2> QED BY <1>1, <1>8, <1>9, BeforeAt
<1>13. CASE k = i
  BY <1>3, <1>10, <1>11, <1>12, <1>13
<1>14. CASE k # i
  <2>1. k \in 1 .. i - 1
    BY <1>8, <1>14
  <2>2. u[k] = s[k]
    BY <1>3, <2>1
  <2> QED BY <1>7, <1>10, <1>11, <1>12, <2>2
<1> QED BY <1>13, <1>14

(***************************************************************************)
(* Rearrangements.                                                         *)
(***************************************************************************)
(* Two sequences, or functions, of the same values, each as often.         *)
Rearranged(f, g) ==
  \E p \in Bijection(DOMAIN f, DOMAIN g) : \A x \in DOMAIN f : g[p[x]] = f[x]

LEMMA RearrangedIsReflexive ==
  ASSUME NEW f
  PROVE  Rearranged(f, f)
<1> DEFINE p == [x \in DOMAIN f |-> x]
<1>1. p \in Bijection(DOMAIN f, DOMAIN f)
  BY Fun_IsBij
<1> QED BY <1>1 DEF Rearranged

LEMMA RearrangedIsTransitive ==
  ASSUME NEW f, NEW g, NEW h, Rearranged(f, g), Rearranged(g, h)
  PROVE  Rearranged(f, h)
<1>1. PICK p \in Bijection(DOMAIN f, DOMAIN g) : \A x \in DOMAIN f : g[p[x]] = f[x]
  BY DEF Rearranged
<1>2. PICK q \in Bijection(DOMAIN g, DOMAIN h) : \A x \in DOMAIN g : h[q[x]] = g[x]
  BY DEF Rearranged
<1> DEFINE r == [x \in DOMAIN f |-> q[p[x]]]
<1>3. r \in Bijection(DOMAIN f, DOMAIN h)
  BY Fun_BijTransitive
<1>4. p \in [DOMAIN f -> DOMAIN g]
  BY Fun_BijectionProperties
<1>5. \A x \in DOMAIN f : h[r[x]] = f[x]
  BY <1>1, <1>2, <1>4
<1> QED BY <1>3, <1>5 DEF Rearranged

LEMMA RearrangedIsSymmetric ==
  ASSUME NEW f, NEW g, Rearranged(f, g)
  PROVE  Rearranged(g, f)
<1>1. PICK p \in Bijection(DOMAIN f, DOMAIN g) : \A x \in DOMAIN f : g[p[x]] = f[x]
  BY DEF Rearranged
<1> DEFINE q == Inverse(p, DOMAIN f, DOMAIN g)
<1>2. q \in Bijection(DOMAIN g, DOMAIN f) /\ \A x \in DOMAIN f : q[p[x]] = x
  BY Fun_BijInverse
<1>3. p \in [DOMAIN f -> DOMAIN g] /\ \A y \in DOMAIN g : \E x \in DOMAIN f : p[x] = y
  BY Fun_BijectionProperties
<1>4. \A y \in DOMAIN g : f[q[y]] = g[y]
  BY <1>1, <1>2, <1>3
<1> QED BY <1>2, <1>4 DEF Rearranged

(* One value more on both sides.                                           *)
OneMore(ff, f, x) ==
  /\ x \notin DOMAIN f /\ DOMAIN ff = DOMAIN f \union {x}
  /\ \A z \in DOMAIN f : ff[z] = f[z]

LEMMA RearrangedWithOneMore ==
  ASSUME NEW f, NEW g, Rearranged(f, g), NEW x, NEW y,
         NEW ff, OneMore(ff, f, x), NEW gg, OneMore(gg, g, y), ff[x] = gg[y]
  PROVE  Rearranged(ff, gg)
<1> USE DEF OneMore
<1>1. PICK p \in Bijection(DOMAIN f, DOMAIN g) : \A z \in DOMAIN f : g[p[z]] = f[z]
  BY DEF Rearranged
<1>2. /\ p \in [DOMAIN f -> DOMAIN g]
      /\ \A a, b \in DOMAIN f : p[a] = p[b] => a = b
      /\ \A t \in DOMAIN g : \E s \in DOMAIN f : p[s] = t
  BY Fun_BijectionProperties
<1> DEFINE q == [z \in DOMAIN ff |-> IF z = x THEN y ELSE p[z]]
<1>3. q \in [DOMAIN ff -> DOMAIN gg]
  BY <1>2
<1>4. \A a, b \in DOMAIN ff : q[a] = q[b] => a = b
  BY <1>2
<1>5. \A t \in DOMAIN gg : \E s \in DOMAIN ff : q[s] = t
  BY <1>2
<1>6. q \in Bijection(DOMAIN ff, DOMAIN gg)
  BY <1>3, <1>4, <1>5, Fun_IsBij
<1>7. \A z \in DOMAIN ff : gg[q[z]] = ff[z]
  BY <1>1, <1>2
<1> QED BY <1>6, <1>7 DEF Rearranged

(* Rearranged sequences have the same length, each value as often.         *)
LEMMA RearrangedCounts ==
  ASSUME NEW S, NEW s \in Seq(S), NEW T, NEW t \in Seq(T), Rearranged(s, t)
  PROVE  Len(s) = Len(t) /\ \A line : Times(s, line) = Times(t, line)
<1>0. /\ DOMAIN s = 1 .. Len(s) /\ DOMAIN t = 1 .. Len(t) /\ Len(s) \in Nat /\ Len(t) \in Nat
      /\ IsFiniteSet(DOMAIN s) /\ Cardinality(DOMAIN s) = Len(s)
      /\ Cardinality(DOMAIN t) = Len(t)
  <2>1. DOMAIN s = 1 .. Len(s) /\ DOMAIN t = 1 .. Len(t) /\ Len(s) \in Nat /\ Len(t) \in Nat
    OBVIOUS
  <2>2. \A n \in Nat : IsFiniteSet(1 .. n) /\ Cardinality(1 .. n) = n
    BY FS_Interval
  <2> QED BY <2>1, <2>2
<1>1. PICK p \in Bijection(DOMAIN s, DOMAIN t) : \A x \in DOMAIN s : t[p[x]] = s[x]
  BY DEF Rearranged
<1>2. Len(s) = Len(t)
  BY <1>0, <1>1, FS_Bijection, Fun_ExistsBij
<1>3. ASSUME NEW line PROVE Times(s, line) = Times(t, line)
  <2> DEFINE A == {i \in DOMAIN s : s[i] = line} B == {i \in DOMAIN t : t[i] = line}
             q == [i \in A |-> p[i]]
  <2>1. IsFiniteSet(A)
    BY <1>0, FS_Subset
  <2>2. /\ p \in [DOMAIN s -> DOMAIN t]
        /\ \A a, b \in DOMAIN s : p[a] = p[b] => a = b
        /\ \A y \in DOMAIN t : \E x \in DOMAIN s : p[x] = y
    BY Fun_BijectionProperties
  <2>3. q \in [A -> B] /\ (\A a, b \in A : q[a] = q[b] => a = b)
        /\ (\A y \in B : \E x \in A : q[x] = y)
    BY <1>1, <2>2
  <2>4. q \in Bijection(A, B)
    BY <2>3, Fun_IsBij
  <2>5. Cardinality(B) = Cardinality(A)
    BY <2>1, <2>4, FS_Bijection, Fun_ExistsBij
  <2> QED BY <2>5 DEF Times
<1> QED BY <1>2, <1>3

(***************************************************************************)
(* Sorting in memory.                                                      *)
(***************************************************************************)
Precedes(s, j, i) == Before(s[j], s[i]) \/ (j <= i /\ ~Before(s[i], s[j]))

LEMMA PrecedesIsAnOrder ==
  ASSUME NEW L, Comparable(L), NEW s \in Seq(L)
  PROVE  /\ \A i \in DOMAIN s : Precedes(s, i, i)
         /\ \A i, j \in DOMAIN s : Precedes(s, i, j) \/ Precedes(s, j, i)
         /\ \A i, j \in DOMAIN s : Precedes(s, i, j) /\ Precedes(s, j, i) => i = j
         /\ \A i, j, k \in DOMAIN s :
              Precedes(s, i, j) /\ Precedes(s, j, k) => Precedes(s, i, k)
<1>1. /\ DOMAIN s \subseteq Nat
      /\ \A i \in DOMAIN s : s[i] \in L /\ s[i].text \in Seq(Int)
  BY DEF Comparable
<1>2. \A i, j \in DOMAIN s : Before(s[i], s[j]) => ~Before(s[j], s[i])
  BY <1>1, BeforeIsOneWay
<1>3. \A i, j, k \in DOMAIN s :
        ~Before(s[j], s[i]) /\ ~Before(s[k], s[j]) => ~Before(s[k], s[i])
  BY <1>1, NotBeforeIsTransitive
<1>4. \A i \in DOMAIN s : Precedes(s, i, i)
  BY <1>1, <1>2 DEF Precedes
<1>5. \A i, j \in DOMAIN s : Precedes(s, i, j) \/ Precedes(s, j, i)
  BY <1>1, <1>2 DEF Precedes
<1>6. \A i, j \in DOMAIN s : Precedes(s, i, j) /\ Precedes(s, j, i) => i = j
  BY <1>1, <1>2 DEF Precedes
<1>7. ASSUME NEW i \in DOMAIN s, NEW j \in DOMAIN s, NEW k \in DOMAIN s,
             Precedes(s, i, j), Precedes(s, j, k)
      PROVE  Precedes(s, i, k)
  <2>1. ~Before(s[j], s[i]) /\ ~Before(s[k], s[j])
    BY <1>2, <1>7 DEF Precedes
  <2>2. ~Before(s[k], s[i])
    BY <1>3, <2>1
  <2>3. CASE Before(s[i], s[j]) \/ Before(s[j], s[k])
    <3>1. Before(s[i], s[k])
      BY <1>3, <2>1, <2>3
    <3> QED BY <3>1 DEF Precedes
  <2>4. CASE i <= j /\ j <= k
    BY <1>1, <2>2, <2>4 DEF Precedes
  <2> QED BY <1>7, <2>3, <2>4 DEF Precedes
<1> QED BY <1>4, <1>5, <1>6, <1>7

(* The places of the lines are those of a sequence, each taken once; and   *)
(* they go with the order.                                                 *)
LEMMA PlacesAreTakenOnce ==
  ASSUME NEW L, Comparable(L), NEW s \in Seq(L)
  PROVE  /\ [i \in DOMAIN s |-> Place(s, i)] \in Bijection(DOMAIN s, DOMAIN s)
         /\ \A i, j \in DOMAIN s : Place(s, i) < Place(s, j) => ~Before(s[j], s[i])
<1> DEFINE Down(i) == {j \in DOMAIN s : Precedes(s, j, i)}
           place == [i \in DOMAIN s |-> Place(s, i)]
<1>0. /\ DOMAIN s = 1 .. Len(s) /\ Len(s) \in Nat
      /\ IsFiniteSet(DOMAIN s) /\ Cardinality(DOMAIN s) = Len(s)
  <2>1. DOMAIN s = 1 .. Len(s) /\ Len(s) \in Nat
    OBVIOUS
  <2> QED BY <2>1, FS_Interval
<1>1. ASSUME NEW i \in DOMAIN s
      PROVE  Place(s, i) = Cardinality(Down(i))
  BY DEF Place, Precedes
<1>2. ASSUME NEW i \in DOMAIN s
      PROVE  /\ IsFiniteSet(Down(i)) /\ Cardinality(Down(i)) \in Nat
             /\ Cardinality(Down(i)) <= Len(s)
  <2>1. Down(i) \in SUBSET DOMAIN s
    OBVIOUS
  <2>2. IsFiniteSet(Down(i)) /\ Cardinality(Down(i)) <= Cardinality(DOMAIN s)
    BY <1>0, <2>1, FS_Subset
  <2> QED BY <1>0, <2>2, FS_CardinalityType
<1>3. ASSUME NEW i \in DOMAIN s
      PROVE  Place(s, i) \in DOMAIN s
  <2>1. i \in Down(i)
    BY PrecedesIsAnOrder
  <2>2. Cardinality(Down(i)) # 0
    BY <1>2, <2>1, FS_EmptySet
  <2> HIDE DEF Down
  <2>3. Place(s, i) \in Nat /\ Place(s, i) # 0 /\ Place(s, i) <= Len(s)
    BY <1>1, <1>2, <2>2
  <2> QED BY <1>0, <2>3
<1>4. ASSUME NEW i \in DOMAIN s, NEW j \in DOMAIN s, Precedes(s, i, j), i # j
      PROVE  Place(s, i) < Place(s, j)
  <2>1. Down(i) \in SUBSET Down(j)
    BY <1>4, PrecedesIsAnOrder
  <2>2. j \in Down(j) /\ j \notin Down(i)
    BY <1>4, PrecedesIsAnOrder
  <2>3. /\ Cardinality(Down(i)) <= Cardinality(Down(j))
        /\ Cardinality(Down(j)) = Cardinality(Down(i)) => Down(j) = Down(i)
    BY <1>2, <2>1, FS_Subset
  <2>4. Cardinality(Down(j)) # Cardinality(Down(i))
    BY <2>2, <2>3
  <2> HIDE DEF Down
  <2> QED BY <1>1, <1>2, <2>3, <2>4
<1>5. place \in [DOMAIN s -> DOMAIN s]
  BY <1>3
<1>6. \A i, j \in DOMAIN s : place[i] = place[j] => i = j
  <2> SUFFICES ASSUME NEW i \in DOMAIN s, NEW j \in DOMAIN s, i # j
               PROVE  Place(s, i) # Place(s, j)
    OBVIOUS
  <2>1. Place(s, i) \in Nat /\ Place(s, j) \in Nat
    BY <1>0, <1>3
  <2>2. Precedes(s, i, j) \/ Precedes(s, j, i)
    BY PrecedesIsAnOrder
  <2> QED BY <1>4, <2>1, <2>2
<1>7. place \in Injection(DOMAIN s, DOMAIN s)
  BY <1>5, <1>6, Fun_IsInj
<1>8. place \in Surjection(DOMAIN s, DOMAIN s)
  BY <1>0, <1>7, FS_Injection
<1>9. place \in Bijection(DOMAIN s, DOMAIN s)
  BY <1>7, <1>8 DEF Bijection
<1>10. ASSUME NEW i \in DOMAIN s, NEW j \in DOMAIN s, Place(s, i) < Place(s, j), Before(s[j], s[i])
       PROVE  FALSE
  <2>1. Precedes(s, j, i) /\ i # j
    BY <1>0, <1>3, <1>10 DEF Precedes
  <2>2. Place(s, j) < Place(s, i)
    BY <1>4, <2>1
  <2> QED BY <1>0, <1>3, <1>10, <2>2
<1> QED BY <1>9, <1>10

(* A run that was sorted in memory has the lines that were collected, in   *)
(* order.                                                                  *)
LEMMA SortsInMemory ==
  ASSUME NEW L, Comparable(L), NEW s \in Seq(L)
  PROVE  /\ InMemory(s) \in Seq(L) /\ Len(InMemory(s)) = Len(s)
         /\ InOrder(InMemory(s))
         /\ Rearranged(s, InMemory(s))
<1> DEFINE place == [i \in DOMAIN s |-> Place(s, i)]
           at(k) == CHOOSE i \in DOMAIN s : Place(s, i) = k
<1>0. /\ DOMAIN s = 1 .. Len(s) /\ Len(s) \in Nat /\ \A i \in DOMAIN s : s[i] \in L
  OBVIOUS
<1>1. /\ place \in Bijection(DOMAIN s, DOMAIN s)
      /\ \A i, j \in DOMAIN s : Place(s, i) < Place(s, j) => ~Before(s[j], s[i])
  BY PlacesAreTakenOnce
<1>2. /\ place \in [DOMAIN s -> DOMAIN s]
      /\ \A i, j \in DOMAIN s : place[i] = place[j] => i = j
      /\ \A k \in DOMAIN s : \E i \in DOMAIN s : place[i] = k
  <2> HIDE DEF place
  <2> QED BY <1>1, Fun_BijectionProperties
<1>3. \A k \in DOMAIN s : at(k) \in DOMAIN s /\ Place(s, at(k)) = k
  BY <1>2
<1>4. \A i \in DOMAIN s : at(Place(s, i)) = i
  BY <1>2, <1>3
<1> HIDE DEF at
<1>5. InMemory(s) = [k \in DOMAIN s |-> s[at(k)]]
  BY DEF InMemory, at
<1>6. InMemory(s) \in [1 .. Len(s) -> L]
  BY <1>0, <1>3, <1>5
<1>7. InMemory(s) \in Seq(L) /\ Len(InMemory(s)) = Len(s)
  BY <1>0, <1>6
<1>8. ASSUME NEW k \in 1 .. Len(InMemory(s)) - 1
      PROVE  ~Before(InMemory(s)[k + 1], InMemory(s)[k])
  <2>1. k \in DOMAIN s /\ k + 1 \in DOMAIN s /\ k < k + 1
    BY <1>0, <1>7
  <2>2. ~Before(s[at(k + 1)], s[at(k)])
    BY <1>1, <1>3, <2>1
  <2> QED BY <1>5, <2>1, <2>2
<1>9. Rearranged(s, InMemory(s))
  <2>1. \A i \in DOMAIN s : InMemory(s)[place[i]] = s[i]
    BY <1>2, <1>4, <1>5
  <2> QED BY <1>1, <1>5, <2>1 DEF Rearranged
<1> QED BY <1>7, <1>8, <1>9 DEF InOrder

(***************************************************************************)
(* Places where lines are kept.                                            *)
(***************************************************************************)
(* The lines of a function of places to sequences, by place and number.    *)
Slots(F) == UNION {{<<c, k>> : k \in DOMAIN F[c]} : c \in DOMAIN F}
LinesOf(F) == [slot \in Slots(F) |-> F[slot[1]][slot[2]]]

LEMMA SlotFacts ==
  ASSUME NEW F
  PROVE  /\ \A c \in DOMAIN F : \A k \in DOMAIN F[c] :
              <<c, k>> \in Slots(F) /\ LinesOf(F)[<<c, k>>] = F[c][k]
         /\ \A slot \in Slots(F) :
              /\ slot = <<slot[1], slot[2]>>
              /\ slot[1] \in DOMAIN F /\ slot[2] \in DOMAIN F[slot[1]]
         /\ DOMAIN LinesOf(F) = Slots(F)
BY DEF Slots, LinesOf

(* Places are renamed, their contents rearranged, and empty ones are added.*)
LEMMA PlacesRenamed ==
  ASSUME NEW F, NEW G, NEW r \in [DOMAIN F -> DOMAIN G],
         \A c, d \in DOMAIN F : r[c] = r[d] => c = d,
         \A c \in DOMAIN F : Rearranged(F[c], G[r[c]]),
         \A d \in DOMAIN G : (\A c \in DOMAIN F : r[c] # d) => DOMAIN G[d] = {}
  PROVE  Rearranged(LinesOf(F), LinesOf(G))
<1> DEFINE Q(c) == CHOOSE q \in Bijection(DOMAIN F[c], DOMAIN G[r[c]]) :
                     \A k \in DOMAIN F[c] : G[r[c]][q[k]] = F[c][k]
<1>1. ASSUME NEW c \in DOMAIN F
      PROVE  /\ Q(c) \in Bijection(DOMAIN F[c], DOMAIN G[r[c]])
             /\ \A k \in DOMAIN F[c] : G[r[c]][Q(c)[k]] = F[c][k]
  BY DEF Rearranged
<1>2. ASSUME NEW c \in DOMAIN F
      PROVE  /\ \A k \in DOMAIN F[c] : Q(c)[k] \in DOMAIN G[r[c]]
             /\ \A k, l \in DOMAIN F[c] : Q(c)[k] = Q(c)[l] => k = l
             /\ \A m \in DOMAIN G[r[c]] : \E k \in DOMAIN F[c] : Q(c)[k] = m
  <2> HIDE DEF Q
  <2>1. Q(c) \in Bijection(DOMAIN F[c], DOMAIN G[r[c]])
    BY <1>1
  <2>2. Q(c) \in [DOMAIN F[c] -> DOMAIN G[r[c]]]
    BY <2>1, Fun_BijectionProperties
  <2> QED BY <2>1, <2>2, Fun_BijectionProperties
<1> HIDE DEF Q
<1> DEFINE p == [slot \in Slots(F) |-> <<r[slot[1]], Q(slot[1])[slot[2]]>>]
<1>3. ASSUME NEW slot \in Slots(F)
      PROVE  p[slot] \in Slots(G) /\ LinesOf(G)[p[slot]] = LinesOf(F)[slot]
  <2>1. slot[1] \in DOMAIN F /\ slot[2] \in DOMAIN F[slot[1]]
    BY SlotFacts
  <2>2. /\ r[slot[1]] \in DOMAIN G /\ Q(slot[1])[slot[2]] \in DOMAIN G[r[slot[1]]]
        /\ G[r[slot[1]]][Q(slot[1])[slot[2]]] = F[slot[1]][slot[2]]
    BY <1>1, <1>2, <2>1
  <2> QED BY <2>1, <2>2, SlotFacts DEF LinesOf
<1>4. p \in [Slots(F) -> Slots(G)]
  BY <1>3
<1>5. ASSUME NEW a \in Slots(F), NEW b \in Slots(F), p[a] = p[b]
      PROVE  a = b
  <2>1. /\ a[1] \in DOMAIN F /\ a[2] \in DOMAIN F[a[1]] /\ a = <<a[1], a[2]>>
        /\ b[1] \in DOMAIN F /\ b[2] \in DOMAIN F[b[1]] /\ b = <<b[1], b[2]>>
    BY SlotFacts
  <2>2. r[a[1]] = r[b[1]] /\ Q(a[1])[a[2]] = Q(b[1])[b[2]]
    BY <1>5
  <2>3. a[1] = b[1]
    BY <2>1, <2>2
  <2> QED BY <1>2, <2>1, <2>2, <2>3
<1>6. ASSUME NEW slot \in Slots(G)
      PROVE  \E a \in Slots(F) : p[a] = slot
  <2>1. /\ slot[1] \in DOMAIN G /\ slot[2] \in DOMAIN G[slot[1]] /\ slot = <<slot[1], slot[2]>>
    BY SlotFacts
  <2>2. PICK c \in DOMAIN F : r[c] = slot[1]
    BY <2>1
  <2>3. PICK k \in DOMAIN F[c] : Q(c)[k] = slot[2]
    BY <1>2, <2>1, <2>2
  <2>4. <<c, k>> \in Slots(F)
    BY <2>2, <2>3, SlotFacts
  <2>5. p[<<c, k>>] = slot
    BY <2>1, <2>2, <2>3, <2>4
  <2> QED BY <2>4, <2>5
<1>7. p \in Bijection(Slots(F), Slots(G))
  BY <1>4, <1>5, <1>6, Fun_IsBij
<1> QED BY <1>3, <1>7, SlotFacts DEF Rearranged

(* The first line of one place goes to the end of another.                 *)
LEMMA LineMoved ==
  ASSUME NEW S, NEW F, \A c \in DOMAIN F : F[c] \in Seq(S),
         NEW from \in DOMAIN F, NEW to \in DOMAIN F, from # to, F[from] # <<>>,
         NEW G, DOMAIN G = DOMAIN F, G[from] = Tail(F[from]),
         G[to] = Append(F[to], Head(F[from])),
         \A c \in DOMAIN F \ {from, to} : G[c] = F[c]
  PROVE  Rearranged(LinesOf(F), LinesOf(G))
<1> DEFINE m == Len(F[to]) n == Len(F[from])
           p == [slot \in Slots(F) |->
                   IF slot = <<from, 1>> THEN <<to, m + 1>>
                   ELSE IF slot[1] = from THEN <<from, slot[2] - 1>> ELSE slot]
<1>1. /\ \A c \in DOMAIN F : DOMAIN F[c] = 1 .. Len(F[c]) /\ Len(F[c]) \in Nat
      /\ m \in Nat /\ n \in Nat /\ n > 0
  <2>1. \A c \in DOMAIN F : DOMAIN F[c] = 1 .. Len(F[c]) /\ Len(F[c]) \in Nat
    OBVIOUS
  <2>2. n > 0
    BY EmptySeq
  <2> QED BY <2>1, <2>2
<1>2. /\ DOMAIN G[from] = 1 .. n - 1
      /\ \A k \in 1 .. n - 1 : G[from][k] = F[from][k + 1]
  <2>1. /\ Tail(F[from]) \in Seq(S) /\ Len(Tail(F[from])) = n - 1
        /\ \A k \in 1 .. Len(Tail(F[from])) : Tail(F[from])[k] = F[from][k + 1]
    BY HeadTailProperties
  <2> QED BY <2>1
<1>3. /\ DOMAIN G[to] = 1 .. m + 1
      /\ \A k \in 1 .. m : G[to][k] = F[to][k]
      /\ G[to][m + 1] = F[from][1]
  <2>1. Head(F[from]) = F[from][1] /\ Head(F[from]) \in S
    BY HeadTailProperties
  <2>2. /\ Append(F[to], Head(F[from])) \in Seq(S)
        /\ Len(Append(F[to], Head(F[from]))) = m + 1
        /\ \A k \in 1 .. m : Append(F[to], Head(F[from]))[k] = F[to][k]
        /\ Append(F[to], Head(F[from]))[m + 1] = Head(F[from])
    BY <2>1, AppendProperties
  <2> QED BY <2>1, <2>2
<1> HIDE DEF m, n
<1>4. ASSUME NEW slot \in Slots(F)
      PROVE  p[slot] \in Slots(G) /\ LinesOf(G)[p[slot]] = LinesOf(F)[slot]
  <2>1. slot[1] \in DOMAIN F /\ slot[2] \in DOMAIN F[slot[1]] /\ slot = <<slot[1], slot[2]>>
    BY SlotFacts
  <2>2. LinesOf(F)[slot] = F[slot[1]][slot[2]]
    BY DEF LinesOf
  <2>3. CASE slot = <<from, 1>>
    <3>1. p[slot] = <<to, m + 1>> /\ m + 1 \in DOMAIN G[to]
      BY <1>1, <1>3, <2>3
    <3> QED BY <1>3, <2>2, <2>3, <3>1, SlotFacts
  <2>4. CASE slot # <<from, 1>> /\ slot[1] = from
    <3>1. slot[2] \in 1 .. n /\ slot[2] # 1
      BY <1>1, <2>1, <2>4 DEF n
    <3>2. /\ p[slot] = <<from, slot[2] - 1>> /\ slot[2] - 1 \in 1 .. n - 1
          /\ slot[2] - 1 + 1 = slot[2]
      BY <1>1, <2>4, <3>1
    <3>3. G[from][slot[2] - 1] = F[from][slot[2]]
      BY <1>2, <3>2
    <3> QED BY <1>2, <2>2, <2>4, <3>2, <3>3, SlotFacts
  <2>5. CASE slot[1] = to
    <3>1. p[slot] = slot /\ slot[2] \in 1 .. m
      BY <1>1, <2>1, <2>5 DEF m
    <3>2. slot[2] \in DOMAIN G[to] /\ G[to][slot[2]] = F[to][slot[2]]
      BY <1>1, <1>3, <3>1
    <3> QED BY <2>1, <2>2, <2>5, <3>1, <3>2, SlotFacts
  <2>6. CASE slot[1] \notin {from, to}
    <3>1. p[slot] = slot /\ G[slot[1]] = F[slot[1]]
      BY <2>1, <2>6
    <3> QED BY <2>1, <2>2, <3>1, SlotFacts
  <2> QED BY <2>3, <2>4, <2>5, <2>6
<1>5. p \in [Slots(F) -> Slots(G)]
  BY <1>4
<1>6. ASSUME NEW a \in Slots(F), NEW b \in Slots(F), p[a] = p[b]
      PROVE  a = b
  <2>1. /\ a[1] \in DOMAIN F /\ a[2] \in 1 .. Len(F[a[1]]) /\ a = <<a[1], a[2]>>
        /\ b[1] \in DOMAIN F /\ b[2] \in 1 .. Len(F[b[1]]) /\ b = <<b[1], b[2]>>
    BY <1>1, SlotFacts
  <2>2. ASSUME NEW slot \in {a, b}
        PROVE  /\ slot = <<from, 1>> => p[slot] = <<to, m + 1>>
               /\ slot # <<from, 1>> /\ slot[1] = from => p[slot] = <<from, slot[2] - 1>>
               /\ slot[1] # from => p[slot] = slot
    OBVIOUS
  <2>3. \A slot \in {a, b} : slot[1] = to => slot[2] # m + 1
    BY <1>1, <2>1 DEF m
  <2>4. a[2] \in Int /\ b[2] \in Int
    BY <1>1, <2>1
  <2> HIDE DEF p
  <2>5. CASE a = <<from, 1>>
    <3> SUFFICES ASSUME b # a PROVE FALSE
      OBVIOUS
    <3>1. p[b] = <<to, m + 1>>
      BY <1>6, <2>2, <2>5
    <3>2. CASE b[1] = from
      <4>1. p[b] = <<from, b[2] - 1>>
        BY <2>2, <2>5, <3>2
      <4>2. p[b][1] = from /\ p[b][1] = to
        BY <3>1, <4>1
      <4> QED BY <4>2
    <3>3. CASE b[1] # from
      <4>1. p[b] = b
        BY <2>2, <3>3
      <4>2. b[1] = to /\ b[2] = m + 1
        BY <3>1, <4>1
      <4> QED BY <2>3, <4>2
    <3> QED BY <3>2, <3>3
  <2>6. CASE b = <<from, 1>>
    <3> SUFFICES ASSUME a # b PROVE FALSE
      OBVIOUS
    <3>1. p[a] = <<to, m + 1>>
      BY <1>6, <2>2, <2>6
    <3>2. CASE a[1] = from
      <4>1. p[a] = <<from, a[2] - 1>>
        BY <2>2, <2>6, <3>2
      <4>2. p[a][1] = from /\ p[a][1] = to
        BY <3>1, <4>1
      <4> QED BY <4>2
    <3>3. CASE a[1] # from
      <4>1. p[a] = a
        BY <2>2, <3>3
      <4>2. a[1] = to /\ a[2] = m + 1
        BY <3>1, <4>1
      <4> QED BY <2>3, <4>2
    <3> QED BY <3>2, <3>3
  <2>7. CASE a # <<from, 1>> /\ b # <<from, 1>> /\ a[1] = from
    <3>1. p[a] = <<from, a[2] - 1>> /\ p[b][1] = from
      BY <1>6, <2>2, <2>7
    <3>2. b[1] = from
      BY <2>2, <2>7, <3>1
    <3>3. a[2] - 1 = b[2] - 1
      <4>1. p[b] = <<from, b[2] - 1>>
        BY <2>2, <2>7, <3>2
      <4>2. p[a][2] = a[2] - 1 /\ p[b][2] = b[2] - 1
        BY <3>1, <4>1
      <4> QED BY <1>6, <4>2
    <3> QED BY <2>1, <2>4, <2>7, <3>2, <3>3
  <2>8. CASE a # <<from, 1>> /\ b # <<from, 1>> /\ a[1] # from
    <3>1. p[a] = a /\ p[b][1] # from
      BY <1>6, <2>2, <2>8
    <3>2. b[1] # from
      BY <2>2, <2>8, <3>1
    <3> QED BY <1>6, <2>2, <3>1, <3>2
  <2> QED BY <2>5, <2>6, <2>7, <2>8
<1>7. ASSUME NEW slot \in Slots(G)
      PROVE  \E a \in Slots(F) : p[a] = slot
  <2>1. slot[1] \in DOMAIN F /\ slot[2] \in DOMAIN G[slot[1]] /\ slot = <<slot[1], slot[2]>>
    BY SlotFacts
  <2>2. CASE slot[1] = from
    <3>1. slot[2] \in 1 .. n - 1
      BY <1>2, <2>1, <2>2
    <3>2. slot[2] + 1 \in DOMAIN F[from] /\ slot[2] + 1 # 1 /\ slot[2] + 1 - 1 = slot[2]
      BY <1>1, <3>1 DEF n
    <3>3. <<from, slot[2] + 1>> \in Slots(F) /\ <<from, slot[2] + 1>> # <<from, 1>>
      BY <3>2, SlotFacts
    <3> DEFINE a == <<from, slot[2] + 1>>
    <3>4. a[1] = from /\ a[2] - 1 = slot[2]
      <4>1. a[1] = from /\ a[2] = slot[2] + 1
        OBVIOUS
      <4>2. slot[2] \in Nat
        BY <1>1, <3>1
      <4> HIDE DEF a
      <4> QED BY <4>1, <4>2
    <3> HIDE DEF a
    <3>5. p[a] = <<from, a[2] - 1>>
      BY <3>3, <3>4 DEF a
    <3>6. p[a] = slot
      BY <2>1, <2>2, <3>4, <3>5
    <3> QED BY <3>3, <3>6 DEF a
  <2>3. CASE slot = <<to, m + 1>>
    <3>1. <<from, 1>> \in Slots(F)
      BY <1>1, SlotFacts DEF n
    <3> QED BY <2>3, <3>1
  <2>4. CASE slot[1] = to /\ slot # <<to, m + 1>>
    <3>1. slot[2] \in 1 .. m
      BY <1>1, <1>3, <2>1, <2>4
    <3>2. slot \in Slots(F)
      BY <1>1, <2>1, <2>4, <3>1, SlotFacts DEF m
    <3> QED BY <2>4, <3>2
  <2>5. CASE slot[1] \notin {from, to}
    <3>1. slot \in Slots(F)
      BY <2>1, <2>5, SlotFacts
    <3> QED BY <2>5, <3>1
  <2> QED BY <2>2, <2>3, <2>4, <2>5
<1> HIDE DEF p
<1>8. p \in Bijection(Slots(F), Slots(G))
  BY <1>5, <1>6, <1>7, Fun_IsBij
<1> QED BY <1>4, <1>8, SlotFacts DEF Rearranged

(* A line is added at the end of one place.                                *)
LEMMA LineAdded ==
  ASSUME NEW S, NEW F, \A c \in DOMAIN F : F[c] \in Seq(S),
         NEW to \in DOMAIN F, NEW line \in S,
         NEW G, DOMAIN G = DOMAIN F, G[to] = Append(F[to], line),
         \A c \in DOMAIN F \ {to} : G[c] = F[c],
         NEW f, Rearranged(f, LinesOf(F)), NEW x, NEW ff, OneMore(ff, f, x), ff[x] = line
  PROVE  Rearranged(ff, LinesOf(G))
<1> DEFINE m == Len(F[to]) y == <<to, m + 1>>
<1>1. \A c \in DOMAIN F : DOMAIN F[c] = 1 .. Len(F[c]) /\ Len(F[c]) \in Nat
  OBVIOUS
<1>2. /\ DOMAIN G[to] = 1 .. m + 1 /\ G[to][m + 1] = line
      /\ \A k \in 1 .. m : G[to][k] = F[to][k]
  <2>1. /\ Append(F[to], line) \in Seq(S) /\ Len(Append(F[to], line)) = m + 1
        /\ \A k \in 1 .. m : Append(F[to], line)[k] = F[to][k]
        /\ Append(F[to], line)[m + 1] = line
    BY AppendProperties
  <2> QED BY <2>1
<1>3. m \in Nat /\ DOMAIN F[to] = 1 .. m
  BY <1>1
<1> HIDE DEF m
<1>4. y \notin Slots(F) /\ y \in Slots(G) /\ LinesOf(G)[y] = line
  <2>1. m + 1 \notin DOMAIN F[to] /\ m + 1 \in DOMAIN G[to]
    BY <1>2, <1>3
  <2> QED BY <1>2, <2>1, SlotFacts
<1>5. ASSUME NEW slot \in Slots(F)
      PROVE  slot \in Slots(G) /\ LinesOf(G)[slot] = LinesOf(F)[slot]
  <2>1. slot[1] \in DOMAIN F /\ slot[2] \in DOMAIN F[slot[1]] /\ slot = <<slot[1], slot[2]>>
    BY SlotFacts
  <2>2. slot[2] \in DOMAIN G[slot[1]] /\ G[slot[1]][slot[2]] = F[slot[1]][slot[2]]
    <3>1. CASE slot[1] = to
      <4>1. slot[2] \in 1 .. m /\ slot[2] \in 1 .. m + 1
        BY <1>3, <2>1, <3>1
      <4> QED BY <1>2, <3>1, <4>1
    <3>2. CASE slot[1] # to
      BY <2>1, <3>2
    <3> QED BY <3>1, <3>2
  <2> QED BY <2>1, <2>2, SlotFacts
<1>6. ASSUME NEW slot \in Slots(G), slot # y
      PROVE  slot \in Slots(F)
  <2>1. slot[1] \in DOMAIN F /\ slot[2] \in DOMAIN G[slot[1]] /\ slot = <<slot[1], slot[2]>>
    BY SlotFacts
  <2>2. slot[2] \in DOMAIN F[slot[1]]
    BY <1>2, <1>3, <1>6, <2>1
  <2> QED BY <2>1, <2>2, SlotFacts
<1>7. Slots(G) = Slots(F) \union {y}
  BY <1>4, <1>5, <1>6
<1> HIDE DEF y
<1> DEFINE g == LinesOf(F) gg == LinesOf(G)
<1>8. DOMAIN g = Slots(F) /\ DOMAIN gg = Slots(G)
  BY SlotFacts
<1>9. OneMore(gg, g, y) /\ ff[x] = gg[y]
  BY <1>4, <1>5, <1>7, <1>8 DEF OneMore
<1> HIDE DEF g, gg
<1>10. Rearranged(f, g)
  BY DEF g
<1>11. Rearranged(ff, gg)
  BY <1>9, <1>10, RearrangedWithOneMore
<1> QED BY <1>11 DEF gg

(* The lines of a single place are its sequence.                           *)
LEMMA OnePlace ==
  ASSUME NEW F, NEW c, DOMAIN F = {c}
  PROVE  Rearranged(LinesOf(F), F[c])
<1> DEFINE p == [slot \in Slots(F) |-> slot[2]]
<1>1. \A slot \in Slots(F) : slot = <<c, slot[2]>> /\ slot[2] \in DOMAIN F[c]
  BY SlotFacts
<1>2. \A k \in DOMAIN F[c] : <<c, k>> \in Slots(F) /\ LinesOf(F)[<<c, k>>] = F[c][k]
  BY SlotFacts
<1>3. p \in [Slots(F) -> DOMAIN F[c]]
  BY <1>1
<1>4. \A a, b \in Slots(F) : p[a] = p[b] => a = b
  BY <1>1
<1>5. \A k \in DOMAIN F[c] : \E a \in Slots(F) : p[a] = k
  BY <1>2
<1>6. p \in Bijection(Slots(F), DOMAIN F[c])
  BY <1>3, <1>4, <1>5, Fun_IsBij
<1>7. \A slot \in Slots(F) : F[c][p[slot]] = LinesOf(F)[slot]
  BY <1>1, <1>2
<1> QED BY <1>6, <1>7, SlotFacts DEF Rearranged

SortNext == SortStep \/ FailSort \/ SortReturns \/ \E s : BeginSort(s)

(***************************************************************************)
(* The merge loop.  The runs of the generation that are not merged yet,    *)
(* and those made for the next one.                                        *)
(***************************************************************************)
Remaining == {<<pass.generation, i>> : i \in pass.offset..pass.active - 1}
Made == {<<pass.generation + 1, i>> : i \in 0..pass.next - 1}

PassType == [generation : Nat, active : Nat, offset : Nat, next : Nat]

(* Nothing is merged while the runs are collected.                         *)
Collecting == pass.generation = 0 /\ pass.offset = 0 /\ pass.next = 0

(* A single run is never merged.                                           *)
Settled == pass.active <= 1 => pass.offset = 0 /\ pass.next = 0

MergeHolds ==
  /\ pass.active > 1 /\ pass.offset < pass.active /\ GroupSize > 1
  /\ DOMAIN heads = 1..GroupSize
  /\ DOMAIN runs = Remaining \union Made \union {Output}

RunInv ==
  /\ pass \in PassType
  /\ sorting = "reading" => Collecting
  /\ sorting \in {"reading", "grouping"} => DOMAIN runs = Remaining \union Made
  /\ sorting = "grouping" => Settled
  /\ sorting = "merging" => MergeHolds
  /\ sorting \in {"idle", "sorted", "failed"} => DOMAIN runs = {}

(* A merge has at least two inputs and, with its output, no more files     *)
(* than may be open.                                                       *)
LEMMA FanInFits == FanIn \in Nat /\ FanIn > 1 /\ FanIn + 1 <= MaxOpenFiles
BY SortAssumption DEF FanIn, Smaller, MaxMergeFanIn

LEMMA GroupFits ==
  ASSUME pass \in PassType, pass.offset < pass.active
  PROVE  /\ GroupSize \in Nat /\ GroupSize >= 1 /\ GroupSize <= FanIn
         /\ GroupSize = FanIn \/ pass.offset + GroupSize = pass.active
         /\ pass.offset + GroupSize <= pass.active
BY FanInFits DEF GroupSize, Smaller, PassType

(* The group is what the next offset leaves out.                           *)
LEMMA GroupLeaves ==
  ASSUME pass \in PassType, pass.offset < pass.active
  PROVE  /\ Group \subseteq Remaining
         /\ Remaining \ Group = {<<pass.generation, i>> : i \in pass.offset + FanIn..pass.active - 1}
         /\ Made \intersect Group = {}
         /\ Output \notin Remaining \union Made \union Group
<1> DEFINE g == pass.generation o == pass.offset
<1>1. g \in Nat /\ o \in Nat /\ pass.active \in Nat /\ pass.next \in Nat
  BY DEF PassType
<1>2. Group = {<<g, i>> : i \in o..o + GroupSize - 1}
  <2>1. \A i \in 0..GroupSize - 1 : o + i \in o..o + GroupSize - 1
    BY <1>1, GroupFits
  <2>2. \A i \in o..o + GroupSize - 1 : i - o \in 0..GroupSize - 1 /\ i = o + (i - o)
    BY <1>1, GroupFits
  <2>3. {<<g, i>> : i \in o..o + GroupSize - 1} \subseteq Group
    BY <2>2 DEF Group
  <2> QED
    BY <2>1, <2>3 DEF Group
<1>3. Group \subseteq Remaining
  BY <1>1, <1>2, GroupFits DEF Remaining
<1>4. Remaining \ Group = {<<g, i>> : i \in o + FanIn..pass.active - 1}
  BY <1>1, <1>2, GroupFits, FanInFits DEF Remaining
<1>5. Made \intersect Group = {} /\ Output \notin Remaining \union Made \union Group
  BY <1>1, <1>2 DEF Made, Output, Remaining
<1> QED
  BY <1>3, <1>4, <1>5

(* What GroupDone and Advance make of the two sets.                        *)
LEMMA PassMoves ==
  ASSUME pass \in PassType, pass.offset < pass.active, GroupDone
  PROVE  /\ pass' \in PassType
         /\ Remaining' = Remaining \ Group
         /\ Made' = Made \union {Output}
         /\ pass'.active = pass.active
<1>1. /\ pass'.generation = pass.generation /\ pass'.active = pass.active
      /\ pass'.offset = pass.offset + FanIn /\ pass'.next = pass.next + 1
      /\ pass' \in PassType
  <2>2. pass.offset + FanIn \in Nat /\ pass.next + 1 \in Nat
    BY FanInFits DEF PassType
  <2>3. pass' = [pass EXCEPT !.offset = pass.offset + FanIn, !.next = pass.next + 1]
    BY DEF GroupDone
  <2>4. pass' \in PassType
    BY <2>2, <2>3 DEF PassType
  <2> QED
    BY <2>3, <2>4 DEF PassType
<1>2. Remaining' = Remaining \ Group
  BY <1>1, GroupLeaves DEF Remaining
<1>3. Made' = Made \union {Output}
  BY <1>1 DEF Made, Output, PassType
<1> QED
  BY <1>1, <1>2, <1>3

(* The merge loop keeps RunInv.                                            *)
LEMMA RunInvStep ==
  ASSUME RunInv, [SortNext]_sorter
  PROVE  RunInv'
<1> USE DEF RunInv
<1>1. CASE UNCHANGED sorter
  BY <1>1 DEF sorter, Collecting, Settled, MergeHolds, Remaining, Made, GroupSize, Output
<1>2. CASE ReadLine
  BY <1>2 DEF ReadLine, Collecting, Remaining, Made
<1>3. CASE FlushRun
  <2>1. /\ pass'.generation = 0 /\ pass'.offset = 0 /\ pass'.next = 0
        /\ pass'.active = pass.active + 1 /\ pass' \in PassType
    BY <1>3 DEF FlushRun, Collecting, PassType
  <2>2. DOMAIN runs' = DOMAIN runs \union {<<0, pass.active>>}
    BY <1>3 DEF FlushRun, With
  <2>3. Remaining' = Remaining \union {<<0, pass.active>>} /\ Made = {} /\ Made' = {}
    BY <1>3, <2>1 DEF FlushRun, Remaining, Made, Collecting, PassType
  <2> QED
    BY <1>3, <2>1, <2>2, <2>3 DEF FlushRun, Collecting
<1>4. CASE AllRead
  BY <1>4 DEF AllRead, Collecting, Settled, Remaining, Made
<1>5. CASE RenameRun
  <2>1. pass.offset < pass.active /\ pass.active > 1 /\ sorting = "grouping" /\ sorting' = sorting
    BY <1>5 DEF RenameRun, AtGroup
  <2>2. /\ pass' \in PassType /\ pass'.active = pass.active
        /\ Remaining' = Remaining \ Group /\ Made' = Made \union {Output}
    BY <1>5, <2>1, PassMoves DEF RenameRun
  <2>3. DOMAIN runs' = (DOMAIN runs \ Group) \union {Output}
    BY <1>5 DEF RenameRun
  <2>4. DOMAIN runs' = Remaining' \union Made'
    BY <2>1, <2>2, <2>3, GroupLeaves
  <2> QED
    BY <2>1, <2>2, <2>4 DEF Settled, PassType
<1>6. CASE StartMerge
  <2>1. pass.offset < pass.active /\ pass.active > 1 /\ GroupSize > 1
    BY <1>6 DEF StartMerge, AtGroup
  <2>2. /\ sorting = "grouping" /\ sorting' = "merging" /\ pass' = pass
        /\ DOMAIN heads' = 1..GroupSize
        /\ DOMAIN runs' = DOMAIN runs \union {Output}
    BY <1>6 DEF StartMerge, AtGroup, With
  <2> QED
    BY <2>1, <2>2 DEF MergeHolds, Remaining, Made, GroupSize, Output
<1>7. CASE MergeLine
  <2>1. /\ sorting = "merging" /\ sorting' = "merging" /\ pass' = pass
        /\ DOMAIN heads' = DOMAIN heads /\ DOMAIN runs' = DOMAIN runs
    BY <1>7 DEF MergeLine
  <2> QED
    BY <2>1 DEF MergeHolds, Remaining, Made, GroupSize, Output
<1>8. CASE EndMerge
  <2>1. sorting = "merging" /\ sorting' = "grouping" /\ MergeHolds
    BY <1>8 DEF EndMerge
  <2>2. /\ pass' \in PassType /\ pass'.active = pass.active
        /\ Remaining' = Remaining \ Group /\ Made' = Made \union {Output}
    BY <1>8, <2>1, PassMoves DEF EndMerge, MergeHolds
  <2>3. DOMAIN runs' = DOMAIN runs \ Group
    BY <1>8 DEF EndMerge, Without
  <2>4. DOMAIN runs' = Remaining' \union Made'
    BY <2>1, <2>2, <2>3, GroupLeaves DEF MergeHolds
  <2> QED
    BY <2>1, <2>2, <2>4 DEF Settled, PassType, MergeHolds
<1>9. CASE NextGeneration
  <2>1. /\ sorting = "grouping" /\ sorting' = "grouping" /\ runs' = runs
        /\ pass.offset >= pass.active
    BY <1>9 DEF NextGeneration
  <2>2. /\ pass'.generation = pass.generation + 1 /\ pass'.active = pass.next
        /\ pass'.offset = 0 /\ pass'.next = 0 /\ pass' \in PassType
    BY <1>9 DEF NextGeneration, Advance, PassType
  <2>3. Remaining = {} /\ Made' = {} /\ Remaining' = Made
    BY <2>1, <2>2 DEF Remaining, Made, PassType
  <2> QED
    BY <2>1, <2>2, <2>3 DEF Settled
<1>10. CASE EndSort
  <2>1. sorting = "grouping" /\ sorting' = "sorted" /\ pass' = pass /\ pass.active <= 1
    BY <1>10 DEF EndSort
  <2>2. DOMAIN runs' = DOMAIN runs \ {<<pass.generation, 0>>}
    BY <1>10 DEF EndSort, Without
  <2>3. Remaining \subseteq {<<pass.generation, 0>>} /\ Made = {}
    BY <2>1 DEF Remaining, Made, Settled, PassType
  <2> QED
    BY <2>1, <2>2, <2>3
<1>11. CASE FailSort
  BY <1>11 DEF FailSort, CleanupGeneratedRuns, NoRuns
<1>12. ASSUME SortReturns \/ \E s : BeginSort(s) PROVE RunInv'
  <2>1. /\ pass' = FirstPass /\ DOMAIN runs' = {} /\ sorting' \in {"idle", "reading"}
    BY <1>12 DEF SortReturns, BeginSort, NoRuns
  <2>2. pass' \in PassType /\ Collecting' /\ Remaining' = {} /\ Made' = {}
    BY <2>1 DEF FirstPass, PassType, Collecting, Remaining, Made
  <2> QED
    BY <2>1, <2>2
<1> QED
  BY <1>1, <1>2, <1>3, <1>4, <1>5, <1>6, <1>7, <1>8, <1>9, <1>10, <1>11, <1>12
     DEF SortNext, SortStep

(***************************************************************************)
(* The lines of the spool, wherever the sort keeps them.                   *)
(***************************************************************************)
Inputs == {input[i] : i \in DOMAIN input}

(* A spool that can be sorted: a sequence of lines with comparable texts.  *)
Sortable == input \in Seq(Inputs) /\ Comparable(Inputs)

LinesPlace == <<"lines", 0>>
RunPlace(n) == <<"run", n>>
HeadPlace(i) == <<"head", i>>
SortedPlace == <<"sorted", 0>>

Places ==
  CASE sorting = "reading" -> {LinesPlace} \union {RunPlace(n) : n \in DOMAIN runs}
    [] sorting = "grouping" -> {RunPlace(n) : n \in DOMAIN runs}
    [] sorting = "merging" -> {RunPlace(n) : n \in DOMAIN runs \ Group}
                              \union {HeadPlace(i) : i \in DOMAIN heads}
    [] sorting = "sorted" -> {SortedPlace}
    [] OTHER -> {}

Held(places, l, r, h, s) ==
  [c \in places |-> CASE c[1] = "lines" -> l [] c[1] = "run" -> r[c[2]]
                      [] c[1] = "head" -> h[c[2]] [] OTHER -> s]

Kept == Held(Places, lines, runs, heads, sorted)

SoFar == [n \in 1 .. read |-> input[n]]

Holding == {"reading", "grouping", "merging", "sorted"}

(* No line is lost, invented or doubled.                                   *)
LinesKept == sorting \in Holding => Rearranged(SoFar, LinesOf(Kept))

SequencesOfInputs ==
  /\ read \in 0 .. Len(input) /\ (sorting \in Holding \ {"reading"} => read = Len(input))
  /\ lines \in Seq(Inputs) /\ sorted \in Seq(Inputs)
  /\ \A n \in DOMAIN runs : runs[n] \in Seq(Inputs)
  /\ \A i \in DOMAIN heads : heads[i] \in Seq(Inputs)

(* What is written is in order, and none of what waits is before it.       *)
AllInOrder ==
  /\ \A n \in DOMAIN runs : InOrder(runs[n])
  /\ \A i \in DOMAIN heads : InOrder(heads[i])
  /\ sorting = "merging" /\ runs[Output] # <<>> =>
       \A i \in Waiting : ~Before(Head(heads[i]), runs[Output][Len(runs[Output])])
  /\ InOrder(sorted)

SortInv == RunInv /\ (Sortable => SequencesOfInputs /\ LinesKept /\ AllInOrder)

LEMMA EmptyIsInOrder == InOrder(<<>>)
BY DEF InOrder

LEMMA GroupIsThere ==
  ASSUME RunInv, AtGroup
  PROVE  /\ <<pass.generation, pass.offset>> \in DOMAIN runs
         /\ \A i \in 1 .. GroupSize : <<pass.generation, pass.offset + i - 1>> \in DOMAIN runs
<1>1. pass \in PassType /\ pass.offset < pass.active /\ DOMAIN runs = Remaining \union Made
  BY DEF RunInv, AtGroup
<1>2. pass.offset \in Nat /\ pass.active \in Nat
  BY <1>1 DEF PassType
<1>3. ASSUME NEW k \in pass.offset .. pass.active - 1
      PROVE  <<pass.generation, k>> \in DOMAIN runs
  BY <1>1 DEF Remaining
<1>4. pass.offset \in pass.offset .. pass.active - 1
  BY <1>1, <1>2
<1>5. GroupSize \in Nat /\ pass.offset + GroupSize <= pass.active
  BY <1>1, GroupFits
<1>6. ASSUME NEW i \in 1 .. GroupSize
      PROVE  pass.offset + i - 1 \in pass.offset .. pass.active - 1
  BY <1>2, <1>5
<1> QED BY <1>3, <1>4, <1>6

LEMMA SequencesStep ==
  ASSUME RunInv, Sortable, SequencesOfInputs, SortStep
  PROVE  SequencesOfInputs'
<1> USE DEF SequencesOfInputs
<1>0. /\ input' = input /\ Inputs' = Inputs /\ Len(input) \in Nat /\ Comparable(Inputs)
      /\ <<>> \in Seq(Inputs)
      /\ \A i \in 1 .. Len(input) : input[i] \in Inputs
  <2>1. input' = input
    BY DEF SortStep, ReadLine, FlushRun, AllRead, RenameRun, StartMerge, MergeLine, EndMerge,
       NextGeneration, EndSort
  <2>2. Inputs' = Inputs
    BY <2>1 DEF Inputs
  <2>3. input \in Seq(Inputs) /\ Comparable(Inputs)
    BY DEF Sortable
  <2> QED BY <2>1, <2>2, <2>3
<1>1. CASE ReadLine
  <2>1. /\ sorting = "reading" /\ sorting' = "reading" /\ read < Len(input)
        /\ lines' = Append(lines, input[read + 1]) /\ read' = read + 1
        /\ UNCHANGED <<runs, heads, sorted>>
    BY <1>1 DEF ReadLine
  <2>2. read + 1 \in 1 .. Len(input)
    BY <1>0, <2>1
  <2>3. lines' \in Seq(Inputs)
    BY <1>0, <2>1, <2>2, AppendProperties
  <2> QED BY <1>0, <2>1, <2>2, <2>3 DEF Holding
<1>2. CASE FlushRun
  <2>1. /\ sorting = "reading" /\ sorting' = "reading" /\ lines' = <<>>
        /\ runs' = With(<<0, pass.active>>, InMemory(lines))
        /\ UNCHANGED <<read, heads, sorted>>
    BY <1>2 DEF FlushRun
  <2>2. InMemory(lines) \in Seq(Inputs)
    BY <1>0, SortsInMemory
  <2>3. \A n \in DOMAIN runs' : runs'[n] \in Seq(Inputs)
    BY <2>1, <2>2 DEF With
  <2> QED BY <1>0, <2>1, <2>3 DEF Holding
<1>3. CASE AllRead
  <2>1. /\ read = Len(input) /\ UNCHANGED <<read, lines, runs, heads, sorted>>
    BY <1>3 DEF AllRead
  <2> QED BY <1>0, <2>1
<1>4. CASE RenameRun
  <2>1. /\ sorting' = sorting /\ UNCHANGED <<read, lines, heads, sorted>> /\ AtGroup
        /\ runs' = [n \in (DOMAIN runs \ Group) \union {Output} |->
                      IF n = Output THEN runs[<<pass.generation, pass.offset>>] ELSE runs[n]]
    BY <1>4 DEF RenameRun
  <2>2. <<pass.generation, pass.offset>> \in DOMAIN runs
    BY <2>1, GroupIsThere
  <2>3. \A n \in DOMAIN runs' : runs'[n] \in Seq(Inputs)
    BY <2>1, <2>2
  <2> QED BY <1>0, <2>1, <2>3
<1>5. CASE StartMerge
  <2>1. /\ sorting = "grouping" /\ sorting' = "merging" /\ UNCHANGED <<read, lines, sorted>>
        /\ heads' = [i \in 1 .. GroupSize |-> runs[<<pass.generation, pass.offset + i - 1>>]]
        /\ runs' = With(Output, <<>>) /\ AtGroup
    BY <1>5 DEF StartMerge, AtGroup
  <2>2. \A i \in 1 .. GroupSize : <<pass.generation, pass.offset + i - 1>> \in DOMAIN runs
    BY <2>1, GroupIsThere
  <2>3. \A i \in DOMAIN heads' : heads'[i] \in Seq(Inputs)
    BY <2>1, <2>2
  <2>4. \A n \in DOMAIN runs' : runs'[n] \in Seq(Inputs)
    BY <2>1 DEF With
  <2> QED BY <1>0, <2>1, <2>3, <2>4 DEF Holding
<1>6. CASE MergeLine
  <2>1. sorting' = sorting /\ UNCHANGED <<read, lines, sorted>>
    BY <1>6 DEF MergeLine
  <2>2. PICK i \in DOMAIN heads :
          /\ Selected(i)
          /\ runs' = [runs EXCEPT ![Output] = Append(@, Head(heads[i]))]
          /\ heads' = [heads EXCEPT ![i] = Tail(@)]
    BY <1>6 DEF MergeLine
  <2>3. heads[i] \in Seq(Inputs) /\ heads[i] # <<>>
    BY <2>2 DEF Selected, Waiting
  <2>4. Head(heads[i]) \in Inputs /\ Tail(heads[i]) \in Seq(Inputs)
    BY <2>3, HeadTailProperties
  <2>5. \A j \in DOMAIN heads' : heads'[j] \in Seq(Inputs)
    BY <2>2, <2>4
  <2>6. \A n \in DOMAIN runs' : runs'[n] \in Seq(Inputs)
    BY <2>2, <2>4, AppendProperties
  <2> QED BY <1>0, <2>1, <2>5, <2>6
<1>7. CASE EndMerge
  <2>1. /\ sorting = "merging" /\ UNCHANGED <<read, lines, sorted>>
        /\ runs' = Without(Group) /\ heads' = <<>>
    BY <1>7 DEF EndMerge
  <2> QED BY <1>0, <2>1 DEF Without, Holding
<1>8. CASE NextGeneration
  BY <1>0, <1>8 DEF NextGeneration
<1>9. CASE EndSort
  <2>1. /\ sorting = "grouping" /\ UNCHANGED <<read, lines, heads>>
        /\ sorted' = IF pass.active = 0 THEN <<>> ELSE runs[<<pass.generation, 0>>]
        /\ runs' = Without({<<pass.generation, 0>>}) /\ pass.active <= 1
    BY <1>9 DEF EndSort
  <2>2. pass.active # 0 => <<pass.generation, 0>> \in DOMAIN runs
    BY <2>1 DEF RunInv, PassType, Remaining, Settled
  <2>3. sorted' \in Seq(Inputs)
    BY <2>1, <2>2
  <2>4. \A n \in DOMAIN runs' : runs'[n] \in Seq(Inputs)
    BY <2>1 DEF Without
  <2> QED BY <1>0, <2>1, <2>3, <2>4 DEF Holding
<1> QED BY <1>1, <1>2, <1>3, <1>4, <1>5, <1>6, <1>7, <1>8, <1>9 DEF SortStep

(* What a line waits for is not before it.                                 *)
LEMMA AppendInOrder ==
  ASSUME NEW S, NEW s \in Seq(S), NEW line \in S, InOrder(s),
         s # <<>> => ~Before(line, s[Len(s)])
  PROVE  InOrder(Append(s, line))
<1> DEFINE t == Append(s, line)
<1>1. /\ Len(t) = Len(s) + 1 /\ Len(s) \in Nat
      /\ \A i \in 1 .. Len(s) : t[i] = s[i]
      /\ t[Len(s) + 1] = line
  BY AppendProperties
<1> HIDE DEF t
<1>2. ASSUME NEW i \in 1 .. Len(t) - 1
      PROVE  ~Before(t[i + 1], t[i])
  <2>1. i \in 1 .. Len(s)
    BY <1>1
  <2>2. CASE i = Len(s)
    <3>1. s # <<>>
      BY <2>1, <2>2
    <3> QED BY <1>1, <2>1, <2>2, <3>1
  <2>3. CASE i # Len(s)
    <3>1. i \in 1 .. Len(s) - 1 /\ i + 1 \in 1 .. Len(s)
      BY <1>1, <2>1, <2>3
    <3> QED BY <1>1, <2>1, <3>1 DEF InOrder
  <2> QED BY <2>2, <2>3
<1> QED BY <1>2 DEF InOrder, t

LEMMA TailInOrder ==
  ASSUME NEW S, NEW s \in Seq(S), s # <<>>, InOrder(s)
  PROVE  /\ InOrder(Tail(s))
         /\ Tail(s) # <<>> => ~Before(Head(Tail(s)), Head(s))
<1>1. /\ Tail(s) \in Seq(S) /\ Len(Tail(s)) = Len(s) - 1 /\ Len(s) \in Nat
      /\ \A i \in 1 .. Len(Tail(s)) : Tail(s)[i] = s[i + 1]
      /\ Head(s) = s[1]
  BY HeadTailProperties
<1>2. ASSUME NEW i \in 1 .. Len(Tail(s)) - 1
      PROVE  ~Before(Tail(s)[i + 1], Tail(s)[i])
  <2>1. i + 1 \in 1 .. Len(s) - 1 /\ i \in 1 .. Len(Tail(s)) /\ i + 1 \in 1 .. Len(Tail(s))
    BY <1>1
  <2> QED BY <1>1, <2>1 DEF InOrder
<1>3. ASSUME Tail(s) # <<>>
      PROVE  ~Before(Head(Tail(s)), Head(s))
  <2>1. Len(Tail(s)) \in Nat \ {0}
    BY <1>1, <1>3, EmptySeq
  <2>2. 1 \in 1 .. Len(Tail(s)) /\ 1 \in 1 .. Len(s) - 1
    BY <1>1, <2>1
  <2>3. Head(Tail(s)) = s[2]
    BY <1>1, <2>2
  <2> QED BY <1>1, <2>2, <2>3 DEF InOrder
<1> QED BY <1>2, <1>3 DEF InOrder

LEMMA OrderStep ==
  ASSUME RunInv, Sortable, SequencesOfInputs, AllInOrder, SortStep
  PROVE  AllInOrder'
<1> USE DEF AllInOrder
<1>0. /\ Comparable(Inputs) /\ lines \in Seq(Inputs)
      /\ \A n \in DOMAIN runs : runs[n] \in Seq(Inputs)
      /\ \A i \in DOMAIN heads : heads[i] \in Seq(Inputs)
  BY DEF Sortable, SequencesOfInputs
<1>1. CASE ReadLine
  BY <1>1 DEF ReadLine
<1>2. CASE FlushRun
  <2>1. /\ sorting' = "reading" /\ UNCHANGED <<heads, sorted>>
        /\ runs' = With(<<0, pass.active>>, InMemory(lines))
    BY <1>2 DEF FlushRun
  <2>2. InOrder(InMemory(lines))
    BY <1>0, SortsInMemory
  <2>3. \A n \in DOMAIN runs' : InOrder(runs'[n])
    BY <2>1, <2>2 DEF With
  <2> QED BY <2>1, <2>3
<1>3. CASE AllRead
  BY <1>3 DEF AllRead
<1>4. CASE RenameRun
  <2>1. /\ sorting' = "grouping" /\ UNCHANGED <<heads, sorted>> /\ AtGroup
        /\ runs' = [n \in (DOMAIN runs \ Group) \union {Output} |->
                      IF n = Output THEN runs[<<pass.generation, pass.offset>>] ELSE runs[n]]
    BY <1>4 DEF RenameRun, AtGroup
  <2>2. <<pass.generation, pass.offset>> \in DOMAIN runs
    BY <2>1, GroupIsThere
  <2>3. \A n \in DOMAIN runs' : InOrder(runs'[n])
    BY <2>1, <2>2
  <2> QED BY <2>1, <2>3
<1>5. CASE StartMerge
  <2>1. /\ sorting = "grouping" /\ sorting' = "merging" /\ UNCHANGED <<sorted, pass>>
        /\ heads' = [i \in 1 .. GroupSize |-> runs[<<pass.generation, pass.offset + i - 1>>]]
        /\ runs' = With(Output, <<>>) /\ AtGroup
    BY <1>5 DEF StartMerge, AtGroup
  <2>2. \A i \in 1 .. GroupSize : <<pass.generation, pass.offset + i - 1>> \in DOMAIN runs
    BY <2>1, GroupIsThere
  <2>3. \A i \in DOMAIN heads' : InOrder(heads'[i])
    BY <2>1, <2>2
  <2>4. \A n \in DOMAIN runs' : InOrder(runs'[n])
    BY <2>1, EmptyIsInOrder DEF With
  <2>5. Output' = Output /\ runs'[Output] = <<>>
    BY <2>1 DEF With, Output
  <2> QED BY <2>1, <2>3, <2>4, <2>5
<1>6. CASE MergeLine
  <2>1. sorting = "merging" /\ UNCHANGED <<sorting, sorted, pass>> /\ Output' = Output
    BY <1>6 DEF MergeLine, Output
  <2>2. PICK i \in DOMAIN heads :
          /\ Selected(i)
          /\ runs' = [runs EXCEPT ![Output] = Append(@, Head(heads[i]))]
          /\ heads' = [heads EXCEPT ![i] = Tail(@)]
    BY <1>6 DEF MergeLine
  <2> DEFINE line == Head(heads[i])
             out == runs[Output]
  <2>3. heads[i] \in Seq(Inputs) /\ heads[i] # <<>> /\ i \in Waiting
    BY <1>0, <2>2 DEF Selected, Waiting
  <2>4. line \in Inputs
    BY <2>3, HeadTailProperties
  <2>5. Output \in DOMAIN runs /\ out \in Seq(Inputs) /\ InOrder(out)
    BY <1>0, <2>1 DEF RunInv, MergeHolds
  <2>6. out # <<>> => ~Before(line, out[Len(out)])
    BY <2>1, <2>3
  <2>7. InOrder(Append(out, line))
    BY <2>4, <2>5, <2>6, AppendInOrder
  <2>8. \A n \in DOMAIN runs' : InOrder(runs'[n])
    BY <2>2, <2>7
  <2>9. InOrder(Tail(heads[i])) /\ (Tail(heads[i]) # <<>> => ~Before(Head(Tail(heads[i])), line))
    BY <2>3, TailInOrder
  <2>10. \A j \in DOMAIN heads' : InOrder(heads'[j])
    BY <2>2, <2>9
  <2>11. runs'[Output] = Append(out, line) /\ runs'[Output][Len(runs'[Output])] = line
    <3>1. runs'[Output] = Append(out, line)
      BY <2>2, <2>5
    <3>2. Len(Append(out, line)) = Len(out) + 1 /\ Append(out, line)[Len(out) + 1] = line
      BY <2>4, <2>5, AppendProperties
    <3> QED BY <3>1, <3>2
  <2>12. ASSUME NEW j \in Waiting'
         PROVE  ~Before(Head(heads'[j]), line)
    <3>1. j \in DOMAIN heads /\ heads'[j] # <<>>
      BY <2>2, <2>12 DEF Waiting
    <3>2. CASE j = i
      <4>1. heads'[j] = Tail(heads[i])
        BY <2>2, <3>2
      <4> QED BY <2>9, <3>1, <4>1
    <3>3. CASE j # i
      <4>1. heads'[j] = heads[j]
        BY <2>2, <3>1, <3>3
      <4>2. j \in Waiting
        BY <3>1, <4>1 DEF Waiting
      <4> QED BY <2>2, <4>1, <4>2 DEF Selected
    <3> QED BY <3>2, <3>3
  <2> HIDE DEF line, out
  <2> QED BY <2>1, <2>8, <2>10, <2>11, <2>12
<1>7. CASE EndMerge
  <2>1. /\ sorting' = "grouping" /\ UNCHANGED sorted /\ runs' = Without(Group) /\ heads' = <<>>
    BY <1>7 DEF EndMerge
  <2>2. \A n \in DOMAIN runs' : InOrder(runs'[n])
    BY <2>1 DEF Without
  <2> QED BY <2>1, <2>2
<1>8. CASE NextGeneration
  BY <1>8 DEF NextGeneration
<1>9. CASE EndSort
  <2>1. /\ sorting = "grouping" /\ sorting' = "sorted" /\ UNCHANGED heads
        /\ sorted' = IF pass.active = 0 THEN <<>> ELSE runs[<<pass.generation, 0>>]
        /\ runs' = Without({<<pass.generation, 0>>}) /\ pass.active <= 1
    BY <1>9 DEF EndSort
  <2>2. pass.active # 0 => <<pass.generation, 0>> \in DOMAIN runs
    BY <2>1 DEF RunInv, PassType, Remaining, Settled
  <2>3. InOrder(sorted')
    BY <2>1, <2>2, EmptyIsInOrder
  <2>4. \A n \in DOMAIN runs' : InOrder(runs'[n])
    BY <2>1 DEF Without
  <2> QED BY <2>1, <2>3, <2>4
<1> QED BY <1>1, <1>2, <1>3, <1>4, <1>5, <1>6, <1>7, <1>8, <1>9 DEF SortStep

LEMMA HeldFacts ==
  ASSUME NEW P, NEW l, NEW r, NEW h, NEW s
  PROVE  /\ DOMAIN Held(P, l, r, h, s) = P
         /\ LinesPlace \in P => Held(P, l, r, h, s)[LinesPlace] = l
         /\ \A n : RunPlace(n) \in P => Held(P, l, r, h, s)[RunPlace(n)] = r[n]
         /\ \A i : HeadPlace(i) \in P => Held(P, l, r, h, s)[HeadPlace(i)] = h[i]
         /\ SortedPlace \in P => Held(P, l, r, h, s)[SortedPlace] = s
BY DEF Held, LinesPlace, RunPlace, HeadPlace, SortedPlace

LEMMA PlacesDiffer ==
  /\ \A n, m : RunPlace(n) = RunPlace(m) => n = m
  /\ \A i, j : HeadPlace(i) = HeadPlace(j) => i = j
  /\ \A n, i : RunPlace(n) # HeadPlace(i)
  /\ \A n : RunPlace(n) # LinesPlace /\ RunPlace(n) # SortedPlace
BY DEF LinesPlace, RunPlace, HeadPlace, SortedPlace

RunPlaces(N) == {RunPlace(n) : n \in N}
HeadPlaces(I) == {HeadPlace(i) : i \in I}

LEMMA PlacesByStage ==
  /\ sorting = "reading" => Places = {LinesPlace} \union RunPlaces(DOMAIN runs)
  /\ sorting = "grouping" => Places = RunPlaces(DOMAIN runs)
  /\ sorting = "merging" =>
       Places = RunPlaces(DOMAIN runs \ Group) \union HeadPlaces(DOMAIN heads)
  /\ sorting = "sorted" => Places = {SortedPlace}
BY DEF Places, RunPlaces, HeadPlaces

LEMMA PlacesByStageNext ==
  /\ sorting' = "reading" => Places' = {LinesPlace} \union RunPlaces(DOMAIN runs')
  /\ sorting' = "grouping" => Places' = RunPlaces(DOMAIN runs')
  /\ sorting' = "merging" =>
       Places' = RunPlaces(DOMAIN runs' \ Group') \union HeadPlaces(DOMAIN heads')
  /\ sorting' = "sorted" => Places' = {SortedPlace}
BY DEF Places, RunPlaces, HeadPlaces

LEMMA KeptFacts ==
  /\ DOMAIN Kept = Places
  /\ LinesPlace \in Places => Kept[LinesPlace] = lines
  /\ \A n : RunPlace(n) \in Places => Kept[RunPlace(n)] = runs[n]
  /\ \A i : HeadPlace(i) \in Places => Kept[HeadPlace(i)] = heads[i]
  /\ SortedPlace \in Places => Kept[SortedPlace] = sorted
BY HeldFacts DEF Kept

LEMMA KeptFactsNext ==
  /\ DOMAIN Kept' = Places'
  /\ LinesPlace \in Places' => Kept'[LinesPlace] = lines'
  /\ \A n : RunPlace(n) \in Places' => Kept'[RunPlace(n)] = runs'[n]
  /\ \A i : HeadPlace(i) \in Places' => Kept'[HeadPlace(i)] = heads'[i]
  /\ SortedPlace \in Places' => Kept'[SortedPlace] = sorted'
BY HeldFacts DEF Kept

LEMMA KeptAreSequences ==
  ASSUME SequencesOfInputs, sorting \in Holding
  PROVE  \A c \in DOMAIN Kept : Kept[c] \in Seq(Inputs)
<1> SUFFICES ASSUME NEW c \in Places PROVE Kept[c] \in Seq(Inputs)
  BY KeptFacts
<1>1. CASE sorting = "reading"
  BY <1>1, PlacesByStage, KeptFacts DEF SequencesOfInputs, RunPlaces
<1>2. CASE sorting = "grouping"
  BY <1>2, PlacesByStage, KeptFacts DEF SequencesOfInputs, RunPlaces
<1>3. CASE sorting = "merging"
  BY <1>3, PlacesByStage, KeptFacts DEF SequencesOfInputs, RunPlaces, HeadPlaces
<1>4. CASE sorting = "sorted"
  BY <1>4, PlacesByStage, KeptFacts DEF SequencesOfInputs
<1> QED BY <1>1, <1>2, <1>3, <1>4 DEF Holding

(* A line that is read is kept with those that were collected.             *)
LEMMA ReadLineKeeps ==
  ASSUME Sortable, SequencesOfInputs, LinesKept, ReadLine
  PROVE  LinesKept'
<1>1. /\ sorting = "reading" /\ sorting' = "reading" /\ read < Len(input)
      /\ lines' = Append(lines, input[read + 1]) /\ read' = read + 1
      /\ UNCHANGED <<input, runs, heads, sorted>>
  BY DEF ReadLine
<1> DEFINE line == input[read + 1]
<1>2. read \in Nat /\ Len(input) \in Nat /\ read + 1 \in 1 .. Len(input) /\ line \in Inputs
  <2>1. input \in Seq(Inputs) /\ read \in 0 .. Len(input)
    BY DEF SequencesOfInputs, Sortable
  <2>2. read \in Nat /\ Len(input) \in Nat /\ read + 1 \in 1 .. Len(input)
    BY <1>1, <2>1
  <2> QED BY <2>1, <2>2
<1>3. OneMore(SoFar', SoFar, read + 1) /\ SoFar'[read + 1] = line
  <2>1. 1 .. read + 1 = (1 .. read) \union {read + 1} /\ read + 1 \notin 1 .. read
    BY <1>2
  <2> QED BY <1>1, <2>1 DEF OneMore, SoFar
<1>4. Places' = Places /\ LinesPlace \in Places
  BY <1>1, PlacesByStage, PlacesByStageNext
<1>5. DOMAIN Kept' = DOMAIN Kept /\ LinesPlace \in DOMAIN Kept
  BY <1>4, KeptFacts, KeptFactsNext
<1>6. Kept'[LinesPlace] = Append(Kept[LinesPlace], line)
  BY <1>1, <1>4, KeptFacts, KeptFactsNext
<1>7. \A c \in DOMAIN Kept \ {LinesPlace} : Kept'[c] = Kept[c]
  <2> SUFFICES ASSUME NEW n \in DOMAIN runs
               PROVE  Kept'[RunPlace(n)] = Kept[RunPlace(n)]
    BY <1>1, PlacesByStage, KeptFacts DEF RunPlaces
  <2>1. RunPlace(n) \in Places
    BY <1>1, PlacesByStage DEF RunPlaces
  <2> QED BY <1>1, <1>4, <2>1, KeptFacts, KeptFactsNext
<1>8. \A c \in DOMAIN Kept : Kept[c] \in Seq(Inputs)
  BY <1>1, KeptAreSequences DEF Holding
<1>9. Rearranged(SoFar, LinesOf(Kept))
  BY <1>1 DEF LinesKept, Holding
<1> HIDE DEF line
<1>10. Rearranged(SoFar', LinesOf(Kept'))
  BY <1>2, <1>3, <1>5, <1>6, <1>7, <1>8, <1>9, LineAdded
<1> QED BY <1>10 DEF LinesKept

(* The other steps leave what was read and rearrange what is kept.         *)
LEMMA KeptRearranged ==
  ASSUME LinesKept, sorting \in Holding, SoFar' = SoFar,
         Rearranged(LinesOf(Kept), LinesOf(Kept'))
  PROVE  LinesKept'
<1>1. Rearranged(SoFar, LinesOf(Kept))
  BY DEF LinesKept
<1>2. Rearranged(SoFar, LinesOf(Kept'))
  BY <1>1, RearrangedIsTransitive
<1> QED BY <1>2 DEF LinesKept

LEMMA FlushRunKeeps ==
  ASSUME RunInv, Sortable, SequencesOfInputs, LinesKept, FlushRun
  PROVE  LinesKept'
<1> DEFINE new == <<0, pass.active>>
           r == [c \in Places |-> IF c = LinesPlace THEN RunPlace(new) ELSE c]
<1>1. /\ sorting = "reading" /\ sorting' = "reading" /\ lines' = <<>>
      /\ runs' = With(new, InMemory(lines)) /\ UNCHANGED <<input, read>>
  BY DEF FlushRun
<1>2. new \notin DOMAIN runs
  BY <1>1 DEF RunInv, Collecting, PassType, Remaining, Made
<1> HIDE DEF new
<1>3. /\ DOMAIN runs' = DOMAIN runs \union {new} /\ runs'[new] = InMemory(lines)
      /\ \A n \in DOMAIN runs : runs'[n] = runs[n]
  BY <1>1, <1>2 DEF With
<1>4. /\ Places = {LinesPlace} \union RunPlaces(DOMAIN runs)
      /\ Places' = Places \union {RunPlace(new)}
      /\ RunPlace(new) \notin Places
  <2>1. Places = {LinesPlace} \union RunPlaces(DOMAIN runs)
    BY <1>1, PlacesByStage
  <2>2. Places' = {LinesPlace} \union RunPlaces(DOMAIN runs')
    BY <1>1, PlacesByStageNext
  <2> QED BY <1>2, <1>3, <2>1, <2>2, PlacesDiffer DEF RunPlaces
<1>5. /\ DOMAIN Kept = Places /\ DOMAIN Kept' = Places'
      /\ Kept[LinesPlace] = lines /\ Kept'[LinesPlace] = <<>>
      /\ Kept'[RunPlace(new)] = InMemory(lines)
  BY <1>1, <1>3, <1>4, KeptFacts, KeptFactsNext
<1>6. \A n \in DOMAIN runs : RunPlace(n) \in Places /\ Kept'[RunPlace(n)] = Kept[RunPlace(n)]
  <2> SUFFICES ASSUME NEW n \in DOMAIN runs
               PROVE  RunPlace(n) \in Places /\ Kept'[RunPlace(n)] = Kept[RunPlace(n)]
    OBVIOUS
  <2>1. RunPlace(n) \in Places /\ RunPlace(n) \in Places'
    BY <1>4 DEF RunPlaces
  <2> QED BY <1>3, <2>1, KeptFacts, KeptFactsNext
<1>7. r \in [DOMAIN Kept -> DOMAIN Kept']
  BY <1>4, <1>5
<1>8. \A c, d \in DOMAIN Kept : r[c] = r[d] => c = d
  BY <1>4, <1>5
<1>9. ASSUME NEW c \in DOMAIN Kept
      PROVE  Rearranged(Kept[c], Kept'[r[c]])
  <2>1. CASE c = LinesPlace
    <3>1. Rearranged(lines, InMemory(lines))
      BY SortsInMemory DEF Sortable, SequencesOfInputs
    <3> QED BY <1>5, <2>1, <3>1
  <2>2. CASE c # LinesPlace
    <3>1. Kept'[r[c]] = Kept[c]
      BY <1>4, <1>5, <1>6, <2>2 DEF RunPlaces
    <3> QED BY <3>1, RearrangedIsReflexive
  <2> QED BY <2>1, <2>2
<1>10. ASSUME NEW d \in DOMAIN Kept', \A c \in DOMAIN Kept : r[c] # d
       PROVE  DOMAIN Kept'[d] = {}
  <2>1. d = LinesPlace
    BY <1>4, <1>5, <1>10
  <2> QED BY <1>5, <2>1
<1> HIDE DEF r
<1>11. Rearranged(LinesOf(Kept), LinesOf(Kept'))
  BY <1>7, <1>8, <1>9, <1>10, PlacesRenamed
<1>12. SoFar' = SoFar
  BY <1>1 DEF SoFar
<1> QED BY <1>1, <1>11, <1>12, KeptRearranged DEF Holding

(* Places that stay, or are emptied, or appear empty.                      *)
LEMMA PlacesStay ==
  ASSUME NEW F, NEW G, DOMAIN F \subseteq DOMAIN G,
         \A c \in DOMAIN F : G[c] = F[c],
         \A d \in DOMAIN G \ DOMAIN F : G[d] = <<>>
  PROVE  Rearranged(LinesOf(F), LinesOf(G)) /\ Rearranged(LinesOf(G), LinesOf(F))
<1> DEFINE r == [c \in DOMAIN F |-> c]
<1>1. r \in [DOMAIN F -> DOMAIN G] /\ \A c, d \in DOMAIN F : r[c] = r[d] => c = d
  OBVIOUS
<1>2. \A c \in DOMAIN F : Rearranged(F[c], G[r[c]])
  BY RearrangedIsReflexive
<1>3. ASSUME NEW d \in DOMAIN G, \A c \in DOMAIN F : r[c] # d
      PROVE  DOMAIN G[d] = {}
  <2>1. d \notin DOMAIN F
    BY <1>3
  <2> QED BY <2>1
<1> HIDE DEF r
<1>4. Rearranged(LinesOf(F), LinesOf(G))
  BY <1>1, <1>2, <1>3, PlacesRenamed
<1> QED BY <1>4, RearrangedIsSymmetric

LEMMA AllReadKeeps ==
  ASSUME LinesKept, AllRead
  PROVE  LinesKept'
<1>1. /\ sorting = "reading" /\ sorting' = "grouping" /\ lines = <<>>
      /\ UNCHANGED <<input, read, runs>>
  BY DEF AllRead
<1>2. Places = {LinesPlace} \union RunPlaces(DOMAIN runs) /\ Places' = RunPlaces(DOMAIN runs)
  BY <1>1, PlacesByStage, PlacesByStageNext
<1>3. DOMAIN Kept' \subseteq DOMAIN Kept /\ DOMAIN Kept \ DOMAIN Kept' \subseteq {LinesPlace}
  BY <1>2, KeptFacts, KeptFactsNext
<1>4. \A c \in DOMAIN Kept' : Kept[c] = Kept'[c]
  <2> SUFFICES ASSUME NEW n \in DOMAIN runs
               PROVE  Kept[RunPlace(n)] = Kept'[RunPlace(n)]
    BY <1>2, KeptFactsNext DEF RunPlaces
  <2>1. RunPlace(n) \in Places /\ RunPlace(n) \in Places'
    BY <1>2 DEF RunPlaces
  <2> QED BY <1>1, <2>1, KeptFacts, KeptFactsNext
<1>5. \A d \in DOMAIN Kept \ DOMAIN Kept' : Kept[d] = <<>>
  BY <1>1, <1>2, <1>3, KeptFacts
<1>6. Rearranged(LinesOf(Kept), LinesOf(Kept'))
  BY <1>3, <1>4, <1>5, PlacesStay
<1>7. SoFar' = SoFar
  BY <1>1 DEF SoFar
<1> QED BY <1>1, <1>6, <1>7, KeptRearranged DEF Holding

LEMMA RenameRunKeeps ==
  ASSUME RunInv, LinesKept, RenameRun
  PROVE  LinesKept'
<1> DEFINE old == <<pass.generation, pass.offset>>
           r == [c \in Places |-> IF c = RunPlace(old) THEN RunPlace(Output) ELSE c]
<1>1. /\ sorting = "grouping" /\ sorting' = "grouping" /\ AtGroup /\ GroupSize = 1
      /\ runs' = [n \in (DOMAIN runs \ Group) \union {Output} |->
                    IF n = Output THEN runs[old] ELSE runs[n]]
      /\ UNCHANGED <<input, read>>
  BY DEF RenameRun, AtGroup
<1>2. /\ pass \in PassType /\ pass.offset < pass.active
      /\ DOMAIN runs = Remaining \union Made
  BY <1>1 DEF RunInv, AtGroup
<1>3. old \in DOMAIN runs /\ Output \notin DOMAIN runs
  BY <1>1, <1>2, GroupIsThere, GroupLeaves
<1>4. Group = {old}
  <2>1. 0 .. GroupSize - 1 = {0}
    BY <1>1
  <2>2. pass.offset + 0 = pass.offset
    BY <1>2 DEF PassType
  <2> QED BY <2>1, <2>2 DEF Group
<1> HIDE DEF old
<1>5. /\ DOMAIN runs' = (DOMAIN runs \ {old}) \union {Output} /\ runs'[Output] = runs[old]
      /\ \A n \in DOMAIN runs \ {old} : runs'[n] = runs[n]
  BY <1>1, <1>3, <1>4
<1>6. /\ Places = RunPlaces(DOMAIN runs) /\ Places' = RunPlaces(DOMAIN runs')
  BY <1>1, PlacesByStage, PlacesByStageNext
<1>7. /\ DOMAIN Kept = Places /\ DOMAIN Kept' = Places'
      /\ \A n \in DOMAIN runs : Kept[RunPlace(n)] = runs[n]
      /\ \A n \in DOMAIN runs' : Kept'[RunPlace(n)] = runs'[n]
  BY <1>6, KeptFacts, KeptFactsNext DEF RunPlaces
<1>8. /\ r \in [DOMAIN Kept -> DOMAIN Kept']
      /\ \A c, d \in DOMAIN Kept : r[c] = r[d] => c = d
  BY <1>3, <1>5, <1>6, <1>7, PlacesDiffer DEF RunPlaces
<1>9. ASSUME NEW c \in DOMAIN Kept
      PROVE  Rearranged(Kept[c], Kept'[r[c]])
  <2>1. PICK n \in DOMAIN runs : c = RunPlace(n)
    BY <1>6, <1>7 DEF RunPlaces
  <2>2. Kept'[r[c]] = Kept[c]
    <3>1. CASE n = old
      BY <1>5, <1>7, <2>1, <3>1
    <3>2. CASE n # old
      <4>1. r[c] = RunPlace(n) /\ n \in DOMAIN runs'
        BY <1>5, <1>7, <2>1, <3>2, PlacesDiffer
      <4> QED BY <1>5, <1>7, <2>1, <3>2, <4>1
    <3> QED BY <3>1, <3>2
  <2> QED BY <2>2, RearrangedIsReflexive
<1>10. ASSUME NEW d \in DOMAIN Kept'
       PROVE  \E c \in DOMAIN Kept : r[c] = d
  <2>1. PICK n \in DOMAIN runs' : d = RunPlace(n)
    BY <1>6, <1>7 DEF RunPlaces
  <2>2. CASE n = Output
    <3>1. RunPlace(old) \in DOMAIN Kept
      BY <1>3, <1>6, <1>7 DEF RunPlaces
    <3> QED BY <1>7, <2>1, <2>2, <3>1
  <2>3. CASE n # Output
    <3>1. n \in DOMAIN runs /\ n # old
      BY <1>5, <2>1, <2>3
    <3>2. RunPlace(n) \in DOMAIN Kept /\ RunPlace(n) # RunPlace(old)
      BY <1>6, <1>7, <3>1, PlacesDiffer DEF RunPlaces
    <3> QED BY <1>7, <2>1, <3>2
  <2> QED BY <2>2, <2>3
<1> HIDE DEF r
<1>11. Rearranged(LinesOf(Kept), LinesOf(Kept'))
  BY <1>8, <1>9, <1>10, PlacesRenamed
<1>12. SoFar' = SoFar
  BY <1>1 DEF SoFar
<1> QED BY <1>1, <1>11, <1>12, KeptRearranged DEF Holding

LEMMA StartMergeKeeps ==
  ASSUME RunInv, LinesKept, StartMerge
  PROVE  LinesKept'
<1> DEFINE at(i) == <<pass.generation, pass.offset + i - 1>>
           number(n) == n[2] - pass.offset + 1
           r == [c \in Places |-> IF c[2] \in Group THEN HeadPlace(number(c[2])) ELSE c]
<1>1. /\ sorting = "grouping" /\ sorting' = "merging" /\ AtGroup
      /\ heads' = [i \in 1 .. GroupSize |-> runs[at(i)]]
      /\ runs' = With(Output, <<>>) /\ UNCHANGED <<input, read, pass>>
  BY DEF StartMerge, AtGroup
<1>2. /\ pass \in PassType /\ pass.offset < pass.active
      /\ DOMAIN runs = Remaining \union Made
  BY <1>1 DEF RunInv, AtGroup
<1>3. Output \notin DOMAIN runs /\ Output \notin Group /\ Group \subseteq DOMAIN runs /\ Group' = Group
  BY <1>1, <1>2, GroupLeaves DEF Group, GroupSize
<1>4. /\ DOMAIN heads' = 1 .. GroupSize
      /\ \A i \in 1 .. GroupSize : heads'[i] = runs[at(i)] /\ at(i) \in Group /\ number(at(i)) = i
  <2>1. pass.offset \in Nat /\ GroupSize \in Nat
    BY <1>2, GroupFits DEF PassType
  <2>2. ASSUME NEW i \in 1 .. GroupSize
        PROVE  at(i) \in Group /\ number(at(i)) = i
    <3>1. i - 1 \in 0 .. GroupSize - 1 /\ pass.offset + (i - 1) = pass.offset + i - 1
      BY <2>1
    <3>2. at(i) \in Group
      BY <3>1 DEF Group
    <3>3. at(i)[2] = pass.offset + i - 1
      OBVIOUS
    <3>4. (pass.offset + i - 1) - pass.offset + 1 = i
      BY <2>1
    <3> QED BY <3>2, <3>3, <3>4
  <2> QED BY <1>1, <2>2
<1>5. \A n \in Group : number(n) \in 1 .. GroupSize /\ at(number(n)) = n
  <2>1. pass.offset \in Nat /\ GroupSize \in Nat
    BY <1>2, GroupFits DEF PassType
  <2>2. ASSUME NEW k \in 0 .. GroupSize - 1, NEW n, n = <<pass.generation, pass.offset + k>>
        PROVE  number(n) \in 1 .. GroupSize /\ at(number(n)) = n
    <3>1. pass.offset + k - pass.offset + 1 = k + 1 /\ k + 1 \in 1 .. GroupSize
          /\ pass.offset + (k + 1) - 1 = pass.offset + k
      BY <2>1
    <3>2. n[2] = pass.offset + k
      BY <2>2
    <3>3. number(n) = k + 1
      BY <2>1, <3>2
    <3>4. at(k + 1) = <<pass.generation, pass.offset + k>>
      BY <3>1
    <3> HIDE DEF number, at
    <3> QED BY <2>2, <3>1, <3>3, <3>4
  <2> QED BY <2>2 DEF Group
<1> HIDE DEF at, number
<1>6. /\ DOMAIN runs' = DOMAIN runs \union {Output} /\ runs'[Output] = <<>>
      /\ \A n \in DOMAIN runs : runs'[n] = runs[n]
  BY <1>1, <1>3 DEF With
<1>7. /\ Places = RunPlaces(DOMAIN runs)
      /\ Places' = RunPlaces(DOMAIN runs' \ Group) \union HeadPlaces(1 .. GroupSize)
  BY <1>1, <1>3, <1>4, PlacesByStage, PlacesByStageNext
<1>8. /\ DOMAIN Kept = Places /\ DOMAIN Kept' = Places'
      /\ \A n \in DOMAIN runs : Kept[RunPlace(n)] = runs[n]
      /\ \A n \in DOMAIN runs' \ Group : Kept'[RunPlace(n)] = runs'[n]
      /\ \A i \in 1 .. GroupSize : Kept'[HeadPlace(i)] = heads'[i]
  BY <1>7, KeptFacts, KeptFactsNext DEF RunPlaces, HeadPlaces
<1>9. \A n \in DOMAIN runs :
        /\ RunPlace(n) \in DOMAIN Kept
        /\ n \in Group => r[RunPlace(n)] = HeadPlace(number(n))
        /\ n \notin Group => r[RunPlace(n)] = RunPlace(n)
  <2>1. \A n : RunPlace(n)[2] = n
    BY DEF RunPlace
  <2> QED BY <1>7, <1>8, <2>1 DEF RunPlaces
<1> HIDE DEF r
<1>10. ASSUME NEW c \in DOMAIN Kept
       PROVE  r[c] \in DOMAIN Kept' /\ Kept'[r[c]] = Kept[c]
  <2>1. PICK n \in DOMAIN runs : c = RunPlace(n)
    BY <1>7, <1>8 DEF RunPlaces
  <2>2. CASE n \in Group
    <3>1. number(n) \in 1 .. GroupSize /\ at(number(n)) = n
      BY <1>5, <2>2
    <3>2. HeadPlace(number(n)) \in DOMAIN Kept'
      BY <1>7, <1>8, <3>1 DEF HeadPlaces
    <3> QED BY <1>4, <1>8, <1>9, <2>1, <2>2, <3>1, <3>2
  <2>3. CASE n \notin Group
    <3>1. RunPlace(n) \in DOMAIN Kept' /\ n \in DOMAIN runs' \ Group
      BY <1>6, <1>7, <1>8, <2>3 DEF RunPlaces
    <3> QED BY <1>6, <1>8, <1>9, <2>1, <2>3, <3>1
  <2> QED BY <2>2, <2>3
<1>11. ASSUME NEW c \in DOMAIN Kept, NEW d \in DOMAIN Kept, r[c] = r[d]
       PROVE  c = d
  <2>1. PICK n \in DOMAIN runs : c = RunPlace(n)
    BY <1>7, <1>8 DEF RunPlaces
  <2>2. PICK m \in DOMAIN runs : d = RunPlace(m)
    BY <1>7, <1>8 DEF RunPlaces
  <2>3. CASE n \in Group /\ m \in Group
    <3>1. number(n) = number(m)
      BY <1>9, <1>11, <2>1, <2>2, <2>3, PlacesDiffer
    <3> QED BY <1>5, <2>1, <2>2, <2>3, <3>1
  <2>4. CASE n \notin Group /\ m \notin Group
    BY <1>9, <1>11, <2>1, <2>2, <2>4
  <2>5. CASE (n \in Group /\ m \notin Group) \/ (n \notin Group /\ m \in Group)
    BY <1>9, <1>11, <2>1, <2>2, <2>5, PlacesDiffer
  <2> QED BY <2>3, <2>4, <2>5
<1>12. ASSUME NEW d \in DOMAIN Kept', \A c \in DOMAIN Kept : r[c] # d
       PROVE  DOMAIN Kept'[d] = {}
  <2>1. CASE d \in HeadPlaces(1 .. GroupSize)
    <3>1. PICK i \in 1 .. GroupSize : d = HeadPlace(i)
      BY <2>1 DEF HeadPlaces
    <3>2. at(i) \in Group /\ at(i) \in DOMAIN runs /\ number(at(i)) = i
      BY <1>3, <1>4
    <3> QED BY <1>9, <1>12, <3>1, <3>2
  <2>2. CASE d \in RunPlaces(DOMAIN runs' \ Group)
    <3>1. PICK n \in DOMAIN runs' \ Group : d = RunPlace(n)
      BY <2>2 DEF RunPlaces
    <3>2. n = Output
      BY <1>6, <1>9, <1>12, <3>1
    <3> QED BY <1>6, <1>8, <3>1, <3>2
  <2> QED BY <1>7, <1>8, <2>1, <2>2
<1>13. r \in [DOMAIN Kept -> DOMAIN Kept']
  BY <1>8, <1>10 DEF r
<1>14. \A c \in DOMAIN Kept : Rearranged(Kept[c], Kept'[r[c]])
  BY <1>10, RearrangedIsReflexive
<1>15. Rearranged(LinesOf(Kept), LinesOf(Kept'))
  BY <1>11, <1>12, <1>13, <1>14, PlacesRenamed
<1>16. SoFar' = SoFar
  BY <1>1 DEF SoFar
<1> QED BY <1>1, <1>15, <1>16, KeptRearranged DEF Holding

LEMMA MergeLineKeeps ==
  ASSUME RunInv, Sortable, SequencesOfInputs, LinesKept, MergeLine
  PROVE  LinesKept'
<1>1. /\ sorting = "merging" /\ sorting' = "merging" /\ UNCHANGED <<input, read, pass>>
      /\ Group' = Group
  BY DEF MergeLine, Group, GroupSize
<1>2. PICK i \in DOMAIN heads :
        /\ i \in Waiting
        /\ runs' = [runs EXCEPT ![Output] = Append(@, Head(heads[i]))]
        /\ heads' = [heads EXCEPT ![i] = Tail(@)]
  BY DEF MergeLine, Selected
<1>3. Output \in DOMAIN runs \ Group
  <2>1. pass \in PassType /\ pass.offset < pass.active /\ Output \in DOMAIN runs
    BY <1>1 DEF RunInv, MergeHolds
  <2> QED BY <2>1, GroupLeaves
<1>4. /\ DOMAIN runs' = DOMAIN runs /\ DOMAIN heads' = DOMAIN heads
      /\ runs'[Output] = Append(runs[Output], Head(heads[i]))
      /\ \A n \in DOMAIN runs \ {Output} : runs'[n] = runs[n]
      /\ heads'[i] = Tail(heads[i])
      /\ \A j \in DOMAIN heads \ {i} : heads'[j] = heads[j]
  BY <1>2, <1>3
<1>5. /\ Places = RunPlaces(DOMAIN runs \ Group) \union HeadPlaces(DOMAIN heads)
      /\ Places' = Places
  BY <1>1, <1>4, PlacesByStage, PlacesByStageNext
<1>6. /\ DOMAIN Kept = Places /\ DOMAIN Kept' = Places
      /\ \A n \in DOMAIN runs \ Group : Kept[RunPlace(n)] = runs[n] /\ Kept'[RunPlace(n)] = runs'[n]
      /\ \A j \in DOMAIN heads : Kept[HeadPlace(j)] = heads[j] /\ Kept'[HeadPlace(j)] = heads'[j]
  BY <1>5, KeptFacts, KeptFactsNext DEF RunPlaces, HeadPlaces
<1> DEFINE from == HeadPlace(i)
           to == RunPlace(Output)
<1>7. from \in DOMAIN Kept /\ to \in DOMAIN Kept /\ from # to
  BY <1>3, <1>5, <1>6, PlacesDiffer DEF RunPlaces, HeadPlaces
<1>8. /\ Kept[from] # <<>> /\ Kept'[from] = Tail(Kept[from])
      /\ Kept'[to] = Append(Kept[to], Head(Kept[from]))
  BY <1>2, <1>3, <1>4, <1>6 DEF Waiting
<1>9. ASSUME NEW c \in DOMAIN Kept \ {from, to}
      PROVE  Kept'[c] = Kept[c]
  <2>1. CASE c \in RunPlaces(DOMAIN runs \ Group)
    <3>1. PICK n \in DOMAIN runs \ Group : c = RunPlace(n)
      BY <2>1 DEF RunPlaces
    <3> QED BY <1>4, <1>6, <3>1
  <2>2. CASE c \in HeadPlaces(DOMAIN heads)
    <3>1. PICK j \in DOMAIN heads : c = HeadPlace(j)
      BY <2>2 DEF HeadPlaces
    <3> QED BY <1>4, <1>6, <3>1
  <2> QED BY <1>5, <1>6, <2>1, <2>2
<1>10. \A c \in DOMAIN Kept : Kept[c] \in Seq(Inputs)
  BY <1>1, KeptAreSequences DEF Holding
<1>11. DOMAIN Kept' = DOMAIN Kept
  BY <1>6
<1> HIDE DEF from, to
<1>12. Rearranged(LinesOf(Kept), LinesOf(Kept'))
  BY <1>7, <1>8, <1>9, <1>10, <1>11, LineMoved
<1>13. SoFar' = SoFar
  BY <1>1 DEF SoFar
<1> QED BY <1>1, <1>12, <1>13, KeptRearranged DEF Holding

LEMMA EndMergeKeeps ==
  ASSUME LinesKept, EndMerge
  PROVE  LinesKept'
<1>1. /\ sorting = "merging" /\ sorting' = "grouping" /\ UNCHANGED <<input, read>>
      /\ \A i \in DOMAIN heads : heads[i] = <<>>
      /\ DOMAIN runs' = DOMAIN runs \ Group /\ \A n \in DOMAIN runs' : runs'[n] = runs[n]
  BY DEF EndMerge, Waiting, Without
<1>2. /\ Places = RunPlaces(DOMAIN runs') \union HeadPlaces(DOMAIN heads)
      /\ Places' = RunPlaces(DOMAIN runs')
  BY <1>1, PlacesByStage, PlacesByStageNext
<1>3. /\ DOMAIN Kept = Places /\ DOMAIN Kept' = Places'
      /\ \A n \in DOMAIN runs' : Kept[RunPlace(n)] = runs[n] /\ Kept'[RunPlace(n)] = runs'[n]
      /\ \A i \in DOMAIN heads : Kept[HeadPlace(i)] = heads[i]
  BY <1>2, KeptFacts, KeptFactsNext DEF RunPlaces, HeadPlaces
<1>4. DOMAIN Kept' \subseteq DOMAIN Kept
  BY <1>2, <1>3
<1>5. \A c \in DOMAIN Kept' : Kept[c] = Kept'[c]
  BY <1>1, <1>2, <1>3 DEF RunPlaces
<1>6. \A d \in DOMAIN Kept \ DOMAIN Kept' : Kept[d] = <<>>
  BY <1>1, <1>2, <1>3 DEF HeadPlaces
<1>7. Rearranged(LinesOf(Kept), LinesOf(Kept'))
  BY <1>4, <1>5, <1>6, PlacesStay
<1>8. SoFar' = SoFar
  BY <1>1 DEF SoFar
<1> QED BY <1>1, <1>7, <1>8, KeptRearranged DEF Holding

LEMMA NextGenerationKeeps ==
  ASSUME LinesKept, NextGeneration
  PROVE  LinesKept'
<1>1. /\ sorting = "grouping" /\ sorting' = "grouping"
      /\ UNCHANGED <<input, read, lines, runs, heads, sorted>>
  BY DEF NextGeneration
<1>2. Places' = Places
  BY <1>1, PlacesByStage, PlacesByStageNext
<1>3. Kept' = Kept /\ SoFar' = SoFar
  BY <1>1, <1>2 DEF Kept, SoFar
<1> QED BY <1>1, <1>3 DEF LinesKept

LEMMA EndSortKeeps ==
  ASSUME RunInv, LinesKept, EndSort
  PROVE  LinesKept'
<1> DEFINE last == <<pass.generation, 0>>
           r == [c \in Places |-> SortedPlace]
<1>1. /\ sorting = "grouping" /\ sorting' = "sorted" /\ pass.active <= 1
      /\ sorted' = IF pass.active = 0 THEN <<>> ELSE runs[last]
      /\ UNCHANGED <<input, read>>
  BY DEF EndSort
<1>2. DOMAIN runs = IF pass.active = 0 THEN {} ELSE {last}
  <2>1. /\ pass \in PassType /\ DOMAIN runs = Remaining \union Made
        /\ pass.offset = 0 /\ pass.next = 0
    BY <1>1 DEF RunInv, Settled
  <2>2. Made = {}
    BY <2>1 DEF Made
  <2>3. pass.active = 0 \/ pass.active = 1
    BY <1>1, <2>1 DEF PassType
  <2>4. CASE pass.active = 0
    BY <2>1, <2>2, <2>4 DEF Remaining
  <2>5. CASE pass.active = 1
    <3>1. 0 .. 1 - 1 = {0}
      OBVIOUS
    <3> QED BY <2>1, <2>2, <2>5, <3>1 DEF Remaining
  <2> QED BY <2>3, <2>4, <2>5
<1> HIDE DEF last
<1>3. Places = RunPlaces(DOMAIN runs) /\ Places' = {SortedPlace}
  BY <1>1, PlacesByStage, PlacesByStageNext
<1>4. /\ DOMAIN Kept = RunPlaces(DOMAIN runs) /\ DOMAIN Kept' = {SortedPlace}
      /\ \A n \in DOMAIN runs : Kept[RunPlace(n)] = runs[n]
      /\ Kept'[SortedPlace] = sorted'
  BY <1>3, KeptFacts, KeptFactsNext DEF RunPlaces
<1>5. r \in [DOMAIN Kept -> DOMAIN Kept'] /\ \A c \in DOMAIN Kept : r[c] = SortedPlace
  BY <1>3, <1>4
<1>6. \A c, d \in DOMAIN Kept : r[c] = r[d] => c = d
  BY <1>2, <1>4 DEF RunPlaces
<1>7. ASSUME NEW c \in DOMAIN Kept
      PROVE  Rearranged(Kept[c], Kept'[r[c]])
  <2>1. PICK n \in DOMAIN runs : c = RunPlace(n)
    BY <1>4 DEF RunPlaces
  <2>2. n = last /\ pass.active # 0
    BY <1>2
  <2>3. Kept'[r[c]] = Kept[c]
    BY <1>1, <1>4, <1>5, <2>1, <2>2
  <2> QED BY <2>3, RearrangedIsReflexive
<1>8. ASSUME NEW d \in DOMAIN Kept', \A c \in DOMAIN Kept : r[c] # d
      PROVE  DOMAIN Kept'[d] = {}
  <2>1. d = SortedPlace
    BY <1>4
  <2>2. DOMAIN runs = {}
    <3> SUFFICES ASSUME NEW n \in DOMAIN runs PROVE FALSE
      OBVIOUS
    <3>1. RunPlace(n) \in DOMAIN Kept
      BY <1>4 DEF RunPlaces
    <3> HIDE DEF r
    <3> QED BY <1>5, <1>8, <2>1, <3>1
  <2>3. sorted' = <<>>
    BY <1>1, <1>2, <2>2
  <2> QED BY <1>4, <2>1, <2>3
<1> HIDE DEF r
<1>9. Rearranged(LinesOf(Kept), LinesOf(Kept'))
  BY <1>5, <1>6, <1>7, <1>8, PlacesRenamed
<1>10. SoFar' = SoFar
  BY <1>1 DEF SoFar
<1> QED BY <1>1, <1>9, <1>10, KeptRearranged DEF Holding

LEMMA KeptStep ==
  ASSUME RunInv, Sortable, SequencesOfInputs, LinesKept, SortStep
  PROVE  LinesKept'
BY ReadLineKeeps, FlushRunKeeps, AllReadKeeps, RenameRunKeeps, StartMergeKeeps, MergeLineKeeps,
   EndMergeKeeps, NextGenerationKeeps, EndSortKeeps DEF SortStep

(***************************************************************************)
(* The whole sort.                                                         *)
(***************************************************************************)
(* A sort that begins has read and written nothing.                        *)
LEMMA NothingIsKept ==
  ASSUME read' = 0, lines' = <<>>, heads' = <<>>, sorted' = <<>>, DOMAIN runs' = {},
         input' \in Seq(Inputs'), sorting' \in {"reading", "idle"}
  PROVE  SequencesOfInputs' /\ LinesKept' /\ AllInOrder'
<1>1. SequencesOfInputs'
  <2>1. Len(input') \in Nat /\ <<>> \in Seq(Inputs')
    OBVIOUS
  <2> QED BY <2>1 DEF SequencesOfInputs, Holding
<1>2. AllInOrder'
  BY EmptyIsInOrder DEF AllInOrder
<1>3. ASSUME sorting' = "reading"
      PROVE  Rearranged(SoFar', LinesOf(Kept'))
  <2>1. Places' = {LinesPlace}
    BY <1>3, PlacesByStageNext DEF RunPlaces
  <2>2. DOMAIN Kept' = {LinesPlace} /\ Kept'[LinesPlace] = <<>>
    BY <2>1, KeptFactsNext
  <2>3. Rearranged(LinesOf(Kept'), <<>>)
    BY <2>2, OnePlace
  <2>4. Rearranged(<<>>, LinesOf(Kept'))
    BY <2>3, RearrangedIsSymmetric
  <2>5. SoFar' = <<>>
    BY DEF SoFar
  <2> QED BY <2>4, <2>5
<1> QED BY <1>1, <1>2, <1>3 DEF LinesKept, Holding

(* SortInv is kept by every step.                                          *)
LEMMA SortInvStep ==
  ASSUME SortInv, [SortNext]_sorter
  PROVE  SortInv'
<1>1. RunInv'
  BY RunInvStep DEF SortInv
<1> SUFFICES ASSUME Sortable'
             PROVE  SequencesOfInputs' /\ LinesKept' /\ AllInOrder'
  BY <1>1 DEF SortInv
<1>2. CASE UNCHANGED sorter
  <2>1. Sortable /\ SequencesOfInputs /\ LinesKept /\ AllInOrder
    BY <1>2 DEF sorter, Sortable, Inputs, SortInv
  <2>2. /\ input' = input /\ sorting' = sorting /\ read' = read /\ lines' = lines /\ runs' = runs
        /\ heads' = heads /\ sorted' = sorted /\ pass' = pass
    BY <1>2 DEF sorter
  <2>3. SequencesOfInputs'
    BY <2>1, <2>2 DEF SequencesOfInputs, Inputs
  <2>4. AllInOrder'
    BY <2>1, <2>2 DEF AllInOrder, Waiting, Output
  <2>5. LinesKept'
    BY <2>1, <2>2 DEF LinesKept, SoFar, Kept, Places, Group, GroupSize
  <2> QED BY <2>3, <2>4, <2>5
<1>3. CASE SortStep
  <2>1. input' = input
    BY <1>3 DEF SortStep, ReadLine, FlushRun, AllRead, RenameRun, StartMerge, MergeLine,
       EndMerge, NextGeneration, EndSort
  <2>2. Sortable
    BY <2>1 DEF Sortable, Inputs
  <2>3. RunInv /\ SequencesOfInputs /\ LinesKept /\ AllInOrder
    BY <2>2 DEF SortInv
  <2> QED BY <1>3, <2>2, <2>3, SequencesStep, KeptStep, OrderStep
<1>4. CASE FailSort
  <2>1. /\ UNCHANGED <<input, read, sorted>> /\ sorting' = "failed"
        /\ lines' = <<>> /\ heads' = <<>> /\ DOMAIN runs' = {}
    BY <1>4 DEF FailSort, CleanupGeneratedRuns, NoRuns
  <2>2. Sortable
    BY <2>1 DEF Sortable, Inputs
  <2>3. SequencesOfInputs /\ AllInOrder
    BY <2>2 DEF SortInv
  <2>4. SequencesOfInputs'
    BY <2>1, <2>3 DEF SequencesOfInputs, Inputs, Holding
  <2>5. AllInOrder'
    BY <2>1, <2>3 DEF AllInOrder
  <2> QED BY <2>1, <2>4, <2>5 DEF LinesKept, Holding
<1>5. ASSUME SortReturns \/ \E s : BeginSort(s)
      PROVE  SequencesOfInputs' /\ LinesKept' /\ AllInOrder'
  <2>1. /\ read' = 0 /\ lines' = <<>> /\ heads' = <<>> /\ sorted' = <<>> /\ DOMAIN runs' = {}
        /\ sorting' \in {"reading", "idle"}
    BY <1>5 DEF SortReturns, BeginSort, NoRuns
  <2>2. input' \in Seq(Inputs')
    BY DEF Sortable
  <2> QED BY <2>1, <2>2, NothingIsKept
<1> QED BY <1>2, <1>3, <1>4, <1>5 DEF SortNext

LEMMA SortInvInit ==
  ASSUME SortInit
  PROVE  SortInv
<1>1. /\ pass = FirstPass /\ DOMAIN runs = {} /\ sorting = "idle" /\ input = <<>> /\ read = 0
      /\ lines = <<>> /\ heads = <<>> /\ sorted = <<>>
  BY DEF SortInit, NoRuns
<1>2. RunInv
  BY <1>1 DEF RunInv, FirstPass, PassType
<1>3. SequencesOfInputs
  <2>1. Len(input) \in Nat /\ <<>> \in Seq(Inputs)
    BY <1>1
  <2> QED BY <1>1, <2>1 DEF SequencesOfInputs, Holding
<1>4. AllInOrder
  BY <1>1, EmptyIsInOrder DEF AllInOrder
<1> QED BY <1>1, <1>2, <1>3, <1>4 DEF SortInv, LinesKept, Holding

LEMMA SortedIsRearranged ==
  ASSUME SortInv, Sortable, sorting = "sorted"
  PROVE  sorted \in Seq(Inputs) /\ Rearranged(input, sorted) /\ InOrder(sorted)
<1>1. RunInv /\ SequencesOfInputs /\ LinesKept /\ AllInOrder
  BY DEF SortInv
<1>2. /\ read = Len(input) /\ sorted \in Seq(Inputs) /\ input \in Seq(Inputs)
  BY <1>1 DEF SequencesOfInputs, Holding, Sortable
<1>3. SoFar = input
  BY <1>2 DEF SoFar
<1>4. DOMAIN Kept = {SortedPlace} /\ Kept[SortedPlace] = sorted
  BY PlacesByStage, KeptFacts
<1>5. Rearranged(input, LinesOf(Kept)) /\ Rearranged(LinesOf(Kept), sorted)
  BY <1>1, <1>3, <1>4, OnePlace DEF LinesKept, Holding
<1>6. Rearranged(input, sorted)
  BY <1>5, RearrangedIsTransitive
<1> QED BY <1>1, <1>2, <1>6 DEF AllInOrder

LEMMA SortInvIsWhole ==
  ASSUME SortInv, Sortable
  PROVE  SortedIsWhole
<1> SUFFICES ASSUME sorting = "sorted"
             PROVE  /\ InOrder(sorted) /\ Len(sorted) = Len(input)
                    /\ \A i \in DOMAIN input : Times(sorted, input[i]) = Times(input, input[i])
                    /\ DOMAIN runs = {}
  BY DEF SortedIsWhole
<1>1. RunInv
  BY DEF SortInv
<1>2. input \in Seq(Inputs)
  BY DEF Sortable
<1>3. sorted \in Seq(Inputs) /\ Rearranged(input, sorted) /\ InOrder(sorted)
  BY SortedIsRearranged
<1>4. Len(sorted) = Len(input) /\ \A line : Times(input, line) = Times(sorted, line)
  BY <1>2, <1>3, RearrangedCounts
<1> QED BY <1>1, <1>3, <1>4 DEF RunInv

(***************************************************************************)
(* Hashes and the texts of lines.                                          *)
(***************************************************************************)
LEMMA ConcatFacts ==
  ASSUME NEW s \in Seq(Nat), NEW t \in Seq(Nat)
  PROVE  /\ s \o t \in Seq(Nat) /\ Len(s \o t) = Len(s) + Len(t)
         /\ \A i \in 1 .. Len(s) : (s \o t)[i] = s[i]
         /\ \A i \in 1 .. Len(t) : (s \o t)[Len(s) + i] = t[i]
<1>1. /\ s \o t \in Seq(Nat) /\ Len(s \o t) = Len(s) + Len(t) /\ Len(s) \in Nat /\ Len(t) \in Nat
      /\ \A i \in 1 .. Len(s) + Len(t) : (s \o t)[i] = IF i <= Len(s) THEN s[i] ELSE t[i - Len(s)]
  BY ConcatProperties
<1>2. \A i \in 1 .. Len(t) :
        Len(s) + i \in 1 .. Len(s) + Len(t) /\ ~(Len(s) + i <= Len(s)) /\ Len(s) + i - Len(s) = i
  BY <1>1
<1>3. \A i \in 1 .. Len(s) : i \in 1 .. Len(s) + Len(t) /\ i <= Len(s)
  BY <1>1
<1> QED BY <1>1, <1>2, <1>3

(* c is what s, of length m, and t, of length k, are put together.         *)
Joined(c, s, m, t, k) ==
  /\ c \in Seq(Nat) /\ Len(c) = m + k
  /\ \A i \in 1 .. m : c[i] = s[i]
  /\ \A i \in 1 .. k : c[m + i] = t[i]

LEMMA ConcatAt ==
  ASSUME NEW s \in Seq(Nat), NEW m, Len(s) = m,
         NEW t \in Seq(Nat), NEW k, Len(t) = k
  PROVE  Joined(s \o t, s, m, t, k)
BY ConcatFacts DEF Joined

LEMMA HashFacts ==
  ASSUME NEW row \in CanonicalRow
  PROVE  LET h == NormalizedHash(row) f == row.facts IN
         /\ h \in Seq(Nat) /\ Len(h) = 8
         /\ h[1] = row.quantity /\ h[2] = f.listingId /\ h[3] = f.revision /\ h[4] = f.ended
         /\ h[5] = f.price /\ h[6] = row.sku /\ h[7] = row.variant /\ h[8] = row.listing
<1> DEFINE f == row.facts
           a == <<row.quantity>>
           b == <<f.listingId, f.revision, f.ended, f.price>>
           c == <<row.sku, row.variant, row.listing>>
<1>1. /\ row.quantity \in Nat /\ row.sku \in Nat /\ row.variant \in Nat /\ row.listing \in Nat
      /\ f.listingId \in Nat /\ f.revision \in Nat /\ f.ended \in Nat /\ f.price \in Nat
  BY DEF CanonicalRow, Facts
<1>2. a \in Seq(Nat) /\ b \in Seq(Nat) /\ c \in Seq(Nat)
  BY <1>1
<1>3. Len(a) = 1 /\ Len(b) = 4 /\ Len(c) = 3 /\ a[1] = row.quantity
      /\ b[1] = f.listingId /\ b[2] = f.revision /\ b[3] = f.ended /\ b[4] = f.price
      /\ c[1] = row.sku /\ c[2] = row.variant /\ c[3] = row.listing
  OBVIOUS
<1>4. NormalizedHash(row) = (a \o b) \o c
  BY DEF NormalizedHash, ListingFactsHash
<1> HIDE DEF a, b, c
<1>a. 1 \in Nat /\ 4 \in Nat /\ 5 \in Nat /\ 3 \in Nat /\ 1 + 4 = 5 /\ 5 + 3 = 8
  OBVIOUS
<1>5. /\ a \o b \in Seq(Nat) /\ Len(a \o b) = 1 + 4
      /\ \A i \in 1 .. 1 : (a \o b)[i] = a[i]
      /\ \A i \in 1 .. 4 : (a \o b)[1 + i] = b[i]
  <2>1. Joined(a \o b, a, 1, b, 4)
    BY <1>2, <1>3, ConcatAt, Zenon
  <2> QED BY <2>1 DEF Joined
<1> DEFINE d == a \o b
           e == d \o c
<1> HIDE DEF d, e
<1>b. d \in Seq(Nat) /\ Len(d) = 5
  BY <1>5, <1>a DEF d
<1>6. /\ e \in Seq(Nat) /\ Len(e) = 5 + 3
      /\ \A i \in 1 .. 5 : e[i] = d[i]
      /\ \A i \in 1 .. 3 : e[5 + i] = c[i]
  <2>1. Joined(d \o c, d, 5, c, 3)
    BY <1>2, <1>3, <1>b, ConcatAt, Zenon
  <2> QED BY <2>1 DEF Joined, e
<1>7. /\ \A i \in 1 .. 1 : d[i] = a[i]
      /\ \A i \in 1 .. 4 : d[1 + i] = b[i]
  BY <1>5 DEF d
<1>8. d[1] = a[1] /\ d[1 + 1] = b[1] /\ d[1 + 2] = b[2] /\ d[1 + 3] = b[3] /\ d[1 + 4] = b[4]
  BY <1>7
<1>9. /\ e[1] = d[1] /\ e[2] = d[1 + 1] /\ e[3] = d[1 + 2] /\ e[4] = d[1 + 3] /\ e[5] = d[1 + 4]
      /\ e[5 + 1] = c[1] /\ e[5 + 2] = c[2] /\ e[5 + 3] = c[3]
  BY <1>6
<1>10. e[6] = c[1] /\ e[7] = c[2] /\ e[8] = c[3]
  BY <1>9
<1>11. NormalizedHash(row) = e
  BY <1>4 DEF d, e
<1> QED BY <1>3, <1>6, <1>8, <1>9, <1>10, <1>11

(* Rows of one hash are equal in all that is told of them.                 *)
LEMMA HashTells ==
  ASSUME NEW row \in CanonicalRow, NEW other \in CanonicalRow,
         NormalizedHash(row) = NormalizedHash(other)
  PROVE  RowIdentity(row) = RowIdentity(other)
BY HashFacts DEF RowIdentity

LEMMA IdentityFacts ==
  ASSUME NEW row \in CanonicalRow
  PROVE  /\ RowIdentity(row) \in Seq(Nat) /\ Len(RowIdentity(row)) = 2
         /\ RowIdentity(row)[1] = row.listing /\ RowIdentity(row)[2] = row.variant
BY DEF RowIdentity, CanonicalRow

LEMMA FactsTell ==
  ASSUME NEW row \in CanonicalRow, NEW other \in CanonicalRow
  PROVE  /\ ListingFactsHash(row) \in Seq(Nat) /\ Len(ListingFactsHash(row)) = 4
         /\ ListingFactsHash(row) = ListingFactsHash(other) <=> row.facts = other.facts
<1>1. row.facts \in Facts /\ other.facts \in Facts
  BY DEF CanonicalRow
<1>2. ListingFactsHash(row) \in Seq(Nat) /\ Len(ListingFactsHash(row)) = 4
  BY <1>1 DEF Facts, ListingFactsHash
<1>3. ASSUME ListingFactsHash(row) = ListingFactsHash(other)
      PROVE  row.facts = other.facts
  BY <1>1, <1>3 DEF Facts, ListingFactsHash
<1> QED BY <1>2, <1>3 DEF ListingFactsHash

(* What is known of a line of the index with a key of length k.            *)
IsIndexLine(line, kind, key, k, value, l, n) ==
  /\ line.kind = kind /\ line.key = key /\ line.value = value
  /\ line.text \in Seq(Nat) /\ Len(line.text) = k + l + 2
  /\ line.text[1] = KindOrder[kind] /\ line.text[k + l + 2] = n
  /\ \A i \in 1 .. k : line.text[1 + i] = key[i]

Kinds == {"H", "L", "S", "V"}

(* The text of a line of the identity index.                               *)
LEMMA IndexText ==
  ASSUME NEW kind \in Kinds, NEW key \in Seq(Nat), NEW value \in Seq(Nat),
         NEW n \in Nat
  PROVE  IsIndexLine(IndexLine(kind, key, value, n), kind, key, Len(key), value, Len(value), n)
<1> DEFINE a == <<KindOrder[kind]>>
           z == <<n>>
           text == IndexLine(kind, key, value, n).text
<1>1. a \in Seq(Nat) /\ Len(a) = 1 /\ a[1] = KindOrder[kind] /\ z \in Seq(Nat) /\ Len(z) = 1 /\ z[1] = n
  BY DEF KindOrder, Kinds
<1>2. text = ((a \o key) \o value) \o z
  BY DEF IndexLine
<1> HIDE DEF a, z
<1> DEFINE b == a \o key
           c == b \o value
           d == c \o z
           m == 1 + Len(key)
           l == m + Len(value)
<1> HIDE DEF b, c, d
<1>3. /\ 1 \in Nat /\ m \in Nat /\ l \in Nat /\ Len(key) \in Nat /\ Len(value) \in Nat
  OBVIOUS
<1>4. /\ b \in Seq(Nat) /\ Len(b) = m
      /\ \A i \in 1 .. 1 : b[i] = a[i]
      /\ \A i \in 1 .. Len(key) : b[1 + i] = key[i]
  <2>1. Joined(a \o key, a, 1, key, Len(key))
    BY <1>1, ConcatAt, Zenon
  <2> QED BY <2>1 DEF Joined, b, m
<1>5. /\ c \in Seq(Nat) /\ Len(c) = l
      /\ \A i \in 1 .. m : c[i] = b[i]
  <2>1. Joined(b \o value, b, m, value, Len(value))
    <3> HIDE DEF m
    <3> QED BY <1>4, ConcatAt, Zenon
  <2> HIDE DEF m
  <2> QED BY <2>1 DEF Joined, c, l
<1>6. /\ d \in Seq(Nat) /\ Len(d) = l + 1
      /\ \A i \in 1 .. l : d[i] = c[i]
      /\ \A i \in 1 .. 1 : d[l + i] = z[i]
  <2> HIDE DEF m, l
  <2>1. Joined(c \o z, c, l, z, 1)
    BY <1>1, <1>5, ConcatAt, Zenon
  <2> QED BY <2>1 DEF Joined, d
<1> HIDE DEF text
<1>7. text = d
  BY <1>2 DEF b, c, d
<1>8. text[1] = KindOrder[kind]
  <2>1. 1 \in 1 .. 1 /\ 1 \in 1 .. m /\ 1 \in 1 .. l
    BY <1>3
  <2> HIDE DEF m, l
  <2> QED BY <1>1, <1>4, <1>5, <1>6, <1>7, <2>1
<1>9. ASSUME NEW i \in 1 .. Len(key)
      PROVE  text[1 + i] = key[i]
  <2>1. 1 + i \in 1 .. m /\ 1 + i \in 1 .. l
    BY <1>3
  <2> HIDE DEF m, l
  <2> QED BY <1>4, <1>5, <1>6, <1>7, <2>1
<1>10. text[Len(text)] = n
  <2> HIDE DEF m, l
  <2> QED BY <1>1, <1>6, <1>7
<1>11. text \in Seq(Nat) /\ Len(text) = Len(key) + Len(value) + 2
  BY <1>3, <1>6, <1>7
<1>12. text[Len(key) + Len(value) + 2] = n
  BY <1>10, <1>11
<1> QED BY <1>8, <1>9, <1>11, <1>12 DEF text, IndexLine, IsIndexLine
(***************************************************************************)
(* What a call has done when it is at a stage.                             *)
(***************************************************************************)
SortStages == {"index", "rows", "generated", "existing"}

(* The stages before the source is known to be whole.                      *)
Reading == {"summary", "open", "parse"}

StagesOf(op) ==
  CASE op = "file" -> {"open", "parse", "index", "rows", "plan", "generated", "commit", "cleanup"}
    [] op = "browser" -> {"parse", "plan", "commit", "cleanup"}
    [] op = "replay" -> {"summary", "open", "parse", "index", "rows", "stream", "existing",
                         "join", "record", "cleanup"}

IsCall(j) ==
  j = [op |-> j.op, source |-> j.source, stage |-> j.stage, at |-> j.at,
       summary |-> j.summary, listing |-> j.listing, generated |-> j.generated,
       outcome |-> j.outcome]

(* A call goes through the stages of its operation, with a sort while it   *)
(* is at one that sorts.                                                   *)
JobInv ==
  /\ setting \in [host : Hosts, code : Codes]
  /\ IsCall(job)
  /\ job.stage = "idle" \/ (job.op \in Operations /\ job.stage \in StagesOf(job.op))
  /\ job.stage # "idle" => job.source \in Sources
  /\ job.stage \notin Reading \union {"idle", "cleanup"} => job.source.whole
  /\ IF job.stage \in SortStages THEN sorting # "idle" ELSE sorting = "idle" /\ input = <<>>

(* The files of the workspace.                                             *)
AreFiles(s) ==
  s = [index |-> s.index, rows |-> s.rows, planned |-> s.planned,
       generated |-> s.generated, existing |-> s.existing, conflicts |-> s.conflicts]

IsSeq(s) == s \in Seq({s[i] : i \in DOMAIN s})

(* A line of a replay index, by the order of the encoded identities.       *)
ReplayLine(code, identity, hash, n) ==
  [identity |-> identity, hash |-> hash, text |-> <<code[identity]>> \o hash \o <<n>>]

(* The line a call writes for the n-th row.                                *)
SpooledLine(code, op, row, n) ==
  CASE op = "browser" -> [row |-> row]
    [] op = "file" -> CanonicalLine(row)
    [] OTHER -> ReplayLine(code, RowIdentity(row), NormalizedHash(row), n)

Spooled(code, op, rows, n) == [i \in 1 .. n |-> SpooledLine(code, op, rows[i], i)]

IndexKinds(row) == {"H", "V", "L"} \union (IF row.sku = 0 THEN {} ELSE {"S"})

LineOf(kind, row, n) ==
  CASE kind = "H" -> IndexLine("H", NormalizedHash(row), RowIdentity(row), n)
    [] kind = "V" -> IndexLine("V", RowIdentity(row), NormalizedHash(row), n)
    [] kind = "L" -> IndexLine("L", <<row.listing>>, ListingFactsHash(row), n)
    [] kind = "S" -> IndexLine("S", <<row.sku>>, RowIdentity(row), n)

(* The identity index of the first n rows: each of their lines, once.      *)
Indexed(s, rows, n) ==
  /\ IsSeq(s)
  /\ \A p \in DOMAIN s : \E i \in 1 .. n : \E kind \in IndexKinds(rows[i]) :
       s[p] = LineOf(kind, rows[i], i)
  /\ \A i \in 1 .. n : \A kind \in IndexKinds(rows[i]) : \E p \in DOMAIN s :
       s[p] = LineOf(kind, rows[i], i)
  /\ \A p, q \in DOMAIN s : s[p] = s[q] => p = q

(* The lines of a source, rearranged and in order.                         *)
Arranged(s, lns) == IsSeq(s) /\ Rearranged(lns, s) /\ InOrder(s)

(***************************************************************************)
(* What is planned.                                                        *)
(***************************************************************************)
(* A row is planned with what was generated for its listing.               *)
GeneratedFor(R, P, n) ==
  /\ \A k \in 1 .. n : P[k] = PlannedRow(R[k].row, P[k].generated)
  /\ \A k \in 1 .. n - 1 :
       R[k + 1].row.listing = R[k].row.listing => P[k + 1].generated = P[k].generated

(* What is generated is spooled.                                           *)
GeneratedIn(R, P, n, G) ==
  /\ IsSeq(G)
  /\ \A g \in DOMAIN G :
       /\ G[g].id \in Nat /\ G[g].listing \in Nat /\ G[g].text[3] \in Nat
       /\ G[g] = GeneratedLine(G[g].id, G[g].listing, G[g].text[3])
  /\ \A k \in 1 .. n : P[k].generated # 0 =>
       \E g \in DOMAIN G : G[g].id = P[k].generated /\ G[g].listing = R[k].row.listing

(* The listing of the last row, and what was generated for it.             *)
IsLast(R, P, n, listing, generated) ==
  IF n = 0 THEN listing = 0 /\ generated = 0
  ELSE listing = R[n].row.listing /\ generated = P[n].generated

(* No id has been generated for two listings.                              *)
GeneratedOnce(P) ==
  \A k, l \in DOMAIN P : P[k].generated # 0 /\ P[k].generated = P[l].generated =>
    P[k].listing = P[l].listing

(* The rows a plan has are all of the source, and they do not collide.     *)
RowsToPlan(code, op, rows, R, n) ==
  IF op = "browser"
  THEN /\ R = Spooled(code, "browser", rows, Len(rows))
       /\ \A k \in 1 .. n : \A m \in 1 .. k - 1 : ~Collides(rows[k], rows[m])
  ELSE Arranged(R, Spooled(code, "file", rows, Len(rows))) /\ Consistent(rows)

Planned(R, P, n) ==
  /\ IsSeq(P) /\ Len(P) = n /\ GeneratedFor(R, P, n)
  /\ \A k \in 1 .. n : P[k].generated \in Nat

SpoolInv ==
  LET rows == job.source.rows
      total == Len(rows)
      code == setting.code
  IN
  /\ AreFiles(spool)
  /\ job.stage \in Reading \union {"index", "rows"} =>
       /\ job.listing = 0 /\ job.generated = 0
       /\ spool.planned = <<>> /\ spool.generated = <<>> /\ spool.existing = <<>>
  /\ job.stage # "record" /\ job.stage # "cleanup" /\ job.stage # "join" => spool.conflicts = <<>>
  /\ job.stage \in {"summary", "open"} => job.at = 0 /\ spool.rows = <<>> /\ spool.index = <<>>
  /\ job.stage = "parse" =>
       /\ job.at \in 0 .. total
       /\ spool.rows = Spooled(code, job.op, rows, job.at)
       /\ job.op # "browser" => Indexed(spool.index, rows, job.at)
  /\ job.stage = "index" =>
       spool.rows = Spooled(code, job.op, rows, total) /\ Indexed(input, rows, total)
  /\ job.stage = "rows" =>
       input = Spooled(code, job.op, rows, total) /\ Consistent(rows)
  /\ job.stage = "plan" =>
       /\ job.at \in 0 .. Len(spool.rows) /\ RowsToPlan(code, job.op, rows, spool.rows, job.at)
       /\ Planned(spool.rows, spool.planned, job.at)
       /\ IsLast(spool.rows, spool.planned, job.at, job.listing, job.generated)
       /\ GeneratedIn(spool.rows, spool.planned, job.at, spool.generated)
  /\ job.stage = "generated" =>
       /\ RowsToPlan(code, job.op, rows, spool.rows, total) /\ Planned(spool.rows, spool.planned, total)
       /\ GeneratedIn(spool.rows, spool.planned, total, input)
  /\ job.stage = "commit" =>
       /\ RowsToPlan(code, job.op, rows, spool.rows, total) /\ Planned(spool.rows, spool.planned, total)
       /\ job.op = "file" => GeneratedOnce(spool.planned)
  /\ job.stage \in {"stream", "existing"} =>
       Arranged(spool.rows, Spooled(code, "replay", rows, total)) /\ Consistent(rows)

(* The lines of a manifest's rows.                                         *)
ManifestLines(code, rows) ==
  [i \in DOMAIN rows |-> ReplayLine(code, rows[i].identity, rows[i].hash, i)]

(* A plan has the rows of its source, each once.                           *)
IsPlanOf(host, rows, source) ==
  /\ source.whole /\ Consistent(source.rows)
  /\ IsSeq(rows) /\ rows \in Seq(PlannedImportRow) /\ Len(rows) = Len(source.rows)
  /\ \A i \in DOMAIN source.rows : \E j \in DOMAIN rows :
       rows[j].identity = RowIdentity(source.rows[i]) /\ rows[j].hash = NormalizedHash(source.rows[i])
  /\ \A j \in DOMAIN rows : \E i \in DOMAIN source.rows :
       rows[j].identity = RowIdentity(source.rows[i]) /\ rows[j].hash = NormalizedHash(source.rows[i])
  /\ \A j, k \in DOMAIN rows : rows[j].identity = rows[k].identity => j = k
  /\ host = "file" => OneIdPerListing(rows) /\ GeneratedOnce(rows)

ManifestFits(host, m) ==
  /\ m = [version |-> m.version, rows |-> m.rows, source |-> m.source]
  /\ m.version \in Nat /\ m.source \in Sources
  /\ IsPlanOf(host, m.rows, m.source)

(* What a replay has read is the manifest in the store, unless the         *)
(* manifest has been discarded since.                                      *)
SummaryFits(m, summary) ==
  m # None => /\ m.rows = summary.rows /\ m.source = summary.source
              /\ m.version >= summary.version

ManifestInv ==
  /\ manifest # None => ManifestFits(setting.host, manifest)
  /\ job.stage = "summary" => job.summary = None
  /\ job.op = "replay" /\ job.stage # "idle" /\ job.summary # None =>
       ManifestFits(setting.host, job.summary) /\ SummaryFits(manifest, job.summary)
  /\ job.op = "replay" /\ job.stage \notin {"idle", "summary", "cleanup"} => job.summary # None
  /\ job.stage = "existing" => input = ManifestLines(setting.code, job.summary.rows)

(* Why a call has ended.                                                   *)
Cause(outcome, source) ==
  /\ outcome = "malformed_csv" => ~source.whole
  /\ outcome = "collision" => ~Consistent(source.rows)

CauseInv ==
  /\ job.stage = "cleanup" => Cause(job.outcome, job.source)
  /\ result # None => Cause(result.outcome, result.source)


LEMMA NaturalTexts ==
  ASSUME NEW s \in Seq(Nat)
  PROVE  s \in Seq(Int)
OBVIOUS

LEMMA KeyFacts ==
  ASSUME NEW x \in Nat
  PROVE  <<x>> \in Seq(Nat) /\ Len(<<x>>) = 1 /\ <<x>>[1] = x
OBVIOUS

(* The length of a text of the identity index, by the kind of the line.    *)
TextLength == [H |-> 12, L |-> 7, S |-> 5, V |-> 12]

LEMMA IndexLineFacts ==
  ASSUME NEW kind \in Kinds, NEW key \in Seq(Nat), NEW k, Len(key) = k,
         NEW value \in Seq(Nat), NEW l, Len(value) = l, NEW n \in Nat
  PROVE  IsIndexLine(IndexLine(kind, key, value, n), kind, key, k, value, l, n)
BY IndexText, Zenon

(* What is known of a line of the index that a row has.                    *)
IsLineOf(line, kind, row, n) ==
  /\ line.kind = kind /\ kind \in Kinds
  /\ line.text \in Seq(Int) /\ Len(line.text) = TextLength[kind]
  /\ line.text[1] = KindOrder[kind] /\ line.text[TextLength[kind]] = n
  /\ kind = "H" => line.key = NormalizedHash(row) /\ line.value = RowIdentity(row)
  /\ kind = "V" => /\ line.key = RowIdentity(row) /\ line.value = NormalizedHash(row)
                   /\ line.text[2] = row.listing /\ line.text[3] = row.variant
  /\ kind = "L" => /\ line.key = <<row.listing>> /\ line.value = ListingFactsHash(row)
                   /\ line.text[2] = row.listing
  /\ kind = "S" => /\ line.key = <<row.sku>> /\ line.value = RowIdentity(row)
                   /\ line.text[2] = row.sku /\ row.sku # 0

(* Lines of the index are compared by kind, then by key; the last item of  *)
(* a text is the number of its row.                                        *)
LEMMA LineFacts ==
  ASSUME NEW row \in CanonicalRow, NEW kind \in IndexKinds(row), NEW n \in Nat
  PROVE  IsLineOf(LineOf(kind, row, n), kind, row, n)
<1> DEFINE line == LineOf(kind, row, n)
           text == line.text
<1>0. /\ NormalizedHash(row) \in Seq(Nat) /\ Len(NormalizedHash(row)) = 8
      /\ RowIdentity(row) \in Seq(Nat) /\ Len(RowIdentity(row)) = 2
      /\ RowIdentity(row)[1] = row.listing /\ RowIdentity(row)[2] = row.variant
      /\ ListingFactsHash(row) \in Seq(Nat) /\ Len(ListingFactsHash(row)) = 4
      /\ row.listing \in Nat /\ row.sku \in Nat
  BY HashFacts, IdentityFacts, FactsTell DEF CanonicalRow
<1>1. kind \in {"H", "V", "L"} \/ (kind = "S" /\ row.sku # 0)
  BY DEF IndexKinds
<1>2. CASE kind = "H"
  <2>1. line = IndexLine("H", NormalizedHash(row), RowIdentity(row), n)
    BY <1>2 DEF LineOf
  <2>a. IsIndexLine(IndexLine("H", NormalizedHash(row), RowIdentity(row), n), "H", NormalizedHash(row), 8, RowIdentity(row), 2, n)
    BY <1>0, IndexLineFacts, Zenon DEF Kinds
  <2> HIDE DEF line
  <2>2. /\ line.kind = "H" /\ line.key = NormalizedHash(row) /\ line.value = RowIdentity(row)
        /\ text \in Seq(Nat) /\ Len(text) = 12
        /\ text[1] = KindOrder["H"] /\ text[12] = n
        /\ \A i \in 1 .. 8 : text[1 + i] = NormalizedHash(row)[i]
    BY <2>1, <2>a DEF IsIndexLine
  <2>3. text \in Seq(Int)
    BY <2>2, NaturalTexts
  <2> QED BY <1>2, <2>2, <2>3 DEF line, TextLength, Kinds, IsLineOf
<1>3. CASE kind = "V"
  <2>1. line = IndexLine("V", RowIdentity(row), NormalizedHash(row), n)
    BY <1>3 DEF LineOf
  <2>a. IsIndexLine(IndexLine("V", RowIdentity(row), NormalizedHash(row), n), "V", RowIdentity(row), 2, NormalizedHash(row), 8, n)
    BY <1>0, IndexLineFacts, Zenon DEF Kinds
  <2> HIDE DEF line
  <2>2. /\ line.kind = "V" /\ line.key = RowIdentity(row) /\ line.value = NormalizedHash(row)
        /\ text \in Seq(Nat) /\ Len(text) = 12
        /\ text[1] = KindOrder["V"] /\ text[12] = n
        /\ \A i \in 1 .. 2 : text[1 + i] = RowIdentity(row)[i]
    BY <2>1, <2>a DEF IsIndexLine
  <2>3. text \in Seq(Int)
    BY <2>2, NaturalTexts
  <2>4. text[1 + 1] = RowIdentity(row)[1] /\ text[1 + 2] = RowIdentity(row)[2]
    BY <2>2
  <2>5. text[2] = row.listing /\ text[3] = row.variant
    BY <1>0, <2>4
  <2> QED BY <1>3, <2>2, <2>3, <2>5 DEF line, TextLength, Kinds, IsLineOf
<1>4. CASE kind = "L"
  <2> DEFINE key == <<row.listing>>
  <2>1. line = IndexLine("L", key, ListingFactsHash(row), n)
    BY <1>4 DEF LineOf
  <2>b. key \in Seq(Nat) /\ Len(key) = 1 /\ key[1] = row.listing
    BY <1>0
  <2> HIDE DEF key, line
  <2>a. IsIndexLine(IndexLine("L", key, ListingFactsHash(row), n), "L", key, 1, ListingFactsHash(row), 4, n)
    BY <1>0, <2>b, IndexLineFacts, Zenon DEF Kinds
  <2>2. /\ line.kind = "L" /\ line.key = key /\ line.value = ListingFactsHash(row)
        /\ text \in Seq(Nat) /\ Len(text) = 7
        /\ text[1] = KindOrder["L"] /\ text[7] = n
        /\ \A i \in 1 .. 1 : text[1 + i] = key[i]
    BY <2>1, <2>a DEF IsIndexLine
  <2>3. text \in Seq(Int)
    BY <2>2, NaturalTexts
  <2>4. text[1 + 1] = key[1]
    BY <2>2
  <2>5. text[2] = row.listing
    BY <2>b, <2>4
  <2> QED BY <1>4, <2>2, <2>3, <2>5 DEF key, line, TextLength, Kinds, IsLineOf
<1>5. CASE kind = "S"
  <2> DEFINE key == <<row.sku>>
  <2>1. line = IndexLine("S", key, RowIdentity(row), n)
    BY <1>5 DEF LineOf
  <2>b. key \in Seq(Nat) /\ Len(key) = 1 /\ key[1] = row.sku
    BY <1>0
  <2> HIDE DEF key, line
  <2>a. IsIndexLine(IndexLine("S", key, RowIdentity(row), n), "S", key, 1, RowIdentity(row), 2, n)
    BY <1>0, <2>b, IndexLineFacts, Zenon DEF Kinds
  <2>2. /\ line.kind = "S" /\ line.key = key /\ line.value = RowIdentity(row)
        /\ text \in Seq(Nat) /\ Len(text) = 5
        /\ text[1] = KindOrder["S"] /\ text[5] = n
        /\ \A i \in 1 .. 1 : text[1 + i] = key[i]
    BY <2>1, <2>a DEF IsIndexLine
  <2>3. text \in Seq(Int)
    BY <2>2, NaturalTexts
  <2>4. text[1 + 1] = key[1]
    BY <2>2
  <2>5. text[2] = row.sku
    BY <2>b, <2>4
  <2> QED BY <1>1, <1>5, <2>2, <2>3, <2>5 DEF key, line, TextLength, Kinds, IsLineOf
<1> QED BY <1>1, <1>2, <1>3, <1>4, <1>5

(* The line of a row in canonical-rows.                                    *)
LEMMA CanonicalFacts ==
  ASSUME NEW row \in CanonicalRow
  PROVE  LET line == CanonicalLine(row) IN
         /\ line.row = row /\ line.text \in Seq(Int) /\ Len(line.text) = 11
         /\ line.text[1] = row.listing
<1> DEFINE a == <<row.listing, row.variant, row.sku>>
           h == NormalizedHash(row)
<1>1. a \in Seq(Nat) /\ Len(a) = 3 /\ a[1] = row.listing
  BY DEF CanonicalRow
<1>2. h \in Seq(Nat) /\ Len(h) = 8
  BY HashFacts
<1> HIDE DEF a, h
<1>3. Joined(a \o h, a, 3, h, 8)
  BY <1>1, <1>2, ConcatAt, Zenon
<1>4. CanonicalLine(row) = [row |-> row, text |-> a \o h]
  BY DEF CanonicalLine, a, h
<1> DEFINE c == a \o h
<1> HIDE DEF c
<1>5. c \in Seq(Nat) /\ Len(c) = 11 /\ c[1] = a[1]
  <2>1. Joined(c, a, 3, h, 8)
    BY <1>3 DEF c
  <2> QED BY <2>1 DEF Joined
<1>6. CanonicalLine(row) = [row |-> row, text |-> c]
  BY <1>4 DEF c
<1> QED BY <1>1, <1>5, <1>6, NaturalTexts

(* The line of a replay index starts with the encoded identity.            *)
LEMMA ReplayFacts ==
  ASSUME NEW code, NEW identity, code[identity] \in Nat,
         NEW hash \in Seq(Nat), Len(hash) = 8, NEW n \in Nat
  PROVE  LET line == ReplayLine(code, identity, hash, n) IN
         /\ line.identity = identity /\ line.hash = hash
         /\ line.text \in Seq(Int) /\ Len(line.text) = 10
         /\ line.text[1] = code[identity]
<1> DEFINE a == <<code[identity]>>
           z == <<n>>
           b == a \o hash
<1>1. a \in Seq(Nat) /\ Len(a) = 1 /\ a[1] = code[identity] /\ z \in Seq(Nat) /\ Len(z) = 1
  OBVIOUS
<1> HIDE DEF a, z
<1>2. Joined(b, a, 1, hash, 8)
  BY <1>1, ConcatAt, Zenon
<1> HIDE DEF b
<1>3. b \in Seq(Nat) /\ Len(b) = 9 /\ b[1] = a[1]
  BY <1>2 DEF Joined
<1> DEFINE c == b \o z
<1>4. Joined(c, b, 9, z, 1)
  BY <1>1, <1>3, ConcatAt, Zenon
<1>6. ReplayLine(code, identity, hash, n) = [identity |-> identity, hash |-> hash, text |-> c]
  BY DEF ReplayLine, a, b, z
<1> HIDE DEF c
<1>5. c \in Seq(Nat) /\ Len(c) = 10 /\ c[1] = b[1]
  BY <1>4 DEF Joined
<1> QED BY <1>1, <1>3, <1>5, <1>6, NaturalTexts

(* What is known of a line of the generated ids.                           *)
IsGeneratedLine(line, id, listing, n) ==
  /\ line.id = id /\ line.listing = listing
  /\ line.text \in Seq(Int) /\ Len(line.text) = 3
  /\ line.text[1] = id /\ line.text[3] = n

LEMMA GeneratedFacts ==
  ASSUME NEW id \in Nat, NEW listing \in Nat, NEW n \in Nat
  PROVE  IsGeneratedLine(GeneratedLine(id, listing, n), id, listing, n)
BY DEF GeneratedLine, IsGeneratedLine

(***************************************************************************)
(* Sequences: what is put together, and what is in order.                  *)
(***************************************************************************)
LEMMA SequenceOf ==
  ASSUME NEW S, NEW s \in Seq(S)
  PROVE  IsSeq(s) /\ Len(s) \in Nat /\ DOMAIN s = 1 .. Len(s) /\ \A i \in DOMAIN s : s[i] \in S
<1>1. Len(s) \in Nat /\ DOMAIN s = 1 .. Len(s) /\ \A i \in DOMAIN s : s[i] \in S
  OBVIOUS
<1> DEFINE T == {s[i] : i \in DOMAIN s}
<1>2. s = [i \in 1 .. Len(s) |-> s[i]]
  OBVIOUS
<1>3. \A i \in 1 .. Len(s) : s[i] \in T
  BY <1>1
<1> HIDE DEF T
<1>4. s \in Seq(T)
  BY <1>1, <1>2, <1>3
<1> QED BY <1>1, <1>4 DEF IsSeq, T

LEMMA FunctionIsSequence ==
  ASSUME NEW n \in Nat, NEW s, s = [i \in 1 .. n |-> s[i]]
  PROVE  IsSeq(s) /\ Len(s) = n /\ DOMAIN s = 1 .. n
<1> DEFINE T == {s[i] : i \in DOMAIN s}
<1>1. DOMAIN s = 1 .. n
  OBVIOUS
<1>2. \A i \in 1 .. n : s[i] \in T
  BY <1>1
<1> HIDE DEF T
<1>3. s \in Seq(T)
  BY <1>2
<1> QED BY <1>1, <1>3 DEF IsSeq, T

LEMMA SequenceFacts ==
  ASSUME NEW s, IsSeq(s)
  PROVE  /\ Len(s) \in Nat /\ DOMAIN s = 1 .. Len(s)
         /\ s = [i \in 1 .. Len(s) |-> s[i]]
<1> DEFINE T == {s[i] : i \in DOMAIN s}
<1>1. s \in Seq(T)
  BY DEF IsSeq
<1> HIDE DEF T
<1> QED BY <1>1

LEMMA SequencesAreEqual ==
  ASSUME NEW s, IsSeq(s), NEW t, IsSeq(t), Len(s) = Len(t), \A i \in 1 .. Len(s) : s[i] = t[i]
  PROVE  s = t
BY SequenceFacts

LEMMA EmptySequence == IsSeq(<<>>) /\ Len(<<>>) = 0 /\ DOMAIN <<>> = {}
<1>1. <<>> \in Seq({})
  OBVIOUS
<1>2. IsSeq(<<>>)
  BY <1>1, SequenceOf
<1>3. Len(<<>>) = 0
  OBVIOUS
<1>4. DOMAIN <<>> = {}
  OBVIOUS
<1> QED BY <1>2, <1>3, <1>4

(* c is s with t behind it.                                                *)
PutTogether(c, s, t) ==
  /\ IsSeq(c) /\ Len(c) = Len(s) + Len(t)
  /\ \A i \in 1 .. Len(s) : c[i] = s[i]
  /\ \A i \in 1 .. Len(t) : c[Len(s) + i] = t[i]

LEMMA ConcatOf ==
  ASSUME NEW s, IsSeq(s), NEW t, IsSeq(t)
  PROVE  PutTogether(s \o t, s, t)
<1> DEFINE S == {s[i] : i \in DOMAIN s} \union {t[i] : i \in DOMAIN t}
           c == s \o t
<1>1. \A i \in DOMAIN s : s[i] \in S
  OBVIOUS
<1>2. \A i \in DOMAIN t : t[i] \in S
  OBVIOUS
<1> HIDE DEF S
<1>3. /\ Len(s) \in Nat /\ DOMAIN s = 1 .. Len(s) /\ s = [i \in 1 .. Len(s) |-> s[i]]
      /\ Len(t) \in Nat /\ DOMAIN t = 1 .. Len(t) /\ t = [i \in 1 .. Len(t) |-> t[i]]
  BY SequenceFacts
<1>4. s \in Seq(S)
  BY <1>1, <1>3
<1>5. t \in Seq(S)
  BY <1>2, <1>3
<1>6. /\ c \in Seq(S) /\ Len(c) = Len(s) + Len(t)
      /\ \A i \in 1 .. Len(s) + Len(t) : c[i] = IF i <= Len(s) THEN s[i] ELSE t[i - Len(s)]
  BY <1>4, <1>5, ConcatProperties
<1> HIDE DEF c
<1>7. IsSeq(c)
  BY <1>6, SequenceOf
<1>8. \A i \in 1 .. Len(t) :
        Len(s) + i \in 1 .. Len(s) + Len(t) /\ ~(Len(s) + i <= Len(s)) /\ Len(s) + i - Len(s) = i
  BY <1>3
<1>9. \A i \in 1 .. Len(s) : i \in 1 .. Len(s) + Len(t) /\ i <= Len(s)
  BY <1>3
<1>10. PutTogether(c, s, t)
  BY <1>6, <1>7, <1>8, <1>9 DEF PutTogether
<1> QED BY <1>10 DEF c

LEMMA PutTogetherSplits ==
  ASSUME NEW c, NEW s, IsSeq(s), NEW t, IsSeq(t), PutTogether(c, s, t), NEW p \in DOMAIN c
  PROVE  \/ p \in DOMAIN s /\ c[p] = s[p]
         \/ \E q \in DOMAIN t : p = Len(s) + q /\ c[p] = t[q]
<1>1. /\ Len(s) \in Nat /\ DOMAIN s = 1 .. Len(s) /\ Len(t) \in Nat /\ DOMAIN t = 1 .. Len(t)
      /\ DOMAIN c = 1 .. Len(c) /\ Len(c) = Len(s) + Len(t)
  BY SequenceFacts DEF PutTogether
<1>2. CASE p <= Len(s)
  BY <1>1, <1>2 DEF PutTogether
<1>3. CASE ~(p <= Len(s))
  <2> DEFINE q == p - Len(s)
  <2>1. q \in 1 .. Len(t) /\ p = Len(s) + q
    BY <1>1, <1>3
  <2> HIDE DEF q
  <2> QED BY <1>1, <2>1 DEF PutTogether
<1> QED BY <1>2, <1>3

LEMMA AppendOf ==
  ASSUME NEW s, IsSeq(s), NEW x
  PROVE  /\ IsSeq(Append(s, x)) /\ Len(Append(s, x)) = Len(s) + 1
         /\ \A i \in 1 .. Len(s) : Append(s, x)[i] = s[i]
         /\ Append(s, x)[Len(s) + 1] = x
<1> DEFINE S == {s[i] : i \in DOMAIN s} \union {x}
           c == Append(s, x)
<1>0. x \in S
  OBVIOUS
<1>1. \A i \in DOMAIN s : s[i] \in S
  OBVIOUS
<1> HIDE DEF S
<1>2. /\ Len(s) \in Nat /\ DOMAIN s = 1 .. Len(s) /\ s = [i \in 1 .. Len(s) |-> s[i]]
  BY SequenceFacts
<1>3. s \in Seq(S)
  BY <1>1, <1>2
<1>4. /\ c \in Seq(S) /\ Len(c) = Len(s) + 1
      /\ \A i \in 1 .. Len(s) : c[i] = s[i]
      /\ c[Len(s) + 1] = x
  BY <1>0, <1>2, <1>3
<1> HIDE DEF c
<1>5. IsSeq(c)
  BY <1>4, SequenceOf
<1> QED BY <1>4, <1>5 DEF c

(* Sequences that are rearranged have the same elements, each once if it   *)
(* was there once.                                                         *)
LEMMA RearrangedFacts ==
  ASSUME NEW f, NEW g, Rearranged(f, g)
  PROVE  /\ \A x \in DOMAIN f : \E y \in DOMAIN g : g[y] = f[x]
         /\ \A y \in DOMAIN g : \E x \in DOMAIN f : f[x] = g[y]
         /\ (\A x, y \in DOMAIN f : f[x] = f[y] => x = y)
              => (\A x, y \in DOMAIN g : g[x] = g[y] => x = y)
<1>1. PICK p \in Bijection(DOMAIN f, DOMAIN g) : \A x \in DOMAIN f : g[p[x]] = f[x]
  BY DEF Rearranged
<1>2. /\ p \in [DOMAIN f -> DOMAIN g]
      /\ \A t \in DOMAIN g : \E s \in DOMAIN f : p[s] = t
  BY Fun_BijectionProperties
<1>3. \A x \in DOMAIN f : \E y \in DOMAIN g : g[y] = f[x]
  BY <1>1, <1>2
<1>4. \A y \in DOMAIN g : \E x \in DOMAIN f : f[x] = g[y] /\ p[x] = y
  BY <1>1, <1>2
<1>5. ASSUME \A x, y \in DOMAIN f : f[x] = f[y] => x = y,
             NEW x \in DOMAIN g, NEW y \in DOMAIN g, g[x] = g[y]
      PROVE  x = y
  <2>1. PICK a \in DOMAIN f : f[a] = g[x] /\ p[a] = x
    BY <1>4
  <2>2. PICK b \in DOMAIN f : f[b] = g[y] /\ p[b] = y
    BY <1>4
  <2> QED BY <1>5, <2>1, <2>2
<1> QED BY <1>3, <1>4, <1>5

LEMMA RearrangedLength ==
  ASSUME NEW f, IsSeq(f), NEW g, IsSeq(g), Rearranged(f, g)
  PROVE  Len(f) = Len(g)
<1> DEFINE S == {f[i] : i \in DOMAIN f} T == {g[i] : i \in DOMAIN g}
<1>1. f \in Seq(S) /\ g \in Seq(T)
  BY DEF IsSeq
<1> HIDE DEF S, T
<1> QED BY <1>1, RearrangedCounts

(* In a file that is in order no line is before one that stands before it. *)
LEMMA InOrderThroughout ==
  ASSUME NEW L, Comparable(L), NEW s \in Seq(L), InOrder(s),
         NEW p \in DOMAIN s, NEW q \in DOMAIN s, p < q
  PROVE  ~Before(s[q], s[p])
<1> DEFINE T == {k \in DOMAIN s : p < k /\ Before(s[k], s[p])}
<1>1. DOMAIN s = 1 .. Len(s) /\ Len(s) \in Nat /\ \A k \in DOMAIN s : s[k] \in L
  BY SequenceOf
<1> SUFFICES ASSUME q \in T PROVE FALSE
  OBVIOUS
<1>2. T \in SUBSET Nat /\ T # {}
  BY <1>1
<1>3. PICK m \in T : \A k \in T : m <= k
  BY <1>2, LeastElement
<1>4. m \in DOMAIN s /\ p < m /\ Before(s[m], s[p])
  OBVIOUS
<1>a. m \in 1 .. Len(s) /\ p \in 1 .. Len(s)
  BY <1>1, <1>4
<1>5. m - 1 \in 1 .. Len(s) - 1 /\ (m - 1) + 1 = m /\ p <= m - 1 /\ m - 1 < m
  BY <1>1, <1>4, <1>a
<1>6. ~Before(s[m], s[m - 1])
  BY <1>5 DEF InOrder
<1>7. m - 1 \in DOMAIN s
  BY <1>1, <1>5
<1>8. CASE m - 1 = p
  BY <1>4, <1>6, <1>8
<1>9. CASE m - 1 # p
  <2>1. m - 1 \notin T
    BY <1>3, <1>5, <1>a
  <2>2. ~Before(s[m - 1], s[p])
    BY <1>5, <1>7, <1>9, <1>a, <2>1
  <2>3. ~Before(s[m], s[p])
    BY <1>1, <1>4, <1>6, <1>7, <2>2, NotBeforeIsTransitive
  <2> QED BY <1>4, <2>3
<1> QED BY <1>8, <1>9

Alike(a, b, n) == \A i \in 1 .. n : a.text[i] = b.text[i]

(* A line between two that begin alike begins like them.                   *)
LEMMA Squeezed ==
  ASSUME NEW L, Comparable(L), NEW a \in L, NEW b \in L, NEW c \in L,
         ~Before(b, a), ~Before(c, b),
         NEW n \in Nat, n <= Len(a.text), Alike(a, c, n)
  PROVE  Alike(b, a, n)
<1> DEFINE s == a.text t == b.text u == c.text
           T == {i \in 1 .. n : t[i] # s[i]}
<1>1. /\ s \in Seq(Int) /\ t \in Seq(Int) /\ u \in Seq(Int)
      /\ Len(s) > 0 /\ Len(t) > 0 /\ Len(u) > 0
      /\ s[1] = t[1] => Len(s) = Len(t)
      /\ s[1] = u[1] => Len(s) = Len(u)
  BY DEF Comparable
<1>a. Len(s) \in Nat /\ Len(t) \in Nat /\ Len(u) \in Nat
  <2>1. \A v \in Seq(Int) : Len(v) \in Nat
    OBVIOUS
  <2> QED BY <1>1, <2>1, Zenon
<1>2. n <= Len(s) /\ \A i \in 1 .. n : s[i] = u[i]
  BY DEF Alike
<1>3. \A m \in Nat \ {0} : m <= Len(t) /\ m <= Len(s) /\ (\A i \in 1 .. m - 1 : t[i] = s[i])
                           => ~(t[m] < s[m])
  BY <1>1, BeforeAt
<1>4. \A m \in Nat \ {0} : m <= Len(t) /\ m <= Len(u) /\ (\A i \in 1 .. m - 1 : u[i] = t[i])
                           => ~(u[m] < t[m])
  BY <1>1, BeforeAt
<1> HIDE DEF s, t, u
<1> SUFFICES ASSUME NEW j \in T PROVE FALSE
  BY DEF s, t, Alike
<1>5. T \in SUBSET Nat /\ T # {}
  OBVIOUS
<1>6. PICK m \in T : \A k \in T : m <= k
  BY <1>5, LeastElement
<1>7. m \in 1 .. n /\ t[m] # s[m]
  OBVIOUS
<1>8. \A i \in 1 .. m - 1 : t[i] = s[i]
  <2> SUFFICES ASSUME NEW i \in 1 .. m - 1, t[i] # s[i] PROVE FALSE
    OBVIOUS
  <2>1. i \in 1 .. n /\ i < m
    BY <1>7
  <2>2. i \in T
    BY <2>1
  <2> QED BY <1>6, <1>7, <2>1, <2>2
<1> HIDE DEF T
<1>9. s[1] = u[1]
  BY <1>2, <1>7
<1>10. m \in Nat \ {0} /\ m <= Len(s) /\ m <= Len(u)
  BY <1>1, <1>2, <1>7, <1>9, <1>a
<1>11. m <= Len(t)
  <2>1. CASE m = 1
    BY <1>1, <1>a, <2>1
  <2>2. CASE m # 1
    <3>1. 1 \in 1 .. m - 1
      BY <1>10, <2>2
    <3>2. s[1] = t[1]
      BY <1>8, <3>1
    <3> QED BY <1>1, <1>10, <3>2
  <2> QED BY <2>1, <2>2
<1>12. s[m] \in Int /\ t[m] \in Int /\ u[m] = s[m]
  <2>1. m \in 1 .. Len(s) /\ m \in 1 .. Len(t)
    BY <1>a, <1>10, <1>11
  <2>2. s[m] \in Int
    BY <1>1, <2>1
  <2>3. t[m] \in Int
    BY <1>1, <2>1
  <2> QED BY <1>2, <1>7, <2>2, <2>3
<1>13. ~(t[m] < s[m])
  BY <1>3, <1>8, <1>10, <1>11
<1>14. \A i \in 1 .. m - 1 : u[i] = t[i]
  BY <1>2, <1>7, <1>8
<1>15. ~(u[m] < t[m])
  BY <1>4, <1>10, <1>11, <1>14
<1> QED BY <1>7, <1>12, <1>13, <1>15

(* Lines that stand between two that begin alike begin like them.          *)
LEMMA BetweenAlike ==
  ASSUME NEW L, Comparable(L), NEW s \in Seq(L), InOrder(s),
         NEW p \in DOMAIN s, NEW q \in DOMAIN s, NEW r \in DOMAIN s, p <= r, r <= q,
         NEW n \in Nat, n <= Len(s[p].text), Alike(s[p], s[q], n)
  PROVE  Alike(s[r], s[p], n)
<1>1. DOMAIN s = 1 .. Len(s) /\ Len(s) \in Nat /\ \A k \in DOMAIN s : s[k] \in L
  BY SequenceOf
<1>2. CASE p = r \/ q = r
  BY <1>2 DEF Alike
<1>3. CASE p # r /\ q # r
  <2>1. p < r /\ r < q
    BY <1>1, <1>3
  <2>2. ~Before(s[r], s[p]) /\ ~Before(s[q], s[r])
    BY <2>1, InOrderThroughout
  <2>3. s[p] \in L /\ s[q] \in L /\ s[r] \in L
    BY <1>1
  <2> QED BY <2>2, <2>3, Squeezed, Zenon
<1> QED BY <1>2, <1>3

(* What is the same of neighbours is the same of all between.              *)
LEMMA SameOfNeighbours ==
  ASSUME NEW f, NEW p \in Nat, NEW q \in Nat, p <= q,
         \A k \in p .. q - 1 : f[k + 1] = f[k]
  PROVE  f[q] = f[p]
<1> DEFINE T == {k \in p .. q : f[k] # f[p]}
<1> SUFFICES ASSUME q \in T PROVE FALSE
  OBVIOUS
<1>2. T \in SUBSET Nat /\ T # {}
  OBVIOUS
<1>3. PICK m \in T : \A k \in T : m <= k
  BY <1>2, LeastElement
<1>4. m \in p .. q /\ f[m] # f[p]
  OBVIOUS
<1>5. m # p
  BY <1>4
<1>6. m - 1 \in p .. q - 1 /\ m - 1 \in p .. q /\ (m - 1) + 1 = m /\ m - 1 < m
  BY <1>4, <1>5
<1>7. f[m - 1] = f[p]
  BY <1>3, <1>6, <1>4
<1> QED BY <1>4, <1>6, <1>7

(***************************************************************************)
(* The identity index.                                                     *)
(***************************************************************************)
LEMMA ComparableByKind ==
  ASSUME NEW L,
         \A a \in L : \E kind \in Kinds :
           a.text \in Seq(Int) /\ Len(a.text) = TextLength[kind] /\ a.text[1] = KindOrder[kind]
  PROVE  Comparable(L)
<1> SUFFICES ASSUME NEW a \in L, NEW b \in L
             PROVE  /\ a.text \in Seq(Int) /\ Len(a.text) > 0
                    /\ a.text[1] = b.text[1] => Len(a.text) = Len(b.text)
  BY DEF Comparable
<1>1. PICK k \in Kinds :
        a.text \in Seq(Int) /\ Len(a.text) = TextLength[k] /\ a.text[1] = KindOrder[k]
  OBVIOUS
<1>2. PICK l \in Kinds :
        b.text \in Seq(Int) /\ Len(b.text) = TextLength[l] /\ b.text[1] = KindOrder[l]
  OBVIOUS
<1>3. TextLength[k] > 0 /\ (KindOrder[k] = KindOrder[l] => k = l)
  BY DEF TextLength, KindOrder, Kinds
<1> QED BY <1>1, <1>2, <1>3

ItemsOf(s) == {s[i] : i \in DOMAIN s}

LEMMA ComparableByLength ==
  ASSUME NEW s, NEW m \in Nat \ {0},
         \A i \in DOMAIN s : s[i].text \in Seq(Int) /\ Len(s[i].text) = m
  PROVE  Comparable(ItemsOf(s))
BY DEF Comparable, ItemsOf

LEMMA LinesOfARow ==
  ASSUME NEW row \in CanonicalRow, NEW n \in Nat
  PROVE  LET t == IndexLines(row, n) IN
         /\ IsSeq(t)
         /\ \A p \in DOMAIN t : \E kind \in IndexKinds(row) : t[p] = LineOf(kind, row, n)
         /\ \A kind \in IndexKinds(row) : \E p \in DOMAIN t : t[p] = LineOf(kind, row, n)
         /\ \A p, q \in DOMAIN t : t[p] = t[q] => p = q
<1> DEFINE h == LineOf("H", row, n) v == LineOf("V", row, n) l == LineOf("L", row, n)
           k == LineOf("S", row, n)
           a == <<h, v, l>>
           b == IF row.sku = 0 THEN <<>> ELSE <<k>>
           t == a \o b
<1>1. IndexLines(row, n) = t
  BY DEF IndexLines, LineOf
<1>2. /\ "H" \in IndexKinds(row) /\ "V" \in IndexKinds(row) /\ "L" \in IndexKinds(row)
      /\ row.sku # 0 => "S" \in IndexKinds(row)
      /\ \A kind \in IndexKinds(row) : kind \in {"H", "V", "L"} \/ (kind = "S" /\ row.sku # 0)
  BY DEF IndexKinds
<1>3. h.kind = "H" /\ v.kind = "V" /\ l.kind = "L" /\ k.kind = "S"
  BY DEF LineOf, IndexLine
<1>b. h # v /\ h # l /\ v # l /\ k # h /\ k # v /\ k # l
  BY <1>3
<1> HIDE DEF h, v, l, k
<1>4. /\ IsSeq(a) /\ Len(a) = 3 /\ DOMAIN a = 1 .. 3 /\ a[1] = h /\ a[2] = v /\ a[3] = l
  <2>1. a \in Seq({h, v, l}) /\ Len(a) = 3 /\ DOMAIN a = 1 .. 3
    OBVIOUS
  <2> QED BY <2>1, SequenceOf
<1>5. /\ IsSeq(b) /\ Len(b) = (IF row.sku = 0 THEN 0 ELSE 1)
      /\ DOMAIN b = 1 .. Len(b)
      /\ row.sku # 0 => b[1] = k
  <2>1. CASE row.sku = 0
    <3>1. b = <<>>
      BY <2>1
    <3> HIDE DEF b
    <3>2. IsSeq(b) /\ Len(b) = 0
      BY <3>1, EmptySequence
    <3> QED BY <2>1, <3>2, SequenceFacts
  <2>2. CASE row.sku # 0
    <3>1. b = <<k>>
      BY <2>2
    <3> HIDE DEF b
    <3>2. b \in Seq({k}) /\ Len(b) = 1 /\ b[1] = k
      BY <3>1
    <3> QED BY <2>2, <3>2, SequenceOf
  <2> QED BY <2>1, <2>2
<1> HIDE DEF a, b
<1>6. PutTogether(t, a, b)
  BY <1>4, <1>5, ConcatOf
<1> HIDE DEF t
<1>7. /\ IsSeq(t) /\ Len(t) = 3 + Len(b)
      /\ \A i \in 1 .. 3 : t[i] = a[i]
      /\ \A i \in 1 .. Len(b) : t[3 + i] = b[i]
  BY <1>4, <1>6 DEF PutTogether
<1>8. t[1] = h /\ t[2] = v /\ t[3] = l /\ DOMAIN t = 1 .. Len(t)
  BY <1>4, <1>7, SequenceFacts
<1>9. CASE row.sku = 0
  <2>1. Len(t) = 3
    BY <1>5, <1>7, <1>9
  <2>2. DOMAIN t = {1, 2, 3}
    BY <1>8, <2>1
  <2>3. \A p \in DOMAIN t : \E kind \in IndexKinds(row) : t[p] = LineOf(kind, row, n)
    BY <1>2, <1>8, <2>2 DEF h, v, l
  <2>4. \A kind \in IndexKinds(row) : \E p \in DOMAIN t : t[p] = LineOf(kind, row, n)
    BY <1>2, <1>8, <1>9, <2>2 DEF h, v, l
  <2>5. \A p, q \in DOMAIN t : t[p] = t[q] => p = q
    BY <1>b, <1>8, <2>2
  <2> QED BY <1>1, <1>7, <2>3, <2>4, <2>5
<1>10. CASE row.sku # 0
  <2>1. Len(t) = 4 /\ Len(b) = 1
    BY <1>5, <1>7, <1>10
  <2>2. DOMAIN t = {1, 2, 3, 4}
    BY <1>8, <2>1
  <2>a. t[3 + 1] = b[1]
    BY <1>7, <2>1
  <2>b. t[4] = k
    BY <1>5, <1>10, <2>a
  <2>3. \A p \in DOMAIN t : \E kind \in IndexKinds(row) : t[p] = LineOf(kind, row, n)
    BY <1>2, <1>8, <1>10, <2>b, <2>2 DEF h, v, l, k
  <2>4. \A kind \in IndexKinds(row) : \E p \in DOMAIN t : t[p] = LineOf(kind, row, n)
    BY <1>2, <1>8, <1>10, <2>b, <2>2 DEF h, v, l, k
  <2>5. \A p, q \in DOMAIN t : t[p] = t[q] => p = q
    BY <1>b, <1>8, <2>b, <2>2
  <2> QED BY <1>1, <1>7, <2>3, <2>4, <2>5
<1> QED BY <1>9, <1>10

LEMMA IndexedNone ==
  ASSUME NEW rows
  PROVE  Indexed(<<>>, rows, 0)
BY EmptySequence DEF Indexed

LEMMA IndexedNext ==
  ASSUME NEW rows \in Seq(CanonicalRow), NEW n \in Nat, n + 1 <= Len(rows),
         NEW s, Indexed(s, rows, n)
  PROVE  Indexed(s \o IndexLines(rows[n + 1], n + 1), rows, n + 1)
<1> DEFINE m == n + 1 row == rows[m] t == IndexLines(row, m) c == s \o t
<1>0. /\ m \in Nat /\ m \in 1 .. m /\ Len(rows) \in Nat /\ m \in 1 .. Len(rows)
      /\ \A i \in 1 .. m : i \in Nat /\ i \in 1 .. Len(rows) /\ (i \in 1 .. n \/ i = m)
      /\ \A i \in 1 .. n : i \in 1 .. m /\ i # m
  OBVIOUS
<1>1. \A i \in 1 .. m : rows[i] \in CanonicalRow
  BY <1>0
<1>2. row \in CanonicalRow
  BY <1>0, <1>1
<1>3. /\ IsSeq(t)
      /\ \A p \in DOMAIN t : \E kind \in IndexKinds(row) : t[p] = LineOf(kind, row, m)
      /\ \A kind \in IndexKinds(row) : \E p \in DOMAIN t : t[p] = LineOf(kind, row, m)
      /\ \A p, q \in DOMAIN t : t[p] = t[q] => p = q
  BY <1>0, <1>2, LinesOfARow
<1>4. /\ IsSeq(s)
      /\ \A p \in DOMAIN s : \E i \in 1 .. n : \E kind \in IndexKinds(rows[i]) :
           s[p] = LineOf(kind, rows[i], i)
      /\ \A i \in 1 .. n : \A kind \in IndexKinds(rows[i]) : \E p \in DOMAIN s :
           s[p] = LineOf(kind, rows[i], i)
      /\ \A p, q \in DOMAIN s : s[p] = s[q] => p = q
  BY DEF Indexed
<1> HIDE DEF t
<1>5. PutTogether(c, s, t)
  BY <1>3, <1>4, ConcatOf
<1> HIDE DEF c
<1>6. /\ IsSeq(c) /\ DOMAIN c = 1 .. Len(c) /\ Len(c) = Len(s) + Len(t)
      /\ Len(s) \in Nat /\ DOMAIN s = 1 .. Len(s) /\ Len(t) \in Nat /\ DOMAIN t = 1 .. Len(t)
  BY <1>3, <1>4, <1>5, SequenceFacts DEF PutTogether
<1>7. /\ \A p \in DOMAIN s : p \in DOMAIN c /\ c[p] = s[p]
      /\ \A p \in DOMAIN t : Len(s) + p \in DOMAIN c /\ c[Len(s) + p] = t[p]
  BY <1>5, <1>6 DEF PutTogether
<1>8. \A p \in DOMAIN c :
        \/ p \in DOMAIN s /\ c[p] = s[p]
        \/ \E q \in DOMAIN t : p = Len(s) + q /\ c[p] = t[q]
  BY <1>3, <1>4, <1>5, PutTogetherSplits
<1> HIDE DEF m, row
<1>9. ASSUME NEW p \in DOMAIN c
      PROVE  \E i \in 1 .. m : \E kind \in IndexKinds(rows[i]) : c[p] = LineOf(kind, rows[i], i)
  <2>1. CASE p \in DOMAIN s /\ c[p] = s[p]
    <3>1. PICK i \in 1 .. n : \E kind \in IndexKinds(rows[i]) : s[p] = LineOf(kind, rows[i], i)
      BY <1>4, <2>1
    <3>2. i \in 1 .. m
      BY <1>0
    <3> QED BY <2>1, <3>1, <3>2
  <2>2. ASSUME NEW q \in DOMAIN t, c[p] = t[q]
        PROVE  \E i \in 1 .. m : \E kind \in IndexKinds(rows[i]) : c[p] = LineOf(kind, rows[i], i)
    BY <1>0, <1>3, <2>2 DEF row
  <2> QED BY <1>8, <2>1, <2>2
<1>10. ASSUME NEW i \in 1 .. m, NEW kind \in IndexKinds(rows[i])
       PROVE  \E p \in DOMAIN c : c[p] = LineOf(kind, rows[i], i)
  <2>1. CASE i \in 1 .. n
    BY <1>4, <1>7, <2>1
  <2>2. CASE i = m
    BY <1>3, <1>7, <2>2 DEF row
  <2> QED BY <1>0, <2>1, <2>2
<1>11. \A p \in DOMAIN s : \A q \in DOMAIN t : s[p] # t[q]
  <2> SUFFICES ASSUME NEW p \in DOMAIN s, NEW q \in DOMAIN t, s[p] = t[q] PROVE FALSE
    OBVIOUS
  <2>1. PICK i \in 1 .. n : \E kind \in IndexKinds(rows[i]) : s[p] = LineOf(kind, rows[i], i)
    BY <1>4
  <2>2. PICK k \in IndexKinds(rows[i]) : s[p] = LineOf(k, rows[i], i)
    BY <2>1
  <2>3. PICK l \in IndexKinds(row) : t[q] = LineOf(l, row, m)
    BY <1>3
  <2>4. i \in Nat /\ rows[i] \in CanonicalRow
    BY <1>0, <1>1
  <2>5. IsLineOf(s[p], k, rows[i], i)
    BY <2>2, <2>4, LineFacts
  <2>6. IsLineOf(s[p], l, row, m)
    BY <1>0, <1>2, <2>3, LineFacts
  <2>7. k = l /\ i = m
    BY <2>5, <2>6 DEF IsLineOf
  <2> QED BY <1>0, <2>7
<1>12. ASSUME NEW p \in DOMAIN c, NEW q \in DOMAIN c, c[p] = c[q]
       PROVE  p = q
  <2>1. CASE p \in DOMAIN s /\ c[p] = s[p]
    BY <1>4, <1>8, <1>11, <1>12, <2>1
  <2>2. ASSUME NEW x \in DOMAIN t, p = Len(s) + x, c[p] = t[x] PROVE p = q
    <3>1. CASE q \in DOMAIN s /\ c[q] = s[q]
      BY <1>11, <1>12, <2>2, <3>1
    <3>2. ASSUME NEW y \in DOMAIN t, q = Len(s) + y, c[q] = t[y] PROVE p = q
      BY <1>3, <1>12, <2>2, <3>2
    <3> QED BY <1>8, <3>1, <3>2
  <2> QED BY <1>8, <2>1, <2>2
<1>13. Indexed(c, rows, m)
  BY <1>6, <1>9, <1>10, <1>12 DEF Indexed
<1> QED BY <1>13 DEF c, t, row, m

LEMMA IndexedRearranged ==
  ASSUME NEW s, NEW rows, NEW n, Indexed(s, rows, n), NEW t, IsSeq(t), Rearranged(s, t)
  PROVE  Indexed(t, rows, n)
<1>1. /\ \A x \in DOMAIN s : \E y \in DOMAIN t : t[y] = s[x]
      /\ \A y \in DOMAIN t : \E x \in DOMAIN s : s[x] = t[y]
      /\ (\A x, y \in DOMAIN s : s[x] = s[y] => x = y)
           => (\A x, y \in DOMAIN t : t[x] = t[y] => x = y)
  BY RearrangedFacts
<1>2. \A p \in DOMAIN t : \E i \in 1 .. n : \E kind \in IndexKinds(rows[i]) :
        t[p] = LineOf(kind, rows[i], i)
  BY <1>1 DEF Indexed
<1>3. \A i \in 1 .. n : \A kind \in IndexKinds(rows[i]) : \E p \in DOMAIN t :
        t[p] = LineOf(kind, rows[i], i)
  BY <1>1 DEF Indexed
<1>4. \A p, q \in DOMAIN t : t[p] = t[q] => p = q
  BY <1>1 DEF Indexed
<1> QED BY <1>2, <1>3, <1>4 DEF Indexed

LEMMA IndexComparable ==
  ASSUME NEW rows \in Seq(CanonicalRow), NEW s, Indexed(s, rows, Len(rows))
  PROVE  Comparable({s[p] : p \in DOMAIN s})
<1> DEFINE L == {s[p] : p \in DOMAIN s}
<1>1. ASSUME NEW a \in L
      PROVE  \E kind \in Kinds :
               a.text \in Seq(Int) /\ Len(a.text) = TextLength[kind] /\ a.text[1] = KindOrder[kind]
  <2>1. PICK p \in DOMAIN s : a = s[p]
    OBVIOUS
  <2>2. PICK i \in 1 .. Len(rows) : \E kind \in IndexKinds(rows[i]) : s[p] = LineOf(kind, rows[i], i)
    BY DEF Indexed
  <2>3. PICK kind \in IndexKinds(rows[i]) : s[p] = LineOf(kind, rows[i], i)
    BY <2>2
  <2>4. i \in Nat /\ rows[i] \in CanonicalRow
    OBVIOUS
  <2>5. IsLineOf(a, kind, rows[i], i)
    BY <2>1, <2>3, <2>4, LineFacts
  <2> QED BY <2>5 DEF IsLineOf
<1> HIDE DEF L
<1>2. Comparable(L)
  BY <1>1, ComparableByKind
<1> QED BY <1>2 DEF L

(* A line of the index belongs to one row.                                 *)
LEMMA LinesOfAnIndex ==
  ASSUME NEW rows \in Seq(CanonicalRow), NEW s, Indexed(s, rows, Len(rows)), NEW p \in DOMAIN s
  PROVE  \E i \in DOMAIN rows : \E kind \in IndexKinds(rows[i]) :
           /\ s[p] = LineOf(kind, rows[i], i)
           /\ IsLineOf(s[p], kind, rows[i], i) /\ rows[i] \in CanonicalRow
<1>1. PICK i \in 1 .. Len(rows) : \E kind \in IndexKinds(rows[i]) : s[p] = LineOf(kind, rows[i], i)
  BY DEF Indexed
<1>2. PICK kind \in IndexKinds(rows[i]) : s[p] = LineOf(kind, rows[i], i)
  BY <1>1
<1>3. i \in Nat /\ i \in DOMAIN rows /\ rows[i] \in CanonicalRow
  OBVIOUS
<1>4. IsLineOf(s[p], kind, rows[i], i)
  BY <1>2, <1>3, LineFacts
<1> QED BY <1>2, <1>3, <1>4

(* Where neighbours of the index clash, two rows do.                       *)
LEMMA ClashIsReal ==
  ASSUME NEW rows \in Seq(CanonicalRow), NEW s, Indexed(s, rows, Len(rows)), Clashes(s) # {}
  PROVE  ~Consistent(rows)
<1>1. PICK p \in 1 .. Len(s) - 1 : Clash(s[p], s[p + 1])
  BY DEF Clashes
<1>2. IsSeq(s) /\ DOMAIN s = 1 .. Len(s) /\ Len(s) \in Nat
  BY SequenceFacts DEF Indexed
<1>3. p \in DOMAIN s /\ p + 1 \in DOMAIN s /\ p # p + 1
  BY <1>2
<1>4. PICK i \in DOMAIN rows : \E kind \in IndexKinds(rows[i]) :
        /\ s[p] = LineOf(kind, rows[i], i)
        /\ IsLineOf(s[p], kind, rows[i], i) /\ rows[i] \in CanonicalRow
  BY <1>3, LinesOfAnIndex
<1>5. PICK k \in IndexKinds(rows[i]) :
        /\ s[p] = LineOf(k, rows[i], i)
        /\ IsLineOf(s[p], k, rows[i], i) /\ rows[i] \in CanonicalRow
  BY <1>4
<1>6. PICK j \in DOMAIN rows : \E kind \in IndexKinds(rows[j]) :
        /\ s[p + 1] = LineOf(kind, rows[j], j)
        /\ IsLineOf(s[p + 1], kind, rows[j], j) /\ rows[j] \in CanonicalRow
  BY <1>3, LinesOfAnIndex
<1>7. PICK l \in IndexKinds(rows[j]) :
        /\ s[p + 1] = LineOf(l, rows[j], j)
        /\ IsLineOf(s[p + 1], l, rows[j], j) /\ rows[j] \in CanonicalRow
  BY <1>6
<1> DEFINE a == s[p] b == s[p + 1] r == rows[i] q == rows[j]
<1>8. k = l /\ k \in Kinds /\ a.kind = k
  BY <1>1, <1>5, <1>7 DEF Clash, IsLineOf
<1>9. s[p] # s[p + 1]
  BY <1>3 DEF Indexed
<1>10. i # j
  BY <1>5, <1>7, <1>8, <1>9
<1>11. a.key = b.key /\ (a.kind \in {"H", "V"} \/ a.value # b.value)
  BY <1>1 DEF Clash
<1>12. SUFFICES ASSUME Consistent(rows) PROVE FALSE
  OBVIOUS
<1>13. /\ RowIdentity(r) # RowIdentity(q)
       /\ r.sku = 0 \/ r.sku # q.sku
       /\ r.listing = q.listing => r.facts = q.facts
  BY <1>10, <1>12 DEF Consistent
<1>14. CASE k = "H"
  <2>1. NormalizedHash(r) = NormalizedHash(q)
    BY <1>5, <1>7, <1>8, <1>11, <1>14 DEF IsLineOf
  <2> QED BY <1>5, <1>7, <1>13, <2>1, HashTells
<1>15. CASE k = "V"
  BY <1>5, <1>7, <1>8, <1>11, <1>13, <1>15 DEF IsLineOf
<1>16. CASE k = "L"
  <2>1. <<r.listing>> = <<q.listing>> /\ ListingFactsHash(r) # ListingFactsHash(q)
    BY <1>5, <1>7, <1>8, <1>11, <1>16 DEF IsLineOf
  <2>2. r.listing = q.listing
    BY <2>1
  <2>3. r.facts # q.facts
    BY <2>1 DEF ListingFactsHash
  <2> QED BY <1>13, <2>2, <2>3
<1>17. CASE k = "S"
  <2>1. <<r.sku>> = <<q.sku>> /\ r.sku # 0
    BY <1>5, <1>7, <1>8, <1>11, <1>17 DEF IsLineOf
  <2>2. r.sku = q.sku
    BY <2>1
  <2> QED BY <1>13, <2>1, <2>2
<1> QED BY <1>8, <1>14, <1>15, <1>16, <1>17 DEF Kinds

(* Where a kind and a key are told in the text of a line.                  *)
KeyWidth == [L |-> 2, S |-> 2, V |-> 3]

KeyTold(a, b, kind) == Alike(b, a, KeyWidth[kind]) <=> b.kind = kind /\ a.key = b.key

LEMMA KeyIsTold ==
  ASSUME NEW kind \in {"L", "S", "V"}, NEW other \in Kinds,
         NEW r \in CanonicalRow, NEW q \in CanonicalRow, NEW a, NEW b, NEW m, NEW n,
         IsLineOf(a, kind, r, m), IsLineOf(b, other, q, n)
  PROVE  KeyTold(a, b, kind)
<1> SUFFICES Alike(b, a, KeyWidth[kind]) <=> b.kind = kind /\ a.key = b.key
  BY DEF KeyTold
<1>a. b.kind = other
  BY DEF IsLineOf
<1>0. r.listing \in Nat /\ q.listing \in Nat /\ r.variant \in Nat /\ q.variant \in Nat
      /\ r.sku \in Nat /\ q.sku \in Nat
  BY DEF CanonicalRow
<1>1. a.text[1] = KindOrder[kind] /\ b.text[1] = KindOrder[other]
      /\ (KindOrder[kind] = KindOrder[other] <=> kind = other)
  BY DEF IsLineOf, KindOrder, Kinds
<1>2. RowIdentity(r) = RowIdentity(q) <=> r.listing = q.listing /\ r.variant = q.variant
  BY DEF RowIdentity
<1>3. (<<r.listing>> = <<q.listing>> <=> r.listing = q.listing) /\ (<<r.sku>> = <<q.sku>> <=> r.sku = q.sku)
  OBVIOUS
<1>4. CASE kind = "V"
  <2>1. Alike(b, a, KeyWidth[kind])
          <=> b.text[1] = a.text[1] /\ b.text[2] = a.text[2] /\ b.text[3] = a.text[3]
    <3>1. \A i : i \in 1 .. 3 <=> i = 1 \/ i = 2 \/ i = 3
      OBVIOUS
    <3> QED BY <1>4, <3>1 DEF Alike, KeyWidth
  <2>2. /\ a.key = RowIdentity(r) /\ a.text[2] = r.listing /\ a.text[3] = r.variant
        /\ other = kind => b.key = RowIdentity(q) /\ b.text[2] = q.listing /\ b.text[3] = q.variant
    BY <1>4 DEF IsLineOf
  <2> QED BY <1>1, <1>a, <1>2, <2>1, <2>2
<1>5. CASE kind = "L"
  <2>1. Alike(b, a, KeyWidth[kind]) <=> b.text[1] = a.text[1] /\ b.text[2] = a.text[2]
    <3>1. \A i : i \in 1 .. 2 <=> i = 1 \/ i = 2
      OBVIOUS
    <3> QED BY <1>5, <3>1 DEF Alike, KeyWidth
  <2>2. /\ a.key = <<r.listing>> /\ a.text[2] = r.listing
        /\ other = kind => b.key = <<q.listing>> /\ b.text[2] = q.listing
    BY <1>5 DEF IsLineOf
  <2> QED BY <1>1, <1>a, <1>3, <2>1, <2>2
<1>6. CASE kind = "S"
  <2>1. Alike(b, a, KeyWidth[kind]) <=> b.text[1] = a.text[1] /\ b.text[2] = a.text[2]
    <3>1. \A i : i \in 1 .. 2 <=> i = 1 \/ i = 2
      OBVIOUS
    <3> QED BY <1>6, <3>1 DEF Alike, KeyWidth
  <2>2. /\ a.key = <<r.sku>> /\ a.text[2] = r.sku
        /\ other = kind => b.key = <<q.sku>> /\ b.text[2] = q.sku
    BY <1>6 DEF IsLineOf
  <2> QED BY <1>1, <1>a, <1>3, <2>1, <2>2
<1> QED BY <1>4, <1>5, <1>6

(* Equal keys stand side by side in a sorted index: where no neighbours    *)
(* clash, no lines of one key do.                                          *)
LEMMA NoClashBetween ==
  ASSUME NEW rows \in Seq(CanonicalRow), NEW s, Indexed(s, rows, Len(rows)), InOrder(s),
         Clashes(s) = {}, NEW kind \in {"L", "S", "V"},
         NEW p \in DOMAIN s, NEW q \in DOMAIN s, p < q,
         s[p].kind = kind, s[q].kind = kind, s[p].key = s[q].key
  PROVE  kind # "V" /\ s[p].value = s[q].value
<1> DEFINE L == {s[x] : x \in DOMAIN s}
           w == KeyWidth[kind]
           f == [x \in DOMAIN s |-> s[x].value]
<1>1. IsSeq(s) /\ DOMAIN s = 1 .. Len(s) /\ Len(s) \in Nat
  BY SequenceFacts DEF Indexed
<1>2. s \in Seq(L) /\ Comparable(L)
  BY <1>1, IndexComparable DEF IsSeq
<1>3. ASSUME NEW x \in DOMAIN s
      PROVE  \E i \in DOMAIN rows : \E k \in Kinds :
               IsLineOf(s[x], k, rows[i], i) /\ rows[i] \in CanonicalRow
  <2>1. PICK i \in DOMAIN rows : \E k \in IndexKinds(rows[i]) :
          /\ s[x] = LineOf(k, rows[i], i)
          /\ IsLineOf(s[x], k, rows[i], i) /\ rows[i] \in CanonicalRow
    BY <1>3, LinesOfAnIndex
  <2> QED BY <2>1 DEF IsLineOf
<1>4. PICK i \in DOMAIN rows : \E k \in Kinds :
        IsLineOf(s[p], k, rows[i], i) /\ rows[i] \in CanonicalRow
  BY <1>3
<1>5. IsLineOf(s[p], kind, rows[i], i) /\ rows[i] \in CanonicalRow
  BY <1>4 DEF IsLineOf
<1>6. ASSUME NEW x \in DOMAIN s
      PROVE  Alike(s[x], s[p], w) <=> s[x].kind = kind /\ s[p].key = s[x].key
  <2>1. PICK j \in DOMAIN rows : \E k \in Kinds :
          IsLineOf(s[x], k, rows[j], j) /\ rows[j] \in CanonicalRow
    BY <1>3, <1>6
  <2>2. PICK k \in Kinds : IsLineOf(s[x], k, rows[j], j) /\ rows[j] \in CanonicalRow
    BY <2>1
  <2>3. KeyTold(s[p], s[x], kind)
    BY <1>5, <2>2, KeyIsTold, Zenon
  <2> QED BY <2>3 DEF KeyTold
<1>7. w \in Nat /\ w <= Len(s[p].text)
  <2>1. Len(s[p].text) = TextLength[kind]
    BY <1>5 DEF IsLineOf
  <2> QED BY <2>1 DEF KeyWidth, TextLength
<1>8. Alike(s[p], s[q], w)
  BY <1>6 DEF Alike
<1> HIDE DEF L, w
<1>9. ASSUME NEW x \in p .. q
      PROVE  x \in DOMAIN s /\ s[x].kind = kind /\ s[p].key = s[x].key
  <2>1. x \in DOMAIN s /\ p <= x /\ x <= q
    BY <1>1
  <2>2. Alike(s[x], s[p], w)
    BY <1>2, <1>7, <1>8, <2>1, BetweenAlike
  <2> QED BY <1>6, <2>1, <2>2
<1>10. ASSUME NEW x \in p .. q - 1
       PROVE  kind # "V" /\ s[x + 1].value = s[x].value
  <2>1. x \in p .. q /\ x + 1 \in p .. q /\ x \in 1 .. Len(s) - 1
    BY <1>1
  <2>2. s[x].kind = kind /\ s[x + 1].kind = kind /\ s[x].key = s[x + 1].key
    BY <1>9, <2>1
  <2>3. ~Clash(s[x], s[x + 1])
    BY <2>1 DEF Clashes
  <2> QED BY <2>2, <2>3 DEF Clash
<1>11. p \in p .. q - 1 /\ p \in Nat /\ q \in Nat /\ p <= q
  BY <1>1
<1>12. \A x \in p .. q - 1 : f[x + 1] = f[x]
  <2> SUFFICES ASSUME NEW x \in p .. q - 1 PROVE f[x + 1] = f[x]
    OBVIOUS
  <2>1. x \in DOMAIN s /\ x + 1 \in DOMAIN s
    BY <1>1
  <2> QED BY <1>10, <2>1
<1>13. f[p] = s[p].value /\ f[q] = s[q].value
  OBVIOUS
<1> HIDE DEF f
<1>14. f[q] = f[p]
  BY <1>11, <1>12, SameOfNeighbours
<1> QED BY <1>10, <1>11, <1>13, <1>14

LEMMA NoClashOfRows ==
  ASSUME NEW rows \in Seq(CanonicalRow), NEW s, Indexed(s, rows, Len(rows)), InOrder(s),
         Clashes(s) = {}, NEW i \in DOMAIN rows, NEW j \in DOMAIN rows, i # j,
         NEW kind \in {"L", "S", "V"}, kind \in IndexKinds(rows[i]), kind \in IndexKinds(rows[j]),
         LineOf(kind, rows[i], i).key = LineOf(kind, rows[j], j).key
  PROVE  kind # "V" /\ LineOf(kind, rows[i], i).value = LineOf(kind, rows[j], j).value
<1>1. i \in 1 .. Len(rows) /\ j \in 1 .. Len(rows)
      /\ rows[i] \in CanonicalRow /\ rows[j] \in CanonicalRow /\ i \in Nat /\ j \in Nat
  OBVIOUS
<1>2. PICK p \in DOMAIN s : s[p] = LineOf(kind, rows[i], i)
  BY <1>1 DEF Indexed
<1>3. PICK q \in DOMAIN s : s[q] = LineOf(kind, rows[j], j)
  BY <1>1 DEF Indexed
<1>4. IsLineOf(s[p], kind, rows[i], i) /\ IsLineOf(s[q], kind, rows[j], j)
  BY <1>1, <1>2, <1>3, LineFacts
<1>5. s[p].kind = kind /\ s[q].kind = kind /\ p # q
  BY <1>4 DEF IsLineOf
<1>6. p \in Nat /\ q \in Nat
  <2>1. IsSeq(s) /\ DOMAIN s = 1 .. Len(s) /\ Len(s) \in Nat
    BY SequenceFacts DEF Indexed
  <2> QED BY <2>1
<1>7. CASE p < q
  BY <1>2, <1>3, <1>5, <1>7, NoClashBetween
<1>8. CASE q < p
  BY <1>2, <1>3, <1>5, <1>8, NoClashBetween
<1> QED BY <1>5, <1>6, <1>7, <1>8

(* A sorted index without a clash of neighbours is one of a consistent     *)
(* catalog.                                                                *)
LEMMA NoClashIsConsistent ==
  ASSUME NEW rows \in Seq(CanonicalRow), NEW s, Indexed(s, rows, Len(rows)), InOrder(s),
         Clashes(s) = {}
  PROVE  Consistent(rows)
<1> SUFFICES ASSUME NEW i \in DOMAIN rows, NEW j \in DOMAIN rows, i # j
             PROVE  /\ RowIdentity(rows[i]) # RowIdentity(rows[j])
                    /\ rows[i].sku = 0 \/ rows[i].sku # rows[j].sku
                    /\ rows[i].listing = rows[j].listing => rows[i].facts = rows[j].facts
  BY DEF Consistent
<1> DEFINE r == rows[i] q == rows[j]
<1>1. r \in CanonicalRow /\ q \in CanonicalRow
  OBVIOUS
<1>2. RowIdentity(r) # RowIdentity(q)
  <2> SUFFICES ASSUME RowIdentity(r) = RowIdentity(q) PROVE FALSE
    OBVIOUS
  <2>1. "V" \in IndexKinds(r) /\ "V" \in IndexKinds(q)
    BY DEF IndexKinds
  <2>2. LineOf("V", r, i).key = LineOf("V", q, j).key
    BY DEF LineOf, IndexLine
  <2> QED BY <2>1, <2>2, NoClashOfRows
<1>3. ASSUME r.sku # 0, r.sku = q.sku PROVE FALSE
  <2>1. "S" \in IndexKinds(r) /\ "S" \in IndexKinds(q)
    BY <1>3 DEF IndexKinds
  <2>2. LineOf("S", r, i).key = LineOf("S", q, j).key
    BY <1>3 DEF LineOf, IndexLine
  <2>3. LineOf("S", r, i).value = LineOf("S", q, j).value
    BY <2>1, <2>2, NoClashOfRows
  <2>4. LineOf("S", r, i).value = RowIdentity(r) /\ LineOf("S", q, j).value = RowIdentity(q)
    BY DEF LineOf, IndexLine
  <2> QED BY <1>2, <2>3, <2>4
<1>4. ASSUME r.listing = q.listing PROVE r.facts = q.facts
  <2>1. "L" \in IndexKinds(r) /\ "L" \in IndexKinds(q)
    BY DEF IndexKinds
  <2>2. LineOf("L", r, i).key = LineOf("L", q, j).key
    BY <1>4 DEF LineOf, IndexLine
  <2>3. LineOf("L", r, i).value = LineOf("L", q, j).value
    BY <2>1, <2>2, NoClashOfRows
  <2>4. LineOf("L", r, i).value = ListingFactsHash(r) /\ LineOf("L", q, j).value = ListingFactsHash(q)
    BY DEF LineOf, IndexLine
  <2> QED BY <1>1, <2>3, <2>4, FactsTell
<1> QED BY <1>2, <1>3, <1>4

(***************************************************************************)
(* Every spool can be sorted.                                              *)
(***************************************************************************)
LEMMA SourceFacts ==
  ASSUME NEW source \in Sources
  PROVE  /\ source.rows \in Seq(CanonicalRow) /\ Len(source.rows) \in Nat
         /\ DOMAIN source.rows = 1 .. Len(source.rows)
         /\ \A i \in DOMAIN source.rows : source.rows[i] \in CanonicalRow
<1>1. source.rows \in Seq(CanonicalRow)
  BY ImportAssumption DEF Source
<1> QED BY <1>1, SequenceOf

(* What is known of a line of a replay index.                              *)
IsReplayLine(code, line, identity, hash) ==
  /\ line.identity = identity /\ line.hash = hash
  /\ line.text \in Seq(Int) /\ Len(line.text) = 10
  /\ line.text[1] = code[identity] /\ line.text[1] \in Nat

LEMMA ReplayLineOfRow ==
  ASSUME NEW code \in Codes, NEW source \in Sources, NEW i \in DOMAIN source.rows,
         NEW n \in Nat, NEW identity, identity = RowIdentity(source.rows[i]),
         NEW hash, hash = NormalizedHash(source.rows[i])
  PROVE  IsReplayLine(code, ReplayLine(code, identity, hash, n), identity, hash)
<1>1. source.rows[i] \in CanonicalRow
  BY SourceFacts
<1>2. hash \in Seq(Nat) /\ Len(hash) = 8
  BY <1>1, HashFacts
<1>3. code[identity] \in Nat
  BY IdentityAssumption
<1> QED BY <1>2, <1>3, ReplayFacts DEF IsReplayLine

LEMMA SpooledFacts ==
  ASSUME NEW code, NEW op, NEW rows, NEW n \in Nat
  PROVE  /\ IsSeq(Spooled(code, op, rows, n)) /\ Len(Spooled(code, op, rows, n)) = n
         /\ DOMAIN Spooled(code, op, rows, n) = 1 .. n
         /\ \A i \in 1 .. n : Spooled(code, op, rows, n)[i] = SpooledLine(code, op, rows[i], i)
<1> DEFINE s == Spooled(code, op, rows, n)
<1>1. s = [i \in 1 .. n |-> SpooledLine(code, op, rows[i], i)]
  BY DEF Spooled
<1> HIDE DEF s
<1>2. s = [i \in 1 .. n |-> s[i]]
  BY <1>1
<1>3. IsSeq(s) /\ Len(s) = n /\ DOMAIN s = 1 .. n
  BY <1>2, FunctionIsSequence
<1>4. \A i \in 1 .. n : s[i] = SpooledLine(code, op, rows[i], i)
  BY <1>1
<1> QED BY <1>3, <1>4 DEF s

LEMMA SpooledSortable ==
  ASSUME NEW code \in Codes, NEW op \in {"file", "replay"}, NEW source \in Sources,
         NEW s, s = Spooled(code, op, source.rows, Len(source.rows))
  PROVE  IsSeq(s) /\ Comparable(ItemsOf(s))
<1> DEFINE rows == source.rows n == Len(rows)
<1>1. /\ n \in Nat /\ DOMAIN rows = 1 .. n /\ \A i \in DOMAIN rows : rows[i] \in CanonicalRow
  BY SourceFacts
<1>2. /\ IsSeq(s) /\ DOMAIN s = 1 .. n
      /\ \A i \in 1 .. n : s[i] = SpooledLine(code, op, rows[i], i)
  BY <1>1, SpooledFacts
<1>3. CASE op = "file"
  <2>1. ASSUME NEW i \in DOMAIN s PROVE s[i].text \in Seq(Int) /\ Len(s[i].text) = 11
    <3>1. s[i] = CanonicalLine(rows[i])
      BY <1>2, <1>3 DEF SpooledLine
    <3>2. rows[i] \in CanonicalRow
      BY <1>1, <1>2
    <3> QED BY <3>1, <3>2, CanonicalFacts
  <2>2. Comparable(ItemsOf(s))
    BY <2>1, 11 \in Nat \ {0}, ComparableByLength
  <2> QED BY <1>2, <2>2
<1>4. CASE op = "replay"
  <2>1. ASSUME NEW i \in DOMAIN s PROVE s[i].text \in Seq(Int) /\ Len(s[i].text) = 10
    <3>1. s[i] = ReplayLine(code, RowIdentity(rows[i]), NormalizedHash(rows[i]), i)
      BY <1>2, <1>4 DEF SpooledLine
    <3>2. i \in Nat /\ i \in DOMAIN rows
      BY <1>1, <1>2
    <3>3. IsReplayLine(code, s[i], RowIdentity(rows[i]), NormalizedHash(rows[i]))
      BY <3>1, <3>2, ReplayLineOfRow
    <3> QED BY <3>3 DEF IsReplayLine
  <2>2. Comparable(ItemsOf(s))
    BY <2>1, 10 \in Nat \ {0}, ComparableByLength
  <2> QED BY <1>2, <2>2
<1> QED BY <1>3, <1>4

LEMMA ManifestLinesFacts ==
  ASSUME NEW code \in Codes, NEW host, NEW m, ManifestFits(host, m)
  PROVE  LET s == ManifestLines(code, m.rows) IN
         /\ IsSeq(s) /\ Len(s) = Len(m.rows) /\ DOMAIN s = DOMAIN m.rows
         /\ \A j \in DOMAIN s : IsReplayLine(code, s[j], m.rows[j].identity, m.rows[j].hash)
<1> DEFINE rows == m.rows s == ManifestLines(code, rows) source == m.source.rows
<1>1. /\ Len(rows) \in Nat /\ DOMAIN rows = 1 .. Len(rows)
  BY SequenceFacts DEF ManifestFits, IsPlanOf
<1>2. s = [i \in 1 .. Len(rows) |-> ReplayLine(code, rows[i].identity, rows[i].hash, i)]
  BY <1>1 DEF ManifestLines
<1> HIDE DEF s
<1>3. s = [i \in 1 .. Len(rows) |-> s[i]]
  BY <1>2
<1>4. IsSeq(s) /\ Len(s) = Len(rows) /\ DOMAIN s = 1 .. Len(rows)
  BY <1>1, <1>3, FunctionIsSequence
<1>5. ASSUME NEW j \in DOMAIN s PROVE IsReplayLine(code, s[j], rows[j].identity, rows[j].hash)
  <2>1. j \in DOMAIN rows /\ j \in Nat
    BY <1>1, <1>4
  <2>2. s[j] = ReplayLine(code, rows[j].identity, rows[j].hash, j)
    BY <1>1, <1>2, <2>1
  <2>3. PICK i \in DOMAIN source :
          rows[j].identity = RowIdentity(source[i]) /\ rows[j].hash = NormalizedHash(source[i])
    BY <2>1 DEF ManifestFits, IsPlanOf
  <2>4. m.source \in Sources
    BY DEF ManifestFits, IsPlanOf
  <2> QED BY <2>1, <2>2, <2>3, <2>4, ReplayLineOfRow
<1> QED BY <1>1, <1>4, <1>5 DEF s

LEMMA ManifestSortable ==
  ASSUME NEW code \in Codes, NEW host, NEW m, ManifestFits(host, m), NEW s, s = ManifestLines(code, m.rows)
  PROVE  IsSeq(s) /\ Comparable(ItemsOf(s))
<1>1. /\ IsSeq(s)
      /\ \A j \in DOMAIN s : IsReplayLine(code, s[j], m.rows[j].identity, m.rows[j].hash)
  BY ManifestLinesFacts
<1>2. Comparable(ItemsOf(s))
  BY <1>1, 10 \in Nat \ {0}, ComparableByLength DEF IsReplayLine
<1> QED BY <1>1, <1>2

LEMMA GeneratedSortable ==
  ASSUME NEW R, NEW P, NEW n, NEW G, GeneratedIn(R, P, n, G)
  PROVE  IsSeq(G) /\ Comparable(ItemsOf(G))
<1>1. ASSUME NEW g \in DOMAIN G PROVE G[g].text \in Seq(Int) /\ Len(G[g].text) = 3
  <2>1. /\ G[g].id \in Nat /\ G[g].listing \in Nat /\ G[g].text[3] \in Nat
        /\ G[g] = GeneratedLine(G[g].id, G[g].listing, G[g].text[3])
    BY DEF GeneratedIn
  <2>2. IsGeneratedLine(G[g], G[g].id, G[g].listing, G[g].text[3])
    BY <2>1, GeneratedFacts
  <2> QED BY <2>2 DEF IsGeneratedLine
<1>2. Comparable(ItemsOf(G))
  BY <1>1, 3 \in Nat \ {0}, ComparableByLength DEF IsReplayLine
<1> QED BY <1>1, <1>2 DEF GeneratedIn

(* What a call sorts is always a sequence of lines that can be compared.   *)
LEMMA InputIsSortable ==
  ASSUME JobInv, SpoolInv, ManifestInv
  PROVE  Sortable
<1>0. Sortable <=> IsSeq(input) /\ Comparable(ItemsOf(input))
  BY DEF Sortable, Inputs, IsSeq, ItemsOf
<1> DEFINE rows == job.source.rows
<1>1. setting.code \in Codes
  BY DEF JobInv
<1>2. CASE job.stage \notin SortStages
  <2>1. input = <<>>
    BY <1>2 DEF JobInv
  <2>2. IsSeq(input) /\ ItemsOf(input) = {}
    BY <2>1, EmptySequence DEF ItemsOf
  <2> QED BY <1>0, <2>2 DEF Comparable
<1>3. CASE job.stage \in SortStages
  <2>1. /\ job.stage # "idle" /\ job.op \in Operations /\ job.stage \in StagesOf(job.op)
        /\ job.source \in Sources
    BY <1>3 DEF JobInv, SortStages
  <2>2. job.op \in {"file", "replay", "browser"}
    BY <2>1 DEF Operations
  <2>3. CASE job.stage = "index"
    <3>1. Indexed(input, rows, Len(rows)) /\ rows \in Seq(CanonicalRow)
      BY <2>1, <2>3, SourceFacts DEF SpoolInv
    <3>2. Comparable(ItemsOf(input))
      BY <3>1, IndexComparable DEF ItemsOf
    <3>3. IsSeq(input)
      BY <3>1 DEF Indexed
    <3> QED BY <1>0, <3>2, <3>3
  <2>4. CASE job.stage = "rows"
    <3>1. input = Spooled(setting.code, job.op, rows, Len(rows))
      BY <2>4 DEF SpoolInv
    <3>2. job.op \in {"file", "replay"}
      BY <2>1, <2>2, <2>4 DEF StagesOf
    <3> QED BY <1>0, <1>1, <2>1, <3>1, <3>2, SpooledSortable
  <2>5. CASE job.stage = "generated"
    <3>1. GeneratedIn(spool.rows, spool.planned, Len(rows), input)
      BY <2>5 DEF SpoolInv
    <3> QED BY <1>0, <3>1, GeneratedSortable
  <2>6. CASE job.stage = "existing"
    <3>1. job.op = "replay"
      BY <2>1, <2>2, <2>6 DEF StagesOf
    <3>2. job.summary # None
      BY <2>6, <3>1 DEF ManifestInv, StagesOf
    <3>3. ManifestFits(setting.host, job.summary) /\ input = ManifestLines(setting.code, job.summary.rows)
      BY <2>6, <3>1, <3>2 DEF ManifestInv
    <3> QED BY <1>0, <1>1, <3>3, ManifestSortable
  <2> QED BY <1>3, <2>3, <2>4, <2>5, <2>6 DEF SortStages
<1> QED BY <1>2, <1>3

(* What is known of a file that has been sorted.                           *)
LEMMA SortedFacts ==
  ASSUME SortInv, Sortable, sorting = "sorted"
  PROVE  Arranged(sorted, input)
BY SortedIsRearranged, SequenceOf DEF Arranged

(***************************************************************************)
(* From rows to a plan, and from a plan to a manifest.                     *)
(***************************************************************************)
LEMMA SpooledLines ==
  ASSUME NEW code, NEW row, NEW n
  PROVE  /\ SpooledLine(code, "browser", row, n) = [row |-> row]
         /\ SpooledLine(code, "file", row, n) = CanonicalLine(row)
         /\ SpooledLine(code, "replay", row, n)
              = ReplayLine(code, RowIdentity(row), NormalizedHash(row), n)
BY DEF SpooledLine

LEMMA SpooledNext ==
  ASSUME NEW code, NEW op, NEW rows, NEW n \in Nat
  PROVE  Spooled(code, op, rows, n + 1)
           = Append(Spooled(code, op, rows, n), SpooledLine(code, op, rows[n + 1], n + 1))
<1> DEFINE s == Spooled(code, op, rows, n) x == SpooledLine(code, op, rows[n + 1], n + 1)
           t == Spooled(code, op, rows, n + 1) c == Append(s, x)
<1>1. /\ IsSeq(s) /\ Len(s) = n /\ \A i \in 1 .. n : s[i] = SpooledLine(code, op, rows[i], i)
  BY SpooledFacts
<1>2. /\ IsSeq(t) /\ Len(t) = n + 1
      /\ \A i \in 1 .. n + 1 : t[i] = SpooledLine(code, op, rows[i], i)
  BY SpooledFacts
<1> HIDE DEF s, t
<1>3. /\ IsSeq(c) /\ Len(c) = Len(s) + 1
      /\ \A i \in 1 .. Len(s) : c[i] = s[i]
      /\ c[Len(s) + 1] = x
  BY <1>1, AppendOf
<1> HIDE DEF c
<1>4. \A i \in 1 .. n + 1 : t[i] = c[i]
  <2> SUFFICES ASSUME NEW i \in 1 .. n + 1 PROVE t[i] = c[i]
    OBVIOUS
  <2>1. CASE i = n + 1
    <3>1. n + 1 \in 1 .. n + 1
      OBVIOUS
    <3>2. t[n + 1] = x
      BY <1>2, <3>1
    <3>3. c[n + 1] = x
      BY <1>1, <1>3
    <3> QED BY <2>1, <3>2, <3>3
  <2>2. CASE i # n + 1
    <3>1. i \in 1 .. n
      BY <2>2
    <3>2. t[i] = SpooledLine(code, op, rows[i], i) /\ s[i] = SpooledLine(code, op, rows[i], i)
      BY <1>1, <1>2, <3>1
    <3>3. c[i] = s[i]
      BY <1>1, <1>3, <3>1
    <3> QED BY <3>2, <3>3
  <2> QED BY <2>1, <2>2
<1>5. t = c
  BY <1>1, <1>2, <1>3, <1>4, SequencesAreEqual
<1> QED BY <1>5 DEF s, t, c

LEMMA SpooledNone ==
  ASSUME NEW code, NEW op, NEW rows
  PROVE  Spooled(code, op, rows, 0) = <<>>
<1>1. /\ IsSeq(Spooled(code, op, rows, 0)) /\ Len(Spooled(code, op, rows, 0)) = 0
  BY SpooledFacts
<1>2. \A i \in 1 .. 0 : FALSE
  OBVIOUS
<1> HIDE DEF Spooled
<1> QED BY <1>1, <1>2, EmptySequence, SequencesAreEqual

(* The rows that are planned are those of the source, each in one place.   *)
AreRowsOf(R, rows) ==
  /\ IsSeq(R) /\ Len(R) = Len(rows)
  /\ \A i \in DOMAIN rows : \E k \in DOMAIN R : R[k].row = rows[i]
  /\ \A k \in DOMAIN R : \E i \in DOMAIN rows : R[k].row = rows[i]
  /\ \A k, l \in DOMAIN R : RowIdentity(R[k].row) = RowIdentity(R[l].row) => k = l

AreCanonical(R) == \A k \in DOMAIN R : R[k] = CanonicalLine(R[k].row)

LEMMA ConsistentIdentities ==
  ASSUME NEW rows, Consistent(rows), NEW i \in DOMAIN rows, NEW j \in DOMAIN rows,
         RowIdentity(rows[i]) = RowIdentity(rows[j])
  PROVE  i = j
BY DEF Consistent

(* What is told by a field of the lines of a file is kept by its order.    *)
LEMMA CanonicalRowsOf ==
  ASSUME NEW code, NEW source \in Sources, Consistent(source.rows), NEW R,
         Arranged(R, Spooled(code, "file", source.rows, Len(source.rows)))
  PROVE  AreRowsOf(R, source.rows) /\ AreCanonical(R)
<1> DEFINE rows == source.rows n == Len(rows) s == Spooled(code, "file", rows, n)
<1>1. n \in Nat /\ DOMAIN rows = 1 .. n /\ \A i \in DOMAIN rows : rows[i] \in CanonicalRow
  BY SourceFacts
<1>2. IsSeq(s) /\ Len(s) = n /\ DOMAIN s = 1 .. n
      /\ \A i \in 1 .. n : s[i] = SpooledLine(code, "file", rows[i], i)
  BY <1>1, SpooledFacts
<1>3. IsSeq(R) /\ Rearranged(s, R)
  BY DEF Arranged
<1> HIDE DEF s
<1>4. /\ \A x \in DOMAIN s : \E y \in DOMAIN R : R[y] = s[x]
      /\ \A y \in DOMAIN R : \E x \in DOMAIN s : s[x] = R[y]
      /\ (\A x, y \in DOMAIN s : s[x] = s[y] => x = y)
           => (\A x, y \in DOMAIN R : R[x] = R[y] => x = y)
  BY <1>3, RearrangedFacts
<1>5. Len(R) = n
  BY <1>2, <1>3, RearrangedLength
<1>6. \A i \in DOMAIN rows : i \in DOMAIN s /\ s[i] = CanonicalLine(rows[i]) /\ s[i].row = rows[i]
  <2> SUFFICES ASSUME NEW i \in DOMAIN rows
               PROVE  i \in DOMAIN s /\ s[i] = CanonicalLine(rows[i]) /\ s[i].row = rows[i]
    OBVIOUS
  <2>1. i \in DOMAIN s /\ s[i] = CanonicalLine(rows[i])
    BY <1>1, <1>2, SpooledLines
  <2>2. CanonicalLine(rows[i]).row = rows[i]
    BY DEF CanonicalLine
  <2> QED BY <2>1, <2>2
<1>7. \A x, y \in DOMAIN s : s[x] = s[y] => x = y
  <2> SUFFICES ASSUME NEW x \in DOMAIN s, NEW y \in DOMAIN s, s[x] = s[y] PROVE x = y
    OBVIOUS
  <2>1. x \in DOMAIN rows /\ y \in DOMAIN rows
    BY <1>1, <1>2
  <2>2. rows[x] = rows[y]
    BY <1>6, <2>1
  <2> QED BY <2>1, <2>2, ConsistentIdentities
<1>8. \A i \in DOMAIN rows : \E k \in DOMAIN R : R[k].row = rows[i]
  BY <1>4, <1>6
<1>9. \A k \in DOMAIN R : \E i \in DOMAIN rows : R[k] = s[i] /\ R[k].row = rows[i]
  BY <1>1, <1>2, <1>4, <1>6
<1>10. ASSUME NEW k \in DOMAIN R, NEW l \in DOMAIN R,
              RowIdentity(R[k].row) = RowIdentity(R[l].row)
       PROVE  k = l
  <2>1. PICK i \in DOMAIN rows : R[k] = s[i] /\ R[k].row = rows[i]
    BY <1>9
  <2>2. PICK j \in DOMAIN rows : R[l] = s[j] /\ R[l].row = rows[j]
    BY <1>9
  <2>3. i = j
    BY <1>10, <2>1, <2>2, ConsistentIdentities
  <2> QED BY <1>4, <1>7, <2>1, <2>2, <2>3
<1>11. \A k \in DOMAIN R : R[k] = CanonicalLine(R[k].row)
  BY <1>6, <1>9
<1> QED BY <1>3, <1>5, <1>8, <1>9, <1>10, <1>11 DEF AreRowsOf, AreCanonical

LEMMA NoCollisionIsConsistent ==
  ASSUME NEW source \in Sources,
         \A k \in 1 .. Len(source.rows) : \A m \in 1 .. k - 1 :
           ~Collides(source.rows[k], source.rows[m])
  PROVE  Consistent(source.rows)
<1> DEFINE rows == source.rows
<1>1. Len(rows) \in Nat /\ DOMAIN rows = 1 .. Len(rows)
      /\ \A i \in DOMAIN rows : rows[i] \in CanonicalRow
  BY SourceFacts
<1> SUFFICES ASSUME NEW i \in DOMAIN rows, NEW j \in DOMAIN rows, i # j
             PROVE  /\ RowIdentity(rows[i]) # RowIdentity(rows[j])
                    /\ rows[i].sku = 0 \/ rows[i].sku # rows[j].sku
                    /\ rows[i].listing = rows[j].listing => rows[i].facts = rows[j].facts
  BY DEF Consistent
<1>2. ListingFactsHash(rows[i]) = ListingFactsHash(rows[j]) => rows[i].facts = rows[j].facts
  BY <1>1, FactsTell
<1>3. ~Collides(rows[i], rows[j]) \/ ~Collides(rows[j], rows[i])
  <2>1. CASE i < j
    <3>1. j \in 1 .. Len(rows) /\ i \in 1 .. j - 1
      BY <1>1, <2>1
    <3> QED BY <3>1
  <2>2. CASE j < i
    <3>1. i \in 1 .. Len(rows) /\ j \in 1 .. i - 1
      BY <1>1, <2>2
    <3> QED BY <3>1
  <2> QED BY <1>1, <2>1, <2>2
<1> QED BY <1>2, <1>3 DEF Collides

LEMMA BrowserRowsOf ==
  ASSUME NEW code, NEW source \in Sources, Consistent(source.rows), NEW R,
         R = Spooled(code, "browser", source.rows, Len(source.rows))
  PROVE  AreRowsOf(R, source.rows)
<1> DEFINE rows == source.rows n == Len(rows)
<1>1. n \in Nat /\ DOMAIN rows = 1 .. n
  BY SourceFacts
<1>2. IsSeq(R) /\ Len(R) = n /\ DOMAIN R = 1 .. n
      /\ \A i \in 1 .. n : R[i] = SpooledLine(code, "browser", rows[i], i)
  BY <1>1, SpooledFacts
<1>3. \A i \in DOMAIN rows : R[i].row = rows[i]
  <2> SUFFICES ASSUME NEW i \in DOMAIN rows PROVE R[i].row = rows[i]
    OBVIOUS
  <2>1. R[i] = [row |-> rows[i]]
    BY <1>1, <1>2, SpooledLines
  <2> QED BY <2>1
<1> QED BY <1>1, <1>2, <1>3, ConsistentIdentities DEF AreRowsOf

(* The rows of a listing stand together in a file that is in order, and    *)
(* what is generated for the first is kept for the others.                 *)
LEMMA ListingsHaveOneId ==
  ASSUME NEW source \in Sources, Consistent(source.rows), NEW R, AreRowsOf(R, source.rows),
         AreCanonical(R), InOrder(R),
         NEW P, Planned(R, P, Len(R))
  PROVE  OneIdPerListing(P)
<1> DEFINE rows == source.rows n == Len(R)
<1>1. /\ n \in Nat /\ DOMAIN R = 1 .. n /\ IsSeq(P) /\ DOMAIN P = 1 .. n
      /\ \A i \in DOMAIN rows : rows[i] \in CanonicalRow
  BY SourceFacts, SequenceFacts DEF AreRowsOf, Planned
<1>2. ASSUME NEW k \in DOMAIN R
      PROVE  R[k].row \in CanonicalRow /\ R[k].text \in Seq(Int) /\ Len(R[k].text) = 11
             /\ R[k].text[1] = R[k].row.listing
  <2>1. R[k].row \in CanonicalRow
    BY <1>1, <1>2 DEF AreRowsOf
  <2>2. R[k] = CanonicalLine(R[k].row)
    BY <1>2 DEF AreCanonical
  <2>3. /\ CanonicalLine(R[k].row).text \in Seq(Int) /\ Len(CanonicalLine(R[k].row).text) = 11
        /\ CanonicalLine(R[k].row).text[1] = R[k].row.listing
    BY <2>1, CanonicalFacts
  <2> QED BY <2>1, <2>2, <2>3
<1>3. R \in Seq(ItemsOf(R)) /\ Comparable(ItemsOf(R))
  <2>1. R \in Seq(ItemsOf(R))
    BY DEF AreRowsOf, IsSeq, ItemsOf
  <2> QED BY <1>2, <2>1, 11 \in Nat \ {0}, ComparableByLength
<1>4. ASSUME NEW k \in 1 .. n
      PROVE  /\ P[k] = PlannedRow(R[k].row, P[k].generated) /\ P[k].listing = R[k].row.listing
             /\ P[k].listingId = IF P[k].generated # 0 THEN P[k].generated
                                 ELSE R[k].row.facts.listingId
  <2>1. P[k] = PlannedRow(R[k].row, P[k].generated)
    BY DEF Planned, GeneratedFor
  <2>2. \A r, g : PlannedRow(r, g).listing = r.listing
          /\ PlannedRow(r, g).listingId = IF g # 0 THEN g ELSE r.facts.listingId
    BY DEF PlannedRow
  <2> QED BY <2>1, <2>2
<1>5. ASSUME NEW k \in 1 .. n, NEW l \in 1 .. n, k < l, R[k].row.listing = R[l].row.listing
      PROVE  P[l].generated = P[k].generated
  <2>1. Alike(R[k], R[l], 1)
    <3>1. R[k].text[1] = R[l].text[1]
      BY <1>1, <1>2, <1>5
    <3>2. \A i \in 1 .. 1 : i = 1
      OBVIOUS
    <3> QED BY <3>1, <3>2 DEF Alike
  <2>2. ASSUME NEW x \in k .. l PROVE R[x].row.listing = R[k].row.listing
    <3>1. x \in DOMAIN R /\ k \in DOMAIN R /\ l \in DOMAIN R /\ k <= x /\ x <= l
      BY <1>1
    <3>2. 1 \in Nat /\ 1 <= Len(R[k].text)
      BY <1>2, <3>1
    <3>3. Alike(R[x], R[k], 1)
      BY <1>3, <2>1, <3>1, <3>2, BetweenAlike
    <3>4. R[x].text[1] = R[k].text[1]
      BY <3>3 DEF Alike
    <3> QED BY <1>2, <3>1, <3>4
  <2> DEFINE f == [x \in 1 .. n |-> P[x].generated]
  <2>3. \A x \in k .. l - 1 : f[x + 1] = f[x]
    <3> SUFFICES ASSUME NEW x \in k .. l - 1 PROVE f[x + 1] = f[x]
      OBVIOUS
    <3>1. x \in k .. l /\ x + 1 \in k .. l /\ x \in 1 .. n - 1 /\ x \in 1 .. n /\ x + 1 \in 1 .. n
      BY <1>1
    <3>2. R[x + 1].row.listing = R[x].row.listing
      BY <2>2, <3>1
    <3>3. P[x + 1].generated = P[x].generated
      BY <3>1, <3>2 DEF Planned, GeneratedFor
    <3> QED BY <3>1, <3>3
  <2>4. k \in Nat /\ l \in Nat /\ k <= l /\ f[k] = P[k].generated /\ f[l] = P[l].generated
    BY <1>5
  <2> HIDE DEF f
  <2>5. f[l] = f[k]
    BY <2>3, <2>4, SameOfNeighbours
  <2> QED BY <2>4, <2>5
<1>6. ASSUME NEW k \in 1 .. n, NEW l \in 1 .. n, R[k].row.listing = R[l].row.listing
      PROVE  R[k].row.facts = R[l].row.facts
  <2>1. PICK i \in DOMAIN rows : R[k].row = rows[i]
    BY <1>1 DEF AreRowsOf
  <2>2. PICK j \in DOMAIN rows : R[l].row = rows[j]
    BY <1>1 DEF AreRowsOf
  <2>3. CASE i = j
    BY <2>1, <2>2, <2>3
  <2>4. CASE i # j
    BY <1>6, <2>1, <2>2, <2>4 DEF Consistent
  <2> QED BY <2>3, <2>4
<1>7. SUFFICES ASSUME NEW k \in 1 .. n, NEW l \in 1 .. n, P[k].listing = P[l].listing
               PROVE  P[k].listingId = P[l].listingId
  BY <1>1 DEF OneIdPerListing
<1>8. R[k].row.listing = R[l].row.listing
  BY <1>4, <1>7
<1>9. P[k].generated = P[l].generated
  <2>1. k < l \/ l < k \/ k = l
    BY <1>1
  <2> QED BY <1>5, <1>8, <2>1
<1> QED BY <1>4, <1>6, <1>8, <1>9

LEMMA CollisionIsReal ==
  ASSUME NEW rows, NEW i \in DOMAIN rows, NEW j \in DOMAIN rows, i # j,
         rows[i] \in CanonicalRow, rows[j] \in CanonicalRow, Collides(rows[i], rows[j])
  PROVE  ~Consistent(rows)
<1> SUFFICES ASSUME Consistent(rows) PROVE FALSE
  OBVIOUS
<1>1. /\ RowIdentity(rows[i]) # RowIdentity(rows[j])
      /\ rows[i].sku = 0 \/ rows[i].sku # rows[j].sku
      /\ rows[i].listing = rows[j].listing => rows[i].facts = rows[j].facts
  BY DEF Consistent
<1>2. NormalizedHash(rows[i]) # NormalizedHash(rows[j])
  BY <1>1, HashTells
<1>3. rows[i].facts = rows[j].facts => ListingFactsHash(rows[i]) = ListingFactsHash(rows[j])
  BY FactsTell
<1> QED BY <1>1, <1>2, <1>3 DEF Collides

LEMMA PlannedRowType ==
  ASSUME NEW row \in CanonicalRow, NEW generated \in Nat
  PROVE  PlannedRow(row, generated) \in PlannedImportRow
<1>1. RowIdentity(row) \in Seq(Nat) /\ NormalizedHash(row) \in Seq(Nat)
  <2>1. row.listing \in Nat /\ row.variant \in Nat
    BY DEF CanonicalRow
  <2> QED BY <2>1, HashFacts DEF RowIdentity
<1>2. row.listing \in Nat /\ row.facts.listingId \in Nat
  BY DEF CanonicalRow, Facts
<1>3. ActionFor(row) \in ImportAction
  BY DEF ActionFor, ImportAction
<1> DEFINE k == IF generated # 0 THEN generated ELSE row.facts.listingId
           c == IF ActionFor(row) = "conflict" THEN "conflict" ELSE "planned"
<1>5. k \in Nat /\ c \in ImportCheckpoint
  BY <1>2 DEF ImportCheckpoint
<1>6. PlannedRow(row, generated) =
        [identity |-> RowIdentity(row), hash |-> NormalizedHash(row), listing |-> row.listing,
         listingId |-> k, generated |-> generated, action |-> ActionFor(row), checkpoint |-> c]
  BY DEF PlannedRow
<1> HIDE DEF k, c
<1> QED BY <1>1, <1>2, <1>3, <1>5, <1>6 DEF PlannedImportRow

(* A plan of all the rows of a consistent source is a manifest that fits.  *)
LEMMA PlanFits ==
  ASSUME NEW code, NEW op, NEW host, host = "file" => op = "file",
         op = "file" \/ op = "browser",
         NEW source \in Sources, source.whole, NEW R, NEW P,
         RowsToPlan(code, op, source.rows, R, Len(source.rows)),
         Planned(R, P, Len(source.rows)), op = "file" => GeneratedOnce(P),
         NEW m, m = [version |-> 1, rows |-> P, source |-> source]
  PROVE  ManifestFits(host, m)
<1> DEFINE rows == source.rows n == Len(rows)
<1>1. /\ n \in Nat /\ DOMAIN rows = 1 .. n /\ \A i \in DOMAIN rows : rows[i] \in CanonicalRow
      /\ IsSeq(P) /\ Len(P) = n /\ DOMAIN P = 1 .. n
  BY SourceFacts, SequenceFacts DEF Planned
<1>2. Consistent(rows)
  BY NoCollisionIsConsistent DEF RowsToPlan
<1>4. AreRowsOf(R, rows)
  <2>1. CASE op = "file"
    <3>1. Arranged(R, Spooled(code, "file", rows, n))
      BY <2>1 DEF RowsToPlan
    <3> QED BY <1>2, <3>1, CanonicalRowsOf
  <2>2. CASE op = "browser"
    <3>1. R = Spooled(code, "browser", rows, n)
      BY <2>2 DEF RowsToPlan
    <3> QED BY <1>2, <3>1, BrowserRowsOf
  <2> QED BY <2>1, <2>2
<1>5. DOMAIN R = 1 .. n /\ Len(R) = n
  BY <1>4, SequenceFacts DEF AreRowsOf
<1>6. ASSUME NEW k \in 1 .. n
      PROVE  P[k].identity = RowIdentity(R[k].row) /\ P[k].hash = NormalizedHash(R[k].row)
  <2>1. P[k] = PlannedRow(R[k].row, P[k].generated)
    BY DEF Planned, GeneratedFor
  <2>2. \A r, g : PlannedRow(r, g).identity = RowIdentity(r)
                  /\ PlannedRow(r, g).hash = NormalizedHash(r)
    BY DEF PlannedRow
  <2> QED BY <2>1, <2>2
<1>7. \A i \in DOMAIN rows : \E j \in DOMAIN P :
        P[j].identity = RowIdentity(rows[i]) /\ P[j].hash = NormalizedHash(rows[i])
  <2> SUFFICES ASSUME NEW i \in DOMAIN rows
               PROVE  \E j \in DOMAIN P : P[j].identity = RowIdentity(rows[i])
                                          /\ P[j].hash = NormalizedHash(rows[i])
    OBVIOUS
  <2>1. PICK k \in DOMAIN R : R[k].row = rows[i]
    BY <1>4 DEF AreRowsOf
  <2> QED BY <1>1, <1>5, <1>6, <2>1
<1>8. \A j \in DOMAIN P : \E i \in DOMAIN rows :
        P[j].identity = RowIdentity(rows[i]) /\ P[j].hash = NormalizedHash(rows[i])
  <2> SUFFICES ASSUME NEW j \in DOMAIN P
               PROVE  \E i \in DOMAIN rows : P[j].identity = RowIdentity(rows[i])
                                             /\ P[j].hash = NormalizedHash(rows[i])
    OBVIOUS
  <2>1. PICK i \in DOMAIN rows : R[j].row = rows[i]
    BY <1>1, <1>4, <1>5 DEF AreRowsOf
  <2> QED BY <1>1, <1>5, <1>6, <2>1
<1>9. \A j, k \in DOMAIN P : P[j].identity = P[k].identity => j = k
  <2> SUFFICES ASSUME NEW j \in DOMAIN P, NEW k \in DOMAIN P, P[j].identity = P[k].identity
               PROVE  j = k
    OBVIOUS
  <2>1. j \in DOMAIN R /\ k \in DOMAIN R /\ j \in 1 .. n /\ k \in 1 .. n
    BY <1>1, <1>5
  <2>2. RowIdentity(R[j].row) = RowIdentity(R[k].row)
    BY <1>6, <2>1
  <2> QED BY <1>4, <2>1, <2>2 DEF AreRowsOf
<1>10. host = "file" => OneIdPerListing(P) /\ GeneratedOnce(P)
  <2> SUFFICES ASSUME host = "file" PROVE OneIdPerListing(P) /\ GeneratedOnce(P)
    OBVIOUS
  <2>1. Arranged(R, Spooled(code, "file", rows, n))
    BY DEF RowsToPlan
  <2>2. AreCanonical(R)
    BY <1>2, <2>1, CanonicalRowsOf
  <2>3. InOrder(R)
    BY <2>1 DEF Arranged
  <2>4. Planned(R, P, Len(R))
    BY <1>5
  <2>5. OneIdPerListing(P)
    BY <1>2, <1>4, <2>2, <2>3, <2>4, ListingsHaveOneId
  <2> QED BY <2>5
<1>11. P \in Seq(PlannedImportRow)
  <2>1. ASSUME NEW k \in DOMAIN P PROVE P[k] \in PlannedImportRow
    <3>1. k \in 1 .. n /\ k \in DOMAIN R
      BY <1>1, <1>5
    <3>2. R[k].row \in CanonicalRow
      BY <1>1, <1>4, <3>1 DEF AreRowsOf
    <3>3. P[k] = PlannedRow(R[k].row, P[k].generated) /\ P[k].generated \in Nat
      BY <3>1 DEF Planned, GeneratedFor
    <3> QED BY <3>2, <3>3, PlannedRowType
  <2>2. P \in Seq({P[k] : k \in DOMAIN P})
    BY <1>1 DEF IsSeq
  <2>3. {P[k] : k \in DOMAIN P} \subseteq PlannedImportRow
    BY <2>1
  <2> QED BY <2>2, <2>3
<1>12. IsPlanOf(host, P, source)
  BY <1>1, <1>2, <1>7, <1>8, <1>9, <1>10, <1>11 DEF IsPlanOf
<1> QED BY <1>12 DEF ManifestFits

HasPlanned(R, P, G, n, listing, generated) ==
  Planned(R, P, n) /\ IsLast(R, P, n, listing, generated) /\ GeneratedIn(R, P, n, G)

HasRows(R) == IsSeq(R) /\ \A k \in DOMAIN R : R[k].row \in CanonicalRow

(* What is generated at a row, when the row before it has the listing and  *)
(* what was generated for it.                                              *)
Generates(row, listing) == row.listing # listing /\ row.facts.listingId = 0

GeneratedAt(row, listing, before, id) ==
  IF Generates(row, listing) THEN id ELSE IF row.listing # listing THEN 0 ELSE before

MoreGenerated(G, row, listing, id, n) ==
  IF Generates(row, listing) THEN Append(G, GeneratedLine(id, row.listing, n)) ELSE G

(* Planning one row more.                                                  *)
LEMMA PlanNext ==
  ASSUME NEW R, NEW P, NEW G, NEW n \in Nat, n + 1 \in DOMAIN R, HasRows(R),
         NEW listing, NEW before, HasPlanned(R, P, G, n, listing, before),
         NEW id \in GeneratedIds, NEW row, row = R[n + 1].row
  PROVE  HasPlanned(R, Append(P, PlannedRow(row, GeneratedAt(row, listing, before, id))),
                    MoreGenerated(G, row, listing, id, n + 1), n + 1, row.listing,
                    GeneratedAt(row, listing, before, id))
<1> DEFINE generates == Generates(row, listing)
           generated == GeneratedAt(row, listing, before, id)
           PP == Append(P, PlannedRow(row, generated))
           GG == MoreGenerated(G, row, listing, id, n + 1)
<1>c. /\ generates \in BOOLEAN
      /\ generates => row.listing # listing /\ row.facts.listingId = 0
      /\ generated = IF generates THEN id ELSE IF row.listing # listing THEN 0 ELSE before
      /\ PP = Append(P, PlannedRow(row, generated))
      /\ GG = IF generates THEN Append(G, GeneratedLine(id, row.listing, n + 1)) ELSE G
  BY DEF Generates, GeneratedAt, MoreGenerated
<1> HIDE DEF generates, generated, PP, GG
<1> DEFINE m == n + 1 x == PlannedRow(row, generated)
<1>0. /\ m \in Nat /\ m # 0 /\ m \in 1 .. m /\ 1 .. n \subseteq 1 .. m
      /\ \A k \in 1 .. m : k \in 1 .. n \/ k = m
      /\ \A k \in 1 .. n : k # m
  OBVIOUS
<1>b. /\ IsSeq(R) /\ \A k \in DOMAIN R : R[k].row \in CanonicalRow
      /\ Planned(R, P, n) /\ IsLast(R, P, n, listing, before) /\ GeneratedIn(R, P, n, G)
  BY DEF HasPlanned, HasRows
<1>1. row \in CanonicalRow /\ row.listing \in Nat \ {0}
  BY <1>b DEF CanonicalRow
<1>2. id \in Nat /\ id # 0
  BY IdentityAssumption
<1>3. IsSeq(P) /\ Len(P) = n /\ GeneratedFor(R, P, n) /\ \A k \in 1 .. n : P[k].generated \in Nat
  BY <1>b DEF Planned
<1>4. /\ IsSeq(PP) /\ Len(PP) = m /\ \A k \in 1 .. n : PP[k] = P[k]
      /\ PP[m] = x
  BY <1>3, <1>c, AppendOf
<1>5. x = PlannedRow(R[m].row, x.generated) /\ x.generated = generated
  BY DEF PlannedRow
<1> HIDE DEF x
<1>6. \A k \in 1 .. m : PP[k] = PlannedRow(R[k].row, PP[k].generated)
  <2>1. \A k \in 1 .. n : PP[k] = PlannedRow(R[k].row, PP[k].generated)
    BY <1>3, <1>4 DEF GeneratedFor
  <2>2. PP[m] = PlannedRow(R[m].row, PP[m].generated)
    BY <1>4, <1>5
  <2> QED BY <1>0, <2>1, <2>2
<1>7. ASSUME NEW k \in 1 .. m - 1, R[k + 1].row.listing = R[k].row.listing
      PROVE  PP[k + 1].generated = PP[k].generated
  <2>1. CASE k = n
    <3>1. n # 0 /\ n \in 1 .. n /\ k + 1 = m
      BY <1>7, <2>1
    <3>2. listing = R[n].row.listing /\ before = P[n].generated
      BY <1>b, <3>1 DEF IsLast
    <3>3. row.listing = listing
      BY <1>7, <2>1, <3>2
    <3>4. generated = before
      BY <1>c, <3>3
    <3> QED BY <1>4, <1>5, <2>1, <3>1, <3>2, <3>4
  <2>2. CASE k # n
    <3>1. k \in 1 .. n - 1 /\ k \in 1 .. n /\ k + 1 \in 1 .. n
      BY <1>7, <2>2
    <3>2. P[k + 1].generated = P[k].generated
      BY <1>3, <1>7, <3>1 DEF GeneratedFor
    <3> QED BY <1>4, <3>1, <3>2
  <2> QED BY <2>1, <2>2
<1>d. generated \in Nat
  <2>1. CASE generates \/ row.listing # listing
    BY <1>2, <1>c, <2>1
  <2>2. CASE ~generates /\ row.listing = listing
    <3>1. n # 0 /\ n \in 1 .. n
      BY <1>1, <1>b, <2>2 DEF IsLast
    <3>2. before = P[n].generated
      BY <1>b, <3>1 DEF IsLast
    <3> QED BY <1>3, <1>c, <2>2, <3>1, <3>2
  <2> QED BY <2>1, <2>2
<1>e. \A k \in 1 .. m : PP[k].generated \in Nat
  <2>1. \A k \in 1 .. n : PP[k].generated \in Nat
    BY <1>3, <1>4
  <2>2. PP[m].generated \in Nat
    BY <1>4, <1>5, <1>d
  <2> QED BY <1>0, <2>1, <2>2
<1>8. Planned(R, PP, m)
  BY <1>4, <1>6, <1>7, <1>e DEF Planned, GeneratedFor
<1>9. IsLast(R, PP, m, row.listing, generated)
  BY <1>0, <1>4, <1>5 DEF IsLast
<1>10. GeneratedIn(R, PP, m, GG)
  <2>1. /\ IsSeq(G)
        /\ \A g \in DOMAIN G :
             /\ G[g].id \in Nat /\ G[g].listing \in Nat /\ G[g].text[3] \in Nat
             /\ G[g] = GeneratedLine(G[g].id, G[g].listing, G[g].text[3])
        /\ \A k \in 1 .. n : P[k].generated # 0 =>
             \E g \in DOMAIN G : G[g].id = P[k].generated /\ G[g].listing = R[k].row.listing
    BY <1>b DEF GeneratedIn
  <2>2. CASE ~generates
    <3>1. GG = G
      BY <1>c, <2>2
    <3>2. ASSUME generated # 0
          PROVE  \E g \in DOMAIN G : G[g].id = generated /\ G[g].listing = R[m].row.listing
      <4>1. row.listing = listing /\ generated = before
        BY <1>c, <2>2, <3>2
      <4>2. n # 0
        BY <1>b, <3>2, <4>1 DEF IsLast
      <4>3. n \in 1 .. n
        BY <4>2
      <4>4. listing = R[n].row.listing /\ before = P[n].generated
        BY <1>b, <4>2 DEF IsLast
      <4> QED BY <2>1, <3>2, <4>1, <4>3, <4>4
    <3>3. ASSUME NEW k \in 1 .. m, PP[k].generated # 0
          PROVE  \E g \in DOMAIN G : G[g].id = PP[k].generated /\ G[g].listing = R[k].row.listing
      <4>1. CASE k \in 1 .. n
        BY <1>4, <2>1, <3>3, <4>1
      <4>2. CASE k = m
        BY <1>4, <1>5, <3>2, <3>3, <4>2
      <4> QED BY <1>0, <4>1, <4>2
    <3>4. GeneratedIn(R, PP, m, G)
      BY <2>1, <3>3 DEF GeneratedIn
    <3> QED BY <3>1, <3>4
  <2>3. CASE generates
    <3> DEFINE l == GeneratedLine(id, row.listing, m)
    <3>1. /\ IsSeq(GG) /\ Len(GG) = Len(G) + 1
          /\ \A g \in 1 .. Len(G) : GG[g] = G[g]
          /\ GG[Len(G) + 1] = l
      <4>1. GG = Append(G, l)
        BY <1>c, <2>3
      <4> HIDE DEF l
      <4> QED BY <2>1, <4>1, AppendOf
    <3>a. IsGeneratedLine(l, id, row.listing, m)
      <4>1. row.listing \in Nat
        BY <1>1
      <4> QED BY <1>0, <1>2, <4>1, GeneratedFacts, Zenon
    <3>b. l = GeneratedLine(id, row.listing, m)
      OBVIOUS
    <3> HIDE DEF l
    <3>2. /\ l.id = id /\ l.listing = row.listing /\ l.text[3] = m
      BY <3>a DEF IsGeneratedLine
    <3>3. l.id \in Nat /\ l.listing \in Nat /\ l.text[3] \in Nat
          /\ l = GeneratedLine(l.id, l.listing, l.text[3])
      BY <1>0, <1>1, <1>2, <3>2, <3>b
    <3>4. /\ Len(G) \in Nat /\ DOMAIN G = 1 .. Len(G) /\ DOMAIN GG = 1 .. Len(G) + 1
      BY <2>1, <3>1, SequenceFacts
    <3>5. ASSUME NEW g \in DOMAIN GG
          PROVE  /\ GG[g].id \in Nat /\ GG[g].listing \in Nat /\ GG[g].text[3] \in Nat
                 /\ GG[g] = GeneratedLine(GG[g].id, GG[g].listing, GG[g].text[3])
      <4>1. CASE g \in DOMAIN G
        BY <2>1, <3>1, <3>4, <4>1
      <4>2. CASE g = Len(G) + 1
        BY <3>1, <3>3, <4>2
      <4> QED BY <3>4, <4>1, <4>2
    <3>6. \A g \in DOMAIN G : g \in DOMAIN GG /\ GG[g] = G[g]
      BY <3>1, <3>4
    <3>7. Len(G) + 1 \in DOMAIN GG
      BY <3>4
    <3>8. generated = id
      BY <1>c, <2>3
    <3>9. ASSUME NEW k \in 1 .. m, PP[k].generated # 0
          PROVE  \E g \in DOMAIN GG : GG[g].id = PP[k].generated /\ GG[g].listing = R[k].row.listing
      <4>1. CASE k \in 1 .. n
        <5>1. PICK g \in DOMAIN G : G[g].id = P[k].generated /\ G[g].listing = R[k].row.listing
          BY <1>4, <2>1, <3>9, <4>1
        <5> QED BY <1>4, <3>6, <4>1, <5>1
      <4>2. CASE k = m
        BY <1>4, <1>5, <3>1, <3>2, <3>7, <3>8, <4>2
      <4> QED BY <1>0, <4>1, <4>2
    <3> QED BY <3>1, <3>5, <3>9 DEF GeneratedIn
  <2> QED BY <2>2, <2>3
<1> QED BY <1>8, <1>9, <1>10 DEF HasPlanned, PP, GG, generated

(* Ids that were generated twice stand side by side when they are sorted.  *)
LEMMA GeneratedOnceOf ==
  ASSUME NEW R, NEW P, Planned(R, P, Len(P)), NEW G, GeneratedIn(R, P, Len(P), G),
         NEW s, Arranged(s, G),
         ~\E i \in 1 .. Len(s) - 1 : s[i].id = s[i + 1].id /\ s[i].listing # s[i + 1].listing
  PROVE  GeneratedOnce(P)
<1>1. IsSeq(P) /\ DOMAIN P = 1 .. Len(P) /\ Len(P) \in Nat
  BY SequenceFacts DEF Planned
<1>2. IsSeq(s) /\ DOMAIN s = 1 .. Len(s) /\ Len(s) \in Nat /\ InOrder(s) /\ Rearranged(G, s)
  BY SequenceFacts DEF Arranged
<1>3. /\ \A x \in DOMAIN G : \E y \in DOMAIN s : s[y] = G[x]
      /\ \A y \in DOMAIN s : \E x \in DOMAIN G : G[x] = s[y]
  BY <1>2, RearrangedFacts
<1>4. ASSUME NEW y \in DOMAIN s
      PROVE  /\ s[y].text \in Seq(Int) /\ Len(s[y].text) = 3 /\ s[y].text[1] = s[y].id
  <2>1. PICK x \in DOMAIN G : G[x] = s[y]
    BY <1>3
  <2>2. /\ G[x].id \in Nat /\ G[x].listing \in Nat /\ G[x].text[3] \in Nat
        /\ G[x] = GeneratedLine(G[x].id, G[x].listing, G[x].text[3])
    BY DEF GeneratedIn
  <2>3. IsGeneratedLine(G[x], G[x].id, G[x].listing, G[x].text[3])
    BY <2>2, GeneratedFacts
  <2> QED BY <2>1, <2>3 DEF IsGeneratedLine
<1>5. s \in Seq(ItemsOf(s)) /\ Comparable(ItemsOf(s))
  <2>1. s \in Seq(ItemsOf(s))
    BY <1>2 DEF IsSeq, ItemsOf
  <2> QED BY <1>4, <2>1, 3 \in Nat \ {0}, ComparableByLength
<1>6. ASSUME NEW p \in DOMAIN s, NEW q \in DOMAIN s, p < q, s[p].id = s[q].id
      PROVE  s[p].listing = s[q].listing
  <2>1. Alike(s[p], s[q], 1)
    <3>1. s[p].text[1] = s[q].text[1]
      BY <1>4, <1>6
    <3>2. \A i \in 1 .. 1 : i = 1
      OBVIOUS
    <3> QED BY <3>1, <3>2 DEF Alike
  <2>2. ASSUME NEW x \in p .. q PROVE x \in DOMAIN s /\ s[x].id = s[p].id
    <3>1. x \in DOMAIN s /\ p <= x /\ x <= q
      BY <1>2
    <3>2. 1 \in Nat /\ 1 <= Len(s[p].text)
      BY <1>4
    <3>3. Alike(s[x], s[p], 1)
      BY <1>2, <1>5, <2>1, <3>1, <3>2, BetweenAlike
    <3>4. s[x].text[1] = s[p].text[1]
      BY <3>3 DEF Alike
    <3> QED BY <1>4, <3>1, <3>4
  <2> DEFINE f == [x \in DOMAIN s |-> s[x].listing]
  <2>3. \A x \in p .. q - 1 : f[x + 1] = f[x]
    <3> SUFFICES ASSUME NEW x \in p .. q - 1 PROVE f[x + 1] = f[x]
      OBVIOUS
    <3>1. x \in p .. q /\ x + 1 \in p .. q /\ x \in 1 .. Len(s) - 1 /\ x \in DOMAIN s
          /\ x + 1 \in DOMAIN s
      BY <1>2
    <3>2. s[x].id = s[x + 1].id
      BY <2>2, <3>1
    <3>3. s[x].listing = s[x + 1].listing
      BY <3>1, <3>2
    <3> QED BY <3>1, <3>3
  <2>4. p \in Nat /\ q \in Nat /\ p <= q /\ f[p] = s[p].listing /\ f[q] = s[q].listing
    BY <1>2, <1>6
  <2> HIDE DEF f
  <2>5. f[q] = f[p]
    BY <2>3, <2>4, SameOfNeighbours
  <2> QED BY <2>4, <2>5
<1>7. ASSUME NEW k \in DOMAIN P, P[k].generated # 0
      PROVE  \E y \in DOMAIN s : s[y].id = P[k].generated /\ s[y].listing = P[k].listing
  <2>1. PICK g \in DOMAIN G : G[g].id = P[k].generated /\ G[g].listing = R[k].row.listing
    BY <1>1, <1>7 DEF GeneratedIn
  <2>2. P[k] = PlannedRow(R[k].row, P[k].generated)
    BY <1>1 DEF Planned, GeneratedFor
  <2>3. \A r, h : PlannedRow(r, h).listing = r.listing
    BY DEF PlannedRow
  <2>4. P[k].listing = R[k].row.listing
    BY <2>2, <2>3
  <2> QED BY <1>3, <2>1, <2>4
<1> SUFFICES ASSUME NEW k \in DOMAIN P, NEW l \in DOMAIN P,
                    P[k].generated # 0, P[k].generated = P[l].generated
             PROVE  P[k].listing = P[l].listing
  BY DEF GeneratedOnce
<1>8. PICK p \in DOMAIN s : s[p].id = P[k].generated /\ s[p].listing = P[k].listing
  BY <1>7
<1>9. PICK q \in DOMAIN s : s[q].id = P[l].generated /\ s[q].listing = P[l].listing
  BY <1>7
<1>10. p < q \/ q < p \/ p = q
  BY <1>2
<1> QED BY <1>6, <1>8, <1>9, <1>10

(* Nothing has been planned.                                               *)
LEMMA PlanNone ==
  ASSUME NEW R
  PROVE  Planned(R, <<>>, 0) /\ IsLast(R, <<>>, 0, 0, 0) /\ GeneratedIn(R, <<>>, 0, <<>>)
<1>1. \A k \in 1 .. 0 : FALSE
  OBVIOUS
<1>2. \A k \in 1 .. 0 - 1 : FALSE
  OBVIOUS
<1>3. GeneratedFor(R, <<>>, 0)
  BY <1>1, <1>2 DEF GeneratedFor
<1>4. Planned(R, <<>>, 0)
  BY <1>1, <1>3, EmptySequence DEF Planned
<1>5. GeneratedIn(R, <<>>, 0, <<>>)
  BY <1>1, EmptySequence DEF GeneratedIn
<1> QED BY <1>4, <1>5 DEF IsLast

(***************************************************************************)
(* The sort of an import.                                                  *)
(***************************************************************************)
(* Every step of an import leaves its sort alone or is a step of it.       *)
LEMMA SortIsDriven ==
  ASSUME [Next]_vars
  PROVE  [SortNext]_sorter
<1>1. ASSUME SortStep \/ FailSort \/ SortReturns \/ UNCHANGED sorter PROVE [SortNext]_sorter
  BY <1>1 DEF SortNext
<1>2. ASSUME NEW s, BeginSort(s) PROVE [SortNext]_sorter
  BY <1>2 DEF SortNext
<1>3. ASSUME NEW name, NEW stage, SortSpool(name, stage) PROVE [SortNext]_sorter
  BY <1>2, <1>3 DEF SortSpool
<1>4. CASE LoadSummary \/ CreateWorkspace \/ ParseRow \/ RefuseRow \/ Commit \/ Join
           \/ JoinEnd \/ Quarantine \/ Cleanup
  BY <1>1, <1>4 DEF LoadSummary, CreateWorkspace, ParseRow, RefuseRow, Commit, Join, JoinEnd,
     Quarantine, Cleanup, Leaves
<1>5. CASE ParseEnd \/ ValidateIndex \/ PlanEnd
  <2>1. CASE ParseEnd BY <1>1, <1>3, <2>1 DEF ParseEnd
  <2>2. CASE ValidateIndex BY <1>1, <1>3, <2>2 DEF ValidateIndex
  <2>3. CASE PlanEnd BY <1>1, <1>3, <2>3 DEF PlanEnd
  <2> QED BY <1>5, <2>1, <2>2, <2>3
<1>6. CASE Sorting \/ FaultInSort
  BY <1>1, <1>6 DEF Sorting, FaultInSort
<1>7. CASE PlanFromSorted \/ CheckGenerated \/ KeepReplayRows \/ KeepManifestRows
           \/ SortThrows \/ Fault \/ Die
  BY <1>1, <1>7 DEF PlanFromSorted, CheckGenerated, KeepReplayRows, KeepManifestRows,
     SortThrows, Fault, Die
<1>8. CASE \E id \in GeneratedIds : PlanRow(id)
  BY <1>1, <1>8 DEF PlanRow, Leaves
<1>9. CASE StreamRows
  BY <1>1, <1>2, <1>9 DEF StreamRows
<1>10. CASE \E op \in Operations, source \in Sources : Call(op, source)
  BY <1>1, <1>10 DEF Call
<1>11. CASE Reap \/ Checkpoint \/ Discard
  BY <1>1, <1>11 DEF Reap, Checkpoint, Discard
<1>12. CASE UNCHANGED vars
  BY <1>1, <1>12 DEF vars
<1> QED
  BY <1>4, <1>5, <1>6, <1>7, <1>8, <1>9, <1>10, <1>11, <1>12 DEF Next, Step

(***************************************************************************)
(* How a call moves on.                                                    *)
(***************************************************************************)
CallInv == JobInv /\ SpoolInv /\ ManifestInv /\ CauseInv

Became(k, j, stage, at) ==
  /\ IsCall(k) /\ k.op = j.op /\ k.source = j.source /\ k.stage = stage /\ k.at = at
  /\ k.summary = j.summary /\ k.listing = j.listing /\ k.generated = j.generated

LEMMA Goes ==
  ASSUME IsCall(job), NEW stage, GoTo(stage)
  PROVE  Became(job', job, stage, 0)
BY DEF IsCall, GoTo, Became

LEMMA Ends ==
  ASSUME IsCall(job), NEW outcome, End(outcome)
  PROVE  Became(job', job, "cleanup", job.at) /\ job'.outcome = outcome
BY DEF IsCall, End, Became

(* The stages a call is at while its sort waits for it.                    *)
LEMMA SorterIdle ==
  ASSUME JobInv, job.stage \notin SortStages, UNCHANGED sorter
  PROVE  sorting' = "idle" /\ input' = <<>>
BY DEF JobInv, sorter

LEMMA SorterReturns ==
  ASSUME SortReturns
  PROVE  sorting' = "idle" /\ input' = <<>>
BY DEF SortReturns

LEMMA SorterBegins ==
  ASSUME NEW s, BeginSort(s)
  PROVE  sorting' # "idle" /\ input' = s
BY DEF BeginSort

LEMMA WorldStays ==
  ASSUME Rest
  PROVE  setting' = setting /\ manifest' = manifest /\ result' = result
BY DEF Rest, world

(* The stages between its first and its last, and what they keep.          *)
LEMMA MovesJob ==
  ASSUME JobInv, setting' = setting, NEW stage, NEW at, Became(job', job, stage, at),
         job.stage # "idle", stage # "idle", stage \in StagesOf(job.op),
         stage \notin Reading \union {"cleanup"} => job.source.whole,
         IF stage \in SortStages THEN sorting' # "idle" ELSE sorting' = "idle" /\ input' = <<>>
  PROVE  JobInv'
<1>1. /\ IsCall(job') /\ job'.op = job.op /\ job'.source = job.source /\ job'.stage = stage
  BY DEF Became
<1>2. setting' \in [host : Hosts, code : Codes]
  BY DEF JobInv
<1>3. job.op \in Operations /\ job.source \in Sources
  BY DEF JobInv
<1>4. job'.op \in Operations' /\ job'.stage \in StagesOf(job'.op) /\ job'.source \in Sources
  BY <1>1, <1>3 DEF Operations
<1>5. job'.stage \notin Reading \union {"idle", "cleanup"} => job'.source.whole
  BY <1>1
<1>6. IF job'.stage \in SortStages THEN sorting' # "idle" ELSE sorting' = "idle" /\ input' = <<>>
  BY <1>1
<1> QED BY <1>1, <1>2, <1>4, <1>5, <1>6 DEF JobInv

LEMMA MovesManifest ==
  ASSUME ManifestInv, setting' = setting, manifest' = manifest, NEW stage, NEW at,
         Became(job', job, stage, at), job.stage \notin {"idle", "cleanup"},
         stage # "summary", stage # "cleanup" => job.stage # "summary",
         stage = "existing" => input' = ManifestLines(setting.code, job.summary.rows)
  PROVE  ManifestInv'
<1>1. /\ job'.op = job.op /\ job'.stage = stage /\ job'.summary = job.summary
  BY DEF Became
<1>2. manifest' # None => ManifestFits(setting'.host, manifest')
  BY DEF ManifestInv
<1>3. job.op = "replay" /\ job.summary # None =>
        ManifestFits(setting.host, job.summary) /\ SummaryFits(manifest, job.summary)
  BY DEF ManifestInv
<1>4. job'.op = "replay" /\ job'.stage # "idle" /\ job'.summary # None =>
        ManifestFits(setting'.host, job'.summary) /\ SummaryFits(manifest', job'.summary)
  BY <1>1, <1>3
<1>5. job'.op = "replay" /\ job'.stage \notin {"idle", "summary", "cleanup"} => job'.summary # None
  BY <1>1 DEF ManifestInv
<1>6. job'.stage = "existing" => input' = ManifestLines(setting'.code, job'.summary.rows)
  BY <1>1
<1> QED BY <1>1, <1>2, <1>4, <1>5, <1>6 DEF ManifestInv

LEMMA MovesCause ==
  ASSUME CauseInv, result' = result, NEW stage, NEW at, Became(job', job, stage, at),
         stage = "cleanup" => Cause(job'.outcome, job.source)
  PROVE  CauseInv'
BY DEF CauseInv, Became

(* A call may end at any of its stages, for a cause.                       *)
LEMMA CallEnds ==
  ASSUME CallInv, job.stage \notin {"idle", "cleanup"}, NEW outcome, End(outcome),
         Cause(outcome, job.source), setting' = setting, spool' = spool, result' = result,
         sorting' = "idle", input' = <<>>
  PROVE  /\ JobInv' /\ SpoolInv' /\ CauseInv'
         /\ manifest' = manifest => ManifestInv'
<1>0. JobInv /\ SpoolInv /\ ManifestInv /\ CauseInv
  BY DEF CallInv
<1>1. Became(job', job, "cleanup", job.at) /\ job'.outcome = outcome
  BY <1>0, Ends DEF JobInv
<1>2. JobInv'
  <2>1. job.op \in {"file", "replay", "browser"}
    BY <1>0 DEF JobInv, Operations
  <2>2. "cleanup" \in StagesOf(job.op) /\ "cleanup" \notin SortStages
    BY <2>1 DEF StagesOf, SortStages
  <2> QED BY <1>0, <1>1, <2>2, MovesJob
<1>3. SpoolInv'
  <2>1. job'.stage = "cleanup"
    BY <1>1 DEF Became
  <2>2. AreFiles(spool')
    BY <1>0 DEF SpoolInv
  <2> QED BY <2>1, <2>2 DEF SpoolInv, Reading
<1>4. CauseInv'
  BY <1>0, <1>1, MovesCause
<1>5. manifest' = manifest => ManifestInv'
  BY <1>0, <1>1, MovesManifest
<1> QED BY <1>2, <1>3, <1>4, <1>5

(* A call goes on to its next stage, or stays at one.                      *)
LEMMA CallGoesOn ==
  ASSUME CallInv, job.stage \notin {"idle", "cleanup", "summary"},
         setting' = setting, manifest' = manifest, result' = result,
         NEW stage, stage \notin {"idle", "cleanup", "summary"}, stage \in StagesOf(job.op),
         NEW at, Became(job', job, stage, at),
         stage \notin Reading => job.source.whole,
         IF stage \in SortStages THEN sorting' # "idle" ELSE sorting' = "idle" /\ input' = <<>>,
         stage = "existing" => input' = ManifestLines(setting.code, job.summary.rows)
  PROVE  JobInv' /\ ManifestInv' /\ CauseInv'
<1>0. JobInv /\ ManifestInv /\ CauseInv
  BY DEF CallInv
<1>1. JobInv'
  BY <1>0, MovesJob
<1>2. ManifestInv'
  BY <1>0, MovesManifest
<1>3. CauseInv'
  BY <1>0, MovesCause
<1> QED BY <1>1, <1>2, <1>3

(***************************************************************************)
(* Reading the source.                                                     *)
(***************************************************************************)
LEMMA CallKeeps ==
  ASSUME CallInv, NEW op \in Operations, NEW source \in Sources, Call(op, source)
  PROVE  CallInv'
<1>0. JobInv /\ SpoolInv /\ ManifestInv /\ CauseInv
  BY DEF CallInv
<1>1. /\ job.stage = "idle" /\ spool' = NoSpool /\ result' = None
      /\ setting' = setting /\ manifest' = manifest /\ UNCHANGED sorter
      /\ job' = [NoJob EXCEPT !.op = op, !.source = source,
                  !.stage = IF op = "replay" THEN "summary"
                            ELSE IF op = "file" THEN "open" ELSE "parse"]
  BY DEF Call, At, world
<1>2. op \in {"file", "replay", "browser"}
  BY DEF Operations
<1>3. sorting' = "idle" /\ input' = <<>>
  BY <1>0, <1>1, SorterIdle DEF SortStages
<1>4. /\ IsCall(job') /\ job'.op = op /\ job'.source = source /\ job'.at = 0
      /\ job'.summary = None /\ job'.listing = 0 /\ job'.generated = 0
      /\ job'.stage = IF op = "replay" THEN "summary" ELSE IF op = "file" THEN "open" ELSE "parse"
  BY <1>1 DEF NoJob, IsCall
<1>5. JobInv'
  <2>1. /\ job'.stage \in Reading /\ job'.stage \in StagesOf(job'.op) /\ job'.stage # "idle"
        /\ job'.stage \notin SortStages
    BY <1>2, <1>4 DEF Reading, StagesOf, SortStages
  <2>2. setting' \in [host : Hosts, code : Codes] /\ job'.op \in Operations'
    BY <1>0, <1>1, <1>4 DEF JobInv, Operations
  <2> QED BY <1>3, <1>4, <2>1, <2>2 DEF JobInv
<1>6. SpoolInv'
  <2>1. /\ AreFiles(spool') /\ spool'.index = <<>> /\ spool'.rows = <<>> /\ spool'.planned = <<>>
        /\ spool'.generated = <<>> /\ spool'.existing = <<>> /\ spool'.conflicts = <<>>
    BY <1>1 DEF NoSpool, AreFiles
  <2>2. job'.stage \in {"summary", "open", "parse"} /\ (job'.stage = "parse" => job'.op = "browser")
    BY <1>2, <1>4
  <2>3. Len(source.rows) \in Nat
    BY SourceFacts
  <2>4. job'.stage = "parse" =>
          /\ job'.at \in 0 .. Len(job'.source.rows)
          /\ spool'.rows = Spooled(setting'.code, job'.op, job'.source.rows, job'.at)
          /\ job'.op # "browser" => Indexed(spool'.index, job'.source.rows, job'.at)
    BY <1>4, <2>1, <2>2, <2>3, SpooledNone
  <2> QED BY <1>4, <2>1, <2>2, <2>4 DEF SpoolInv
<1>7. ManifestInv'
  <2>1. manifest' # None => ManifestFits(setting'.host, manifest')
    BY <1>0, <1>1 DEF ManifestInv
  <2>2. job'.op = "replay" => job'.stage = "summary"
    BY <1>4
  <2> QED BY <1>2, <1>4, <2>1, <2>2 DEF ManifestInv
<1>8. CauseInv'
  BY <1>1, <1>2, <1>4 DEF CauseInv
<1> QED BY <1>5, <1>6, <1>7, <1>8 DEF CallInv

LEMMA LoadSummaryKeeps ==
  ASSUME CallInv, LoadSummary
  PROVE  CallInv'
<1>0. JobInv /\ SpoolInv /\ ManifestInv /\ CauseInv
  BY DEF CallInv
<1>1. job.stage = "summary" /\ spool' = spool /\ UNCHANGED sorter
      /\ setting' = setting /\ manifest' = manifest /\ result' = result
  BY WorldStays DEF LoadSummary, At, Leaves
<1>2. sorting' = "idle" /\ input' = <<>>
  BY <1>0, <1>1, SorterIdle DEF SortStages
<1>3. CASE End("manifest_conflict")
  <2>1. Cause("manifest_conflict", job.source)
    BY DEF Cause
  <2> QED BY <1>1, <1>2, <1>3, <2>1, CallEnds DEF CallInv
<1>4. CASE manifest # None /\ job' = [job EXCEPT !.summary = manifest, !.stage = "open"]
  <2>1. /\ IsCall(job') /\ job'.op = job.op /\ job'.source = job.source /\ job'.stage = "open"
        /\ job'.at = job.at /\ job'.summary = manifest /\ job'.listing = job.listing
        /\ job'.generated = job.generated
    BY <1>0, <1>4 DEF JobInv, IsCall
  <2>2. job.op = "replay" /\ job.op \in Operations /\ job.source \in Sources
    BY <1>0, <1>1 DEF JobInv, StagesOf, Operations
  <2>3. JobInv'
    <3>1. job'.stage \in StagesOf(job'.op) /\ job'.stage \in Reading /\ job'.stage \notin SortStages
      BY <2>1, <2>2 DEF StagesOf, Reading, SortStages
    <3>2. setting' \in [host : Hosts, code : Codes] /\ job'.op \in Operations' /\ job'.source \in Sources
      BY <1>0, <1>1, <2>1, <2>2 DEF JobInv, Operations
    <3> QED BY <1>2, <2>1, <3>1, <3>2 DEF JobInv
  <2>4. SpoolInv'
    BY <1>0, <1>1, <2>1 DEF SpoolInv, Reading
  <2>5. ManifestInv'
    <3>1. ManifestFits(setting'.host, manifest')
      BY <1>0, <1>1, <1>4 DEF ManifestInv
    <3>2. SummaryFits(manifest', job'.summary)
      <4>1. manifest.version \in Nat
        BY <1>1, <3>1 DEF ManifestFits
      <4> QED BY <1>1, <2>1, <4>1 DEF SummaryFits
    <3> QED BY <1>1, <1>4, <2>1, <3>1, <3>2 DEF ManifestInv
  <2>6. CauseInv'
    BY <1>0, <1>1, <2>1 DEF CauseInv
  <2> QED BY <2>3, <2>4, <2>5, <2>6 DEF CallInv
<1> QED BY <1>3, <1>4 DEF LoadSummary

LEMMA CreateWorkspaceKeeps ==
  ASSUME CallInv, CreateWorkspace
  PROVE  CallInv'
<1>0. JobInv /\ SpoolInv
  BY DEF CallInv
<1>1. /\ job.stage = "open" /\ spool' = spool /\ UNCHANGED sorter /\ setting' = setting
      /\ manifest' = manifest /\ result' = result /\ GoTo("parse")
  BY DEF CreateWorkspace, At
<1>2. sorting' = "idle" /\ input' = <<>>
  BY <1>0, <1>1, SorterIdle DEF SortStages
<1>3. Became(job', job, "parse", 0)
  BY <1>0, <1>1, Goes DEF JobInv
<1>4. job.op \in {"file", "replay", "browser"} /\ job.source \in Sources
  BY <1>0, <1>1 DEF JobInv, Operations
<1>5. JobInv' /\ ManifestInv' /\ CauseInv'
  <2>1. "parse" \in StagesOf(job.op) /\ "parse" \in Reading /\ "parse" \notin SortStages
    BY <1>4 DEF StagesOf, Reading, SortStages
  <2> QED BY <1>1, <1>2, <1>3, <2>1, CallGoesOn
<1>6. SpoolInv'
  <2>1. /\ job.listing = 0 /\ job.generated = 0 /\ AreFiles(spool)
        /\ spool.planned = <<>> /\ spool.generated = <<>> /\ spool.existing = <<>>
        /\ spool.conflicts = <<>> /\ spool.rows = <<>> /\ spool.index = <<>>
    BY <1>0, <1>1 DEF SpoolInv, Reading
  <2>2. /\ job'.stage = "parse" /\ job'.at = 0 /\ job'.source = job.source
        /\ job'.listing = job.listing /\ job'.generated = job.generated
    BY <1>3 DEF Became
  <2>3. /\ job'.at \in 0 .. Len(job'.source.rows)
        /\ spool'.rows = Spooled(setting'.code, job'.op, job'.source.rows, job'.at)
        /\ Indexed(spool'.index, job'.source.rows, job'.at)
    <3>1. Len(job.source.rows) \in Nat
      BY <1>4, SourceFacts
    <3> QED BY <1>1, <2>1, <2>2, <3>1, SpooledNone, IndexedNone
  <2> QED BY <1>1, <2>1, <2>2, <2>3 DEF SpoolInv
<1> QED BY <1>5, <1>6 DEF CallInv

LEMMA ParseRowKeeps ==
  ASSUME CallInv, ParseRow
  PROVE  CallInv'
<1> DEFINE rows == job.source.rows n == job.at + 1 code == setting.code
           line == CASE job.op = "browser" -> [row |-> rows[n]]
                     [] job.op = "file" -> CanonicalLine(rows[n])
                     [] OTHER -> ReplayIndexLine(RowIdentity(rows[n]), NormalizedHash(rows[n]), n)
<1>0. JobInv /\ SpoolInv
  BY DEF CallInv
<1>1. /\ job.stage = "parse" /\ job.at < Len(rows) /\ UNCHANGED sorter
      /\ setting' = setting /\ manifest' = manifest /\ result' = result
      /\ job' = [job EXCEPT !.at = @ + 1]
      /\ spool' = [spool EXCEPT !.rows = Append(@, line),
                     !.index = IF job.op = "browser" THEN @ ELSE @ \o IndexLines(rows[n], n)]
  BY WorldStays DEF ParseRow, At, Leaves
<1>2. sorting' = "idle" /\ input' = <<>>
  BY <1>0, <1>1, SorterIdle DEF SortStages
<1>3. Became(job', job, "parse", n)
  BY <1>0, <1>1 DEF JobInv, IsCall, Became
<1>4. job.op \in {"file", "replay", "browser"} /\ job.source \in Sources
  BY <1>0, <1>1 DEF JobInv, Operations
<1>5. JobInv' /\ ManifestInv' /\ CauseInv'
  <2>1. "parse" \in StagesOf(job.op) /\ "parse" \in Reading /\ "parse" \notin SortStages
    BY <1>4 DEF StagesOf, Reading, SortStages
  <2> QED BY <1>1, <1>2, <1>3, <2>1, CallGoesOn
<1>6. /\ job.at \in 0 .. Len(rows) /\ spool.rows = Spooled(code, job.op, rows, job.at)
      /\ job.op # "browser" => Indexed(spool.index, rows, job.at)
      /\ job.listing = 0 /\ job.generated = 0 /\ AreFiles(spool) /\ spool.planned = <<>>
      /\ spool.generated = <<>> /\ spool.existing = <<>> /\ spool.conflicts = <<>>
  BY <1>0, <1>1 DEF SpoolInv, Reading
<1>7. /\ rows \in Seq(CanonicalRow) /\ Len(rows) \in Nat
  BY <1>4, SourceFacts
<1>8. line = SpooledLine(code, job.op, rows[n], n)
  <2>1. ReplayIndexLine(RowIdentity(rows[n]), NormalizedHash(rows[n]), n)
          = ReplayLine(code, RowIdentity(rows[n]), NormalizedHash(rows[n]), n)
    BY DEF ReplayIndexLine, ReplayLine
  <2>2. CASE job.op = "browser"
    BY <2>2, SpooledLines
  <2>3. CASE job.op = "file"
    BY <2>3, SpooledLines
  <2>4. CASE job.op = "replay"
    BY <2>1, <2>4, SpooledLines
  <2> QED BY <1>4, <2>2, <2>3, <2>4
<1> HIDE DEF line
<1>9. job.at \in Nat /\ n \in 0 .. Len(rows) /\ n <= Len(rows)
  BY <1>1, <1>6, <1>7
<1>10. Append(spool.rows, line) = Spooled(code, job.op, rows, n)
  <2>1. job.at \in Nat
    BY <1>9
  <2>2. Spooled(code, job.op, rows, job.at + 1)
          = Append(Spooled(code, job.op, rows, job.at),
                   SpooledLine(code, job.op, rows[job.at + 1], job.at + 1))
    BY <2>1, SpooledNext, Zenon
  <2> QED BY <1>6, <1>8, <2>2, Zenon
<1>11. /\ AreFiles(spool') /\ spool'.rows = Append(spool.rows, line)
       /\ spool'.index = IF job.op = "browser" THEN spool.index
                         ELSE spool.index \o IndexLines(rows[n], n)
       /\ spool'.planned = spool.planned /\ spool'.generated = spool.generated
       /\ spool'.existing = spool.existing /\ spool'.conflicts = spool.conflicts
  BY <1>1, <1>6 DEF AreFiles
<1>12. job.op # "browser" => Indexed(spool'.index, rows, n)
  <2> SUFFICES ASSUME job.op # "browser" PROVE Indexed(spool'.index, rows, n)
    OBVIOUS
  <2>1. Indexed(spool.index \o IndexLines(rows[n], n), rows, n)
    BY <1>6, <1>7, <1>9, IndexedNext
  <2> QED BY <1>11, <2>1
<1>13. SpoolInv'
  <2>1. /\ job'.stage = "parse" /\ job'.at = n /\ job'.source = job.source /\ job'.op = job.op
        /\ job'.listing = job.listing /\ job'.generated = job.generated
    BY <1>3 DEF Became
  <2>2. /\ job'.at \in 0 .. Len(job'.source.rows)
        /\ spool'.rows = Spooled(setting'.code, job'.op, job'.source.rows, job'.at)
        /\ job'.op # "browser" => Indexed(spool'.index, job'.source.rows, job'.at)
    BY <1>1, <1>9, <1>10, <1>11, <1>12, <2>1
  <2> QED BY <1>6, <1>11, <2>1, <2>2 DEF SpoolInv
<1> QED BY <1>5, <1>13 DEF CallInv

(***************************************************************************)
(* Validating the identity index.                                          *)
(***************************************************************************)
LEMMA ParseEndKeeps ==
  ASSUME CallInv, ParseEnd
  PROVE  CallInv'
<1> DEFINE rows == job.source.rows total == Len(rows) code == setting.code
<1>0. JobInv /\ SpoolInv
  BY DEF CallInv
<1>1. /\ job.stage = "parse" /\ job.at = total
      /\ setting' = setting /\ manifest' = manifest /\ result' = result
  BY WorldStays DEF ParseEnd, At
<1>2. job.op \in {"file", "replay", "browser"} /\ job.source \in Sources
  BY <1>0, <1>1 DEF JobInv, Operations
<1>3. total \in Nat
  BY <1>2, SourceFacts
<1>4. /\ spool.rows = Spooled(code, job.op, rows, total)
      /\ job.op # "browser" => Indexed(spool.index, rows, total)
      /\ job.listing = 0 /\ job.generated = 0 /\ AreFiles(spool) /\ spool.planned = <<>>
      /\ spool.generated = <<>> /\ spool.existing = <<>> /\ spool.conflicts = <<>>
  BY <1>0, <1>1 DEF SpoolInv, Reading
<1>5. CASE ~job.source.whole /\ End("malformed_csv") /\ UNCHANGED <<sorter, spool>>
  <2>1. Cause("malformed_csv", job.source)
    BY <1>5 DEF Cause
  <2>2. sorting' = "idle" /\ input' = <<>>
    BY <1>0, <1>1, <1>5, SorterIdle DEF SortStages
  <2> QED BY <1>1, <1>5, <2>1, <2>2, CallEnds DEF CallInv
<1>6. CASE job.source.whole /\ job.op = "browser" /\ GoTo("plan") /\ UNCHANGED <<sorter, spool>>
  <2>1. sorting' = "idle" /\ input' = <<>>
    BY <1>0, <1>1, <1>6, SorterIdle DEF SortStages
  <2>2. Became(job', job, "plan", 0)
    BY <1>0, <1>6, Goes DEF JobInv
  <2>3. JobInv' /\ ManifestInv' /\ CauseInv'
    <3>1. "plan" \in StagesOf(job.op) /\ "plan" \notin SortStages
      BY <1>6 DEF StagesOf, SortStages
    <3> QED BY <1>1, <1>6, <2>1, <2>2, <3>1, CallGoesOn
  <2>4. SpoolInv'
    <3>1. /\ job'.stage = "plan" /\ job'.at = 0 /\ job'.source = job.source /\ job'.op = job.op
          /\ job'.listing = job.listing /\ job'.generated = job.generated
      BY <2>2 DEF Became
    <3>2. Len(spool.rows) \in Nat
      BY <1>3, <1>4, SpooledFacts
    <3>3. RowsToPlan(code, job.op, rows, spool.rows, 0)
      <4>1. \A k \in 1 .. 0 : FALSE
        OBVIOUS
      <4> QED BY <1>4, <1>6, <4>1 DEF RowsToPlan
    <3>4. /\ Planned(spool.rows, spool.planned, 0)
          /\ IsLast(spool.rows, spool.planned, 0, job.listing, job.generated)
          /\ GeneratedIn(spool.rows, spool.planned, 0, spool.generated)
      BY <1>4, PlanNone
    <3> QED BY <1>1, <1>4, <1>6, <3>1, <3>2, <3>3, <3>4 DEF SpoolInv, Reading
  <2> QED BY <2>3, <2>4 DEF CallInv
<1>7. CASE job.source.whole /\ job.op # "browser" /\ SortSpool("index", "index")
  <2>1. /\ sorting' # "idle" /\ input' = spool.index /\ GoTo("index")
        /\ spool' = [spool EXCEPT !.index = <<>>]
    BY <1>7, SorterBegins DEF SortSpool
  <2>2. Became(job', job, "index", 0)
    BY <1>0, <2>1, Goes DEF JobInv
  <2>3. JobInv' /\ ManifestInv' /\ CauseInv'
    <3>1. "index" \in StagesOf(job.op) /\ "index" \in SortStages
      BY <1>2, <1>7 DEF StagesOf, SortStages
    <3> QED BY <1>1, <1>7, <2>1, <2>2, <3>1, CallGoesOn
  <2>4. SpoolInv'
    <3>1. /\ job'.stage = "index" /\ job'.source = job.source /\ job'.op = job.op
          /\ job'.listing = job.listing /\ job'.generated = job.generated
      BY <2>2 DEF Became
    <3>2. /\ AreFiles(spool') /\ spool'.rows = spool.rows /\ spool'.planned = spool.planned
          /\ spool'.generated = spool.generated /\ spool'.existing = spool.existing
          /\ spool'.conflicts = spool.conflicts
      BY <1>4, <2>1 DEF AreFiles
    <3> QED BY <1>1, <1>4, <1>7, <2>1, <3>1, <3>2 DEF SpoolInv
  <2> QED BY <2>3, <2>4 DEF CallInv
<1> QED BY <1>5, <1>6, <1>7 DEF ParseEnd

LEMMA ValidateIndexKeeps ==
  ASSUME CallInv, SortInv, ValidateIndex
  PROVE  CallInv'
<1> DEFINE rows == job.source.rows total == Len(rows) code == setting.code
<1>0. JobInv /\ SpoolInv /\ ManifestInv
  BY DEF CallInv
<1>1. /\ job.stage = "index" /\ sorting = "sorted"
      /\ setting' = setting /\ manifest' = manifest /\ result' = result
  BY WorldStays DEF ValidateIndex, SortedFor, At
<1>2. /\ job.op \in {"file", "replay"} /\ job.source \in Sources /\ job.source.whole
  BY <1>0, <1>1 DEF JobInv, Operations, StagesOf, Reading
<1>3. rows \in Seq(CanonicalRow)
  BY <1>2, SourceFacts
<1>4. /\ spool.rows = Spooled(code, job.op, rows, total) /\ Indexed(input, rows, total)
      /\ job.listing = 0 /\ job.generated = 0 /\ AreFiles(spool) /\ spool.planned = <<>>
      /\ spool.generated = <<>> /\ spool.existing = <<>> /\ spool.conflicts = <<>>
  BY <1>0, <1>1 DEF SpoolInv, Reading
<1>5. IsSeq(sorted) /\ Rearranged(input, sorted) /\ InOrder(sorted)
  <2>1. Arranged(sorted, input)
    BY <1>0, <1>1, InputIsSortable, SortedFacts
  <2> QED BY <2>1 DEF Arranged
<1>6. Indexed(sorted, rows, total)
  BY <1>4, <1>5, IndexedRearranged
<1>7. CASE Clashes(sorted) # {} /\ End("collision") /\ SortReturns /\ UNCHANGED spool
  <2>1. ~Consistent(rows)
    BY <1>3, <1>6, <1>7, ClashIsReal
  <2>2. Cause("collision", job.source)
    BY <2>1 DEF Cause
  <2> QED BY <1>1, <1>7, <2>2, SorterReturns, CallEnds DEF CallInv
<1>8. CASE Clashes(sorted) = {} /\ SortSpool("rows", "rows")
  <2>1. /\ sorting' # "idle" /\ input' = spool.rows /\ GoTo("rows")
        /\ spool' = [spool EXCEPT !.rows = <<>>]
    BY <1>8, SorterBegins DEF SortSpool
  <2>2. Became(job', job, "rows", 0)
    BY <1>0, <2>1, Goes DEF JobInv
  <2>3. JobInv' /\ ManifestInv' /\ CauseInv'
    <3>1. "rows" \in StagesOf(job.op) /\ "rows" \in SortStages
      BY <1>2 DEF StagesOf, SortStages
    <3> QED BY <1>1, <1>2, <2>1, <2>2, <3>1, CallGoesOn
  <2>4. Consistent(rows)
    BY <1>3, <1>5, <1>6, <1>8, NoClashIsConsistent
  <2>5. SpoolInv'
    <3>1. /\ job'.stage = "rows" /\ job'.source = job.source /\ job'.op = job.op
          /\ job'.listing = job.listing /\ job'.generated = job.generated
      BY <2>2 DEF Became
    <3>2. /\ AreFiles(spool') /\ spool'.planned = spool.planned
          /\ spool'.generated = spool.generated /\ spool'.existing = spool.existing
          /\ spool'.conflicts = spool.conflicts
      BY <1>4, <2>1 DEF AreFiles
    <3> QED BY <1>1, <1>4, <2>1, <2>4, <3>1, <3>2 DEF SpoolInv
  <2> QED BY <2>3, <2>5 DEF CallInv
<1> QED BY <1>7, <1>8 DEF ValidateIndex

(***************************************************************************)
(* Planning.                                                               *)
(***************************************************************************)
LEMMA PlanFromSortedKeeps ==
  ASSUME CallInv, SortInv, PlanFromSorted
  PROVE  CallInv'
<1> DEFINE rows == job.source.rows total == Len(rows) code == setting.code
<1>0. JobInv /\ SpoolInv /\ ManifestInv
  BY DEF CallInv
<1>1. /\ job.stage = "rows" /\ sorting = "sorted" /\ job.op = "file" /\ GoTo("plan")
      /\ spool' = [spool EXCEPT !.rows = sorted] /\ sorting' = "idle" /\ input' = <<>>
      /\ setting' = setting /\ manifest' = manifest /\ result' = result
  BY WorldStays, SorterReturns DEF PlanFromSorted, SortedFor, At
<1>2. job.source \in Sources /\ job.source.whole
  BY <1>0, <1>1 DEF JobInv, Reading
<1>3. /\ input = Spooled(code, "file", rows, total) /\ Consistent(rows)
      /\ job.listing = 0 /\ job.generated = 0 /\ AreFiles(spool) /\ spool.planned = <<>>
      /\ spool.generated = <<>> /\ spool.existing = <<>> /\ spool.conflicts = <<>>
  BY <1>0, <1>1 DEF SpoolInv, Reading
<1>4. Arranged(sorted, Spooled(code, "file", rows, total))
  BY <1>0, <1>1, <1>3, InputIsSortable, SortedFacts
<1>5. Became(job', job, "plan", 0)
  BY <1>0, <1>1, Goes DEF JobInv
<1>6. JobInv' /\ ManifestInv' /\ CauseInv'
  <2>1. "plan" \in StagesOf(job.op) /\ "plan" \notin SortStages
    BY <1>1 DEF StagesOf, SortStages
  <2> QED BY <1>1, <1>2, <1>5, <2>1, CallGoesOn
<1>7. SpoolInv'
  <2>1. /\ job'.stage = "plan" /\ job'.at = 0 /\ job'.source = job.source /\ job'.op = job.op
        /\ job'.listing = job.listing /\ job'.generated = job.generated
    BY <1>5 DEF Became
  <2>2. /\ AreFiles(spool') /\ spool'.rows = sorted /\ spool'.planned = spool.planned
        /\ spool'.generated = spool.generated /\ spool'.existing = spool.existing
        /\ spool'.conflicts = spool.conflicts
    BY <1>1, <1>3 DEF AreFiles
  <2>3. Len(sorted) \in Nat
    BY <1>4, SequenceFacts DEF Arranged
  <2>4. RowsToPlan(code, job.op, rows, sorted, 0)
    BY <1>1, <1>3, <1>4 DEF RowsToPlan
  <2>5. /\ Planned(sorted, <<>>, 0) /\ IsLast(sorted, <<>>, 0, 0, 0)
        /\ GeneratedIn(sorted, <<>>, 0, <<>>)
    BY PlanNone
  <2> QED BY <1>1, <1>3, <2>1, <2>2, <2>3, <2>4, <2>5 DEF SpoolInv, Reading
<1> QED BY <1>6, <1>7 DEF CallInv

(* The rows that are still to be planned are rows of the source.           *)
AreToPlan(op, R, rows) ==
  /\ IsSeq(R) /\ Len(R) = Len(rows) /\ DOMAIN R = 1 .. Len(R)
  /\ \A k \in DOMAIN R : R[k].row \in CanonicalRow
  /\ op = "browser" => \A k \in DOMAIN R : R[k].row = rows[k]

LEMMA RowsAreToPlan ==
  ASSUME NEW code, NEW op \in {"file", "browser"}, NEW source \in Sources, NEW R, NEW n,
         RowsToPlan(code, op, source.rows, R, n)
  PROVE  AreToPlan(op, R, source.rows)
<1> DEFINE rows == source.rows total == Len(rows)
<1>1. total \in Nat /\ DOMAIN rows = 1 .. total /\ \A i \in DOMAIN rows : rows[i] \in CanonicalRow
  BY SourceFacts
<1>2. CASE op = "file"
  <2>1. Arranged(R, Spooled(code, "file", rows, total)) /\ Consistent(rows)
    BY <1>2 DEF RowsToPlan
  <2>2. AreRowsOf(R, rows)
    BY <2>1, CanonicalRowsOf
  <2>3. IsSeq(R) /\ Len(R) = total /\ DOMAIN R = 1 .. total
    BY <2>2, SequenceFacts DEF AreRowsOf
  <2>4. \A k \in DOMAIN R : R[k].row \in CanonicalRow
    BY <1>1, <2>2 DEF AreRowsOf
  <2> QED BY <1>2, <2>3, <2>4 DEF AreToPlan
<1>3. CASE op = "browser"
  <2>1. R = Spooled(code, "browser", rows, total)
    BY <1>3 DEF RowsToPlan
  <2>2. /\ IsSeq(R) /\ Len(R) = total /\ DOMAIN R = 1 .. total
        /\ \A k \in 1 .. total : R[k] = SpooledLine(code, "browser", rows[k], k)
    BY <1>1, <2>1, SpooledFacts
  <2>3. ASSUME NEW k \in DOMAIN R PROVE R[k].row = rows[k] /\ rows[k] \in CanonicalRow
    <3>1. R[k] = [row |-> rows[k]]
      BY <2>2, SpooledLines
    <3> QED BY <1>1, <2>2, <3>1
  <2> QED BY <2>2, <2>3 DEF AreToPlan
<1> QED BY <1>2, <1>3

(* What is known of a call that plans.                                     *)
IsPlanning ==
  /\ job.op \in {"file", "browser"} /\ job.op \in Operations
  /\ job.source \in Sources /\ job.source.whole
  /\ AreFiles(spool) /\ spool.conflicts = <<>>

LEMMA PlanningFacts ==
  ASSUME CallInv, job.stage \in {"plan", "generated", "commit"}
  PROVE  IsPlanning
<1>1. JobInv /\ SpoolInv
  BY DEF CallInv
<1>2. job.op \in {"file", "browser"} /\ job.op \in Operations
  BY <1>1 DEF JobInv, StagesOf, Operations
<1>3. job.source \in Sources /\ job.source.whole
  BY <1>1 DEF JobInv, Reading
<1>4. AreFiles(spool) /\ spool.conflicts = <<>>
  BY <1>1 DEF SpoolInv
<1> QED BY <1>2, <1>3, <1>4 DEF IsPlanning

LEMMA PlanRowKeeps ==
  ASSUME CallInv, NEW id \in GeneratedIds, PlanRow(id)
  PROVE  CallInv'
<1> DEFINE rows == job.source.rows code == setting.code R == spool.rows P == spool.planned
           G == spool.generated m == job.at n == m + 1 row == R[n].row
           generates == NewListing(row) /\ row.facts.listingId = 0
           generated == IF generates THEN id ELSE IF NewListing(row) THEN 0 ELSE job.generated
           PP == Append(P, PlannedRow(row, generated))
           GG == IF generates THEN Append(G, GeneratedLine(id, row.listing, n)) ELSE G
<1>0. JobInv /\ SpoolInv
  BY DEF CallInv
<1>1. /\ job.stage = "plan" /\ m < Len(R) /\ ~RefusedByBrowser(n) /\ UNCHANGED sorter
      /\ setting' = setting /\ manifest' = manifest /\ result' = result
      /\ job' = [job EXCEPT !.at = n, !.listing = row.listing, !.generated = generated]
      /\ spool' = [spool EXCEPT !.planned = PP, !.generated = GG]
  BY WorldStays DEF PlanRow, At, Leaves
<1>2. IsPlanning
  BY <1>1, PlanningFacts
<1>3. sorting' = "idle" /\ input' = <<>>
  BY <1>0, <1>1, SorterIdle DEF SortStages
<1>4. /\ m \in 0 .. Len(R) /\ RowsToPlan(code, job.op, rows, R, m) /\ Planned(R, P, m)
      /\ IsLast(R, P, m, job.listing, job.generated) /\ GeneratedIn(R, P, m, G)
  BY <1>0, <1>1 DEF SpoolInv
<1>5. /\ IsSeq(R) /\ Len(R) = Len(rows) /\ DOMAIN R = 1 .. Len(R)
      /\ \A k \in DOMAIN R : R[k].row \in CanonicalRow
      /\ job.op = "browser" => \A k \in DOMAIN R : R[k].row = rows[k]
  <2>1. AreToPlan(job.op, R, rows)
    BY <1>2, <1>4, RowsAreToPlan DEF IsPlanning
  <2> QED BY <2>1 DEF AreToPlan
<1>6. m \in Nat /\ n \in DOMAIN R /\ n \in 0 .. Len(R)
  BY <1>1, <1>4, <1>5, SequenceFacts
<1>7. RowsToPlan(code, job.op, rows, R, n)
  <2>1. CASE job.op = "file"
    BY <1>4, <2>1 DEF RowsToPlan
  <2>2. CASE job.op = "browser"
    <3>1. R = Spooled(code, "browser", rows, Len(rows))
      BY <1>4, <2>2 DEF RowsToPlan
    <3>2. \A k \in 1 .. m : \A l \in 1 .. k - 1 : ~Collides(rows[k], rows[l])
      BY <1>4, <2>2 DEF RowsToPlan
    <3>3. ASSUME NEW l \in 1 .. n - 1 PROVE ~Collides(rows[n], rows[l])
      <4>1. l \in DOMAIN R
        BY <1>5, <1>6
      <4>2. ~Collides(R[n].row, R[l].row)
        BY <1>1, <2>2, <3>3 DEF RefusedByBrowser
      <4> QED BY <1>5, <1>6, <2>2, <4>1, <4>2
    <3>4. \A k \in 1 .. n : k = n \/ k \in 1 .. m
      BY <1>6
    <3> QED BY <2>2, <3>1, <3>2, <3>3, <3>4 DEF RowsToPlan
  <2> QED BY <1>2, <2>1, <2>2 DEF IsPlanning
<1>8. /\ Planned(R, PP, n) /\ IsLast(R, PP, n, row.listing, generated)
      /\ GeneratedIn(R, PP, n, GG)
  <2>1. /\ row = R[m + 1].row
        /\ generated = GeneratedAt(row, job.listing, job.generated, id)
        /\ PP = Append(P, PlannedRow(row, generated))
        /\ GG = MoreGenerated(G, row, job.listing, id, m + 1)
    BY DEF NewListing, Generates, GeneratedAt, MoreGenerated
  <2> HIDE DEF generates, generated, row, PP, GG
  <2>2. HasPlanned(R, P, G, m, job.listing, job.generated)
    BY <1>4 DEF HasPlanned
  <2>3. HasRows(R)
    BY <1>5 DEF HasRows
  <2>4. HasPlanned(R, Append(P, PlannedRow(row, GeneratedAt(row, job.listing, job.generated, id))),
                   MoreGenerated(G, row, job.listing, id, m + 1), m + 1, row.listing,
                   GeneratedAt(row, job.listing, job.generated, id))
    BY <1>6, <2>1, <2>2, <2>3, PlanNext, Zenon
  <2>5. HasPlanned(R, PP, GG, m + 1, row.listing, generated)
    BY <2>1, <2>4, Zenon
  <2> QED BY <2>5 DEF HasPlanned, row, generated
<1> HIDE DEF generated, PP, GG
<1>10. /\ IsCall(job') /\ job'.op = job.op /\ job'.source = job.source /\ job'.stage = "plan"
       /\ job'.at = n /\ job'.summary = job.summary /\ job'.listing = row.listing
       /\ job'.generated = generated
  BY <1>0, <1>1 DEF JobInv, IsCall
<1>11. JobInv'
  <2>1. "plan" \in StagesOf(job.op) /\ "plan" \notin SortStages
    BY <1>2 DEF IsPlanning, StagesOf, SortStages
  <2>2. setting' \in [host : Hosts, code : Codes] /\ job'.op \in Operations'
    BY <1>0, <1>1, <1>2, <1>10 DEF JobInv, IsPlanning, Operations
  <2> QED BY <1>2, <1>3, <1>10, <2>1, <2>2 DEF JobInv, IsPlanning
<1>12. SpoolInv'
  <2>1. /\ AreFiles(spool') /\ spool'.rows = R /\ spool'.planned = PP
        /\ spool'.generated = GG /\ spool'.conflicts = spool.conflicts
    BY <1>1, <1>2 DEF IsPlanning, AreFiles
  <2> HIDE DEF row
  <2> QED BY <1>1, <1>2, <1>6, <1>7, <1>8, <1>10, <2>1 DEF SpoolInv, Reading, IsPlanning
<1>13. ManifestInv'
  <2>1. job.op # "replay"
    BY <1>2 DEF IsPlanning
  <2> QED BY <1>0, <1>1, <1>10, <2>1 DEF CallInv, ManifestInv
<1>14. CauseInv'
  BY <1>1, <1>10 DEF CallInv, CauseInv
<1> QED BY <1>11, <1>12, <1>13, <1>14 DEF CallInv

LEMMA RefuseRowKeeps ==
  ASSUME CallInv, RefuseRow
  PROVE  CallInv'
<1> DEFINE rows == job.source.rows R == spool.rows n == job.at + 1
<1>0. JobInv /\ SpoolInv
  BY DEF CallInv
<1>1. /\ job.stage = "plan" /\ job.at < Len(R) /\ RefusedByBrowser(n) /\ End("collision")
      /\ UNCHANGED sorter /\ spool' = spool
      /\ setting' = setting /\ manifest' = manifest /\ result' = result
  BY WorldStays DEF RefuseRow, At, Leaves
<1>2. IsPlanning
  BY <1>1, PlanningFacts
<1>3. job.op = "browser" /\ \E m \in 1 .. n - 1 : Collides(R[n].row, R[m].row)
  BY <1>1 DEF RefusedByBrowser
<1>4. job.at \in 0 .. Len(R) /\ RowsToPlan(setting.code, job.op, rows, R, job.at)
  BY <1>0, <1>1 DEF SpoolInv
<1>5. /\ Len(R) = Len(rows) /\ DOMAIN R = 1 .. Len(R) /\ Len(R) \in Nat
      /\ \A k \in DOMAIN R : R[k].row \in CanonicalRow /\ R[k].row = rows[k]
  <2>1. AreToPlan(job.op, R, rows)
    BY <1>2, <1>4, RowsAreToPlan DEF IsPlanning
  <2> QED BY <1>3, <2>1, SequenceFacts DEF AreToPlan
<1>6. PICK m \in 1 .. n - 1 : Collides(R[n].row, R[m].row)
  BY <1>3
<1>7. m \in DOMAIN R /\ n \in DOMAIN R /\ m # n /\ DOMAIN rows = DOMAIN R
  <2>1. DOMAIN rows = 1 .. Len(rows)
    BY <1>2, SourceFacts DEF IsPlanning
  <2> QED BY <1>1, <1>4, <1>5, <2>1
<1>8. Collides(rows[n], rows[m]) /\ rows[n] \in CanonicalRow /\ rows[m] \in CanonicalRow
  BY <1>5, <1>6, <1>7
<1>9. ~Consistent(rows)
  BY <1>7, <1>8, CollisionIsReal
<1>10. Cause("collision", job.source)
  BY <1>9 DEF Cause
<1>11. sorting' = "idle" /\ input' = <<>>
  BY <1>0, <1>1, SorterIdle DEF SortStages
<1> QED BY <1>1, <1>10, <1>11, CallEnds DEF CallInv

LEMMA PlanEndKeeps ==
  ASSUME CallInv, PlanEnd
  PROVE  CallInv'
<1> DEFINE rows == job.source.rows total == Len(rows) R == spool.rows P == spool.planned
<1>0. JobInv /\ SpoolInv
  BY DEF CallInv
<1>1. /\ job.stage = "plan" /\ job.at = Len(R)
      /\ setting' = setting /\ manifest' = manifest /\ result' = result
  BY WorldStays DEF PlanEnd, At
<1>2. IsPlanning
  BY <1>1, PlanningFacts
<1>3. RowsToPlan(setting.code, job.op, rows, R, Len(R)) /\ Planned(R, P, Len(R))
      /\ GeneratedIn(R, P, Len(R), spool.generated)
  BY <1>0, <1>1 DEF SpoolInv
<1>4. Len(R) = total
  <2>1. AreToPlan(job.op, R, rows)
    BY <1>2, <1>3, RowsAreToPlan DEF IsPlanning
  <2> QED BY <2>1 DEF AreToPlan
<1>5. CASE job.op = "browser"
  <2>1. GoTo("commit") /\ UNCHANGED <<sorter, spool>>
    BY <1>5 DEF PlanEnd
  <2>2. sorting' = "idle" /\ input' = <<>>
    BY <1>0, <1>1, <2>1, SorterIdle DEF SortStages
  <2>3. Became(job', job, "commit", 0)
    BY <1>0, <2>1, Goes DEF JobInv
  <2>4. JobInv' /\ ManifestInv' /\ CauseInv'
    <3>1. "commit" \in StagesOf(job.op) /\ "commit" \notin SortStages
      BY <1>5 DEF StagesOf, SortStages
    <3> QED BY <1>1, <1>2, <2>2, <2>3, <3>1, CallGoesOn DEF IsPlanning
  <2>5. SpoolInv'
    <3>1. job'.stage = "commit" /\ job'.source = job.source /\ job'.op = job.op
      BY <2>3 DEF Became
    <3> QED BY <1>1, <1>2, <1>3, <1>4, <1>5, <2>1, <3>1 DEF SpoolInv, Reading, IsPlanning
  <2> QED BY <2>4, <2>5 DEF CallInv
<1>6. CASE job.op = "file"
  <2>1. /\ sorting' # "idle" /\ input' = spool.generated /\ GoTo("generated")
        /\ spool' = [spool EXCEPT !.generated = <<>>]
    BY <1>6, SorterBegins DEF PlanEnd, SortSpool
  <2>2. Became(job', job, "generated", 0)
    BY <1>0, <2>1, Goes DEF JobInv
  <2>3. JobInv' /\ ManifestInv' /\ CauseInv'
    <3>1. "generated" \in StagesOf(job.op) /\ "generated" \in SortStages
      BY <1>6 DEF StagesOf, SortStages
    <3> QED BY <1>1, <1>2, <2>1, <2>2, <3>1, CallGoesOn DEF IsPlanning
  <2>4. SpoolInv'
    <3>1. job'.stage = "generated" /\ job'.source = job.source /\ job'.op = job.op
      BY <2>2 DEF Became
    <3>2. /\ AreFiles(spool') /\ spool'.rows = R /\ spool'.planned = P
          /\ spool'.conflicts = spool.conflicts
      BY <1>2, <2>1 DEF IsPlanning, AreFiles
    <3> QED BY <1>1, <1>2, <1>3, <1>4, <2>1, <3>1, <3>2 DEF SpoolInv, Reading, IsPlanning
  <2> QED BY <2>3, <2>4 DEF CallInv
<1> QED BY <1>2, <1>5, <1>6 DEF IsPlanning

LEMMA CheckGeneratedKeeps ==
  ASSUME CallInv, SortInv, CheckGenerated
  PROVE  CallInv'
<1> DEFINE rows == job.source.rows total == Len(rows) R == spool.rows P == spool.planned
           doubled == \E i \in 1 .. Len(sorted) - 1 :
             sorted[i].id = sorted[i + 1].id /\ sorted[i].listing # sorted[i + 1].listing
<1>0. JobInv /\ SpoolInv /\ ManifestInv
  BY DEF CallInv
<1>1. /\ job.stage = "generated" /\ sorting = "sorted" /\ spool' = spool
      /\ sorting' = "idle" /\ input' = <<>>
      /\ setting' = setting /\ manifest' = manifest /\ result' = result
  BY WorldStays, SorterReturns DEF CheckGenerated, SortedFor, At
<1>2. IsPlanning
  BY <1>1, PlanningFacts
<1>3. RowsToPlan(setting.code, job.op, rows, R, total) /\ Planned(R, P, total)
      /\ GeneratedIn(R, P, total, input)
  BY <1>0, <1>1 DEF SpoolInv
<1>4. CASE End("invalid_identity")
  <2>1. Cause("invalid_identity", job.source)
    BY DEF Cause
  <2> QED BY <1>1, <1>4, <2>1, CallEnds DEF CallInv
<1>5. CASE ~doubled /\ GoTo("commit")
  <2>1. Became(job', job, "commit", 0)
    BY <1>0, <1>5, Goes DEF JobInv
  <2>2. JobInv' /\ ManifestInv' /\ CauseInv'
    <3>1. "commit" \in StagesOf(job.op) /\ "commit" \notin SortStages
      BY <1>2 DEF StagesOf, SortStages, IsPlanning
    <3> QED BY <1>1, <1>2, <2>1, <3>1, CallGoesOn DEF IsPlanning
  <2>3. GeneratedOnce(P)
    <3>1. Arranged(sorted, input)
      BY <1>0, <1>1, InputIsSortable, SortedFacts
    <3>2. Len(P) = total
      BY <1>3 DEF Planned
    <3> QED BY <1>3, <1>5, <3>1, <3>2, GeneratedOnceOf
  <2>4. SpoolInv'
    <3>1. job'.stage = "commit" /\ job'.source = job.source /\ job'.op = job.op
      BY <2>1 DEF Became
    <3> QED BY <1>1, <1>2, <1>3, <2>3, <3>1 DEF SpoolInv, Reading, IsPlanning
  <2> QED BY <2>2, <2>4 DEF CallInv
<1> QED BY <1>4, <1>5 DEF CheckGenerated

LEMMA CommitKeeps ==
  ASSUME CallInv, Commit
  PROVE  CallInv'
<1> DEFINE rows == job.source.rows total == Len(rows) R == spool.rows P == spool.planned
<1>0. JobInv /\ SpoolInv /\ ManifestInv
  BY DEF CallInv
<1>1. /\ job.stage = "commit" /\ UNCHANGED sorter /\ spool' = spool /\ setting' = setting
      /\ result' = result
  BY DEF Commit, At
<1>2. IsPlanning
  BY <1>1, PlanningFacts
<1>3. sorting' = "idle" /\ input' = <<>>
  BY <1>0, <1>1, SorterIdle DEF SortStages
<1>4. \A o : o # "malformed_csv" /\ o # "collision" => Cause(o, job.source)
  BY DEF Cause
<1>5. CASE End("manifest_conflict") /\ UNCHANGED manifest
  BY <1>1, <1>3, <1>4, <1>5, CallEnds DEF CallInv
<1>6. CASE manifest' = [version |-> 1, rows |-> P, source |-> job.source] /\ End("planned")
  <2>1. JobInv' /\ SpoolInv' /\ CauseInv'
    BY <1>1, <1>3, <1>4, <1>6, CallEnds
  <2>2. Became(job', job, "cleanup", job.at)
    BY <1>0, <1>6, Ends DEF JobInv
  <2>3. ManifestFits(setting.host, manifest')
    <3>1. RowsToPlan(setting.code, job.op, rows, R, total) /\ Planned(R, P, total)
          /\ (job.op = "file" => GeneratedOnce(P))
      BY <1>0, <1>1 DEF SpoolInv
    <3>2. setting.host = "file" => job.op = "file"
      BY <1>2 DEF IsPlanning, Operations
    <3> QED BY <1>2, <1>6, <3>1, <3>2, PlanFits DEF IsPlanning
  <2>4. ManifestInv'
    <3>1. job'.stage = "cleanup" /\ job'.op # "replay"
      BY <1>2, <2>2 DEF Became, IsPlanning
    <3> QED BY <1>1, <2>3, <3>1 DEF ManifestInv
  <2> QED BY <2>1, <2>4 DEF CallInv
<1> QED BY <1>5, <1>6 DEF Commit

(***************************************************************************)
(* Replaying.                                                              *)
(***************************************************************************)
(* What is known of a call that replays.                                   *)
IsReplaying ==
  /\ job.op = "replay" /\ job.op \in Operations
  /\ job.source \in Sources /\ job.source.whole /\ AreFiles(spool)
  /\ job.summary # None
  /\ ManifestFits(setting.host, job.summary) /\ SummaryFits(manifest, job.summary)

ReplayStages == {"stream", "existing", "join", "record"}

LEMMA ReplayingFacts ==
  ASSUME CallInv, job.stage \in ReplayStages \/ (job.stage = "rows" /\ job.op = "replay")
  PROVE  IsReplaying
<1>1. JobInv /\ SpoolInv /\ ManifestInv
  BY DEF CallInv
<1>2. job.op = "replay" /\ job.op \in Operations
  BY <1>1 DEF JobInv, StagesOf, Operations, ReplayStages
<1>3. job.source \in Sources /\ job.source.whole
  BY <1>1 DEF JobInv, Reading, ReplayStages
<1>4. AreFiles(spool)
  BY <1>1 DEF SpoolInv
<1>5. /\ job.summary # None
      /\ ManifestFits(setting.host, job.summary) /\ SummaryFits(manifest, job.summary)
  BY <1>1, <1>2 DEF ManifestInv, ReplayStages
<1> QED BY <1>2, <1>3, <1>4, <1>5 DEF IsReplaying

LEMMA KeepReplayRowsKeeps ==
  ASSUME CallInv, SortInv, KeepReplayRows
  PROVE  CallInv'
<1> DEFINE rows == job.source.rows code == setting.code
<1>0. JobInv /\ SpoolInv /\ ManifestInv
  BY DEF CallInv
<1>1. /\ job.stage = "rows" /\ sorting = "sorted" /\ job.op = "replay" /\ GoTo("stream")
      /\ spool' = [spool EXCEPT !.rows = sorted] /\ sorting' = "idle" /\ input' = <<>>
      /\ setting' = setting /\ manifest' = manifest /\ result' = result
  BY WorldStays, SorterReturns DEF KeepReplayRows, SortedFor, At
<1>2. IsReplaying
  BY <1>1, ReplayingFacts
<1>3. /\ input = Spooled(code, "replay", rows, Len(rows)) /\ Consistent(rows)
      /\ spool.conflicts = <<>>
  BY <1>0, <1>1 DEF SpoolInv
<1>4. Arranged(sorted, Spooled(code, "replay", rows, Len(rows)))
  BY <1>0, <1>1, <1>3, InputIsSortable, SortedFacts
<1>5. Became(job', job, "stream", 0)
  BY <1>0, <1>1, Goes DEF JobInv
<1>6. JobInv' /\ ManifestInv' /\ CauseInv'
  <2>1. "stream" \in StagesOf(job.op) /\ "stream" \notin SortStages
    BY <1>1 DEF StagesOf, SortStages
  <2> QED BY <1>1, <1>2, <1>5, <2>1, CallGoesOn DEF IsReplaying
<1>7. SpoolInv'
  <2>1. job'.stage = "stream" /\ job'.source = job.source
    BY <1>5 DEF Became
  <2>2. AreFiles(spool') /\ spool'.rows = sorted /\ spool'.conflicts = spool.conflicts
    BY <1>1, <1>2 DEF IsReplaying, AreFiles
  <2> QED BY <1>1, <1>3, <1>4, <2>1, <2>2 DEF SpoolInv, Reading
<1> QED BY <1>6, <1>7 DEF CallInv

LEMMA StreamRowsKeeps ==
  ASSUME CallInv, StreamRows
  PROVE  CallInv'
<1>0. JobInv /\ SpoolInv /\ ManifestInv
  BY DEF CallInv
<1>1. /\ job.stage = "stream" /\ spool' = spool
      /\ setting' = setting /\ manifest' = manifest /\ result' = result
  BY WorldStays DEF StreamRows, At
<1>2. IsReplaying
  BY <1>1, ReplayingFacts DEF ReplayStages
<1>3. CASE manifest = None
  <2>1. End("manifest_store_error") /\ UNCHANGED sorter
    BY <1>3 DEF StreamRows
  <2>2. Cause("manifest_store_error", job.source)
    BY DEF Cause
  <2>3. sorting' = "idle" /\ input' = <<>>
    BY <1>0, <1>1, <2>1, SorterIdle DEF SortStages
  <2> QED BY <1>1, <2>1, <2>2, <2>3, CallEnds DEF CallInv
<1>4. CASE manifest # None
  <2>1. GoTo("existing")
        /\ BeginSort([i \in DOMAIN manifest.rows |->
             ReplayIndexLine(manifest.rows[i].identity, manifest.rows[i].hash, i)])
    BY <1>4 DEF StreamRows
  <2>2. [i \in DOMAIN manifest.rows |->
           ReplayIndexLine(manifest.rows[i].identity, manifest.rows[i].hash, i)]
          = ManifestLines(setting.code, manifest.rows)
    BY DEF ManifestLines, ReplayIndexLine, ReplayLine
  <2>3. sorting' # "idle" /\ input' = ManifestLines(setting.code, manifest.rows)
    BY <2>1, <2>2, SorterBegins
  <2>4. manifest.rows = job.summary.rows
    BY <1>2, <1>4 DEF IsReplaying, SummaryFits
  <2>5. Became(job', job, "existing", 0)
    BY <1>0, <2>1, Goes DEF JobInv
  <2>6. JobInv' /\ ManifestInv' /\ CauseInv'
    <3>1. "existing" \in StagesOf(job.op) /\ "existing" \in SortStages
      BY <1>2 DEF StagesOf, SortStages, IsReplaying
    <3> QED BY <1>1, <1>2, <2>3, <2>4, <2>5, <3>1, CallGoesOn DEF IsReplaying
  <2>7. SpoolInv'
    <3>1. job'.stage = "existing" /\ job'.source = job.source
      BY <2>5 DEF Became
    <3> QED BY <1>0, <1>1, <3>1 DEF SpoolInv, Reading
  <2> QED BY <2>6, <2>7 DEF CallInv
<1> QED BY <1>3, <1>4

LEMMA KeepManifestRowsKeeps ==
  ASSUME CallInv, KeepManifestRows
  PROVE  CallInv'
<1>0. JobInv /\ SpoolInv /\ ManifestInv
  BY DEF CallInv
<1>1. /\ job.stage = "existing" /\ GoTo("join") /\ spool' = [spool EXCEPT !.existing = sorted]
      /\ sorting' = "idle" /\ input' = <<>>
      /\ setting' = setting /\ manifest' = manifest /\ result' = result
  BY WorldStays, SorterReturns DEF KeepManifestRows, SortedFor, At
<1>2. IsReplaying
  BY <1>1, ReplayingFacts DEF ReplayStages
<1>3. Became(job', job, "join", 0)
  BY <1>0, <1>1, Goes DEF JobInv
<1>4. JobInv' /\ ManifestInv' /\ CauseInv'
  <2>1. "join" \in StagesOf(job.op) /\ "join" \notin SortStages
    BY <1>2 DEF StagesOf, SortStages, IsReplaying
  <2> QED BY <1>1, <1>2, <1>3, <2>1, CallGoesOn DEF IsReplaying
<1>5. SpoolInv'
  <2>1. job'.stage = "join" /\ job'.source = job.source
    BY <1>3 DEF Became
  <2>2. AreFiles(spool')
    BY <1>1, <1>2 DEF IsReplaying, AreFiles
  <2> QED BY <2>1, <2>2 DEF SpoolInv, Reading
<1> QED BY <1>4, <1>5 DEF CallInv

LEMMA FilesWith ==
  ASSUME NEW s, AreFiles(s)
  PROVE  /\ \A x : AreFiles([s EXCEPT !.rows = x])
         /\ \A x : AreFiles([s EXCEPT !.existing = x])
         /\ \A x : AreFiles([s EXCEPT !.conflicts = x])
BY DEF AreFiles

LEMMA JoinKeeps ==
  ASSUME CallInv, Join
  PROVE  CallInv'
<1>0. JobInv /\ SpoolInv /\ ManifestInv /\ CauseInv
  BY DEF CallInv
<1>1. /\ job.stage = "join" /\ job' = job /\ UNCHANGED sorter
      /\ setting' = setting /\ manifest' = manifest /\ result' = result
  BY WorldStays DEF Join, At, Leaves
<1>2. AreFiles(spool)
  BY <1>0 DEF SpoolInv
<1>3. AreFiles(spool')
  <2> DEFINE Found(c) == spool.conflicts \o c
  <2>1. \A l, r, c : AreFiles([spool EXCEPT !.rows = l, !.existing = r, !.conflicts = Found(c)])
    BY <1>2, FilesWith, Zenon
  <2>2. CASE ReplayAhead(spool.rows, spool.existing)
    <3>1. spool' = [spool EXCEPT !.rows = Tail(spool.rows), !.existing = spool.existing,
                      !.conflicts = Found(<<Conflict(Head(spool.rows), "not_in_manifest")>>)]
      BY <2>2 DEF Join
    <3> QED BY <2>1, <3>1, Zenon
  <2>3. CASE ~ReplayAhead(spool.rows, spool.existing)
              /\ ManifestAhead(spool.rows, spool.existing)
    <3>1. spool' = [spool EXCEPT !.rows = spool.rows, !.existing = Tail(spool.existing),
                      !.conflicts = Found(<<Conflict(Head(spool.existing), "missing_from_replay")>>)]
      BY <2>3 DEF Join
    <3> QED BY <2>1, <3>1, Zenon
  <2>4. CASE ~ReplayAhead(spool.rows, spool.existing)
              /\ ~ManifestAhead(spool.rows, spool.existing)
    <3>1. CASE Head(spool.rows).hash = Head(spool.existing).hash
      <4>1. spool' = [spool EXCEPT !.rows = Tail(spool.rows), !.existing = Tail(spool.existing),
                        !.conflicts = Found(<<>>)]
        BY <2>4, <3>1 DEF Join
      <4> QED BY <2>1, <4>1, Zenon
    <3>2. CASE Head(spool.rows).hash # Head(spool.existing).hash
      <4>1. spool' = [spool EXCEPT !.rows = Tail(spool.rows), !.existing = Tail(spool.existing),
                        !.conflicts = Found(<<Conflict(Head(spool.rows), "changed_hash")>>)]
        BY <2>4, <3>2 DEF Join
      <4> QED BY <2>1, <4>1, Zenon
    <3> QED BY <3>1, <3>2
  <2> QED BY <2>2, <2>3, <2>4
<1>4. sorting' = sorting /\ input' = input
  BY <1>1 DEF sorter
<1>5. JobInv'
  BY <1>0, <1>1, <1>4 DEF JobInv, Operations
<1>6. SpoolInv'
  BY <1>1, <1>3 DEF SpoolInv, Reading
<1>7. ManifestInv' /\ CauseInv'
  BY <1>0, <1>1, <1>4 DEF ManifestInv, CauseInv
<1> QED BY <1>5, <1>6, <1>7 DEF CallInv

LEMMA JoinEndKeeps ==
  ASSUME CallInv, JoinEnd
  PROVE  CallInv'
<1>0. JobInv /\ SpoolInv /\ ManifestInv
  BY DEF CallInv
<1>1. /\ job.stage = "join" /\ UNCHANGED sorter /\ spool' = spool
      /\ setting' = setting /\ manifest' = manifest /\ result' = result
  BY WorldStays DEF JoinEnd, At, Leaves
<1>2. IsReplaying
  BY <1>1, ReplayingFacts DEF ReplayStages
<1>3. sorting' = "idle" /\ input' = <<>>
  BY <1>0, <1>1, SorterIdle DEF SortStages
<1>4. CASE End("same")
  <2>1. Cause("same", job.source)
    BY DEF Cause
  <2> QED BY <1>1, <1>3, <1>4, <2>1, CallEnds DEF CallInv
<1>5. CASE GoTo("record")
  <2>1. Became(job', job, "record", 0)
    BY <1>0, <1>5, Goes DEF JobInv
  <2>2. JobInv' /\ ManifestInv' /\ CauseInv'
    <3>1. "record" \in StagesOf(job.op) /\ "record" \notin SortStages
      BY <1>2 DEF StagesOf, SortStages, IsReplaying
    <3> QED BY <1>1, <1>2, <1>3, <2>1, <3>1, CallGoesOn DEF IsReplaying
  <2>3. SpoolInv'
    <3>1. job'.stage = "record" /\ job'.source = job.source
      BY <2>1 DEF Became
    <3> QED BY <1>1, <1>2, <3>1 DEF SpoolInv, Reading, IsReplaying
  <2> QED BY <2>2, <2>3 DEF CallInv
<1> QED BY <1>4, <1>5 DEF JoinEnd

LEMMA QuarantineKeeps ==
  ASSUME CallInv, Quarantine
  PROVE  CallInv'
<1>0. JobInv
  BY DEF CallInv
<1>1. /\ job.stage = "record" /\ UNCHANGED sorter /\ spool' = spool
      /\ setting' = setting /\ manifest' = manifest /\ result' = result
  BY DEF Quarantine, At
<1>2. sorting' = "idle" /\ input' = <<>>
  BY <1>0, <1>1, SorterIdle DEF SortStages
<1>3. \E o \in {"quarantined", "manifest_conflict"} : End(o)
  BY DEF Quarantine
<1>4. \A o \in {"quarantined", "manifest_conflict"} : Cause(o, job.source)
  BY DEF Cause
<1> QED BY <1>1, <1>2, <1>3, <1>4, CallEnds DEF CallInv

(***************************************************************************)
(* The end of a call, and what may happen to it.                           *)
(***************************************************************************)
LEMMA CallFails ==
  ASSUME CallInv, SortThrows \/ Fault
  PROVE  CallInv'
<1>0. JobInv
  BY DEF CallInv
<1>1. /\ End("manifest_store_error") /\ spool' = spool /\ sorting' = "idle" /\ input' = <<>>
      /\ setting' = setting /\ manifest' = manifest /\ result' = result
  BY WorldStays, SorterReturns DEF SortThrows, Fault, world
<1>2. job.stage \notin {"idle", "cleanup"}
  <2>1. CASE Fault
    BY <2>1 DEF Fault, Working
  <2>2. CASE SortThrows
    BY <1>0, <2>2 DEF SortThrows, JobInv, SortStages
  <2> QED BY <2>1, <2>2
<1>3. Cause("manifest_store_error", job.source)
  BY DEF Cause
<1> QED BY <1>1, <1>2, <1>3, CallEnds DEF CallInv

(* Nothing is known of a call that is over but its result.                 *)
LEMMA CallIsOver ==
  ASSUME CallInv, setting' = setting, job' = NoJob, spool' = NoSpool,
         sorting' = "idle", input' = <<>>, manifest' = manifest,
         result' # None => Cause(result'.outcome, result'.source)
  PROVE  CallInv'
<1>1. /\ job'.stage = "idle" /\ job'.op = None /\ job'.listing = 0 /\ job'.generated = 0
      /\ IsCall(job')
  BY DEF NoJob, IsCall
<1>2. /\ AreFiles(spool') /\ spool'.conflicts = <<>>
  BY DEF NoSpool, AreFiles
<1>3. setting \in [host : Hosts, code : Codes]
      /\ (manifest # None => ManifestFits(setting.host, manifest))
  BY DEF CallInv, JobInv, ManifestInv
<1>4. JobInv'
  BY <1>1, <1>3 DEF JobInv, SortStages
<1>5. SpoolInv'
  BY <1>1, <1>2 DEF SpoolInv, Reading
<1>6. ManifestInv'
  BY <1>1, <1>3 DEF ManifestInv
<1>7. CauseInv'
  BY <1>1 DEF CauseInv
<1> QED BY <1>4, <1>5, <1>6, <1>7 DEF CallInv

LEMMA CleanupKeeps ==
  ASSUME CallInv, Cleanup
  PROVE  CallInv'
<1>1. /\ job.stage = "cleanup" /\ job' = NoJob /\ spool' = NoSpool /\ UNCHANGED sorter
      /\ setting' = setting /\ manifest' = manifest
      /\ result' = [source |-> job.source, outcome |-> job.outcome, op |-> job.op,
                    summary |-> job.summary, conflicts |-> spool.conflicts]
  BY DEF Cleanup, At
<1>2. sorting' = "idle" /\ input' = <<>>
  BY <1>1, SorterIdle DEF CallInv, SortStages
<1>3. Cause(result'.outcome, result'.source)
  BY <1>1 DEF CallInv, CauseInv
<1> QED BY <1>1, <1>2, <1>3, CallIsOver

LEMMA DieKeeps ==
  ASSUME CallInv, Die
  PROVE  CallInv'
BY CallIsOver, SorterReturns DEF Die

(* The call stays where it is while its sort goes on or the host acts.     *)
LEMMA CallStays ==
  ASSUME CallInv, setting' = setting, job' = job, spool' = spool, result' = result,
         input' = input, job.stage \in SortStages => sorting' # "idle",
         job.stage \notin SortStages => sorting' = sorting,
         manifest' # None => manifest # None /\ ManifestFits(setting.host, manifest')
           /\ manifest'.rows = manifest.rows /\ manifest'.source = manifest.source
           /\ manifest'.version >= manifest.version
  PROVE  CallInv'
<1>0. JobInv /\ SpoolInv /\ ManifestInv /\ CauseInv
  BY DEF CallInv
<1>1. JobInv'
  BY <1>0 DEF JobInv, Operations
<1>2. SpoolInv'
  BY <1>0 DEF SpoolInv
<1>3. ManifestInv'
  <2>1. ASSUME job.op = "replay", job.stage # "idle", job.summary # None
        PROVE  ManifestFits(setting.host, job.summary) /\ SummaryFits(manifest', job.summary)
    <3>1. ManifestFits(setting.host, job.summary) /\ SummaryFits(manifest, job.summary)
      BY <1>0, <2>1 DEF ManifestInv
    <3>2. job.summary.version \in Nat /\ (manifest # None => manifest.version \in Nat)
          /\ (manifest' # None => manifest'.version \in Nat)
      BY <1>0, <3>1 DEF ManifestFits, ManifestInv
    <3> QED BY <3>1, <3>2 DEF SummaryFits
  <2> QED BY <1>0, <2>1 DEF ManifestInv
<1>4. CauseInv'
  BY <1>0 DEF CauseInv
<1> QED BY <1>1, <1>2, <1>3, <1>4 DEF CallInv

LEMMA SortingKeeps ==
  ASSUME CallInv, SortStep \/ FailSort, UNCHANGED <<setting, manifest, job, spool, result>>
  PROVE  CallInv'
<1>1. /\ input' = input /\ sorting # "idle" /\ sorting' # "idle"
  BY DEF SortStep, FailSort, Sorts, ReadLine, FlushRun, AllRead, RenameRun, StartMerge, MergeLine,
     EndMerge, NextGeneration, EndSort, AtGroup
<1>2. job.stage \in SortStages
  BY <1>1 DEF CallInv, JobInv
<1>3. manifest # None => ManifestFits(setting.host, manifest) /\ manifest.version >= manifest.version
  BY DEF CallInv, ManifestInv, ManifestFits
<1> QED BY <1>1, <1>2, <1>3, CallStays

LEMMA HostKeeps ==
  ASSUME CallInv, Checkpoint \/ Discard \/ Reap \/ UNCHANGED vars
  PROVE  CallInv'
<1>1. /\ setting' = setting /\ job' = job /\ spool' = spool /\ result' = result
      /\ input' = input /\ sorting' = sorting
  BY DEF Checkpoint, Discard, Reap, vars, sorter
<1>2. manifest # None => ManifestFits(setting.host, manifest)
  BY DEF CallInv, ManifestInv
<1>3. job.stage \in SortStages => sorting # "idle"
  BY DEF CallInv, JobInv
<1>4. CASE Checkpoint
  <2>1. manifest # None /\ manifest' = [manifest EXCEPT !.version = @ + 1]
    BY <1>4 DEF Checkpoint
  <2>2. /\ manifest = [version |-> manifest.version, rows |-> manifest.rows, source |-> manifest.source]
        /\ manifest.version \in Nat /\ manifest.source \in Sources
        /\ IsPlanOf(setting.host, manifest.rows, manifest.source)
    BY <1>2, <2>1 DEF ManifestFits
  <2>3. /\ manifest'.rows = manifest.rows /\ manifest'.source = manifest.source
        /\ manifest'.version = manifest.version + 1
        /\ manifest' = [version |-> manifest'.version, rows |-> manifest'.rows,
                        source |-> manifest'.source]
    BY <2>1, <2>2
  <2>4. ManifestFits(setting.host, manifest')
    BY <2>2, <2>3 DEF ManifestFits
  <2>5. manifest'.version >= manifest.version
    BY <2>2, <2>3
  <2> QED BY <1>1, <1>3, <2>1, <2>3, <2>4, <2>5, CallStays
<1>5. CASE Discard
  BY <1>1, <1>3, <1>5, CallStays DEF Discard
<1>6. CASE Reap \/ UNCHANGED vars
  <2>1. manifest' = manifest
    BY <1>6 DEF Reap, vars
  <2>2. manifest # None => manifest.version >= manifest.version
    BY <1>2 DEF ManifestFits
  <2> QED BY <1>1, <1>2, <1>3, <2>1, <2>2, CallStays
<1> QED BY <1>4, <1>5, <1>6

(***************************************************************************)
(* The import.                                                             *)
(***************************************************************************)
ImportInv == CallInv /\ SortInv

LEMMA ImportInit ==
  ASSUME Init
  PROVE  ImportInv
<1>1. /\ setting \in [host : Hosts, code : Codes] /\ manifest = None /\ result = None
      /\ job = NoJob /\ spool = NoSpool /\ SortInit
  BY DEF Init
<1>2. sorting = "idle" /\ input = <<>>
  BY <1>1 DEF SortInit
<1>3. job.stage = "idle" /\ job.op = None /\ IsCall(job)
  BY <1>1 DEF NoJob, IsCall
<1>4. AreFiles(spool) /\ spool.conflicts = <<>>
  BY <1>1 DEF NoSpool, AreFiles
<1>5. JobInv
  BY <1>1, <1>2, <1>3 DEF JobInv, SortStages
<1>6. SpoolInv /\ ManifestInv /\ CauseInv
  BY <1>1, <1>3, <1>4 DEF SpoolInv, ManifestInv, CauseInv, Reading
<1>7. SortInv
  BY <1>1, SortInvInit
<1> QED BY <1>5, <1>6, <1>7 DEF CallInv, ImportInv

LEMMA ImportInvStep ==
  ASSUME ImportInv, [Next]_vars
  PROVE  ImportInv'
<1>0. CallInv /\ SortInv
  BY DEF ImportInv
<1>1. SortInv'
  BY <1>0, SortIsDriven, SortInvStep
<1> SUFFICES CallInv'
  BY <1>1 DEF ImportInv
<1>2. CASE \E op \in Operations, source \in Sources : Call(op, source)
  BY <1>0, <1>2, CallKeeps, Zenon
<1>3. CASE LoadSummary \/ CreateWorkspace \/ ParseRow \/ ParseEnd \/ ValidateIndex
  BY <1>0, <1>3, LoadSummaryKeeps, CreateWorkspaceKeeps, ParseRowKeeps, ParseEndKeeps,
     ValidateIndexKeeps, Zenon
<1>4. CASE Sorting \/ FaultInSort
  <2>1. UNCHANGED <<setting, manifest, job, spool, result>>
    BY <1>4, WorldStays DEF Sorting, FaultInSort, Rest, world
  <2>2. SortStep \/ FailSort
    BY <1>4 DEF Sorting, FaultInSort
  <2> QED BY <1>0, <2>1, <2>2, SortingKeeps, Zenon
<1>5. CASE PlanFromSorted \/ (\E id \in GeneratedIds : PlanRow(id)) \/ RefuseRow \/ PlanEnd
           \/ CheckGenerated \/ Commit
  BY <1>0, <1>5, PlanFromSortedKeeps, PlanRowKeeps, RefuseRowKeeps, PlanEndKeeps,
     CheckGeneratedKeeps, CommitKeeps, Zenon
<1>6. CASE KeepReplayRows \/ StreamRows \/ KeepManifestRows \/ Join \/ JoinEnd \/ Quarantine
  BY <1>0, <1>6, KeepReplayRowsKeeps, StreamRowsKeeps, KeepManifestRowsKeeps, JoinKeeps,
     JoinEndKeeps, QuarantineKeeps, Zenon
<1>7. CASE SortThrows \/ Fault
  BY <1>0, <1>7, CallFails, Zenon
<1>8. CASE Cleanup \/ Die
  BY <1>0, <1>8, CleanupKeeps, DieKeeps, Zenon
<1>9. CASE Checkpoint \/ Discard \/ Reap \/ UNCHANGED vars
  BY <1>0, <1>9, HostKeeps, Zenon
<1> QED BY <1>2, <1>3, <1>4, <1>5, <1>6, <1>7, <1>8, <1>9 DEF Next, Step

(* ImportInv holds in every state: at every stage of a call its files have *)
(* exactly the lines of its source that the stage is to work on.           *)
THEOREM ImportsAreKept == Spec => []ImportInv
<1>1. Init => ImportInv
  BY ImportInit
<1>2. ImportInv /\ [Next]_vars => ImportInv'
  BY ImportInvStep
<1> QED BY <1>1, <1>2, PTL DEF Spec

(* The external sort loses, doubles and invents no line of a spool and     *)
(* writes the lines in order, whatever the spool, the run size and the     *)
(* fan-in.                                                                 *)
THEOREM SortIsWhole == Spec => []SortedIsWhole
<1>1. ImportInv => SortedIsWhole
  BY InputIsSortable, SortInvIsWhole DEF ImportInv, CallInv
<1> QED BY <1>1, ImportsAreKept, PTL

(* A source is refused as malformed or colliding only if it is.            *)
THEOREM RefusalsHaveCause == Spec => []RefusedForCause
<1>1. ImportInv => RefusedForCause
  BY DEF ImportInv, CallInv, CauseInv, Cause, RefusedForCause
<1> QED BY <1>1, ImportsAreKept, PTL

(* A manifest is never a part of an import: it has a planned row for each  *)
(* row of a whole and consistent source.                                   *)
THEOREM ManifestsAreWhole == Spec => []ManifestIsSource
<1>1. ImportInv => ManifestIsSource
  <2> SUFFICES ASSUME ImportInv, manifest # None PROVE ManifestIsSource
    BY DEF ManifestIsSource
  <2>1. IsPlanOf(setting.host, manifest.rows, manifest.source)
    BY DEF ImportInv, CallInv, ManifestInv, ManifestFits
  <2> QED BY <2>1 DEF IsPlanOf, ManifestIsSource
<1> QED BY <1>1, ImportsAreKept, PTL

(* Whatever ids the generator returns, no two listings of a manifest of    *)
(* the file planner get one id, and no listing gets two.                   *)
THEOREM GeneratedIdsAreUnique == Spec => []GeneratedIdsNameListings
<1>1. ImportInv => GeneratedIdsNameListings
  <2> SUFFICES ASSUME ImportInv, manifest # None, setting.host = "file"
               PROVE  GeneratedIdsNameListings
    BY DEF GeneratedIdsNameListings
  <2>1. IsPlanOf(setting.host, manifest.rows, manifest.source)
    BY DEF ImportInv, CallInv, ManifestInv, ManifestFits
  <2>2. OneIdPerListing(manifest.rows) /\ GeneratedOnce(manifest.rows)
    BY <2>1 DEF IsPlanOf
  <2> QED BY <2>2 DEF GeneratedOnce, GeneratedIdsNameListings
<1> QED BY <1>1, ImportsAreKept, PTL


(***************************************************************************)
(* What the loop over the two indexes has found.                           *)
(***************************************************************************)
(* The places of f whose identity g has not, or has with another hash.     *)
NotIn(f, g) == {p \in DOMAIN f : \A q \in DOMAIN g : g[q].identity # f[p].identity}
Changed(f, g) ==
  {p \in DOMAIN f : \E q \in DOMAIN g : g[q].identity = f[p].identity /\ g[q].hash # f[p].hash}

(* x is a conflict between two indexes.                                    *)
IsDifference(x, f, g) ==
  \/ \E p \in NotIn(f, g) : x = Conflict(f[p], "not_in_manifest")
  \/ \E p \in Changed(f, g) : x = Conflict(f[p], "changed_hash")
  \/ \E q \in NotIn(g, f) : x = Conflict(g[q], "missing_from_replay")

SameAt(f, p, g, q) == f[p].identity = g[q].identity /\ f[p].hash = g[q].hash

(* Two files tell of the same rows.                                        *)
Tells(s, f) ==
  /\ \A p \in DOMAIN s : \E i \in DOMAIN f : SameAt(s, p, f, i)
  /\ \A i \in DOMAIN f : \E p \in DOMAIN s : SameAt(s, p, f, i)

(* The place of a line in the order of the encoded identities.             *)
Order(code, line) == code[line.identity]

(* A file that is in this order, each identity once.                       *)
Ascends(code, s) ==
  \A p, q \in DOMAIN s : p < q => Order(code, s[p]) < Order(code, s[q])

(* Its identities are encoded, and can be compared as texts.               *)
Encoded(code, s) ==
  \A p \in DOMAIN s :
    /\ s[p].identity \in DOMAIN code /\ code[s[p].identity] \in Nat
    /\ s[p].identity \in Seq(Nat) /\ Len(s[p].identity) = 2

IsIndex(code, s) == IsSeq(s) /\ Encoded(code, s) /\ Ascends(code, s)

(* What is left of s behind its first a lines.                             *)
LeftOf(left, s, a) ==
  /\ IsSeq(left) /\ a \in Nat /\ a + Len(left) = Len(s)
  /\ \A i \in 1 .. Len(left) : left[i] = s[a + i]

(* The loop has found nothing exactly if it has come across nothing.       *)
AgreesSoFar(R, M, a, b, found) ==
  /\ found = <<>> => a = b /\ \A i \in 1 .. a : SameAt(R, i, M, i)
  /\ Tells(R, M) => found = <<>>

(* Of what has been read everything is before what has not.                *)
IsCut(code, R, M, a, b) ==
  \A p \in DOMAIN R : \A q \in DOMAIN M :
    /\ p <= a /\ q > b => Order(code, R[p]) < Order(code, M[q])
    /\ q <= b /\ p > a => Order(code, M[q]) < Order(code, R[p])

(* All that is left of s is behind a line.                                 *)
IsAfter(code, line, s, a) ==
  \A p \in DOMAIN s : p > a => Order(code, line) < Order(code, s[p])

Awaits(identity, s, a) == \E p \in DOMAIN s : p > a /\ s[p].identity = identity

(* Where the orders agree: what has been found are differences, each once, *)
(* and a difference that has not been found is still to come.              *)
ExactSoFar(code, R, M, a, b, found) ==
  /\ IsCut(code, R, M, a, b)
  /\ Ascends(code, found)
  /\ \A i \in DOMAIN found :
       /\ IsDifference(found[i], R, M)
       /\ IsAfter(code, found[i], R, a) /\ IsAfter(code, found[i], M, b)
  /\ \A x : IsDifference(x, R, M) =>
       \/ \E i \in DOMAIN found : found[i] = x
       \/ Awaits(x.identity, R, a)
       \/ Awaits(x.identity, M, b)

OrdersAgreeIn(code) ==
  \A a, b \in DOMAIN code : code[a] < code[b] <=> Before([text |-> a], [text |-> b])

MergesAt(code, R, M, a, b, left, right, found) ==
  /\ LeftOf(left, R, a) /\ LeftOf(right, M, b) /\ IsSeq(found)
  /\ AgreesSoFar(R, M, a, b, found)
  /\ OrdersAgreeIn(code) => ExactSoFar(code, R, M, a, b, found)

(* The rows of a source and of a manifest are merged.                      *)
Merges(code, rows, planned, left, right, found) ==
  \E R, M, a, b :
    /\ IsIndex(code, R) /\ Tells(R, Spooled(code, "replay", rows, Len(rows)))
    /\ IsIndex(code, M) /\ Tells(M, ManifestLines(code, planned))
    /\ MergesAt(code, R, M, a, b, left, right, found)

(* A replay has told its source from its manifest, or not.                 *)
Decided(op, outcome, source, summary) ==
  op = "replay" /\ outcome \in {"same", "quarantined"} =>
    (outcome = "same" <=> Differences(source.rows, summary.rows) = {})

JoinInv ==
  /\ job.stage \in {"join", "record"} =>
       /\ Consistent(job.source.rows)
       /\ Merges(setting.code, job.source.rows, job.summary.rows,
                 spool.rows, spool.existing, spool.conflicts)
  /\ job.stage = "record" => Exhausted /\ spool.conflicts # <<>>
  /\ job.stage = "cleanup" => Decided(job.op, job.outcome, job.source, job.summary)
  /\ result # None => Decided(result.op, result.outcome, result.source, result.summary)
  /\ QuarantineIsTrue
  /\ \A q \in quarantine : q.version \in Nat

(***************************************************************************)
(* Files, and what is left of them.                                        *)
(***************************************************************************)
LEMMA TailOf ==
  ASSUME NEW s, IsSeq(s), s # <<>>
  PROVE  /\ IsSeq(Tail(s)) /\ Len(Tail(s)) + 1 = Len(s) /\ Head(s) = s[1]
         /\ \A i \in 1 .. Len(Tail(s)) : Tail(s)[i] = s[i + 1]
<1> DEFINE T == {s[i] : i \in DOMAIN s} t == Tail(s)
<1>1. s \in Seq(T)
  BY DEF IsSeq
<1> HIDE DEF T
<1>2. t \in Seq(T) /\ Len(t) + 1 = Len(s) /\ Head(s) = s[1]
      /\ \A i \in 1 .. Len(t) : t[i] = s[i + 1]
  BY <1>1
<1> HIDE DEF t
<1>3. IsSeq(t)
  BY <1>2, SequenceOf
<1> QED BY <1>2, <1>3 DEF t

(* A line is taken of what is left.                                        *)
LEMMA LeftTakes ==
  ASSUME NEW left, NEW s, IsSeq(s), NEW a, LeftOf(left, s, a), left # <<>>
  PROVE  /\ a + 1 \in DOMAIN s /\ Head(left) = s[a + 1]
         /\ LeftOf(Tail(left), s, a + 1)
<1>1. /\ IsSeq(left) /\ a \in Nat /\ a + Len(left) = Len(s)
      /\ \A i \in 1 .. Len(left) : left[i] = s[a + i]
  BY DEF LeftOf
<1> DEFINE t == Tail(left)
<1>2. /\ IsSeq(t) /\ Len(t) + 1 = Len(left) /\ Head(left) = left[1]
      /\ \A i \in 1 .. Len(t) : t[i] = left[i + 1]
  BY <1>1, TailOf
<1>3. Len(left) \in Nat /\ Len(t) \in Nat /\ Len(s) \in Nat /\ DOMAIN s = 1 .. Len(s)
  BY <1>1, <1>2, SequenceFacts
<1> HIDE DEF t
<1>4. 1 \in 1 .. Len(left) /\ a + 1 \in 1 .. Len(s)
  BY <1>1, <1>2, <1>3
<1>5. ASSUME NEW i \in 1 .. Len(t) PROVE t[i] = s[(a + 1) + i]
  <2>1. i + 1 \in 1 .. Len(left) /\ a + (i + 1) = (a + 1) + i
    BY <1>1, <1>2, <1>3
  <2> QED BY <1>1, <1>2, <2>1
<1>6. a + 1 \in Nat /\ (a + 1) + Len(t) = Len(s)
  <2> DEFINE m == Len(t) n == Len(left)
  <2>1. m \in Nat /\ n \in Nat /\ a \in Nat /\ m + 1 = n /\ a + n = Len(s)
    BY <1>1, <1>2, <1>3
  <2> HIDE DEF m, n
  <2>2. a + 1 \in Nat /\ (a + 1) + m = Len(s)
    BY <2>1
  <2> QED BY <2>2 DEF m
<1> QED BY <1>1, <1>2, <1>3, <1>4, <1>5, <1>6 DEF LeftOf, t

LEMMA LeftFacts ==
  ASSUME NEW left, NEW s, IsSeq(s), NEW a, LeftOf(left, s, a)
  PROVE  /\ a \in Nat /\ Len(s) \in Nat /\ a <= Len(s) /\ DOMAIN s = 1 .. Len(s)
         /\ left = <<>> <=> a = Len(s)
<1>1. /\ IsSeq(left) /\ a \in Nat /\ a + Len(left) = Len(s)
  BY DEF LeftOf
<1>2. Len(left) \in Nat /\ Len(s) \in Nat /\ DOMAIN s = 1 .. Len(s)
  BY <1>1, SequenceFacts
<1>3. left = <<>> => Len(left) = 0
  BY EmptySequence
<1>4. Len(left) = 0 => left = <<>>
  BY <1>1, EmptySequence, SequencesAreEqual
<1> QED BY <1>1, <1>2, <1>3, <1>4

(* t is s with x behind it.                                                *)
HasFound(t, s, x) ==
  /\ IsSeq(t) /\ Len(t) = Len(s) + 1 /\ DOMAIN t = 1 .. Len(s) + 1
  /\ Len(s) \in Nat /\ DOMAIN s = 1 .. Len(s)
  /\ \A i \in DOMAIN s : t[i] = s[i]
  /\ t[Len(s) + 1] = x

LEMMA FoundMore ==
  ASSUME NEW s, IsSeq(s), NEW x
  PROVE  HasFound(s \o <<x>>, s, x)
<1> DEFINE e == <<x>> t == s \o e
<1>1. IsSeq(e) /\ Len(e) = 1 /\ e[1] = x
  <2>1. e \in Seq({x})
    OBVIOUS
  <2>2. IsSeq(e)
    BY <2>1, SequenceOf
  <2> QED BY <2>2
<1> HIDE DEF e
<1>2. PutTogether(t, s, e)
  BY <1>1, ConcatOf
<1> HIDE DEF t
<1>3. Len(s) \in Nat /\ DOMAIN s = 1 .. Len(s)
  BY SequenceFacts
<1>4. IsSeq(t) /\ Len(t) = Len(s) + 1 /\ (\A i \in 1 .. Len(s) : t[i] = s[i]) /\ t[Len(s) + 1] = x
  BY <1>1, <1>2 DEF PutTogether
<1>5. DOMAIN t = 1 .. Len(s) + 1
  BY <1>4, SequenceFacts
<1>6. HasFound(t, s, x)
  BY <1>3, <1>4, <1>5 DEF HasFound
<1> QED BY <1>6 DEF t, e

LEMMA NothingMore ==
  ASSUME NEW s, IsSeq(s)
  PROVE  s \o <<>> = s
<1> DEFINE e == <<>> t == s \o e
<1>1. IsSeq(e) /\ Len(e) = 0
  BY EmptySequence
<1> HIDE DEF e
<1>2. PutTogether(t, s, e)
  BY <1>1, ConcatOf
<1> HIDE DEF t
<1>3. Len(s) \in Nat
  BY SequenceFacts
<1>4. IsSeq(t) /\ Len(t) = Len(s) /\ (\A i \in 1 .. Len(s) : t[i] = s[i])
  BY <1>1, <1>2, <1>3 DEF PutTogether
<1>5. t = s
  BY <1>3, <1>4, SequencesAreEqual
<1> QED BY <1>5 DEF t, e

(***************************************************************************)
(* The order of identities.                                                *)
(***************************************************************************)
LEMMA IdentitiesAreOrdered ==
  ASSUME NEW l, l.identity \in Seq(Nat), Len(l.identity) = 2,
         NEW m, m.identity \in Seq(Nat), Len(m.identity) = 2
  PROVE  /\ l.identity = m.identity => ~IdentityBefore(l, m)
         /\ ~IdentityBefore(l, m) /\ ~IdentityBefore(m, l) => l.identity = m.identity
<1> DEFINE x == l.identity y == m.identity a == [text |-> x] b == [text |-> y]
<1>1. a.text = x /\ b.text = y
  OBVIOUS
<1>2. x \in Seq(Int) /\ y \in Seq(Int)
  BY NaturalTexts
<1>4. Len(x) = 2 /\ Len(y) = 2 /\ DOMAIN x = 1 .. 2 /\ DOMAIN y = 1 .. 2
  OBVIOUS
<1>3. \A i \in 1 .. 2 : x[i] \in Nat /\ y[i] \in Nat
  <2>1. (\A i \in DOMAIN x : x[i] \in Nat) /\ (\A i \in DOMAIN y : y[i] \in Nat)
    BY SequenceOf
  <2> QED BY <1>4, <2>1
<1>5. (IdentityBefore(l, m) <=> Before(a, b)) /\ (IdentityBefore(m, l) <=> Before(b, a))
  BY DEF IdentityBefore
<1> HIDE DEF a, b, x, y
<1>6. x = y => ~Before(a, b)
  BY <1>1, <1>3, <1>4 DEF Before
<1>7. ASSUME ~Before(a, b), ~Before(b, a) PROVE x = y
  <2>1. x[1] = y[1]
    <3>1. 1 \in Nat \ {0} /\ 1 <= Len(x) /\ 1 <= Len(y) /\ \A j \in 1 .. 1 - 1 : x[j] = y[j] /\ y[j] = x[j]
      BY <1>4
    <3>2. x[1] < y[1] => Before(a, b)
      BY <1>1, <1>2, <3>1, BeforeAt
    <3>3. y[1] < x[1] => Before(b, a)
      BY <1>1, <1>2, <3>1, BeforeAt
    <3>4. 1 \in 1 .. 2
      OBVIOUS
    <3>5. x[1] \in Nat /\ y[1] \in Nat
      BY <1>3, <3>4
    <3> QED BY <1>7, <3>2, <3>3, <3>5
  <2>2. x[2] = y[2]
    <3>1. 2 \in Nat \ {0} /\ 2 <= Len(x) /\ 2 <= Len(y) /\ \A j \in 1 .. 2 - 1 : x[j] = y[j] /\ y[j] = x[j]
      BY <1>4, <2>1
    <3>2. x[2] < y[2] => Before(a, b)
      BY <1>1, <1>2, <3>1, BeforeAt
    <3>3. y[2] < x[2] => Before(b, a)
      BY <1>1, <1>2, <3>1, BeforeAt
    <3>4. 2 \in 1 .. 2
      OBVIOUS
    <3>5. x[2] \in Nat /\ y[2] \in Nat
      BY <1>3, <3>4
    <3> QED BY <1>7, <3>2, <3>3, <3>5
  <2>3. \A i \in 1 .. 2 : x[i] = y[i]
    BY <2>1, <2>2
  <2>4. IsSeq(x) /\ IsSeq(y)
    BY <1>2, SequenceOf
  <2> QED BY <1>4, <2>3, <2>4, SequencesAreEqual
<1> QED BY <1>5, <1>6, <1>7 DEF x, y

(* An identity has one place in an index.                                  *)
LEMMA PlacesAreOne ==
  ASSUME NEW code, NEW s, IsIndex(code, s), NEW p \in DOMAIN s, NEW q \in DOMAIN s,
         s[p].identity = s[q].identity
  PROVE  p = q
<1>1. p \in Nat /\ q \in Nat
  BY SequenceFacts DEF IsIndex
<1>2. code[s[p].identity] \in Nat
  BY DEF IsIndex, Encoded
<1>3. p < q => code[s[p].identity] < code[s[q].identity]
  BY DEF IsIndex, Ascends, Order
<1>4. q < p => code[s[q].identity] < code[s[p].identity]
  BY DEF IsIndex, Ascends, Order
<1> QED BY <1>1, <1>2, <1>3, <1>4

(***************************************************************************)
(* Indexes that tell the same.                                             *)
(***************************************************************************)
(* Where two indexes tell the same and agree so far, they go on with the   *)
(* same line.                                                              *)
LEMMA HeadsAgree ==
  ASSUME NEW code \in Codes, NEW R, IsIndex(code, R), NEW M, IsIndex(code, M), Tells(R, M),
         NEW a \in Nat, \A i \in 1 .. a : SameAt(R, i, M, i),
         a + 1 \in DOMAIN R \/ a + 1 \in DOMAIN M,
         a <= Len(R), a <= Len(M)
  PROVE  a + 1 \in DOMAIN R /\ a + 1 \in DOMAIN M /\ SameAt(R, a + 1, M, a + 1)
<1> DEFINE n == a + 1
<1>1. /\ Len(R) \in Nat /\ DOMAIN R = 1 .. Len(R) /\ Len(M) \in Nat /\ DOMAIN M = 1 .. Len(M)
      /\ n \in Nat /\ \A i \in Nat : i # 0 /\ ~(n <= i) => i \in 1 .. a
  BY SequenceFacts DEF IsIndex
<1>2. \A p \in 1 .. a : p \in DOMAIN R /\ p \in DOMAIN M /\ n # p
  BY <1>1
<1> HIDE DEF n
<1>3. ASSUME n \in DOMAIN R
      PROVE  \E q \in DOMAIN M : n <= q /\ SameAt(R, n, M, q)
  <2>1. PICK q \in DOMAIN M : SameAt(R, n, M, q)
    BY <1>3 DEF Tells
  <2>2. ASSUME ~(n <= q) PROVE FALSE
    <3>1. q \in 1 .. a
      BY <1>1, <2>2
    <3>2. SameAt(R, q, M, q) /\ q \in DOMAIN R /\ n # q
      BY <1>2, <3>1
    <3>3. R[q].identity = R[n].identity
      BY <2>1, <3>2 DEF SameAt
    <3> QED BY <1>3, <3>2, <3>3, PlacesAreOne
  <2> QED BY <2>1, <2>2
<1>4. ASSUME n \in DOMAIN M
      PROVE  \E p \in DOMAIN R : n <= p /\ SameAt(R, p, M, n)
  <2>1. PICK p \in DOMAIN R : SameAt(R, p, M, n)
    BY <1>4 DEF Tells
  <2>2. ASSUME ~(n <= p) PROVE FALSE
    <3>1. p \in 1 .. a
      BY <1>1, <2>2
    <3>2. SameAt(R, p, M, p) /\ p \in DOMAIN M /\ n # p
      BY <1>2, <3>1
    <3>3. M[p].identity = M[n].identity
      BY <2>1, <3>2 DEF SameAt
    <3> QED BY <1>4, <3>2, <3>3, PlacesAreOne
  <2> QED BY <2>1, <2>2
<1>5. n \in DOMAIN R /\ n \in DOMAIN M
  <2>1. n # 0
    BY <1>1 DEF n
  <2>2. CASE n \in DOMAIN R
    BY <1>1, <1>3, <2>1, <2>2
  <2>3. CASE n \in DOMAIN M
    BY <1>1, <1>4, <2>1, <2>3
  <2> QED BY <2>2, <2>3 DEF n
<1>6. PICK q \in DOMAIN M : n <= q /\ SameAt(R, n, M, q)
  BY <1>3, <1>5
<1>7. PICK p \in DOMAIN R : n <= p /\ SameAt(R, p, M, n)
  BY <1>4, <1>5
<1>8. CASE q = n
  BY <1>5, <1>6, <1>8 DEF n
<1>9. CASE q # n
  <2>1. n < q
    BY <1>1, <1>6, <1>9
  <2>2. code[M[n].identity] < code[M[q].identity]
    BY <1>5, <2>1 DEF IsIndex, Ascends, Order
  <2>3. p = n \/ code[R[n].identity] < code[R[p].identity]
    <3>1. p = n \/ n < p
      BY <1>1, <1>7
    <3> QED BY <1>5, <3>1 DEF IsIndex, Ascends, Order
  <2>4. R[n].identity = M[q].identity /\ R[p].identity = M[n].identity
    BY <1>6, <1>7 DEF SameAt
  <2>5. code[M[n].identity] \in Nat /\ code[M[q].identity] \in Nat
    BY <1>5 DEF IsIndex, Encoded
  <2>6. CASE p = n
    <3>1. M[n].identity = M[q].identity
      BY <2>4, <2>6
    <3> QED BY <1>5, <1>9, <3>1, PlacesAreOne
  <2>7. CASE p # n
    <3>1. code[M[q].identity] < code[M[n].identity]
      BY <2>3, <2>4, <2>7
    <3> DEFINE x == code[M[n].identity] y == code[M[q].identity]
    <3>2. x \in Nat /\ y \in Nat /\ x < y /\ y < x
      BY <2>2, <2>5, <3>1
    <3> HIDE DEF x, y
    <3>3. FALSE
      BY <3>2
    <3> QED BY <3>3
  <2> QED BY <2>6, <2>7
<1> QED BY <1>8, <1>9

(* A line that is ahead of the other file is a difference.                 *)
LEMMA AheadDisagrees ==
  ASSUME NEW code \in Codes, NEW R, IsIndex(code, R), NEW M, IsIndex(code, M),
         NEW a, NEW b, NEW left, NEW right, NEW found, IsSeq(found),
         LeftOf(left, R, a), LeftOf(right, M, b),
         AgreesSoFar(R, M, a, b, found),
         left # <<>> \/ right # <<>>,
         left # <<>> /\ right # <<>> =>
           \/ Head(left).identity # Head(right).identity
           \/ Head(left).hash # Head(right).hash,
         NEW x, NEW c, NEW d
  PROVE  AgreesSoFar(R, M, c, d, found \o <<x>>)
<1>1. HasFound(found \o <<x>>, found, x)
  BY FoundMore
<1>2. found \o <<x>> # <<>>
  <2> DEFINE t == found \o <<x>>
  <2> HIDE DEF t
  <2>1. HasFound(t, found, x)
    BY <1>1 DEF t
  <2>2. t # <<>>
    BY <2>1, EmptySequence DEF HasFound
  <2> QED BY <2>2 DEF t
<1>3. ASSUME Tells(R, M) PROVE FALSE
  <2>0. IsSeq(R) /\ IsSeq(M)
    BY DEF IsIndex
  <2>1. found = <<>> /\ a = b /\ \A i \in 1 .. a : SameAt(R, i, M, i)
    BY <1>3 DEF AgreesSoFar
  <2>2. /\ a \in Nat /\ a <= Len(R) /\ a <= Len(M)
    BY <2>0, <2>1, LeftFacts
  <2>3. /\ left # <<>> => a + 1 \in DOMAIN R /\ Head(left) = R[a + 1]
        /\ right # <<>> => a + 1 \in DOMAIN M /\ Head(right) = M[a + 1]
    BY <2>0, <2>1, LeftTakes
  <2>4. a + 1 \in DOMAIN R /\ a + 1 \in DOMAIN M /\ SameAt(R, a + 1, M, a + 1)
    BY <1>3, <2>1, <2>2, <2>3, HeadsAgree
  <2>5. left # <<>> /\ right # <<>>
    <3>1. /\ left = <<>> => a = Len(R)
          /\ right = <<>> => a = Len(M)
      BY <2>0, <2>1, LeftFacts
    <3>2. /\ a + 1 <= Len(R) /\ a + 1 <= Len(M) /\ Len(R) \in Nat /\ Len(M) \in Nat
      BY <2>0, <2>4, SequenceFacts
    <3> QED BY <2>2, <3>1, <3>2
  <2> QED BY <2>3, <2>4, <2>5 DEF SameAt
<1> HIDE DEF AgreesSoFar
<1> QED BY <1>2, <1>3, Zenon DEF AgreesSoFar

(* Lines that are the same leave the files in agreement.                   *)
LEMMA SameAgrees ==
  ASSUME NEW code \in Codes, NEW R, IsIndex(code, R), NEW M, IsIndex(code, M),
         NEW a \in Nat, NEW b \in Nat, NEW found,
         AgreesSoFar(R, M, a, b, found), SameAt(R, a + 1, M, b + 1)
  PROVE  AgreesSoFar(R, M, a + 1, b + 1, found)
<1>1. ASSUME found = <<>>
      PROVE  a + 1 = b + 1 /\ \A i \in 1 .. a + 1 : SameAt(R, i, M, i)
  <2>1. a = b /\ \A i \in 1 .. a : SameAt(R, i, M, i)
    BY <1>1 DEF AgreesSoFar
  <2>2. \A i \in 1 .. a + 1 : i \in 1 .. a \/ i = a + 1
    OBVIOUS
  <2> QED BY <2>1, <2>2
<1>2. Tells(R, M) => found = <<>>
  BY DEF AgreesSoFar
<1> QED BY <1>1, <1>2 DEF AgreesSoFar

(* Files that have been read to their ends tell the same exactly if        *)
(* nothing has been found.                                                 *)
LEMMA AgreeAtTheEnd ==
  ASSUME NEW code \in Codes, NEW R, IsIndex(code, R), NEW M, IsIndex(code, M),
         NEW found, AgreesSoFar(R, M, Len(R), Len(M), found)
  PROVE  found = <<>> <=> Tells(R, M)
<1>1. Tells(R, M) => found = <<>>
  BY DEF AgreesSoFar
<1>2. ASSUME found = <<>> PROVE Tells(R, M)
  <2>1. Len(R) = Len(M) /\ \A i \in 1 .. Len(R) : SameAt(R, i, M, i)
    BY <1>2 DEF AgreesSoFar
  <2>2. DOMAIN R = 1 .. Len(R) /\ DOMAIN M = 1 .. Len(M)
    BY SequenceFacts DEF IsIndex
  <2> QED BY <2>1, <2>2 DEF Tells
<1> QED BY <1>1, <1>2

(***************************************************************************)
(* Where the orders agree, what has been found are the differences.        *)
(***************************************************************************)
LEMMA OrderFacts ==
  ASSUME NEW code \in Codes, NEW S, IsIndex(code, S), NEW T, IsIndex(code, T)
  PROVE  /\ \A p \in DOMAIN S : p \in Nat /\ Order(code, S[p]) \in Nat
         /\ \A p \in DOMAIN S : \A q \in DOMAIN T :
              Order(code, S[p]) = Order(code, T[q]) <=> S[p].identity = T[q].identity
<1>1. \A p \in DOMAIN S : p \in Nat
  BY SequenceFacts DEF IsIndex
<1>2. /\ \A p \in DOMAIN S : S[p].identity \in DOMAIN code /\ code[S[p].identity] \in Nat
      /\ \A q \in DOMAIN T : T[q].identity \in DOMAIN code
  BY DEF IsIndex, Encoded
<1>3. \A x, y \in DOMAIN code : code[x] = code[y] => x = y
  BY IdentityAssumption
<1>4. ASSUME NEW p \in DOMAIN S, NEW q \in DOMAIN T
      PROVE  Order(code, S[p]) = Order(code, T[q]) <=> S[p].identity = T[q].identity
  BY <1>2, <1>3 DEF Order
<1> QED BY <1>1, <1>2, <1>4 DEF Order

LEMMA NoneBehindItself ==
  ASSUME NEW code, NEW S, Ascends(code, S), NEW n \in DOMAIN S
  PROVE  IsAfter(code, S[n], S, n)
BY DEF Ascends, IsAfter

LEMMA CutTurned ==
  ASSUME NEW code, NEW S, NEW T, NEW a, NEW b, IsCut(code, S, T, a, b)
  PROVE  IsCut(code, T, S, b, a)
BY DEF IsCut

(* A line that is ahead of what is left of the other file is in that file  *)
(* nowhere, and can be taken.                                              *)
LEMMA AheadIsAlone ==
  ASSUME NEW code \in Codes, NEW S, IsIndex(code, S), NEW T, IsIndex(code, T),
         NEW a \in Nat, NEW b \in Nat, IsCut(code, S, T, a, b), a + 1 \in DOMAIN S,
         b + 1 \in DOMAIN T => Order(code, S[a + 1]) < Order(code, T[b + 1])
  PROVE  /\ a + 1 \in NotIn(S, T) /\ IsCut(code, S, T, a + 1, b)
         /\ IsAfter(code, S[a + 1], S, a + 1) /\ IsAfter(code, S[a + 1], T, b)
<1> DEFINE n == a + 1 m == b + 1
<1>0. n \in DOMAIN S /\ n \in Nat /\ m \in Nat /\ n > a
      /\ (\A p \in Nat : p > n => p > a) /\ (\A p \in Nat : p <= n => p <= a \/ p = n)
      /\ (\A q \in Nat : q > b => q = m \/ m < q) /\ \A q \in Nat : q <= b \/ q > b
  OBVIOUS
<1>1. m \in DOMAIN T => Order(code, S[n]) < Order(code, T[m])
  OBVIOUS
<1>2. DOMAIN T = 1 .. Len(T) /\ Len(T) \in Nat
  BY SequenceFacts DEF IsIndex
<1>3. \A q \in DOMAIN T : q > b => m \in DOMAIN T
  BY <1>2
<1> HIDE DEF n, m
<1>4. /\ \A p \in DOMAIN S : p \in Nat /\ Order(code, S[p]) \in Nat
      /\ \A q \in DOMAIN T : q \in Nat /\ Order(code, T[q]) \in Nat
      /\ \A p \in DOMAIN S : \A q \in DOMAIN T :
           S[p].identity = T[q].identity => Order(code, S[p]) = Order(code, T[q])
  BY OrderFacts
<1>5. ASSUME NEW q \in DOMAIN T, q > b PROVE Order(code, S[n]) < Order(code, T[q])
  <2>1. m \in DOMAIN T /\ Order(code, S[n]) < Order(code, T[m])
    BY <1>1, <1>3, <1>5
  <2>2. CASE q = m
    BY <2>1, <2>2
  <2>3. CASE m < q
    <3>1. Order(code, T[m]) < Order(code, T[q])
      BY <2>1, <2>3 DEF IsIndex, Ascends
    <3>2. Order(code, S[n]) \in Nat /\ Order(code, T[m]) \in Nat /\ Order(code, T[q]) \in Nat
      BY <1>0, <1>4, <2>1
    <3> QED BY <2>1, <3>1, <3>2
  <2> QED BY <1>0, <1>4, <1>5, <2>2, <2>3
<1>6. ASSUME NEW q \in DOMAIN T, q <= b PROVE Order(code, T[q]) < Order(code, S[n])
  BY <1>0, <1>6 DEF IsCut
<1>7. n \in NotIn(S, T)
  <2> SUFFICES ASSUME NEW q \in DOMAIN T, T[q].identity = S[n].identity PROVE FALSE
    BY <1>0 DEF NotIn
  <2>1. Order(code, S[n]) = Order(code, T[q]) /\ Order(code, T[q]) \in Nat
    BY <1>0, <1>4
  <2>2. q <= b \/ q > b
    BY <1>0, <1>4
  <2> QED BY <1>5, <1>6, <2>1, <2>2
<1>8. IsCut(code, S, T, n, b)
  <2> SUFFICES ASSUME NEW p \in DOMAIN S, NEW q \in DOMAIN T
               PROVE  /\ p <= n /\ q > b => Order(code, S[p]) < Order(code, T[q])
                      /\ q <= b /\ p > n => Order(code, T[q]) < Order(code, S[p])
    BY DEF IsCut
  <2>1. ASSUME p <= n, q > b PROVE Order(code, S[p]) < Order(code, T[q])
    <3>1. p <= a \/ p = n
      BY <1>0, <1>4, <2>1
    <3> QED BY <1>5, <2>1, <3>1 DEF IsCut
  <2>2. ASSUME q <= b, p > n PROVE Order(code, T[q]) < Order(code, S[p])
    <3>1. p > a
      BY <1>0, <1>4, <2>2
    <3> QED BY <2>2, <3>1 DEF IsCut
  <2> QED BY <2>1, <2>2
<1>9. IsAfter(code, S[n], S, n)
  BY <1>0, NoneBehindItself DEF IsIndex
<1>10. IsAfter(code, S[n], T, b)
  BY <1>5 DEF IsAfter
<1> QED BY <1>7, <1>8, <1>9, <1>10 DEF n

(* Two lines of one identity can be taken together.                        *)
LEMMA EqualsAreTaken ==
  ASSUME NEW code \in Codes, NEW S, IsIndex(code, S), NEW T, IsIndex(code, T),
         NEW a \in Nat, NEW b \in Nat, IsCut(code, S, T, a, b),
         a + 1 \in DOMAIN S, b + 1 \in DOMAIN T, S[a + 1].identity = T[b + 1].identity
  PROVE  /\ IsCut(code, S, T, a + 1, b + 1)
         /\ IsAfter(code, S[a + 1], S, a + 1) /\ IsAfter(code, S[a + 1], T, b + 1)
<1> DEFINE n == a + 1 m == b + 1
<1>0. n \in DOMAIN S /\ m \in DOMAIN T /\ n > a /\ m > b
      /\ (\A p \in Nat : p > n => p > a) /\ (\A p \in Nat : p <= n => p <= a \/ p = n)
      /\ (\A q \in Nat : q > m => q > b) /\ (\A q \in Nat : q <= m => q <= b \/ q = m)
  OBVIOUS
<1>1. S[n].identity = T[m].identity
  OBVIOUS
<1> HIDE DEF n, m
<1>2. Order(code, S[n]) = Order(code, T[m])
  BY <1>1 DEF Order
<1>3. IsAfter(code, S[n], S, n)
  BY <1>0, NoneBehindItself DEF IsIndex
<1>4. IsAfter(code, T[m], T, m)
  BY <1>0, NoneBehindItself DEF IsIndex
<1>5. IsAfter(code, S[n], T, m)
  BY <1>2, <1>4 DEF IsAfter
<1>6. IsAfter(code, T[m], S, n)
  BY <1>2, <1>3 DEF IsAfter
<1>7. (\A p \in DOMAIN S : p \in Nat) /\ (\A q \in DOMAIN T : q \in Nat)
  BY OrderFacts
<1>8. IsCut(code, S, T, n, m)
  <2> SUFFICES ASSUME NEW p \in DOMAIN S, NEW q \in DOMAIN T
               PROVE  /\ p <= n /\ q > m => Order(code, S[p]) < Order(code, T[q])
                      /\ q <= m /\ p > n => Order(code, T[q]) < Order(code, S[p])
    BY DEF IsCut
  <2>1. ASSUME p <= n, q > m PROVE Order(code, S[p]) < Order(code, T[q])
    <3>1. (p <= a \/ p = n) /\ q > b
      BY <1>0, <1>7, <2>1
    <3> QED BY <1>5, <2>1, <3>1 DEF IsCut, IsAfter
  <2>2. ASSUME q <= m, p > n PROVE Order(code, T[q]) < Order(code, S[p])
    <3>1. (q <= b \/ q = m) /\ p > a
      BY <1>0, <1>7, <2>2
    <3> QED BY <1>6, <2>2, <3>1 DEF IsCut, IsAfter
  <2> QED BY <2>1, <2>2
<1> QED BY <1>3, <1>5, <1>8 DEF n, m

(* What an awaited identity is, when a line has been taken.                *)
LEMMA AwaitedNext ==
  ASSUME NEW identity, NEW s, IsSeq(s), NEW a \in Nat, Awaits(identity, s, a)
  PROVE  Awaits(identity, s, a + 1) \/ (a + 1 \in DOMAIN s /\ s[a + 1].identity = identity)
<1>1. PICK p \in DOMAIN s : p > a /\ s[p].identity = identity
  BY DEF Awaits
<1>2. p \in Nat
  BY SequenceFacts
<1> QED BY <1>1, <1>2 DEF Awaits

LEMMA AfterLess ==
  ASSUME NEW code, NEW line, NEW s, IsSeq(s), NEW a \in Nat, IsAfter(code, line, s, a)
  PROVE  IsAfter(code, line, s, a + 1)
<1>1. \A p \in DOMAIN s : p > a + 1 => p > a
  BY SequenceFacts
<1> QED BY <1>1 DEF IsAfter

(* What is awaited from a line on is of its identity or is behind it.      *)
Narrows(identity, R, M, a, b, c, d) ==
  \A y : Awaits(y, R, a) \/ Awaits(y, M, b) =>
    Awaits(y, R, c) \/ Awaits(y, M, d) \/ y = identity

(* A conflict is found that is the only one of its identity.               *)
LEMMA FindsExactly ==
  ASSUME NEW code, NEW R, NEW M, NEW a, NEW b, NEW c, NEW d,
         NEW found, IsSeq(found), ExactSoFar(code, R, M, a, b, found),
         NEW x, NEW t, HasFound(t, found, x),
         IsCut(code, R, M, c, d), IsAfter(code, x, R, c), IsAfter(code, x, M, d),
         \A i \in DOMAIN found :
           /\ Order(code, found[i]) < Order(code, x)
           /\ IsAfter(code, found[i], R, c) /\ IsAfter(code, found[i], M, d),
         IsDifference(x, R, M),
         \A y : IsDifference(y, R, M) /\ y.identity = x.identity => y = x,
         Narrows(x.identity, R, M, a, b, c, d)
  PROVE  ExactSoFar(code, R, M, c, d, t)
<1> DEFINE n == Len(found) + 1
<1>1. /\ Len(found) \in Nat /\ DOMAIN found = 1 .. Len(found) /\ DOMAIN t = 1 .. n /\ t[n] = x
      /\ \A i \in DOMAIN found : t[i] = found[i]
  BY DEF HasFound
<1>2. /\ \A i \in DOMAIN t : i \in DOMAIN found \/ i = n
      /\ \A i \in DOMAIN found : i \in DOMAIN t /\ ~(n < i)
      /\ n \in DOMAIN t /\ ~(n < n)
  BY <1>1
<1> HIDE DEF n
<1>3. Ascends(code, t)
  <2> SUFFICES ASSUME NEW i \in DOMAIN t, NEW j \in DOMAIN t, i < j
               PROVE  Order(code, t[i]) < Order(code, t[j])
    BY DEF Ascends
  <2>1. i \in DOMAIN found
    BY <1>2
  <2>2. CASE j \in DOMAIN found
    BY <1>1, <2>1, <2>2 DEF ExactSoFar, Ascends
  <2>3. CASE j = n
    BY <1>1, <2>1, <2>3
  <2> QED BY <1>2, <2>2, <2>3
<1>4. ASSUME NEW i \in DOMAIN t
      PROVE  /\ IsDifference(t[i], R, M)
             /\ IsAfter(code, t[i], R, c) /\ IsAfter(code, t[i], M, d)
  <2>1. CASE i \in DOMAIN found
    BY <1>1, <2>1 DEF ExactSoFar
  <2>2. CASE i = n
    BY <1>1, <2>2
  <2> QED BY <1>2, <2>1, <2>2
<1>5. ASSUME NEW y, IsDifference(y, R, M)
      PROVE  \/ \E i \in DOMAIN t : t[i] = y
             \/ Awaits(y.identity, R, c)
             \/ Awaits(y.identity, M, d)
  <2>1. CASE \E i \in DOMAIN found : found[i] = y
    BY <1>1, <1>2, <2>1
  <2>2. CASE Awaits(y.identity, R, a) \/ Awaits(y.identity, M, b)
    <3>1. Awaits(y.identity, R, c) \/ Awaits(y.identity, M, d) \/ y.identity = x.identity
      BY <2>2, Zenon DEF Narrows
    <3>2. y.identity = x.identity => y = x
      BY <1>5
    <3> QED BY <1>1, <1>2, <3>1, <3>2
  <2> QED BY <1>5, <2>1, <2>2 DEF ExactSoFar
<1> QED BY <1>3, <1>4, <1>5 DEF ExactSoFar

LEMMA ConflictFacts ==
  ASSUME NEW line, NEW reason
  PROVE  /\ Conflict(line, reason).identity = line.identity
         /\ Conflict(line, reason).reason = reason
BY DEF Conflict

(* An identity that one file has and the other has not differs in one way. *)
LEMMA OnlyInTheReplay ==
  ASSUME NEW code, NEW R, IsIndex(code, R), NEW M, IsIndex(code, M), NEW n \in NotIn(R, M),
         NEW y, IsDifference(y, R, M), y.identity = R[n].identity
  PROVE  y = Conflict(R[n], "not_in_manifest")
<1>1. n \in DOMAIN R /\ \A q \in DOMAIN M : M[q].identity # R[n].identity
  BY DEF NotIn
<1>2. CASE \E p \in NotIn(R, M) : y = Conflict(R[p], "not_in_manifest")
  <2>1. PICK p \in NotIn(R, M) : y = Conflict(R[p], "not_in_manifest")
    BY <1>2
  <2>2. p \in DOMAIN R /\ R[p].identity = R[n].identity
    BY <2>1, ConflictFacts DEF NotIn
  <2>3. p = n
    BY <1>1, <2>2, PlacesAreOne
  <2> QED BY <2>1, <2>3
<1>3. CASE \E p \in Changed(R, M) : y = Conflict(R[p], "changed_hash")
  <2>1. PICK p \in Changed(R, M) : y = Conflict(R[p], "changed_hash")
    BY <1>3
  <2>2. R[p].identity = R[n].identity /\ \E q \in DOMAIN M : M[q].identity = R[p].identity
    BY <2>1, ConflictFacts DEF Changed
  <2> QED BY <1>1, <2>2
<1>4. CASE \E q \in NotIn(M, R) : y = Conflict(M[q], "missing_from_replay")
  <2>1. PICK q \in NotIn(M, R) : y = Conflict(M[q], "missing_from_replay")
    BY <1>4
  <2>2. q \in DOMAIN M /\ M[q].identity = R[n].identity
    BY <2>1, ConflictFacts DEF NotIn
  <2> QED BY <1>1, <2>2
<1> QED BY <1>2, <1>3, <1>4 DEF IsDifference

LEMMA OnlyInTheManifest ==
  ASSUME NEW code, NEW R, IsIndex(code, R), NEW M, IsIndex(code, M), NEW m \in NotIn(M, R),
         NEW y, IsDifference(y, R, M), y.identity = M[m].identity
  PROVE  y = Conflict(M[m], "missing_from_replay")
<1>1. m \in DOMAIN M /\ \A p \in DOMAIN R : R[p].identity # M[m].identity
  BY DEF NotIn
<1>2. CASE \E p \in NotIn(R, M) : y = Conflict(R[p], "not_in_manifest")
  <2>1. PICK p \in NotIn(R, M) : y = Conflict(R[p], "not_in_manifest")
    BY <1>2
  <2>2. p \in DOMAIN R /\ R[p].identity = M[m].identity
    BY <2>1, ConflictFacts DEF NotIn
  <2> QED BY <1>1, <2>2
<1>3. CASE \E p \in Changed(R, M) : y = Conflict(R[p], "changed_hash")
  <2>1. PICK p \in Changed(R, M) : y = Conflict(R[p], "changed_hash")
    BY <1>3
  <2>2. p \in DOMAIN R /\ R[p].identity = M[m].identity
    BY <2>1, ConflictFacts DEF Changed
  <2> QED BY <1>1, <2>2
<1>4. CASE \E q \in NotIn(M, R) : y = Conflict(M[q], "missing_from_replay")
  <2>1. PICK q \in NotIn(M, R) : y = Conflict(M[q], "missing_from_replay")
    BY <1>4
  <2>2. q \in DOMAIN M /\ M[q].identity = M[m].identity
    BY <2>1, ConflictFacts DEF NotIn
  <2>3. q = m
    BY <1>1, <2>2, PlacesAreOne
  <2> QED BY <2>1, <2>3
<1> QED BY <1>2, <1>3, <1>4 DEF IsDifference

(* An identity that both files have differs by its hash or not at all.     *)
LEMMA InBothFiles ==
  ASSUME NEW code, NEW R, IsIndex(code, R), NEW M, IsIndex(code, M),
         NEW n \in DOMAIN R, NEW m \in DOMAIN M, R[n].identity = M[m].identity,
         NEW y, IsDifference(y, R, M), y.identity = R[n].identity
  PROVE  y = Conflict(R[n], "changed_hash") /\ R[n].hash # M[m].hash
<1>2. CASE \E p \in NotIn(R, M) : y = Conflict(R[p], "not_in_manifest")
  <2>1. PICK p \in NotIn(R, M) : y = Conflict(R[p], "not_in_manifest")
    BY <1>2
  <2>2. R[p].identity = M[m].identity /\ \A q \in DOMAIN M : M[q].identity # R[p].identity
    BY <2>1, ConflictFacts DEF NotIn
  <2> QED BY <2>2
<1>3. CASE \E p \in Changed(R, M) : y = Conflict(R[p], "changed_hash")
  <2>1. PICK p \in Changed(R, M) : y = Conflict(R[p], "changed_hash")
    BY <1>3
  <2>2. p \in DOMAIN R /\ R[p].identity = R[n].identity
    BY <2>1, ConflictFacts DEF Changed
  <2>3. p = n
    BY <2>2, PlacesAreOne
  <2>4. PICK q \in DOMAIN M : M[q].identity = R[n].identity /\ M[q].hash # R[n].hash
    BY <2>1, <2>3 DEF Changed
  <2>5. q = m
    BY <2>4, PlacesAreOne
  <2> QED BY <2>1, <2>3, <2>4, <2>5
<1>4. CASE \E q \in NotIn(M, R) : y = Conflict(M[q], "missing_from_replay")
  <2>1. PICK q \in NotIn(M, R) : y = Conflict(M[q], "missing_from_replay")
    BY <1>4
  <2>2. M[q].identity = R[n].identity /\ \A p \in DOMAIN R : R[p].identity # M[q].identity
    BY <2>1, ConflictFacts DEF NotIn
  <2> QED BY <2>2
<1> QED BY <1>2, <1>3, <1>4 DEF IsDifference

LEMMA FoundIsSeq ==
  ASSUME NEW s, IsSeq(s), NEW x, NEW t, t = s \o <<x>>
  PROVE  IsSeq(t)
<1>1. HasFound(s \o <<x>>, s, x)
  BY FoundMore
<1>2. HasFound(t, s, x)
  BY <1>1
<1> QED BY <1>2 DEF HasFound

LEMMA ConflictsOrder ==
  ASSUME NEW code, NEW line, NEW reason
  PROVE  /\ Order(code, Conflict(line, reason)) = Order(code, line)
         /\ \A s, a : IsAfter(code, line, s, a) => IsAfter(code, Conflict(line, reason), s, a)
BY ConflictFacts DEF Order, IsAfter

LEMMA TakesReplay ==
  ASSUME NEW code \in Codes, NEW R, IsIndex(code, R), NEW M, IsIndex(code, M),
         NEW a \in Nat, NEW b \in Nat, NEW found, IsSeq(found),
         ExactSoFar(code, R, M, a, b, found), a + 1 \in DOMAIN R,
         b + 1 \in DOMAIN M => Order(code, R[a + 1]) < Order(code, M[b + 1])
  PROVE  ExactSoFar(code, R, M, a + 1, b, found \o <<Conflict(R[a + 1], "not_in_manifest")>>)
<1> DEFINE n == a + 1
           x == Conflict(R[n], "not_in_manifest")
           t == found \o <<x>>
<1>0. IsSeq(R) /\ IsSeq(M) /\ a + 1 > a
  BY DEF IsIndex
<1>1. n \in NotIn(R, M) /\ IsCut(code, R, M, n, b) /\ IsAfter(code, R[n], R, n) /\ IsAfter(code, R[n], M, b)
  BY AheadIsAlone DEF ExactSoFar
<1>2. HasFound(t, found, x)
  BY FoundMore
<1> HIDE DEF t
<1>3. \A i \in DOMAIN found :
        /\ IsAfter(code, found[i], R, n) /\ IsAfter(code, found[i], M, b)
        /\ Order(code, found[i]) < Order(code, R[n])
  <2> SUFFICES ASSUME NEW i \in DOMAIN found
               PROVE  /\ IsAfter(code, found[i], R, n) /\ IsAfter(code, found[i], M, b)
                      /\ Order(code, found[i]) < Order(code, R[n])
    OBVIOUS
  <2>1. IsAfter(code, found[i], R, a) /\ IsAfter(code, found[i], M, b)
    BY DEF ExactSoFar
  <2>2. IsAfter(code, found[i], R, n)
    BY <1>0, <2>1, AfterLess
  <2>3. Order(code, found[i]) < Order(code, R[n])
    BY <1>0, <2>1 DEF IsAfter
  <2> QED BY <2>1, <2>2, <2>3
<1>4. Narrows(R[n].identity, R, M, a, b, n, b)
  BY <1>0, AwaitedNext DEF Narrows
<1> HIDE DEF n
<1>5. /\ Order(code, x) = Order(code, R[n]) /\ x.identity = R[n].identity
      /\ IsAfter(code, x, R, n) /\ IsAfter(code, x, M, b)
  BY <1>1, ConflictsOrder, ConflictFacts
<1>6. IsDifference(x, R, M)
  BY <1>1 DEF IsDifference
<1>7. \A y : IsDifference(y, R, M) /\ y.identity = x.identity => y = x
  BY <1>1, <1>5, OnlyInTheReplay
<1> HIDE DEF x
<1>8. ExactSoFar(code, R, M, n, b, t)
  BY <1>1, <1>2, <1>3, <1>4, <1>5, <1>6, <1>7, FindsExactly
<1> QED BY <1>8 DEF t, n, x

LEMMA TakesManifest ==
  ASSUME NEW code \in Codes, NEW R, IsIndex(code, R), NEW M, IsIndex(code, M),
         NEW a \in Nat, NEW b \in Nat, NEW found, IsSeq(found),
         ExactSoFar(code, R, M, a, b, found), b + 1 \in DOMAIN M,
         a + 1 \in DOMAIN R => Order(code, M[b + 1]) < Order(code, R[a + 1])
  PROVE  ExactSoFar(code, R, M, a, b + 1, found \o <<Conflict(M[b + 1], "missing_from_replay")>>)
<1> DEFINE m == b + 1
           x == Conflict(M[m], "missing_from_replay")
           t == found \o <<x>>
<1>0. IsSeq(R) /\ IsSeq(M) /\ b + 1 > b
  BY DEF IsIndex
<1>a. IsCut(code, M, R, b, a)
  BY CutTurned DEF ExactSoFar
<1>1. m \in NotIn(M, R) /\ IsCut(code, M, R, m, a) /\ IsAfter(code, M[m], M, m) /\ IsAfter(code, M[m], R, a)
  BY <1>a, AheadIsAlone
<1>2. HasFound(t, found, x)
  BY FoundMore
<1> HIDE DEF t
<1>3. \A i \in DOMAIN found :
        /\ IsAfter(code, found[i], R, a) /\ IsAfter(code, found[i], M, m)
        /\ Order(code, found[i]) < Order(code, M[m])
  <2> SUFFICES ASSUME NEW i \in DOMAIN found
               PROVE  /\ IsAfter(code, found[i], R, a) /\ IsAfter(code, found[i], M, m)
                      /\ Order(code, found[i]) < Order(code, M[m])
    OBVIOUS
  <2>1. IsAfter(code, found[i], R, a) /\ IsAfter(code, found[i], M, b)
    BY DEF ExactSoFar
  <2>2. IsAfter(code, found[i], M, m)
    BY <1>0, <2>1, AfterLess
  <2>3. Order(code, found[i]) < Order(code, M[m])
    BY <1>0, <2>1 DEF IsAfter
  <2> QED BY <2>1, <2>2, <2>3
<1>4. Narrows(M[m].identity, R, M, a, b, a, m)
  BY <1>0, AwaitedNext DEF Narrows
<1> HIDE DEF m
<1>b. IsCut(code, R, M, a, m)
  BY <1>1, CutTurned
<1>5. /\ Order(code, x) = Order(code, M[m]) /\ x.identity = M[m].identity
      /\ IsAfter(code, x, R, a) /\ IsAfter(code, x, M, m)
  BY <1>1, ConflictsOrder, ConflictFacts
<1>6. IsDifference(x, R, M)
  BY <1>1 DEF IsDifference
<1>7. \A y : IsDifference(y, R, M) /\ y.identity = x.identity => y = x
  BY <1>1, <1>5, OnlyInTheManifest
<1> HIDE DEF x
<1>8. ExactSoFar(code, R, M, a, m, t)
  BY <1>b, <1>2, <1>3, <1>4, <1>5, <1>6, <1>7, FindsExactly
<1> QED BY <1>8 DEF t, m, x

(* Both lines are taken, with a conflict if the hash has changed.          *)
LEMMA TakesBoth ==
  ASSUME NEW code \in Codes, NEW R, IsIndex(code, R), NEW M, IsIndex(code, M),
         NEW a \in Nat, NEW b \in Nat, NEW found, IsSeq(found),
         ExactSoFar(code, R, M, a, b, found), a + 1 \in DOMAIN R, b + 1 \in DOMAIN M,
         R[a + 1].identity = M[b + 1].identity
  PROVE  /\ R[a + 1].hash = M[b + 1].hash => ExactSoFar(code, R, M, a + 1, b + 1, found)
         /\ R[a + 1].hash # M[b + 1].hash =>
              ExactSoFar(code, R, M, a + 1, b + 1, found \o <<Conflict(R[a + 1], "changed_hash")>>)
<1> DEFINE n == a + 1 m == b + 1
           x == Conflict(R[n], "changed_hash")
           t == found \o <<x>>
<1>0. IsSeq(R) /\ IsSeq(M) /\ a + 1 > a
  BY DEF IsIndex
<1>1. IsCut(code, R, M, n, m) /\ IsAfter(code, R[n], R, n) /\ IsAfter(code, R[n], M, m)
  BY EqualsAreTaken DEF ExactSoFar
<1>2. HasFound(t, found, x)
  BY FoundMore
<1> HIDE DEF t
<1>3. \A i \in DOMAIN found :
        /\ IsAfter(code, found[i], R, n) /\ IsAfter(code, found[i], M, m)
        /\ Order(code, found[i]) < Order(code, R[n])
  <2> SUFFICES ASSUME NEW i \in DOMAIN found
               PROVE  /\ IsAfter(code, found[i], R, n) /\ IsAfter(code, found[i], M, m)
                      /\ Order(code, found[i]) < Order(code, R[n])
    OBVIOUS
  <2>1. IsAfter(code, found[i], R, a) /\ IsAfter(code, found[i], M, b)
    BY DEF ExactSoFar
  <2>2. IsAfter(code, found[i], R, n)
    BY <1>0, <2>1, AfterLess
  <2>3. IsAfter(code, found[i], M, m)
    BY <1>0, <2>1, AfterLess
  <2>4. Order(code, found[i]) < Order(code, R[n])
    BY <1>0, <2>1 DEF IsAfter
  <2> QED BY <2>2, <2>3, <2>4
<1>4. Narrows(R[n].identity, R, M, a, b, n, m)
  <2> SUFFICES ASSUME NEW y, Awaits(y, R, a) \/ Awaits(y, M, b)
               PROVE  Awaits(y, R, n) \/ Awaits(y, M, m) \/ y = R[n].identity
    BY DEF Narrows
  <2>1. CASE Awaits(y, R, a)
    BY <1>0, <2>1, AwaitedNext
  <2>2. CASE Awaits(y, M, b)
    BY <1>0, <2>2, AwaitedNext
  <2> QED BY <2>1, <2>2
<1>5. n \in DOMAIN R /\ m \in DOMAIN M /\ R[n].identity = M[m].identity
  OBVIOUS
<1> HIDE DEF n, m
<1>6. ASSUME R[n].hash = M[m].hash PROVE ExactSoFar(code, R, M, n, m, found)
  <2>1. ASSUME NEW y, IsDifference(y, R, M), y.identity = R[n].identity PROVE FALSE
    BY <1>5, <1>6, <2>1, InBothFiles
  <2>2. ASSUME NEW y, IsDifference(y, R, M)
        PROVE  \/ \E i \in DOMAIN found : found[i] = y
               \/ Awaits(y.identity, R, n)
               \/ Awaits(y.identity, M, m)
    <3>1. \/ \E i \in DOMAIN found : found[i] = y
          \/ Awaits(y.identity, R, a) \/ Awaits(y.identity, M, b)
      BY <2>2 DEF ExactSoFar
    <3>2. y.identity # R[n].identity
      BY <2>1, <2>2
    <3> QED BY <1>4, <3>1, <3>2, Zenon DEF Narrows
  <2>3. Ascends(code, found) /\ \A i \in DOMAIN found : IsDifference(found[i], R, M)
    BY DEF ExactSoFar
  <2> QED BY <1>1, <1>3, <2>2, <2>3 DEF ExactSoFar
<1>7. ASSUME R[n].hash # M[m].hash PROVE ExactSoFar(code, R, M, n, m, t)
  <2>1. /\ Order(code, x) = Order(code, R[n]) /\ x.identity = R[n].identity
        /\ IsAfter(code, x, R, n) /\ IsAfter(code, x, M, m)
    <3>1. Order(code, x) = Order(code, R[n]) /\ x.identity = R[n].identity
      BY ConflictsOrder, ConflictFacts
    <3>2. \A u, v : IsAfter(code, R[n], u, v) => IsAfter(code, x, u, v)
      BY ConflictsOrder
    <3> HIDE DEF x
    <3> QED BY <1>1, <3>1, <3>2
  <2>2. IsDifference(x, R, M)
    <3>1. n \in Changed(R, M)
      BY <1>5, <1>7 DEF Changed
    <3> QED BY <3>1 DEF IsDifference
  <2>3. \A y : IsDifference(y, R, M) /\ y.identity = x.identity => y = x
    BY <1>5, <2>1, InBothFiles
  <2> HIDE DEF x
  <2> QED BY <1>1, <1>2, <1>3, <1>4, <2>1, <2>2, <2>3, FindsExactly
<1> QED BY <1>6, <1>7 DEF t, n, m, x

(***************************************************************************)
(* A turn of the loop.                                                     *)
(***************************************************************************)
(* What a turn leaves of the files, and what has then been found.          *)
Turn(left, right, found, l, r, f) ==
  \/ /\ ReplayAhead(left, right) /\ l = Tail(left) /\ r = right
     /\ f = found \o <<Conflict(Head(left), "not_in_manifest")>>
  \/ /\ ManifestAhead(left, right) /\ l = left /\ r = Tail(right)
     /\ f = found \o <<Conflict(Head(right), "missing_from_replay")>>
  \/ /\ ~ReplayAhead(left, right) /\ ~ManifestAhead(left, right)
     /\ l = Tail(left) /\ r = Tail(right)
     /\ IF Head(left).hash = Head(right).hash THEN f = found
        ELSE f = found \o <<Conflict(Head(left), "changed_hash")>>

(* Identities are compared like their codes.                               *)
LEMMA ComparedByCode ==
  ASSUME NEW code \in Codes, OrdersAgreeIn(code), NEW S, IsIndex(code, S),
         NEW T, IsIndex(code, T), NEW p \in DOMAIN S, NEW q \in DOMAIN T
  PROVE  IdentityBefore(S[p], T[q]) <=> Order(code, S[p]) < Order(code, T[q])
<1>1. S[p].identity \in DOMAIN code /\ T[q].identity \in DOMAIN code
  BY DEF IsIndex, Encoded
<1> QED BY <1>1 DEF OrdersAgreeIn, IdentityBefore, Order

LEMMA TurnKeeps ==
  ASSUME NEW code \in Codes, NEW R, IsIndex(code, R), NEW M, IsIndex(code, M), NEW a, NEW b,
         NEW left, NEW right, NEW found, MergesAt(code, R, M, a, b, left, right, found),
         left # <<>> \/ right # <<>>,
         NEW l, NEW r, NEW f, Turn(left, right, found, l, r, f)
  PROVE  \E c, d : MergesAt(code, R, M, c, d, l, r, f)
<1>0. IsSeq(R) /\ IsSeq(M)
  BY DEF IsIndex
<1>1. /\ LeftOf(left, R, a) /\ LeftOf(right, M, b) /\ IsSeq(found)
      /\ AgreesSoFar(R, M, a, b, found)
      /\ OrdersAgreeIn(code) => ExactSoFar(code, R, M, a, b, found)
  BY DEF MergesAt
<1>2. /\ left # <<>> => a + 1 \in DOMAIN R /\ Head(left) = R[a + 1] /\ LeftOf(Tail(left), R, a + 1)
      /\ right # <<>> => b + 1 \in DOMAIN M /\ Head(right) = M[b + 1] /\ LeftOf(Tail(right), M, b + 1)
  BY <1>0, <1>1, LeftTakes
<1>3. /\ a \in Nat /\ b \in Nat
      /\ a + 1 \in DOMAIN R => left # <<>>
      /\ b + 1 \in DOMAIN M => right # <<>>
  BY <1>0, <1>1, LeftFacts
<1>4. \A p \in DOMAIN R : R[p].identity \in Seq(Nat) /\ Len(R[p].identity) = 2
  BY DEF IsIndex, Encoded
<1>5. \A q \in DOMAIN M : M[q].identity \in Seq(Nat) /\ Len(M[q].identity) = 2
  BY DEF IsIndex, Encoded
<1> DEFINE n == a + 1 m == b + 1
<1>7. left # <<>> /\ right # <<>> =>
        /\ R[n].identity = M[m].identity => ~IdentityBefore(R[n], M[m]) /\ ~IdentityBefore(M[m], R[n])
        /\ ~IdentityBefore(R[n], M[m]) /\ ~IdentityBefore(M[m], R[n]) => R[n].identity = M[m].identity
  BY <1>2, <1>4, <1>5, IdentitiesAreOrdered
<1>8. CASE ReplayAhead(left, right) /\ l = Tail(left) /\ r = right
           /\ f = found \o <<Conflict(Head(left), "not_in_manifest")>>
  <2>1. left # <<>> /\ (right # <<>> => IdentityBefore(R[n], M[m]))
    BY <1>2, <1>8 DEF ReplayAhead
  <2>2. f = found \o <<Conflict(R[n], "not_in_manifest")>>
    BY <1>2, <1>8, <2>1
  <2>3. AgreesSoFar(R, M, n, b, f)
    <3>1. left # <<>> /\ right # <<>> => Head(left).identity # Head(right).identity
      BY <1>2, <1>7, <2>1
    <3> QED BY <1>1, <2>1, <2>2, <3>1, AheadDisagrees
  <2>4. ASSUME OrdersAgreeIn(code) PROVE ExactSoFar(code, R, M, n, b, f)
    <3>1. m \in DOMAIN M => Order(code, R[n]) < Order(code, M[m])
      BY <1>2, <1>3, <2>1, <2>4, ComparedByCode
    <3>2. ExactSoFar(code, R, M, a, b, found) /\ n \in DOMAIN R
      BY <1>1, <1>2, <2>1, <2>4
    <3> QED BY <1>1, <1>3, <2>2, <3>1, <3>2, TakesReplay
  <2>5. IsSeq(f)
    BY <1>1, <2>2, FoundIsSeq
  <2>6. LeftOf(l, R, n) /\ LeftOf(r, M, b)
    BY <1>1, <1>2, <1>8, <2>1
  <2>7. MergesAt(code, R, M, n, b, l, r, f)
    BY <2>3, <2>4, <2>5, <2>6 DEF MergesAt
  <2> QED BY <2>7
<1>9. CASE ManifestAhead(left, right) /\ l = left /\ r = Tail(right)
           /\ f = found \o <<Conflict(Head(right), "missing_from_replay")>>
  <2>1. right # <<>> /\ (left # <<>> => IdentityBefore(M[m], R[n]))
    BY <1>2, <1>9 DEF ManifestAhead
  <2>2. f = found \o <<Conflict(M[m], "missing_from_replay")>>
    BY <1>2, <1>9, <2>1
  <2>3. AgreesSoFar(R, M, a, m, f)
    <3>1. left # <<>> /\ right # <<>> => Head(left).identity # Head(right).identity
      BY <1>2, <1>7, <2>1
    <3> QED BY <1>1, <2>1, <2>2, <3>1, AheadDisagrees
  <2>4. ASSUME OrdersAgreeIn(code) PROVE ExactSoFar(code, R, M, a, m, f)
    <3>1. n \in DOMAIN R => Order(code, M[m]) < Order(code, R[n])
      BY <1>2, <1>3, <2>1, <2>4, ComparedByCode
    <3>2. ExactSoFar(code, R, M, a, b, found) /\ m \in DOMAIN M
      BY <1>1, <1>2, <2>1, <2>4
    <3> QED BY <1>1, <1>3, <2>2, <3>1, <3>2, TakesManifest
  <2>5. IsSeq(f)
    BY <1>1, <2>2, FoundIsSeq
  <2>6. LeftOf(l, R, a) /\ LeftOf(r, M, m)
    BY <1>1, <1>2, <1>9, <2>1
  <2>7. MergesAt(code, R, M, a, m, l, r, f)
    BY <2>3, <2>4, <2>5, <2>6 DEF MergesAt
  <2> QED BY <2>7
<1>10. CASE /\ ~ReplayAhead(left, right) /\ ~ManifestAhead(left, right)
            /\ l = Tail(left) /\ r = Tail(right)
            /\ IF Head(left).hash = Head(right).hash THEN f = found
               ELSE f = found \o <<Conflict(Head(left), "changed_hash")>>
  <2>1. /\ left # <<>> /\ right # <<>>
        /\ ~IdentityBefore(R[n], M[m]) /\ ~IdentityBefore(M[m], R[n])
    BY <1>2, <1>10 DEF ReplayAhead, ManifestAhead
  <2>2. R[n].identity = M[m].identity /\ n \in DOMAIN R /\ m \in DOMAIN M
    BY <1>2, <1>7, <2>1
  <2>3. Head(left) = R[n] /\ Head(right) = M[m]
    BY <1>2, <2>1
  <2>4. LeftOf(l, R, n) /\ LeftOf(r, M, m)
    BY <1>2, <1>10, <2>1
  <2>5. CASE R[n].hash = M[m].hash
    <3>1. f = found
      BY <1>10, <2>3, <2>5
    <3>2. AgreesSoFar(R, M, n, m, f)
      BY <1>1, <1>3, <2>2, <2>5, <3>1, SameAgrees DEF SameAt
    <3>3. OrdersAgreeIn(code) => ExactSoFar(code, R, M, n, m, f)
      BY <1>1, <1>3, <2>2, <2>5, <3>1, TakesBoth
    <3>4. MergesAt(code, R, M, n, m, l, r, f)
      BY <1>1, <2>4, <3>1, <3>2, <3>3 DEF MergesAt
    <3> QED BY <3>4
  <2>6. CASE R[n].hash # M[m].hash
    <3>1. f = found \o <<Conflict(R[n], "changed_hash")>>
      BY <1>10, <2>3, <2>6
    <3>2. AgreesSoFar(R, M, n, m, f)
      BY <1>1, <2>1, <2>3, <2>6, <3>1, AheadDisagrees
    <3>3. OrdersAgreeIn(code) => ExactSoFar(code, R, M, n, m, f)
      BY <1>1, <1>3, <2>2, <2>6, <3>1, TakesBoth
    <3>4. IsSeq(f)
      BY <1>1, <3>1, FoundIsSeq
    <3>5. MergesAt(code, R, M, n, m, l, r, f)
      BY <2>4, <3>2, <3>3, <3>4 DEF MergesAt
    <3> QED BY <3>5
  <2> QED BY <2>5, <2>6
<1> QED BY <1>8, <1>9, <1>10 DEF Turn

(***************************************************************************)
(* The indexes of a source and of a manifest.                              *)
(***************************************************************************)
(* Lines of a replay index with identities that are all different.         *)
IsUnsorted(code, f) ==
  /\ IsSeq(f)
  /\ \A i \in DOMAIN f : IsReplayLine(code, f[i], f[i].identity, f[i].hash)
  /\ Encoded(code, f)
  /\ \A i, j \in DOMAIN f : f[i].identity = f[j].identity => i = j

LEMMA SortedIsIndex ==
  ASSUME NEW code \in Codes, NEW f, IsUnsorted(code, f), NEW s, Arranged(s, f)
  PROVE  IsIndex(code, s) /\ Tells(s, f)
<1> DEFINE L == ItemsOf(s)
<1>0. IsSeq(s) /\ Rearranged(f, s) /\ InOrder(s)
  BY DEF Arranged
<1>1. /\ \A x \in DOMAIN f : \E y \in DOMAIN s : s[y] = f[x]
      /\ \A y \in DOMAIN s : \E x \in DOMAIN f : f[x] = s[y]
  BY <1>0, RearrangedFacts
<1>2. (\A x, y \in DOMAIN f : f[x] = f[y] => x = y) => (\A x, y \in DOMAIN s : s[x] = s[y] => x = y)
  BY <1>0, RearrangedFacts
<1>3. \A x, y \in DOMAIN s : s[x] = s[y] => x = y
  BY <1>2 DEF IsUnsorted
<1>4. Tells(s, f)
  BY <1>1 DEF Tells, SameAt
<1>5. \A p \in DOMAIN s : /\ s[p].text \in Seq(Int) /\ Len(s[p].text) = 10
                          /\ s[p].text[1] = Order(code, s[p]) /\ Order(code, s[p]) \in Nat
  BY <1>1 DEF IsUnsorted, IsReplayLine, Order
<1>6. Encoded(code, s)
  BY <1>1 DEF IsUnsorted, Encoded
<1>7. Comparable(L)
  BY <1>5, 10 \in Nat \ {0}, ComparableByLength
<1>8. s \in Seq(L)
  BY <1>0 DEF IsSeq, ItemsOf
<1> HIDE DEF L
<1>9. \A p \in DOMAIN s : p \in Nat
  BY <1>0, SequenceFacts
<1>10. ASSUME NEW p \in DOMAIN s, NEW q \in DOMAIN s, p < q
       PROVE  Order(code, s[p]) < Order(code, s[q])
  <2>1. ~Before(s[q], s[p])
    BY <1>0, <1>7, <1>8, <1>10, InOrderThroughout
  <2>2. ~(s[q].text[1] < s[p].text[1])
    <3>1. 1 \in Nat \ {0} /\ 1 <= Len(s[q].text) /\ 1 <= Len(s[p].text)
          /\ \A j \in 1 .. 1 - 1 : s[q].text[j] = s[p].text[j]
      BY <1>5
    <3> QED BY <1>5, <2>1, <3>1, BeforeAt
  <2>3. Order(code, s[p]) # Order(code, s[q])
    <3> SUFFICES ASSUME Order(code, s[p]) = Order(code, s[q]) PROVE FALSE
      OBVIOUS
    <3>1. s[p].identity = s[q].identity
      <4>1. \A x, y \in DOMAIN code : code[x] = code[y] => x = y
        BY IdentityAssumption
      <4> QED BY <1>6, <4>1 DEF Encoded, Order
    <3>2. PICK i \in DOMAIN f : f[i] = s[p]
      BY <1>1
    <3>3. PICK j \in DOMAIN f : f[j] = s[q]
      BY <1>1
    <3>4. i = j
      BY <3>1, <3>2, <3>3 DEF IsUnsorted
    <3>5. p = q
      BY <1>3, <3>2, <3>3, <3>4
    <3> QED BY <1>9, <1>10, <3>5
  <2> DEFINE x == Order(code, s[p]) y == Order(code, s[q])
  <2>4. x \in Nat /\ y \in Nat /\ ~(y < x) /\ x # y
    BY <1>5, <2>2, <2>3
  <2> HIDE DEF x, y
  <2>5. x < y
    BY <2>4
  <2> QED BY <2>5 DEF x, y
<1>11. IsIndex(code, s)
  BY <1>0, <1>6, <1>10 DEF IsIndex, Ascends
<1> QED BY <1>4, <1>11

LEMMA SourceIsUnsorted ==
  ASSUME NEW code \in Codes, NEW source \in Sources, Consistent(source.rows), NEW f,
         f = Spooled(code, "replay", source.rows, Len(source.rows))
  PROVE  /\ IsUnsorted(code, f) /\ DOMAIN f = DOMAIN source.rows
         /\ \A i \in DOMAIN f : /\ f[i].identity = RowIdentity(source.rows[i])
                                /\ f[i].hash = NormalizedHash(source.rows[i])
<1> DEFINE rows == source.rows n == Len(rows)
<1>1. n \in Nat /\ DOMAIN rows = 1 .. n /\ \A i \in DOMAIN rows : rows[i] \in CanonicalRow
  BY SourceFacts
<1>2. IsSeq(f) /\ DOMAIN f = 1 .. n /\ \A i \in 1 .. n : f[i] = SpooledLine(code, "replay", rows[i], i)
  BY <1>1, SpooledFacts
<1>3. ASSUME NEW i \in DOMAIN rows
      PROVE  IsReplayLine(code, f[i], RowIdentity(rows[i]), NormalizedHash(rows[i]))
  <2>1. f[i] = ReplayLine(code, RowIdentity(rows[i]), NormalizedHash(rows[i]), i) /\ i \in Nat
    BY <1>1, <1>2, SpooledLines
  <2> QED BY <2>1, ReplayLineOfRow
<1>4. \A i \in DOMAIN f : /\ f[i].identity = RowIdentity(rows[i])
                          /\ f[i].hash = NormalizedHash(rows[i])
  BY <1>1, <1>2, <1>3 DEF IsReplayLine
<1>5. \A i \in DOMAIN f : IsReplayLine(code, f[i], f[i].identity, f[i].hash)
  BY <1>1, <1>2, <1>3, <1>4
<1>6. ASSUME NEW i \in DOMAIN f
      PROVE  /\ f[i].identity \in DOMAIN code /\ code[f[i].identity] \in Nat
             /\ f[i].identity \in Seq(Nat) /\ Len(f[i].identity) = 2
  <2>1. i \in DOMAIN rows /\ f[i].identity = RowIdentity(rows[i])
    BY <1>1, <1>2, <1>4
  <2>2. RowIdentity(rows[i]) \in DOMAIN code /\ code[RowIdentity(rows[i])] \in Nat
    BY <2>1, IdentityAssumption
  <2>3. RowIdentity(rows[i]) \in Seq(Nat) /\ Len(RowIdentity(rows[i])) = 2
    BY <1>1, <2>1, IdentityFacts
  <2> QED BY <2>1, <2>2, <2>3
<1>7. \A i, j \in DOMAIN f : f[i].identity = f[j].identity => i = j
  BY <1>1, <1>2, <1>4, ConsistentIdentities
<1>8. IsUnsorted(code, f)
  BY <1>2, <1>5, <1>6, <1>7 DEF IsUnsorted, Encoded
<1> QED BY <1>1, <1>2, <1>4, <1>8

LEMMA ManifestIsUnsorted ==
  ASSUME NEW code \in Codes, NEW host, NEW m, ManifestFits(host, m), NEW f,
         f = ManifestLines(code, m.rows)
  PROVE  /\ IsUnsorted(code, f) /\ DOMAIN f = DOMAIN m.rows
         /\ \A j \in DOMAIN f : /\ f[j].identity = m.rows[j].identity
                                /\ f[j].hash = m.rows[j].hash
<1> DEFINE rows == m.rows source == m.source.rows
<1>1. /\ IsSeq(f) /\ DOMAIN f = DOMAIN rows
      /\ \A j \in DOMAIN f : IsReplayLine(code, f[j], rows[j].identity, rows[j].hash)
  BY ManifestLinesFacts
<1>2. \A j \in DOMAIN f : f[j].identity = rows[j].identity /\ f[j].hash = rows[j].hash
  BY <1>1 DEF IsReplayLine
<1>3. \A j \in DOMAIN f : IsReplayLine(code, f[j], f[j].identity, f[j].hash)
  BY <1>1, <1>2
<1>4. ASSUME NEW j \in DOMAIN f
      PROVE  /\ f[j].identity \in DOMAIN code /\ code[f[j].identity] \in Nat
             /\ f[j].identity \in Seq(Nat) /\ Len(f[j].identity) = 2
  <2>1. j \in DOMAIN rows /\ f[j].identity = rows[j].identity
    BY <1>1, <1>2
  <2>2. m.source \in Sources
    BY DEF ManifestFits
  <2>3. PICK i \in DOMAIN source : rows[j].identity = RowIdentity(source[i])
    BY <2>1 DEF ManifestFits, IsPlanOf
  <2>4. RowIdentity(source[i]) \in DOMAIN code /\ code[RowIdentity(source[i])] \in Nat
    BY <2>2, <2>3, IdentityAssumption
  <2>5. source[i] \in CanonicalRow
    BY <2>2, <2>3, SourceFacts
  <2>6. RowIdentity(source[i]) \in Seq(Nat) /\ Len(RowIdentity(source[i])) = 2
    BY <2>5, IdentityFacts
  <2> QED BY <2>1, <2>3, <2>4, <2>6
<1>5. \A i, j \in DOMAIN f : f[i].identity = f[j].identity => i = j
  BY <1>1, <1>2 DEF ManifestFits, IsPlanOf
<1>6. IsUnsorted(code, f)
  BY <1>1, <1>3, <1>4, <1>5 DEF IsUnsorted, Encoded
<1> QED BY <1>1, <1>2, <1>6

(* How the files differ is how the source and the manifest differ.         *)
LEMMA DifferencesTold ==
  ASSUME NEW f, NEW g, NEW rows, NEW planned,
         DOMAIN f = DOMAIN rows, DOMAIN g = DOMAIN planned,
         \A i \in DOMAIN f : f[i].identity = RowIdentity(rows[i]) /\ f[i].hash = NormalizedHash(rows[i]),
         \A j \in DOMAIN g : g[j].identity = planned[j].identity /\ g[j].hash = planned[j].hash,
         NEW x
  PROVE  x \in Differences(rows, planned) <=> IsDifference(x, f, g)
<1> DEFINE Of(i) == {j \in DOMAIN planned : planned[j].identity = RowIdentity(rows[i])}
           Found == UNION {Of(i) : i \in DOMAIN rows}
           A == {k \in DOMAIN rows : Of(k) = {}}
           B == {k \in DOMAIN rows : \E j \in Of(k) : planned[j].hash # NormalizedHash(rows[k])}
           C == DOMAIN planned \ Found
<1>1. A = NotIn(f, g)
  BY DEF NotIn
<1>2. B = Changed(f, g)
  BY DEF Changed
<1>3. C = NotIn(g, f)
  BY DEF NotIn
<1>4. Differences(rows, planned) =
        {[identity |-> RowIdentity(rows[i]), reason |-> "not_in_manifest"] : i \in A}
          \union {[identity |-> RowIdentity(rows[i]), reason |-> "changed_hash"] : i \in B}
          \union {[identity |-> planned[j].identity, reason |-> "missing_from_replay"] : j \in C}
  BY DEF Differences
<1>5. /\ \A i \in A : i \in DOMAIN f
      /\ \A i \in B : i \in DOMAIN f
      /\ \A j \in C : j \in DOMAIN g
  OBVIOUS
<1> HIDE DEF A, B, C
<1>6. /\ \A i \in A : [identity |-> RowIdentity(rows[i]), reason |-> "not_in_manifest"]
                        = Conflict(f[i], "not_in_manifest")
      /\ \A i \in B : [identity |-> RowIdentity(rows[i]), reason |-> "changed_hash"]
                        = Conflict(f[i], "changed_hash")
      /\ \A j \in C : [identity |-> planned[j].identity, reason |-> "missing_from_replay"]
                        = Conflict(g[j], "missing_from_replay")
  BY <1>5 DEF Conflict
<1>7. x \in Differences(rows, planned) <=>
        \/ \E i \in A : x = Conflict(f[i], "not_in_manifest")
        \/ \E i \in B : x = Conflict(f[i], "changed_hash")
        \/ \E j \in C : x = Conflict(g[j], "missing_from_replay")
  BY <1>4, <1>6
<1> QED BY <1>1, <1>2, <1>3, <1>7 DEF IsDifference

(* The conflicts of some lines of a file.                                  *)
ConflictsOf(s, places, reason) == {Conflict(s[p], reason) : p \in places}

(* Files that tell the same of two others differ as they do.               *)
LEMMA NotInTold ==
  ASSUME NEW s, NEW f, Tells(s, f), NEW t, NEW g, Tells(t, g), NEW reason
  PROVE  ConflictsOf(s, NotIn(s, t), reason) = ConflictsOf(f, NotIn(f, g), reason)
<1>1. ASSUME NEW p \in DOMAIN s, NEW i \in DOMAIN f, SameAt(s, p, f, i)
      PROVE  (p \in NotIn(s, t) <=> i \in NotIn(f, g)) /\ Conflict(s[p], reason) = Conflict(f[i], reason)
  <2>1. s[p].identity = f[i].identity
    BY <1>1 DEF SameAt
  <2>2. (\E q \in DOMAIN t : t[q].identity = s[p].identity)
          <=> (\E j \in DOMAIN g : g[j].identity = f[i].identity)
    BY <2>1 DEF Tells, SameAt
  <2> QED BY <2>1, <2>2 DEF NotIn, Conflict
<1>2. /\ \A p \in NotIn(s, t) : \E i \in DOMAIN f : SameAt(s, p, f, i)
      /\ \A i \in NotIn(f, g) : \E p \in DOMAIN s : SameAt(s, p, f, i)
      /\ NotIn(s, t) \subseteq DOMAIN s /\ NotIn(f, g) \subseteq DOMAIN f
  BY DEF Tells, NotIn
<1> QED BY <1>1, <1>2 DEF ConflictsOf

LEMMA ChangedTold ==
  ASSUME NEW s, NEW f, Tells(s, f), NEW t, NEW g, Tells(t, g), NEW reason
  PROVE  ConflictsOf(s, Changed(s, t), reason) = ConflictsOf(f, Changed(f, g), reason)
<1>1. ASSUME NEW p \in DOMAIN s, NEW i \in DOMAIN f, SameAt(s, p, f, i)
      PROVE  (p \in Changed(s, t) <=> i \in Changed(f, g)) /\ Conflict(s[p], reason) = Conflict(f[i], reason)
  <2>1. s[p].identity = f[i].identity /\ s[p].hash = f[i].hash
    BY <1>1 DEF SameAt
  <2>2. (\E q \in DOMAIN t : t[q].identity = s[p].identity /\ t[q].hash # s[p].hash)
          <=> (\E j \in DOMAIN g : g[j].identity = f[i].identity /\ g[j].hash # f[i].hash)
    BY <2>1 DEF Tells, SameAt
  <2> QED BY <2>1, <2>2 DEF Changed, Conflict
<1>2. /\ \A p \in Changed(s, t) : \E i \in DOMAIN f : SameAt(s, p, f, i)
      /\ \A i \in Changed(f, g) : \E p \in DOMAIN s : SameAt(s, p, f, i)
      /\ Changed(s, t) \subseteq DOMAIN s /\ Changed(f, g) \subseteq DOMAIN f
  BY DEF Tells, Changed
<1> QED BY <1>1, <1>2 DEF ConflictsOf

LEMMA DifferenceTold ==
  ASSUME NEW s, NEW f, Tells(s, f), NEW t, NEW g, Tells(t, g), NEW x
  PROVE  IsDifference(x, s, t) <=> IsDifference(x, f, g)
<1>1. ConflictsOf(s, NotIn(s, t), "not_in_manifest") = ConflictsOf(f, NotIn(f, g), "not_in_manifest")
  BY NotInTold
<1>2. ConflictsOf(s, Changed(s, t), "changed_hash") = ConflictsOf(f, Changed(f, g), "changed_hash")
  BY ChangedTold
<1>3. ConflictsOf(t, NotIn(t, s), "missing_from_replay")
        = ConflictsOf(g, NotIn(g, f), "missing_from_replay")
  BY NotInTold
<1>4. ASSUME NEW S, NEW T
      PROVE  IsDifference(x, S, T)
               <=> \/ x \in ConflictsOf(S, NotIn(S, T), "not_in_manifest")
                   \/ x \in ConflictsOf(S, Changed(S, T), "changed_hash")
                   \/ x \in ConflictsOf(T, NotIn(T, S), "missing_from_replay")
  BY Zenon DEF IsDifference, ConflictsOf
<1> QED BY <1>1, <1>2, <1>3, <1>4

(* Indexes without a difference tell the same.                             *)
LEMMA NoDifference ==
  ASSUME NEW code, NEW R, IsIndex(code, R), NEW M, IsIndex(code, M)
  PROVE  Tells(R, M) <=> \A x : ~IsDifference(x, R, M)
<1>1. ASSUME \A x : ~IsDifference(x, R, M) PROVE Tells(R, M)
  <2>1. NotIn(R, M) = {}
    <3> SUFFICES ASSUME NEW p \in NotIn(R, M) PROVE FALSE
      OBVIOUS
    <3>1. IsDifference(Conflict(R[p], "not_in_manifest"), R, M)
      BY DEF IsDifference
    <3> QED BY <1>1, <3>1, Zenon
  <2>2. Changed(R, M) = {}
    <3> SUFFICES ASSUME NEW p \in Changed(R, M) PROVE FALSE
      OBVIOUS
    <3>1. IsDifference(Conflict(R[p], "changed_hash"), R, M)
      BY DEF IsDifference
    <3> QED BY <1>1, <3>1, Zenon
  <2>3. NotIn(M, R) = {}
    <3> SUFFICES ASSUME NEW q \in NotIn(M, R) PROVE FALSE
      OBVIOUS
    <3>1. IsDifference(Conflict(M[q], "missing_from_replay"), R, M)
      BY DEF IsDifference
    <3> QED BY <1>1, <3>1, Zenon
  <2>4. ASSUME NEW p \in DOMAIN R PROVE \E q \in DOMAIN M : SameAt(R, p, M, q)
    <3>1. PICK q \in DOMAIN M : M[q].identity = R[p].identity
      BY <2>1 DEF NotIn
    <3>2. M[q].hash = R[p].hash
      BY <2>2, <3>1 DEF Changed
    <3> QED BY <3>1, <3>2 DEF SameAt
  <2>5. ASSUME NEW q \in DOMAIN M PROVE \E p \in DOMAIN R : SameAt(R, p, M, q)
    <3>1. PICK p \in DOMAIN R : R[p].identity = M[q].identity
      BY <2>3 DEF NotIn
    <3>2. M[q].hash = R[p].hash
      BY <2>2, <3>1 DEF Changed
    <3> QED BY <3>1, <3>2 DEF SameAt
  <2> QED BY <2>4, <2>5 DEF Tells
<1>2. ASSUME Tells(R, M), NEW x, IsDifference(x, R, M) PROVE FALSE
  <2>1. NotIn(R, M) = {} /\ NotIn(M, R) = {}
    BY <1>2 DEF NotIn, Tells, SameAt
  <2>2. Changed(R, M) = {}
    <3> SUFFICES ASSUME NEW p \in Changed(R, M) PROVE FALSE
      OBVIOUS
    <3>1. PICK q \in DOMAIN M : p \in DOMAIN R /\ M[q].identity = R[p].identity /\ M[q].hash # R[p].hash
      BY DEF Changed
    <3>2. PICK r \in DOMAIN M : SameAt(R, p, M, r)
      BY <1>2, <3>1 DEF Tells
    <3>3. q = r
      BY <3>1, <3>2, PlacesAreOne DEF SameAt
    <3> QED BY <3>1, <3>2, <3>3 DEF SameAt
  <2> QED BY <1>2, <2>1, <2>2 DEF IsDifference
<1> QED BY <1>1, <1>2

(***************************************************************************)
(* The beginning and the end of the loop.                                  *)
(***************************************************************************)
LEMMA MergeBegins ==
  ASSUME NEW code \in Codes, NEW R, IsIndex(code, R), NEW M, IsIndex(code, M)
  PROVE  MergesAt(code, R, M, 0, 0, R, M, <<>>)
<1>0. /\ IsSeq(R) /\ IsSeq(M) /\ Len(R) \in Nat /\ Len(M) \in Nat
      /\ \A p \in DOMAIN R : p \in Nat /\ p > 0
      /\ \A q \in DOMAIN M : q \in Nat /\ q > 0
  BY SequenceFacts DEF IsIndex
<1>1. LeftOf(R, R, 0) /\ LeftOf(M, M, 0)
  BY <1>0 DEF LeftOf
<1>2. AgreesSoFar(R, M, 0, 0, <<>>)
  BY DEF AgreesSoFar
<1>3. ExactSoFar(code, R, M, 0, 0, <<>>)
  <2>1. IsCut(code, R, M, 0, 0)
    <3> SUFFICES ASSUME NEW p \in DOMAIN R, NEW q \in DOMAIN M
                 PROVE  /\ p <= 0 /\ q > 0 => Order(code, R[p]) < Order(code, M[q])
                        /\ q <= 0 /\ p > 0 => Order(code, M[q]) < Order(code, R[p])
      BY DEF IsCut
    <3>1. p \in Nat /\ p > 0 /\ q \in Nat /\ q > 0
      BY <1>0
    <3>2. ~(p <= 0) /\ ~(q <= 0)
      BY <3>1
    <3> QED BY <3>2
  <2>2. Ascends(code, <<>>)
    BY EmptySequence DEF Ascends
  <2>3. \A x : IsDifference(x, R, M) => Awaits(x.identity, R, 0) \/ Awaits(x.identity, M, 0)
    BY <1>0, ConflictFacts DEF IsDifference, Awaits, NotIn, Changed
  <2>4. DOMAIN <<>> = {}
    BY EmptySequence
  <2> QED BY <2>1, <2>2, <2>3, <2>4 DEF ExactSoFar
<1> QED BY <1>1, <1>2, <1>3, EmptySequence DEF MergesAt

(* What has been found when both files are at their ends.                  *)
LEMMA MergeEnds ==
  ASSUME NEW code \in Codes, NEW R, IsIndex(code, R), NEW M, IsIndex(code, M), NEW a, NEW b,
         NEW found, MergesAt(code, R, M, a, b, <<>>, <<>>, found)
  PROVE  /\ IsSeq(found)
         /\ found = <<>> <=> \A x : ~IsDifference(x, R, M)
         /\ OrdersAgreeIn(code) =>
              /\ \A x : IsDifference(x, R, M) <=> \E i \in DOMAIN found : found[i] = x
              /\ \A i, j \in DOMAIN found : found[i] = found[j] => i = j
<1>0. IsSeq(R) /\ IsSeq(M)
  BY DEF IsIndex
<1>1. /\ a = Len(R) /\ b = Len(M) /\ IsSeq(found)
      /\ AgreesSoFar(R, M, a, b, found)
      /\ OrdersAgreeIn(code) => ExactSoFar(code, R, M, a, b, found)
  BY <1>0, LeftFacts DEF MergesAt
<1>2. found = <<>> <=> Tells(R, M)
  BY <1>1, AgreeAtTheEnd
<1>3. found = <<>> <=> \A x : ~IsDifference(x, R, M)
  BY <1>2, NoDifference
<1>4. ASSUME OrdersAgreeIn(code)
      PROVE  /\ \A x : IsDifference(x, R, M) <=> \E i \in DOMAIN found : found[i] = x
             /\ \A i, j \in DOMAIN found : found[i] = found[j] => i = j
  <2>1. ExactSoFar(code, R, M, Len(R), Len(M), found)
    BY <1>1, <1>4
  <2>2. \A y : ~Awaits(y, R, Len(R)) /\ ~Awaits(y, M, Len(M))
    BY <1>0, SequenceFacts DEF Awaits
  <2>3. \A x : IsDifference(x, R, M) <=> \E i \in DOMAIN found : found[i] = x
    BY <2>1, <2>2 DEF ExactSoFar
  <2>4. ASSUME NEW i \in DOMAIN found PROVE i \in Nat /\ Order(code, found[i]) \in Nat
    <3>1. IsDifference(found[i], R, M)
      BY <2>3
    <3>2. \/ \E p \in DOMAIN R : found[i].identity = R[p].identity
          \/ \E q \in DOMAIN M : found[i].identity = M[q].identity
      BY <3>1, ConflictFacts DEF IsDifference, NotIn, Changed
    <3>3. Order(code, found[i]) \in Nat
      BY <3>2 DEF Order, IsIndex, Encoded
    <3> QED BY <1>1, <3>3, SequenceFacts
  <2>5. ASSUME NEW i \in DOMAIN found, NEW j \in DOMAIN found, found[i] = found[j] PROVE i = j
    <3>1. /\ i < j => Order(code, found[i]) < Order(code, found[j])
          /\ j < i => Order(code, found[j]) < Order(code, found[i])
      BY <2>1 DEF ExactSoFar, Ascends
    <3>2. i \in Nat /\ j \in Nat /\ Order(code, found[i]) \in Nat
      BY <2>4
    <3> QED BY <2>5, <3>1, <3>2
  <2> QED BY <2>3, <2>5
<1> QED BY <1>1, <1>3, <1>4

(* A sequence without doubles has as many elements as places.              *)
LEMMA ElementsCounted ==
  ASSUME NEW s, IsSeq(s), \A i, j \in DOMAIN s : s[i] = s[j] => i = j
  PROVE  Len(s) = Cardinality({s[i] : i \in DOMAIN s})
<1> DEFINE T == {s[i] : i \in DOMAIN s}
<1>1. Len(s) \in Nat /\ DOMAIN s = 1 .. Len(s) /\ s = [i \in 1 .. Len(s) |-> s[i]]
  BY SequenceFacts
<1>2. IsFiniteSet(1 .. Len(s)) /\ Cardinality(1 .. Len(s)) = Len(s)
  <2>1. \A n \in Nat : IsFiniteSet(1 .. n) /\ Cardinality(1 .. n) = n
    BY FS_Interval
  <2> QED BY <1>1, <2>1
<1>3. /\ s \in [1 .. Len(s) -> T]
      /\ \A i, j \in 1 .. Len(s) : s[i] = s[j] => i = j
      /\ \A x \in T : \E i \in 1 .. Len(s) : s[i] = x
  BY <1>1
<1> HIDE DEF T
<1>4. s \in Bijection(1 .. Len(s), T)
  BY <1>3, Fun_IsBij
<1>5. Cardinality(T) = Cardinality(1 .. Len(s))
  BY <1>2, <1>4, FS_Bijection, Fun_ExistsBij
<1> QED BY <1>2, <1>5 DEF T

(***************************************************************************)
(* A replay merges the rows of its source and of the manifest.             *)
(***************************************************************************)
LEMMA ReplayMerges ==
  ASSUME NEW code \in Codes, NEW source \in Sources, Consistent(source.rows),
         NEW host, NEW m, ManifestFits(host, m),
         NEW R, Arranged(R, Spooled(code, "replay", source.rows, Len(source.rows))),
         NEW M, Arranged(M, ManifestLines(code, m.rows))
  PROVE  Merges(code, source.rows, m.rows, R, M, <<>>)
<1>1. /\ IsIndex(code, R)
      /\ Tells(R, Spooled(code, "replay", source.rows, Len(source.rows)))
  BY SourceIsUnsorted, SortedIsIndex
<1>2. IsIndex(code, M) /\ Tells(M, ManifestLines(code, m.rows))
  BY ManifestIsUnsorted, SortedIsIndex
<1> QED BY <1>1, <1>2, MergeBegins DEF Merges

(* When both files have been read, the replay has found whether they       *)
(* differ, and where the orders agree each difference once.                *)
LEMMA ReplayMerged ==
  ASSUME NEW code \in Codes, NEW source \in Sources, Consistent(source.rows),
         NEW host, NEW m, ManifestFits(host, m), NEW found,
         Merges(code, source.rows, m.rows, <<>>, <<>>, found)
  PROVE  /\ found = <<>> <=> Differences(source.rows, m.rows) = {}
         /\ OrdersAgreeIn(code) => Exact(found, source.rows, m.rows)
<1> DEFINE f == Spooled(code, "replay", source.rows, Len(source.rows))
           g == ManifestLines(code, m.rows)
           D == Differences(source.rows, m.rows)
<1>1. PICK R, M, a, b :
        /\ IsIndex(code, R) /\ Tells(R, f)
        /\ IsIndex(code, M) /\ Tells(M, g)
        /\ MergesAt(code, R, M, a, b, <<>>, <<>>, found)
  BY DEF Merges
<1>2. /\ DOMAIN f = DOMAIN source.rows
      /\ \A i \in DOMAIN f : /\ f[i].identity = RowIdentity(source.rows[i])
                             /\ f[i].hash = NormalizedHash(source.rows[i])
  BY SourceIsUnsorted
<1>3. /\ DOMAIN g = DOMAIN m.rows
      /\ \A j \in DOMAIN g : g[j].identity = m.rows[j].identity /\ g[j].hash = m.rows[j].hash
  BY ManifestIsUnsorted
<1> HIDE DEF f, g
<1>4. ASSUME NEW x PROVE x \in D <=> IsDifference(x, R, M)
  <2>1. x \in D <=> IsDifference(x, f, g)
    BY <1>2, <1>3, DifferencesTold
  <2>2. IsDifference(x, R, M) <=> IsDifference(x, f, g)
    BY <1>1, DifferenceTold
  <2> QED BY <2>1, <2>2
<1>5. /\ IsSeq(found)
      /\ found = <<>> <=> \A x : ~IsDifference(x, R, M)
      /\ OrdersAgreeIn(code) =>
           /\ \A x : IsDifference(x, R, M) <=> \E i \in DOMAIN found : found[i] = x
           /\ \A i, j \in DOMAIN found : found[i] = found[j] => i = j
  BY <1>1, MergeEnds
<1> HIDE DEF D
<1>6. found = <<>> <=> D = {}
  BY <1>4, <1>5
<1>7. ASSUME OrdersAgreeIn(code) PROVE Exact(found, source.rows, m.rows)
  <2>1. {found[i] : i \in DOMAIN found} = D
    BY <1>4, <1>5, <1>7
  <2>2. Len(found) = Cardinality({found[i] : i \in DOMAIN found})
    BY <1>5, <1>7, ElementsCounted
  <2> QED BY <2>1, <2>2 DEF Exact, D
<1> QED BY <1>6, <1>7 DEF D

(***************************************************************************)
(* Every step of an import keeps JoinInv.                                  *)
(***************************************************************************)
(* A step that is not of the loop, nor of the records.                     *)
LEMMA JoinIsAside ==
  ASSUME JoinInv, job'.stage \notin {"join", "record"},
         job'.stage = "cleanup" => job'.outcome \notin {"same", "quarantined"}
                                   \/ (job' = job),
         result' # None => result' = result,
         QuarantineIsTrue', \A q \in quarantine' : q.version \in Nat
  PROVE  JoinInv'
<1>1. job'.stage = "cleanup" => Decided(job'.op, job'.outcome, job'.source, job'.summary)
  BY DEF JoinInv, Decided
<1>2. result' # None => Decided(result'.op, result'.outcome, result'.source, result'.summary)
  BY DEF JoinInv
<1> QED BY <1>1, <1>2 DEF JoinInv

(* The records stay true while the rows of the manifest stay.              *)
LEMMA RecordsStay ==
  ASSUME JoinInv, ManifestInv, setting' = setting, quarantine' = quarantine,
         manifest = None \/ (/\ manifest' # None /\ manifest'.rows = manifest.rows
                             /\ manifest'.version \in Nat
                             /\ manifest'.version >= manifest.version)
  PROVE  QuarantineIsTrue' /\ \A q \in quarantine' : q.version \in Nat
<1>1. QuarantineIsTrue /\ \A q \in quarantine : q.version \in Nat
  BY DEF JoinInv
<1>2. manifest # None => manifest.version \in Nat
  BY DEF ManifestInv, ManifestFits
<1>3. OrdersAgree' <=> OrdersAgree
  BY DEF OrdersAgree
<1>4. QuarantineIsTrue'
  <2> SUFFICES ASSUME NEW q \in quarantine'
               PROVE  /\ manifest' # None /\ q.version <= manifest'.version
                      /\ OrdersAgree' => Exact(q.conflicts, q.source.rows, manifest'.rows)
    BY DEF QuarantineIsTrue
  <2>1. /\ manifest # None /\ q.version <= manifest.version /\ q.version \in Nat
        /\ OrdersAgree => Exact(q.conflicts, q.source.rows, manifest.rows)
    BY <1>1 DEF QuarantineIsTrue
  <2> QED BY <1>2, <1>3, <2>1
<1> QED BY <1>1, <1>4

LEMMA RecordsStayAsTheyAre ==
  ASSUME JoinInv, ManifestInv, setting' = setting, quarantine' = quarantine, manifest' = manifest
  PROVE  QuarantineIsTrue' /\ \A q \in quarantine' : q.version \in Nat
<1>1. manifest # None => manifest.version \in Nat /\ manifest.version >= manifest.version
  BY DEF ManifestInv, ManifestFits
<1> QED BY <1>1, RecordsStay

LEMMA KeepManifestRowsJoins ==
  ASSUME CallInv, SortInv, JoinInv, KeepManifestRows
  PROVE  JoinInv'
<1> DEFINE rows == job.source.rows code == setting.code
<1>0. JobInv /\ SpoolInv /\ ManifestInv
  BY DEF CallInv
<1>1. /\ job.stage = "existing" /\ sorting = "sorted" /\ GoTo("join")
      /\ spool' = [spool EXCEPT !.existing = sorted]
      /\ setting' = setting /\ manifest' = manifest /\ result' = result /\ quarantine' = quarantine
  BY WorldStays DEF KeepManifestRows, SortedFor, At, Rest, world
<1>2. IsReplaying /\ code \in Codes
  BY <1>0, <1>1, ReplayingFacts DEF ReplayStages, JobInv
<1>3. Became(job', job, "join", 0)
  BY <1>0, <1>1, Goes DEF JobInv
<1>4. /\ input = ManifestLines(code, job.summary.rows)
      /\ spool.conflicts = <<>> /\ AreFiles(spool)
      /\ Arranged(spool.rows, Spooled(code, "replay", rows, Len(rows))) /\ Consistent(rows)
  BY <1>0, <1>1 DEF SpoolInv, ManifestInv
<1>5. Arranged(sorted, ManifestLines(code, job.summary.rows))
  BY <1>0, <1>1, <1>4, InputIsSortable, SortedFacts
<1>6. Merges(code, rows, job.summary.rows, spool.rows, sorted, <<>>)
  BY <1>2, <1>4, <1>5, ReplayMerges DEF IsReplaying
<1>7. /\ spool'.rows = spool.rows /\ spool'.existing = sorted /\ spool'.conflicts = <<>>
  BY <1>1, <1>4 DEF AreFiles
<1>8. /\ job'.stage = "join" /\ job'.source = job.source /\ job'.summary = job.summary
  BY <1>3 DEF Became
<1>9. QuarantineIsTrue' /\ \A q \in quarantine' : q.version \in Nat
  BY <1>0, <1>1, RecordsStayAsTheyAre
<1>10. result' # None => Decided(result'.op, result'.outcome, result'.source, result'.summary)
  BY <1>1 DEF JoinInv
<1> QED BY <1>1, <1>4, <1>6, <1>7, <1>8, <1>9, <1>10 DEF JoinInv

(* What Join does to the files is a turn.                                  *)
LEMMA JoinTurns ==
  ASSUME Join, AreFiles(spool), IsSeq(spool.conflicts)
  PROVE  Turn(spool.rows, spool.existing, spool.conflicts,
              spool'.rows, spool'.existing, spool'.conflicts)
<1> DEFINE left == spool.rows
           right == spool.existing
           Found(c) == spool.conflicts \o c
<1>0. ASSUME NEW l, NEW r, NEW f, spool' = [spool EXCEPT !.rows = l, !.existing = r, !.conflicts = f]
      PROVE  spool'.rows = l /\ spool'.existing = r /\ spool'.conflicts = f
  <2>1. "rows" \in DOMAIN spool /\ "existing" \in DOMAIN spool /\ "conflicts" \in DOMAIN spool
    BY DEF AreFiles
  <2> QED BY <1>0, <2>1
<1>1. CASE ReplayAhead(left, right)
  <2>1. spool' = [spool EXCEPT !.rows = Tail(left), !.existing = right,
                    !.conflicts = Found(<<Conflict(Head(left), "not_in_manifest")>>)]
    BY <1>1 DEF Join
  <2>2. /\ spool'.rows = Tail(left) /\ spool'.existing = right
        /\ spool'.conflicts = Found(<<Conflict(Head(left), "not_in_manifest")>>)
    BY <1>0, <2>1, Zenon
  <2> QED BY <1>1, <2>2, Zenon DEF Turn
<1>2. CASE ~ReplayAhead(left, right) /\ ManifestAhead(left, right)
  <2>1. spool' = [spool EXCEPT !.rows = left, !.existing = Tail(right),
                    !.conflicts = Found(<<Conflict(Head(right), "missing_from_replay")>>)]
    BY <1>2 DEF Join
  <2>2. /\ spool'.rows = left /\ spool'.existing = Tail(right)
        /\ spool'.conflicts = Found(<<Conflict(Head(right), "missing_from_replay")>>)
    BY <1>0, <2>1, Zenon
  <2> QED BY <1>2, <2>2, Zenon DEF Turn
<1>3. CASE ~ReplayAhead(left, right) /\ ~ManifestAhead(left, right)
  <2>1. CASE Head(left).hash = Head(right).hash
    <3>1. spool' = [spool EXCEPT !.rows = Tail(left), !.existing = Tail(right),
                      !.conflicts = Found(<<>>)]
      BY <1>3, <2>1 DEF Join
    <3>2. spool'.rows = Tail(left) /\ spool'.existing = Tail(right) /\ spool'.conflicts = Found(<<>>)
      BY <1>0, <3>1, Zenon
    <3>3. Found(<<>>) = spool.conflicts
      BY NothingMore
    <3> QED BY <1>3, <2>1, <3>2, <3>3, Zenon DEF Turn
  <2>2. CASE Head(left).hash # Head(right).hash
    <3>1. spool' = [spool EXCEPT !.rows = Tail(left), !.existing = Tail(right),
                      !.conflicts = Found(<<Conflict(Head(left), "changed_hash")>>)]
      BY <1>3, <2>2 DEF Join
    <3>2. /\ spool'.rows = Tail(left) /\ spool'.existing = Tail(right)
          /\ spool'.conflicts = Found(<<Conflict(Head(left), "changed_hash")>>)
      BY <1>0, <3>1, Zenon
    <3> QED BY <1>3, <2>2, <3>2, Zenon DEF Turn
  <2> QED BY <2>1, <2>2
<1> QED BY <1>1, <1>2, <1>3

LEMMA JoinJoins ==
  ASSUME CallInv, JoinInv, Join
  PROVE  JoinInv'
<1> DEFINE rows == job.source.rows code == setting.code planned == job.summary.rows
<1>0. JobInv /\ SpoolInv /\ ManifestInv
  BY DEF CallInv
<1>1. /\ job.stage = "join" /\ job' = job /\ ~Exhausted
      /\ setting' = setting /\ manifest' = manifest /\ result' = result /\ quarantine' = quarantine
  BY WorldStays DEF Join, At, Leaves, Rest, world
<1>2. AreFiles(spool) /\ code \in Codes
  BY <1>0 DEF SpoolInv, JobInv
<1>3. Consistent(rows) /\ Merges(code, rows, planned, spool.rows, spool.existing, spool.conflicts)
  BY <1>1 DEF JoinInv
<1>4. PICK R, M, a, b :
        /\ IsIndex(code, R) /\ Tells(R, Spooled(code, "replay", rows, Len(rows)))
        /\ IsIndex(code, M) /\ Tells(M, ManifestLines(code, planned))
        /\ MergesAt(code, R, M, a, b, spool.rows, spool.existing, spool.conflicts)
  BY <1>3 DEF Merges
<1>5. IsSeq(spool.conflicts)
  BY <1>4 DEF MergesAt
<1>6. Turn(spool.rows, spool.existing, spool.conflicts,
           spool'.rows, spool'.existing, spool'.conflicts)
  BY <1>2, <1>5, JoinTurns
<1>7. spool.rows # <<>> \/ spool.existing # <<>>
  BY <1>1 DEF Exhausted
<1>8. \E c, d : MergesAt(code, R, M, c, d, spool'.rows, spool'.existing, spool'.conflicts)
  BY <1>2, <1>4, <1>6, <1>7, TurnKeeps
<1>9. Merges(code, rows, planned, spool'.rows, spool'.existing, spool'.conflicts)
  BY <1>4, <1>8 DEF Merges
<1>10. QuarantineIsTrue' /\ \A q \in quarantine' : q.version \in Nat
  BY <1>0, <1>1, RecordsStayAsTheyAre
<1>11. result' # None => Decided(result'.op, result'.outcome, result'.source, result'.summary)
  BY <1>1 DEF JoinInv
<1> QED BY <1>1, <1>3, <1>9, <1>10, <1>11 DEF JoinInv

(* What the loop has found, when it is at the ends of both files.          *)
LEMMA JoinedFacts ==
  ASSUME CallInv, JoinInv, job.stage \in {"join", "record"}, Exhausted
  PROVE  /\ spool.conflicts = <<>> <=> Differences(job.source.rows, job.summary.rows) = {}
         /\ OrdersAgree => Exact(spool.conflicts, job.source.rows, job.summary.rows)
<1> DEFINE rows == job.source.rows code == setting.code
<1>1. IsReplaying /\ code \in Codes
  BY ReplayingFacts DEF ReplayStages, JobInv, CallInv
<1>2. Consistent(rows) /\ Merges(code, rows, job.summary.rows, spool.rows, spool.existing, spool.conflicts)
  BY DEF JoinInv
<1>3. Merges(code, rows, job.summary.rows, <<>>, <<>>, spool.conflicts)
  BY <1>2 DEF Exhausted
<1>4. OrdersAgree <=> OrdersAgreeIn(code)
  BY DEF OrdersAgree, OrdersAgreeIn
<1>5. job.source \in Sources /\ ManifestFits(setting.host, job.summary)
  BY <1>1 DEF IsReplaying
<1>6. /\ spool.conflicts = <<>> <=> Differences(rows, job.summary.rows) = {}
      /\ OrdersAgreeIn(code) => Exact(spool.conflicts, rows, job.summary.rows)
  BY <1>1, <1>2, <1>3, <1>5, ReplayMerged
<1> QED BY <1>4, <1>6

LEMMA JoinEndJoins ==
  ASSUME CallInv, JoinInv, JoinEnd
  PROVE  JoinInv'
<1>0. JobInv /\ ManifestInv
  BY DEF CallInv
<1>1. /\ job.stage = "join" /\ Exhausted /\ spool' = spool
      /\ setting' = setting /\ manifest' = manifest /\ result' = result /\ quarantine' = quarantine
  BY WorldStays DEF JoinEnd, At, Leaves, Rest, world
<1>2. QuarantineIsTrue' /\ \A q \in quarantine' : q.version \in Nat
  BY <1>0, <1>1, RecordsStayAsTheyAre
<1>3. result' # None => Decided(result'.op, result'.outcome, result'.source, result'.summary)
  BY <1>1 DEF JoinInv
<1>4. CASE spool.conflicts = <<>>
  <2>1. /\ job'.stage = "cleanup" /\ job'.outcome = "same"
        /\ job'.source = job.source /\ job'.summary = job.summary
    BY <1>0, <1>4, Ends DEF JoinEnd, JobInv, Became
  <2>2. Differences(job.source.rows, job.summary.rows) = {}
    BY <1>1, <1>4, JoinedFacts
  <2>3. Decided(job'.op, job'.outcome, job'.source, job'.summary)
    BY <2>1, <2>2 DEF Decided
  <2> QED BY <1>2, <1>3, <2>1, <2>3 DEF JoinInv
<1>5. CASE spool.conflicts # <<>>
  <2>1. job'.stage = "record" /\ job'.source = job.source /\ job'.summary = job.summary
    BY <1>0, <1>5, Goes DEF JoinEnd, JobInv, Became
  <2>2. /\ Consistent(job.source.rows)
        /\ Merges(setting.code, job.source.rows, job.summary.rows,
                  spool.rows, spool.existing, spool.conflicts)
    BY <1>1 DEF JoinInv
  <2>3. Exhausted' /\ spool'.conflicts # <<>>
    BY <1>1, <1>5 DEF Exhausted
  <2> QED BY <1>1, <1>2, <1>3, <2>1, <2>2, <2>3 DEF JoinInv
<1> QED BY <1>4, <1>5

(* What is quarantined is told of the manifest in the store.               *)
LEMMA QuarantineJoins ==
  ASSUME CallInv, JoinInv, Quarantine
  PROVE  JoinInv'
<1> DEFINE record == [version |-> job.summary.version, source |-> job.source,
                      conflicts |-> spool.conflicts]
<1>0. JobInv /\ ManifestInv
  BY DEF CallInv
<1>1. /\ job.stage = "record" /\ spool' = spool
      /\ setting' = setting /\ manifest' = manifest /\ result' = result
  BY DEF Quarantine, At
<1>2. Exhausted /\ spool.conflicts # <<>>
  BY <1>1 DEF JoinInv
<1>3. /\ Differences(job.source.rows, job.summary.rows) # {}
      /\ OrdersAgree => Exact(spool.conflicts, job.source.rows, job.summary.rows)
  BY <1>1, <1>2, JoinedFacts
<1>4. result' # None => Decided(result'.op, result'.outcome, result'.source, result'.summary)
  BY <1>1 DEF JoinInv
<1>5. CASE SameManifest
  <2>1. End("quarantined") /\ quarantine' = quarantine \union {record}
    BY <1>5 DEF Quarantine
  <2>2. /\ job'.stage = "cleanup" /\ job'.outcome = "quarantined"
        /\ job'.source = job.source /\ job'.summary = job.summary
    BY <1>0, <2>1, Ends DEF JobInv, Became
  <2>3. Decided(job'.op, job'.outcome, job'.source, job'.summary)
    BY <1>3, <2>2 DEF Decided
  <2>4. IsReplaying
    BY <1>1, ReplayingFacts DEF ReplayStages
  <2>5. /\ manifest # None /\ manifest.version = job.summary.version
        /\ manifest.rows = job.summary.rows /\ job.summary.version \in Nat
    BY <1>5, <2>4 DEF SameManifest, IsReplaying, SummaryFits, ManifestFits
  <2>6. /\ record.version = manifest.version /\ record.version \in Nat
        /\ OrdersAgree => Exact(record.conflicts, record.source.rows, manifest.rows)
    BY <1>3, <2>5
  <2>7. QuarantineIsTrue /\ \A q \in quarantine : q.version \in Nat
    BY DEF JoinInv
  <2>8. OrdersAgree' <=> OrdersAgree
    BY <1>1 DEF OrdersAgree
  <2> HIDE DEF record
  <2>9. \A q \in quarantine' : q.version \in Nat
    BY <2>1, <2>6, <2>7
  <2>10. QuarantineIsTrue'
    <3> SUFFICES ASSUME NEW q \in quarantine'
                 PROVE  /\ manifest # None /\ q.version <= manifest.version
                        /\ OrdersAgree => Exact(q.conflicts, q.source.rows, manifest.rows)
      BY <1>1, <2>8 DEF QuarantineIsTrue
    <3>1. CASE q = record
      BY <2>5, <2>6, <3>1
    <3>2. CASE q \in quarantine
      BY <2>7, <3>2 DEF QuarantineIsTrue
    <3> QED BY <2>1, <3>1, <3>2
  <2> QED BY <1>4, <2>2, <2>3, <2>9, <2>10 DEF JoinInv
<1>6. CASE ~SameManifest
  <2>1. End("manifest_conflict") /\ quarantine' = quarantine
    BY <1>6 DEF Quarantine
  <2>2. job'.stage = "cleanup" /\ job'.outcome = "manifest_conflict"
    BY <1>0, <2>1, Ends DEF JobInv, Became
  <2>3. QuarantineIsTrue' /\ \A q \in quarantine' : q.version \in Nat
    BY <1>0, <1>1, <2>1, RecordsStayAsTheyAre
  <2> QED BY <1>1, <2>2, <2>3, JoinIsAside
<1> QED BY <1>5, <1>6

LEMMA CleanupJoins ==
  ASSUME CallInv, JoinInv, Cleanup
  PROVE  JoinInv'
<1>0. ManifestInv
  BY DEF CallInv
<1>1. /\ job.stage = "cleanup" /\ job' = NoJob
      /\ setting' = setting /\ manifest' = manifest /\ quarantine' = quarantine
      /\ result' = [source |-> job.source, outcome |-> job.outcome, op |-> job.op,
                    summary |-> job.summary, conflicts |-> spool.conflicts]
  BY DEF Cleanup, At
<1>2. job'.stage = "idle"
  BY <1>1 DEF NoJob
<1>3. Decided(job.op, job.outcome, job.source, job.summary)
  BY <1>1 DEF JoinInv
<1>4. Decided(result'.op, result'.outcome, result'.source, result'.summary)
  BY <1>1, <1>3
<1>5. QuarantineIsTrue' /\ \A q \in quarantine' : q.version \in Nat
  BY <1>0, <1>1, RecordsStayAsTheyAre
<1> QED BY <1>2, <1>4, <1>5 DEF JoinInv

(* A call before its loop goes to a stage before it, or ends with another  *)
(* outcome than a replay decides.                                          *)
LEMMA GoesAside ==
  ASSUME JobInv, NEW stage, GoTo(stage) \/ End(stage), stage \notin {"join", "record"},
         stage # "cleanup", stage # "same", stage # "quarantined"
  PROVE  /\ job'.stage \notin {"join", "record"}
         /\ job'.stage = "cleanup" => job'.outcome \notin {"same", "quarantined"}
<1>1. IsCall(job)
  BY DEF JobInv
<1>2. CASE GoTo(stage)
  BY <1>1, <1>2, Goes DEF Became
<1>3. CASE End(stage)
  BY <1>1, <1>3, Ends DEF Became
<1> QED BY <1>2, <1>3

LEMMA CallJoins ==
  ASSUME CallInv, JoinInv, NEW op \in Operations, NEW source \in Sources, Call(op, source)
  PROVE  JoinInv'
<1>0. ManifestInv
  BY DEF CallInv
<1>1. /\ setting' = setting /\ manifest' = manifest /\ quarantine' = quarantine /\ result' = None
      /\ job' = [NoJob EXCEPT !.op = op, !.source = source,
                  !.stage = IF op = "replay" THEN "summary"
                            ELSE IF op = "file" THEN "open" ELSE "parse"]
  BY DEF Call, world
<1>2. job'.stage \in {"summary", "open", "parse"}
  BY <1>1 DEF NoJob
<1>3. QuarantineIsTrue' /\ \A q \in quarantine' : q.version \in Nat
  BY <1>0, <1>1, RecordsStayAsTheyAre
<1> QED BY <1>1, <1>2, <1>3, JoinIsAside

LEMMA PlanRowJoins ==
  ASSUME CallInv, JoinInv, NEW id \in GeneratedIds, PlanRow(id)
  PROVE  JoinInv'
<1> DEFINE n == job.at + 1 row == spool.rows[n].row
           generates == NewListing(row) /\ row.facts.listingId = 0
           generated == IF generates THEN id ELSE IF NewListing(row) THEN 0 ELSE job.generated
<1>0. JobInv /\ ManifestInv
  BY DEF CallInv
<1>1. /\ job.stage = "plan" /\ Leaves
      /\ job' = [job EXCEPT !.at = n, !.listing = row.listing, !.generated = generated]
  BY DEF PlanRow, At
<1>2. setting' = setting /\ manifest' = manifest /\ quarantine' = quarantine /\ result' = result
  BY <1>1 DEF Leaves, Rest, world
<1> HIDE DEF n, row, generated
<1>3. job'.stage = "plan"
  BY <1>0, <1>1 DEF JobInv, IsCall
<1>4. QuarantineIsTrue' /\ \A q \in quarantine' : q.version \in Nat
  BY <1>0, <1>2, RecordsStayAsTheyAre
<1> QED BY <1>2, <1>3, <1>4, JoinIsAside

LEMMA CallsJoin ==
  ASSUME CallInv, JoinInv,
         \/ LoadSummary \/ CreateWorkspace \/ ParseRow \/ ParseEnd \/ ValidateIndex
         \/ PlanFromSorted \/ RefuseRow \/ PlanEnd \/ CheckGenerated
         \/ KeepReplayRows \/ StreamRows \/ SortThrows \/ Fault
  PROVE  JoinInv'
<1>0. JobInv /\ ManifestInv
  BY DEF CallInv
<1>1. /\ setting' = setting /\ manifest' = manifest /\ quarantine' = quarantine
      /\ result' # None => result' = result
  <2>2. CASE LoadSummary \/ ParseRow \/ ParseEnd \/ ValidateIndex \/ CreateWorkspace
    BY <2>2 DEF LoadSummary, ParseRow, ParseEnd, ValidateIndex, CreateWorkspace, Leaves, Rest, world
  <2>3. CASE PlanFromSorted \/ RefuseRow \/ PlanEnd \/ CheckGenerated
    BY <2>3 DEF PlanFromSorted, RefuseRow, PlanEnd, CheckGenerated, Leaves, Rest, world
  <2>4. CASE KeepReplayRows \/ StreamRows \/ SortThrows \/ Fault
    BY <2>4 DEF KeepReplayRows, StreamRows, SortThrows, Fault, Rest, world
  <2> QED BY <2>2, <2>3, <2>4
<1>2. QuarantineIsTrue' /\ \A q \in quarantine' : q.version \in Nat
  BY <1>0, <1>1, RecordsStayAsTheyAre
<1>3. /\ job'.stage \notin {"join", "record"}
      /\ job'.stage = "cleanup" => job'.outcome \notin {"same", "quarantined"}
  <2>2. CASE LoadSummary
    <3>1. CASE manifest = None
      BY <1>0, <2>2, <3>1, GoesAside DEF LoadSummary
    <3>2. CASE manifest # None
      BY <1>0, <2>2, <3>2 DEF LoadSummary, JobInv, IsCall
    <3> QED BY <3>1, <3>2
  <2>3. CASE CreateWorkspace
    BY <1>0, <2>3, GoesAside DEF CreateWorkspace
  <2>4. CASE ParseRow
    BY <1>0, <2>4 DEF ParseRow, At, JobInv, IsCall
  <2>5. CASE ParseEnd
    BY <1>0, <2>5, GoesAside DEF ParseEnd, SortSpool
  <2>6. CASE ValidateIndex
    BY <1>0, <2>6, GoesAside DEF ValidateIndex, SortSpool
  <2>7. CASE PlanFromSorted
    BY <1>0, <2>7, GoesAside DEF PlanFromSorted
  <2>9. CASE RefuseRow
    BY <1>0, <2>9, GoesAside DEF RefuseRow
  <2>10. CASE PlanEnd
    BY <1>0, <2>10, GoesAside DEF PlanEnd, SortSpool
  <2>11. CASE CheckGenerated
    BY <1>0, <2>11, GoesAside DEF CheckGenerated
  <2>12. CASE KeepReplayRows
    BY <1>0, <2>12, GoesAside DEF KeepReplayRows
  <2>13. CASE StreamRows
    BY <1>0, <2>13, GoesAside DEF StreamRows
  <2>14. CASE SortThrows \/ Fault
    BY <1>0, <2>14, GoesAside DEF SortThrows, Fault
  <2> QED
    BY <2>2, <2>3, <2>4, <2>5, <2>6, <2>7, <2>9, <2>10, <2>11, <2>12, <2>13, <2>14
<1> QED BY <1>1, <1>2, <1>3, JoinIsAside

(* A manifest is made where there was none, and so no record.              *)
LEMMA CommitJoins ==
  ASSUME CallInv, JoinInv, Commit
  PROVE  JoinInv'
<1>0. JobInv /\ ManifestInv
  BY DEF CallInv
<1>1. setting' = setting /\ quarantine' = quarantine /\ result' = result
  BY DEF Commit
<1>2. manifest' = manifest \/ manifest = None
  BY DEF Commit
<1>3. QuarantineIsTrue' /\ \A q \in quarantine' : q.version \in Nat
  BY <1>0, <1>1, <1>2, RecordsStay, RecordsStayAsTheyAre
<1>4. End("manifest_conflict") \/ End("planned")
  BY DEF Commit
<1>5. /\ job'.stage \notin {"join", "record"}
      /\ job'.stage = "cleanup" => job'.outcome \notin {"same", "quarantined"}
  BY <1>0, <1>4, GoesAside
<1> QED BY <1>1, <1>3, <1>5, JoinIsAside

LEMMA DieJoins ==
  ASSUME CallInv, JoinInv, Die
  PROVE  JoinInv'
<1>0. ManifestInv
  BY DEF CallInv
<1>1. /\ setting' = setting /\ manifest' = manifest /\ quarantine' = quarantine
      /\ job' = NoJob /\ result' = None
  BY DEF Die
<1>2. QuarantineIsTrue' /\ \A q \in quarantine' : q.version \in Nat
  BY <1>0, <1>1, RecordsStayAsTheyAre
<1>3. job'.stage = "idle"
  BY <1>1 DEF NoJob
<1> QED BY <1>1, <1>2, <1>3, JoinIsAside

(* The call stays where it is while its sort goes on or the host acts.     *)
LEMMA JoinStays ==
  ASSUME JoinInv, setting' = setting, job' = job, spool' = spool, result' = result,
         QuarantineIsTrue', \A q \in quarantine' : q.version \in Nat
  PROVE  JoinInv'
BY DEF JoinInv, Exhausted

LEMMA HostJoins ==
  ASSUME CallInv, JoinInv,
         Sorting \/ FaultInSort \/ Checkpoint \/ Discard \/ Reap \/ UNCHANGED vars
  PROVE  JoinInv'
<1>0. ManifestInv
  BY DEF CallInv
<1>1. setting' = setting /\ job' = job /\ spool' = spool /\ result' = result
  BY DEF Sorting, FaultInSort, Checkpoint, Discard, Reap, vars, Rest, world
<1>2. CASE Sorting \/ FaultInSort \/ Reap \/ UNCHANGED vars
  <2>1. manifest' = manifest /\ quarantine' = quarantine
    BY <1>2 DEF Sorting, FaultInSort, Reap, vars, Rest, world
  <2> QED BY <1>0, <1>1, <2>1, RecordsStayAsTheyAre, JoinStays
<1>3. CASE Checkpoint
  <2>1. manifest # None /\ quarantine' = quarantine
        /\ manifest' = [manifest EXCEPT !.version = @ + 1]
    BY <1>3 DEF Checkpoint
  <2>2. /\ manifest = [version |-> manifest.version, rows |-> manifest.rows, source |-> manifest.source]
        /\ manifest.version \in Nat
    BY <1>0, <2>1 DEF ManifestInv, ManifestFits
  <2>3. manifest'.rows = manifest.rows /\ manifest'.version = manifest.version + 1
    BY <2>1, <2>2
  <2>5. manifest' # None
    <3>1. /\ manifest.source \in Source /\ manifest.rows \in Seq(PlannedImportRow)
          /\ None \notin ImportManifest
      BY <1>0, <2>1, ImportAssumption DEF ManifestInv, ManifestFits, IsPlanOf
    <3>2. manifest' = [version |-> manifest.version + 1, rows |-> manifest.rows,
                       source |-> manifest.source]
      BY <2>1, <2>2
    <3>3. manifest' \in ImportManifest
      BY <2>2, <3>1, <3>2 DEF ImportManifest
    <3> QED BY <3>1, <3>3
  <2> QED BY <1>0, <1>1, <2>1, <2>2, <2>3, <2>5, RecordsStay, JoinStays
<1>4. CASE Discard
  <2>1. quarantine' = {}
    BY <1>4 DEF Discard
  <2>2. QuarantineIsTrue' /\ \A q \in quarantine' : q.version \in Nat
    BY <2>1 DEF QuarantineIsTrue
  <2> QED BY <1>1, <2>2, JoinStays
<1> QED BY <1>2, <1>3, <1>4

LEMMA JoinInvStep ==
  ASSUME ImportInv, JoinInv, [Next]_vars
  PROVE  JoinInv'
<1>0. CallInv /\ SortInv
  BY DEF ImportInv
<1>1. CASE \/ LoadSummary \/ CreateWorkspace \/ ParseRow \/ ParseEnd \/ ValidateIndex
           \/ PlanFromSorted \/ RefuseRow \/ PlanEnd \/ CheckGenerated
           \/ KeepReplayRows \/ StreamRows \/ SortThrows \/ Fault
  BY <1>0, <1>1, CallsJoin, Zenon
<1>5. CASE \/ \E op \in Operations, source \in Sources : Call(op, source)
           \/ \E id \in GeneratedIds : PlanRow(id)
  BY <1>0, <1>5, CallJoins, PlanRowJoins, Zenon
<1>2. CASE KeepManifestRows \/ Join \/ JoinEnd \/ Quarantine
  BY <1>0, <1>2, KeepManifestRowsJoins, JoinJoins, JoinEndJoins, QuarantineJoins, Zenon
<1>3. CASE Cleanup \/ Commit \/ Die
  BY <1>0, <1>3, CleanupJoins, CommitJoins, DieJoins, Zenon
<1>4. CASE Sorting \/ FaultInSort \/ Checkpoint \/ Discard \/ Reap \/ UNCHANGED vars
  BY <1>0, <1>4, HostJoins, Zenon
<1> QED BY <1>1, <1>2, <1>3, <1>4, <1>5 DEF Next, Step

(* At every turn of the loop over the two indexes, in whatever order they  *)
(* are, it has found nothing exactly if it has come across nothing; where  *)
(* the orders agree, what it has found and what it has still to read are   *)
(* all that differs.                                                       *)
THEOREM JoinsAreKept == Spec => [](ImportInv /\ JoinInv)
<1>1. Init => ImportInv /\ JoinInv
  <2> SUFFICES ASSUME Init PROVE JoinInv
    BY ImportInit
  <2>1. job.stage = "idle" /\ result = None /\ quarantine = {}
    BY DEF Init, NoJob
  <2> QED BY <2>1 DEF JoinInv, QuarantineIsTrue
<1>2. (ImportInv /\ JoinInv) /\ [Next]_vars => (ImportInv /\ JoinInv)'
  BY ImportInvStep, JoinInvStep
<1> QED BY <1>1, <1>2, PTL DEF Spec

(* A replay is the same exactly if its source and its manifest do not      *)
(* differ, although the loop compares texts in files that are in the order *)
(* of their encodings.                                                     *)
THEOREM ReplaysAreRight == Spec => []OutcomeIsRight
<1>1. ImportInv /\ JoinInv => OutcomeIsRight
  BY DEF JoinInv, Decided, OutcomeIsRight
<1> QED BY <1>1, JoinsAreKept, PTL

(* What is quarantined is of a version the manifest in the store has had,  *)
(* and, where the orders agree, is what differs, each difference once.     *)
THEOREM QuarantinesAreTrue == Spec => []QuarantineIsTrue
<1>1. ImportInv /\ JoinInv => QuarantineIsTrue
  BY DEF JoinInv
<1> QED BY <1>1, JoinsAreKept, PTL

(***************************************************************************)
(* The names of the runs, and the files that are open.                     *)
(***************************************************************************)
(* The merge loop is always where RunInv says.                             *)
THEOREM RunsAreKept == Spec => []RunInv
<1>1. Init => RunInv
  BY SortInvInit DEF Init, SortInv
<1>2. RunInv /\ [Next]_vars => RunInv'
  BY SortIsDriven, RunInvStep
<1> QED
  BY <1>1, <1>2, PTL DEF Spec

(* No file of a sort is created under a name that is taken, and the runs   *)
(* of a group are all there when they are merged or renamed, however many  *)
(* lines a spool has and however few fit a run.                            *)
THEOREM RunNamesAreFree == Spec => []NamesAreFree
<1>1. RunInv => NamesAreFree
  <2> SUFFICES ASSUME RunInv PROVE NamesAreFree
    OBVIOUS
  <2>1. ASSUME sorting = "reading" PROVE <<0, pass.active>> \notin DOMAIN runs
    BY <2>1 DEF RunInv, Collecting, Remaining, Made, PassType
  <2>2. ASSUME AtGroup PROVE Output \notin DOMAIN runs /\ Group \subseteq DOMAIN runs
    BY <2>2, GroupLeaves DEF RunInv, AtGroup
  <2> QED
    BY <2>1, <2>2 DEF NamesAreFree
<1> QED
  BY <1>1, RunsAreKept, PTL

(* A merge never has more files open than maxOpenFiles.                    *)
THEOREM SortBoundsDescriptors == Spec => []DescriptorsAreBounded
<1>1. RunInv => DescriptorsAreBounded
  <2> SUFFICES ASSUME RunInv, sorting = "merging", NEW i \in DOMAIN heads
               PROVE  i + 1 <= MaxOpenFiles
    BY DEF DescriptorsAreBounded
  <2>1. MergeHolds /\ pass \in PassType
    BY DEF RunInv
  <2>2. GroupSize \in Nat /\ GroupSize <= FanIn /\ i \in 1..GroupSize
    BY <2>1, GroupFits DEF MergeHolds
  <2> QED
    BY <2>2, FanInFits, SortAssumption
<1> QED
  BY <1>1, RunsAreKept, PTL

(***************************************************************************)
(* The workspace of a call.                                                *)
(***************************************************************************)
IsJob(j) ==
  j \in [op : {j.op}, source : {j.source}, stage : Stage, at : {j.at},
         summary : {j.summary}, listing : {j.listing}, generated : {j.generated},
         outcome : {j.outcome}]

(* Only pids that have lived have a workspace, and between two calls the   *)
(* process that lives has none.                                            *)
WorkInv ==
  /\ IsJob(job)
  /\ pid \in Nat \ {0} /\ workspaces \subseteq 1..pid
  /\ At("idle") => pid \notin workspaces
  /\ WorkspaceStays

(* The stages a call may be at before it has a workspace.                  *)
Early == {"idle", "cleanup", "summary", "open"}

LEMMA JobMoves ==
  ASSUME IsJob(job), NEW stage \in Stage
  PROVE  /\ GoTo(stage) => IsJob(job') /\ job'.stage = stage
         /\ \A o : End(o) => IsJob(job') /\ job'.stage = "cleanup"
<1>1. ASSUME GoTo(stage) PROVE IsJob(job') /\ job'.stage = stage
  BY <1>1 DEF GoTo, IsJob
<1>2. ASSUME NEW o, End(o) PROVE IsJob(job') /\ job'.stage = "cleanup"
  BY <1>2 DEF End, IsJob, Stage
<1> QED
  BY <1>1, <1>2

(* A call that moves on, with its workspace or towards one.                *)
LEMMA MovesOn ==
  ASSUME WorkInv, IsJob(job'), job'.stage # "idle",
         job'.stage \in Early \/ job.stage \notin Early,
         UNCHANGED <<setting, workspaces, pid>>
  PROVE  WorkInv'
<1>1. pid' \in Nat \ {0} /\ workspaces' \subseteq 1..pid' /\ (At("idle") => pid \notin workspaces)'
  BY DEF WorkInv, At
<1>2. WorkspaceStays'
  BY DEF WorkInv, WorkspaceStays, Working, Early
<1> QED
  BY <1>1, <1>2 DEF WorkInv

LEMMA StaysPut ==
  ASSUME WorkInv, UNCHANGED <<setting, workspaces, pid, job>>
  PROVE  WorkInv'
BY DEF WorkInv, WorkspaceStays, Working, At, IsJob

(* A call keeps its workspace from the step that creates it to the one     *)
(* that removes it.                                                        *)
LEMMA WorkInvStep ==
  ASSUME WorkInv, [Next]_vars
  PROVE  WorkInv'
<1> DEFINE still == UNCHANGED <<setting, workspaces, pid>>
<1>0. IsJob(job) /\ job.stage \in Stage
  BY DEF WorkInv, IsJob
<1>1. ASSUME NEW o, End(o), still PROVE WorkInv'
  <2>1. IsJob(job') /\ job'.stage = "cleanup"
    BY <1>0, <1>1, JobMoves
  <2> QED
    BY <1>1, <2>1, MovesOn DEF Early
<1>2. ASSUME NEW stage \in Stage \ {"idle"}, GoTo(stage), job.stage \notin Early, still
      PROVE  WorkInv'
  <2>1. IsJob(job') /\ job'.stage = stage
    BY <1>0, <1>2, JobMoves
  <2> QED
    BY <1>2, <2>1, MovesOn
<1>3. CASE LoadSummary
  <2>1. still /\ job.stage = "summary"
    BY <1>3 DEF LoadSummary, Leaves, Rest, world, At
  <2>2. CASE End("manifest_conflict")
    BY <1>1, <2>1, <2>2
  <2>3. CASE job' = [job EXCEPT !.summary = manifest, !.stage = "open"]
    <3>1. IsJob(job') /\ job'.stage = "open"
      BY <1>0, <2>3 DEF IsJob, Stage
    <3> QED
      BY <2>1, <3>1, MovesOn DEF Early
  <2> QED
    BY <1>3, <2>2, <2>3 DEF LoadSummary
<1>4. CASE CreateWorkspace
  <2>1. IsJob(job') /\ job'.stage = "parse"
    BY <1>0, <1>4, JobMoves DEF CreateWorkspace, Stage
  <2>2. pid' = pid /\ workspaces' = workspaces \union {pid}
    BY <1>4 DEF CreateWorkspace
  <2> QED
    BY <2>1, <2>2 DEF WorkInv, WorkspaceStays, At
<1>5. CASE ParseRow
  <2>1. still /\ job.stage = "parse" /\ job' = [job EXCEPT !.at = @ + 1]
    BY <1>5 DEF ParseRow, Leaves, Rest, world, At
  <2>2. IsJob(job') /\ job'.stage = "parse"
    BY <1>0, <2>1 DEF IsJob
  <2> QED
    BY <2>1, <2>2, MovesOn DEF Early
<1>6. CASE ParseEnd
  <2>1. still /\ job.stage \notin Early
    BY <1>6 DEF ParseEnd, Rest, world, At, Early
  <2>2. End("malformed_csv") \/ GoTo("plan") \/ GoTo("index")
    BY <1>6 DEF ParseEnd, SortSpool
  <2> QED
    BY <1>1, <1>2, <2>1, <2>2 DEF Stage
<1>7. CASE ValidateIndex
  <2>1. still /\ job.stage \notin Early
    BY <1>7 DEF ValidateIndex, SortedFor, Rest, world, At, Early
  <2>2. End("collision") \/ GoTo("rows")
    BY <1>7 DEF ValidateIndex, SortSpool
  <2> QED
    BY <1>1, <1>2, <2>1, <2>2 DEF Stage
<1>8. CASE PlanFromSorted \/ KeepReplayRows \/ KeepManifestRows
  <2>1. still /\ job.stage \notin Early
    BY <1>8 DEF PlanFromSorted, KeepReplayRows, KeepManifestRows, SortedFor, Rest, world, At, Early
  <2>2. GoTo("plan") \/ GoTo("stream") \/ GoTo("join")
    BY <1>8 DEF PlanFromSorted, KeepReplayRows, KeepManifestRows
  <2> QED
    BY <1>2, <2>1, <2>2 DEF Stage
<1>9. ASSUME NEW id \in GeneratedIds, PlanRow(id) PROVE WorkInv'
  <2>1. still /\ job.stage = "plan"
    BY <1>9 DEF PlanRow, Leaves, Rest, world, At
  <2>2. PICK a, l, g : job' = [job EXCEPT !.at = a, !.listing = l, !.generated = g]
    BY <1>9, Zenon DEF PlanRow
  <2>3. IsJob(job') /\ job'.stage = "plan"
    BY <1>0, <2>1, <2>2 DEF IsJob
  <2> QED
    BY <2>1, <2>3, MovesOn DEF Early
<1>10. CASE RefuseRow \/ Commit \/ SortThrows \/ Fault
  <2>1. still
    BY <1>10 DEF RefuseRow, Commit, SortThrows, Fault, Leaves, Rest, world
  <2>2. \E o : End(o)
    BY <1>10 DEF RefuseRow, Commit, SortThrows, Fault
  <2> QED
    BY <1>1, <2>1, <2>2
<1>11. CASE PlanEnd \/ CheckGenerated
  <2>1. still /\ job.stage \notin Early
    BY <1>11 DEF PlanEnd, CheckGenerated, SortedFor, Rest, world, At, Early
  <2>2. GoTo("commit") \/ GoTo("generated") \/ End("invalid_identity")
    BY <1>11 DEF PlanEnd, CheckGenerated, SortSpool
  <2> QED
    BY <1>1, <1>2, <2>1, <2>2 DEF Stage
<1>12. CASE StreamRows \/ JoinEnd
  <2>1. still /\ job.stage \notin Early
    BY <1>12 DEF StreamRows, JoinEnd, Leaves, Rest, world, At, Early
  <2>2. GoTo("existing") \/ GoTo("record") \/ \E o : End(o)
    BY <1>12 DEF StreamRows, JoinEnd
  <2> QED
    BY <1>1, <1>2, <2>1, <2>2 DEF Stage
<1>13. CASE Quarantine
  <2>1. still /\ \E o : End(o)
    BY <1>13 DEF Quarantine
  <2> QED
    BY <1>1, <2>1
<1>14. CASE Sorting \/ Join \/ FaultInSort \/ Checkpoint \/ Discard \/ UNCHANGED vars
  BY <1>14, StaysPut DEF Sorting, Join, FaultInSort, Checkpoint, Discard, Leaves, Rest, world, vars
<1>15. CASE Cleanup
  <2>1. pid' = pid /\ workspaces' = workspaces \ {pid} /\ job' = NoJob
    BY <1>15 DEF Cleanup
  <2>2. IsJob(job') /\ job'.stage = "idle"
    BY <2>1 DEF IsJob, NoJob, Stage
  <2> QED
    BY <2>1, <2>2 DEF WorkInv, WorkspaceStays, Working, At
<1>16. CASE Die
  <2>1. pid' = pid + 1 /\ workspaces' = workspaces /\ job' = NoJob
    BY <1>16 DEF Die
  <2>2. IsJob(job') /\ job'.stage = "idle"
    BY <2>1 DEF IsJob, NoJob, Stage
  <2> QED
    BY <2>1, <2>2 DEF WorkInv, WorkspaceStays, Working, At
<1>17. CASE Reap
  <2>1. /\ UNCHANGED <<pid, job, setting>> /\ workspaces' \subseteq workspaces
        /\ pid \in workspaces => pid \in workspaces'
    BY <1>17 DEF Reap, Abandoned
  <2> QED
    BY <2>1 DEF WorkInv, WorkspaceStays, Working, At
<1>18. ASSUME NEW op \in Operations, NEW source, Call(op, source) PROVE WorkInv'
  <2>1. still /\ job.stage = "idle"
    BY <1>18 DEF Call, world, At
  <2>2. job' = [NoJob EXCEPT !.op = op, !.source = source,
                 !.stage = IF op = "replay" THEN "summary"
                           ELSE IF op = "file" THEN "open" ELSE "parse"]
    BY <1>18 DEF Call
  <2>3. /\ IsJob(job') /\ job'.stage \in {"summary", "open", "parse"}
        /\ job'.stage = "parse" => op \notin {"file", "replay"}
    BY <2>2 DEF IsJob, NoJob, Stage
  <2>4. job'.stage = "parse" => setting.host # "file"
    BY <2>3 DEF Operations
  <2> QED
    BY <2>1, <2>3, <2>4 DEF WorkInv, WorkspaceStays, Working, At
<1> QED
  BY <1>3, <1>4, <1>5, <1>6, <1>7, <1>8, <1>9, <1>10, <1>11, <1>12, <1>13, <1>14, <1>15,
     <1>16, <1>17, <1>18 DEF Next, Step

(* Only pids that have lived have a workspace, and the importer has one    *)
(* only while a call runs, in every state.                                 *)
THEOREM WorkspacesAreOwned == Spec => []WorkInv
<1>1. Init => WorkInv
  <2> SUFFICES ASSUME Init PROVE WorkInv
    OBVIOUS
  <2>1. job = NoJob /\ workspaces = {} /\ pid = 1
    BY DEF Init
  <2> QED
    BY <2>1 DEF WorkInv, WorkspaceStays, Working, At, IsJob, NoJob, Stage
<1>2. WorkInv /\ [Next]_vars => WorkInv'
  BY WorkInvStep
<1> QED
  BY <1>1, <1>2, PTL DEF Spec

(* While a call reads, sorts, joins and commits, its workspace is there:   *)
(* it is never reaped, whoever opens the store in the meantime.            *)
THEOREM WorkspaceIsNotReaped == Spec => []WorkspaceStays
<1>1. WorkInv => WorkspaceStays
  BY DEF WorkInv
<1> QED
  BY <1>1, WorkspacesAreOwned, PTL

(* A call that has returned or thrown has removed its workspace, and a     *)
(* sort that has failed its runs.                                          *)
THEOREM CallsCleanUp == Spec => []NothingLeftBehind
<1>1. WorkInv /\ RunInv => NothingLeftBehind
  BY DEF WorkInv, RunInv, NothingLeftBehind
<1> QED
  BY <1>1, WorkspacesAreOwned, RunsAreKept, PTL
=============================================================================
