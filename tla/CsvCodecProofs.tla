---------------------------- MODULE CsvCodecProofs ----------------------------
(***************************************************************************)
(* The readers of CsvCodec read what the grammar of Rfc4180 says, for any  *)
(* documents, encoding of characters, chunks and limits.                   *)
(*                                                                         *)
(* The grammar speaks of whole documents, the parser of one character      *)
(* after the other.  So first the grammar is said a character at a time:   *)
(* what a text has of ended records, of ended fields and of an open field  *)
(* changes with a further character in one of three ways (InFieldStep,     *)
(* CommaStep, RowEndStep).  Reads then says for each state of the parser   *)
(* what text it has read, and a text at which the parser fails is Lost:    *)
(* nothing that follows makes a document of it.  CharacterStep shows that  *)
(* every character keeps this.  Bytes come in chunks, and the decoder does *)
(* not care where they are cut (DecodeMore); nor do the rows (TakenInParts)*)
(*                                                                         *)
(* Induction over texts is that of SeqInduction, for a set of texts.       *)
(***************************************************************************)
EXTENDS CsvCodec, FiniteSetTheorems, SequenceTheorems, WellFoundedInduction, TLAPS

(* A set of natural numbers has a least one.                               *)
LEMMA LeastElement ==
  ASSUME NEW T \in SUBSET Nat, T # {}
  PROVE  \E m \in T : \A k \in T : m <= k
<1> DEFINE below(m) == {k \in T : k < m}
           family == {below(m) : m \in T}
<1>0. \A k \in T : k \in Nat
  OBVIOUS
<1>1. ASSUME NEW m \in T PROVE IsFiniteSet(below(m))
  <2>1. \A k \in below(m) : k \in T /\ k < m
    OBVIOUS
  <2> HIDE DEF below
  <2>2. m \in Nat /\ below(m) \subseteq Nat
    BY <1>0, <2>1
  <2>3. \A k \in below(m) : k <= m
    BY <1>0, <2>1, <2>2
  <2> QED BY <2>2, <2>3, FS_BoundedSetOfNaturals
<1>2. family \subseteq FiniteSubsetsOf(Nat) /\ family # {}
  BY <1>1 DEF FiniteSubsetsOf
<1>3. PICK low \in family : \A s \in family : <<s, low>> \notin StrictSubsetOrdering(Nat)
  <2> HIDE DEF family
  <2> QED BY <1>2, FS_StrictSubsetOrderingWellFounded, WFMin
<1>4. PICK m \in T : low = below(m)
  OBVIOUS
<1>5. ASSUME NEW k \in T PROVE m <= k
  <2> SUFFICES ASSUME k < m PROVE FALSE
    OBVIOUS
  <2>1. below(k) \subseteq below(m) /\ k \in below(m) /\ k \notin below(k)
    <3>1. \A j \in T : j < k => j < m
      BY <1>0
    <3>2. ~(k < k)
      BY <1>0
    <3> QED BY <3>1, <3>2
  <2>2. <<below(k), below(m)>> \in StrictSubsetOrdering(Nat)
    BY <2>1 DEF StrictSubsetOrdering
  <2> QED BY <1>3, <1>4, <2>2
<1> QED BY <1>5

(* A function on the first places is a sequence.                           *)
LEMMA FunctionIsSeq ==
  ASSUME NEW S, NEW n \in Nat, NEW f \in [1 .. n -> S]
  PROVE  f \in Seq(S) /\ Len(f) = n /\ DOMAIN f = 1 .. n
OBVIOUS

(***************************************************************************)
(* Places in order.                                                        *)
(***************************************************************************)
UpTo(places, i) == {j \in places : j <= i}
PlacesTo(places, N) == N \in Nat /\ places \subseteq 1 .. N

(* Places are numbers, and there are finitely many.                        *)
LEMMA PlacesAreNumbers ==
  ASSUME NEW places, NEW N, PlacesTo(places, N)
  PROVE  /\ N \in Nat
         /\ \A i \in places : i \in Nat /\ i \in Int /\ 1 <= i /\ i <= N
         /\ IsFiniteSet(places) /\ Cardinality(places) \in Nat
<1>1. IsFiniteSet(1 .. N)
  BY FS_Interval DEF PlacesTo
<1>2. places \in SUBSET (1 .. N)
  BY DEF PlacesTo
<1>3. IsFiniteSet(places)
  BY <1>1, <1>2, FS_Subset
<1>4. N \in Nat /\ \A i \in places : i \in 1 .. N
  BY DEF PlacesTo
<1>5. \A i \in places : i \in Nat /\ i \in Int /\ 1 <= i /\ i <= N
  BY <1>4
<1> QED BY <1>3, <1>4, <1>5, FS_CardinalityType

(* So are those up to one of them.                                         *)
LEMMA UpToIsFinite ==
  ASSUME NEW places, NEW N, PlacesTo(places, N), NEW i
  PROVE  /\ IsFiniteSet(UpTo(places, i)) /\ Cardinality(UpTo(places, i)) \in Nat
         /\ Cardinality(UpTo(places, i)) <= Cardinality(places)
<1>1. \A j \in UpTo(places, i) : j \in places
  BY DEF UpTo
<1>2. UpTo(places, i) \in SUBSET places
  BY <1>1
<1> QED BY <1>2, PlacesAreNumbers, FS_Subset, FS_CardinalityType

(* One place further is at most one more, and one more if it is there.     *)
LEMMA UpToNext ==
  ASSUME NEW places, NEW N, PlacesTo(places, N), NEW i \in Int
  PROVE  /\ i \in places
              => Cardinality(UpTo(places, i)) = Cardinality(UpTo(places, i - 1)) + 1
         /\ i \notin places => UpTo(places, i) = UpTo(places, i - 1)
<1>1. \A j \in places : j \in Int
  BY PlacesAreNumbers
<1>2. \A j \in places : j <= i <=> j <= i - 1 \/ j = i
  BY <1>1
<1>3. ~(i <= i - 1)
  OBVIOUS
<1>4. ASSUME i \in places
      PROVE  Cardinality(UpTo(places, i)) = Cardinality(UpTo(places, i - 1)) + 1
  <2>1. UpTo(places, i) = UpTo(places, i - 1) \cup {i}
    BY <1>2, <1>4 DEF UpTo
  <2>2. i \notin UpTo(places, i - 1)
    BY <1>3 DEF UpTo
  <2> QED BY <2>1, <2>2, UpToIsFinite, FS_AddElement
<1>5. ASSUME i \notin places PROVE UpTo(places, i) = UpTo(places, i - 1)
  BY <1>2, <1>5 DEF UpTo
<1> QED BY <1>4, <1>5

(* Two places of a set do not have the same number.                        *)
LEMMA UpToTells ==
  ASSUME NEW places, NEW N, PlacesTo(places, N),
         NEW i \in places, NEW j \in places, i < j
  PROVE  Cardinality(UpTo(places, i)) < Cardinality(UpTo(places, j))
<1>0. i \in Int /\ j \in Int /\ j - 1 \in Int
  BY PlacesAreNumbers
<1>1. \A x \in places : x <= i => x <= j - 1
  BY <1>0, PlacesAreNumbers
<1>2. \A x \in UpTo(places, i) : x \in UpTo(places, j - 1)
  BY <1>1 DEF UpTo
<1>3. Cardinality(UpTo(places, i)) <= Cardinality(UpTo(places, j - 1))
  <2>1. UpTo(places, i) \in SUBSET UpTo(places, j - 1)
    BY <1>2
  <2> QED BY <2>1, UpToIsFinite, FS_Subset
<1>4. Cardinality(UpTo(places, j)) = Cardinality(UpTo(places, j - 1)) + 1
  BY <1>0, UpToNext
<1>5. /\ Cardinality(UpTo(places, i)) \in Nat
      /\ Cardinality(UpTo(places, j - 1)) \in Nat
  BY UpToIsFinite
<1> QED BY <1>3, <1>4, <1>5

(* A place is the one with as many places up to it.                        *)
LEMMA NthIs ==
  ASSUME NEW places, NEW N, PlacesTo(places, N), NEW i \in places
  PROVE  Nth(places, Cardinality(UpTo(places, i))) = i
<1> DEFINE k == Cardinality(UpTo(places, i))
<1>1. \A j \in places : Cardinality(UpTo(places, j)) = k => j = i
  <2> SUFFICES ASSUME NEW j \in places, Cardinality(UpTo(places, j)) = k, j # i
               PROVE  FALSE
    OBVIOUS
  <2>1. i < j \/ j < i
    BY PlacesAreNumbers
  <2>2. k \in Nat /\ ~(k < k)
    BY UpToIsFinite
  <2> HIDE DEF k
  <2>3. Cardinality(UpTo(places, i)) = k
    BY DEF k
  <2>4. CASE i < j
    BY <2>2, <2>3, <2>4, UpToTells
  <2>5. CASE j < i
    BY <2>2, <2>3, <2>5, UpToTells
  <2> QED BY <2>1, <2>4, <2>5
<1>2. Nth(places, k) = CHOOSE j \in places : Cardinality(UpTo(places, j)) = k
  BY DEF Nth, UpTo
<1> HIDE DEF k
<1>3. Cardinality(UpTo(places, i)) = k
  BY DEF k
<1>4. Nth(places, k) = i
  BY <1>1, <1>2, <1>3
<1> QED BY <1>4 DEF k

(* There is a k-th place for every k up to how many there are.             *)
LEMMA NthIsThere ==
  ASSUME NEW places, NEW N, PlacesTo(places, N),
         NEW k \in 1 .. Cardinality(places)
  PROVE  /\ Nth(places, k) \in places
         /\ Cardinality(UpTo(places, Nth(places, k))) = k
<1> DEFINE enough == {i \in Nat : Cardinality(UpTo(places, i)) >= k}
<1>0. k \in Nat /\ k >= 1 /\ k <= Cardinality(places) /\ N \in Nat
  BY PlacesAreNumbers
<1>1. N \in enough
  <2>1. UpTo(places, N) = places
    BY PlacesAreNumbers DEF UpTo
  <2>2. Cardinality(places) \in Nat
    BY PlacesAreNumbers
  <2> QED BY <1>0, <2>1, <2>2
<1>2. PICK i \in enough : \A j \in enough : i <= j
  <2> HIDE DEF enough
  <2>1. enough # {} /\ enough \in SUBSET Nat
    BY <1>1 DEF enough
  <2> QED BY <2>1, LeastElement
<1>3. i \in Nat /\ i # 0
  <2>1. \A x \in places : ~(x <= 0)
    BY PlacesAreNumbers
  <2>2. UpTo(places, 0) = {}
    BY <2>1 DEF UpTo
  <2>3. Cardinality(UpTo(places, 0)) = 0
    BY <2>2, FS_EmptySet
  <2>4. 0 \notin enough
    BY <1>0, <2>3
  <2> QED BY <2>4
<1>4. Cardinality(UpTo(places, i - 1)) < k
  <2>1. i - 1 \in Nat /\ ~(i <= i - 1)
    BY <1>3
  <2>2. i - 1 \notin enough
    BY <1>2, <2>1
  <2>3. Cardinality(UpTo(places, i - 1)) \in Nat
    BY UpToIsFinite
  <2> QED BY <1>0, <2>1, <2>2, <2>3
<1>5. i \in places /\ Cardinality(UpTo(places, i)) = k
  <2>1. Cardinality(UpTo(places, i)) >= k
    BY <1>2
  <2>2. Cardinality(UpTo(places, i - 1)) \in Nat /\ Cardinality(UpTo(places, i)) \in Nat
    BY UpToIsFinite
  <2>3. i \in Int
    BY <1>3
  <2>4. i \in places
    <3> SUFFICES ASSUME i \notin places PROVE FALSE
      OBVIOUS
    <3>1. UpTo(places, i) = UpTo(places, i - 1)
      BY <2>3, UpToNext
    <3> QED BY <1>0, <1>4, <2>1, <2>2, <3>1
  <2>5. Cardinality(UpTo(places, i)) = Cardinality(UpTo(places, i - 1)) + 1
    BY <2>3, <2>4, UpToNext
  <2> QED BY <1>0, <1>4, <2>1, <2>2, <2>4, <2>5
<1> QED BY <1>5, NthIs

(* A place after all the others is the last, and the others stay.          *)
LEMMA NthWithLast ==
  ASSUME NEW places, NEW N, PlacesTo(places, N), NEW m \in Nat, m > 0,
         \A i \in places : i < m
  PROVE  /\ Cardinality(places) \in Nat
         /\ PlacesTo(places \cup {m}, IF m > N THEN m ELSE N)
         /\ Cardinality(places \cup {m}) = Cardinality(places) + 1
         /\ Nth(places \cup {m}, Cardinality(places) + 1) = m
         /\ \A k \in 1 .. Cardinality(places) :
              Nth(places \cup {m}, k) = Nth(places, k)
<1> DEFINE more == places \cup {m}
           n == Cardinality(places)
           M == IF m > N THEN m ELSE N
<1>0. N \in Nat /\ \A i \in places : i \in Nat /\ 1 <= i /\ i <= N
  BY PlacesAreNumbers
<1>1. M \in Nat /\ \A i \in more : i \in 1 .. M
  <2>1. M \in Nat /\ N <= M /\ m <= M
    BY <1>0
  <2> HIDE DEF M
  <2>2. m \in 1 .. M
    BY <2>1
  <2>3. \A i \in places : i \in 1 .. M
    BY <1>0, <2>1
  <2> QED BY <2>1, <2>2, <2>3
<1>2. PlacesTo(more, M)
  <2> HIDE DEF more, M
  <2> QED BY <1>1 DEF PlacesTo
<1>3. m \notin places
  BY <1>0
<1>4. IsFiniteSet(places) /\ n \in Nat /\ Cardinality(more) = n + 1
  BY <1>3, PlacesAreNumbers, FS_AddElement
<1>5. m \in more /\ UpTo(more, m) = more
  <2>1. \A i \in more : i <= m
    BY <1>0
  <2> QED BY <2>1 DEF UpTo
<1>6. Nth(more, n + 1) = m
  <2> HIDE DEF M, more
  <2> QED BY <1>2, <1>4, <1>5, NthIs
<1>7. ASSUME NEW k \in 1 .. n PROVE Nth(more, k) = Nth(places, k)
  <2> DEFINE i == Nth(places, k)
  <2>1. i \in places /\ Cardinality(UpTo(places, i)) = k
    BY NthIsThere
  <2> HIDE DEF i
  <2>2. ~(m <= i)
    BY <1>0, <2>1
  <2>3. UpTo(more, i) = UpTo(places, i)
    BY <2>2 DEF UpTo
  <2>4. i \in more
    BY <2>1
  <2> HIDE DEF more, M
  <2>5. Nth(more, Cardinality(UpTo(more, i))) = i
    BY <1>2, <2>4, NthIs
  <2> QED BY <2>1, <2>3, <2>5 DEF i
<1> QED BY <1>2, <1>4, <1>6, <1>7

(***************************************************************************)
(* Texts one character longer.                                             *)
(***************************************************************************)
(* A part of a sequence, place by place.                                   *)
LEMMA SubSeqIs ==
  ASSUME NEW S, NEW s \in Seq(S), NEW a \in Nat, a >= 1, NEW b \in Int, b <= Len(s)
  PROVE  /\ SubSeq(s, a, b) \in Seq(S)
         /\ Len(SubSeq(s, a, b)) = IF a <= b THEN b - a + 1 ELSE 0
         /\ \A i \in 1 .. b - a + 1 : SubSeq(s, a, b)[i] = s[a + i - 1]
<1>1. \A i \in a .. b : i \in 1 .. Len(s)
  OBVIOUS
<1>2. \A i \in a .. b : s[i] \in S
  BY <1>1, ElementOfSeq
<1> QED BY <1>2, SubSeqProperties

(* A part that ends before the last.                                       *)
LEMMA SubSeqOfAppend ==
  ASSUME NEW S, NEW s \in Seq(S), NEW c \in S, NEW a \in Nat, a >= 1,
         NEW b \in Int, b <= Len(s)
  PROVE  SubSeq(Append(s, c), a, b) = SubSeq(s, a, b)
<1> DEFINE t == Append(s, c)
<1>1. t \in Seq(S) /\ Len(t) = Len(s) + 1 /\ \A i \in 1 .. Len(s) : t[i] = s[i]
  BY AppendProperties
<1>2. Len(s) \in Nat
  BY LenProperties
<1> HIDE DEF t
<1> DEFINE u == SubSeq(t, a, b)
           v == SubSeq(s, a, b)
<1>3. /\ u \in Seq(S) /\ Len(u) = IF a <= b THEN b - a + 1 ELSE 0
      /\ \A i \in 1 .. b - a + 1 : u[i] = t[a + i - 1]
  BY <1>1, <1>2, SubSeqIs
<1>4. /\ v \in Seq(S) /\ Len(v) = IF a <= b THEN b - a + 1 ELSE 0
      /\ \A i \in 1 .. b - a + 1 : v[i] = s[a + i - 1]
  BY SubSeqIs
<1> HIDE DEF u, v
<1>5. ASSUME NEW i \in 1 .. Len(u) PROVE u[i] = v[i]
  <2>1. i \in 1 .. b - a + 1 /\ a + i - 1 \in 1 .. Len(s)
    BY <1>2, <1>3
  <2> QED BY <2>1, <1>1, <1>3, <1>4
<1>6. u = v
  BY <1>3, <1>4, <1>5, SeqEqual
<1> QED BY <1>6 DEF u, v, t

(* A part that goes to the end.                                            *)
LEMMA SubSeqToTheEnd ==
  ASSUME NEW S, NEW s \in Seq(S), NEW c \in S, NEW a \in 1 .. Len(s) + 1
  PROVE  SubSeq(Append(s, c), a, Len(s) + 1) = Append(SubSeq(s, a, Len(s)), c)
<1> DEFINE t == Append(s, c)
           e == Len(s)
<1>1. /\ t \in Seq(S) /\ Len(t) = e + 1 /\ t[e + 1] = c
      /\ \A i \in 1 .. e : t[i] = s[i]
  BY AppendProperties
<1>2. e \in Nat /\ a \in Nat /\ a >= 1 /\ a <= e + 1
  BY LenProperties
<1> DEFINE u == SubSeq(t, a, e + 1)
           v == SubSeq(s, a, e)
           w == Append(v, c)
           m == e - a + 1
<1> HIDE DEF t, e
<1>m. m \in Nat /\ e + 1 - a + 1 = m + 1
  BY <1>2
<1> HIDE DEF m
<1>3. /\ u \in Seq(S) /\ Len(u) = m + 1
      /\ \A i \in 1 .. m + 1 : u[i] = t[a + i - 1]
  <2>1. /\ u \in Seq(S) /\ Len(u) = IF a <= e + 1 THEN e + 1 - a + 1 ELSE 0
        /\ \A i \in 1 .. e + 1 - a + 1 : u[i] = t[a + i - 1]
    BY <1>1, <1>2, SubSeqIs
  <2> QED BY <1>2, <1>m, <2>1
<1>4. /\ v \in Seq(S) /\ Len(v) = m
      /\ \A i \in 1 .. m : v[i] = s[a + i - 1]
  <2>1. e = Len(s)
    BY DEF e
  <2>2. /\ v \in Seq(S) /\ Len(v) = IF a <= e THEN m ELSE 0
        /\ \A i \in 1 .. m : v[i] = s[a + i - 1]
    BY <1>2, <2>1, SubSeqIs DEF m
  <2>3. ~(a <= e) => m = 0
    BY <1>2 DEF m
  <2> HIDE DEF v
  <2> QED BY <2>2, <2>3
<1>v. v \in Seq(S)
  BY <1>4
<1> HIDE DEF v
<1>5. /\ w \in Seq(S) /\ Len(w) = Len(v) + 1 /\ w[Len(v) + 1] = c
      /\ \A i \in 1 .. Len(v) : w[i] = v[i]
  BY <1>v, AppendProperties
<1> HIDE DEF u, w
<1>6. ASSUME NEW i \in 1 .. m + 1 PROVE u[i] = w[i]
  <2>1. CASE i = m + 1
    <3>1. a + i - 1 = e + 1
      BY <1>2, <2>1 DEF m
    <3> QED BY <3>1, <2>1, <1>1, <1>3, <1>4, <1>5
  <2>2. CASE i # m + 1
    <3>1. a + i - 1 \in 1 .. e /\ i \in 1 .. m
      BY <1>2, <1>m, <2>2 DEF m
    <3> QED BY <3>1, <1>1, <1>3, <1>4, <1>5
  <2> QED BY <2>1, <2>2
<1>7. Len(u) = Len(w) /\ Len(u) = m + 1
  BY <1>3, <1>4, <1>5
<1>8. u = w
  BY <1>3, <1>5, <1>6, <1>7, SeqEqual
<1> QED BY <1>8 DEF u, v, w, t, e

(***************************************************************************)
(* Whether a text has an even number of quotes.                            *)
(***************************************************************************)
Even(t) == Outside(t, Len(t) + 1)
QuotesUpTo(t, n) == {j \in 1 .. n : t[j] = Quote}

(* Quotes can be counted.                                                  *)
LEMMA QuotesAreFinite ==
  ASSUME NEW t, NEW n \in Int
  PROVE  IsFiniteSet(QuotesUpTo(t, n)) /\ Cardinality(QuotesUpTo(t, n)) \in Nat
<1>1. IsFiniteSet(1 .. n)
  BY FS_Interval
<1>2. QuotesUpTo(t, n) \in SUBSET (1 .. n)
  BY DEF QuotesUpTo
<1> QED BY <1>1, <1>2, FS_Subset, FS_CardinalityType

(* Nothing has an even number of quotes.                                   *)
LEMMA EvenOfNothing == Even(<<>>)
<1>1. QuotesUpTo(<<>>, 0) = {}
  BY DEF QuotesUpTo
<1>2. Cardinality(QuotesUpTo(<<>>, 0)) = 0
  BY <1>1, FS_EmptySet
<1>3. QuotesBefore(<<>>, 1) = 0
  BY <1>2 DEF QuotesBefore, QuotesUpTo
<1> QED BY <1>3 DEF Even, Outside

(* Before a place of the text, what follows does not count.                *)
LEMMA OutsideOfAppend ==
  ASSUME NEW S, NEW s \in Seq(S), NEW c \in S, NEW i \in 1 .. Len(s) + 1
  PROVE  /\ QuotesBefore(Append(s, c), i) = QuotesBefore(s, i)
         /\ Outside(Append(s, c), i) <=> Outside(s, i)
<1> DEFINE t == Append(s, c)
<1>1. \A j \in 1 .. Len(s) : t[j] = s[j]
  BY AppendProperties
<1>2. Len(s) \in Nat
  BY LenProperties
<1> HIDE DEF t
<1>3. \A j \in 1 .. i - 1 : j \in 1 .. Len(s)
  BY <1>2
<1>4. {j \in 1 .. i - 1 : t[j] = Quote} = {j \in 1 .. i - 1 : s[j] = Quote}
  BY <1>1, <1>3
<1>5. QuotesBefore(t, i) = QuotesBefore(s, i)
  BY <1>4 DEF QuotesBefore
<1> QED BY <1>5 DEF t, Outside

(* A quote more turns even and odd.                                        *)
LEMMA EvenOfAppend ==
  ASSUME NEW S, NEW s \in Seq(S), NEW c \in S
  PROVE  Even(Append(s, c)) <=> (Even(s) <=> c # Quote)
<1> DEFINE t == Append(s, c)
           n == Len(s)
<1>1. /\ t \in Seq(S) /\ Len(t) = n + 1 /\ t[n + 1] = c
      /\ \A j \in 1 .. n : t[j] = s[j]
  BY AppendProperties
<1>2. n \in Nat
  BY LenProperties
<1> HIDE DEF t, n
<1>3. \A j \in 1 .. n + 1 : j \in 1 .. n \/ j = n + 1
  BY <1>2
<1>4. n + 1 \notin 1 .. n /\ n + 1 \in 1 .. n + 1 /\ \A j \in 1 .. n : j \in 1 .. n + 1
  BY <1>2
<1>5. IsFiniteSet(QuotesUpTo(s, n)) /\ Cardinality(QuotesUpTo(s, n)) \in Nat
  BY <1>2, QuotesAreFinite
<1>6. QuotesBefore(s, n + 1) = Cardinality(QuotesUpTo(s, n))
  <2>1. (n + 1) - 1 = n
    BY <1>2
  <2>2. QuotesBefore(s, n + 1) = Cardinality(QuotesUpTo(s, (n + 1) - 1))
    BY DEF QuotesBefore, QuotesUpTo
  <2> QED BY <2>1, <2>2
<1>7. QuotesBefore(t, n + 2) = Cardinality(QuotesUpTo(t, n + 1))
  <2>1. (n + 2) - 1 = n + 1
    BY <1>2
  <2>2. QuotesBefore(t, n + 2) = Cardinality(QuotesUpTo(t, (n + 2) - 1))
    BY DEF QuotesBefore, QuotesUpTo
  <2> QED BY <2>1, <2>2
<1>8. Even(t) <=> Cardinality(QuotesUpTo(t, n + 1)) % 2 = 0
  <2>1. Len(t) + 1 = n + 2
    BY <1>1, <1>2
  <2> QED BY <2>1, <1>7 DEF Even, Outside
<1>9. Even(s) <=> Cardinality(QuotesUpTo(s, n)) % 2 = 0
  BY <1>6 DEF Even, Outside, n
<1>10. CASE c = Quote
  <2>1. QuotesUpTo(t, n + 1) = QuotesUpTo(s, n) \cup {n + 1}
    BY <1>1, <1>3, <1>4, <1>10 DEF QuotesUpTo
  <2>2. n + 1 \notin QuotesUpTo(s, n)
    BY <1>4 DEF QuotesUpTo
  <2>3. Cardinality(QuotesUpTo(t, n + 1)) = Cardinality(QuotesUpTo(s, n)) + 1
    BY <1>5, <2>1, <2>2, FS_AddElement
  <2>4. \A k \in Nat : (k + 1) % 2 = 0 <=> ~(k % 2 = 0)
    OBVIOUS
  <2>5. Even(t) <=> ~Even(s)
    BY <1>5, <1>8, <1>9, <2>3, <2>4
  <2> QED BY <1>10, <2>5 DEF t
<1>11. CASE c # Quote
  <2>1. QuotesUpTo(t, n + 1) = QuotesUpTo(s, n)
    BY <1>1, <1>3, <1>4, <1>11 DEF QuotesUpTo
  <2> QED BY <1>8, <1>9, <1>11, <2>1 DEF t
<1> QED BY <1>10, <1>11

(***************************************************************************)
(* The pieces between cuts.                                                *)
(***************************************************************************)
(* Cuts of w characters that lie in the text.                              *)
CutsOf(t, cuts, w) ==
  /\ w \in {1, 2} /\ PlacesTo(cuts, Len(t))
  /\ \A i \in cuts : i + w <= Len(t) + 1

StartOf(cuts, w, k) == IF k = 1 THEN 1 ELSE Nth(cuts, k - 1) + w
EndOf(t, cuts, k) == IF k > Cardinality(cuts) THEN Len(t) ELSE Nth(cuts, k) - 1
Whole(t, cuts, w) == Front(Pieces(t, cuts, w))
Open(t, cuts, w) == Last(Pieces(t, cuts, w))

(* Between cuts there are places of the text.                              *)
LEMMA CutBounds ==
  ASSUME NEW S, NEW t \in Seq(S), NEW cuts, NEW w, CutsOf(t, cuts, w),
         NEW k \in 1 .. Cardinality(cuts) + 1
  PROVE  /\ StartOf(cuts, w, k) \in Nat /\ StartOf(cuts, w, k) >= 1
         /\ StartOf(cuts, w, k) <= Len(t) + 1
         /\ EndOf(t, cuts, k) \in Int /\ EndOf(t, cuts, k) <= Len(t)
<1>1. Len(t) \in Nat /\ Cardinality(cuts) \in Nat /\ w \in {1, 2} /\ PlacesTo(cuts, Len(t))
  BY LenProperties, PlacesAreNumbers DEF CutsOf
<1>2. \A i \in cuts : i \in Nat /\ 1 <= i /\ i <= Len(t) /\ i + w <= Len(t) + 1
  BY <1>1, PlacesAreNumbers DEF CutsOf
<1>3. /\ StartOf(cuts, w, k) \in Nat /\ StartOf(cuts, w, k) >= 1
      /\ StartOf(cuts, w, k) <= Len(t) + 1
  <2>1. CASE k = 1
    BY <1>1, <2>1 DEF StartOf
  <2>2. CASE k # 1
    <3>1. k - 1 \in 1 .. Cardinality(cuts)
      BY <1>1, <2>2
    <3>2. Nth(cuts, k - 1) \in cuts
      BY <1>1, <3>1, NthIsThere
    <3> DEFINE i == Nth(cuts, k - 1)
    <3>3. StartOf(cuts, w, k) = i + w
      BY <2>2 DEF StartOf
    <3>4. i \in Nat /\ i + w <= Len(t) + 1
      BY <1>2, <3>2
    <3> HIDE DEF i
    <3>5. w \in Nat /\ w >= 1
      BY <1>1
    <3>6. i + w \in Nat /\ i + w >= 1
      BY <3>4, <3>5
    <3> QED BY <3>3, <3>4, <3>6
  <2> QED BY <2>1, <2>2
<1>4. EndOf(t, cuts, k) \in Int /\ EndOf(t, cuts, k) <= Len(t)
  <2>1. CASE k > Cardinality(cuts)
    BY <1>1, <2>1 DEF EndOf
  <2>2. CASE ~(k > Cardinality(cuts))
    <3>1. k \in 1 .. Cardinality(cuts)
      BY <1>1, <2>2
    <3>2. Nth(cuts, k) \in cuts
      BY <1>1, <3>1, NthIsThere
    <3> DEFINE i == Nth(cuts, k)
    <3>3. EndOf(t, cuts, k) = i - 1
      BY <2>2 DEF EndOf
    <3>4. i \in Nat /\ i <= Len(t)
      BY <1>2, <3>2
    <3> HIDE DEF i
    <3>5. i - 1 \in Int /\ i - 1 <= Len(t)
      BY <1>1, <3>4
    <3> QED BY <3>3, <3>5
  <2> QED BY <2>1, <2>2
<1> QED BY <1>3, <1>4

(* The pieces between the cuts, one by one.                                *)
LEMMA PiecesAre ==
  ASSUME NEW S, NEW t \in Seq(S), NEW cuts, NEW w, CutsOf(t, cuts, w)
  PROVE  /\ Cardinality(cuts) \in Nat
         /\ Pieces(t, cuts, w) \in Seq(Seq(S))
         /\ Len(Pieces(t, cuts, w)) = Cardinality(cuts) + 1
         /\ \A k \in 1 .. Cardinality(cuts) + 1 :
              /\ Pieces(t, cuts, w)[k] = SubSeq(t, StartOf(cuts, w, k), EndOf(t, cuts, k))
              /\ SubSeq(t, StartOf(cuts, w, k), EndOf(t, cuts, k)) \in Seq(S)
<1> DEFINE n == Cardinality(cuts)
           f == [k \in 1 .. n + 1 |-> SubSeq(t, StartOf(cuts, w, k), EndOf(t, cuts, k))]
<1>1. n \in Nat
  BY PlacesAreNumbers DEF CutsOf
<1>2. ASSUME NEW k \in 1 .. n + 1
      PROVE  SubSeq(t, StartOf(cuts, w, k), EndOf(t, cuts, k)) \in Seq(S)
  BY CutBounds, SubSeqIs
<1>3. f \in [1 .. n + 1 -> Seq(S)]
  BY <1>2
<1>4. Pieces(t, cuts, w) = f
  BY DEF Pieces, StartOf, EndOf
<1>5. \A k \in 1 .. n + 1 : f[k] = SubSeq(t, StartOf(cuts, w, k), EndOf(t, cuts, k))
  OBVIOUS
<1>6. n + 1 \in Nat
  BY <1>1
<1> HIDE DEF f, n
<1>7. f \in Seq(Seq(S)) /\ Len(f) = n + 1
  BY <1>3, <1>6, FunctionIsSeq
<1>8. n = Cardinality(cuts)
  BY DEF n
<1> QED BY <1>1, <1>2, <1>4, <1>5, <1>7, <1>8

(* The beginning of a sequence, place by place.                            *)
LEMMA BeginningIs ==
  ASSUME NEW S, NEW s \in Seq(S), NEW n \in 0 .. Len(s)
  PROVE  /\ SubSeq(s, 1, n) \in Seq(S) /\ Len(SubSeq(s, 1, n)) = n
         /\ \A i \in 1 .. n : SubSeq(s, 1, n)[i] = s[i]
<1> DEFINE f == SubSeq(s, 1, n)
<1>1. n \in Nat /\ n <= Len(s) /\ (n - 1) + 1 = n /\ (~(1 <= n) => n = 0)
  BY LenProperties
<1>2. n \in Int /\ 1 \in Nat /\ 1 >= 1 /\ n - 1 + 1 = n /\ \A i \in 1 .. n : 1 + i - 1 = i
  BY <1>1
<1>3. /\ f \in Seq(S) /\ Len(f) = IF 1 <= n THEN n - 1 + 1 ELSE 0
      /\ \A i \in 1 .. n - 1 + 1 : f[i] = s[1 + i - 1]
  BY <1>1, <1>2, SubSeqIs
<1> HIDE DEF f
<1>4. Len(f) = n
  BY <1>1, <1>2, <1>3
<1>5. ASSUME NEW i \in 1 .. n PROVE f[i] = s[i]
  <2>1. i \in 1 .. n - 1 + 1 /\ 1 + i - 1 = i
    BY <1>2
  <2> QED BY <1>3, <2>1
<1> QED BY <1>3, <1>4, <1>5 DEF f

(* The front of a sequence.                                                *)
LEMMA FrontIs ==
  ASSUME NEW S, NEW s \in Seq(S), Len(s) > 0
  PROVE  /\ Front(s) \in Seq(S) /\ Len(Front(s)) = Len(s) - 1
         /\ \A i \in 1 .. Len(s) - 1 : Front(s)[i] = s[i]
         /\ Last(s) \in S /\ Append(Front(s), Last(s)) = s
<1>1. Len(s) \in Nat /\ Len(s) - 1 \in Int /\ Len(s) - 1 <= Len(s) /\ Len(s) \in 1 .. Len(s)
  BY LenProperties
<1>2. Last(s) \in S
  BY <1>1, ElementOfSeq DEF Last
<1> DEFINE f == Front(s)
<1>3. /\ f \in Seq(S) /\ Len(f) = Len(s) - 1
      /\ \A i \in 1 .. Len(s) - 1 : f[i] = s[i]
  <2>1. Len(s) - 1 \in 0 .. Len(s)
    BY <1>1
  <2> QED BY <2>1, BeginningIs DEF Front
<1> HIDE DEF f
<1> DEFINE a == Append(f, Last(s))
<1>4. /\ a \in Seq(S) /\ Len(a) = Len(f) + 1 /\ a[Len(f) + 1] = Last(s)
      /\ \A i \in 1 .. Len(f) : a[i] = f[i]
  BY <1>2, <1>3, AppendProperties
<1> HIDE DEF a
<1>5. Len(a) = Len(s)
  BY <1>1, <1>3, <1>4
<1>6. ASSUME NEW i \in 1 .. Len(a) PROVE a[i] = s[i]
  <2>1. CASE i = Len(s)
    <3>1. Len(f) + 1 = Len(s)
      BY <1>1, <1>3
    <3> QED BY <1>4, <2>1, <3>1 DEF Last
  <2>2. CASE i # Len(s)
    <3>1. i \in 1 .. Len(s) - 1 /\ i \in 1 .. Len(f)
      BY <1>1, <1>3, <1>5, <2>2
    <3> QED BY <1>3, <1>4, <3>1
  <2> QED BY <2>1, <2>2
<1>7. a = s
  BY <1>4, <1>5, <1>6, SeqEqual
<1> QED BY <1>2, <1>3, <1>7 DEF a, f

(* The pieces that a cut ends, and the one that none does.                 *)
LEMMA WholeAndOpen ==
  ASSUME NEW S, NEW t \in Seq(S), NEW cuts, NEW w, CutsOf(t, cuts, w)
  PROVE  /\ Cardinality(cuts) \in Nat
         /\ Whole(t, cuts, w) \in Seq(Seq(S)) /\ Len(Whole(t, cuts, w)) = Cardinality(cuts)
         /\ \A k \in 1 .. Cardinality(cuts) :
              Whole(t, cuts, w)[k] = SubSeq(t, StartOf(cuts, w, k), Nth(cuts, k) - 1)
         /\ Open(t, cuts, w) \in Seq(S)
         /\ Open(t, cuts, w) = SubSeq(t, StartOf(cuts, w, Cardinality(cuts) + 1), Len(t))
         /\ Pieces(t, cuts, w) = Append(Whole(t, cuts, w), Open(t, cuts, w))
<1> DEFINE n == Cardinality(cuts)
           p == Pieces(t, cuts, w)
<1>1. /\ n \in Nat /\ p \in Seq(Seq(S)) /\ Len(p) = n + 1
      /\ \A k \in 1 .. n + 1 : p[k] = SubSeq(t, StartOf(cuts, w, k), EndOf(t, cuts, k))
  BY PiecesAre
<1> HIDE DEF n, p
<1>2. Len(p) > 0 /\ Len(p) - 1 = n
  BY <1>1
<1>3. /\ Front(p) \in Seq(Seq(S)) /\ Len(Front(p)) = Len(p) - 1
      /\ \A i \in 1 .. Len(p) - 1 : Front(p)[i] = p[i]
      /\ Last(p) \in Seq(S) /\ Append(Front(p), Last(p)) = p
  BY <1>1, <1>2, FrontIs
<1>4. ASSUME NEW k \in 1 .. n
      PROVE  Front(p)[k] = SubSeq(t, StartOf(cuts, w, k), Nth(cuts, k) - 1)
  <2>1. k \in 1 .. n + 1 /\ ~(k > n)
    BY <1>1
  <2>2. EndOf(t, cuts, k) = Nth(cuts, k) - 1
    BY <2>1 DEF EndOf, n
  <2>3. Front(p)[k] = p[k]
    BY <1>2, <1>3
  <2> QED BY <1>1, <2>1, <2>2, <2>3
<1>5. Last(p) = SubSeq(t, StartOf(cuts, w, n + 1), Len(t))
  <2>1. n + 1 \in 1 .. n + 1 /\ n + 1 > n
    BY <1>1
  <2>2. EndOf(t, cuts, n + 1) = Len(t)
    BY <2>1 DEF EndOf, n
  <2>3. Last(p) = p[n + 1]
    BY <1>1 DEF Last
  <2> QED BY <1>1, <2>1, <2>2, <2>3
<1> QED BY <1>1, <1>2, <1>3, <1>4, <1>5 DEF Whole, Open, n, p

(* A character that makes no cut belongs to the last piece.                *)
LEMMA PiecesGrow ==
  ASSUME NEW S, NEW t \in Seq(S), NEW c \in S, NEW cuts, NEW w, CutsOf(t, cuts, w)
  PROVE  /\ CutsOf(Append(t, c), cuts, w)
         /\ Whole(Append(t, c), cuts, w) = Whole(t, cuts, w)
         /\ Open(Append(t, c), cuts, w) = Append(Open(t, cuts, w), c)
<1> DEFINE u == Append(t, c)
           n == Cardinality(cuts)
<1>1. u \in Seq(S) /\ Len(u) = Len(t) + 1
  BY AppendProperties
<1>2. Len(t) \in Nat
  BY LenProperties
<1> HIDE DEF u
<1>3. CutsOf(u, cuts, w)
  <2>1. w \in {1, 2} /\ PlacesTo(cuts, Len(t)) /\ \A i \in cuts : i + w <= Len(t) + 1
    BY DEF CutsOf
  <2>2. \A i \in cuts : i \in Nat /\ 1 <= i /\ i <= Len(t)
    BY <2>1, PlacesAreNumbers
  <2>3. \A i \in cuts : i \in 1 .. Len(u)
    BY <1>1, <1>2, <2>2
  <2>4. \A i \in cuts : i + w <= Len(u) + 1
    <3> SUFFICES ASSUME NEW i \in cuts PROVE i + w <= Len(u) + 1
      OBVIOUS
    <3>1. i + w <= Len(t) + 1 /\ i \in Nat /\ w \in Nat
      BY <2>1, <2>2
    <3> QED BY <1>1, <1>2, <3>1
  <2>5. PlacesTo(cuts, Len(u))
    BY <1>1, <1>2, <2>3 DEF PlacesTo
  <2> QED BY <2>1, <2>4, <2>5 DEF CutsOf
<1>4. /\ n \in Nat
      /\ Whole(t, cuts, w) \in Seq(Seq(S)) /\ Len(Whole(t, cuts, w)) = n
      /\ \A k \in 1 .. n : Whole(t, cuts, w)[k] = SubSeq(t, StartOf(cuts, w, k), Nth(cuts, k) - 1)
      /\ Open(t, cuts, w) = SubSeq(t, StartOf(cuts, w, n + 1), Len(t))
  BY WholeAndOpen
<1>5. /\ Whole(u, cuts, w) \in Seq(Seq(S)) /\ Len(Whole(u, cuts, w)) = n
      /\ \A k \in 1 .. n : Whole(u, cuts, w)[k] = SubSeq(u, StartOf(cuts, w, k), Nth(cuts, k) - 1)
      /\ Open(u, cuts, w) = SubSeq(u, StartOf(cuts, w, n + 1), Len(u))
  BY <1>1, <1>3, WholeAndOpen
<1>6. ASSUME NEW k \in 1 .. n PROVE Whole(u, cuts, w)[k] = Whole(t, cuts, w)[k]
  <2>1. k \in 1 .. n + 1 /\ ~(k > n)
    BY <1>4
  <2>2. EndOf(t, cuts, k) = Nth(cuts, k) - 1
    BY <2>1 DEF EndOf
  <2>3. /\ StartOf(cuts, w, k) \in Nat /\ StartOf(cuts, w, k) >= 1
        /\ EndOf(t, cuts, k) \in Int /\ EndOf(t, cuts, k) <= Len(t)
    BY <2>1, CutBounds
  <2>4. SubSeq(u, StartOf(cuts, w, k), EndOf(t, cuts, k))
          = SubSeq(t, StartOf(cuts, w, k), EndOf(t, cuts, k))
    BY <2>3, SubSeqOfAppend DEF u
  <2> QED BY <1>4, <1>5, <2>2, <2>4
<1>7. Whole(u, cuts, w) = Whole(t, cuts, w)
  BY <1>4, <1>5, <1>6, SeqEqual
<1>8. Open(u, cuts, w) = Append(Open(t, cuts, w), c)
  <2> DEFINE a == StartOf(cuts, w, n + 1)
  <2>1. n + 1 \in 1 .. n + 1
    BY <1>4
  <2>2. a \in Nat /\ a >= 1 /\ a <= Len(t) + 1
    BY <2>1, CutBounds
  <2> HIDE DEF a
  <2>3. a \in 1 .. Len(t) + 1
    BY <1>2, <2>2
  <2>4. SubSeq(u, a, Len(t) + 1) = Append(SubSeq(t, a, Len(t)), c)
    BY <2>3, SubSeqToTheEnd DEF u
  <2>5. Open(t, cuts, w) = SubSeq(t, a, Len(t)) /\ Open(u, cuts, w) = SubSeq(u, a, Len(t) + 1)
    BY <1>1, <1>4, <1>5 DEF a
  <2> QED BY <2>4, <2>5
<1> QED BY <1>3, <1>7, <1>8 DEF u

LessTheCut(f, w) == IF w = 1 THEN f ELSE Front(f)

(* One character more makes m a cut, and that cut ends the text.           *)
CutsWith(t, cuts, w, m) ==
  /\ m \in Nat /\ m > 0 /\ m + w = Len(t) + 2
  /\ Len(Open(t, cuts, w)) >= w - 1

(* A cut that ends with the text completes the last piece, less what of the*)
(* cut was in it.                                                          *)
LEMMA PiecesCut ==
  ASSUME NEW S, NEW t \in Seq(S), NEW c \in S, NEW cuts, NEW w, CutsOf(t, cuts, w),
         NEW m, CutsWith(t, cuts, w, m)
  PROVE  /\ Whole(Append(t, c), cuts \cup {m}, w)
              = Append(Whole(t, cuts, w), LessTheCut(Open(t, cuts, w), w))
         /\ Open(Append(t, c), cuts \cup {m}, w) = <<>>
<1> DEFINE u == Append(t, c)
           n == Cardinality(cuts)
           more == cuts \cup {m}
<1>0. m \in Nat /\ m > 0 /\ m + w = Len(t) + 2 /\ Len(Open(t, cuts, w)) >= w - 1
  BY DEF CutsWith
<1>1. u \in Seq(S) /\ Len(u) = Len(t) + 1
  BY AppendProperties
<1>2. Len(t) \in Nat /\ w \in {1, 2} /\ w \in Nat
  BY LenProperties DEF CutsOf
<1> HIDE DEF u
<1>3. PlacesTo(cuts, Len(t)) /\ \A i \in cuts : i + w <= Len(t) + 1 /\ i \in Nat
  BY PlacesAreNumbers DEF CutsOf
<1>4. \A i \in cuts : i < m
  <2> SUFFICES ASSUME NEW i \in cuts PROVE i < m
    OBVIOUS
  <2>1. i + w <= Len(t) + 1 /\ i \in Nat
    BY <1>3
  <2> QED BY <1>0, <1>2, <2>1
<1>5. /\ n \in Nat /\ Cardinality(more) = n + 1 /\ Nth(more, n + 1) = m
      /\ \A k \in 1 .. n : Nth(more, k) = Nth(cuts, k)
  BY <1>0, <1>3, <1>4, NthWithLast
<1>6. CutsOf(u, more, w)
  <2>1. \A i \in cuts : i \in 1 .. Len(u) /\ i + w <= Len(u) + 1
    <3> SUFFICES ASSUME NEW i \in cuts PROVE i \in 1 .. Len(u) /\ i + w <= Len(u) + 1
      OBVIOUS
    <3>1. i + w <= Len(t) + 1 /\ i \in Nat /\ 1 <= i /\ i <= Len(t)
      BY <1>3, PlacesAreNumbers
    <3> QED BY <1>1, <1>2, <3>1
  <2>2. m \in 1 .. Len(u) /\ m + w <= Len(u) + 1
    BY <1>0, <1>1, <1>2
  <2>3. \A i \in more : i \in 1 .. Len(u) /\ i + w <= Len(u) + 1
    BY <2>1, <2>2
  <2>4. PlacesTo(more, Len(u))
    BY <1>1, <1>2, <2>3 DEF PlacesTo
  <2> QED BY <1>2, <2>3, <2>4 DEF CutsOf
<1> HIDE DEF more
<1> DEFINE W == Whole(t, cuts, w)
           L == Open(t, cuts, w)
           a == StartOf(cuts, w, n + 1)
<1>7. /\ W \in Seq(Seq(S)) /\ Len(W) = n
      /\ \A k \in 1 .. n : W[k] = SubSeq(t, StartOf(cuts, w, k), Nth(cuts, k) - 1)
      /\ L \in Seq(S) /\ L = SubSeq(t, a, Len(t))
  BY WholeAndOpen
<1>8. /\ Whole(u, more, w) \in Seq(Seq(S)) /\ Len(Whole(u, more, w)) = n + 1
      /\ \A k \in 1 .. n + 1 :
           Whole(u, more, w)[k] = SubSeq(u, StartOf(more, w, k), Nth(more, k) - 1)
      /\ Open(u, more, w) = SubSeq(u, StartOf(more, w, n + 1 + 1), Len(u))
  <2> DEFINE K == Cardinality(more)
  <2>1. /\ Whole(u, more, w) \in Seq(Seq(S)) /\ Len(Whole(u, more, w)) = K
        /\ \A k \in 1 .. K :
             Whole(u, more, w)[k] = SubSeq(u, StartOf(more, w, k), Nth(more, k) - 1)
        /\ Open(u, more, w) = SubSeq(u, StartOf(more, w, K + 1), Len(u))
    BY <1>1, <1>6, WholeAndOpen
  <2>2. K = n + 1
    BY <1>5
  <2> HIDE DEF K, n
  <2> QED BY <2>1, <2>2
<1>9. \A k \in 1 .. n + 1 : StartOf(more, w, k) = StartOf(cuts, w, k)
  <2> SUFFICES ASSUME NEW k \in 1 .. n + 1
               PROVE  StartOf(more, w, k) = StartOf(cuts, w, k)
    OBVIOUS
  <2>1. CASE k = 1
    BY <2>1 DEF StartOf
  <2>2. CASE k # 1
    <3>1. k - 1 \in 1 .. n
      BY <1>5, <2>2
    <3>2. Nth(more, k - 1) = Nth(cuts, k - 1)
      BY <1>5, <3>1
    <3> QED BY <2>2, <3>2 DEF StartOf
  <2> QED BY <2>1, <2>2
<1>10. a \in Nat /\ a >= 1 /\ a <= Len(t) + 1
  <2>1. n + 1 \in 1 .. n + 1
    BY <1>5
  <2> QED BY <2>1, CutBounds
<1> DEFINE piece == LessTheCut(L, w)
<1>11. SubSeq(u, a, m - 1) = piece /\ piece \in Seq(S)
  <2> DEFINE b == m - 1
  <2>1. b \in Int /\ b <= Len(t)
    BY <1>0, <1>2
  <2> HIDE DEF a
  <2>2. SubSeq(u, a, b) = SubSeq(t, a, b)
    <3> HIDE DEF b
    <3> QED BY <1>10, <2>1, SubSeqOfAppend DEF u
  <2>3. CASE w = 1
    <3>1. b = Len(t)
      BY <1>0, <1>2, <2>3
    <3> QED BY <1>7, <2>2, <2>3, <3>1 DEF LessTheCut
  <2>4. CASE w = 2
    <3>1. b = Len(t) - 1 /\ Len(L) >= 1
      BY <1>0, <1>2, <2>4
    <3> HIDE DEF L, b
    <3>2. Len(L) = IF a <= Len(t) THEN Len(t) - a + 1 ELSE 0
      BY <1>2, <1>7, <1>10, SubSeqIs
    <3>3. a <= Len(t) /\ Len(L) = Len(t) - a + 1 /\ Len(L) \in Nat
      BY <1>2, <1>10, <3>1, <3>2
    <3>4. \A i \in 1 .. Len(t) - a + 1 : L[i] = t[a + i - 1]
      BY <1>2, <1>7, <1>10, SubSeqIs
    <3> DEFINE v == SubSeq(t, a, b)
               f == Front(L)
    <3>5. /\ v \in Seq(S) /\ Len(v) = IF a <= b THEN b - a + 1 ELSE 0
          /\ \A i \in 1 .. b - a + 1 : v[i] = t[a + i - 1]
      BY <1>10, <2>1, SubSeqIs
    <3>6. f \in Seq(S) /\ Len(f) = Len(L) - 1 /\ \A i \in 1 .. Len(L) - 1 : f[i] = L[i]
      <4>1. Len(L) > 0 /\ L \in Seq(S)
        BY <1>7, <3>1, <3>3, SMTT(30)
      <4> QED BY <4>1, FrontIs
    <3> HIDE DEF v, f
    <3>7. Len(v) = Len(f) /\ Len(f) = b - a + 1 /\ b - a + 1 \in Nat
      BY <1>2, <1>10, <3>1, <3>3, <3>5, <3>6
    <3>8. ASSUME NEW i \in 1 .. Len(v) PROVE v[i] = f[i]
      <4>1. i \in 1 .. b - a + 1 /\ i \in 1 .. Len(L) - 1 /\ i \in 1 .. Len(t) - a + 1
        BY <1>2, <1>10, <3>1, <3>3, <3>6, <3>7
      <4> QED BY <3>4, <3>5, <3>6, <4>1
    <3>9. v = f
      BY <3>5, <3>6, <3>7, <3>8, SeqEqual
    <3>10. piece = f
      BY <2>4 DEF f, LessTheCut
    <3> QED BY <2>2, <3>6, <3>9, <3>10 DEF v, b
  <2> QED BY <1>2, <2>3, <2>4
<1> HIDE DEF W, L, piece
<1>12. Whole(u, more, w) = Append(W, piece)
  <2> DEFINE A == Append(W, piece)
  <2>1. /\ A \in Seq(Seq(S)) /\ Len(A) = n + 1 /\ A[n + 1] = piece
        /\ \A k \in 1 .. n : A[k] = W[k]
    BY <1>7, <1>11, AppendProperties
  <2> HIDE DEF A
  <2>2. ASSUME NEW k \in 1 .. n + 1 PROVE Whole(u, more, w)[k] = A[k]
    <3>1. Whole(u, more, w)[k] = SubSeq(u, StartOf(cuts, w, k), Nth(more, k) - 1)
      BY <1>8, <1>9
    <3>2. CASE k = n + 1
      <4>1. Whole(u, more, w)[k] = SubSeq(u, a, m - 1)
        BY <1>5, <3>1, <3>2
      <4> QED BY <1>11, <2>1, <3>2, <4>1
    <3>3. CASE k # n + 1
      <4>1. k \in 1 .. n /\ ~(k > n)
        BY <1>5, <3>3
      <4>2. Nth(more, k) = Nth(cuts, k)
        BY <1>5, <4>1
      <4>3. EndOf(t, cuts, k) = Nth(cuts, k) - 1
        BY <4>1 DEF EndOf
      <4>4. /\ StartOf(cuts, w, k) \in Nat /\ StartOf(cuts, w, k) >= 1
            /\ EndOf(t, cuts, k) \in Int /\ EndOf(t, cuts, k) <= Len(t)
        BY CutBounds
      <4>5. SubSeq(u, StartOf(cuts, w, k), EndOf(t, cuts, k))
              = SubSeq(t, StartOf(cuts, w, k), EndOf(t, cuts, k))
        BY <4>4, SubSeqOfAppend DEF u
      <4> QED BY <1>7, <2>1, <3>1, <4>1, <4>2, <4>3, <4>5
    <3> QED BY <3>2, <3>3
  <2>3. Whole(u, more, w) = A
    BY <1>8, <2>1, <2>2, SeqEqual
  <2> QED BY <2>3 DEF A
<1>13. Open(u, more, w) = <<>>
  <2>1. StartOf(more, w, n + 1 + 1) = m + w
    <3>1. n + 1 + 1 # 1 /\ n + 1 + 1 - 1 = n + 1
      BY <1>5
    <3>2. (n + 1 + 1) - 1 = n + 1
      BY <1>5
    <3>3. StartOf(more, w, n + 1 + 1) = Nth(more, (n + 1 + 1) - 1) + w
      BY <3>1 DEF StartOf
    <3> QED BY <1>5, <3>2, <3>3
  <2>2. m + w \in Int /\ Len(u) \in Int /\ Len(u) < m + w
    BY <1>0, <1>1, <1>2
  <2> QED BY <1>8, <2>1, <2>2, SubSeqEmpty
<1> QED BY <1>2, <1>12, <1>13 DEF u, more, W, L, piece

(* What holds of the empty sequence and of every sequence that is one      *)
(* longer than one it holds of, holds of all.                              *)
LEMMA PrefixStep ==
  ASSUME NEW S, NEW s \in Seq(S)
  PROVE  /\ Len(s) \in Nat /\ SubSeq(s, 1, 0) = <<>> /\ SubSeq(s, 1, Len(s)) = s
         /\ \A n \in 0 .. Len(s) : SubSeq(s, 1, n) \in Seq(S) /\ Len(SubSeq(s, 1, n)) = n
         /\ \A n \in 1 .. Len(s) :
              s[n] \in S /\ SubSeq(s, 1, n) = Append(SubSeq(s, 1, n - 1), s[n])
<1>1. Len(s) \in Nat /\ SubSeq(s, 1, Len(s)) = s
  BY LenProperties, SubSeqFull
<1>2. SubSeq(s, 1, 0) = <<>>
  BY SubSeqEmpty
<1>3. \A n \in 0 .. Len(s) : SubSeq(s, 1, n) \in Seq(S) /\ Len(SubSeq(s, 1, n)) = n
  BY BeginningIs
<1>4. ASSUME NEW n \in 1 .. Len(s)
      PROVE  s[n] \in S /\ SubSeq(s, 1, n) = Append(SubSeq(s, 1, n - 1), s[n])
  <2>1. s[n] \in S
    BY ElementOfSeq
  <2> DEFINE u == SubSeq(s, 1, n)
             v == SubSeq(s, 1, n - 1)
             w == Append(v, s[n])
  <2>2. n \in Nat /\ n >= 1 /\ n \in 0 .. Len(s) /\ n - 1 \in 0 .. Len(s) /\ (n - 1) + 1 = n
    BY <1>1
  <2>3. u \in Seq(S) /\ Len(u) = n /\ \A i \in 1 .. n : u[i] = s[i]
    BY <2>2, BeginningIs
  <2>4. v \in Seq(S) /\ Len(v) = n - 1 /\ \A i \in 1 .. n - 1 : v[i] = s[i]
    BY <2>2, BeginningIs
  <2> HIDE DEF u, v
  <2>5. /\ w \in Seq(S) /\ Len(w) = Len(v) + 1 /\ w[Len(v) + 1] = s[n]
        /\ \A i \in 1 .. Len(v) : w[i] = v[i]
    BY <2>1, <2>4, AppendProperties
  <2> HIDE DEF w
  <2>6. Len(w) = n /\ Len(v) + 1 = n
    BY <2>2, <2>4, <2>5
  <2>7. ASSUME NEW i \in 1 .. n PROVE u[i] = w[i]
    <3>1. CASE i = n
      BY <2>3, <2>5, <2>6, <3>1
    <3>2. CASE i # n
      <4>1. i \in 1 .. n - 1
        BY <2>2, <3>2
      <4> QED BY <2>3, <2>4, <2>5, <4>1
    <3> QED BY <3>1, <3>2
  <2>8. u = w
    BY <2>3, <2>5, <2>6, <2>7, SeqEqual
  <2> QED BY <2>1, <2>8 DEF u, v, w
<1> QED BY <1>1, <1>2, <1>3, <1>4

(* Induction over texts: what has <<>> and all that is one longer has      *)
(* everything.                                                             *)
LEMMA SeqInduction ==
  ASSUME NEW S, NEW Q, <<>> \in Q,
         \A s \in Seq(S) : s \in Q => \A c \in S : Append(s, c) \in Q
  PROVE  \A s \in Seq(S) : s \in Q
<1> SUFFICES ASSUME NEW s \in Seq(S), s \notin Q PROVE FALSE
  OBVIOUS
<1> DEFINE P(n) == SubSeq(s, 1, n)
           bad == {n \in Nat : n <= Len(s) /\ P(n) \notin Q}
<1>1. /\ Len(s) \in Nat /\ P(0) = <<>> /\ P(Len(s)) = s
      /\ \A n \in 0 .. Len(s) : P(n) \in Seq(S)
      /\ \A n \in 1 .. Len(s) : s[n] \in S /\ P(n) = Append(P(n - 1), s[n])
  BY PrefixStep
<1> HIDE DEF P
<1>2. Len(s) \in bad
  BY <1>1
<1>3. PICK n \in bad : \A k \in bad : n <= k
  <2> HIDE DEF bad
  <2>1. bad # {} /\ bad \in SUBSET Nat
    BY <1>2 DEF bad
  <2> QED BY <2>1, LeastElement
<1>4. n \in Nat /\ n <= Len(s) /\ P(n) \notin Q
  OBVIOUS
<1>5. n # 0
  BY <1>1, <1>4
<1>6. n - 1 \in Nat /\ n - 1 <= Len(s) /\ ~(n <= n - 1) /\ n - 1 \in 0 .. Len(s) /\ n \in 1 .. Len(s)
  BY <1>1, <1>4, <1>5
<1>7. n - 1 \notin bad
  BY <1>3, <1>6
<1>8. P(n - 1) \in Q
  BY <1>6, <1>7
<1>9. P(n) = Append(P(n - 1), s[n]) /\ s[n] \in S /\ P(n - 1) \in Seq(S)
  BY <1>1, <1>6
<1>10. P(n) \in Q
  BY <1>8, <1>9
<1> QED BY <1>4, <1>10

(***************************************************************************)
(* Records, one character further.                                         *)
(***************************************************************************)
Rest(t) == Open(t, RecordEnds(t), 2)
Closes(t, c) == c = LF /\ Even(t) /\ Len(t) > 0 /\ Last(t) = CR

(* Record ends are cuts of two characters.                                 *)
LEMMA RecordCuts ==
  ASSUME NEW S, NEW t \in Seq(S)
  PROVE  CutsOf(t, RecordEnds(t), 2)
<1>1. Len(t) \in Nat
  BY LenProperties
<1>2. \A i \in RecordEnds(t) : i \in 1 .. Len(t) - 1
  BY DEF RecordEnds
<1>3. \A i \in RecordEnds(t) : i \in 1 .. Len(t) /\ i + 2 <= Len(t) + 1
  BY <1>1, <1>2
<1>4. PlacesTo(RecordEnds(t), Len(t))
  BY <1>1, <1>3 DEF PlacesTo
<1> QED BY <1>3, <1>4 DEF CutsOf

(* A character other than a quote leaves the number of quotes as it was.   *)
LEMMA EvenBeforeTheLast ==
  ASSUME NEW S, NEW t \in Seq(S), Len(t) > 0, Last(t) # Quote
  PROVE  Even(t) <=> Outside(t, Len(t))
<1> DEFINE f == Front(t)
           c == Last(t)
<1>1. Len(t) \in Nat
  BY LenProperties
<1>2. f \in Seq(S) /\ Len(f) = Len(t) - 1 /\ c \in S /\ Append(f, c) = t
  BY FrontIs
<1> HIDE DEF f, c
<1>3. c # Quote
  BY DEF c
<1>4. Even(t) <=> Even(f)
  BY <1>2, <1>3, EvenOfAppend
<1>5. Len(f) + 1 = Len(t) /\ Len(t) \in 1 .. Len(f) + 1
  BY <1>1, <1>2
<1>6. Outside(t, Len(t)) <=> Outside(f, Len(t))
  BY <1>2, <1>5, OutsideOfAppend
<1> QED BY <1>4, <1>5, <1>6 DEF Even

(* One character more ends one record more, or none.                       *)
LEMMA RecordEndsOfAppend ==
  ASSUME NEW S, NEW t \in Seq(S), NEW c \in S
  PROVE  /\ Closes(t, c) => RecordEnds(Append(t, c)) = RecordEnds(t) \cup {Len(t)}
         /\ ~Closes(t, c) => RecordEnds(Append(t, c)) = RecordEnds(t)
<1> DEFINE u == Append(t, c)
           n == Len(t)
<1>1. u \in Seq(S) /\ Len(u) = n + 1 /\ u[n + 1] = c /\ \A i \in 1 .. n : u[i] = t[i]
  BY AppendProperties
<1>2. n \in Nat
  BY LenProperties
<1>3. \A i \in 1 .. n : Outside(u, i) <=> Outside(t, i)
  <2> SUFFICES ASSUME NEW i \in 1 .. n PROVE Outside(u, i) <=> Outside(t, i)
    OBVIOUS
  <2>1. i \in 1 .. n + 1
    BY <1>2
  <2> QED BY <2>1, OutsideOfAppend
<1> HIDE DEF u
<1> DEFINE End(s, i) == s[i] = CR /\ s[i + 1] = LF /\ Outside(s, i)
<1>4. ASSUME NEW i \in 1 .. n - 1 PROVE End(u, i) <=> End(t, i)
  <2>1. i \in 1 .. n /\ i + 1 \in 1 .. n
    BY <1>2
  <2> QED BY <1>1, <1>3, <2>1
<1>5. n > 0 => (End(u, n) <=> Closes(t, c))
  <2> SUFFICES ASSUME n > 0 PROVE End(u, n) <=> Closes(t, c)
    OBVIOUS
  <2>1. n \in 1 .. n /\ CR # Quote
    BY <1>2 DEF CR, Quote
  <2>2. End(u, n) <=> t[n] = CR /\ c = LF /\ Outside(t, n)
    BY <1>1, <1>3, <2>1
  <2>3. t[n] = CR => (Outside(t, n) <=> Even(t))
    BY <2>1, EvenBeforeTheLast DEF Last
  <2> QED BY <2>2, <2>3 DEF Closes, Last
<1>6. ~(n > 0) => ~Closes(t, c)
  BY DEF Closes
<1>7. RecordEnds(u) = {i \in 1 .. n : End(u, i)} /\ RecordEnds(t) = {i \in 1 .. n - 1 : End(t, i)}
  <2>1. (n + 1) - 1 = n
    BY <1>2
  <2>2. RecordEnds(u) = {i \in 1 .. (n + 1) - 1 : End(u, i)}
    BY <1>1 DEF RecordEnds
  <2> QED BY <2>1, <2>2 DEF RecordEnds
<1>8. \A i \in 1 .. n : i \in 1 .. n - 1 \/ i = n
  BY <1>2
<1>9. (\A i \in 1 .. n - 1 : i \in 1 .. n) /\ (n > 0 => n \in 1 .. n) /\ (~(n > 0) => 1 .. n = {})
  BY <1>2
<1> HIDE DEF End, n
<1>10. ASSUME Closes(t, c) PROVE RecordEnds(u) = RecordEnds(t) \cup {n}
  <2>1. n > 0 /\ End(u, n)
    BY <1>5, <1>6, <1>10
  <2> QED BY <1>4, <1>7, <1>8, <1>9, <2>1
<1>11. ASSUME ~Closes(t, c) PROVE RecordEnds(u) = RecordEnds(t)
  <2>1. \A i \in 1 .. n : End(u, i) => i # n
    BY <1>5, <1>9, <1>11
  <2> QED BY <1>4, <1>7, <1>8, <1>9, <2>1
<1> QED BY <1>10, <1>11 DEF u, n

(* What follows the last line end ends as the text does.                   *)
LEMMA RestEnds ==
  ASSUME NEW S, NEW t \in Seq(S)
  PROVE  /\ Rest(t) \in Seq(S)
         /\ Len(Rest(t)) > 0 => Len(t) > 0 /\ Last(Rest(t)) = Last(t)
         /\ Len(t) > 0 /\ Last(t) # LF => Len(Rest(t)) > 0
<1> DEFINE E == RecordEnds(t)
           k == Cardinality(E)
           a == StartOf(E, 2, k + 1)
           r == Rest(t)
           n == Len(t)
<1>1. CutsOf(t, E, 2)
  BY RecordCuts
<1>2. k \in Nat /\ n \in Nat
  BY <1>1, PlacesAreNumbers, LenProperties DEF CutsOf
<1>3. r \in Seq(S) /\ r = SubSeq(t, a, n)
  <2> HIDE DEF E
  <2> QED BY <1>1, WholeAndOpen DEF Rest, E
<1>4. a \in Nat /\ a >= 1 /\ a <= n + 1
  <2> HIDE DEF E
  <2>1. k + 1 \in 1 .. k + 1
    BY <1>2
  <2> QED BY <1>1, <2>1, CutBounds
<1>5. n > 0 /\ a = n + 1 => t[n] = LF
  <2> SUFFICES ASSUME n > 0, a = n + 1 PROVE t[n] = LF
    OBVIOUS
  <2>1. k + 1 # 1
    BY <1>2 DEF StartOf
  <2>2. k \in 1 .. k /\ (k + 1) - 1 = k
    BY <1>2, <2>1
  <2>3. Nth(E, k) \in E
    <3> HIDE DEF E
    <3> QED BY <1>1, <2>2, NthIsThere DEF CutsOf
  <2>4. a = Nth(E, k) + 2
    BY <2>1, <2>2 DEF StartOf
  <2>5. t[Nth(E, k) + 1] = LF /\ Nth(E, k) \in 1 .. n - 1
    BY <2>3 DEF RecordEnds
  <2> HIDE DEF E, k, a, n
  <2>6. Nth(E, k) + 1 = n
    BY <1>2, <2>4, <2>5
  <2> QED BY <2>5, <2>6
<1> HIDE DEF r, a
<1>6. /\ Len(r) = IF a <= n THEN n - a + 1 ELSE 0
      /\ \A i \in 1 .. n - a + 1 : r[i] = t[a + i - 1]
  BY <1>2, <1>3, <1>4, SubSeqIs
<1>7. ASSUME Len(r) > 0 PROVE n > 0 /\ Last(r) = Last(t)
  <2>1. a <= n /\ Len(r) = n - a + 1 /\ n > 0 /\ n - a + 1 \in 1 .. n - a + 1
    BY <1>2, <1>4, <1>6, <1>7
  <2>2. a + (n - a + 1) - 1 = n
    BY <1>2, <1>4
  <2>3. r[n - a + 1] = t[a + (n - a + 1) - 1]
    BY <1>6, <2>1
  <2> QED BY <2>1, <2>2, <2>3 DEF Last
<1>8. ASSUME n > 0, Last(t) # LF PROVE Len(r) > 0
  <2>1. a # n + 1
    BY <1>5, <1>8 DEF Last
  <2> QED BY <1>2, <1>4, <1>6, <2>1
<1> QED BY <1>3, <1>7, <1>8 DEF r, n

(* An empty text has no records.                                           *)
LEMMA EmptyText ==
  ASSUME NEW S
  PROVE  CompleteRecords(<<>>) = <<>> /\ Rest(<<>>) = <<>>
<1> DEFINE E == RecordEnds(<<>>)
<1>1. <<>> \in Seq(S) /\ Len(<<>>) = 0
  OBVIOUS
<1>2. E = {}
  BY DEF RecordEnds
<1>3. Cardinality(E) = 0
  BY <1>2, FS_EmptySet
<1>4. CutsOf(<<>>, E, 2)
  BY <1>1, RecordCuts
<1> HIDE DEF E
<1> DEFINE e == <<>>
           k == Cardinality(E)
<1> HIDE DEF e
<1>5. /\ Whole(e, E, 2) \in Seq(Seq(S)) /\ Len(Whole(e, E, 2)) = 0
      /\ Open(e, E, 2) = SubSeq(e, StartOf(E, 2, 1), 0)
  <2>1. e \in Seq(S) /\ CutsOf(e, E, 2)
    BY <1>1, <1>4 DEF e
  <2>2. /\ Whole(e, E, 2) \in Seq(Seq(S)) /\ Len(Whole(e, E, 2)) = k
        /\ Open(e, E, 2) = SubSeq(e, StartOf(E, 2, k + 1), Len(e))
    BY <2>1, WholeAndOpen
  <2>3. Len(e) = 0 /\ k = 0 /\ k + 1 = 1
    BY <1>1, <1>3 DEF e
  <2> HIDE DEF k
  <2> QED BY <2>2, <2>3
<1>6. StartOf(E, 2, 1) = 1
  BY DEF StartOf
<1>7. Open(e, E, 2) = <<>>
  BY <1>5, <1>6, SubSeqEmpty
<1>8. Whole(e, E, 2) = <<>>
  BY <1>5, EmptySeq
<1> QED BY <1>7, <1>8 DEF Rest, CompleteRecords, Whole, E, e

(* A text and what follows its last line end have quotes alike.            *)
LEMMA TextStep ==
  ASSUME NEW S, NEW t \in Seq(S), NEW c \in S
  PROVE  /\ CompleteRecords(t) \in Seq(Seq(S)) /\ Rest(t) \in Seq(S)
         /\ Closes(t, c) =>
              /\ CompleteRecords(Append(t, c)) = Append(CompleteRecords(t), Front(Rest(t)))
              /\ Rest(Append(t, c)) = <<>>
         /\ ~Closes(t, c) =>
              /\ CompleteRecords(Append(t, c)) = CompleteRecords(t)
              /\ Rest(Append(t, c)) = Append(Rest(t), c)
<1> DEFINE E == RecordEnds(t)
           u == Append(t, c)
<1>1. CutsOf(t, E, 2)
  BY RecordCuts
<1>2. \A s : CompleteRecords(s) = Whole(s, RecordEnds(s), 2) /\ Rest(s) = Open(s, RecordEnds(s), 2)
  BY DEF CompleteRecords, Whole, Rest
<1>3. Closes(t, c) => RecordEnds(u) = E \cup {Len(t)}
  BY RecordEndsOfAppend
<1>4. ~Closes(t, c) => RecordEnds(u) = E
  BY RecordEndsOfAppend
<1> HIDE DEF E
<1>5. Whole(t, E, 2) \in Seq(Seq(S)) /\ Open(t, E, 2) \in Seq(S)
  BY <1>1, WholeAndOpen
<1>6. ~Closes(t, c) => /\ Whole(u, E, 2) = Whole(t, E, 2)
                       /\ Open(u, E, 2) = Append(Open(t, E, 2), c)
  BY <1>1, PiecesGrow
<1>7. ASSUME Closes(t, c)
      PROVE  /\ Whole(u, E \cup {Len(t)}, 2) = Append(Whole(t, E, 2), Front(Open(t, E, 2)))
             /\ Open(u, E \cup {Len(t)}, 2) = <<>>
  <2>1. Len(t) \in Nat /\ Len(t) > 0 /\ Last(t) = CR
    BY <1>7, LenProperties DEF Closes
  <2>2. Last(t) # LF
    BY <2>1 DEF CR, LF
  <2>3. Open(t, E, 2) = Rest(t)
    BY <1>2 DEF E
  <2>4. Len(Open(t, E, 2)) > 0 /\ Len(Open(t, E, 2)) \in Nat
    BY <1>5, <2>1, <2>2, <2>3, RestEnds, LenProperties
  <2>5. Len(Open(t, E, 2)) >= 2 - 1 /\ Len(t) + 2 = Len(t) + 2
    BY <2>4
  <2> DEFINE w == 2
             m == Len(t)
             f == Open(t, E, w)
  <2>6. CutsOf(t, E, w) /\ CutsWith(t, E, w, m) /\ w = 2
    BY <1>1, <2>1, <2>5 DEF CutsWith
  <2> HIDE DEF w, m, f
  <2>7. /\ Whole(Append(t, c), E \cup {m}, w) = Append(Whole(t, E, w), LessTheCut(f, w))
        /\ Open(Append(t, c), E \cup {m}, w) = <<>>
    BY <2>6, PiecesCut DEF f
  <2>8. LessTheCut(f, w) = Front(f) /\ f = Open(t, E, 2)
    BY <2>6 DEF LessTheCut, f
  <2> HIDE DEF u
  <2> QED BY <2>6, <2>7, <2>8 DEF m, u
<1> HIDE DEF u
<1>8. Closes(t, c) => /\ Whole(u, RecordEnds(u), 2) = Append(Whole(t, E, 2), Front(Open(t, E, 2)))
                      /\ Open(u, RecordEnds(u), 2) = <<>>
  BY <1>3, <1>7
<1>9. ~Closes(t, c) => /\ Whole(u, RecordEnds(u), 2) = Whole(t, E, 2)
                       /\ Open(u, RecordEnds(u), 2) = Append(Open(t, E, 2), c)
  BY <1>4, <1>6
<1>10. /\ CompleteRecords(u) = Whole(u, RecordEnds(u), 2) /\ Rest(u) = Open(u, RecordEnds(u), 2)
       /\ CompleteRecords(t) = Whole(t, E, 2) /\ Rest(t) = Open(t, E, 2)
  BY <1>2 DEF E
<1> QED BY <1>5, <1>8, <1>9, <1>10 DEF u

(* Quotes are counted from the last record end as from the beginning.      *)
LEMMA EvenOfRest ==
  ASSUME NEW S, NEW t \in Seq(S)
  PROVE  Even(t) <=> Even(Rest(t))
<1> DEFINE Q == {s \in Seq(S) : Even(s) <=> Even(Rest(s))}
<1>1. <<>> \in Q
  BY EmptyText
<1>2. ASSUME NEW s \in Seq(S), s \in Q, NEW c \in S PROVE Append(s, c) \in Q
  <2> DEFINE u == Append(s, c)
  <2>1. Even(s) <=> Even(Rest(s))
    BY <1>2
  <2>2. u \in Seq(S)
    BY AppendProperties
  <2>3. Even(u) <=> (Even(s) <=> c # Quote)
    BY EvenOfAppend
  <2>4. CASE Closes(s, c)
    <3>1. Rest(u) = <<>>
      BY <2>4, TextStep
    <3>2. Even(s) /\ c # Quote
      BY <2>4 DEF Closes, LF, Quote
    <3>3. Even(Rest(u))
      BY <3>1, EvenOfNothing
    <3> QED BY <2>2, <2>3, <3>2, <3>3
  <2>5. CASE ~Closes(s, c)
    <3>1. Rest(u) = Append(Rest(s), c) /\ Rest(s) \in Seq(S)
      BY <2>5, TextStep
    <3>2. Even(Rest(u)) <=> (Even(Rest(s)) <=> c # Quote)
      BY <3>1, EvenOfAppend
    <3> QED BY <2>1, <2>2, <2>3, <3>2
  <2> QED BY <2>4, <2>5
<1> HIDE DEF Q
<1>3. t \in Q
  BY <1>1, <1>2, SeqInduction
<1> QED BY <1>3 DEF Q

(* The same, said of what follows the last line end.                       *)
LEMMA ClosesTheRest ==
  ASSUME NEW S, NEW t \in Seq(S), NEW c
  PROVE  Closes(t, c) <=> Closes(Rest(t), c)
<1>1. Even(t) <=> Even(Rest(t))
  BY EvenOfRest
<1>2. /\ Len(Rest(t)) > 0 => Len(t) > 0 /\ Last(Rest(t)) = Last(t)
      /\ Len(t) > 0 /\ Last(t) # LF => Len(Rest(t)) > 0
  BY RestEnds
<1>3. CR # LF
  BY DEF CR, LF
<1> QED BY <1>1, <1>2, <1>3 DEF Closes

(***************************************************************************)
(* Fields, one character further.                                          *)
(***************************************************************************)
Commas(r) == {i \in DOMAIN r : r[i] = Comma /\ Outside(r, i)}
Done(r) == Whole(r, Commas(r), 1)
Cur(r) == Open(r, Commas(r), 1)
Separates(r, c) == c = Comma /\ Even(r)

(* Commas outside of quotes are cuts of one character.                     *)
LEMMA CommaCuts ==
  ASSUME NEW S, NEW r \in Seq(S)
  PROVE  CutsOf(r, Commas(r), 1) /\ DOMAIN r = 1 .. Len(r) /\ Len(r) \in Nat
<1>1. Len(r) \in Nat /\ DOMAIN r = 1 .. Len(r)
  BY LenProperties
<1>2. \A i \in Commas(r) : i \in 1 .. Len(r)
  BY <1>1 DEF Commas
<1>3. \A i \in Commas(r) : i \in 1 .. Len(r) /\ i + 1 <= Len(r) + 1
  BY <1>1, <1>2
<1>4. PlacesTo(Commas(r), Len(r))
  BY <1>1, <1>3 DEF PlacesTo
<1> QED BY <1>1, <1>3, <1>4 DEF CutsOf

(* The fields of a record are those done and the current one.              *)
LEMMA FieldsAre ==
  ASSUME NEW S, NEW r \in Seq(S)
  PROVE  /\ Done(r) \in Seq(Seq(S)) /\ Cur(r) \in Seq(S)
         /\ Fields(r) = Append(Done(r), Cur(r))
<1> DEFINE E == Commas(r)
<1>1. CutsOf(r, E, 1)
  BY CommaCuts
<1>2. Fields(r) = Pieces(r, E, 1)
  BY DEF Fields, Commas
<1> HIDE DEF E
<1>3. /\ Whole(r, E, 1) \in Seq(Seq(S)) /\ Open(r, E, 1) \in Seq(S)
      /\ Pieces(r, E, 1) = Append(Whole(r, E, 1), Open(r, E, 1))
  BY <1>1, WholeAndOpen
<1> QED BY <1>2, <1>3 DEF Done, Cur, E

(* An empty record has one field, which is empty.                          *)
LEMMA EmptyRecord ==
  ASSUME NEW S
  PROVE  Done(<<>>) = <<>> /\ Cur(<<>>) = <<>>
<1> DEFINE E == Commas(<<>>)
<1>1. <<>> \in Seq(S) /\ Len(<<>>) = 0 /\ DOMAIN <<>> = {}
  OBVIOUS
<1>2. E = {}
  BY DEF Commas
<1>3. Cardinality(E) = 0
  BY <1>2, FS_EmptySet
<1>4. CutsOf(<<>>, E, 1)
  BY <1>1, CommaCuts
<1> HIDE DEF E
<1> DEFINE e == <<>>
           k == Cardinality(E)
<1> HIDE DEF e
<1>5. /\ Whole(e, E, 1) \in Seq(Seq(S)) /\ Len(Whole(e, E, 1)) = 0
      /\ Open(e, E, 1) = SubSeq(e, StartOf(E, 1, 1), 0)
  <2>1. e \in Seq(S) /\ CutsOf(e, E, 1)
    BY <1>1, <1>4 DEF e
  <2>2. /\ Whole(e, E, 1) \in Seq(Seq(S)) /\ Len(Whole(e, E, 1)) = k
        /\ Open(e, E, 1) = SubSeq(e, StartOf(E, 1, k + 1), Len(e))
    BY <2>1, WholeAndOpen
  <2>3. Len(e) = 0 /\ k = 0 /\ k + 1 = 1
    BY <1>1, <1>3 DEF e
  <2> HIDE DEF k
  <2> QED BY <2>2, <2>3
<1>6. StartOf(E, 1, 1) = 1
  BY DEF StartOf
<1>7. Open(e, E, 1) = <<>>
  BY <1>5, <1>6, SubSeqEmpty
<1>8. Whole(e, E, 1) = <<>>
  BY <1>5, EmptySeq
<1> QED BY <1>7, <1>8 DEF Done, Cur, E, e

(* One character more is one separator more, or none.                      *)
LEMMA CommasOfAppend ==
  ASSUME NEW S, NEW r \in Seq(S), NEW c \in S
  PROVE  /\ Separates(r, c) => Commas(Append(r, c)) = Commas(r) \cup {Len(r) + 1}
         /\ ~Separates(r, c) => Commas(Append(r, c)) = Commas(r)
<1> DEFINE u == Append(r, c)
           n == Len(r)
<1>1. u \in Seq(S) /\ Len(u) = n + 1 /\ u[n + 1] = c /\ \A i \in 1 .. n : u[i] = r[i]
  BY AppendProperties
<1>2. n \in Nat /\ DOMAIN r = 1 .. n
  BY LenProperties
<1>3. DOMAIN u = 1 .. n + 1
  <2> HIDE DEF u
  <2> QED BY <1>1, LenProperties
<1>4. \A i \in 1 .. n + 1 : Outside(u, i) <=> Outside(r, i)
  BY OutsideOfAppend
<1> HIDE DEF u
<1> DEFINE Is(s, i) == s[i] = Comma /\ Outside(s, i)
<1>5. \A i \in 1 .. n : Is(u, i) <=> Is(r, i)
  <2> SUFFICES ASSUME NEW i \in 1 .. n PROVE Is(u, i) <=> Is(r, i)
    OBVIOUS
  <2>1. i \in 1 .. n + 1
    BY <1>2
  <2> QED BY <1>1, <1>4, <2>1
<1>6. Is(u, n + 1) <=> Separates(r, c)
  <2>1. n + 1 \in 1 .. n + 1
    BY <1>2
  <2> QED BY <1>1, <1>4, <2>1 DEF Separates, Even
<1>7. Commas(u) = {i \in 1 .. n + 1 : Is(u, i)} /\ Commas(r) = {i \in 1 .. n : Is(r, i)}
  BY <1>2, <1>3 DEF Commas
<1>8. /\ \A i \in 1 .. n + 1 : i \in 1 .. n \/ i = n + 1
      /\ \A i \in 1 .. n : i \in 1 .. n + 1
      /\ n + 1 \in 1 .. n + 1
  BY <1>2
<1> HIDE DEF Is, n
<1>9. ASSUME Separates(r, c) PROVE Commas(u) = Commas(r) \cup {n + 1}
  BY <1>5, <1>6, <1>7, <1>8, <1>9
<1>10. ASSUME ~Separates(r, c) PROVE Commas(u) = Commas(r)
  <2>1. \A i \in 1 .. n + 1 : Is(u, i) => i # n + 1
    BY <1>6, <1>10
  <2> QED BY <1>5, <1>7, <1>8, <2>1
<1> QED BY <1>9, <1>10 DEF u, n

(* What a further character does to the fields of a record.                *)
LEMMA RecordStep ==
  ASSUME NEW S, NEW r \in Seq(S), NEW c \in S
  PROVE  /\ Done(r) \in Seq(Seq(S)) /\ Cur(r) \in Seq(S)
         /\ Separates(r, c) => /\ Done(Append(r, c)) = Append(Done(r), Cur(r))
                               /\ Cur(Append(r, c)) = <<>>
         /\ ~Separates(r, c) => /\ Done(Append(r, c)) = Done(r)
                                /\ Cur(Append(r, c)) = Append(Cur(r), c)
<1> DEFINE E == Commas(r)
           u == Append(r, c)
           m == Len(r) + 1
<1>1. CutsOf(r, E, 1) /\ m \in Nat /\ m > 0 /\ m + 1 = Len(r) + 2
  BY CommaCuts
<1>2. Separates(r, c) => Commas(u) = E \cup {m}
  BY CommasOfAppend
<1>3. ~Separates(r, c) => Commas(u) = E
  BY CommasOfAppend
<1> HIDE DEF E, m
<1>4. Whole(r, E, 1) \in Seq(Seq(S)) /\ Open(r, E, 1) \in Seq(S)
  BY <1>1, WholeAndOpen
<1>5. ~Separates(r, c) => /\ Whole(u, E, 1) = Whole(r, E, 1)
                          /\ Open(u, E, 1) = Append(Open(r, E, 1), c)
  BY <1>1, PiecesGrow
<1>6. ASSUME Separates(r, c)
      PROVE  /\ Whole(u, E \cup {m}, 1) = Append(Whole(r, E, 1), Open(r, E, 1))
             /\ Open(u, E \cup {m}, 1) = <<>>
  <2>1. Len(Open(r, E, 1)) >= 1 - 1
    BY <1>4, LenProperties
  <2> DEFINE w == 1
             f == Open(r, E, w)
  <2>2. CutsOf(r, E, w) /\ CutsWith(r, E, w, m) /\ w = 1
    BY <1>1, <2>1 DEF CutsWith
  <2> HIDE DEF w, f
  <2>3. /\ Whole(Append(r, c), E \cup {m}, w) = Append(Whole(r, E, w), LessTheCut(f, w))
        /\ Open(Append(r, c), E \cup {m}, w) = <<>>
    BY <2>2, PiecesCut DEF f
  <2>4. LessTheCut(f, w) = f /\ f = Open(r, E, 1)
    BY <2>2 DEF LessTheCut, f
  <2> HIDE DEF u
  <2> QED BY <2>2, <2>3, <2>4 DEF u
<1> HIDE DEF u
<1>7. Separates(r, c) => /\ Whole(u, Commas(u), 1) = Append(Whole(r, E, 1), Open(r, E, 1))
                         /\ Open(u, Commas(u), 1) = <<>>
  BY <1>2, <1>6
<1>8. ~Separates(r, c) => /\ Whole(u, Commas(u), 1) = Whole(r, E, 1)
                          /\ Open(u, Commas(u), 1) = Append(Open(r, E, 1), c)
  BY <1>3, <1>5
<1> QED BY <1>4, <1>7, <1>8 DEF u, E, Done, Cur

(* Quotes are counted from the last separator as from the record's         *)
(* beginning.                                                              *)
LEMMA EvenOfCur ==
  ASSUME NEW S, NEW r \in Seq(S)
  PROVE  Even(r) <=> Even(Cur(r))
<1> DEFINE Q == {s \in Seq(S) : Even(s) <=> Even(Cur(s))}
<1>1. <<>> \in Q
  BY EmptyRecord
<1>2. ASSUME NEW s \in Seq(S), s \in Q, NEW c \in S PROVE Append(s, c) \in Q
  <2> DEFINE u == Append(s, c)
  <2>1. Even(s) <=> Even(Cur(s))
    BY <1>2
  <2>2. u \in Seq(S)
    BY AppendProperties
  <2>3. Even(u) <=> (Even(s) <=> c # Quote)
    BY EvenOfAppend
  <2>4. CASE Separates(s, c)
    <3>1. Cur(u) = <<>>
      BY <2>4, RecordStep
    <3>2. Even(s) /\ c # Quote
      BY <2>4 DEF Separates, Comma, Quote
    <3>3. Even(Cur(u))
      BY <3>1, EvenOfNothing
    <3> QED BY <2>2, <2>3, <3>2, <3>3
  <2>5. CASE ~Separates(s, c)
    <3>1. Cur(u) = Append(Cur(s), c) /\ Cur(s) \in Seq(S)
      BY <2>5, RecordStep
    <3>2. Even(Cur(u)) <=> (Even(Cur(s)) <=> c # Quote)
      BY <3>1, EvenOfAppend
    <3> QED BY <2>1, <2>2, <2>3, <3>2
  <2> QED BY <2>4, <2>5
<1> HIDE DEF Q
<1>3. r \in Q
  BY <1>1, <1>2, SeqInduction
<1> QED BY <1>3 DEF Q

(* The largest of the first n places is n, if it is among them.            *)
LEMMA LargestIs ==
  ASSUME NEW n \in Nat, NEW A \in SUBSET (1 .. n), A # {}
  PROVE  Max(A) \in A /\ (n \in A => Max(A) = n)
<1> DEFINE above == {k \in Nat : \A j \in A : j <= k}
<1>1. \A j \in A : j \in Nat /\ j > 0 /\ j <= n
  OBVIOUS
<1>2. above # {} /\ above \in SUBSET Nat
  BY <1>1
<1> HIDE DEF above
<1>3. PICK m \in above : \A k \in above : m <= k
  BY <1>2, LeastElement
<1>4. m \in Nat /\ \A j \in A : j <= m
  BY <1>3 DEF above
<1>5. m \in A
  <2> SUFFICES ASSUME m \notin A PROVE FALSE
    OBVIOUS
  <2>1. m > 0
    <3>1. PICK j \in A : TRUE
      OBVIOUS
    <3>2. j \in Nat /\ j > 0 /\ j <= m
      BY <1>1, <1>4
    <3> QED BY <1>4, <3>2
  <2>2. m - 1 \in Nat /\ ~(m <= m - 1)
    BY <1>4, <2>1
  <2>3. ASSUME NEW j \in A PROVE j <= m - 1
    <3>1. j \in Nat /\ j <= m /\ j # m
      BY <1>1, <1>4
    <3> QED BY <1>4, <3>1
  <2>4. m - 1 \in above
    BY <2>2, <2>3 DEF above
  <2> QED BY <1>3, <2>2, <2>4
<1>6. \A j \in A : m >= j
  BY <1>1, <1>4
<1>7. Max(A) \in A /\ \A j \in A : Max(A) >= j
  BY <1>5, <1>6 DEF Max
<1>8. n \in A => Max(A) = n
  <2> DEFINE x == Max(A)
  <2>1. x \in Nat /\ x <= n /\ (n \in A => x >= n)
    BY <1>1, <1>7
  <2> HIDE DEF x
  <2>2. n \in A => x = n
    BY <2>1
  <2> QED BY <2>2 DEF x
<1> QED BY <1>7, <1>8

(* The parser over characters, one after the other.  A tower holds what the*)
(* fold has made of every set of places; MapThenFoldSet chooses one.  The  *)
(* same lemmas stand below for the decoder, the raw rows and the bytes: a  *)
(* lemma that takes the folded operator as a parameter cannot be used.     *)
ReadTower(it, b, s, n) ==
  it = [A \in SUBSET (1 .. n) |->
          IF A = {} THEN b ELSE Character(it[A \ {Max(A)}], s[Max(A)])]

(* Such a tower exists for every number of steps.                          *)
LEMMA ReadTowers ==
  ASSUME NEW b, NEW s
  PROVE  \A n \in Nat : \E it : ReadTower(it, b, s, n)
<1> DEFINE bad == {n \in Nat : ~(\E it : ReadTower(it, b, s, n))}
<1> SUFFICES ASSUME bad # {} PROVE FALSE
  OBVIOUS
<1>1. PICK n \in bad : \A k \in bad : n <= k
  <2>1. bad \in SUBSET Nat
    OBVIOUS
  <2> HIDE DEF bad
  <2> QED BY <2>1, LeastElement
<1>2. n # 0
  <2> SUFFICES ASSUME n = 0 PROVE FALSE
    OBVIOUS
  <2> DEFINE it == [A \in {{}} |-> b]
  <2>1. 1 .. n = {} /\ SUBSET (1 .. n) = {{}}
    OBVIOUS
  <2>2. it = [A \in SUBSET (1 .. n) |->
                IF A = {} THEN b ELSE Character(it[A \ {Max(A)}], s[Max(A)])]
    BY <2>1, Zenon
  <2>3. ReadTower(it, b, s, n)
    BY <2>2 DEF ReadTower
  <2> QED BY <2>3
<1> DEFINE m == n - 1
<1>3. n \in Nat /\ m \in Nat /\ ~(n <= m) /\ n \notin 1 .. m
  BY <1>2
<1>4. m \notin bad
  BY <1>1, <1>3
<1>5. PICK g : ReadTower(g, b, s, m)
  BY <1>3, <1>4
<1>6. \A A \in SUBSET (1 .. n) : A \ {n} \in SUBSET (1 .. m)
  BY <1>3
<1>7. \A A \in SUBSET (1 .. n) : n \notin A => A \in SUBSET (1 .. m)
  BY <1>3
<1>8. \A A \in SUBSET (1 .. m) : A \in SUBSET (1 .. n)
  BY <1>3
<1>9. n \notin bad
  <2> DEFINE h == [A \in SUBSET (1 .. n) |->
                     IF n \in A THEN Character(g[A \ {n}], s[n]) ELSE g[A]]
  <2>1. \A A \in SUBSET (1 .. m) : n \notin A /\ h[A] = g[A]
    BY <1>3, <1>8
  <2>2. \A A \in SUBSET (1 .. n) : n \in A => h[A] = Character(g[A \ {n}], s[n])
    OBVIOUS
  <2>3. h = [A \in SUBSET (1 .. n) |-> h[A]]
    OBVIOUS
  <2> HIDE DEF h, m
  <2>4. \A A \in SUBSET (1 .. m) :
          g[A] = IF A = {} THEN b ELSE Character(g[A \ {Max(A)}], s[Max(A)])
    BY <1>5, Zenon DEF ReadTower
  <2>5. ASSUME NEW A \in SUBSET (1 .. n)
        PROVE  h[A] = IF A = {} THEN b ELSE Character(h[A \ {Max(A)}], s[Max(A)])
    <3>1. CASE A = {}
      <4>1. A \in SUBSET (1 .. m)
        BY <3>1
      <4> QED BY <2>1, <2>4, <3>1, <4>1
    <3>2. CASE A # {} /\ n \in A
      <4>1. Max(A) = n
        BY <1>3, <3>2, LargestIs
      <4>2. h[A \ {n}] = g[A \ {n}]
        BY <1>6, <2>1
      <4>3. h[A] = Character(g[A \ {n}], s[n])
        BY <2>2, <3>2
      <4> QED BY <3>2, <4>1, <4>2, <4>3
    <3>3. CASE A # {} /\ n \notin A
      <4>1. A \in SUBSET (1 .. m)
        BY <1>7, <3>3
      <4>2. A \ {Max(A)} \in SUBSET (1 .. m)
        BY <4>1
      <4>3. h[A] = g[A] /\ h[A \ {Max(A)}] = g[A \ {Max(A)}]
        BY <2>1, <4>1, <4>2
      <4>4. g[A] = Character(g[A \ {Max(A)}], s[Max(A)])
        BY <2>4, <3>3, <4>1
      <4> QED BY <3>3, <4>3, <4>4
    <3> QED BY <3>1, <3>2, <3>3
  <2>6. ReadTower(h, b, s, n)
    BY <2>3, <2>5, Zenon DEF ReadTower
  <2> QED BY <2>6
<1> QED BY <1>1, <1>9

(* FoldLeft is the top of the tower.                                       *)
LEMMA ReadFold ==
  ASSUME NEW S, NEW s \in Seq(S), NEW b
  PROVE  \E g : /\ ReadTower(g, b, s, Len(s))
                /\ FoldLeft(Character, b, s) = g[1 .. Len(s)]
<1>1. DOMAIN s = 1 .. Len(s) /\ Len(s) \in Nat
  BY LenProperties
<1> DEFINE D == DOMAIN s
           IT(it) == it = [A \in SUBSET D |->
                             IF A = {} THEN b ELSE Character(it[A \ {Max(A)}], s[Max(A)])]
<1>2. FoldLeft(Character, b, s) = (CHOOSE it : IT(it))[D]
  BY DEF FoldLeft, MapThenFoldSet
<1>3. \E it : ReadTower(it, b, s, Len(s))
  BY <1>1, ReadTowers
<1>4. \A it : IT(it) <=> ReadTower(it, b, s, Len(s))
  BY <1>1 DEF ReadTower
<1> HIDE DEF IT, D
<1>5. IT(CHOOSE it : IT(it))
  BY <1>3, <1>4, Zenon
<1>6. D = 1 .. Len(s)
  BY <1>1 DEF D
<1> QED BY <1>2, <1>4, <1>5, <1>6

ReadSteps(g, b, s, N) ==
  /\ g[1 .. 0] = b
  /\ \A n \in 1 .. N : g[1 .. n] = Character(g[1 .. n - 1], s[n])

(* A tower goes up one element at a time.                                  *)
LEMMA ReadTowerStep ==
  ASSUME NEW b, NEW s, NEW N \in Nat, NEW g, ReadTower(g, b, s, N)
  PROVE  ReadSteps(g, b, s, N)
<1>1. \A A \in SUBSET (1 .. N) :
        g[A] = IF A = {} THEN b ELSE Character(g[A \ {Max(A)}], s[Max(A)])
  BY Zenon DEF ReadTower
<1>2. g[1 .. 0] = b
  <2>1. 1 .. 0 = {} /\ 1 .. 0 \in SUBSET (1 .. N)
    OBVIOUS
  <2> QED BY <1>1, <2>1
<1>3. ASSUME NEW n \in 1 .. N
      PROVE  g[1 .. n] = Character(g[1 .. n - 1], s[n])
  <2> DEFINE A == 1 .. n
  <2>1. n \in Nat /\ A \in SUBSET (1 .. n) /\ A \in SUBSET (1 .. N) /\ A # {} /\ n \in A
        /\ A \ {n} = 1 .. n - 1
    OBVIOUS
  <2> HIDE DEF A
  <2>2. Max(A) = n
    BY <2>1, LargestIs
  <2>3. g[A] = Character(g[A \ {Max(A)}], s[Max(A)])
    BY <1>1, <2>1
  <2> QED BY <2>1, <2>2, <2>3 DEF A
<1> QED BY <1>2, <1>3 DEF ReadSteps

(* The fold over nothing.                                                  *)
LEMMA ReadOfNothing ==
  ASSUME NEW b
  PROVE  FoldLeft(Character, b, <<>>) = b
<1> DEFINE e == <<>>
<1>1. e \in Seq({}) /\ Len(e) = 0
  OBVIOUS
<1> HIDE DEF e
<1>2. PICK g : ReadTower(g, b, e, Len(e)) /\ FoldLeft(Character, b, e) = g[1 .. Len(e)]
  BY <1>1, ReadFold
<1>3. Len(e) \in Nat /\ FoldLeft(Character, b, e) = g[1 .. 0]
  BY <1>1, <1>2
<1>4. ReadSteps(g, b, e, Len(e))
  BY <1>2, <1>3, ReadTowerStep
<1> QED BY <1>3, <1>4 DEF e, ReadSteps

(* The fold over one element more.                                         *)
LEMMA ReadOfAppend ==
  ASSUME NEW S, NEW s \in Seq(S), NEW c \in S, NEW b
  PROVE  FoldLeft(Character, b, Append(s, c)) = Character(FoldLeft(Character, b, s), c)
<1> DEFINE u == Append(s, c)
           n == Len(s)
<1>1. u \in Seq(S) /\ Len(u) = n + 1 /\ u[n + 1] = c /\ \A i \in 1 .. n : u[i] = s[i]
  BY AppendProperties
<1>2. n \in Nat /\ n + 1 \in Nat /\ n + 1 \in 1 .. n + 1 /\ (n + 1) - 1 = n
  BY LenProperties
<1> HIDE DEF u
<1>3. PICK g : ReadTower(g, b, s, n) /\ FoldLeft(Character, b, s) = g[1 .. n]
  BY ReadFold
<1>4. PICK h : ReadTower(h, b, u, n + 1) /\ FoldLeft(Character, b, u) = h[1 .. n + 1]
  <2>1. PICK h : ReadTower(h, b, u, Len(u)) /\ FoldLeft(Character, b, u) = h[1 .. Len(u)]
    BY <1>1, ReadFold
  <2> QED BY <1>1, <2>1
<1> HIDE DEF n
<1>5. /\ g[1 .. 0] = b
      /\ \A k \in 1 .. n : g[1 .. k] = Character(g[1 .. k - 1], s[k])
  BY <1>2, <1>3, ReadTowerStep DEF ReadSteps
<1> DEFINE N == n + 1
<1>6. /\ h[1 .. 0] = b
      /\ \A k \in 1 .. N : h[1 .. k] = Character(h[1 .. k - 1], u[k])
  <2>1. N \in Nat /\ ReadTower(h, b, u, N)
    BY <1>2, <1>4
  <2> HIDE DEF N
  <2>2. ReadSteps(h, b, u, N)
    BY <2>1, ReadTowerStep
  <2> QED BY <2>2 DEF ReadSteps
<1> DEFINE bad == {k \in Nat : k <= n /\ h[1 .. k] # g[1 .. k]}
<1>7. bad = {}
  <2> SUFFICES ASSUME bad # {} PROVE FALSE
    OBVIOUS
  <2>1. bad \in SUBSET Nat
    OBVIOUS
  <2>2. PICK k \in bad : \A j \in bad : k <= j
    <3> HIDE DEF bad
    <3> QED BY <2>1, LeastElement
  <2>3. k \in Nat /\ k <= n /\ h[1 .. k] # g[1 .. k]
    OBVIOUS
  <2>4. k # 0
    BY <1>5, <1>6, <2>3
  <2>5. k \in 1 .. n /\ k \in 1 .. N /\ k - 1 \in Nat /\ k - 1 <= n /\ ~(k <= k - 1)
    BY <1>2, <2>3, <2>4
  <2>6. k - 1 \notin bad
    BY <2>2, <2>5
  <2>7. h[1 .. k - 1] = g[1 .. k - 1]
    BY <2>5, <2>6
  <2>8. u[k] = s[k]
    BY <1>1, <2>5 DEF n
  <2>9. /\ h[1 .. k] = Character(h[1 .. k - 1], u[k])
        /\ g[1 .. k] = Character(g[1 .. k - 1], s[k])
    BY <1>5, <1>6, <2>5
  <2> QED BY <2>3, <2>7, <2>8, <2>9
<1>8. h[1 .. n] = g[1 .. n]
  <2>1. n \in Nat /\ n <= n
    BY <1>2
  <2> QED BY <1>7, <2>1
<1>9. h[1 .. N] = Character(h[1 .. n], c)
  <2>1. N \in 1 .. N /\ N - 1 = n /\ u[N] = c
    BY <1>1, <1>2 DEF n
  <2> HIDE DEF N
  <2> QED BY <1>6, <2>1
<1> QED BY <1>3, <1>4, <1>8, <1>9 DEF u

(* The decoder over bytes.                                                 *)
DecodedTower(it, b, s, n) ==
  it = [A \in SUBSET (1 .. n) |->
          IF A = {} THEN b ELSE DecodeByte(it[A \ {Max(A)}], s[Max(A)])]

(* Such a tower exists for every number of steps.                          *)
LEMMA DecodedTowers ==
  ASSUME NEW b, NEW s
  PROVE  \A n \in Nat : \E it : DecodedTower(it, b, s, n)
<1> DEFINE bad == {n \in Nat : ~(\E it : DecodedTower(it, b, s, n))}
<1> SUFFICES ASSUME bad # {} PROVE FALSE
  OBVIOUS
<1>1. PICK n \in bad : \A k \in bad : n <= k
  <2>1. bad \in SUBSET Nat
    OBVIOUS
  <2> HIDE DEF bad
  <2> QED BY <2>1, LeastElement
<1>2. n # 0
  <2> SUFFICES ASSUME n = 0 PROVE FALSE
    OBVIOUS
  <2> DEFINE it == [A \in {{}} |-> b]
  <2>1. 1 .. n = {} /\ SUBSET (1 .. n) = {{}}
    OBVIOUS
  <2>2. it = [A \in SUBSET (1 .. n) |->
                IF A = {} THEN b ELSE DecodeByte(it[A \ {Max(A)}], s[Max(A)])]
    BY <2>1, Zenon
  <2>3. DecodedTower(it, b, s, n)
    BY <2>2 DEF DecodedTower
  <2> QED BY <2>3
<1> DEFINE m == n - 1
<1>3. n \in Nat /\ m \in Nat /\ ~(n <= m) /\ n \notin 1 .. m
  BY <1>2
<1>4. m \notin bad
  BY <1>1, <1>3
<1>5. PICK g : DecodedTower(g, b, s, m)
  BY <1>3, <1>4
<1>6. \A A \in SUBSET (1 .. n) : A \ {n} \in SUBSET (1 .. m)
  BY <1>3
<1>7. \A A \in SUBSET (1 .. n) : n \notin A => A \in SUBSET (1 .. m)
  BY <1>3
<1>8. \A A \in SUBSET (1 .. m) : A \in SUBSET (1 .. n)
  BY <1>3
<1>9. n \notin bad
  <2> DEFINE h == [A \in SUBSET (1 .. n) |->
                     IF n \in A THEN DecodeByte(g[A \ {n}], s[n]) ELSE g[A]]
  <2>1. \A A \in SUBSET (1 .. m) : n \notin A /\ h[A] = g[A]
    BY <1>3, <1>8
  <2>2. \A A \in SUBSET (1 .. n) : n \in A => h[A] = DecodeByte(g[A \ {n}], s[n])
    OBVIOUS
  <2>3. h = [A \in SUBSET (1 .. n) |-> h[A]]
    OBVIOUS
  <2> HIDE DEF h, m
  <2>4. \A A \in SUBSET (1 .. m) :
          g[A] = IF A = {} THEN b ELSE DecodeByte(g[A \ {Max(A)}], s[Max(A)])
    BY <1>5, Zenon DEF DecodedTower
  <2>5. ASSUME NEW A \in SUBSET (1 .. n)
        PROVE  h[A] = IF A = {} THEN b ELSE DecodeByte(h[A \ {Max(A)}], s[Max(A)])
    <3>1. CASE A = {}
      <4>1. A \in SUBSET (1 .. m)
        BY <3>1
      <4> QED BY <2>1, <2>4, <3>1, <4>1
    <3>2. CASE A # {} /\ n \in A
      <4>1. Max(A) = n
        BY <1>3, <3>2, LargestIs
      <4>2. h[A \ {n}] = g[A \ {n}]
        BY <1>6, <2>1
      <4>3. h[A] = DecodeByte(g[A \ {n}], s[n])
        BY <2>2, <3>2
      <4> QED BY <3>2, <4>1, <4>2, <4>3
    <3>3. CASE A # {} /\ n \notin A
      <4>1. A \in SUBSET (1 .. m)
        BY <1>7, <3>3
      <4>2. A \ {Max(A)} \in SUBSET (1 .. m)
        BY <4>1
      <4>3. h[A] = g[A] /\ h[A \ {Max(A)}] = g[A \ {Max(A)}]
        BY <2>1, <4>1, <4>2
      <4>4. g[A] = DecodeByte(g[A \ {Max(A)}], s[Max(A)])
        BY <2>4, <3>3, <4>1
      <4> QED BY <3>3, <4>3, <4>4
    <3> QED BY <3>1, <3>2, <3>3
  <2>6. DecodedTower(h, b, s, n)
    BY <2>3, <2>5, Zenon DEF DecodedTower
  <2> QED BY <2>6
<1> QED BY <1>1, <1>9

(* FoldLeft is the top of the tower.                                       *)
LEMMA DecodedFold ==
  ASSUME NEW S, NEW s \in Seq(S), NEW b
  PROVE  \E g : /\ DecodedTower(g, b, s, Len(s))
                /\ FoldLeft(DecodeByte, b, s) = g[1 .. Len(s)]
<1>1. DOMAIN s = 1 .. Len(s) /\ Len(s) \in Nat
  BY LenProperties
<1> DEFINE D == DOMAIN s
           IT(it) == it = [A \in SUBSET D |->
                             IF A = {} THEN b ELSE DecodeByte(it[A \ {Max(A)}], s[Max(A)])]
<1>2. FoldLeft(DecodeByte, b, s) = (CHOOSE it : IT(it))[D]
  BY DEF FoldLeft, MapThenFoldSet
<1>3. \E it : DecodedTower(it, b, s, Len(s))
  BY <1>1, DecodedTowers
<1>4. \A it : IT(it) <=> DecodedTower(it, b, s, Len(s))
  BY <1>1 DEF DecodedTower
<1> HIDE DEF IT, D
<1>5. IT(CHOOSE it : IT(it))
  BY <1>3, <1>4, Zenon
<1>6. D = 1 .. Len(s)
  BY <1>1 DEF D
<1> QED BY <1>2, <1>4, <1>5, <1>6

DecodedSteps(g, b, s, N) ==
  /\ g[1 .. 0] = b
  /\ \A n \in 1 .. N : g[1 .. n] = DecodeByte(g[1 .. n - 1], s[n])

(* A tower goes up one element at a time.                                  *)
LEMMA DecodedTowerStep ==
  ASSUME NEW b, NEW s, NEW N \in Nat, NEW g, DecodedTower(g, b, s, N)
  PROVE  DecodedSteps(g, b, s, N)
<1>1. \A A \in SUBSET (1 .. N) :
        g[A] = IF A = {} THEN b ELSE DecodeByte(g[A \ {Max(A)}], s[Max(A)])
  BY Zenon DEF DecodedTower
<1>2. g[1 .. 0] = b
  <2>1. 1 .. 0 = {} /\ 1 .. 0 \in SUBSET (1 .. N)
    OBVIOUS
  <2> QED BY <1>1, <2>1
<1>3. ASSUME NEW n \in 1 .. N
      PROVE  g[1 .. n] = DecodeByte(g[1 .. n - 1], s[n])
  <2> DEFINE A == 1 .. n
  <2>1. n \in Nat /\ A \in SUBSET (1 .. n) /\ A \in SUBSET (1 .. N) /\ A # {} /\ n \in A
        /\ A \ {n} = 1 .. n - 1
    OBVIOUS
  <2> HIDE DEF A
  <2>2. Max(A) = n
    BY <2>1, LargestIs
  <2>3. g[A] = DecodeByte(g[A \ {Max(A)}], s[Max(A)])
    BY <1>1, <2>1
  <2> QED BY <2>1, <2>2, <2>3 DEF A
<1> QED BY <1>2, <1>3 DEF DecodedSteps

(* The fold over nothing.                                                  *)
LEMMA DecodedOfNothing ==
  ASSUME NEW b
  PROVE  FoldLeft(DecodeByte, b, <<>>) = b
<1> DEFINE e == <<>>
<1>1. e \in Seq({}) /\ Len(e) = 0
  OBVIOUS
<1> HIDE DEF e
<1>2. PICK g : DecodedTower(g, b, e, Len(e)) /\ FoldLeft(DecodeByte, b, e) = g[1 .. Len(e)]
  BY <1>1, DecodedFold
<1>3. Len(e) \in Nat /\ FoldLeft(DecodeByte, b, e) = g[1 .. 0]
  BY <1>1, <1>2
<1>4. DecodedSteps(g, b, e, Len(e))
  BY <1>2, <1>3, DecodedTowerStep
<1> QED BY <1>3, <1>4 DEF e, DecodedSteps

(* The fold over one element more.                                         *)
LEMMA DecodedOfAppend ==
  ASSUME NEW S, NEW s \in Seq(S), NEW c \in S, NEW b
  PROVE  FoldLeft(DecodeByte, b, Append(s, c)) = DecodeByte(FoldLeft(DecodeByte, b, s), c)
<1> DEFINE u == Append(s, c)
           n == Len(s)
<1>1. u \in Seq(S) /\ Len(u) = n + 1 /\ u[n + 1] = c /\ \A i \in 1 .. n : u[i] = s[i]
  BY AppendProperties
<1>2. n \in Nat /\ n + 1 \in Nat /\ n + 1 \in 1 .. n + 1 /\ (n + 1) - 1 = n
  BY LenProperties
<1> HIDE DEF u
<1>3. PICK g : DecodedTower(g, b, s, n) /\ FoldLeft(DecodeByte, b, s) = g[1 .. n]
  BY DecodedFold
<1>4. PICK h : DecodedTower(h, b, u, n + 1) /\ FoldLeft(DecodeByte, b, u) = h[1 .. n + 1]
  <2>1. PICK h : DecodedTower(h, b, u, Len(u)) /\ FoldLeft(DecodeByte, b, u) = h[1 .. Len(u)]
    BY <1>1, DecodedFold
  <2> QED BY <1>1, <2>1
<1> HIDE DEF n
<1>5. /\ g[1 .. 0] = b
      /\ \A k \in 1 .. n : g[1 .. k] = DecodeByte(g[1 .. k - 1], s[k])
  BY <1>2, <1>3, DecodedTowerStep DEF DecodedSteps
<1> DEFINE N == n + 1
<1>6. /\ h[1 .. 0] = b
      /\ \A k \in 1 .. N : h[1 .. k] = DecodeByte(h[1 .. k - 1], u[k])
  <2>1. N \in Nat /\ DecodedTower(h, b, u, N)
    BY <1>2, <1>4
  <2> HIDE DEF N
  <2>2. DecodedSteps(h, b, u, N)
    BY <2>1, DecodedTowerStep
  <2> QED BY <2>2 DEF DecodedSteps
<1> DEFINE bad == {k \in Nat : k <= n /\ h[1 .. k] # g[1 .. k]}
<1>7. bad = {}
  <2> SUFFICES ASSUME bad # {} PROVE FALSE
    OBVIOUS
  <2>1. bad \in SUBSET Nat
    OBVIOUS
  <2>2. PICK k \in bad : \A j \in bad : k <= j
    <3> HIDE DEF bad
    <3> QED BY <2>1, LeastElement
  <2>3. k \in Nat /\ k <= n /\ h[1 .. k] # g[1 .. k]
    OBVIOUS
  <2>4. k # 0
    BY <1>5, <1>6, <2>3
  <2>5. k \in 1 .. n /\ k \in 1 .. N /\ k - 1 \in Nat /\ k - 1 <= n /\ ~(k <= k - 1)
    BY <1>2, <2>3, <2>4
  <2>6. k - 1 \notin bad
    BY <2>2, <2>5
  <2>7. h[1 .. k - 1] = g[1 .. k - 1]
    BY <2>5, <2>6
  <2>8. u[k] = s[k]
    BY <1>1, <2>5 DEF n
  <2>9. /\ h[1 .. k] = DecodeByte(h[1 .. k - 1], u[k])
        /\ g[1 .. k] = DecodeByte(g[1 .. k - 1], s[k])
    BY <1>5, <1>6, <2>5
  <2> QED BY <2>3, <2>7, <2>8, <2>9
<1>8. h[1 .. n] = g[1 .. n]
  <2>1. n \in Nat /\ n <= n
    BY <1>2
  <2> QED BY <1>7, <2>1
<1>9. h[1 .. N] = DecodeByte(h[1 .. n], c)
  <2>1. N \in 1 .. N /\ N - 1 = n /\ u[N] = c
    BY <1>1, <1>2 DEF n
  <2> HIDE DEF N
  <2> QED BY <1>6, <2>1
<1> QED BY <1>3, <1>4, <1>8, <1>9 DEF u

(* Raw rows taken one after the other.                                     *)
TakenTower(it, b, s, n) ==
  it = [A \in SUBSET (1 .. n) |->
          IF A = {} THEN b ELSE Consume(it[A \ {Max(A)}], s[Max(A)])]

(* Such a tower exists for every number of steps.                          *)
LEMMA TakenTowers ==
  ASSUME NEW b, NEW s
  PROVE  \A n \in Nat : \E it : TakenTower(it, b, s, n)
<1> DEFINE bad == {n \in Nat : ~(\E it : TakenTower(it, b, s, n))}
<1> SUFFICES ASSUME bad # {} PROVE FALSE
  OBVIOUS
<1>1. PICK n \in bad : \A k \in bad : n <= k
  <2>1. bad \in SUBSET Nat
    OBVIOUS
  <2> HIDE DEF bad
  <2> QED BY <2>1, LeastElement
<1>2. n # 0
  <2> SUFFICES ASSUME n = 0 PROVE FALSE
    OBVIOUS
  <2> DEFINE it == [A \in {{}} |-> b]
  <2>1. 1 .. n = {} /\ SUBSET (1 .. n) = {{}}
    OBVIOUS
  <2>2. it = [A \in SUBSET (1 .. n) |->
                IF A = {} THEN b ELSE Consume(it[A \ {Max(A)}], s[Max(A)])]
    BY <2>1, Zenon
  <2>3. TakenTower(it, b, s, n)
    BY <2>2 DEF TakenTower
  <2> QED BY <2>3
<1> DEFINE m == n - 1
<1>3. n \in Nat /\ m \in Nat /\ ~(n <= m) /\ n \notin 1 .. m
  BY <1>2
<1>4. m \notin bad
  BY <1>1, <1>3
<1>5. PICK g : TakenTower(g, b, s, m)
  BY <1>3, <1>4
<1>6. \A A \in SUBSET (1 .. n) : A \ {n} \in SUBSET (1 .. m)
  BY <1>3
<1>7. \A A \in SUBSET (1 .. n) : n \notin A => A \in SUBSET (1 .. m)
  BY <1>3
<1>8. \A A \in SUBSET (1 .. m) : A \in SUBSET (1 .. n)
  BY <1>3
<1>9. n \notin bad
  <2> DEFINE h == [A \in SUBSET (1 .. n) |->
                     IF n \in A THEN Consume(g[A \ {n}], s[n]) ELSE g[A]]
  <2>1. \A A \in SUBSET (1 .. m) : n \notin A /\ h[A] = g[A]
    BY <1>3, <1>8
  <2>2. \A A \in SUBSET (1 .. n) : n \in A => h[A] = Consume(g[A \ {n}], s[n])
    OBVIOUS
  <2>3. h = [A \in SUBSET (1 .. n) |-> h[A]]
    OBVIOUS
  <2> HIDE DEF h, m
  <2>4. \A A \in SUBSET (1 .. m) :
          g[A] = IF A = {} THEN b ELSE Consume(g[A \ {Max(A)}], s[Max(A)])
    BY <1>5, Zenon DEF TakenTower
  <2>5. ASSUME NEW A \in SUBSET (1 .. n)
        PROVE  h[A] = IF A = {} THEN b ELSE Consume(h[A \ {Max(A)}], s[Max(A)])
    <3>1. CASE A = {}
      <4>1. A \in SUBSET (1 .. m)
        BY <3>1
      <4> QED BY <2>1, <2>4, <3>1, <4>1
    <3>2. CASE A # {} /\ n \in A
      <4>1. Max(A) = n
        BY <1>3, <3>2, LargestIs
      <4>2. h[A \ {n}] = g[A \ {n}]
        BY <1>6, <2>1
      <4>3. h[A] = Consume(g[A \ {n}], s[n])
        BY <2>2, <3>2
      <4> QED BY <3>2, <4>1, <4>2, <4>3
    <3>3. CASE A # {} /\ n \notin A
      <4>1. A \in SUBSET (1 .. m)
        BY <1>7, <3>3
      <4>2. A \ {Max(A)} \in SUBSET (1 .. m)
        BY <4>1
      <4>3. h[A] = g[A] /\ h[A \ {Max(A)}] = g[A \ {Max(A)}]
        BY <2>1, <4>1, <4>2
      <4>4. g[A] = Consume(g[A \ {Max(A)}], s[Max(A)])
        BY <2>4, <3>3, <4>1
      <4> QED BY <3>3, <4>3, <4>4
    <3> QED BY <3>1, <3>2, <3>3
  <2>6. TakenTower(h, b, s, n)
    BY <2>3, <2>5, Zenon DEF TakenTower
  <2> QED BY <2>6
<1> QED BY <1>1, <1>9

(* FoldLeft is the top of the tower.                                       *)
LEMMA TakenFold ==
  ASSUME NEW S, NEW s \in Seq(S), NEW b
  PROVE  \E g : /\ TakenTower(g, b, s, Len(s))
                /\ FoldLeft(Consume, b, s) = g[1 .. Len(s)]
<1>1. DOMAIN s = 1 .. Len(s) /\ Len(s) \in Nat
  BY LenProperties
<1> DEFINE D == DOMAIN s
           IT(it) == it = [A \in SUBSET D |->
                             IF A = {} THEN b ELSE Consume(it[A \ {Max(A)}], s[Max(A)])]
<1>2. FoldLeft(Consume, b, s) = (CHOOSE it : IT(it))[D]
  BY DEF FoldLeft, MapThenFoldSet
<1>3. \E it : TakenTower(it, b, s, Len(s))
  BY <1>1, TakenTowers
<1>4. \A it : IT(it) <=> TakenTower(it, b, s, Len(s))
  BY <1>1 DEF TakenTower
<1> HIDE DEF IT, D
<1>5. IT(CHOOSE it : IT(it))
  BY <1>3, <1>4, Zenon
<1>6. D = 1 .. Len(s)
  BY <1>1 DEF D
<1> QED BY <1>2, <1>4, <1>5, <1>6

TakenSteps(g, b, s, N) ==
  /\ g[1 .. 0] = b
  /\ \A n \in 1 .. N : g[1 .. n] = Consume(g[1 .. n - 1], s[n])

(* A tower goes up one element at a time.                                  *)
LEMMA TakenTowerStep ==
  ASSUME NEW b, NEW s, NEW N \in Nat, NEW g, TakenTower(g, b, s, N)
  PROVE  TakenSteps(g, b, s, N)
<1>1. \A A \in SUBSET (1 .. N) :
        g[A] = IF A = {} THEN b ELSE Consume(g[A \ {Max(A)}], s[Max(A)])
  BY Zenon DEF TakenTower
<1>2. g[1 .. 0] = b
  <2>1. 1 .. 0 = {} /\ 1 .. 0 \in SUBSET (1 .. N)
    OBVIOUS
  <2> QED BY <1>1, <2>1
<1>3. ASSUME NEW n \in 1 .. N
      PROVE  g[1 .. n] = Consume(g[1 .. n - 1], s[n])
  <2> DEFINE A == 1 .. n
  <2>1. n \in Nat /\ A \in SUBSET (1 .. n) /\ A \in SUBSET (1 .. N) /\ A # {} /\ n \in A
        /\ A \ {n} = 1 .. n - 1
    OBVIOUS
  <2> HIDE DEF A
  <2>2. Max(A) = n
    BY <2>1, LargestIs
  <2>3. g[A] = Consume(g[A \ {Max(A)}], s[Max(A)])
    BY <1>1, <2>1
  <2> QED BY <2>1, <2>2, <2>3 DEF A
<1> QED BY <1>2, <1>3 DEF TakenSteps

(* The fold over nothing.                                                  *)
LEMMA TakenOfNothing ==
  ASSUME NEW b
  PROVE  FoldLeft(Consume, b, <<>>) = b
<1> DEFINE e == <<>>
<1>1. e \in Seq({}) /\ Len(e) = 0
  OBVIOUS
<1> HIDE DEF e
<1>2. PICK g : TakenTower(g, b, e, Len(e)) /\ FoldLeft(Consume, b, e) = g[1 .. Len(e)]
  BY <1>1, TakenFold
<1>3. Len(e) \in Nat /\ FoldLeft(Consume, b, e) = g[1 .. 0]
  BY <1>1, <1>2
<1>4. TakenSteps(g, b, e, Len(e))
  BY <1>2, <1>3, TakenTowerStep
<1> QED BY <1>3, <1>4 DEF e, TakenSteps

(* The fold over one element more.                                         *)
LEMMA TakenOfAppend ==
  ASSUME NEW S, NEW s \in Seq(S), NEW c \in S, NEW b
  PROVE  FoldLeft(Consume, b, Append(s, c)) = Consume(FoldLeft(Consume, b, s), c)
<1> DEFINE u == Append(s, c)
           n == Len(s)
<1>1. u \in Seq(S) /\ Len(u) = n + 1 /\ u[n + 1] = c /\ \A i \in 1 .. n : u[i] = s[i]
  BY AppendProperties
<1>2. n \in Nat /\ n + 1 \in Nat /\ n + 1 \in 1 .. n + 1 /\ (n + 1) - 1 = n
  BY LenProperties
<1> HIDE DEF u
<1>3. PICK g : TakenTower(g, b, s, n) /\ FoldLeft(Consume, b, s) = g[1 .. n]
  BY TakenFold
<1>4. PICK h : TakenTower(h, b, u, n + 1) /\ FoldLeft(Consume, b, u) = h[1 .. n + 1]
  <2>1. PICK h : TakenTower(h, b, u, Len(u)) /\ FoldLeft(Consume, b, u) = h[1 .. Len(u)]
    BY <1>1, TakenFold
  <2> QED BY <1>1, <2>1
<1> HIDE DEF n
<1>5. /\ g[1 .. 0] = b
      /\ \A k \in 1 .. n : g[1 .. k] = Consume(g[1 .. k - 1], s[k])
  BY <1>2, <1>3, TakenTowerStep DEF TakenSteps
<1> DEFINE N == n + 1
<1>6. /\ h[1 .. 0] = b
      /\ \A k \in 1 .. N : h[1 .. k] = Consume(h[1 .. k - 1], u[k])
  <2>1. N \in Nat /\ TakenTower(h, b, u, N)
    BY <1>2, <1>4
  <2> HIDE DEF N
  <2>2. TakenSteps(h, b, u, N)
    BY <2>1, TakenTowerStep
  <2> QED BY <2>2 DEF TakenSteps
<1> DEFINE bad == {k \in Nat : k <= n /\ h[1 .. k] # g[1 .. k]}
<1>7. bad = {}
  <2> SUFFICES ASSUME bad # {} PROVE FALSE
    OBVIOUS
  <2>1. bad \in SUBSET Nat
    OBVIOUS
  <2>2. PICK k \in bad : \A j \in bad : k <= j
    <3> HIDE DEF bad
    <3> QED BY <2>1, LeastElement
  <2>3. k \in Nat /\ k <= n /\ h[1 .. k] # g[1 .. k]
    OBVIOUS
  <2>4. k # 0
    BY <1>5, <1>6, <2>3
  <2>5. k \in 1 .. n /\ k \in 1 .. N /\ k - 1 \in Nat /\ k - 1 <= n /\ ~(k <= k - 1)
    BY <1>2, <2>3, <2>4
  <2>6. k - 1 \notin bad
    BY <2>2, <2>5
  <2>7. h[1 .. k - 1] = g[1 .. k - 1]
    BY <2>5, <2>6
  <2>8. u[k] = s[k]
    BY <1>1, <2>5 DEF n
  <2>9. /\ h[1 .. k] = Consume(h[1 .. k - 1], u[k])
        /\ g[1 .. k] = Consume(g[1 .. k - 1], s[k])
    BY <1>5, <1>6, <2>5
  <2> QED BY <2>3, <2>7, <2>8, <2>9
<1>8. h[1 .. n] = g[1 .. n]
  <2>1. n \in Nat /\ n <= n
    BY <1>2
  <2> QED BY <1>7, <2>1
<1>9. h[1 .. N] = Consume(h[1 .. n], c)
  <2>1. N \in 1 .. N /\ N - 1 = n /\ u[N] = c
    BY <1>1, <1>2 DEF n
  <2> HIDE DEF N
  <2> QED BY <1>6, <2>1
<1> QED BY <1>3, <1>4, <1>8, <1>9 DEF u

Longer(n, c) == n + Len(Encoding[c])

(* The bytes of a text.                                                    *)
CountedTower(it, b, s, n) ==
  it = [A \in SUBSET (1 .. n) |->
          IF A = {} THEN b ELSE Longer(it[A \ {Max(A)}], s[Max(A)])]

(* Such a tower exists for every number of steps.                          *)
LEMMA CountedTowers ==
  ASSUME NEW b, NEW s
  PROVE  \A n \in Nat : \E it : CountedTower(it, b, s, n)
<1> DEFINE bad == {n \in Nat : ~(\E it : CountedTower(it, b, s, n))}
<1> SUFFICES ASSUME bad # {} PROVE FALSE
  OBVIOUS
<1>1. PICK n \in bad : \A k \in bad : n <= k
  <2>1. bad \in SUBSET Nat
    OBVIOUS
  <2> HIDE DEF bad
  <2> QED BY <2>1, LeastElement
<1>2. n # 0
  <2> SUFFICES ASSUME n = 0 PROVE FALSE
    OBVIOUS
  <2> DEFINE it == [A \in {{}} |-> b]
  <2>1. 1 .. n = {} /\ SUBSET (1 .. n) = {{}}
    OBVIOUS
  <2>2. it = [A \in SUBSET (1 .. n) |->
                IF A = {} THEN b ELSE Longer(it[A \ {Max(A)}], s[Max(A)])]
    BY <2>1, Zenon
  <2>3. CountedTower(it, b, s, n)
    BY <2>2 DEF CountedTower
  <2> QED BY <2>3
<1> DEFINE m == n - 1
<1>3. n \in Nat /\ m \in Nat /\ ~(n <= m) /\ n \notin 1 .. m
  BY <1>2
<1>4. m \notin bad
  BY <1>1, <1>3
<1>5. PICK g : CountedTower(g, b, s, m)
  BY <1>3, <1>4
<1>6. \A A \in SUBSET (1 .. n) : A \ {n} \in SUBSET (1 .. m)
  BY <1>3
<1>7. \A A \in SUBSET (1 .. n) : n \notin A => A \in SUBSET (1 .. m)
  BY <1>3
<1>8. \A A \in SUBSET (1 .. m) : A \in SUBSET (1 .. n)
  BY <1>3
<1>9. n \notin bad
  <2> DEFINE h == [A \in SUBSET (1 .. n) |->
                     IF n \in A THEN Longer(g[A \ {n}], s[n]) ELSE g[A]]
  <2>1. \A A \in SUBSET (1 .. m) : n \notin A /\ h[A] = g[A]
    BY <1>3, <1>8
  <2>2. \A A \in SUBSET (1 .. n) : n \in A => h[A] = Longer(g[A \ {n}], s[n])
    OBVIOUS
  <2>3. h = [A \in SUBSET (1 .. n) |-> h[A]]
    OBVIOUS
  <2> HIDE DEF h, m
  <2>4. \A A \in SUBSET (1 .. m) :
          g[A] = IF A = {} THEN b ELSE Longer(g[A \ {Max(A)}], s[Max(A)])
    BY <1>5, Zenon DEF CountedTower
  <2>5. ASSUME NEW A \in SUBSET (1 .. n)
        PROVE  h[A] = IF A = {} THEN b ELSE Longer(h[A \ {Max(A)}], s[Max(A)])
    <3>1. CASE A = {}
      <4>1. A \in SUBSET (1 .. m)
        BY <3>1
      <4> QED BY <2>1, <2>4, <3>1, <4>1
    <3>2. CASE A # {} /\ n \in A
      <4>1. Max(A) = n
        BY <1>3, <3>2, LargestIs
      <4>2. h[A \ {n}] = g[A \ {n}]
        BY <1>6, <2>1
      <4>3. h[A] = Longer(g[A \ {n}], s[n])
        BY <2>2, <3>2
      <4> QED BY <3>2, <4>1, <4>2, <4>3
    <3>3. CASE A # {} /\ n \notin A
      <4>1. A \in SUBSET (1 .. m)
        BY <1>7, <3>3
      <4>2. A \ {Max(A)} \in SUBSET (1 .. m)
        BY <4>1
      <4>3. h[A] = g[A] /\ h[A \ {Max(A)}] = g[A \ {Max(A)}]
        BY <2>1, <4>1, <4>2
      <4>4. g[A] = Longer(g[A \ {Max(A)}], s[Max(A)])
        BY <2>4, <3>3, <4>1
      <4> QED BY <3>3, <4>3, <4>4
    <3> QED BY <3>1, <3>2, <3>3
  <2>6. CountedTower(h, b, s, n)
    BY <2>3, <2>5, Zenon DEF CountedTower
  <2> QED BY <2>6
<1> QED BY <1>1, <1>9

(* FoldLeft is the top of the tower.                                       *)
LEMMA CountedFold ==
  ASSUME NEW S, NEW s \in Seq(S), NEW b
  PROVE  \E g : /\ CountedTower(g, b, s, Len(s))
                /\ FoldLeft(Longer, b, s) = g[1 .. Len(s)]
<1>1. DOMAIN s = 1 .. Len(s) /\ Len(s) \in Nat
  BY LenProperties
<1> DEFINE D == DOMAIN s
           IT(it) == it = [A \in SUBSET D |->
                             IF A = {} THEN b ELSE Longer(it[A \ {Max(A)}], s[Max(A)])]
<1>2. FoldLeft(Longer, b, s) = (CHOOSE it : IT(it))[D]
  BY DEF FoldLeft, MapThenFoldSet
<1>3. \E it : CountedTower(it, b, s, Len(s))
  BY <1>1, CountedTowers
<1>4. \A it : IT(it) <=> CountedTower(it, b, s, Len(s))
  BY <1>1 DEF CountedTower
<1> HIDE DEF IT, D
<1>5. IT(CHOOSE it : IT(it))
  BY <1>3, <1>4, Zenon
<1>6. D = 1 .. Len(s)
  BY <1>1 DEF D
<1> QED BY <1>2, <1>4, <1>5, <1>6

CountedSteps(g, b, s, N) ==
  /\ g[1 .. 0] = b
  /\ \A n \in 1 .. N : g[1 .. n] = Longer(g[1 .. n - 1], s[n])

(* A tower goes up one element at a time.                                  *)
LEMMA CountedTowerStep ==
  ASSUME NEW b, NEW s, NEW N \in Nat, NEW g, CountedTower(g, b, s, N)
  PROVE  CountedSteps(g, b, s, N)
<1>1. \A A \in SUBSET (1 .. N) :
        g[A] = IF A = {} THEN b ELSE Longer(g[A \ {Max(A)}], s[Max(A)])
  BY Zenon DEF CountedTower
<1>2. g[1 .. 0] = b
  <2>1. 1 .. 0 = {} /\ 1 .. 0 \in SUBSET (1 .. N)
    OBVIOUS
  <2> QED BY <1>1, <2>1
<1>3. ASSUME NEW n \in 1 .. N
      PROVE  g[1 .. n] = Longer(g[1 .. n - 1], s[n])
  <2> DEFINE A == 1 .. n
  <2>1. n \in Nat /\ A \in SUBSET (1 .. n) /\ A \in SUBSET (1 .. N) /\ A # {} /\ n \in A
        /\ A \ {n} = 1 .. n - 1
    OBVIOUS
  <2> HIDE DEF A
  <2>2. Max(A) = n
    BY <2>1, LargestIs
  <2>3. g[A] = Longer(g[A \ {Max(A)}], s[Max(A)])
    BY <1>1, <2>1
  <2> QED BY <2>1, <2>2, <2>3 DEF A
<1> QED BY <1>2, <1>3 DEF CountedSteps

(* The fold over nothing.                                                  *)
LEMMA CountedOfNothing ==
  ASSUME NEW b
  PROVE  FoldLeft(Longer, b, <<>>) = b
<1> DEFINE e == <<>>
<1>1. e \in Seq({}) /\ Len(e) = 0
  OBVIOUS
<1> HIDE DEF e
<1>2. PICK g : CountedTower(g, b, e, Len(e)) /\ FoldLeft(Longer, b, e) = g[1 .. Len(e)]
  BY <1>1, CountedFold
<1>3. Len(e) \in Nat /\ FoldLeft(Longer, b, e) = g[1 .. 0]
  BY <1>1, <1>2
<1>4. CountedSteps(g, b, e, Len(e))
  BY <1>2, <1>3, CountedTowerStep
<1> QED BY <1>3, <1>4 DEF e, CountedSteps

(* The fold over one element more.                                         *)
LEMMA CountedOfAppend ==
  ASSUME NEW S, NEW s \in Seq(S), NEW c \in S, NEW b
  PROVE  FoldLeft(Longer, b, Append(s, c)) = Longer(FoldLeft(Longer, b, s), c)
<1> DEFINE u == Append(s, c)
           n == Len(s)
<1>1. u \in Seq(S) /\ Len(u) = n + 1 /\ u[n + 1] = c /\ \A i \in 1 .. n : u[i] = s[i]
  BY AppendProperties
<1>2. n \in Nat /\ n + 1 \in Nat /\ n + 1 \in 1 .. n + 1 /\ (n + 1) - 1 = n
  BY LenProperties
<1> HIDE DEF u
<1>3. PICK g : CountedTower(g, b, s, n) /\ FoldLeft(Longer, b, s) = g[1 .. n]
  BY CountedFold
<1>4. PICK h : CountedTower(h, b, u, n + 1) /\ FoldLeft(Longer, b, u) = h[1 .. n + 1]
  <2>1. PICK h : CountedTower(h, b, u, Len(u)) /\ FoldLeft(Longer, b, u) = h[1 .. Len(u)]
    BY <1>1, CountedFold
  <2> QED BY <1>1, <2>1
<1> HIDE DEF n
<1>5. /\ g[1 .. 0] = b
      /\ \A k \in 1 .. n : g[1 .. k] = Longer(g[1 .. k - 1], s[k])
  BY <1>2, <1>3, CountedTowerStep DEF CountedSteps
<1> DEFINE N == n + 1
<1>6. /\ h[1 .. 0] = b
      /\ \A k \in 1 .. N : h[1 .. k] = Longer(h[1 .. k - 1], u[k])
  <2>1. N \in Nat /\ CountedTower(h, b, u, N)
    BY <1>2, <1>4
  <2> HIDE DEF N
  <2>2. CountedSteps(h, b, u, N)
    BY <2>1, CountedTowerStep
  <2> QED BY <2>2 DEF CountedSteps
<1> DEFINE bad == {k \in Nat : k <= n /\ h[1 .. k] # g[1 .. k]}
<1>7. bad = {}
  <2> SUFFICES ASSUME bad # {} PROVE FALSE
    OBVIOUS
  <2>1. bad \in SUBSET Nat
    OBVIOUS
  <2>2. PICK k \in bad : \A j \in bad : k <= j
    <3> HIDE DEF bad
    <3> QED BY <2>1, LeastElement
  <2>3. k \in Nat /\ k <= n /\ h[1 .. k] # g[1 .. k]
    OBVIOUS
  <2>4. k # 0
    BY <1>5, <1>6, <2>3
  <2>5. k \in 1 .. n /\ k \in 1 .. N /\ k - 1 \in Nat /\ k - 1 <= n /\ ~(k <= k - 1)
    BY <1>2, <2>3, <2>4
  <2>6. k - 1 \notin bad
    BY <2>2, <2>5
  <2>7. h[1 .. k - 1] = g[1 .. k - 1]
    BY <2>5, <2>6
  <2>8. u[k] = s[k]
    BY <1>1, <2>5 DEF n
  <2>9. /\ h[1 .. k] = Longer(h[1 .. k - 1], u[k])
        /\ g[1 .. k] = Longer(g[1 .. k - 1], s[k])
    BY <1>5, <1>6, <2>5
  <2> QED BY <2>3, <2>7, <2>8, <2>9
<1>8. h[1 .. n] = g[1 .. n]
  <2>1. n \in Nat /\ n <= n
    BY <1>2
  <2> QED BY <1>7, <2>1
<1>9. h[1 .. N] = Longer(h[1 .. n], c)
  <2>1. N \in 1 .. N /\ N - 1 = n /\ u[N] = c
    BY <1>1, <1>2 DEF n
  <2> HIDE DEF N
  <2> QED BY <1>6, <2>1
<1> QED BY <1>3, <1>4, <1>8, <1>9 DEF u

(* A sequence that is not empty is its front and its last.                 *)
LEMMA SplitLast ==
  ASSUME NEW S, NEW s \in Seq(S), s # <<>>
  PROVE  /\ Front(s) \in Seq(S) /\ Last(s) \in S /\ s = Append(Front(s), Last(s))
         /\ Len(s) > 0 /\ Len(Front(s)) + 1 = Len(s)
<1>1. Len(s) \in Nat /\ Len(s) # 0
  BY LenProperties, EmptySeq
<1>2. Len(s) > 0
  BY <1>1
<1>3. /\ Front(s) \in Seq(S) /\ Len(Front(s)) = Len(s) - 1
      /\ Last(s) \in S /\ Append(Front(s), Last(s)) = s
  BY <1>2, FrontIs
<1> QED BY <1>1, <1>2, <1>3

(* What Append makes, taken apart again.                                   *)
LEMMA AppendIsNot ==
  ASSUME NEW S, NEW s \in Seq(S), NEW c \in S
  PROVE  /\ Append(s, c) \in Seq(S) /\ Append(s, c) # <<>>
         /\ Len(Append(s, c)) = Len(s) + 1 /\ Len(s) \in Nat
         /\ Last(Append(s, c)) = c /\ Front(Append(s, c)) = s
<1> DEFINE u == Append(s, c)
           n == Len(s)
<1>1. u \in Seq(S) /\ Len(u) = n + 1 /\ u[n + 1] = c /\ \A i \in 1 .. n : u[i] = s[i]
  BY AppendProperties
<1>2. n \in Nat
  BY LenProperties
<1> HIDE DEF u, n
<1>3. u # <<>> /\ Len(u) > 0 /\ Len(u) - 1 = n
  <2>1. Len(u) # 0 /\ Len(u) > 0 /\ Len(u) - 1 = n
    BY <1>1, <1>2
  <2> QED BY <2>1
<1>4. Last(u) = c
  BY <1>1 DEF Last
<1>5. Front(u) \in Seq(S) /\ Len(Front(u)) = n /\ \A i \in 1 .. n : Front(u)[i] = u[i]
  <2>1. /\ Front(u) \in Seq(S) /\ Len(Front(u)) = Len(u) - 1
        /\ \A i \in 1 .. Len(u) - 1 : Front(u)[i] = u[i]
    BY <1>1, <1>3, FrontIs
  <2> QED BY <1>3, <2>1
<1> DEFINE f == Front(u)
<1> HIDE DEF f
<1>6. f = s
  <2>1. f \in Seq(S) /\ Len(f) = Len(s) /\ \A i \in 1 .. Len(f) : f[i] = s[i]
    BY <1>1, <1>5 DEF f, n
  <2> QED BY <2>1, SeqEqual
<1> QED BY <1>1, <1>2, <1>3, <1>4, <1>6 DEF u, n, f

(* What follows the last separator ends as the record does.                *)
LEMMA ClosesTheField ==
  ASSUME NEW S, NEW r \in Seq(S), NEW c
  PROVE  Closes(r, c) <=> Closes(Cur(r), c)
<1>1. Even(r) <=> Even(Cur(r))
  BY EvenOfCur
<1>2. CASE r = <<>>
  BY <1>2, EmptyRecord
<1>3. CASE r # <<>>
  <2> DEFINE f == Front(r)
             d == Last(r)
  <2>1. f \in Seq(S) /\ d \in S /\ r = Append(f, d) /\ Len(r) > 0
    BY <1>3, SplitLast
  <2> HIDE DEF f, d
  <2>2. CASE Separates(f, d)
    <3>1. Cur(r) = <<>> /\ d # CR
      BY <2>1, <2>2, RecordStep DEF Separates, Comma, CR
    <3>2. Last(r) = d
      BY DEF d
    <3>3. ~(Len(<<>>) > 0)
      OBVIOUS
    <3> QED BY <3>1, <3>2, <3>3 DEF Closes
  <2>3. CASE ~Separates(f, d)
    <3>1. Cur(r) = Append(Cur(f), d) /\ Cur(f) \in Seq(S)
      BY <2>1, <2>3, RecordStep
    <3>2. Last(Cur(r)) = d /\ Len(Cur(r)) = Len(Cur(f)) + 1 /\ Len(Cur(f)) \in Nat
      BY <2>1, <3>1, AppendIsNot
    <3>3. Len(Cur(r)) > 0
      BY <3>2
    <3>4. Last(r) = d
      BY DEF d
    <3> QED BY <1>1, <2>1, <3>2, <3>3, <3>4 DEF Closes
  <2> QED BY <2>2, <2>3
<1> QED BY <1>2, <1>3

(***************************************************************************)
(* A text, one character further: what it has of finished records, of      *)
(* finished fields, and the field at its end.                              *)
(***************************************************************************)
DoneFields(t) == Done(Rest(t))
OpenField(t) == Cur(Rest(t))

(* The parts of a text, by which its fields and quotes can be told.        *)
LEMMA TextHas ==
  ASSUME NEW S, NEW t \in Seq(S)
  PROVE  /\ CompleteRecords(t) \in Seq(Seq(S)) /\ Rest(t) \in Seq(S)
         /\ DoneFields(t) \in Seq(Seq(S)) /\ OpenField(t) \in Seq(S)
         /\ Fields(Rest(t)) = Append(DoneFields(t), OpenField(t))
         /\ Even(t) <=> Even(OpenField(t))
         /\ \A c : Closes(t, c) <=> Closes(OpenField(t), c)
<1>1. Rest(t) \in Seq(S)
  BY RestEnds
<1>2. CompleteRecords(t) \in Seq(Seq(S))
  <2>1. CutsOf(t, RecordEnds(t), 2)
    BY RecordCuts
  <2>2. Whole(t, RecordEnds(t), 2) \in Seq(Seq(S))
    BY <2>1, WholeAndOpen
  <2> QED BY <2>2 DEF Whole, CompleteRecords
<1>3. /\ Done(Rest(t)) \in Seq(Seq(S)) /\ Cur(Rest(t)) \in Seq(S)
      /\ Fields(Rest(t)) = Append(Done(Rest(t)), Cur(Rest(t)))
  BY <1>1, FieldsAre
<1>4. Even(t) <=> Even(Cur(Rest(t)))
  BY <1>1, EvenOfRest, EvenOfCur
<1>5. ASSUME NEW c PROVE Closes(t, c) <=> Closes(Cur(Rest(t)), c)
  <2>1. Closes(t, c) <=> Closes(Rest(t), c)
    BY ClosesTheRest
  <2>2. Closes(Rest(t), c) <=> Closes(Cur(Rest(t)), c)
    BY <1>1, ClosesTheField
  <2> QED BY <2>1, <2>2
<1> QED BY <1>1, <1>2, <1>3, <1>4, <1>5 DEF DoneFields, OpenField

(* A character that ends neither field nor record belongs to the open      *)
(* field.                                                                  *)
LEMMA InFieldStep ==
  ASSUME NEW S, NEW t \in Seq(S), NEW c \in S,
         ~Closes(OpenField(t), c), ~(c = Comma /\ Even(OpenField(t)))
  PROVE  /\ CompleteRecords(Append(t, c)) = CompleteRecords(t)
         /\ DoneFields(Append(t, c)) = DoneFields(t)
         /\ OpenField(Append(t, c)) = Append(OpenField(t), c)
         /\ Rest(Append(t, c)) # <<>>
<1>1. /\ Rest(t) \in Seq(S) /\ ~Closes(t, c) /\ (Even(t) <=> Even(OpenField(t)))
  BY TextHas
<1>2. Rest(Append(t, c)) = Append(Rest(t), c) /\ CompleteRecords(Append(t, c)) = CompleteRecords(t)
  BY <1>1, TextStep
<1>3. ~Separates(Rest(t), c)
  BY <1>1, EvenOfRest DEF Separates
<1>4. /\ Done(Append(Rest(t), c)) = Done(Rest(t))
      /\ Cur(Append(Rest(t), c)) = Append(Cur(Rest(t)), c)
  BY <1>1, <1>3, RecordStep
<1>5. Append(Rest(t), c) # <<>>
  BY <1>1, AppendIsNot
<1> QED BY <1>2, <1>4, <1>5 DEF DoneFields, OpenField

(* A comma outside of quotes ends the open field.                          *)
LEMMA CommaStep ==
  ASSUME NEW S, NEW t \in Seq(S), NEW c \in S, c = Comma, Even(OpenField(t))
  PROVE  /\ CompleteRecords(Append(t, c)) = CompleteRecords(t)
         /\ DoneFields(Append(t, c)) = Append(DoneFields(t), OpenField(t))
         /\ OpenField(Append(t, c)) = <<>>
         /\ Rest(Append(t, c)) # <<>>
<1>1. Rest(t) \in Seq(S) /\ (Even(t) <=> Even(OpenField(t)))
  BY TextHas
<1>2. ~Closes(t, c)
  BY DEF Closes, Comma, LF
<1>3. Rest(Append(t, c)) = Append(Rest(t), c) /\ CompleteRecords(Append(t, c)) = CompleteRecords(t)
  BY <1>2, TextStep
<1>4. Separates(Rest(t), c)
  BY <1>1, EvenOfRest DEF Separates
<1>5. /\ Done(Append(Rest(t), c)) = Append(Done(Rest(t)), Cur(Rest(t)))
      /\ Cur(Append(Rest(t), c)) = <<>>
  BY <1>1, <1>4, RecordStep
<1>6. Append(Rest(t), c) # <<>>
  BY <1>1, AppendIsNot
<1> QED BY <1>3, <1>5, <1>6 DEF DoneFields, OpenField

(* The line feed of a line end outside of quotes ends the record.          *)
LEMMA RowEndStep ==
  ASSUME NEW S, NEW t \in Seq(S), NEW c \in S, Closes(OpenField(t), c)
  PROVE  /\ CompleteRecords(Append(t, c)) = Append(CompleteRecords(t), Front(Rest(t)))
         /\ Front(Rest(t)) \in Seq(S)
         /\ Fields(Front(Rest(t))) = Append(DoneFields(t), Front(OpenField(t)))
         /\ DoneFields(Append(t, c)) = <<>> /\ OpenField(Append(t, c)) = <<>>
         /\ Rest(Append(t, c)) = <<>>
<1> DEFINE r == Rest(t)
           g == Front(r)
<1>1. r \in Seq(S) /\ Closes(t, c)
  BY TextHas
<1>2. /\ CompleteRecords(Append(t, c)) = Append(CompleteRecords(t), g)
      /\ Rest(Append(t, c)) = <<>>
  BY <1>1, TextStep
<1>3. Done(<<>>) = <<>> /\ Cur(<<>>) = <<>>
  BY EmptyRecord
<1>4. Closes(r, c)
  BY <1>1, ClosesTheRest
<1>5. r # <<>> /\ Last(r) = CR
  BY <1>4 DEF Closes
<1>6. g \in Seq(S) /\ CR \in S /\ r = Append(g, CR)
  BY <1>1, <1>5, SplitLast
<1> HIDE DEF r, g
<1>7. ~Separates(g, CR)
  BY DEF Separates, CR, Comma
<1>8. Done(r) = Done(g) /\ Cur(r) = Append(Cur(g), CR) /\ Cur(g) \in Seq(S)
  BY <1>6, <1>7, RecordStep
<1>9. Front(Cur(r)) = Cur(g)
  BY <1>6, <1>8, AppendIsNot
<1>10. Fields(g) = Append(Done(g), Cur(g))
  BY <1>6, FieldsAre
<1> QED BY <1>2, <1>3, <1>6, <1>8, <1>9, <1>10 DEF DoneFields, OpenField, r, g

(* The parts of the empty text.                                            *)
LEMMA NoText ==
  ASSUME NEW S
  PROVE  /\ CompleteRecords(<<>>) = <<>> /\ Rest(<<>>) = <<>>
         /\ DoneFields(<<>>) = <<>> /\ OpenField(<<>>) = <<>>
  BY EmptyText, EmptyRecord DEF DoneFields, OpenField

(* A record that is not empty has a finished field or a field begun.       *)
LEMMA RestHas ==
  ASSUME NEW S, NEW t \in Seq(S)
  PROVE  Rest(t) # <<>> <=> DoneFields(t) # <<>> \/ OpenField(t) # <<>>
<1> DEFINE r == Rest(t)
<1>1. r \in Seq(S)
  BY TextHas
<1> HIDE DEF r
<1>2. CASE r = <<>>
  BY <1>2, EmptyRecord DEF DoneFields, OpenField, r
<1>3. CASE r # <<>>
  <2> DEFINE f == Front(r)
             d == Last(r)
  <2>1. f \in Seq(S) /\ d \in S /\ r = Append(f, d)
    BY <1>1, <1>3, SplitLast
  <2> HIDE DEF f, d
  <2>2. Done(f) \in Seq(Seq(S)) /\ Cur(f) \in Seq(S)
    BY <2>1, FieldsAre
  <2>3. CASE Separates(f, d)
    <3>1. Done(r) = Append(Done(f), Cur(f))
      BY <2>1, <2>3, RecordStep
    <3>2. Append(Done(f), Cur(f)) # <<>>
      BY <2>2, AppendIsNot
    <3> QED BY <1>3, <3>1, <3>2 DEF DoneFields, r
  <2>4. CASE ~Separates(f, d)
    <3>1. Cur(r) = Append(Cur(f), d)
      BY <2>1, <2>4, RecordStep
    <3>2. Append(Cur(f), d) # <<>>
      BY <2>1, <2>2, AppendIsNot
    <3> QED BY <1>3, <3>1, <3>2 DEF OpenField, r
  <2> QED BY <2>3, <2>4
<1> QED BY <1>2, <1>3

(* The front of a sequence, place by place.                                *)
LEMMA FrontHas ==
  ASSUME NEW S, NEW s \in Seq(S), s # <<>>
  PROVE  /\ Front(s) \in Seq(S) /\ Len(Front(s)) = Len(s) - 1
         /\ \A i \in 1 .. Len(s) - 1 : Front(s)[i] = s[i]
<1>1. Len(s) > 0
  BY SplitLast
<1> DEFINE n == Len(s)
<1>2. n > 0
  BY <1>1
<1> HIDE DEF n
<1> QED BY <1>2, FrontIs DEF n

(* Append and concatenation.                                               *)
LEMMA ConcatAppend ==
  ASSUME NEW S, NEW x \in Seq(S), NEW y \in Seq(S), NEW c \in S
  PROVE  x \o Append(y, c) = Append(x \o y, c)
<1>1. Append(y, c) = y \o <<c>> /\ <<c>> \in Seq(S) /\ x \o y \in Seq(S)
  BY AppendIsConcat, ConcatProperties
<1>2. Append(x \o y, c) = (x \o y) \o <<c>>
  BY <1>1, AppendIsConcat
<1>3. (x \o y) \o <<c>> = x \o (y \o <<c>>)
  BY <1>1, ConcatAssociative
<1> QED BY <1>1, <1>2, <1>3

(* What is before a place is not changed by what follows it.               *)
LEMMA OutsideOfConcat ==
  ASSUME NEW S, NEW x \in Seq(S), NEW i \in 1 .. Len(x) + 1
  PROVE  \A y \in Seq(S) : Outside(x \o y, i) <=> Outside(x, i)
<1> DEFINE Q == {y \in Seq(S) : Outside(x \o y, i) <=> Outside(x, i)}
<1>1. <<>> \in Q
  <2>1. x \o <<>> = x
    BY ConcatEmptySeq
  <2> QED BY <2>1
<1>2. ASSUME NEW y \in Seq(S), y \in Q, NEW c \in S PROVE Append(y, c) \in Q
  <2>1. x \o Append(y, c) = Append(x \o y, c) /\ x \o y \in Seq(S) /\ Append(y, c) \in Seq(S)
    BY ConcatAppend, ConcatProperties, AppendProperties
  <2>2. Len(x \o y) = Len(x) + Len(y) /\ Len(x) \in Nat /\ Len(y) \in Nat
    BY ConcatProperties, LenProperties
  <2> DEFINE z == x \o y
  <2> HIDE DEF z
  <2>3. i \in 1 .. Len(z) + 1
    BY <2>2 DEF z
  <2>4. Outside(Append(z, c), i) <=> Outside(z, i)
    BY <2>1, <2>3, OutsideOfAppend DEF z
  <2> QED BY <1>2, <2>1, <2>4 DEF z
<1> HIDE DEF Q
<1>3. \A y \in Seq(S) : y \in Q
  BY <1>1, <1>2, SeqInduction
<1> QED BY <1>3 DEF Q

(***************************************************************************)
(* A quote and what follows it.                                            *)
(***************************************************************************)
QuoteThen(v) == <<Quote>> \o v

(* A text after a quote, place by place.                                   *)
LEMMA QuoteThenIs ==
  ASSUME NEW S, Quote \in S, NEW v \in Seq(S)
  PROVE  /\ QuoteThen(v) \in Seq(S) /\ Len(QuoteThen(v)) = Len(v) + 1 /\ Len(v) \in Nat
         /\ QuoteThen(v)[1] = Quote /\ \A i \in 1 .. Len(v) : QuoteThen(v)[i + 1] = v[i]
<1> DEFINE u == QuoteThen(v)
           n == Len(v)
<1>1. <<Quote>> \in Seq(S) /\ Len(<<Quote>>) = 1 /\ <<Quote>>[1] = Quote
  OBVIOUS
<1>2. n \in Nat
  BY LenProperties
<1>3. /\ u \in Seq(S) /\ Len(u) = 1 + n
      /\ \A i \in 1 .. 1 + n : u[i] = IF i <= 1 THEN <<Quote>>[i] ELSE v[i - 1]
  BY <1>1, ConcatProperties DEF QuoteThen
<1> HIDE DEF u
<1>4. 1 \in 1 .. 1 + n /\ 1 + n = n + 1
  BY <1>2
<1>5. u[1] = Quote
  BY <1>1, <1>3, <1>4
<1>6. ASSUME NEW i \in 1 .. n PROVE u[i + 1] = v[i]
  <2>1. i + 1 \in 1 .. 1 + n /\ ~(i + 1 <= 1) /\ (i + 1) - 1 = i
    BY <1>2
  <2> QED BY <1>3, <2>1
<1> QED BY <1>2, <1>3, <1>4, <1>5, <1>6 DEF u

(* What follows a text that follows a quote.                               *)
LEMMA QuoteThenMore ==
  ASSUME NEW S, Quote \in S, NEW v \in Seq(S)
  PROVE  /\ \A c \in S : QuoteThen(Append(v, c)) = Append(QuoteThen(v), c)
         /\ \A x \in Seq(S) : QuoteThen(v) \o x = QuoteThen(v \o x)
<1>1. <<Quote>> \in Seq(S)
  OBVIOUS
<1> QED BY <1>1, ConcatAppend, ConcatAssociative DEF QuoteThen

(* A quote before a text turns inside and outside.                         *)
LEMMA EvenOfQuoteThen ==
  ASSUME NEW S, Quote \in S
  PROVE  \A s \in Seq(S) : Even(QuoteThen(s)) <=> ~Even(s)
<1> DEFINE Q == {s \in Seq(S) : Even(QuoteThen(s)) <=> ~Even(s)}
<1>1. <<>> \in Q
  <2>1. QuoteThen(<<>>) = Append(<<>>, Quote) /\ <<>> \in Seq(S)
    BY DEF QuoteThen
  <2>2. Even(Append(<<>>, Quote)) <=> (Even(<<>>) <=> Quote # Quote)
    BY <2>1, EvenOfAppend
  <2> QED BY <2>1, <2>2, EvenOfNothing
<1>2. ASSUME NEW s \in Seq(S), s \in Q, NEW c \in S PROVE Append(s, c) \in Q
  <2>1. QuoteThen(Append(s, c)) = Append(QuoteThen(s), c)
    BY QuoteThenMore
  <2>2. QuoteThen(s) \in Seq(S) /\ Append(s, c) \in Seq(S)
    BY QuoteThenIs, AppendProperties
  <2>3. Even(Append(QuoteThen(s), c)) <=> (Even(QuoteThen(s)) <=> c # Quote)
    BY <2>2, EvenOfAppend
  <2>4. Even(Append(s, c)) <=> (Even(s) <=> c # Quote)
    BY EvenOfAppend
  <2> QED BY <1>2, <2>1, <2>2, <2>3, <2>4
<1> HIDE DEF Q
<1>3. \A s \in Seq(S) : s \in Q
  BY <1>1, <1>2, SeqInduction
<1> QED BY <1>3 DEF Q

(* A field that begins with a quote is well-formed only as a quoted field. *)
Paired(s) ==
  \A j \in DOMAIN s : s[j] = Quote /\ Outside(s, j) => j < Len(s) /\ s[j + 1] = Quote

(* A field that begins with a quote is well-formed if its last is a quote  *)
(* and its inside is whole lines and paired quotes.                        *)
LEMMA QuotedField ==
  ASSUME NEW S, Quote \in S, NEW w \in Seq(S)
  PROVE  /\ Quoted(QuoteThen(w)) <=> w # <<>> /\ Last(w) = Quote
         /\ w # <<>> => Inner(QuoteThen(w)) = Front(w)
         /\ WellFormed(QuoteThen(w)) <=>
              w # <<>> /\ Last(w) = Quote /\ LinesAreWhole(Front(w)) /\ Paired(Front(w))
<1> DEFINE f == QuoteThen(w)
           n == Len(w)
<1>1. /\ f \in Seq(S) /\ Len(f) = n + 1 /\ n \in Nat
      /\ f[1] = Quote /\ \A i \in 1 .. n : f[i + 1] = w[i]
  BY QuoteThenIs
<1> HIDE DEF f
<1>2. w # <<>> <=> n > 0
  BY <1>1, EmptySeq
<1>3. Quoted(f) <=> w # <<>> /\ Last(w) = Quote
  <2>1. CASE w = <<>>
    <3>1. ~(Len(f) >= 2)
      BY <1>1, <1>2, <2>1
    <3> QED BY <2>1, <3>1 DEF Quoted
  <2>2. CASE w # <<>>
    <3>1. Len(f) >= 2 /\ n \in 1 .. n
      BY <1>1, <1>2, <2>2
    <3>2. f[Len(f)] = w[n]
      BY <1>1, <3>1
    <3> QED BY <1>1, <2>2, <3>1, <3>2 DEF Quoted, Last
  <2> QED BY <2>1, <2>2
<1>4. ASSUME w # <<>> PROVE Inner(f) = Front(w)
  <2> DEFINE g == Front(w)
             i == Inner(f)
  <2>1. n > 0 /\ (n + 1) - 1 = n
    BY <1>1, <1>2, <1>4
  <2>2. i = SubSeq(f, 2, n)
    BY <1>1, <2>1 DEF Inner
  <2>3. g \in Seq(S) /\ Len(g) = n - 1 /\ \A k \in 1 .. n - 1 : g[k] = w[k]
    BY <1>4, FrontHas
  <2> HIDE DEF g
  <2>4. 2 \in Nat /\ 2 >= 1 /\ n \in Int /\ n <= Len(f) /\ n - 2 + 1 = n - 1
    BY <1>1
  <2>5. /\ i \in Seq(S) /\ Len(i) = IF 2 <= n THEN n - 2 + 1 ELSE 0
        /\ \A k \in 1 .. n - 2 + 1 : i[k] = f[2 + k - 1]
    BY <1>1, <2>2, <2>4, SubSeqIs
  <2> HIDE DEF i
  <2>6. Len(i) = Len(g)
    <3>1. n \in Nat /\ n > 0 /\ Len(g) = n - 1
      BY <1>1, <2>1, <2>3
    <3>2. Len(i) = IF 2 <= n THEN n - 2 + 1 ELSE 0
      BY <2>5
    <3> HIDE DEF n
    <3> QED BY <3>1, <3>2
  <2>7. ASSUME NEW k \in 1 .. Len(i) PROVE i[k] = g[k]
    <3>1. k \in 1 .. n - 1 /\ k \in 1 .. n - 2 + 1 /\ k \in 1 .. n /\ 2 + k - 1 = k + 1
      BY <1>1, <2>1, <2>3, <2>4, <2>6
    <3> QED BY <1>1, <2>3, <2>5, <3>1
  <2>8. i = g
    BY <2>3, <2>5, <2>6, <2>7, SeqEqual
  <2> QED BY <2>8 DEF i, g
<1>5. WellFormed(f) <=>
        w # <<>> /\ Last(w) = Quote /\ LinesAreWhole(Front(w)) /\ Paired(Front(w))
  <2>1. CASE Quoted(f)
    <3>1. WellFormed(f) <=> LinesAreWhole(Inner(f)) /\ Paired(Inner(f))
      BY <2>1 DEF WellFormed, Paired
    <3> QED BY <1>3, <1>4, <2>1, <3>1
  <2>2. CASE ~Quoted(f)
    <3>1. DOMAIN f = 1 .. n + 1 /\ 1 \in 1 .. n + 1
      <4>1. DOMAIN f = 1 .. Len(f)
        BY <1>1, LenProperties
      <4> QED BY <1>1, <4>1
    <3>2. ~WellFormed(f)
      BY <1>1, <2>2, <3>1 DEF WellFormed
    <3> QED BY <1>3, <2>2, <3>2
  <2> QED BY <2>1, <2>2
<1> QED BY <1>3, <1>4, <1>5 DEF f

(* A field that begins otherwise is well-formed only as a plain one.       *)
PlainText(s) == \A j \in DOMAIN s : s[j] \notin {Quote, CR, LF}

(* A field that begins with no quote is well-formed if it has none, and no *)
(* line end.                                                               *)
LEMMA PlainField ==
  ASSUME NEW f, f[1] # Quote \/ Len(f) = 0
  PROVE  (WellFormed(f) <=> PlainText(f)) /\ Value(f) = f
<1>1. ~Quoted(f)
  <2>1. Len(f) = 0 => ~(Len(f) >= 2)
    OBVIOUS
  <2> QED BY <2>1 DEF Quoted
<1> QED BY <1>1 DEF WellFormed, Value, PlainText

(***************************************************************************)
(* What is left when the second quote of each pair is left out.            *)
(***************************************************************************)
Kept(s) == {j \in DOMAIN s : ~SecondOfPair(s, j)}

(* The second quote of a pair is left out, every other character is kept.  *)
LEMMA KeptOfAppend ==
  ASSUME NEW S, NEW s \in Seq(S), NEW c \in S
  PROVE  /\ PlacesTo(Kept(s), Len(s))
         /\ c = Quote /\ ~Even(s) => Kept(Append(s, c)) = Kept(s)
         /\ ~(c = Quote /\ ~Even(s)) => Kept(Append(s, c)) = Kept(s) \cup {Len(s) + 1}
<1> DEFINE u == Append(s, c)
           n == Len(s)
<1>1. u \in Seq(S) /\ Len(u) = n + 1 /\ u[n + 1] = c /\ \A i \in 1 .. n : u[i] = s[i]
  BY AppendProperties
<1>2. n \in Nat /\ DOMAIN s = 1 .. n
  BY LenProperties
<1>3. DOMAIN u = 1 .. n + 1
  <2> HIDE DEF u
  <2> QED BY <1>1, LenProperties
<1>4. \A i \in 1 .. n + 1 : Outside(u, i) <=> Outside(s, i)
  BY OutsideOfAppend
<1> HIDE DEF u
<1>5. \A i \in 1 .. n : SecondOfPair(u, i) <=> SecondOfPair(s, i)
  <2> SUFFICES ASSUME NEW i \in 1 .. n PROVE SecondOfPair(u, i) <=> SecondOfPair(s, i)
    OBVIOUS
  <2>1. i \in 1 .. n + 1
    BY <1>2
  <2> QED BY <1>1, <1>4, <2>1 DEF SecondOfPair
<1>6. SecondOfPair(u, n + 1) <=> c = Quote /\ ~Even(s)
  <2>1. n + 1 \in 1 .. n + 1
    BY <1>2
  <2> QED BY <1>1, <1>4, <2>1 DEF SecondOfPair, Even
<1>7. Kept(u) = {i \in 1 .. n + 1 : ~SecondOfPair(u, i)} /\ Kept(s) = {i \in 1 .. n : ~SecondOfPair(s, i)}
  BY <1>2, <1>3 DEF Kept
<1>8. /\ \A i \in 1 .. n + 1 : i \in 1 .. n \/ i = n + 1
      /\ \A i \in 1 .. n : i \in 1 .. n + 1
      /\ n + 1 \in 1 .. n + 1
  BY <1>2
<1>9. PlacesTo(Kept(s), n)
  BY <1>2, <1>7 DEF PlacesTo
<1> HIDE DEF n
<1>10. ASSUME ~(c = Quote /\ ~Even(s)) PROVE Kept(u) = Kept(s) \cup {n + 1}
  BY <1>5, <1>6, <1>7, <1>8, <1>10
<1>11. ASSUME c = Quote /\ ~Even(s) PROVE Kept(u) = Kept(s)
  <2>1. \A i \in 1 .. n + 1 : ~SecondOfPair(u, i) => i # n + 1
    BY <1>6, <1>11
  <2> QED BY <1>5, <1>7, <1>8, <2>1
<1> QED BY <1>9, <1>10, <1>11 DEF u, n

(* The kept characters, place by place.                                    *)
LEMMA UnpairedIs ==
  ASSUME NEW S, NEW s \in Seq(S)
  PROVE  /\ Cardinality(Kept(s)) \in Nat /\ PlacesTo(Kept(s), Len(s))
         /\ Unpaired(s) \in Seq(S) /\ Len(Unpaired(s)) = Cardinality(Kept(s))
         /\ \A k \in 1 .. Cardinality(Kept(s)) :
              /\ Nth(Kept(s), k) \in 1 .. Len(s)
              /\ Unpaired(s)[k] = s[Nth(Kept(s), k)]
<1> DEFINE K == Kept(s)
           m == Cardinality(K)
<1>1. PlacesTo(K, Len(s))
  <2>1. Len(s) \in Nat /\ DOMAIN s = 1 .. Len(s)
    BY LenProperties
  <2> QED BY <2>1 DEF PlacesTo, Kept
<1> HIDE DEF K
<1>2. m \in Nat /\ \A i \in K : i \in 1 .. Len(s)
  BY <1>1, PlacesAreNumbers DEF PlacesTo
<1> HIDE DEF m
<1>3. ASSUME NEW k \in 1 .. m PROVE Nth(K, k) \in 1 .. Len(s) /\ s[Nth(K, k)] \in S
  <2>1. Nth(K, k) \in K
    BY <1>1, NthIsThere DEF m
  <2> QED BY <1>2, <2>1, ElementOfSeq
<1> DEFINE f == [k \in 1 .. m |-> s[Nth(K, k)]]
<1>4. f \in [1 .. m -> S]
  BY <1>3
<1>5. Unpaired(s) = f
  BY DEF Unpaired, At, Kept, K, m
<1>6. \A k \in 1 .. m : f[k] = s[Nth(K, k)]
  OBVIOUS
<1> HIDE DEF f
<1>7. f \in Seq(S) /\ Len(f) = m
  BY <1>2, <1>4, FunctionIsSeq
<1> QED BY <1>1, <1>2, <1>3, <1>5, <1>6, <1>7 DEF K, m

(* What a further character adds to the value.                             *)
LEMMA UnpairedStep ==
  ASSUME NEW S, NEW s \in Seq(S), NEW c \in S
  PROVE  /\ c = Quote /\ ~Even(s) => Unpaired(Append(s, c)) = Unpaired(s)
         /\ ~(c = Quote /\ ~Even(s)) => Unpaired(Append(s, c)) = Append(Unpaired(s), c)
<1> DEFINE u == Append(s, c)
           K == Kept(s)
           L == Kept(u)
           m == Cardinality(K)
           a == Unpaired(s)
           b == Unpaired(u)
<1>1. u \in Seq(S) /\ Len(u) = Len(s) + 1 /\ u[Len(s) + 1] = c /\ \A i \in 1 .. Len(s) : u[i] = s[i]
  BY AppendProperties
<1>2. /\ PlacesTo(K, Len(s))
      /\ c = Quote /\ ~Even(s) => L = K
      /\ ~(c = Quote /\ ~Even(s)) => L = K \cup {Len(s) + 1}
  BY KeptOfAppend
<1> HIDE DEF u
<1>3. /\ m \in Nat /\ a \in Seq(S) /\ Len(a) = m
      /\ \A k \in 1 .. m : Nth(K, k) \in 1 .. Len(s) /\ a[k] = s[Nth(K, k)]
  BY UnpairedIs
<1>4. /\ b \in Seq(S) /\ Len(b) = Cardinality(L)
      /\ \A k \in 1 .. Cardinality(L) : b[k] = u[Nth(L, k)]
  BY <1>1, UnpairedIs
<1> HIDE DEF a, b, m, K, L
<1>5. ASSUME c = Quote /\ ~Even(s) PROVE b = a
  <2>1. L = K /\ Len(b) = m
    BY <1>2, <1>4, <1>5 DEF m
  <2>2. ASSUME NEW k \in 1 .. Len(b) PROVE b[k] = a[k]
    <3>1. b[k] = u[Nth(K, k)] /\ a[k] = s[Nth(K, k)] /\ Nth(K, k) \in 1 .. Len(s)
      BY <1>3, <1>4, <2>1
    <3> QED BY <1>1, <3>1
  <2> QED BY <1>3, <1>4, <2>1, <2>2, SeqEqual
<1>6. ASSUME ~(c = Quote /\ ~Even(s)) PROVE b = Append(a, c)
  <2> DEFINE p == Len(s) + 1
             d == Append(a, c)
  <2>1. p \in Nat /\ p > 0 /\ \A i \in K : i < p
    <3>1. Len(s) \in Nat
      BY LenProperties
    <3>2. \A i \in K : i \in Nat /\ i <= Len(s)
      BY <1>2, PlacesAreNumbers
    <3> QED BY <3>1, <3>2
  <2>2. L = K \cup {p}
    BY <1>2, <1>6
  <2>3. d \in Seq(S) /\ Len(d) = m + 1 /\ d[m + 1] = c /\ \A k \in 1 .. m : d[k] = a[k]
    BY <1>3, AppendProperties
  <2> HIDE DEF p, d
  <2>4. /\ Cardinality(L) = m + 1 /\ Nth(L, m + 1) = p
        /\ \A k \in 1 .. m : Nth(L, k) = Nth(K, k)
    BY <1>2, <2>1, <2>2, NthWithLast DEF m
  <2>5. Len(b) = m + 1 /\ u[p] = c
    BY <1>1, <1>4, <2>4 DEF p
  <2>6. ASSUME NEW k \in 1 .. Len(b) PROVE b[k] = d[k]
    <3>1. CASE k = m + 1
      BY <1>4, <2>3, <2>4, <2>5, <3>1
    <3>2. CASE k # m + 1
      <4>1. k \in 1 .. m /\ k \in 1 .. m + 1
        BY <1>3, <2>5, <3>2
      <4>2. b[k] = u[Nth(K, k)] /\ d[k] = s[Nth(K, k)] /\ Nth(K, k) \in 1 .. Len(s)
        BY <1>3, <1>4, <2>3, <2>4, <4>1
      <4> QED BY <1>1, <4>2
    <3> QED BY <3>1, <3>2
  <2>7. b = d
    BY <1>4, <2>3, <2>5, <2>6, SeqEqual
  <2> QED BY <2>7 DEF d
<1> QED BY <1>5, <1>6 DEF a, b, u

(* Nothing is kept of nothing.                                             *)
LEMMA UnpairedOfNothing == Unpaired(<<>>) = <<>>
<1> DEFINE e == <<>>
<1>1. e \in Seq({}) /\ Kept(e) = {}
  BY DEF Kept
<1> HIDE DEF e
<1>2. Unpaired(e) \in Seq({}) /\ Len(Unpaired(e)) = Cardinality(Kept(e))
  BY <1>1, UnpairedIs
<1>3. Len(Unpaired(e)) = 0
  BY <1>1, <1>2, FS_EmptySet
<1>4. Unpaired(e) = <<>>
  BY <1>2, <1>3, EmptySeq
<1> QED BY <1>4 DEF e

(***************************************************************************)
(* How many bytes a text has.                                              *)
(***************************************************************************)
(* Nothing has no bytes.                                                   *)
LEMMA BytesOfNothing == ByteCount(<<>>) = 0
<1>1. ByteCount(<<>>) = FoldLeft(Longer, 0, <<>>)
  BY DEF ByteCount, FoldLeft, MapThenFoldSet, Longer
<1> QED BY <1>1, CountedOfNothing

(* A character adds its bytes.                                             *)
LEMMA BytesOfAppend ==
  ASSUME NEW s \in Seq(Characters), NEW c \in Characters
  PROVE  ByteCount(Append(s, c)) = ByteCount(s) + Len(Encoding[c])
<1> DEFINE F(t) == FoldLeft(Longer, 0, t)
<1>1. ByteCount(s) = F(s) /\ ByteCount(Append(s, c)) = F(Append(s, c))
  BY DEF ByteCount, FoldLeft, MapThenFoldSet, Longer
<1>2. F(Append(s, c)) = Longer(F(s), c)
  BY CountedOfAppend
<1> HIDE DEF F
<1> QED BY <1>1, <1>2 DEF Longer

(* The characters the grammar names, and the limits.                       *)
LEMMA CharactersAre ==
  /\ Quote \in Characters /\ Comma \in Characters /\ CR \in Characters /\ LF \in Characters
  /\ MaxCellBytes \in Nat /\ MaxColumns \in Nat
  /\ \A c \in Characters : Len(Encoding[c]) \in Nat
<1>1. \A c \in Characters : Len(Encoding[c]) \in Nat
  BY CodecAssumption, LenProperties
<1> QED BY <1>1, CodecAssumption

(* The bytes of a text can be counted.                                     *)
LEMMA BytesAreNumbers == \A s \in Seq(Characters) : ByteCount(s) \in Nat
<1> DEFINE Q == {s \in Seq(Characters) : ByteCount(s) \in Nat}
<1>1. <<>> \in Q
  BY BytesOfNothing
<1>2. ASSUME NEW s \in Seq(Characters), s \in Q, NEW c \in Characters PROVE Append(s, c) \in Q
  <2>1. ByteCount(Append(s, c)) = ByteCount(s) + Len(Encoding[c]) /\ Append(s, c) \in Seq(Characters)
    BY BytesOfAppend, AppendProperties
  <2>2. Len(Encoding[c]) \in Nat
    BY CharactersAre
  <2> QED BY <1>2, <2>1, <2>2
<1> HIDE DEF Q
<1>3. \A s \in Seq(Characters) : s \in Q
  BY <1>1, <1>2, SeqInduction
<1> QED BY <1>3 DEF Q

(* A longer text does not have fewer bytes.                                *)
LEMMA MoreBytes ==
  ASSUME NEW x \in Seq(Characters)
  PROVE  \A y \in Seq(Characters) : ByteCount(x \o y) >= ByteCount(x)
<1> DEFINE Q == {y \in Seq(Characters) : ByteCount(x \o y) >= ByteCount(x)}
<1>0. ByteCount(x) \in Nat
  BY BytesAreNumbers
<1>1. <<>> \in Q
  <2>1. x \o <<>> = x
    BY ConcatEmptySeq
  <2> QED BY <1>0, <2>1
<1>2. ASSUME NEW y \in Seq(Characters), y \in Q, NEW c \in Characters PROVE Append(y, c) \in Q
  <2> DEFINE z == x \o y
  <2>1. x \o Append(y, c) = Append(z, c) /\ z \in Seq(Characters) /\ Append(y, c) \in Seq(Characters)
    BY ConcatAppend, ConcatProperties, AppendProperties
  <2>2. ByteCount(z) >= ByteCount(x)
    BY <1>2
  <2> HIDE DEF z
  <2>3. ByteCount(Append(z, c)) = ByteCount(z) + Len(Encoding[c])
    BY <2>1, BytesOfAppend
  <2>4. Len(Encoding[c]) \in Nat /\ ByteCount(z) \in Nat
    BY <2>1, CharactersAre, BytesAreNumbers
  <2>5. ByteCount(Append(z, c)) >= ByteCount(x)
    BY <1>0, <2>2, <2>3, <2>4
  <2> QED BY <2>1, <2>5
<1> HIDE DEF Q
<1>3. \A y \in Seq(Characters) : y \in Q
  BY <1>1, <1>2, SeqInduction
<1> QED BY <1>3 DEF Q

(* A longer field does not have a value of fewer bytes.                    *)
LEMMA MoreUnpairedBytes ==
  ASSUME NEW x \in Seq(Characters)
  PROVE  \A y \in Seq(Characters) : ByteCount(Unpaired(x \o y)) >= ByteCount(Unpaired(x))
<1> DEFINE Q == {y \in Seq(Characters) : ByteCount(Unpaired(x \o y)) >= ByteCount(Unpaired(x))}
<1>0. ByteCount(Unpaired(x)) \in Nat
  BY UnpairedIs, BytesAreNumbers
<1>1. <<>> \in Q
  <2>1. x \o <<>> = x
    BY ConcatEmptySeq
  <2> QED BY <1>0, <2>1
<1>2. ASSUME NEW y \in Seq(Characters), y \in Q, NEW c \in Characters PROVE Append(y, c) \in Q
  <2> DEFINE z == x \o y
             v == Unpaired(z)
  <2>1. x \o Append(y, c) = Append(z, c) /\ z \in Seq(Characters) /\ Append(y, c) \in Seq(Characters)
    BY ConcatAppend, ConcatProperties, AppendProperties
  <2>2. ByteCount(v) >= ByteCount(Unpaired(x))
    BY <1>2
  <2> HIDE DEF z
  <2>3. v \in Seq(Characters)
    BY <2>1, UnpairedIs
  <2>4. Unpaired(Append(z, c)) = v \/ Unpaired(Append(z, c)) = Append(v, c)
    BY <2>1, UnpairedStep
  <2> HIDE DEF v
  <2>5. ByteCount(Append(v, c)) = ByteCount(v) + Len(Encoding[c])
    BY <2>3, BytesOfAppend
  <2>6. Len(Encoding[c]) \in Nat /\ ByteCount(v) \in Nat
    BY <2>3, CharactersAre, BytesAreNumbers
  <2>7. ByteCount(Append(v, c)) >= ByteCount(Unpaired(x))
    BY <1>0, <2>2, <2>5, <2>6
  <2> QED BY <2>1, <2>2, <2>4, <2>7
<1> HIDE DEF Q
<1>3. \A y \in Seq(Characters) : y \in Q
  BY <1>1, <1>2, SeqInduction
<1> QED BY <1>3 DEF Q

(***************************************************************************)
(* The inside of a quoted field, a character or a pair further.            *)
(***************************************************************************)
(* A character that is no line end keeps the lines whole.                  *)
LEMMA LinesStep ==
  ASSUME NEW S, NEW s \in Seq(S), LinesAreWhole(s), NEW c \in S, c # CR, c # LF
  PROVE  LinesAreWhole(Append(s, c))
<1> DEFINE u == Append(s, c)
           n == Len(s)
<1>1. u \in Seq(S) /\ Len(u) = n + 1 /\ u[n + 1] = c /\ \A i \in 1 .. n : u[i] = s[i]
  BY AppendProperties
<1>2. n \in Nat /\ DOMAIN s = 1 .. n
  BY LenProperties
<1> HIDE DEF u
<1>3. DOMAIN u = 1 .. n + 1
  BY <1>1, LenProperties
<1>4. ASSUME NEW j \in 1 .. n + 1, u[j] = CR PROVE j < n + 1 /\ u[j + 1] = LF
  <2>1. j \in 1 .. n
    BY <1>1, <1>2, <1>4
  <2>2. j < n /\ s[j + 1] = LF
    BY <1>1, <1>2, <1>4, <2>1 DEF LinesAreWhole
  <2>3. j + 1 \in 1 .. n /\ j < n + 1
    BY <1>2, <2>1, <2>2
  <2> QED BY <1>1, <2>2, <2>3
<1>5. ASSUME NEW j \in 1 .. n + 1, u[j] = LF PROVE j > 1 /\ u[j - 1] = CR
  <2>1. j \in 1 .. n
    BY <1>1, <1>2, <1>5
  <2>2. j > 1 /\ s[j - 1] = CR
    BY <1>1, <1>2, <1>5, <2>1 DEF LinesAreWhole
  <2>3. j - 1 \in 1 .. n
    BY <1>2, <2>1, <2>2
  <2> QED BY <1>1, <2>2, <2>3
<1> HIDE DEF n
<1> QED BY <1>1, <1>3, <1>4, <1>5 DEF LinesAreWhole, u

(* A whole line end keeps the lines whole.                                 *)
LEMMA LinesOfLine ==
  ASSUME NEW S, CR \in S, LF \in S, NEW s \in Seq(S), LinesAreWhole(s)
  PROVE  LinesAreWhole(Append(Append(s, CR), LF))
<1> DEFINE v == Append(s, CR)
           u == Append(v, LF)
           n == Len(s)
<1>1. v \in Seq(S) /\ Len(v) = n + 1 /\ v[n + 1] = CR /\ \A i \in 1 .. n : v[i] = s[i]
  BY AppendProperties
<1>2. n \in Nat /\ DOMAIN s = 1 .. n
  BY LenProperties
<1> HIDE DEF v
<1>3. u \in Seq(S) /\ Len(u) = Len(v) + 1 /\ u[Len(v) + 1] = LF /\ \A i \in 1 .. Len(v) : u[i] = v[i]
  BY <1>1, AppendProperties
<1> HIDE DEF u
<1>4. DOMAIN u = 1 .. Len(u) /\ Len(u) = n + 2
  BY <1>1, <1>2, <1>3, LenProperties
<1>5. u[n + 1] = CR /\ u[n + 2] = LF /\ \A i \in 1 .. n : u[i] = s[i]
  <2>1. n + 1 \in 1 .. Len(v) /\ Len(v) + 1 = n + 2 /\ \A i \in 1 .. n : i \in 1 .. Len(v)
    BY <1>1, <1>2
  <2> QED BY <1>1, <1>3, <2>1
<1>6. CR # LF
  BY DEF CR, LF
<1> HIDE DEF n
<1>7. ASSUME NEW j \in 1 .. n + 2, u[j] = CR PROVE j < n + 2 /\ u[j + 1] = LF
  <2>1. CASE j = n + 1
    <3>1. j + 1 = n + 2 /\ j < n + 2
      BY <1>2, <2>1
    <3> QED BY <1>5, <3>1
  <2>2. CASE j # n + 1
    <3>1. j \in 1 .. n
      BY <1>2, <1>5, <1>6, <1>7, <2>2
    <3>2. j < n /\ s[j + 1] = LF
      BY <1>2, <1>5, <1>7, <3>1 DEF LinesAreWhole, n
    <3>3. j + 1 \in 1 .. n /\ j < n + 2
      BY <1>2, <3>1, <3>2
    <3> QED BY <1>5, <3>2, <3>3
  <2> QED BY <2>1, <2>2
<1>8. ASSUME NEW j \in 1 .. n + 2, u[j] = LF PROVE j > 1 /\ u[j - 1] = CR
  <2>1. CASE j = n + 2
    <3>1. j - 1 = n + 1 /\ j > 1
      BY <1>2, <2>1
    <3> QED BY <1>5, <3>1
  <2>2. CASE j # n + 2
    <3>1. j \in 1 .. n
      BY <1>2, <1>5, <1>6, <1>8, <2>2
    <3>2. j > 1 /\ s[j - 1] = CR
      BY <1>2, <1>5, <1>8, <3>1 DEF LinesAreWhole, n
    <3>3. j - 1 \in 1 .. n
      BY <1>2, <3>1, <3>2
    <3> QED BY <1>5, <3>2, <3>3
  <2> QED BY <2>1, <2>2
<1>9. LinesAreWhole(u)
  BY <1>4, <1>7, <1>8 DEF LinesAreWhole
<1> QED BY <1>9 DEF u, v

(* A character that is no quote keeps the quotes paired.                   *)
LEMMA PairedStep ==
  ASSUME NEW S, NEW s \in Seq(S), Paired(s), NEW c \in S, c # Quote
  PROVE  Paired(Append(s, c))
<1> DEFINE u == Append(s, c)
           n == Len(s)
<1>1. u \in Seq(S) /\ Len(u) = n + 1 /\ u[n + 1] = c /\ \A i \in 1 .. n : u[i] = s[i]
  BY AppendProperties
<1>2. n \in Nat /\ DOMAIN s = 1 .. n
  BY LenProperties
<1>3. \A i \in 1 .. n + 1 : Outside(u, i) <=> Outside(s, i)
  BY OutsideOfAppend
<1> HIDE DEF u
<1>4. DOMAIN u = 1 .. n + 1
  BY <1>1, LenProperties
<1>5. ASSUME NEW j \in 1 .. n + 1, u[j] = Quote, Outside(u, j) PROVE j < n + 1 /\ u[j + 1] = Quote
  <2>1. j \in 1 .. n
    BY <1>1, <1>2, <1>5
  <2>2. s[j] = Quote /\ Outside(s, j)
    BY <1>1, <1>3, <1>5, <2>1
  <2>3. j < n /\ s[j + 1] = Quote
    BY <1>2, <2>1, <2>2 DEF Paired
  <2>4. j + 1 \in 1 .. n /\ j < n + 1
    BY <1>2, <2>1, <2>3
  <2> QED BY <1>1, <2>3, <2>4
<1> HIDE DEF n
<1> QED BY <1>1, <1>4, <1>5 DEF Paired, u

(* So does a pair of quotes.                                               *)
LEMMA PairedPair ==
  ASSUME NEW S, Quote \in S, NEW s \in Seq(S), Paired(s), Even(s)
  PROVE  Paired(Append(Append(s, Quote), Quote))
<1> DEFINE v == Append(s, Quote)
           u == Append(v, Quote)
           n == Len(s)
<1>1. v \in Seq(S) /\ Len(v) = n + 1 /\ v[n + 1] = Quote /\ \A i \in 1 .. n : v[i] = s[i]
  BY AppendProperties
<1>2. n \in Nat /\ DOMAIN s = 1 .. n
  BY LenProperties
<1>3. \A i \in 1 .. n + 1 : Outside(v, i) <=> Outside(s, i)
  BY OutsideOfAppend
<1>4. ~Even(v)
  BY EvenOfAppend
<1> HIDE DEF v
<1>5. u \in Seq(S) /\ Len(u) = Len(v) + 1 /\ u[Len(v) + 1] = Quote /\ \A i \in 1 .. Len(v) : u[i] = v[i]
  BY <1>1, AppendProperties
<1>6. \A i \in 1 .. Len(v) + 1 : Outside(u, i) <=> Outside(v, i)
  BY <1>1, OutsideOfAppend
<1> HIDE DEF u
<1>7. DOMAIN u = 1 .. Len(u) /\ Len(u) = n + 2 /\ Len(v) = n + 1
  BY <1>1, <1>2, <1>5, LenProperties
<1>8. u[n + 2] = Quote /\ \A i \in 1 .. n : u[i] = s[i]
  <2>1. Len(v) + 1 = n + 2 /\ \A i \in 1 .. n : i \in 1 .. Len(v)
    BY <1>1, <1>2
  <2> QED BY <1>1, <1>5, <2>1
<1>9. ~Outside(u, n + 2)
  <2>1. n + 2 \in 1 .. Len(v) + 1 /\ Len(v) + 1 = n + 2
    BY <1>1, <1>2
  <2> QED BY <1>4, <1>6, <2>1 DEF Even
<1>10. \A i \in 1 .. n : Outside(u, i) => Outside(s, i)
  <2> SUFFICES ASSUME NEW i \in 1 .. n PROVE Outside(u, i) => Outside(s, i)
    OBVIOUS
  <2>1. i \in 1 .. n + 1 /\ i \in 1 .. Len(v) + 1
    BY <1>1, <1>2
  <2> QED BY <1>3, <1>6, <2>1
<1> HIDE DEF n
<1>11. ASSUME NEW j \in 1 .. n + 2, u[j] = Quote, Outside(u, j) PROVE j < n + 2 /\ u[j + 1] = Quote
  <2>1. CASE j = n + 1
    <3>1. j + 1 = n + 2 /\ j < n + 2
      BY <1>2, <2>1
    <3> QED BY <1>8, <3>1
  <2>2. CASE j # n + 1
    <3>1. j \in 1 .. n
      BY <1>2, <1>9, <1>11, <2>2
    <3>2. s[j] = Quote /\ Outside(s, j)
      BY <1>8, <1>10, <1>11, <3>1
    <3>3. j < n /\ s[j + 1] = Quote
      BY <1>2, <3>1, <3>2 DEF Paired, n
    <3>4. j + 1 \in 1 .. n /\ j < n + 2
      BY <1>2, <3>1, <3>3
    <3> QED BY <1>8, <3>3, <3>4
  <2> QED BY <2>1, <2>2
<1>12. Paired(u)
  BY <1>7, <1>11 DEF Paired
<1> QED BY <1>12 DEF u, v

(* The inside of a quoted field as far as it has come: quotes in pairs,    *)
(* line ends whole.                                                        *)
Sound(s) == s \in Seq(Characters) /\ Even(s) /\ LinesAreWhole(s) /\ Paired(s)

(* The inside of a field begins sound,                                     *)
LEMMA SoundNothing == Sound(<<>>)
  BY EvenOfNothing DEF Sound, LinesAreWhole, Paired

(* stays so with a character that is no quote or line end,                 *)
LEMMA SoundCharacter ==
  ASSUME NEW s, Sound(s), NEW c \in Characters, c \notin {Quote, CR, LF}
  PROVE  Sound(Append(s, c)) /\ Unpaired(Append(s, c)) = Append(Unpaired(s), c)
<1>1. s \in Seq(Characters) /\ Even(s) /\ LinesAreWhole(s) /\ Paired(s)
  BY DEF Sound
<1>2. Append(s, c) \in Seq(Characters)
  BY <1>1, AppendProperties
<1>3. Even(Append(s, c))
  BY <1>1, EvenOfAppend
<1>4. LinesAreWhole(Append(s, c))
  BY <1>1, LinesStep
<1>5. Paired(Append(s, c))
  BY <1>1, PairedStep
<1>6. Unpaired(Append(s, c)) = Append(Unpaired(s), c)
  BY <1>1, UnpairedStep
<1> QED BY <1>2, <1>3, <1>4, <1>5, <1>6 DEF Sound

(* with a pair of quotes,                                                  *)
LEMMA SoundPair ==
  ASSUME NEW s, Sound(s)
  PROVE  /\ Sound(Append(Append(s, Quote), Quote))
         /\ Unpaired(Append(Append(s, Quote), Quote)) = Append(Unpaired(s), Quote)
<1> DEFINE v == Append(s, Quote)
           u == Append(v, Quote)
<1>0. Quote \in Characters /\ Quote # CR /\ Quote # LF
  BY CharactersAre DEF Quote, CR, LF
<1>1. s \in Seq(Characters) /\ Even(s) /\ LinesAreWhole(s) /\ Paired(s)
  BY DEF Sound
<1>2. Paired(u)
  BY <1>0, <1>1, PairedPair
<1>3. v \in Seq(Characters) /\ ~Even(v) /\ LinesAreWhole(v) /\ Unpaired(v) = Append(Unpaired(s), Quote)
  <2>1. v \in Seq(Characters)
    BY <1>0, <1>1, AppendProperties
  <2>2. ~Even(v)
    BY <1>0, <1>1, EvenOfAppend
  <2>3. LinesAreWhole(v)
    BY <1>0, <1>1, LinesStep
  <2>4. Unpaired(v) = Append(Unpaired(s), Quote)
    BY <1>0, <1>1, UnpairedStep
  <2> QED BY <2>1, <2>2, <2>3, <2>4
<1> HIDE DEF v
<1>4. u \in Seq(Characters)
  BY <1>0, <1>3, AppendProperties
<1>5. Even(u)
  BY <1>0, <1>3, EvenOfAppend
<1>6. LinesAreWhole(u)
  BY <1>0, <1>3, LinesStep
<1>7. Unpaired(u) = Unpaired(v)
  BY <1>0, <1>3, UnpairedStep
<1> QED BY <1>2, <1>3, <1>4, <1>5, <1>6, <1>7 DEF Sound, v

(* and with a whole line end.                                              *)
LEMMA SoundLine ==
  ASSUME NEW s, Sound(s)
  PROVE  /\ Sound(Append(Append(s, CR), LF))
         /\ Unpaired(Append(Append(s, CR), LF)) = Append(Append(Unpaired(s), CR), LF)
<1> DEFINE v == Append(s, CR)
           u == Append(v, LF)
<1>0. CR \in Characters /\ LF \in Characters /\ Quote # CR /\ Quote # LF
  BY CharactersAre DEF Quote, CR, LF
<1>1. s \in Seq(Characters) /\ Even(s) /\ LinesAreWhole(s) /\ Paired(s)
  BY DEF Sound
<1>2. LinesAreWhole(u)
  BY <1>0, <1>1, LinesOfLine
<1>3. v \in Seq(Characters) /\ Even(v) /\ Paired(v) /\ Unpaired(v) = Append(Unpaired(s), CR)
  <2>1. v \in Seq(Characters)
    BY <1>0, <1>1, AppendProperties
  <2>2. Even(v)
    BY <1>0, <1>1, EvenOfAppend
  <2>3. Paired(v)
    BY <1>0, <1>1, PairedStep
  <2>4. Unpaired(v) = Append(Unpaired(s), CR)
    BY <1>0, <1>1, UnpairedStep
  <2> QED BY <2>1, <2>2, <2>3, <2>4
<1> HIDE DEF v
<1>4. u \in Seq(Characters)
  BY <1>0, <1>3, AppendProperties
<1>5. Even(u)
  BY <1>0, <1>3, EvenOfAppend
<1>6. Paired(u)
  BY <1>0, <1>3, PairedStep
<1>7. Unpaired(u) = Append(Unpaired(v), LF)
  BY <1>0, <1>3, UnpairedStep
<1> QED BY <1>2, <1>3, <1>4, <1>5, <1>6, <1>7 DEF Sound, v

(***************************************************************************)
(* Fields that are read, and beginnings that no field has.                 *)
(***************************************************************************)
Good(f) == WellFormed(f) /\ ByteCount(Value(f)) <= MaxCellBytes
Hopeless(f) == \A x \in Seq(Characters) : ~Good(f \o x)

(* A plain text is a field as it is.                                       *)
LEMMA PlainIsWellFormed ==
  ASSUME NEW f \in Seq(Characters), PlainText(f)
  PROVE  WellFormed(f) /\ Value(f) = f
<1>1. Len(f) \in Nat /\ DOMAIN f = 1 .. Len(f)
  BY LenProperties
<1>2. f[1] # Quote \/ Len(f) = 0
  <2>1. Len(f) # 0 => 1 \in DOMAIN f
    BY <1>1
  <2> QED BY <2>1 DEF PlainText
<1> QED BY <1>2, PlainField

(* A sound inside between quotes is a field, with the unpaired inside as   *)
(* its value.                                                              *)
LEMMA ClosedIsWellFormed ==
  ASSUME NEW s, Sound(s)
  PROVE  /\ WellFormed(Append(QuoteThen(s), Quote))
         /\ Value(Append(QuoteThen(s), Quote)) = Unpaired(s)
<1> DEFINE w == Append(s, Quote)
<1>1. s \in Seq(Characters) /\ LinesAreWhole(s) /\ Paired(s) /\ Quote \in Characters
  BY CharactersAre DEF Sound
<1>2. w \in Seq(Characters) /\ w # <<>> /\ Last(w) = Quote /\ Front(w) = s
  BY <1>1, AppendIsNot
<1>3. Append(QuoteThen(s), Quote) = QuoteThen(w)
  BY <1>1, QuoteThenMore
<1> HIDE DEF w
<1>4. Quoted(QuoteThen(w)) /\ Inner(QuoteThen(w)) = s /\ WellFormed(QuoteThen(w))
  BY <1>1, <1>2, QuotedField
<1> QED BY <1>3, <1>4 DEF Value

(* A text that goes on begins as before.                                   *)
LEMMA BeginsAs ==
  ASSUME NEW S, NEW v \in Seq(S), NEW x \in Seq(S)
  PROVE  /\ v \o x \in Seq(S) /\ Len(v \o x) \in Nat /\ Len(v) \in Nat
         /\ Len(v \o x) >= Len(v)
         /\ \A i \in 1 .. Len(v) : i \in 1 .. Len(v \o x) /\ (v \o x)[i] = v[i]
<1> DEFINE w == v \o x
<1>1. Len(v) \in Nat /\ Len(x) \in Nat
  BY LenProperties
<1>2. /\ w \in Seq(S) /\ Len(w) = Len(v) + Len(x)
      /\ \A i \in 1 .. Len(v) + Len(x) : w[i] = IF i <= Len(v) THEN v[i] ELSE x[i - Len(v)]
  BY ConcatProperties
<1> HIDE DEF w
<1>3. Len(w) \in Nat /\ Len(w) >= Len(v)
  BY <1>1, <1>2
<1>4. ASSUME NEW i \in 1 .. Len(v) PROVE i \in 1 .. Len(w) /\ w[i] = v[i]
  <2>1. i \in 1 .. Len(v) + Len(x) /\ i <= Len(v)
    BY <1>1
  <2> QED BY <1>2, <2>1
<1> QED BY <1>1, <1>2, <1>3, <1>4 DEF w

(* No field begins with an unquoted text that has a quote or a line end,   *)
(* or is too long.                                                         *)
LEMMA PlainHopeless ==
  ASSUME NEW f \in Seq(Characters), f # <<>>, f[1] # Quote,
         ~PlainText(f) \/ ByteCount(f) > MaxCellBytes
  PROVE  Hopeless(f)
<1> SUFFICES ASSUME NEW x \in Seq(Characters), Good(f \o x) PROVE FALSE
  BY DEF Hopeless
<1> DEFINE g == f \o x
<1>1. /\ g \in Seq(Characters) /\ \A i \in 1 .. Len(f) : i \in 1 .. Len(g) /\ g[i] = f[i]
      /\ Len(f) \in Nat
  BY BeginsAs
<1>2. ByteCount(g) >= ByteCount(f)
  BY MoreBytes
<1>3. Good(g)
  OBVIOUS
<1> HIDE DEF g
<1>4. Len(f) # 0
  BY EmptySeq
<1>5. 1 \in 1 .. Len(f)
  BY <1>1, <1>4
<1>6. g[1] # Quote
  BY <1>1, <1>5
<1>7. PlainText(g) /\ Value(g) = g
  BY <1>3, <1>6, PlainField DEF Good
<1>8. PlainText(f)
  <2>1. DOMAIN f = 1 .. Len(f) /\ DOMAIN g = 1 .. Len(g)
    BY <1>1, LenProperties
  <2> QED BY <1>1, <1>7, <2>1 DEF PlainText
<1>9. ByteCount(f) > MaxCellBytes /\ ByteCount(g) <= MaxCellBytes
  BY <1>3, <1>7, <1>8 DEF Good
<1>10. ByteCount(f) \in Nat /\ ByteCount(g) \in Nat /\ MaxCellBytes \in Nat
  BY <1>1, BytesAreNumbers, CharactersAre
<1> QED BY <1>2, <1>9, <1>10

(* What a well-formed field that begins with a quote and v has inside.     *)
LEMMA InsideOf ==
  ASSUME NEW v \in Seq(Characters), NEW x \in Seq(Characters),
         WellFormed(QuoteThen(v) \o x)
  PROVE  LET w == v \o x
             i == Front(w)
         IN /\ w \in Seq(Characters) /\ w # <<>> /\ Last(w) = Quote
            /\ LinesAreWhole(i) /\ Paired(i) /\ Value(QuoteThen(v) \o x) = Unpaired(i)
            /\ i \in Seq(Characters) /\ Len(i) \in Nat /\ DOMAIN i = 1 .. Len(i) /\ Len(w) = Len(i) + 1
            /\ Len(v) \in Nat /\ Len(v) <= Len(w)
            /\ \A k \in 1 .. Len(i) : i[k] = w[k]
            /\ \A k \in 1 .. Len(v) : w[k] = v[k]
            /\ \A k \in 1 .. Len(v) + 1 : k <= Len(w) => (Outside(i, k) <=> Outside(v, k))
<1> DEFINE w == v \o x
           i == Front(w)
<1>0. Quote \in Characters
  BY CharactersAre
<1>1. QuoteThen(v) \o x = QuoteThen(w)
  BY <1>0, QuoteThenMore
<1>2. /\ w \in Seq(Characters) /\ Len(w) \in Nat /\ Len(v) \in Nat /\ Len(w) >= Len(v)
      /\ \A k \in 1 .. Len(v) : w[k] = v[k]
  BY BeginsAs
<1>o. \A k \in 1 .. Len(v) + 1 : Outside(w, k) <=> Outside(v, k)
  BY OutsideOfConcat
<1> HIDE DEF w
<1>3. /\ w # <<>> /\ Last(w) = Quote /\ LinesAreWhole(i) /\ Paired(i)
      /\ Quoted(QuoteThen(w)) /\ Inner(QuoteThen(w)) = i
  BY <1>0, <1>1, <1>2, QuotedField
<1>4. Value(QuoteThen(v) \o x) = Unpaired(i)
  BY <1>1, <1>3 DEF Value
<1>5. i \in Seq(Characters) /\ Len(i) = Len(w) - 1 /\ \A k \in 1 .. Len(w) - 1 : i[k] = w[k]
  BY <1>2, <1>3, FrontHas
<1>p. w = Append(i, Quote)
  BY <1>2, <1>3, SplitLast
<1> HIDE DEF i
<1>6. Len(i) \in Nat /\ Len(w) = Len(i) + 1 /\ Len(w) - 1 = Len(i) /\ DOMAIN i = 1 .. Len(i)
  BY <1>2, <1>5, LenProperties
<1>7. ASSUME NEW k \in 1 .. Len(v) + 1, k <= Len(w) PROVE Outside(i, k) <=> Outside(v, k)
  <2>1. k \in 1 .. Len(i) + 1
    BY <1>2, <1>6, <1>7
  <2>2. Outside(w, k) <=> Outside(i, k)
    BY <1>0, <1>5, <1>p, <2>1, OutsideOfAppend
  <2> QED BY <1>o, <2>2
<1>8. Len(v) <= Len(w)
  BY <1>2
<1>9. \A k \in 1 .. Len(i) : i[k] = w[k]
  BY <1>5, <1>6
<1> QED BY <1>2, <1>3, <1>4, <1>5, <1>6, <1>7, <1>8, <1>9 DEF w, i

(* Two characters more, place by place.                                    *)
LEMMA TwoMore ==
  ASSUME NEW S, NEW s \in Seq(S), NEW a \in S, NEW b \in S
  PROVE  LET v == Append(Append(s, a), b) IN
         /\ v \in Seq(S) /\ Len(s) \in Nat /\ Len(v) = Len(s) + 2
         /\ v[Len(s) + 1] = a /\ v[Len(s) + 2] = b
         /\ \A i \in 1 .. Len(s) : v[i] = s[i]
         /\ \A i \in 1 .. Len(s) + 1 : Outside(v, i) <=> Outside(s, i)
<1> DEFINE u == Append(s, a)
           v == Append(u, b)
           n == Len(s)
<1>1. u \in Seq(S) /\ Len(u) = n + 1 /\ u[n + 1] = a /\ \A i \in 1 .. n : u[i] = s[i]
  BY AppendProperties
<1>2. n \in Nat
  BY LenProperties
<1>3. \A i \in 1 .. n + 1 : Outside(u, i) <=> Outside(s, i)
  BY OutsideOfAppend
<1> HIDE DEF u
<1>4. v \in Seq(S) /\ Len(v) = Len(u) + 1 /\ v[Len(u) + 1] = b /\ \A i \in 1 .. Len(u) : v[i] = u[i]
  BY <1>1, AppendProperties
<1>5. \A i \in 1 .. Len(u) + 1 : Outside(v, i) <=> Outside(u, i)
  BY <1>1, OutsideOfAppend
<1> HIDE DEF v
<1>6. /\ Len(u) + 1 = n + 2 /\ n + 1 \in 1 .. Len(u)
      /\ \A i \in 1 .. n : i \in 1 .. Len(u)
      /\ \A i \in 1 .. n + 1 : i \in 1 .. Len(u) + 1
  BY <1>1, <1>2
<1>7. Len(v) = n + 2 /\ v[n + 1] = a /\ v[n + 2] = b
  BY <1>1, <1>4, <1>6
<1>8. \A i \in 1 .. n : v[i] = s[i]
  BY <1>1, <1>4, <1>6
<1>9. \A i \in 1 .. n + 1 : Outside(v, i) <=> Outside(s, i)
  BY <1>3, <1>5, <1>6
<1> QED BY <1>2, <1>4, <1>7, <1>8, <1>9 DEF u, v

(* A closing quote followed by something that is not a quote.              *)
LEMMA AfterQuoteHopeless ==
  ASSUME NEW s, Sound(s), NEW c \in Characters, c # Quote
  PROVE  Hopeless(Append(Append(QuoteThen(s), Quote), c))
<1> DEFINE v == Append(Append(s, Quote), c)
           n == Len(s)
<1>0. Quote \in Characters /\ s \in Seq(Characters) /\ Even(s)
  BY CharactersAre DEF Sound
<1>1. Append(Append(QuoteThen(s), Quote), c) = QuoteThen(v)
  <2>1. QuoteThen(Append(s, Quote)) = Append(QuoteThen(s), Quote) /\ Append(s, Quote) \in Seq(Characters)
    BY <1>0, QuoteThenMore, AppendProperties
  <2> QED BY <1>0, <2>1, QuoteThenMore
<1>2. /\ v \in Seq(Characters) /\ n \in Nat /\ Len(v) = n + 2
      /\ v[n + 1] = Quote /\ v[n + 2] = c
      /\ \A k \in 1 .. n + 1 : Outside(v, k) <=> Outside(s, k)
  BY <1>0, TwoMore
<1>3. n + 1 \in 1 .. n + 1 /\ n + 1 \in 1 .. Len(v) /\ n + 2 \in 1 .. Len(v) /\ n + 1 \in 1 .. Len(v) + 1
  BY <1>2
<1>4. Outside(v, n + 1)
  BY <1>0, <1>2, <1>3 DEF Even
<1> HIDE DEF v
<1> SUFFICES ASSUME NEW x \in Seq(Characters), WellFormed(QuoteThen(v) \o x) PROVE FALSE
  BY <1>1 DEF Hopeless, Good
<1> DEFINE w == v \o x
           i == Front(w)
<1>5. /\ Paired(i) /\ Len(i) \in Nat /\ DOMAIN i = 1 .. Len(i) /\ Len(w) = Len(i) + 1
      /\ Len(v) <= Len(w)
      /\ \A k \in 1 .. Len(i) : i[k] = w[k]
      /\ \A k \in 1 .. Len(v) : w[k] = v[k]
      /\ \A k \in 1 .. Len(v) + 1 : k <= Len(w) => (Outside(i, k) <=> Outside(v, k))
  BY <1>2, InsideOf
<1> HIDE DEF w, i, n
<1>6. n + 1 \in 1 .. Len(i) /\ n + 1 <= Len(w)
  BY <1>2, <1>5
<1>7. i[n + 1] = Quote /\ Outside(i, n + 1)
  BY <1>2, <1>3, <1>4, <1>5, <1>6
<1>8. n + 1 < Len(i) /\ i[(n + 1) + 1] = Quote
  BY <1>5, <1>6, <1>7 DEF Paired
<1>9. (n + 1) + 1 = n + 2 /\ n + 2 \in 1 .. Len(i)
  BY <1>2, <1>5, <1>8
<1>10. i[n + 2] = c
  BY <1>2, <1>3, <1>5, <1>9
<1> QED BY <1>8, <1>9, <1>10

(* A line feed in a quoted field that follows no carriage return.          *)
LEMMA BareLineFeedHopeless ==
  ASSUME NEW s, Sound(s)
  PROVE  Hopeless(Append(QuoteThen(s), LF))
<1> DEFINE v == Append(s, LF)
           n == Len(s)
<1>0. /\ Quote \in Characters /\ LF \in Characters /\ LF # Quote
      /\ s \in Seq(Characters) /\ LinesAreWhole(s)
  BY CharactersAre DEF Sound, LF, Quote
<1>1. Append(QuoteThen(s), LF) = QuoteThen(v)
  BY <1>0, QuoteThenMore
<1>2. /\ v \in Seq(Characters) /\ Len(v) = n + 1 /\ v[n + 1] = LF
      /\ \A k \in 1 .. n : v[k] = s[k]
  BY <1>0, AppendProperties
<1>3. n \in Nat /\ DOMAIN s = 1 .. n
  BY <1>0, LenProperties
<1> HIDE DEF v
<1> SUFFICES ASSUME NEW x \in Seq(Characters), WellFormed(QuoteThen(v) \o x) PROVE FALSE
  BY <1>1 DEF Hopeless, Good
<1> DEFINE w == v \o x
           i == Front(w)
<1>5. /\ LinesAreWhole(i) /\ Len(i) \in Nat /\ DOMAIN i = 1 .. Len(i) /\ Len(w) = Len(i) + 1
      /\ Last(w) = Quote /\ Len(v) <= Len(w)
      /\ \A k \in 1 .. Len(i) : i[k] = w[k]
      /\ \A k \in 1 .. Len(v) : w[k] = v[k]
  BY <1>2, InsideOf
<1> HIDE DEF w, i
<1>6. w[n + 1] = LF
  <2>1. n + 1 \in 1 .. Len(v)
    BY <1>2, <1>3
  <2> QED BY <1>2, <1>5, <2>1
<1>7. n + 1 # Len(w)
  BY <1>0, <1>5, <1>6 DEF Last
<1>8. n + 1 \in 1 .. Len(i)
  BY <1>2, <1>3, <1>5, <1>7
<1>9. n + 1 > 1 /\ i[(n + 1) - 1] = CR
  BY <1>5, <1>6, <1>8 DEF LinesAreWhole
<1> HIDE DEF n
<1>10. (n + 1) - 1 = n /\ n \in 1 .. n /\ n \in 1 .. Len(i) /\ n \in 1 .. Len(v)
  BY <1>2, <1>3, <1>8, <1>9
<1>11. s[n] = CR
  BY <1>2, <1>5, <1>9, <1>10
<1>12. n < n
  BY <1>0, <1>3, <1>10, <1>11 DEF LinesAreWhole, n
<1> QED BY <1>3, <1>12

(* A carriage return in a quoted field that no line feed follows.          *)
LEMMA BareReturnHopeless ==
  ASSUME NEW s, Sound(s), NEW c \in Characters, c # LF
  PROVE  Hopeless(Append(Append(QuoteThen(s), CR), c))
<1> DEFINE v == Append(Append(s, CR), c)
           n == Len(s)
<1>0. Quote \in Characters /\ CR \in Characters /\ s \in Seq(Characters)
  BY CharactersAre DEF Sound
<1>1. Append(Append(QuoteThen(s), CR), c) = QuoteThen(v)
  <2>1. QuoteThen(Append(s, CR)) = Append(QuoteThen(s), CR) /\ Append(s, CR) \in Seq(Characters)
    BY <1>0, QuoteThenMore, AppendProperties
  <2> QED BY <1>0, <2>1, QuoteThenMore
<1>2. /\ v \in Seq(Characters) /\ n \in Nat /\ Len(v) = n + 2
      /\ v[n + 1] = CR /\ v[n + 2] = c
  BY <1>0, TwoMore
<1>3. n + 1 \in 1 .. Len(v) /\ n + 2 \in 1 .. Len(v)
  BY <1>2
<1> HIDE DEF v
<1> SUFFICES ASSUME NEW x \in Seq(Characters), WellFormed(QuoteThen(v) \o x) PROVE FALSE
  BY <1>1 DEF Hopeless, Good
<1> DEFINE w == v \o x
           i == Front(w)
<1>5. /\ LinesAreWhole(i) /\ Len(i) \in Nat /\ DOMAIN i = 1 .. Len(i) /\ Len(w) = Len(i) + 1
      /\ Len(v) <= Len(w)
      /\ \A k \in 1 .. Len(i) : i[k] = w[k]
      /\ \A k \in 1 .. Len(v) : w[k] = v[k]
  BY <1>2, InsideOf
<1> HIDE DEF w, i, n
<1>6. n + 1 \in 1 .. Len(i)
  BY <1>2, <1>5
<1>7. i[n + 1] = CR
  BY <1>2, <1>3, <1>5, <1>6
<1>8. n + 1 < Len(i) /\ i[(n + 1) + 1] = LF
  BY <1>5, <1>6, <1>7 DEF LinesAreWhole
<1>9. (n + 1) + 1 = n + 2 /\ n + 2 \in 1 .. Len(i)
  BY <1>2, <1>5, <1>8
<1>10. i[n + 2] = c
  BY <1>2, <1>3, <1>5, <1>9
<1> QED BY <1>8, <1>9, <1>10

(* A quoted field that has become too long, even if it is not closed yet.  *)
LEMMA LongHopeless ==
  ASSUME NEW s \in Seq(Characters), ByteCount(Unpaired(s)) > MaxCellBytes,
         ~WellFormed(QuoteThen(s))
  PROVE  Hopeless(QuoteThen(s))
<1> SUFFICES ASSUME NEW x \in Seq(Characters), Good(QuoteThen(s) \o x) PROVE FALSE
  BY DEF Hopeless
<1> DEFINE w == s \o x
           i == Front(w)
<1>1. WellFormed(QuoteThen(s) \o x) /\ ByteCount(Value(QuoteThen(s) \o x)) <= MaxCellBytes
  BY DEF Good
<1>2. /\ Value(QuoteThen(s) \o x) = Unpaired(i) /\ i \in Seq(Characters)
  BY <1>1, InsideOf
<1>3. x # <<>>
  <2> SUFFICES ASSUME x = <<>> PROVE FALSE
    OBVIOUS
  <2>1. QuoteThen(s) \in Seq(Characters)
    BY QuoteThenIs, CharactersAre
  <2>2. QuoteThen(s) \o <<>> = QuoteThen(s)
    BY <2>1, ConcatEmptySeq
  <2> QED BY <1>1, <2>2
<1>4. Front(x) \in Seq(Characters) /\ Last(x) \in Characters /\ x = Append(Front(x), Last(x))
  BY <1>3, SplitLast
<1>5. i = s \o Front(x)
  <2> DEFINE y == Front(x)
             d == Last(x)
  <2>1. y \in Seq(Characters) /\ d \in Characters /\ x = Append(y, d)
    BY <1>4
  <2> HIDE DEF y, d
  <2>2. w = Append(s \o y, d) /\ s \o y \in Seq(Characters)
    BY <2>1, ConcatAppend, ConcatProperties
  <2>3. Front(Append(s \o y, d)) = s \o y
    BY <2>1, <2>2, AppendIsNot
  <2> QED BY <2>2, <2>3 DEF y
<1>6. ByteCount(Unpaired(i)) >= ByteCount(Unpaired(s))
  BY <1>4, <1>5, MoreUnpairedBytes
<1>7. ByteCount(Unpaired(i)) <= MaxCellBytes
  BY <1>1, <1>2
<1>8. ByteCount(Unpaired(i)) \in Nat /\ ByteCount(Unpaired(s)) \in Nat /\ MaxCellBytes \in Nat
  BY <1>2, UnpairedIs, BytesAreNumbers, CharactersAre
<1> HIDE DEF i, w
<1> QED BY <1>6, <1>7, <1>8

(* Not closed: the last is no quote, or is the second of a pair.           *)
LEMMA NotClosed ==
  ASSUME NEW s \in Seq(Characters), s # <<>>, Last(s) # Quote
  PROVE  ~WellFormed(QuoteThen(s))
  BY QuotedField, CharactersAre

(* The second quote of a pair does not close.                              *)
LEMMA PairDoesNotClose ==
  ASSUME NEW s, Sound(s)
  PROVE  ~WellFormed(QuoteThen(Append(Append(s, Quote), Quote)))
<1> DEFINE v == Append(s, Quote)
           w == Append(v, Quote)
           n == Len(s)
<1>0. Quote \in Characters /\ s \in Seq(Characters) /\ Even(s)
  BY CharactersAre DEF Sound
<1>1. v \in Seq(Characters) /\ Len(v) = n + 1 /\ v[n + 1] = Quote
  BY <1>0, AppendProperties
<1>2. n \in Nat
  BY <1>0, LenProperties
<1>3. Outside(v, n + 1)
  <2>1. n + 1 \in 1 .. n + 1
    BY <1>2
  <2> QED BY <1>0, <2>1, OutsideOfAppend DEF Even
<1> HIDE DEF v
<1>4. w \in Seq(Characters) /\ Front(w) = v
  BY <1>0, <1>1, AppendIsNot
<1>5. ~Paired(v)
  <2>1. DOMAIN v = 1 .. Len(v)
    BY <1>1, LenProperties
  <2>2. n + 1 \in DOMAIN v /\ ~(n + 1 < Len(v))
    BY <1>1, <1>2, <2>1
  <2> QED BY <1>1, <1>3, <2>2 DEF Paired
<1> HIDE DEF w
<1>6. ~WellFormed(QuoteThen(w))
  BY <1>0, <1>4, <1>5, QuotedField
<1> QED BY <1>6 DEF w, v

(***************************************************************************)
(* Texts that no more text can make a document within the limits.          *)
(***************************************************************************)
AllGood(fs) == \A k \in DOMAIN fs : Good(fs[k])
GoodRecord(r) == Len(Fields(r)) <= MaxColumns /\ AllGood(Fields(r))
AllGoodRecords(rs) == \A k \in DOMAIN rs : GoodRecord(rs[k])

(* A carriage return at the end may belong to a line end yet.              *)
Core(f) == IF f # <<>> /\ Last(f) = CR /\ Even(f) THEN Front(f) ELSE f

Lost(t) ==
  \/ ~AllGoodRecords(CompleteRecords(t))
  \/ ~AllGood(DoneFields(t))
  \/ Len(DoneFields(t)) > MaxColumns
  \/ Hopeless(Core(OpenField(t)))

(* What Append makes, place by place.                                      *)
LEMMA AppendHas ==
  ASSUME NEW S, NEW s \in Seq(S), NEW c \in S
  PROVE  /\ DOMAIN Append(s, c) = DOMAIN s \cup {Len(s) + 1}
         /\ Append(s, c)[Len(s) + 1] = c
         /\ \A k \in DOMAIN s : Append(s, c)[k] = s[k]
         /\ Len(Append(s, c)) = Len(s) + 1 /\ Len(s) \in Nat
<1> DEFINE u == Append(s, c)
           n == Len(s)
<1>1. u \in Seq(S) /\ Len(u) = n + 1 /\ u[n + 1] = c /\ \A i \in 1 .. n : u[i] = s[i]
  BY AppendProperties
<1>2. n \in Nat /\ DOMAIN s = 1 .. n
  BY LenProperties
<1> HIDE DEF u
<1>3. DOMAIN u = 1 .. n + 1
  BY <1>1, LenProperties
<1>4. 1 .. n + 1 = (1 .. n) \cup {n + 1}
  BY <1>2
<1> QED BY <1>1, <1>2, <1>3, <1>4 DEF u

(* All fields are good if the earlier ones and the last are.               *)
LEMMA AllGoodOfAppend ==
  ASSUME NEW fs \in Seq(Seq(Characters)), NEW f \in Seq(Characters)
  PROVE  AllGood(Append(fs, f)) <=> AllGood(fs) /\ Good(f)
<1> DEFINE u == Append(fs, f)
           m == Len(fs) + 1
<1>1. /\ DOMAIN u = DOMAIN fs \cup {m} /\ u[m] = f
      /\ \A k \in DOMAIN fs : u[k] = fs[k]
  BY AppendHas
<1> HIDE DEF u, m
<1>2. AllGood(u) <=> AllGood(fs) /\ Good(f)
  BY <1>1 DEF AllGood
<1> QED BY <1>2 DEF u

(* All records are good if the earlier ones and the last are.              *)
LEMMA AllRecordsOfAppend ==
  ASSUME NEW rs \in Seq(Seq(Characters)), NEW r \in Seq(Characters)
  PROVE  AllGoodRecords(Append(rs, r)) <=> AllGoodRecords(rs) /\ GoodRecord(r)
<1> DEFINE u == Append(rs, r)
           m == Len(rs) + 1
<1>1. /\ DOMAIN u = DOMAIN rs \cup {m} /\ u[m] = r
      /\ \A k \in DOMAIN rs : u[k] = rs[k]
  BY AppendHas
<1> HIDE DEF u, m
<1>2. AllGoodRecords(u) <=> AllGoodRecords(rs) /\ GoodRecord(r)
  BY <1>1 DEF AllGoodRecords
<1> QED BY <1>2 DEF u

(* A hopeless beginning is no field and stays hopeless.                    *)
LEMMA HopelessMore ==
  ASSUME NEW f \in Seq(Characters), Hopeless(f)
  PROVE  ~Good(f) /\ \A c \in Characters : Hopeless(Append(f, c))
<1>1. ~Good(f)
  <2>1. f \o <<>> = f /\ <<>> \in Seq(Characters)
    BY ConcatEmptySeq
  <2> QED BY <2>1 DEF Hopeless
<1>2. ASSUME NEW c \in Characters, NEW x \in Seq(Characters) PROVE ~Good(Append(f, c) \o x)
  <2>1. <<c>> \in Seq(Characters)
    OBVIOUS
  <2>2. Append(f, c) \o x = f \o (<<c>> \o x) /\ <<c>> \o x \in Seq(Characters)
    BY <2>1, AppendIsConcat, ConcatAssociative, ConcatProperties
  <2> QED BY <2>2 DEF Hopeless
<1> QED BY <1>1, <1>2 DEF Hopeless

(* If the field is hopeless without its carriage return, it is with it.    *)
LEMMA CoreIs ==
  ASSUME NEW f \in Seq(Characters), Hopeless(Core(f))
  PROVE  Hopeless(f) /\ Core(f) \in Seq(Characters)
<1>1. CASE Core(f) = f
  BY <1>1
<1>2. CASE Core(f) # f
  <2>1. f # <<>> /\ Last(f) = CR /\ Core(f) = Front(f)
    BY <1>2 DEF Core
  <2>2. Front(f) \in Seq(Characters) /\ Last(f) \in Characters /\ f = Append(Front(f), Last(f))
    BY <2>1, SplitLast
  <2> QED BY <2>1, <2>2, HopelessMore
<1> QED BY <1>1, <1>2

(* A bad field, or one too many, makes a bad record.                       *)
LEMMA NotGoodRecord ==
  ASSUME NEW t \in Seq(Characters), NEW r \in Seq(Characters), NEW f \in Seq(Characters),
         Fields(r) = Append(DoneFields(t), f),
         ~AllGood(DoneFields(t)) \/ Len(DoneFields(t)) > MaxColumns \/ ~Good(f)
  PROVE  ~GoodRecord(r)
<1> DEFINE d == DoneFields(t)
<1>1. d \in Seq(Seq(Characters))
  BY TextHas
<1> HIDE DEF d
<1>2. Len(Append(d, f)) = Len(d) + 1 /\ Len(d) \in Nat /\ MaxColumns \in Nat
  BY <1>1, AppendHas, CharactersAre
<1>3. AllGood(Append(d, f)) <=> AllGood(d) /\ Good(f)
  BY <1>1, AllGoodOfAppend
<1>4. CASE ~AllGood(d) \/ ~Good(f)
  BY <1>3, <1>4 DEF GoodRecord, d
<1>5. CASE Len(d) > MaxColumns
  <2>1. ~(Len(d) + 1 <= MaxColumns)
    BY <1>2, <1>5
  <2> QED BY <1>2, <2>1 DEF GoodRecord, d
<1> QED BY <1>4, <1>5 DEF d

(* Lost stays lost.                                                        *)
LEMMA LostStays ==
  ASSUME NEW t \in Seq(Characters), Lost(t), NEW c \in Characters
  PROVE  Lost(Append(t, c))
<1> DEFINE u == Append(t, c)
           f == OpenField(t)
           d == DoneFields(t)
           rs == CompleteRecords(t)
<1>1. /\ rs \in Seq(Seq(Characters)) /\ d \in Seq(Seq(Characters)) /\ f \in Seq(Characters)
      /\ Rest(t) \in Seq(Characters)
  BY TextHas
<1>2. CASE Closes(f, c)
  <2> DEFINE r == Front(Rest(t))
  <2>1. CompleteRecords(u) = Append(rs, r) /\ r \in Seq(Characters) /\ Fields(r) = Append(d, Front(f))
    BY <1>2, RowEndStep
  <2>2. Front(f) \in Seq(Characters) /\ Core(f) = Front(f)
    <3>1. f # <<>> /\ Last(f) = CR /\ Even(f)
      BY <1>2 DEF Closes
    <3> QED BY <1>1, <3>1, SplitLast DEF Core
  <2> HIDE DEF u, f, d, rs, r
  <2>3. AllGoodRecords(CompleteRecords(u)) <=> AllGoodRecords(rs) /\ GoodRecord(r)
    BY <1>1, <2>1, AllRecordsOfAppend
  <2>4. CASE ~AllGoodRecords(rs)
    BY <2>3, <2>4 DEF Lost, u
  <2>5. CASE ~AllGood(d) \/ Len(d) > MaxColumns \/ Hopeless(Core(f))
    <3>1. ~AllGood(d) \/ Len(d) > MaxColumns \/ ~Good(Front(f))
      BY <2>2, <2>5, HopelessMore
    <3>2. ~GoodRecord(r)
      BY <2>1, <2>2, <3>1, NotGoodRecord DEF d
    <3> QED BY <2>3, <3>2 DEF Lost, u
  <2> QED BY <2>4, <2>5 DEF Lost, rs, d, f
<1>3. CASE c = Comma /\ Even(f)
  <2>1. CompleteRecords(u) = rs /\ DoneFields(u) = Append(d, f)
    BY <1>3, CommaStep
  <2> HIDE DEF u, f, d, rs
  <2>2. AllGood(Append(d, f)) <=> AllGood(d) /\ Good(f)
    BY <1>1, AllGoodOfAppend
  <2>3. Len(Append(d, f)) = Len(d) + 1 /\ Len(d) \in Nat /\ MaxColumns \in Nat
    BY <1>1, AppendHas, CharactersAre
  <2>4. Len(d) > MaxColumns => Len(Append(d, f)) > MaxColumns
    BY <2>3
  <2>5. Hopeless(Core(f)) => ~Good(f)
    BY <1>1, CoreIs, HopelessMore
  <2> QED BY <2>1, <2>2, <2>4, <2>5 DEF Lost, rs, d, f, u
<1>4. CASE ~Closes(f, c) /\ ~(c = Comma /\ Even(f))
  <2>1. CompleteRecords(u) = rs /\ DoneFields(u) = d /\ OpenField(u) = Append(f, c)
    BY <1>4, InFieldStep
  <2> HIDE DEF u, f, d, rs
  <2>2. ASSUME Hopeless(Core(f)) PROVE Hopeless(Core(Append(f, c)))
    <3>1. Hopeless(f)
      BY <1>1, <2>2, CoreIs
    <3>2. Hopeless(Append(f, c))
      BY <1>1, <3>1, HopelessMore
    <3>3. Front(Append(f, c)) = f
      BY <1>1, AppendIsNot
    <3> QED BY <3>1, <3>2, <3>3 DEF Core
  <2> QED BY <2>1, <2>2 DEF Lost, rs, d, f, u
<1> QED BY <1>2, <1>3, <1>4

(* A character that makes the field at the end hopeless.                   *)
LEMMA LostNow ==
  ASSUME NEW t \in Seq(Characters), NEW c \in Characters, ~Closes(OpenField(t), c),
         \/ Hopeless(OpenField(t))
         \/ /\ Hopeless(Append(OpenField(t), c))
            /\ c # Comma \/ ~Even(OpenField(t))
            /\ c # CR \/ ~Even(OpenField(t))
  PROVE  Lost(Append(t, c))
<1> DEFINE u == Append(t, c)
           f == OpenField(t)
           d == DoneFields(t)
<1>1. d \in Seq(Seq(Characters)) /\ f \in Seq(Characters)
  BY TextHas
<1>2. CASE c = Comma /\ Even(f)
  <2>1. DoneFields(u) = Append(d, f)
    BY <1>2, CommaStep
  <2>2. Hopeless(f)
    BY <1>2
  <2> HIDE DEF u, f, d
  <2>3. ~Good(f)
    BY <1>1, <2>2, HopelessMore
  <2> QED BY <1>1, <2>1, <2>3, AllGoodOfAppend DEF Lost, u
<1>3. CASE ~(c = Comma /\ Even(f))
  <2>1. OpenField(u) = Append(f, c)
    BY <1>3, InFieldStep
  <2>2. Hopeless(Append(f, c))
    <3> HIDE DEF f
    <3> QED BY <1>1, HopelessMore DEF f
  <2>3. Hopeless(f) \/ c # CR \/ ~Even(f)
    OBVIOUS
  <2> HIDE DEF u, f, d
  <2>4. /\ Front(Append(f, c)) = f /\ Last(Append(f, c)) = c
        /\ Even(Append(f, c)) <=> (Even(f) <=> c # Quote)
    BY <1>1, AppendIsNot, EvenOfAppend
  <2>5. CR # Quote
    BY DEF CR, Quote
  <2>6. Hopeless(Core(Append(f, c)))
    BY <2>2, <2>3, <2>4, <2>5 DEF Core
  <2> QED BY <2>1, <2>6 DEF Lost, u
<1> QED BY <1>2, <1>3

(* The records of a text are the complete ones and the rest, if there is   *)
(* any.                                                                    *)
LEMMA RecordsAre ==
  ASSUME NEW S, NEW t \in Seq(S)
  PROVE  /\ Rest(t) = <<>> => Records(t) = CompleteRecords(t)
         /\ Rest(t) # <<>> => Records(t) = Append(CompleteRecords(t), Rest(t))
<1> DEFINE E == RecordEnds(t)
<1>1. CutsOf(t, E, 2)
  BY RecordCuts
<1> HIDE DEF E
<1>2. Pieces(t, E, 2) = Append(Whole(t, E, 2), Open(t, E, 2))
  BY <1>1, WholeAndOpen
<1>3. CompleteRecords(t) = Whole(t, E, 2) /\ Rest(t) = Open(t, E, 2)
  BY DEF CompleteRecords, Rest, Whole, E
<1>4. Records(t) = IF Open(t, E, 2) = <<>> THEN Whole(t, E, 2) ELSE Pieces(t, E, 2)
  BY DEF Records, Whole, Open, E
<1> QED BY <1>2, <1>3, <1>4

(* A lost text is no document.                                             *)
LEMMA LostIsNoDocument ==
  ASSUME NEW t \in Seq(Characters), Lost(t)
  PROVE  ~AllGoodRecords(Records(t))
<1> DEFINE r == Rest(t)
           rs == CompleteRecords(t)
           f == OpenField(t)
<1>1. /\ rs \in Seq(Seq(Characters)) /\ r \in Seq(Characters) /\ f \in Seq(Characters)
      /\ DoneFields(t) \in Seq(Seq(Characters)) /\ Fields(r) = Append(DoneFields(t), f)
  BY TextHas
<1>2. CASE ~AllGoodRecords(rs)
  <2> HIDE DEF r, rs
  <2> QED BY <1>1, <1>2, RecordsAre, AllRecordsOfAppend DEF r, rs
<1>3. CASE ~AllGood(DoneFields(t)) \/ Len(DoneFields(t)) > MaxColumns \/ Hopeless(Core(f))
  <2>1. ~AllGood(DoneFields(t)) \/ Len(DoneFields(t)) > MaxColumns \/ ~Good(f)
    <3> HIDE DEF f
    <3>1. Hopeless(Core(f)) => ~Good(f)
      BY <1>1, CoreIs, HopelessMore
    <3> QED BY <1>3, <3>1
  <2>2. ~GoodRecord(r)
    BY <1>1, <2>1, NotGoodRecord
  <2>3. r # <<>>
    <3> SUFFICES ASSUME r = <<>> PROVE FALSE
      OBVIOUS
    <3>1. DoneFields(t) = <<>> /\ f = <<>>
      BY RestHas
    <3>2. AllGood(<<>>)
      BY DEF AllGood
    <3>3. Len(<<>>) = 0 /\ ~(0 > MaxColumns)
      BY CharactersAre
    <3>4. Good(<<>>)
      <4>1. PlainText(<<>>) /\ <<>> \in Seq(Characters)
        BY DEF PlainText
      <4>2. WellFormed(<<>>) /\ Value(<<>>) = <<>>
        BY <4>1, PlainIsWellFormed
      <4> QED BY <4>2, BytesOfNothing, CharactersAre DEF Good
    <3> HIDE DEF f
    <3> QED BY <2>1, <3>1, <3>2, <3>3, <3>4
  <2> HIDE DEF r, rs
  <2>4. Records(t) = Append(rs, r)
    BY <2>3, RecordsAre DEF r, rs
  <2> QED BY <1>1, <2>2, <2>4, AllRecordsOfAppend
<1> QED BY <1>2, <1>3 DEF Lost

(***************************************************************************)
(* The parser's state, and what its operations make of it.                 *)
(***************************************************************************)
ParserErrors == {"none", "malformed_csv", "limit_exceeded", "invalid_csv_header"}
ParserState ==
  [preamble : Seq(Byte), resolved : BOOLEAN, hadBom : BOOLEAN, pending : Seq(Byte),
   cells : Seq(Seq(Characters)), cell : Seq(Characters), quoted : BOOLEAN,
   quotePending : BOOLEAN, afterQuote : BOOLEAN, pendingCr : BOOLEAN, rowActive : BOOLEAN,
   sawText : BOOLEAN, out : Seq(Seq(Seq(Characters))), error : ParserErrors]

(* No operation on characters changes what the bytes have left.            *)
Same(p, q) ==
  /\ q \in ParserState
  /\ q.preamble = p.preamble /\ q.resolved = p.resolved /\ q.pending = p.pending
  /\ q.sawText = p.sawText

Row(p) == <<p.cells, p.cell, p.rowActive, p.out>>
Flags(p) == <<p.quoted, p.quotePending, p.afterQuote, p.pendingCr>>

(* Fail sets the error and nothing else that matters.                      *)
LEMMA FailIs ==
  ASSUME NEW p \in ParserState, p.error = "none", NEW code \in ParserErrors, code # "none"
  PROVE  Same(p, Fail(p, code)) /\ Fail(p, code).error # "none"
<1>1. Fail(p, code) = [p EXCEPT !.error = code]
  BY DEF Fail
<1> QED BY <1>1 DEF ParserState, Same

(* So does Malformed.                                                      *)
LEMMA MalformedIs ==
  ASSUME NEW p \in ParserState, p.error = "none"
  PROVE  Same(p, Malformed(p)) /\ Malformed(p).error # "none"
  BY FailIs DEF Malformed, ParserErrors

(* AppendText puts text at the end of the cell, or fails at the limit.     *)
LEMMA AppendTextIs ==
  ASSUME NEW p \in ParserState, p.error = "none", NEW x \in Seq(Characters)
  PROVE  LET q == AppendText(p, x) IN
         /\ Same(p, q)
         /\ q.error = "none" => /\ ByteCount(p.cell \o x) <= MaxCellBytes
                                /\ Row(q) = <<p.cells, p.cell \o x, p.rowActive, p.out>>
                                /\ Flags(q) = Flags(p)
         /\ q.error # "none" => ByteCount(p.cell \o x) > MaxCellBytes
<1> DEFINE r == [p EXCEPT !.cell = p.cell \o x]
           y == p.cell \o x
<1>1. p.cell \in Seq(Characters)
  BY DEF ParserState
<1>2. y \in Seq(Characters)
  BY <1>1, ConcatProperties
<1>3. ByteCount(y) \in Nat /\ MaxCellBytes \in Nat
  BY <1>2, BytesAreNumbers, CharactersAre
<1> HIDE DEF y
<1>4. /\ r \in ParserState /\ r.error = "none" /\ r.cell = y
      /\ Same(p, r) /\ Row(r) = <<p.cells, y, p.rowActive, p.out>> /\ Flags(r) = Flags(p)
  BY <1>2 DEF ParserState, Same, Row, Flags, y
<1>5. AppendText(p, x) = IF ByteCount(r.cell) > MaxCellBytes THEN Fail(r, "limit_exceeded") ELSE r
  BY DEF AppendText
<1> HIDE DEF r
<1>6. CASE ByteCount(y) > MaxCellBytes
  <2>1. AppendText(p, x) = Fail(r, "limit_exceeded")
    BY <1>4, <1>5, <1>6
  <2>2. Same(r, Fail(r, "limit_exceeded")) /\ Fail(r, "limit_exceeded").error # "none"
    BY <1>4, FailIs DEF ParserErrors
  <2>3. Same(p, Fail(r, "limit_exceeded"))
    BY <1>4, <2>2 DEF Same
  <2> QED BY <1>6, <2>1, <2>2, <2>3 DEF y
<1>7. CASE ~(ByteCount(y) > MaxCellBytes)
  <2>1. AppendText(p, x) = r /\ ByteCount(y) <= MaxCellBytes
    BY <1>3, <1>4, <1>5, <1>7
  <2> QED BY <1>4, <2>1 DEF y
<1> QED BY <1>6, <1>7

(* FinishCell adds the cell to the row, or fails at the limit.             *)
LEMMA FinishCellIs ==
  ASSUME NEW p \in ParserState, p.error = "none"
  PROVE  LET q == FinishCell(p)
             cs == Append(p.cells, p.cell)
         IN /\ Same(p, q) /\ q.cells = cs /\ q.out = p.out
            /\ Flags(q) = <<p.quoted, p.quotePending, FALSE, p.pendingCr>>
            /\ q.error = "none" => /\ Len(cs) <= MaxColumns
                                   /\ Row(q) = <<cs, <<>>, p.rowActive, p.out>>
            /\ q.error # "none" => Len(cs) > MaxColumns
<1> DEFINE cs == Append(p.cells, p.cell)
           r == [p EXCEPT !.cells = cs, !.cell = <<>>, !.afterQuote = FALSE]
<1>1. p.cell \in Seq(Characters) /\ p.cells \in Seq(Seq(Characters))
  BY DEF ParserState
<1>2. cs \in Seq(Seq(Characters)) /\ <<>> \in Seq(Characters)
  BY <1>1, AppendProperties
<1>3. Len(cs) \in Nat /\ MaxColumns \in Nat
  BY <1>2, LenProperties, CharactersAre
<1> HIDE DEF cs
<1>4. /\ r \in ParserState /\ r.error = "none" /\ r.cells = cs
      /\ Same(p, r) /\ Row(r) = <<cs, <<>>, p.rowActive, p.out>>
      /\ Flags(r) = <<p.quoted, p.quotePending, FALSE, p.pendingCr>>
  BY <1>2 DEF ParserState, Same, Row, Flags
<1>5. FinishCell(p) = IF Len(r.cells) > MaxColumns THEN Fail(r, "limit_exceeded") ELSE r
  BY DEF FinishCell, cs
<1> HIDE DEF r
<1>6. CASE Len(cs) > MaxColumns
  <2> DEFINE q == Fail(r, "limit_exceeded")
  <2>1. FinishCell(p) = q
    BY <1>4, <1>5, <1>6
  <2>2. Same(r, q) /\ q.error # "none"
    BY <1>4, FailIs DEF ParserErrors
  <2>3. Same(p, q)
    BY <1>4, <2>2 DEF Same
  <2>4. q = [r EXCEPT !.error = "limit_exceeded"]
    BY <1>4 DEF Fail
  <2>5. q.cells = r.cells /\ Row(q) = Row(r) /\ Flags(q) = Flags(r)
    BY <1>4, <2>4 DEF ParserState, Row, Flags
  <2> HIDE DEF q
  <2>6. q.out = p.out
    BY <1>4, <2>5 DEF Row
  <2> QED BY <1>4, <1>6, <2>1, <2>2, <2>3, <2>5, <2>6 DEF cs
<1>7. CASE ~(Len(cs) > MaxColumns)
  <2>1. FinishCell(p) = r /\ Len(cs) <= MaxColumns
    BY <1>3, <1>4, <1>5, <1>7
  <2>2. r.out = p.out
    BY <1>4 DEF Row
  <2> QED BY <1>4, <2>1, <2>2 DEF cs
<1> QED BY <1>6, <1>7

(* FinishRow adds the row to the output, or fails at the limit.            *)
LEMMA FinishRowIs ==
  ASSUME NEW p \in ParserState, p.error = "none"
  PROVE  LET q == FinishRow(p)
             cs == Append(p.cells, p.cell)
         IN /\ Same(p, q)
            /\ q.error = "none" => /\ Len(cs) <= MaxColumns
                                   /\ Row(q) = <<<<>>, <<>>, FALSE, Append(p.out, cs)>>
                                   /\ Flags(q) = <<p.quoted, p.quotePending, FALSE, p.pendingCr>>
            /\ q.error # "none" => Len(cs) > MaxColumns
<1> DEFINE cs == Append(p.cells, p.cell)
           r == FinishCell(p)
           o == IF r.error = "none" THEN Append(r.out, r.cells) ELSE r.out
           q == [r EXCEPT !.out = o, !.cells = <<>>, !.rowActive = FALSE]
<1>1. /\ Same(p, r) /\ r.cells = cs /\ r.out = p.out
      /\ Flags(r) = <<p.quoted, p.quotePending, FALSE, p.pendingCr>>
      /\ r.error = "none" => /\ Len(cs) <= MaxColumns
                             /\ Row(r) = <<cs, <<>>, p.rowActive, p.out>>
      /\ r.error # "none" => Len(cs) > MaxColumns
  BY FinishCellIs
<1>2. FinishRow(p) = q
  BY DEF FinishRow
<1> HIDE DEF r, cs
<1>3. r \in ParserState
  BY <1>1 DEF Same
<1>4. r.out \in Seq(Seq(Seq(Characters))) /\ r.cells \in Seq(Seq(Characters))
  BY <1>3 DEF ParserState
<1>5. o \in Seq(Seq(Seq(Characters))) /\ <<>> \in Seq(Seq(Characters))
  BY <1>4, AppendProperties
<1>6. /\ q \in ParserState /\ q.error = r.error /\ q.out = o /\ q.cells = <<>>
      /\ q.rowActive = FALSE /\ q.cell = r.cell /\ Flags(q) = Flags(r) /\ Same(r, q)
  <2> HIDE DEF o
  <2> QED BY <1>3, <1>5 DEF ParserState, Same, Flags
<1>7. Same(p, q)
  <2> HIDE DEF q, o
  <2> QED BY <1>1, <1>6 DEF Same
<1>8. r.error = "none" => o = Append(p.out, cs) /\ r.cell = <<>>
  BY <1>1 DEF Row
<1> HIDE DEF q, o
<1>9. q.error = "none" => Row(q) = <<<<>>, <<>>, FALSE, Append(p.out, cs)>>
  BY <1>6, <1>8 DEF Row
<1> QED BY <1>1, <1>2, <1>6, <1>7, <1>9 DEF cs

(***************************************************************************)
(* What the parser has made of a text: the rows of its complete records,   *)
(* the values of the fields that are done, and the field that is open.     *)
(***************************************************************************)
Values(fs) == [k \in DOMAIN fs |-> Value(fs[k])]
WithReturn(s, cr) == IF cr THEN Append(s, CR) ELSE s

InPlain(p, f) ==
  /\ ~p.quoted /\ ~p.quotePending /\ ~p.afterQuote
  /\ PlainText(p.cell) /\ f = WithReturn(p.cell, p.pendingCr)
InQuoted(p, f) ==
  /\ p.quoted /\ ~p.quotePending /\ ~p.afterQuote
  /\ \E s : Sound(s) /\ p.cell = Unpaired(s) /\ f = WithReturn(QuoteThen(s), p.pendingCr)
AtQuote(p, f) ==
  /\ p.quoted /\ p.quotePending /\ ~p.afterQuote /\ ~p.pendingCr
  /\ \E s : Sound(s) /\ p.cell = Unpaired(s) /\ f = Append(QuoteThen(s), Quote)
AfterQuote(p, f) ==
  /\ ~p.quoted /\ ~p.quotePending /\ p.afterQuote /\ p.pendingCr
  /\ \E s : Sound(s) /\ p.cell = Unpaired(s) /\ f = Append(Append(QuoteThen(s), Quote), CR)
Mode(p, f) == InPlain(p, f) \/ InQuoted(p, f) \/ AtQuote(p, f) \/ AfterQuote(p, f)

Sofar(t) ==
  /\ AllGoodRecords(CompleteRecords(t)) /\ AllGood(DoneFields(t))
  /\ Len(DoneFields(t)) <= MaxColumns

Reads(p, t, before) ==
  /\ p \in ParserState /\ p.error = "none" /\ Sofar(t)
  /\ p.cells = Values(DoneFields(t))
  /\ p.rowActive => Rest(t) # <<>>
  /\ ByteCount(p.cell) <= MaxCellBytes
  /\ Mode(p, OpenField(t))
  /\ before \o p.out = Table(CompleteRecords(t))

(* What taking c after t must do.                                          *)
Step(p, q, t, c, before) ==
  /\ Same(p, q)
  /\ q.error = "none" => Reads(q, Append(t, c), before)
  /\ q.error # "none" => Lost(Append(t, c))

(* A character of the open field.                                          *)
LEMMA StepInField ==
  ASSUME NEW before, NEW t \in Seq(Characters), NEW c \in Characters, NEW p, NEW q,
         Reads(p, t, before), Same(p, q),
         ~Closes(OpenField(t), c), ~(c = Comma /\ Even(OpenField(t))),
         q.error = "none" => /\ q.cells = p.cells /\ q.out = p.out
                             /\ ByteCount(q.cell) <= MaxCellBytes
                             /\ Mode(q, Append(OpenField(t), c)),
         q.error # "none" => Lost(Append(t, c))
  PROVE  Step(p, q, t, c, before)
<1> DEFINE u == Append(t, c)
<1>1. /\ CompleteRecords(u) = CompleteRecords(t) /\ DoneFields(u) = DoneFields(t)
      /\ OpenField(u) = Append(OpenField(t), c) /\ Rest(u) # <<>>
  BY InFieldStep
<1> HIDE DEF u
<1>2. q \in ParserState
  BY DEF Same
<1>3. q.error = "none" => Reads(q, u, before)
  BY <1>1, <1>2 DEF Reads, Sofar
<1> QED BY <1>3 DEF Step, u

(* The values of one field more.                                           *)
LEMMA ValuesOfAppend ==
  ASSUME NEW fs \in Seq(Seq(Characters)), NEW f \in Seq(Characters)
  PROVE  Values(Append(fs, f)) = Append(Values(fs), Value(f)) /\ Len(Values(fs)) = Len(fs)
<1> DEFINE n == Len(fs)
           g == Append(fs, f)
           v == Values(fs)
           w == Append(v, Value(f))
           V == {Value(fs[k]) : k \in DOMAIN fs} \cup {Value(f)}
<1>1. n \in Nat /\ DOMAIN fs = 1 .. n
  BY LenProperties
<1>2. /\ DOMAIN g = DOMAIN fs \cup {n + 1} /\ g[n + 1] = f
      /\ \A k \in DOMAIN fs : g[k] = fs[k]
  BY AppendHas
<1>3. v \in Seq(V) /\ Len(v) = n /\ Value(f) \in V /\ DOMAIN v = 1 .. n
  <2>1. v = [k \in 1 .. n |-> Value(fs[k])]
    BY <1>1 DEF Values
  <2>2. \A k \in 1 .. n : Value(fs[k]) \in V
    BY <1>1
  <2> HIDE DEF V
  <2>3. v \in Seq(V) /\ Len(v) = n
    BY <1>1, <2>1, <2>2, FunctionIsSeq
  <2>4. DOMAIN v = 1 .. n
    BY <2>1
  <2> QED BY <2>3, <2>4 DEF V
<1> HIDE DEF V, g
<1>4. /\ DOMAIN w = DOMAIN v \cup {n + 1} /\ w[n + 1] = Value(f)
      /\ \A k \in DOMAIN v : w[k] = v[k]
      /\ w \in Seq(V)
  <2> HIDE DEF v
  <2> QED BY <1>3, AppendHas, AppendProperties
<1> HIDE DEF w
<1>5. w = [k \in DOMAIN w |-> w[k]]
  BY <1>4
<1>6. Values(g) = [k \in DOMAIN g |-> Value(g[k])]
  BY DEF Values
<1>7. \A k \in DOMAIN fs : v[k] = Value(fs[k])
  BY DEF Values
<1>8. DOMAIN g = DOMAIN w
  BY <1>1, <1>2, <1>3, <1>4
<1>9. \A k \in DOMAIN g : Value(g[k]) = w[k]
  BY <1>1, <1>2, <1>3, <1>4, <1>7
<1>10. Values(g) = w
  BY <1>5, <1>6, <1>8, <1>9
<1> QED BY <1>3, <1>10 DEF g, w

(* The comma that ends a field.                                            *)
LEMMA StepToNextField ==
  ASSUME NEW before, NEW t \in Seq(Characters), NEW c \in Characters, NEW p, NEW q,
         Reads(p, t, before), Same(p, q), c = Comma, Even(OpenField(t)),
         Good(OpenField(t)), Value(OpenField(t)) = p.cell,
         q.error = "none" => /\ q.cells = Append(p.cells, p.cell) /\ q.out = p.out
                             /\ Len(Append(p.cells, p.cell)) <= MaxColumns
                             /\ q.cell = <<>> /\ Flags(q) = <<FALSE, FALSE, FALSE, FALSE>>,
         q.error # "none" => Len(Append(p.cells, p.cell)) > MaxColumns
  PROVE  Step(p, q, t, c, before)
<1> DEFINE u == Append(t, c)
           d == DoneFields(t)
           f == OpenField(t)
<1>1. /\ CompleteRecords(u) = CompleteRecords(t) /\ DoneFields(u) = Append(d, f)
      /\ OpenField(u) = <<>> /\ Rest(u) # <<>>
  BY CommaStep
<1>2. q \in ParserState /\ d \in Seq(Seq(Characters)) /\ f \in Seq(Characters)
  BY TextHas DEF Same
<1>3. p.cells = Values(d) /\ Value(f) = p.cell
  BY DEF Reads
<1> HIDE DEF u, d, f
<1>4. Append(p.cells, p.cell) = Values(Append(d, f))
  BY <1>2, <1>3, ValuesOfAppend
<1>5. Append(d, f) \in Seq(Seq(Characters))
  BY <1>2, AppendProperties
<1>6. Len(Values(Append(d, f))) = Len(Append(d, f))
  <2>1. Len(Append(d, f)) = Len(d) + 1
    BY <1>2, AppendProperties
  <2>2. Values(Append(d, f)) = Append(Values(d), Value(f)) /\ Len(Values(d)) = Len(d)
    BY <1>2, ValuesOfAppend
  <2>3. Values(d) \in Seq({Value(d[k]) : k \in DOMAIN d} \cup {Value(f)})
    <3> DEFINE V == {Value(d[k]) : k \in DOMAIN d} \cup {Value(f)}
               w == Values(d)
               n == Len(d)
    <3>1. n \in Nat /\ DOMAIN d = 1 .. n
      BY <1>2, LenProperties
    <3>2. w = [k \in 1 .. n |-> Value(d[k])] /\ \A k \in 1 .. n : Value(d[k]) \in V
      BY <3>1 DEF Values
    <3> HIDE DEF V, w, n
    <3> QED BY <3>1, <3>2, FunctionIsSeq DEF V, w
  <2> QED BY <2>1, <2>2, <2>3, AppendProperties
<1>7. q.error = "none" => Reads(q, u, before)
  <2> SUFFICES ASSUME q.error = "none" PROVE Reads(q, u, before)
    OBVIOUS
  <2>1. Sofar(u)
    <3>1. Len(Append(d, f)) <= MaxColumns
      BY <1>4, <1>6
    <3>2. AllGood(Append(d, f))
      BY <1>2, AllGoodOfAppend DEF Reads, Sofar, d, f
    <3>3. AllGoodRecords(CompleteRecords(t))
      BY DEF Reads, Sofar
    <3> QED BY <1>1, <3>1, <3>2, <3>3 DEF Sofar
  <2>2. ByteCount(q.cell) <= MaxCellBytes
    BY BytesOfNothing, CharactersAre
  <2>3. InPlain(q, <<>>)
    <3>1. PlainText(<<>>)
      BY DEF PlainText
    <3> QED BY <3>1 DEF InPlain, Flags, WithReturn
  <2> QED BY <1>1, <1>2, <1>4, <2>1, <2>2, <2>3 DEF Reads, Mode
<1>8. q.error # "none" => Lost(u)
  <2> SUFFICES ASSUME q.error # "none" PROVE Lost(u)
    OBVIOUS
  <2>1. Len(Append(d, f)) > MaxColumns
    BY <1>4, <1>6
  <2> QED BY <1>1, <2>1 DEF Lost
<1> QED BY <1>7, <1>8 DEF Step, u

(* The table of one record more.                                           *)
LEMMA TableOfAppend ==
  ASSUME NEW rs \in Seq(Seq(Characters)), NEW r \in Seq(Characters)
  PROVE  Table(Append(rs, r)) = Append(Table(rs), Cells(r)) /\ Len(Table(rs)) = Len(rs)
<1> DEFINE n == Len(rs)
           g == Append(rs, r)
           v == Table(rs)
           w == Append(v, Cells(r))
           V == {Cells(rs[k]) : k \in DOMAIN rs} \cup {Cells(r)}
<1>1. n \in Nat /\ DOMAIN rs = 1 .. n
  BY LenProperties
<1>2. /\ DOMAIN g = DOMAIN rs \cup {n + 1} /\ g[n + 1] = r
      /\ \A k \in DOMAIN rs : g[k] = rs[k]
  BY AppendHas
<1>3. v \in Seq(V) /\ Len(v) = n /\ Cells(r) \in V /\ DOMAIN v = 1 .. n
  <2>1. v = [k \in 1 .. n |-> Cells(rs[k])]
    BY <1>1 DEF Table
  <2>2. \A k \in 1 .. n : Cells(rs[k]) \in V
    BY <1>1
  <2> HIDE DEF V
  <2>3. v \in Seq(V) /\ Len(v) = n
    BY <1>1, <2>1, <2>2, FunctionIsSeq
  <2>4. DOMAIN v = 1 .. n
    BY <2>1
  <2> QED BY <2>3, <2>4 DEF V
<1> HIDE DEF V, g
<1>4. /\ DOMAIN w = DOMAIN v \cup {n + 1} /\ w[n + 1] = Cells(r)
      /\ \A k \in DOMAIN v : w[k] = v[k]
      /\ w \in Seq(V)
  <2> HIDE DEF v
  <2> QED BY <1>3, AppendHas, AppendProperties
<1> HIDE DEF w
<1>5. w = [k \in DOMAIN w |-> w[k]]
  BY <1>4
<1>6. Table(g) = [k \in DOMAIN g |-> Cells(g[k])]
  BY DEF Table
<1>7. \A k \in DOMAIN rs : v[k] = Cells(rs[k])
  BY DEF Table
<1>8. DOMAIN g = DOMAIN w
  BY <1>1, <1>2, <1>3, <1>4
<1>9. \A k \in DOMAIN g : Cells(g[k]) = w[k]
  BY <1>1, <1>2, <1>3, <1>4, <1>7
<1>10. Table(g) = w
  BY <1>5, <1>6, <1>8, <1>9
<1> QED BY <1>3, <1>10 DEF g, w

Raws == Seq(Seq(Seq(Characters)))

(* A row more in the output.                                               *)
LEMMA OutGrows ==
  ASSUME NEW before \in Raws, NEW out \in Raws, NEW cs \in Seq(Seq(Characters))
  PROVE  before \o Append(out, cs) = Append(before \o out, cs)
<1> DEFINE S == Seq(Seq(Characters))
<1>1. before \in Seq(S) /\ out \in Seq(S) /\ cs \in S
  BY DEF Raws
<1> HIDE DEF S
<1>2. ASSUME NEW x \in Seq(S), NEW y \in Seq(S), NEW z \in S
      PROVE  x \o Append(y, z) = Append(x \o y, z)
  BY ONLY ConcatAppend, x \in Seq(S), y \in Seq(S), z \in S
<1> HIDE DEF S
<1> QED BY <1>1, <1>2, Zenon

(* The end of a row, told by its line feed or by the end of the text.      *)
LEMMA RowEnded ==
  ASSUME NEW t \in Seq(Characters), NEW r \in Seq(Characters), NEW g \in Seq(Characters),
         Fields(r) = Append(DoneFields(t), g), Good(g), Sofar(t)
  PROVE  /\ Cells(r) = Append(Values(DoneFields(t)), Value(g))
         /\ Len(Append(Values(DoneFields(t)), Value(g))) <= MaxColumns <=> GoodRecord(r)
<1> DEFINE d == DoneFields(t)
           v == Values(d)
<1>1. d \in Seq(Seq(Characters))
  BY TextHas
<1> HIDE DEF d
<1>2. Cells(r) = Values(Append(d, g))
  BY DEF Cells, Values, d
<1>3. Values(Append(d, g)) = Append(v, Value(g))
  BY <1>1, ValuesOfAppend
<1>4. AllGood(Append(d, g))
  BY <1>1, AllGoodOfAppend DEF Sofar, d
<1>5. Len(Append(v, Value(g))) = Len(Append(d, g))
  <2>1. Len(Append(d, g)) = Len(d) + 1 /\ Len(v) = Len(d)
    BY <1>1, AppendProperties, ValuesOfAppend
  <2>2. v \in Seq({Value(d[k]) : k \in DOMAIN d} \cup {Value(g)})
    <3> DEFINE V == {Value(d[k]) : k \in DOMAIN d} \cup {Value(g)}
               n == Len(d)
    <3>1. n \in Nat /\ DOMAIN d = 1 .. n
      BY <1>1, LenProperties
    <3>2. v = [k \in 1 .. n |-> Value(d[k])] /\ \A k \in 1 .. n : Value(d[k]) \in V
      BY <3>1 DEF Values
    <3> HIDE DEF V, v, n
    <3> QED BY <3>1, <3>2, FunctionIsSeq DEF V, v
  <2> HIDE DEF v
  <2> QED BY <2>1, <2>2, AppendProperties
<1> HIDE DEF v
<1>6. Fields(r) = Append(d, g)
  BY DEF d
<1> QED BY <1>2, <1>3, <1>4, <1>5, <1>6 DEF GoodRecord, v, d

(* The line feed that ends a row.                                          *)
LEMMA StepToNextRow ==
  ASSUME NEW before \in Raws, NEW t \in Seq(Characters), NEW c \in Characters, NEW p, NEW q,
         Reads(p, t, before), Same(p, q), Closes(OpenField(t), c),
         Good(Front(OpenField(t))), Value(Front(OpenField(t))) = p.cell,
         q.error = "none" => /\ Row(q) = <<<<>>, <<>>, FALSE, Append(p.out, Append(p.cells, p.cell))>>
                             /\ Len(Append(p.cells, p.cell)) <= MaxColumns
                             /\ Flags(q) = <<FALSE, FALSE, FALSE, FALSE>>,
         q.error # "none" => Len(Append(p.cells, p.cell)) > MaxColumns
  PROVE  Step(p, q, t, c, before)
<1> DEFINE u == Append(t, c)
           d == DoneFields(t)
           g == Front(OpenField(t))
           r == Front(Rest(t))
           rs == CompleteRecords(t)
<1>1. /\ CompleteRecords(u) = Append(rs, r) /\ r \in Seq(Characters)
      /\ Fields(r) = Append(d, g) /\ DoneFields(u) = <<>> /\ OpenField(u) = <<>>
  BY RowEndStep
<1>2. rs \in Seq(Seq(Characters)) /\ OpenField(t) \in Seq(Characters)
  BY TextHas
<1>3. g \in Seq(Characters)
  <2>1. OpenField(t) # <<>>
    BY EmptyText DEF Closes
  <2> QED BY <1>2, <2>1, FrontHas
<1>4. q \in ParserState /\ p.cells = Values(d) /\ Value(g) = p.cell /\ Sofar(t)
  BY DEF Same, Reads
<1>5. /\ Cells(r) = Append(p.cells, p.cell)
      /\ Len(Append(p.cells, p.cell)) <= MaxColumns <=> GoodRecord(r)
  <2>1. Good(g) /\ Fields(r) = Append(DoneFields(t), g) /\ Sofar(t) /\ r \in Seq(Characters)
    BY <1>1, <1>4 DEF g, d
  <2>2. Values(DoneFields(t)) = p.cells /\ Value(g) = p.cell
    BY <1>4
  <2> HIDE DEF g, r, d, u, rs
  <2>3. /\ Cells(r) = Append(Values(DoneFields(t)), Value(g))
        /\ Len(Append(Values(DoneFields(t)), Value(g))) <= MaxColumns <=> GoodRecord(r)
    BY ONLY t \in Seq(Characters), <1>3, <2>1, RowEnded
  <2> QED BY <2>2, <2>3
<1> HIDE DEF u, d, g, r, rs
<1>6. AllGoodRecords(Append(rs, r)) <=> GoodRecord(r)
  BY <1>1, <1>2, <1>4, AllRecordsOfAppend DEF Sofar, rs
<1>7. q.error = "none" => Reads(q, u, before)
  <2> SUFFICES ASSUME q.error = "none" PROVE Reads(q, u, before)
    OBVIOUS
  <2> DEFINE cs == Append(p.cells, p.cell)
  <2>1. Sofar(u)
    <3>1. Len(<<>>) = 0 /\ 0 <= MaxColumns
      BY CharactersAre
    <3>2. AllGood(<<>>)
      BY DEF AllGood
    <3>3. GoodRecord(r)
      BY <1>5
    <3> QED BY <1>1, <1>6, <3>1, <3>2, <3>3 DEF Sofar
  <2>2. ByteCount(<<>>) <= MaxCellBytes
    BY BytesOfNothing, CharactersAre
  <2>3. q.cell = <<>> /\ q.cells = <<>> /\ q.rowActive = FALSE /\ q.out = Append(p.out, cs)
    BY DEF Row
  <2>4. InPlain(q, <<>>)
    <3>1. PlainText(<<>>)
      BY DEF PlainText
    <3> QED BY <2>3, <3>1 DEF InPlain, Flags, WithReturn
  <2>5. Values(<<>>) = <<>>
    BY DEF Values
  <2>6. before \o Append(p.out, cs) = Table(CompleteRecords(u))
    <3>1. p.out \in Raws /\ p.cells \in Seq(Seq(Characters)) /\ p.cell \in Seq(Characters)
      BY DEF Reads, ParserState, Raws
    <3>2. cs \in Seq(Seq(Characters))
      BY <3>1, AppendProperties
    <3>3. before \o p.out = Table(rs)
      BY DEF Reads, rs
    <3>4. Table(Append(rs, r)) = Append(Table(rs), Cells(r))
      BY <1>1, <1>2, TableOfAppend
    <3> HIDE DEF cs
    <3>5. before \o Append(p.out, cs) = Append(before \o p.out, cs)
      BY <3>1, <3>2, OutGrows
    <3> QED BY <1>1, <1>5, <3>3, <3>4, <3>5 DEF cs
  <2> HIDE DEF cs
  <2> QED BY <1>1, <1>4, <2>1, <2>2, <2>3, <2>4, <2>5, <2>6 DEF Reads, Mode
<1>8. q.error # "none" => Lost(u)
  <2> SUFFICES ASSUME q.error # "none" PROVE Lost(u)
    OBVIOUS
  <2>1. Len(Append(p.cells, p.cell)) \in Nat
    <3>1. p.cells \in Seq(Seq(Characters)) /\ p.cell \in Seq(Characters)
      BY DEF Reads, ParserState
    <3> QED BY <3>1, AppendProperties, LenProperties
  <2>2. ~GoodRecord(r)
    BY <1>5, <2>1, CharactersAre
  <2> QED BY <1>1, <1>6, <2>2 DEF Lost
<1> QED BY <1>7, <1>8 DEF Step, u

(***************************************************************************)
(* One character: the parser has read one more, or the text is lost.       *)
(***************************************************************************)
(* The characters the grammar names are different.                         *)
LEMMA Apart ==
  /\ Quote # Comma /\ Quote # CR /\ Quote # LF /\ Comma # CR /\ Comma # LF /\ CR # LF
  BY DEF Quote, Comma, CR, LF

(* A plain text has no quotes.                                             *)
LEMMA PlainIsEven ==
  ASSUME NEW s \in Seq(Characters), PlainText(s)
  PROVE  Even(s) /\ (s = <<>> \/ s[1] # Quote)
<1>1. Len(s) \in Nat /\ DOMAIN s = 1 .. Len(s)
  BY LenProperties
<1>2. s = <<>> \/ s[1] # Quote
  <2>1. Len(s) = 0 => s = <<>>
    BY EmptyText
  <2>2. Len(s) # 0 => 1 \in DOMAIN s
    BY <1>1
  <2> QED BY <2>1, <2>2 DEF PlainText
<1>3. QuotesUpTo(s, Len(s)) = {}
  BY <1>1 DEF QuotesUpTo, PlainText
<1>4. Cardinality(QuotesUpTo(s, Len(s))) = 0
  BY <1>3, FS_EmptySet
<1>5. Len(s) + 1 - 1 = Len(s)
  BY <1>1
<1>6. QuotesBefore(s, Len(s) + 1) = 0
  BY <1>4, <1>5 DEF QuotesBefore, QuotesUpTo
<1>7. Even(s)
  BY <1>6 DEF Even, Outside
<1> QED BY <1>2, <1>7

(* One character put at the end.                                           *)
LEMMA OneCharacter ==
  ASSUME NEW s \in Seq(Characters), NEW c \in Characters
  PROVE  s \o <<c>> = Append(s, c) /\ <<c>> \in Seq(Characters)
  OBVIOUS

(* A plain text and a further character.                                   *)
LEMMA PlainMore ==
  ASSUME NEW s \in Seq(Characters), PlainText(s), NEW c \in Characters
  PROVE  /\ c \notin {Quote, CR, LF} => PlainText(Append(s, c))
         /\ c \in {Quote, CR, LF} => ~PlainText(Append(s, c))
         /\ Append(s, c) \in Seq(Characters) /\ Append(s, c) # <<>>
         /\ s # <<>> \/ c # Quote => Append(s, c)[1] # Quote
<1> DEFINE u == Append(s, c)
<1>1. /\ DOMAIN u = DOMAIN s \cup {Len(s) + 1} /\ u[Len(s) + 1] = c
      /\ \A k \in DOMAIN s : u[k] = s[k]
      /\ u \in Seq(Characters) /\ u # <<>>
  BY AppendHas, AppendIsNot
<1>2. Len(s) \in Nat /\ DOMAIN s = 1 .. Len(s) /\ (s = <<>> <=> Len(s) = 0)
  BY LenProperties, EmptySeq
<1> HIDE DEF u
<1>3. c \notin {Quote, CR, LF} => PlainText(u)
  BY <1>1 DEF PlainText
<1>4. c \in {Quote, CR, LF} => ~PlainText(u)
  BY <1>1 DEF PlainText
<1>5. s # <<>> => u[1] # Quote
  BY <1>1, <1>2 DEF PlainText
<1>6. s = <<>> => u[1] = c
  BY <1>1, <1>2
<1> QED BY <1>1, <1>3, <1>4, <1>5, <1>6 DEF u

(* A character outside of quotes.                                          *)
LEMMA UnquotedStep ==
  ASSUME NEW before \in Raws, NEW t \in Seq(Characters), NEW c \in Characters, NEW p,
         Reads(p, t, before), InPlain(p, OpenField(t)), ~p.pendingCr
  PROVE  Step(p, Unquoted(p, c), t, c, before)
<1> DEFINE f == OpenField(t)
           q == Unquoted(p, c)
<1>1. /\ p \in ParserState /\ p.error = "none" /\ f = p.cell /\ PlainText(f)
      /\ ~p.quoted /\ ~p.quotePending /\ ~p.afterQuote /\ ByteCount(f) <= MaxCellBytes
  BY DEF Reads, InPlain, WithReturn
<1>2. f \in Seq(Characters)
  BY TextHas
<1>3. Even(f) /\ (f # <<>> => Last(f) # CR)
  <2>1. Even(f)
    BY <1>1, <1>2, PlainIsEven
  <2>2. ASSUME f # <<>> PROVE Last(f) # CR
    <3>1. Len(f) \in Nat /\ Len(f) # 0 /\ DOMAIN f = 1 .. Len(f)
      BY <1>2, <2>2, LenProperties, EmptySeq
    <3>2. Len(f) \in DOMAIN f
      BY <3>1
    <3> QED BY <1>1, <3>2 DEF Last, PlainText
  <2> QED BY <2>1, <2>2
<1>4. ~Closes(f, c)
  <2>1. Len(f) > 0 => f # <<>>
    OBVIOUS
  <2> HIDE DEF f
  <2> QED BY <1>3, <2>1 DEF Closes
<1>5. CASE c = Quote /\ p.cell = <<>>
  <2>1. q = [p EXCEPT !.quoted = TRUE, !.rowActive = TRUE]
    BY <1>1, <1>5, Apart DEF Unquoted
  <2>2. /\ Same(p, q) /\ q.error = "none" /\ q.cells = p.cells /\ q.out = p.out
        /\ q.cell = <<>> /\ q.quoted /\ ~q.quotePending /\ ~q.afterQuote /\ q.pendingCr = p.pendingCr
    BY <1>1, <1>5, <2>1 DEF Same, ParserState
  <2>3. Append(f, c) = QuoteThen(<<>>)
    BY <1>1, <1>5 DEF QuoteThen
  <2> HIDE DEF q, f
  <2>4. InQuoted(q, Append(f, c))
    BY <2>2, <2>3, SoundNothing, UnpairedOfNothing DEF InQuoted, WithReturn
  <2> QED BY <1>1, <1>4, <1>5, <2>2, <2>4, StepInField, Apart DEF Mode, q, f
<1>6. CASE (c = Quote /\ p.cell # <<>>) \/ c = LF
  <2>1. q = Malformed(p)
    BY <1>1, <1>6, Apart DEF Unquoted
  <2>2. Same(p, q) /\ q.error # "none"
    BY <1>1, <2>1, MalformedIs
  <2> HIDE DEF q, f
  <2>3. Hopeless(Append(f, c))
    BY <1>1, <1>2, <1>6, PlainMore, PlainHopeless, Apart
  <2>4. c # Comma /\ c # CR
    BY <1>6, Apart
  <2>5. Lost(Append(t, c))
    BY <1>4, <2>3, <2>4, LostNow DEF f
  <2> QED BY <1>4, <2>2, <2>4, <2>5, StepInField DEF q, f
<1>7. CASE c = Comma
  <2> DEFINE r == FinishCell(p)
             cs == Append(p.cells, p.cell)
  <2>1. q = [r EXCEPT !.rowActive = TRUE]
    BY <1>1, <1>7, Apart DEF Unquoted
  <2>2. /\ Same(p, r) /\ r.cells = cs /\ r.out = p.out
        /\ Flags(r) = <<p.quoted, p.quotePending, FALSE, p.pendingCr>>
        /\ r.error = "none" => Len(cs) <= MaxColumns /\ Row(r) = <<cs, <<>>, p.rowActive, p.out>>
        /\ r.error # "none" => Len(cs) > MaxColumns
    BY <1>1, FinishCellIs
  <2>3. /\ p.quoted = FALSE /\ p.quotePending = FALSE /\ p.pendingCr = FALSE
    BY <1>1 DEF ParserState
  <2> HIDE DEF r, cs
  <2>4. /\ Same(p, q) /\ q.error = r.error /\ q.cells = cs /\ q.out = p.out
        /\ q.cell = r.cell /\ Flags(q) = <<FALSE, FALSE, FALSE, FALSE>>
    BY <2>1, <2>2, <2>3 DEF Same, ParserState, Flags
  <2>5. r.error = "none" => r.cell = <<>>
    BY <2>2 DEF Row
  <2> HIDE DEF q, f
  <2>6. Good(f) /\ Value(f) = p.cell
    BY <1>1, <1>2, PlainIsWellFormed DEF Good
  <2> QED BY <1>3, <1>7, <2>2, <2>4, <2>5, <2>6, StepToNextField DEF q, f, cs
<1>8. CASE c = CR
  <2>1. q = [p EXCEPT !.pendingCr = TRUE]
    BY <1>1, <1>8, Apart DEF Unquoted
  <2>2. /\ Same(p, q) /\ q.error = "none" /\ q.cells = p.cells /\ q.out = p.out
        /\ q.cell = p.cell /\ ~q.quoted /\ ~q.quotePending /\ ~q.afterQuote /\ q.pendingCr
    BY <1>1, <2>1 DEF Same, ParserState
  <2> HIDE DEF q, f
  <2>3. InPlain(q, Append(f, c))
    BY <1>1, <1>8, <2>2 DEF InPlain, WithReturn
  <2> QED BY <1>1, <1>4, <1>8, <2>2, <2>3, StepInField, Apart DEF Mode, q, f
<1>9. CASE c \notin {Quote, Comma, CR, LF}
  <2> DEFINE r == AppendText(p, <<c>>)
  <2>1. q = [r EXCEPT !.rowActive = TRUE]
    BY <1>1, <1>9 DEF Unquoted
  <2>2. p.cell \o <<c>> = Append(f, c) /\ <<c>> \in Seq(Characters)
    BY <1>1, <1>2, OneCharacter
  <2>3. /\ Same(p, r)
        /\ r.error = "none" => /\ ByteCount(Append(f, c)) <= MaxCellBytes
                               /\ Row(r) = <<p.cells, Append(f, c), p.rowActive, p.out>>
                               /\ Flags(r) = Flags(p)
        /\ r.error # "none" => ByteCount(Append(f, c)) > MaxCellBytes
    BY <1>1, <2>2, AppendTextIs
  <2> HIDE DEF r
  <2>4. /\ Same(p, q) /\ q.error = r.error /\ q.cells = r.cells /\ q.out = r.out /\ q.cell = r.cell
        /\ Flags(q) = Flags(r)
    BY <2>1, <2>3 DEF Same, ParserState, Flags
  <2> HIDE DEF q, f
  <2>5. /\ PlainText(Append(f, c)) /\ Append(f, c) \in Seq(Characters) /\ Append(f, c) # <<>>
        /\ Append(f, c)[1] # Quote
    BY <1>1, <1>2, <1>9, PlainMore
  <2>6. q.error = "none" => InPlain(q, Append(f, c))
    BY <1>1, <2>3, <2>4, <2>5 DEF InPlain, WithReturn, Flags, Row
  <2>7. q.error # "none" => Lost(Append(t, c))
    <3> SUFFICES ASSUME q.error # "none" PROVE Lost(Append(t, c))
      OBVIOUS
    <3>1. Hopeless(Append(f, c))
      BY <2>3, <2>4, <2>5, PlainHopeless
    <3>2. c # Comma /\ c # CR
      BY <1>9
    <3> QED BY <1>4, <3>1, <3>2, LostNow DEF f
  <2>8. q.error = "none" => q.cells = p.cells /\ q.out = p.out /\ ByteCount(q.cell) <= MaxCellBytes
    BY <2>3, <2>4 DEF Row
  <2>9. c # Comma
    BY <1>9
  <2> QED BY <1>4, <2>4, <2>6, <2>7, <2>8, <2>9, StepInField DEF Mode, q, f
<1> QED BY <1>5, <1>6, <1>7, <1>8, <1>9

(* A sound inside after its opening quote.                                 *)
LEMMA QuotedIs ==
  ASSUME NEW s, Sound(s)
  PROVE  /\ s \in Seq(Characters) /\ QuoteThen(s) \in Seq(Characters) /\ ~Even(QuoteThen(s))
         /\ Unpaired(s) \in Seq(Characters)
         /\ \A c \in Characters :
              /\ QuoteThen(Append(s, c)) = Append(QuoteThen(s), c)
              /\ Append(s, c) \in Seq(Characters)
              /\ Append(QuoteThen(s), c) \in Seq(Characters)
<1>1. s \in Seq(Characters) /\ Even(s) /\ Quote \in Characters
  BY CharactersAre DEF Sound
<1>2. QuoteThen(s) \in Seq(Characters) /\ ~Even(QuoteThen(s))
  BY <1>1, QuoteThenIs, EvenOfQuoteThen
<1>3. Unpaired(s) \in Seq(Characters)
  BY <1>1, UnpairedIs
<1>4. \A c \in Characters : QuoteThen(Append(s, c)) = Append(QuoteThen(s), c)
  BY <1>1, QuoteThenMore
<1>5. ASSUME NEW c \in Characters
      PROVE  Append(s, c) \in Seq(Characters) /\ Append(QuoteThen(s), c) \in Seq(Characters)
  BY <1>1, <1>2, AppendProperties
<1> QED BY <1>1, <1>2, <1>3, <1>4, <1>5

(* A character inside quotes.                                              *)
LEMMA InQuotesStep ==
  ASSUME NEW before \in Raws, NEW t \in Seq(Characters), NEW c \in Characters, NEW p,
         Reads(p, t, before), InQuoted(p, OpenField(t)), ~p.pendingCr
  PROVE  Step(p, InQuotes(p, c), t, c, before)
<1> DEFINE f == OpenField(t)
           q == InQuotes(p, c)
<1>1. /\ p \in ParserState /\ p.error = "none" /\ p.quoted /\ ~p.quotePending /\ ~p.afterQuote
      /\ ByteCount(p.cell) <= MaxCellBytes
  BY DEF Reads, InQuoted
<1>2. PICK s : Sound(s) /\ p.cell = Unpaired(s) /\ f = QuoteThen(s)
  BY DEF InQuoted, WithReturn
<1>3. /\ s \in Seq(Characters) /\ f \in Seq(Characters) /\ ~Even(f) /\ Append(s, c) \in Seq(Characters)
      /\ Append(f, c) = QuoteThen(Append(s, c)) /\ p.cell \in Seq(Characters)
  <2> HIDE DEF f
  <2> QED BY <1>2, QuotedIs
<1>4. ~Closes(f, c) /\ ~(c = Comma /\ Even(f))
  <2> HIDE DEF f
  <2> QED BY <1>3 DEF Closes
<1>5. CASE c = Quote
  <2>1. q = [p EXCEPT !.quotePending = TRUE]
    BY <1>1, <1>5, Apart DEF InQuotes
  <2>2. /\ Same(p, q) /\ q.error = "none" /\ q.cells = p.cells /\ q.out = p.out
        /\ q.cell = p.cell /\ q.quoted /\ q.quotePending /\ ~q.afterQuote /\ ~q.pendingCr
    BY <1>1, <2>1 DEF Same, ParserState
  <2> HIDE DEF q, f
  <2>3. Append(f, c) = Append(QuoteThen(s), Quote)
    BY <1>2, <1>5
  <2>4. AtQuote(q, Append(f, c))
    BY <1>2, <2>2, <2>3 DEF AtQuote
  <2> QED BY <1>1, <1>4, <2>2, <2>4, StepInField DEF Mode, q, f
<1>6. CASE c = CR
  <2>1. q = [p EXCEPT !.pendingCr = TRUE]
    BY <1>1, <1>6, Apart DEF InQuotes
  <2>2. /\ Same(p, q) /\ q.error = "none" /\ q.cells = p.cells /\ q.out = p.out
        /\ q.cell = p.cell /\ q.quoted /\ ~q.quotePending /\ ~q.afterQuote /\ q.pendingCr
    BY <1>1, <2>1 DEF Same, ParserState
  <2> HIDE DEF q, f
  <2>3. InQuoted(q, Append(f, c))
    BY <1>2, <1>6, <2>2 DEF InQuoted, WithReturn
  <2> QED BY <1>1, <1>4, <2>2, <2>3, StepInField DEF Mode, q, f
<1>7. CASE c = LF
  <2>1. q = Malformed(p)
    BY <1>1, <1>7, Apart DEF InQuotes
  <2>2. Same(p, q) /\ q.error # "none"
    BY <1>1, <2>1, MalformedIs
  <2> HIDE DEF q, f
  <2>3. Hopeless(Append(f, c))
    BY <1>2, <1>7, BareLineFeedHopeless
  <2>4. c # Comma /\ c # CR
    BY <1>7, Apart
  <2>5. Lost(Append(t, c))
    BY <1>4, <2>3, <2>4, LostNow DEF f
  <2> QED BY <1>4, <2>2, <2>5, StepInField DEF q, f
<1>8. CASE c \notin {Quote, CR, LF}
  <2> DEFINE u == Append(s, c)
  <2>1. q = AppendText(p, <<c>>)
    BY <1>1, <1>8 DEF InQuotes
  <2>2. p.cell \o <<c>> = Append(p.cell, c) /\ <<c>> \in Seq(Characters)
    BY <1>3, OneCharacter
  <2>3. Sound(u) /\ Unpaired(u) = Append(Unpaired(s), c)
    BY <1>2, <1>8, SoundCharacter
  <2>4. p.cell \o <<c>> = Unpaired(u) /\ u \in Seq(Characters)
    BY <1>2, <1>3, <2>2, <2>3
  <2> HIDE DEF u
  <2>5. /\ Same(p, q)
        /\ q.error = "none" => /\ ByteCount(Unpaired(u)) <= MaxCellBytes
                               /\ Row(q) = <<p.cells, Unpaired(u), p.rowActive, p.out>>
                               /\ Flags(q) = Flags(p)
        /\ q.error # "none" => ByteCount(Unpaired(u)) > MaxCellBytes
    BY <1>1, <2>1, <2>2, <2>4, AppendTextIs
  <2> HIDE DEF q, f
  <2>6. Append(f, c) = QuoteThen(u)
    BY <1>3 DEF u
  <2>7. q.error = "none" => InQuoted(q, Append(f, c))
    <3>1. q.error = "none" => q.quoted /\ ~q.quotePending /\ ~q.afterQuote /\ ~q.pendingCr /\ q.cell = Unpaired(u)
      BY <1>1, <2>5 DEF Flags, Row
    <3> QED BY <2>3, <2>6, <3>1 DEF InQuoted, WithReturn
  <2>8. q.error # "none" => Lost(Append(t, c))
    <3> SUFFICES ASSUME q.error # "none" PROVE Lost(Append(t, c))
      OBVIOUS
    <3>1. u # <<>> /\ Last(u) = c
      BY <1>3, AppendIsNot DEF u
    <3>2. ~WellFormed(QuoteThen(u))
      BY <1>8, <2>4, <3>1, NotClosed
    <3>3. Hopeless(QuoteThen(u))
      BY <2>4, <2>5, <3>2, LongHopeless
    <3>4. Hopeless(Append(f, c)) /\ (c # Comma \/ ~Even(f)) /\ (c # CR \/ ~Even(f))
      BY <1>3, <2>6, <3>3
    <3> QED BY <1>4, <3>4, LostNow DEF f
  <2>9. q.error = "none" => q.cells = p.cells /\ q.out = p.out /\ ByteCount(q.cell) <= MaxCellBytes
    BY <2>5 DEF Row
  <2> QED BY <1>4, <2>5, <2>7, <2>8, <2>9, StepInField DEF Mode, q, f
<1> QED BY <1>5, <1>6, <1>7, <1>8

(* A character after a quote inside quotes: a pair, or the end of the      *)
(* field.                                                                  *)
LEMMA AtQuoteStep ==
  ASSUME NEW before \in Raws, NEW t \in Seq(Characters), NEW c \in Characters, NEW p,
         Reads(p, t, before), AtQuote(p, OpenField(t))
  PROVE  Step(p, InQuotes(p, c), t, c, before)
<1> DEFINE f == OpenField(t)
           q == InQuotes(p, c)
<1>1. /\ p \in ParserState /\ p.error = "none" /\ p.quoted /\ p.quotePending /\ ~p.afterQuote
      /\ ~p.pendingCr /\ ByteCount(p.cell) <= MaxCellBytes
  BY DEF Reads, AtQuote
<1>2. PICK s : Sound(s) /\ p.cell = Unpaired(s) /\ f = Append(QuoteThen(s), Quote)
  BY DEF AtQuote
<1>3. /\ s \in Seq(Characters) /\ Append(s, Quote) \in Seq(Characters) /\ p.cell \in Seq(Characters)
      /\ f = QuoteThen(Append(s, Quote)) /\ f \in Seq(Characters) /\ Quote \in Characters
  <2> HIDE DEF f
  <2> QED BY <1>2, QuotedIs, CharactersAre
<1>4. Even(f) /\ f # <<>> /\ Last(f) = Quote
  <2> DEFINE g == QuoteThen(s)
  <2>1. g \in Seq(Characters) /\ ~Even(g)
    BY <1>2, QuotedIs
  <2>2. f = Append(g, Quote)
    BY <1>2
  <2> HIDE DEF f, g
  <2>3. Even(Append(g, Quote)) <=> (Even(g) <=> Quote # Quote)
    BY <1>3, <2>1, EvenOfAppend
  <2>4. Append(g, Quote) # <<>> /\ Last(Append(g, Quote)) = Quote
    BY <1>3, <2>1, AppendIsNot
  <2> QED BY <2>1, <2>2, <2>3, <2>4
<1>5. ~Closes(f, c)
  <2> HIDE DEF f
  <2> QED BY <1>4, Apart DEF Closes
<1>6. CASE c = Quote
  <2> DEFINE u == Append(Append(s, Quote), Quote)
             r == [p EXCEPT !.quotePending = FALSE]
  <2>1. q = AppendText(r, <<Quote>>)
    BY <1>1, <1>6 DEF InQuotes
  <2>2. /\ r \in ParserState /\ Same(p, r) /\ r.error = "none" /\ r.cell = p.cell /\ r.cells = p.cells
        /\ r.out = p.out /\ r.quoted /\ ~r.quotePending /\ ~r.afterQuote /\ ~r.pendingCr
    BY <1>1 DEF ParserState, Same
  <2> HIDE DEF r
  <2>3. p.cell \o <<Quote>> = Append(p.cell, Quote) /\ <<Quote>> \in Seq(Characters)
    BY <1>3, OneCharacter
  <2>4. Sound(u) /\ Unpaired(u) = Append(Unpaired(s), Quote)
    BY <1>2, SoundPair
  <2>5. r.cell \o <<Quote>> = Unpaired(u)
    BY <1>2, <2>2, <2>3, <2>4
  <2>6. u \in Seq(Characters) /\ Append(f, c) = QuoteThen(u)
    <3>1. u \in Seq(Characters)
      BY <2>4 DEF Sound
    <3>2. QuoteThen(Append(Append(s, Quote), Quote)) = Append(QuoteThen(Append(s, Quote)), Quote)
      BY <1>3, QuoteThenMore
    <3> HIDE DEF f
    <3> QED BY <1>3, <1>6, <3>1, <3>2
  <2>7. ~WellFormed(QuoteThen(u))
    BY <1>2, PairDoesNotClose
  <2> HIDE DEF u
  <2>8. /\ Same(r, q)
        /\ q.error = "none" => /\ ByteCount(Unpaired(u)) <= MaxCellBytes
                               /\ Row(q) = <<r.cells, Unpaired(u), r.rowActive, r.out>>
                               /\ Flags(q) = Flags(r)
        /\ q.error # "none" => ByteCount(Unpaired(u)) > MaxCellBytes
    BY <2>1, <2>2, <2>3, <2>5, AppendTextIs
  <2> HIDE DEF q, f
  <2>9. Same(p, q)
    BY <2>2, <2>8 DEF Same
  <2>10. q.error = "none" => InQuoted(q, Append(f, c))
    <3>1. q.error = "none" => q.quoted /\ ~q.quotePending /\ ~q.afterQuote /\ ~q.pendingCr /\ q.cell = Unpaired(u)
      BY <2>2, <2>8 DEF Flags, Row
    <3> QED BY <2>4, <2>6, <3>1 DEF InQuoted, WithReturn
  <2>11. q.error # "none" => Lost(Append(t, c))
    <3> SUFFICES ASSUME q.error # "none" PROVE Lost(Append(t, c))
      OBVIOUS
    <3>1. Hopeless(QuoteThen(u))
      BY <2>6, <2>7, <2>8, LongHopeless
    <3>2. Hopeless(Append(f, c)) /\ c # Comma /\ c # CR
      BY <1>6, <2>6, <3>1, Apart
    <3> QED BY <1>5, <3>2, LostNow DEF f
  <2>12. q.error = "none" => q.cells = p.cells /\ q.out = p.out /\ ByteCount(q.cell) <= MaxCellBytes
    BY <2>2, <2>8 DEF Row
  <2>13. c # Comma
    BY <1>6, Apart
  <2> QED BY <1>5, <2>9, <2>10, <2>11, <2>12, <2>13, StepInField DEF Mode, q, f
<1>7. CASE c # Quote
  <2> DEFINE r == [p EXCEPT !.quotePending = FALSE, !.quoted = FALSE, !.afterQuote = TRUE]
  <2>1. q = Unquoted(r, c)
    BY <1>1, <1>7 DEF InQuotes
  <2>2. /\ r \in ParserState /\ Same(p, r) /\ r.error = "none" /\ r.cell = p.cell /\ r.cells = p.cells
        /\ r.out = p.out /\ r.quoted = FALSE /\ r.quotePending = FALSE /\ r.afterQuote /\ r.pendingCr = FALSE
    BY <1>1 DEF ParserState, Same
  <2> HIDE DEF r
  <2>3. CASE c \notin {Comma, CR}
    <3>1. q = Malformed(r)
      BY <1>7, <2>1, <2>2, <2>3, Apart DEF Unquoted
    <3>2. Same(p, q) /\ q.error # "none"
      BY <2>2, <3>1, MalformedIs DEF Same
    <3> HIDE DEF q, f
    <3>3. Hopeless(Append(f, c))
      BY <1>2, <1>7, AfterQuoteHopeless
    <3>4. Lost(Append(t, c))
      BY <1>5, <2>3, <3>3, LostNow DEF f
    <3> QED BY <1>5, <2>3, <3>2, <3>4, StepInField DEF q, f
  <2>4. CASE c = Comma
    <3> DEFINE z == FinishCell(r)
               cs == Append(p.cells, p.cell)
    <3>1. q = [z EXCEPT !.rowActive = TRUE]
      BY <1>7, <2>1, <2>2, <2>4, Apart DEF Unquoted
    <3>2. /\ Same(r, z) /\ z.cells = cs /\ z.out = p.out
          /\ Flags(z) = <<FALSE, FALSE, FALSE, FALSE>>
          /\ z.error = "none" => Len(cs) <= MaxColumns /\ Row(z) = <<cs, <<>>, r.rowActive, p.out>>
          /\ z.error # "none" => Len(cs) > MaxColumns
      BY <2>2, FinishCellIs
    <3> HIDE DEF z, cs
    <3>3. /\ Same(r, q) /\ q.error = z.error /\ q.cells = cs /\ q.out = p.out
          /\ q.cell = z.cell /\ Flags(q) = <<FALSE, FALSE, FALSE, FALSE>>
      BY <3>1, <3>2 DEF Same, ParserState, Flags
    <3> HIDE DEF q, f
    <3>4. Same(p, q) /\ (z.error = "none" => z.cell = <<>>)
      BY <2>2, <3>2, <3>3 DEF Same, Row
    <3>5. Good(f) /\ Value(f) = p.cell
      BY <1>1, <1>2, ClosedIsWellFormed DEF Good
    <3> QED BY <1>4, <2>4, <3>2, <3>3, <3>4, <3>5, StepToNextField DEF q, f, cs
  <2>5. CASE c = CR
    <3>1. q = [r EXCEPT !.pendingCr = TRUE]
      BY <1>7, <2>1, <2>2, <2>5, Apart DEF Unquoted
    <3>2. /\ Same(r, q) /\ q.error = "none" /\ q.cells = p.cells /\ q.out = p.out
          /\ q.cell = p.cell /\ ~q.quoted /\ ~q.quotePending /\ q.afterQuote /\ q.pendingCr
      BY <2>2, <3>1, ZenonT(60) DEF Same, ParserState
    <3> HIDE DEF q, f
    <3>3. Same(p, q)
      BY <2>2, <3>2 DEF Same
    <3>4. AfterQuote(q, Append(f, c))
      BY <1>2, <2>5, <3>2 DEF AfterQuote
    <3>5. c # Comma
      BY <2>5, Apart
    <3> QED BY <1>1, <1>5, <3>2, <3>3, <3>4, <3>5, StepInField DEF Mode, q, f
  <2> QED BY <2>3, <2>4, <2>5
<1> QED BY <1>6, <1>7

(* Two characters put at the end.                                          *)
LEMMA TwoCharacters ==
  ASSUME NEW s \in Seq(Characters), NEW a \in Characters, NEW b \in Characters
  PROVE  s \o <<a, b>> = Append(Append(s, a), b) /\ <<a, b>> \in Seq(Characters)
<1>1. <<a, b>> = Append(<<a>>, b) /\ <<a>> \in Seq(Characters)
  OBVIOUS
<1>2. s \o Append(<<a>>, b) = Append(s \o <<a>>, b)
  BY <1>1, ConcatAppend
<1>3. s \o <<a>> = Append(s, a)
  BY OneCharacter
<1> QED BY <1>1, <1>2, <1>3

(* A character after a carriage return.                                    *)
LEMMA AfterCrStep ==
  ASSUME NEW before \in Raws, NEW t \in Seq(Characters), NEW c \in Characters, NEW p,
         Reads(p, t, before), p.pendingCr
  PROVE  Step(p, AfterCr(p, c), t, c, before)
<1> DEFINE f == OpenField(t)
           q == AfterCr(p, c)
           r == [p EXCEPT !.pendingCr = FALSE]
<1>1. /\ p \in ParserState /\ p.error = "none" /\ ByteCount(p.cell) <= MaxCellBytes
      /\ p.cell \in Seq(Characters)
  BY DEF Reads, ParserState
<1>2. f \in Seq(Characters) /\ CR \in Characters /\ LF \in Characters
  BY TextHas, CharactersAre
<1>3. InPlain(p, f) \/ InQuoted(p, f) \/ AfterQuote(p, f)
  BY DEF Reads, Mode, AtQuote
<1>4. /\ r \in ParserState /\ Same(p, r) /\ r.error = "none" /\ r.cell = p.cell /\ r.cells = p.cells
      /\ r.out = p.out /\ r.quoted = p.quoted /\ r.quotePending = p.quotePending
      /\ r.afterQuote = p.afterQuote /\ r.pendingCr = FALSE
  BY <1>1 DEF ParserState, Same
<1>5. CASE c # LF
  <2>1. q = Malformed(p)
    BY <1>5 DEF AfterCr
  <2>2. Same(p, q) /\ q.error # "none"
    BY <1>1, <2>1, MalformedIs
  <2> HIDE DEF q, f
  <2>3. ~Closes(f, c)
    BY <1>5 DEF Closes
  <2>7. Lost(Append(t, c))
    <3>4. CASE InPlain(p, f)
      <4>1. f = Append(p.cell, CR) /\ PlainText(p.cell)
        BY <3>4 DEF InPlain, WithReturn
      <4>2. Hopeless(f)
        BY <1>1, <1>2, <4>1, PlainMore, PlainHopeless, Apart
      <4> QED BY <2>3, <4>2, LostNow DEF f
    <3>5. CASE InQuoted(p, f)
      <4>1. PICK s : Sound(s) /\ f = Append(QuoteThen(s), CR)
        BY <3>5 DEF InQuoted, WithReturn
      <4>2. Hopeless(Append(f, c))
        BY <1>5, <4>1, BareReturnHopeless
      <4>3. ~Even(f)
        <5> DEFINE g == QuoteThen(s)
        <5>1. g \in Seq(Characters) /\ ~Even(g)
          BY <4>1, QuotedIs
        <5>2. f = Append(g, CR)
          BY <4>1
        <5> HIDE DEF g
        <5> QED BY <1>2, <5>1, <5>2, EvenOfAppend, Apart
      <4> QED BY <2>3, <4>2, <4>3, LostNow DEF f
    <3>6. CASE AfterQuote(p, f)
      <4>1. PICK s : Sound(s) /\ f = Append(Append(QuoteThen(s), Quote), CR)
        BY <3>6 DEF AfterQuote
      <4>2. Hopeless(f)
        BY <1>2, <4>1, AfterQuoteHopeless, Apart
      <4> QED BY <2>3, <4>2, LostNow DEF f
    <3> QED BY <1>3, <3>4, <3>5, <3>6
  <2>8. q.error = "none" => FALSE
    BY <2>2
  <2> QED BY <2>2, <2>7 DEF Step, q
<1>6. CASE c = LF /\ ~p.quoted
  <2>1. q = FinishRow(r)
    BY <1>6 DEF AfterCr
  <2> HIDE DEF r
  <2> DEFINE cs == Append(p.cells, p.cell)
  <2>2. p.quoted = FALSE /\ p.quotePending = FALSE
    BY <1>1, <1>3, <1>6 DEF InPlain, InQuoted, AfterQuote, ParserState
  <2>3. /\ Same(r, q)
        /\ q.error = "none" => /\ Len(cs) <= MaxColumns
                               /\ Row(q) = <<<<>>, <<>>, FALSE, Append(p.out, cs)>>
                               /\ Flags(q) = <<FALSE, FALSE, FALSE, FALSE>>
        /\ q.error # "none" => Len(cs) > MaxColumns
    BY <1>4, <2>1, <2>2, FinishRowIs
  <2> HIDE DEF q, f, cs
  <2>4. Same(p, q)
    BY <1>4, <2>3 DEF Same
  <2>5. /\ f # <<>> /\ Last(f) = CR /\ Even(f) /\ Good(Front(f)) /\ Value(Front(f)) = p.cell
        /\ Len(f) > 0
    <3>1. CASE InPlain(p, f)
      <4>1. f = Append(p.cell, CR) /\ PlainText(p.cell)
        BY <3>1, <1>6 DEF InPlain, WithReturn
      <4>2. Even(p.cell)
        BY <1>1, <4>1, PlainIsEven
      <4>3. Even(f)
        BY <1>1, <1>2, <4>1, <4>2, EvenOfAppend, Apart
      <4>4. f # <<>> /\ Last(f) = CR /\ Front(f) = p.cell
        BY <1>1, <1>2, <4>1, AppendIsNot
      <4>5. Good(p.cell) /\ Value(p.cell) = p.cell
        BY <1>1, <4>1, PlainIsWellFormed DEF Good
      <4>6. Len(f) > 0
        BY <1>1, <1>2, <4>1, AppendIsNot
      <4> QED BY <4>3, <4>4, <4>5, <4>6
    <3>2. CASE AfterQuote(p, f)
      <4>1. PICK s : Sound(s) /\ p.cell = Unpaired(s) /\ f = Append(Append(QuoteThen(s), Quote), CR)
        BY <3>2 DEF AfterQuote
      <4> DEFINE g == QuoteThen(s)
                 h == Append(g, Quote)
      <4>2. g \in Seq(Characters) /\ ~Even(g)
        BY <4>1, QuotedIs
      <4>3. Good(h) /\ Value(h) = p.cell
        BY <1>1, <4>1, ClosedIsWellFormed DEF Good
      <4>4. f = Append(h, CR)
        BY <4>1
      <4> HIDE DEF g
      <4>5. Even(h) /\ h \in Seq(Characters)
        <5>1. Quote \in Characters
          BY CharactersAre
        <5>2. h \in Seq(Characters)
          BY <4>2, <5>1, AppendProperties
        <5>3. Even(h) <=> (Even(g) <=> Quote # Quote)
          BY <4>2, <5>1, EvenOfAppend
        <5> QED BY <4>2, <5>2, <5>3
      <4> HIDE DEF h
      <4>6. Even(f)
        BY <1>2, <4>4, <4>5, EvenOfAppend, Apart
      <4>7. f # <<>> /\ Last(f) = CR /\ Front(f) = h /\ Len(f) > 0
        BY <1>2, <4>4, <4>5, AppendIsNot
      <4> QED BY <4>3, <4>6, <4>7
    <3> QED BY <1>3, <1>6, <3>1, <3>2 DEF InQuoted
  <2>6. Closes(f, c)
    BY <1>6, <2>5 DEF Closes
  <2> QED BY <2>3, <2>4, <2>5, <2>6, StepToNextRow DEF q, f, cs
<1>7. CASE c = LF /\ p.quoted
  <2>1. q = AppendText(r, <<CR, LF>>)
    BY <1>7 DEF AfterCr
  <2> HIDE DEF r
  <2>2. InQuoted(p, f)
    BY <1>3, <1>7 DEF InPlain, AfterQuote
  <2>3. PICK s : Sound(s) /\ p.cell = Unpaired(s) /\ f = Append(QuoteThen(s), CR)
    BY <2>2 DEF InQuoted, WithReturn
  <2> DEFINE u == Append(Append(s, CR), LF)
             g == QuoteThen(s)
  <2>4. Sound(u) /\ Unpaired(u) = Append(Append(Unpaired(s), CR), LF)
    BY <2>3, SoundLine
  <2>5. r.cell \o <<CR, LF>> = Append(Append(p.cell, CR), LF) /\ <<CR, LF>> \in Seq(Characters)
    BY <1>1, <1>2, <1>4, TwoCharacters
  <2>6. s \in Seq(Characters) /\ Append(s, CR) \in Seq(Characters) /\ u \in Seq(Characters)
        /\ g \in Seq(Characters) /\ ~Even(g)
    BY <1>2, <2>3, <2>4, QuotedIs DEF Sound
  <2>7. Append(f, c) = QuoteThen(u)
    <3> DEFINE v == Append(s, CR)
    <3>1. QuoteThen(v) = Append(QuoteThen(s), CR)
      BY <1>2, <2>6, QuoteThenMore, CharactersAre
    <3>2. v \in Seq(Characters)
      BY <2>6
    <3> HIDE DEF v
    <3>3. QuoteThen(Append(v, LF)) = Append(QuoteThen(v), LF)
      BY <1>2, <3>2, QuoteThenMore, CharactersAre
    <3> HIDE DEF f
    <3> QED BY <1>7, <2>3, <3>1, <3>3 DEF u, v
  <2>8. u # <<>> /\ Last(u) = LF
    BY <1>2, <2>6, AppendIsNot, ZenonT(60)
  <2>9. r.cell \o <<CR, LF>> = Unpaired(u)
    BY <2>3, <2>4, <2>5
  <2>10. ~Even(f)
    <3>1. f = Append(g, CR)
      BY <2>3
    <3> HIDE DEF g, f
    <3> QED BY <1>2, <2>6, <3>1, EvenOfAppend, Apart
  <2> HIDE DEF u, g
  <2>11. /\ Same(r, q)
         /\ q.error = "none" => /\ ByteCount(Unpaired(u)) <= MaxCellBytes
                                /\ Row(q) = <<r.cells, Unpaired(u), r.rowActive, r.out>>
                                /\ Flags(q) = Flags(r)
         /\ q.error # "none" => ByteCount(Unpaired(u)) > MaxCellBytes
    BY <1>4, <2>1, <2>5, <2>9, AppendTextIs
  <2> HIDE DEF q, f
  <2>12. Same(p, q)
    BY <1>4, <2>11 DEF Same
  <2>13. ~Closes(f, c) /\ c # Comma /\ c # CR
    BY <1>7, <2>10, Apart DEF Closes
  <2>14. q.error = "none" => InQuoted(q, Append(f, c))
    <3>1. q.error = "none" => q.quoted /\ ~q.quotePending /\ ~q.afterQuote /\ ~q.pendingCr /\ q.cell = Unpaired(u)
      BY <1>4, <1>7, <2>2, <2>11 DEF Flags, Row, InQuoted
    <3> QED BY <2>4, <2>7, <3>1 DEF InQuoted, WithReturn
  <2>15. q.error # "none" => Lost(Append(t, c))
    <3> SUFFICES ASSUME q.error # "none" PROVE Lost(Append(t, c))
      OBVIOUS
    <3>1. ~WellFormed(QuoteThen(u))
      BY <2>6, <2>8, NotClosed, Apart
    <3>2. Hopeless(Append(f, c))
      BY <2>6, <2>7, <2>11, <3>1, LongHopeless
    <3> QED BY <2>13, <3>2, LostNow DEF f
  <2>16. q.error = "none" => q.cells = p.cells /\ q.out = p.out /\ ByteCount(q.cell) <= MaxCellBytes
    BY <1>4, <2>11 DEF Row
  <2> QED BY <2>12, <2>13, <2>14, <2>15, <2>16, StepInField DEF Mode, q, f
<1> QED BY <1>5, <1>6, <1>7

(* One more character: the parser reads it, or no document goes on so.     *)
LEMMA CharacterStep ==
  ASSUME NEW before \in Raws, NEW t \in Seq(Characters), NEW c \in Characters, NEW p,
         Reads(p, t, before)
  PROVE  Step(p, Character(p, c), t, c, before)
<1>1. p \in ParserState /\ p.error = "none" /\ Mode(p, OpenField(t))
  BY DEF Reads
<1>2. CASE p.pendingCr
  <2>1. Character(p, c) = AfterCr(p, c)
    BY <1>1, <1>2 DEF Character
  <2> QED BY <1>2, <2>1, AfterCrStep
<1>3. CASE ~p.pendingCr /\ p.quoted
  <2>1. Character(p, c) = InQuotes(p, c)
    BY <1>1, <1>3 DEF Character
  <2>2. InQuoted(p, OpenField(t)) \/ AtQuote(p, OpenField(t))
    BY <1>1, <1>3 DEF Mode, InPlain, AfterQuote
  <2> QED BY <1>3, <2>1, <2>2, InQuotesStep, AtQuoteStep
<1>4. CASE ~p.pendingCr /\ ~p.quoted
  <2>1. Character(p, c) = Unquoted(p, c)
    BY <1>1, <1>4 DEF Character
  <2>2. InPlain(p, OpenField(t))
    BY <1>1, <1>4 DEF Mode, InQuoted, AtQuote, AfterQuote
  <2> QED BY <1>4, <2>1, <2>2, UnquotedStep
<1> QED BY <1>2, <1>3, <1>4

ReadOf(p, x) == FoldLeft(Character, p, x)

(* Texts put together are a text.                                          *)
LEMMA ConcatIsText ==
  ASSUME NEW S, NEW t \in Seq(S), NEW x \in Seq(S)
  PROVE  t \o x \in Seq(S) /\ t \o <<>> = t /\ <<>> \o t = t
  BY ConcatProperties

(* Lost stays lost, whatever follows.                                      *)
LEMMA LostMore ==
  ASSUME NEW t \in Seq(Characters), Lost(t)
  PROVE  \A x \in Seq(Characters) : Lost(t \o x)
<1> DEFINE Q == {x \in Seq(Characters) : Lost(t \o x)}
<1>1. <<>> \in Q
  <2>1. t \o <<>> = t /\ <<>> \in Seq(Characters)
    BY ConcatIsText
  <2> QED BY <2>1
<1>2. \A x \in Seq(Characters) : x \in Q => \A c \in Characters : Append(x, c) \in Q
  <2> SUFFICES ASSUME NEW x \in Seq(Characters), x \in Q, NEW c \in Characters
               PROVE  Append(x, c) \in Q
    OBVIOUS
  <2>1. t \o x \in Seq(Characters)
    BY ConcatIsText
  <2> DEFINE u == t \o x
  <2>2. u \in Seq(Characters) /\ Lost(u)
    BY <2>1
  <2> HIDE DEF u
  <2>3. Lost(Append(u, c))
    BY <2>2, LostStays
  <2>4. t \o Append(x, c) = Append(u, c)
    BY ConcatAppend DEF u
  <2>5. Append(x, c) \in Seq(Characters)
    BY AppendProperties
  <2>6. Lost(t \o Append(x, c))
    BY <2>3, <2>4
  <2> QED BY <2>5, <2>6
<1> HIDE DEF Q
<1>3. \A x \in Seq(Characters) : x \in Q
  BY <1>1, <1>2, SeqInduction
<1> QED BY <1>3 DEF Q

(* What reading on to the text u makes of the parser.                      *)
ReadsOn(p, q, u, before) ==
  /\ Same(p, q)
  /\ q.error = "none" => Reads(q, u, before)
  /\ q.error # "none" => Lost(u)

(* Many characters: the parser has read them all, or the text is lost.     *)
LEMMA CharactersRead ==
  ASSUME NEW before \in Raws, NEW t \in Seq(Characters), NEW p, Reads(p, t, before)
  PROVE  \A x \in Seq(Characters) : ReadsOn(p, ReadOf(p, x), t \o x, before)
<1> DEFINE Q == {x \in Seq(Characters) : ReadsOn(p, ReadOf(p, x), t \o x, before)}
<1>0. p \in ParserState
  BY DEF Reads
<1>1. <<>> \in Q
  <2>1. t \o <<>> = t /\ <<>> \in Seq(Characters)
    BY ConcatIsText
  <2>2. ReadOf(p, <<>>) = p
    BY ReadOfNothing DEF ReadOf
  <2>3. ReadsOn(p, p, t, before)
    BY <1>0 DEF ReadsOn, Same, Reads
  <2> QED BY <2>1, <2>2, <2>3
<1>2. \A x \in Seq(Characters) : x \in Q => \A c \in Characters : Append(x, c) \in Q
  <2> SUFFICES ASSUME NEW x \in Seq(Characters), x \in Q, NEW c \in Characters
               PROVE  Append(x, c) \in Q
    OBVIOUS
  <2> DEFINE u == t \o x
             q == ReadOf(p, x)
             r == ReadOf(p, Append(x, c))
  <2>1. u \in Seq(Characters) /\ ReadsOn(p, q, u, before)
    BY ConcatIsText
  <2>2. r = Character(q, c)
    BY ReadOfAppend DEF ReadOf
  <2>3. t \o Append(x, c) = Append(u, c)
    BY ConcatAppend
  <2>4. Append(x, c) \in Seq(Characters)
    BY AppendProperties
  <2> HIDE DEF u, q, r
  <2>5. CASE q.error = "none"
    <3>1. Step(q, r, u, c, before)
      BY <2>1, <2>2, <2>5, CharacterStep DEF ReadsOn
    <3> QED BY <2>1, <2>3, <2>4, <3>1 DEF ReadsOn, Step, Same, r
  <2>6. CASE q.error # "none"
    <3>1. r = q
      BY <2>2, <2>6 DEF Character
    <3>2. Lost(Append(u, c))
      BY <2>1, <2>6, LostStays DEF ReadsOn
    <3>3. ReadsOn(p, r, Append(u, c), before)
      BY <2>1, <2>6, <3>1, <3>2 DEF ReadsOn
    <3> QED BY <2>3, <2>4, <3>3 DEF r
  <2> QED BY <2>5, <2>6
<1> HIDE DEF Q
<1>3. \A x \in Seq(Characters) : x \in Q
  BY <1>1, <1>2, SeqInduction
<1> QED BY <1>3 DEF Q

(* A text begins with the parser as it is made.                            *)
LEMMA NewParserReads ==
  ASSUME NEW p \in ParserState, p.error = "none", p.cells = <<>>, p.cell = <<>>, p.out = <<>>,
         p.quoted = FALSE, p.quotePending = FALSE, p.afterQuote = FALSE, p.pendingCr = FALSE,
         p.rowActive = FALSE
  PROVE  Reads(p, <<>>, <<>>)
<1>1. /\ CompleteRecords(<<>>) = <<>> /\ Rest(<<>>) = <<>>
      /\ DoneFields(<<>>) = <<>> /\ OpenField(<<>>) = <<>>
  BY NoText
<1>2. Len(<<>>) = 0 /\ 0 <= MaxColumns /\ ByteCount(<<>>) <= MaxCellBytes
  BY BytesOfNothing, CharactersAre
<1>3. AllGood(<<>>) /\ AllGoodRecords(<<>>) /\ Values(<<>>) = <<>> /\ Table(<<>>) = <<>> /\ PlainText(<<>>)
  BY DEF AllGood, AllGoodRecords, Values, Table, PlainText
<1>4. <<>> \o p.out = <<>>
  OBVIOUS
<1>5. InPlain(p, <<>>)
  BY <1>3 DEF InPlain, WithReturn
<1> QED BY <1>1, <1>2, <1>3, <1>4, <1>5 DEF Reads, Sofar, Mode

(***************************************************************************)
(* A document within the limits is one whose records are good.             *)
(***************************************************************************)
(* Every record has at least one field.                                    *)
LEMMA FieldsOfAnyText ==
  ASSUME NEW S, NEW r \in Seq(S)
  PROVE  Fields(r) \in Seq(Seq(S)) /\ Fields(r) # <<>>
<1> DEFINE d == Done(r)
           f == Cur(r)
<1>1. d \in Seq(Seq(S)) /\ f \in Seq(S) /\ Fields(r) = Append(d, f)
  BY FieldsAre
<1> HIDE DEF d, f
<1> QED BY <1>1, AppendIsNot

(* A record has as many cells as fields.                                   *)
LEMMA CellsAre ==
  ASSUME NEW r \in Seq(Characters)
  PROVE  /\ Len(Cells(r)) = Len(Fields(r)) /\ DOMAIN Cells(r) = DOMAIN Fields(r)
         /\ \A k \in DOMAIN Fields(r) : Cells(r)[k] = Value(Fields(r)[k])
<1> DEFINE fs == Fields(r)
           n == Len(fs)
           cs == Cells(r)
<1>1. n \in Nat /\ DOMAIN fs = 1 .. n
  BY FieldsOfAnyText, LenProperties
<1>2. cs = [k \in DOMAIN fs |-> Value(fs[k])]
  BY DEF Cells
<1> HIDE DEF fs, cs, n
<1>3. DOMAIN cs = 1 .. n /\ \A k \in DOMAIN fs : cs[k] = Value(fs[k])
  BY <1>1, <1>2
<1>4. Len(cs) = n
  <2>1. cs = [k \in 1 .. n |-> Value(fs[k])] /\ \A k \in 1 .. n : Value(fs[k]) \in {Value(fs[j]) : j \in DOMAIN fs}
    BY <1>1, <1>2
  <2> QED BY <1>1, <2>1, FunctionIsSeq
<1> QED BY <1>1, <1>3, <1>4 DEF fs, cs, n

(* A good record is a well-formed one within the limits.                   *)
LEMMA GoodRecordIs ==
  ASSUME NEW r \in Seq(Characters)
  PROVE  GoodRecord(r) <=>
           /\ \A f \in ToSet(Fields(r)) : WellFormed(f)
           /\ Len(Cells(r)) <= MaxColumns
           /\ \A v \in ToSet(Cells(r)) : ByteCount(v) <= MaxCellBytes
<1> DEFINE fs == Fields(r)
           cs == Cells(r)
<1>1. /\ Len(cs) = Len(fs) /\ DOMAIN cs = DOMAIN fs
      /\ \A k \in DOMAIN fs : cs[k] = Value(fs[k])
  BY CellsAre
<1> HIDE DEF fs, cs
<1>2. (\A f \in ToSet(fs) : WellFormed(f)) <=> \A k \in DOMAIN fs : WellFormed(fs[k])
  BY DEF ToSet
<1>3. (\A v \in ToSet(cs) : ByteCount(v) <= MaxCellBytes)
        <=> \A k \in DOMAIN fs : ByteCount(Value(fs[k])) <= MaxCellBytes
  BY <1>1 DEF ToSet
<1>4. AllGood(fs) <=> /\ \A k \in DOMAIN fs : WellFormed(fs[k])
                      /\ \A k \in DOMAIN fs : ByteCount(Value(fs[k])) <= MaxCellBytes
  BY DEF AllGood, Good
<1> QED BY <1>1, <1>2, <1>3, <1>4 DEF GoodRecord, fs, cs

(* Good records are what the grammar and the limits ask of a document.     *)
LEMMA GoodIsTheGrammar ==
  ASSUME NEW t \in Seq(Characters)
  PROVE  /\ AllGoodRecords(Records(t)) <=> IsDocument(t) /\ FitsLimits(Table(Records(t)))
         /\ Records(t) \in Seq(Seq(Characters))
<1> DEFINE rs == Records(t)
           T == Table(rs)
<1>1. rs \in Seq(Seq(Characters))
  <2>1. CompleteRecords(t) \in Seq(Seq(Characters)) /\ Rest(t) \in Seq(Characters)
    BY TextHas
  <2> DEFINE a == CompleteRecords(t)
             b == Rest(t)
  <2>2. Records(t) = a \/ Records(t) = Append(a, b)
    BY RecordsAre
  <2>3. a \in Seq(Seq(Characters)) /\ b \in Seq(Characters)
    BY <2>1
  <2> HIDE DEF a, b
  <2>4. Append(a, b) \in Seq(Seq(Characters))
    BY <2>3, AppendProperties
  <2> QED BY <2>2, <2>3, <2>4
<1>2. DOMAIN T = DOMAIN rs /\ \A k \in DOMAIN rs : T[k] = Cells(rs[k])
  BY DEF Table
<1>3. \A k \in DOMAIN rs : rs[k] \in Seq(Characters)
  BY <1>1
<1>4. IsDocument(t) <=> \A k \in DOMAIN rs : \A f \in ToSet(Fields(rs[k])) : WellFormed(f)
  BY DEF IsDocument, ToSet
<1> HIDE DEF rs, T
<1>5. FitsLimits(T) <=> \A k \in DOMAIN rs :
                          /\ Len(Cells(rs[k])) <= MaxColumns
                          /\ \A v \in ToSet(Cells(rs[k])) : ByteCount(v) <= MaxCellBytes
  <2>1. ToSet(T) = {Cells(rs[k]) : k \in DOMAIN rs}
    BY <1>2 DEF ToSet
  <2> QED BY <2>1 DEF FitsLimits
<1>6. \A k \in DOMAIN rs : GoodRecord(rs[k]) <=>
           /\ \A f \in ToSet(Fields(rs[k])) : WellFormed(f)
           /\ Len(Cells(rs[k])) <= MaxColumns
           /\ \A v \in ToSet(Cells(rs[k])) : ByteCount(v) <= MaxCellBytes
  BY <1>3, GoodRecordIs
<1>7. AllGoodRecords(rs) <=> IsDocument(t) /\ FitsLimits(T)
  BY <1>4, <1>5, <1>6 DEF AllGoodRecords
<1> QED BY <1>1, <1>7 DEF rs, T

(***************************************************************************)
(* Inside quotes no field is whole.                                        *)
(***************************************************************************)
Half(v) ==
  \A j \in 1 .. Len(v) - 1 : v[j] = Quote /\ Outside(v, j) => v[j + 1] = Quote
HalfPair(v) == Len(v) > 0 /\ v[Len(v)] = Quote /\ Outside(v, Len(v))

(* Quotes that come in pairs so far are even in number, or the last is     *)
(* half a pair.                                                            *)
LEMMA HalfIsEven ==
  ASSUME NEW S
  PROVE  \A v \in Seq(S) : Half(v) => Even(v) \/ HalfPair(v)
<1> DEFINE Q == {v \in Seq(S) : Half(v) => Even(v) \/ HalfPair(v)}
<1>1. <<>> \in Q
  BY EvenOfNothing
<1>2. \A v \in Seq(S) : v \in Q => \A c \in S : Append(v, c) \in Q
  <2> SUFFICES ASSUME NEW v \in Seq(S), v \in Q, NEW c \in S
               PROVE  Append(v, c) \in Q
    OBVIOUS
  <2> DEFINE u == Append(v, c)
             n == Len(v)
  <2>1. /\ u \in Seq(S) /\ Len(u) = n + 1 /\ n \in Nat /\ u[n + 1] = c
        /\ \A k \in 1 .. n : u[k] = v[k]
    BY AppendProperties, LenProperties
  <2>2. \A i \in 1 .. n + 1 : Outside(u, i) <=> Outside(v, i)
    BY OutsideOfAppend
  <2>3. Even(u) <=> (Even(v) <=> c # Quote)
    BY EvenOfAppend
  <2>4. Even(v) <=> Outside(v, n + 1)
    BY DEF Even
  <2> HIDE DEF u
  <2> SUFFICES ASSUME Half(u) PROVE Even(u) \/ HalfPair(u)
    BY <2>1 DEF u
  <2>5. Half(v)
    <3> SUFFICES ASSUME NEW j \in 1 .. n - 1, v[j] = Quote, Outside(v, j) PROVE v[j + 1] = Quote
      BY DEF Half
    <3>1. j \in 1 .. n /\ j \in 1 .. n + 1 /\ j + 1 \in 1 .. n /\ j \in 1 .. Len(u) - 1
      BY <2>1
    <3>2. u[j] = Quote /\ Outside(u, j)
      BY <2>1, <2>2, <3>1
    <3>3. u[j + 1] = Quote
      BY <3>1, <3>2 DEF Half
    <3> QED BY <2>1, <3>1, <3>3
  <2>6. Even(v) \/ HalfPair(v)
    BY <2>5
  <2>7. n + 1 \in 1 .. n + 1 /\ n + 1 > 0
    BY <2>1
  <2>8. CASE Even(v)
    <3>1. Outside(u, n + 1)
      BY <2>2, <2>4, <2>7, <2>8
    <3>2. c = Quote => HalfPair(u)
      BY <2>1, <2>7, <3>1 DEF HalfPair
    <3> QED BY <2>3, <2>8, <3>2
  <2>9. CASE ~Even(v) /\ HalfPair(v)
    <3>1. n > 0 /\ v[n] = Quote /\ Outside(v, n)
      BY <2>9 DEF HalfPair
    <3>2. n \in 1 .. n /\ n \in 1 .. n + 1 /\ n \in 1 .. Len(u) - 1
      BY <2>1, <3>1
    <3>3. u[n] = Quote /\ Outside(u, n)
      BY <2>1, <2>2, <3>1, <3>2
    <3>4. u[n + 1] = Quote
      BY <3>2, <3>3 DEF Half
    <3> QED BY <2>1, <2>3, <2>9, <3>4
  <2> QED BY <2>6, <2>8, <2>9
<1> HIDE DEF Q
<1>3. \A v \in Seq(S) : v \in Q
  BY <1>1, <1>2, SeqInduction
<1> QED BY <1>3 DEF Q

(* Paired quotes are even in number.                                       *)
LEMMA PairedIsEven ==
  ASSUME NEW S, NEW v \in Seq(S), Paired(v)
  PROVE  Even(v)
<1>1. Len(v) \in Nat /\ DOMAIN v = 1 .. Len(v)
  BY LenProperties
<1>2. Half(v)
  BY <1>1 DEF Half, Paired
<1>3. ~HalfPair(v)
  BY <1>1 DEF HalfPair, Paired
<1> QED BY <1>2, <1>3, HalfIsEven

(* A sound inside that is not closed is no field.                          *)
LEMMA SoundIsOpen ==
  ASSUME NEW s, Sound(s)
  PROVE  ~WellFormed(QuoteThen(s))
<1>1. s \in Seq(Characters) /\ Even(s) /\ Quote \in Characters
  BY CharactersAre DEF Sound
<1> SUFFICES ASSUME WellFormed(QuoteThen(s)) PROVE FALSE
  OBVIOUS
<1>2. s # <<>> /\ Last(s) = Quote /\ Paired(Front(s))
  BY <1>1, QuotedField
<1> DEFINE v == Front(s)
<1>3. v \in Seq(Characters) /\ s = Append(v, Quote)
  BY <1>1, <1>2, SplitLast
<1> HIDE DEF v
<1>4. Even(v)
  BY <1>2, <1>3, PairedIsEven DEF v
<1> QED BY <1>1, <1>3, <1>4, EvenOfAppend

(* The end of the text, where an open field is not well-formed.            *)
LEMMA OpenAtTheEnd ==
  ASSUME NEW t \in Seq(Characters), ~Good(OpenField(t)), OpenField(t) # <<>>
  PROVE  ~AllGoodRecords(Records(t))
<1> DEFINE r == Rest(t)
           rs == CompleteRecords(t)
           f == OpenField(t)
<1>1. /\ rs \in Seq(Seq(Characters)) /\ r \in Seq(Characters) /\ f \in Seq(Characters)
      /\ Fields(r) = Append(DoneFields(t), f)
  BY TextHas
<1>2. r # <<>>
  BY RestHas
<1>3. Records(t) = Append(rs, r)
  BY <1>2, RecordsAre
<1> HIDE DEF r, rs, f
<1>4. ~GoodRecord(r)
  BY <1>1, NotGoodRecord DEF f
<1> QED BY <1>1, <1>3, <1>4, AllRecordsOfAppend

(* The end of the text, where the last row is ended.                       *)
LEMMA LastRow ==
  ASSUME NEW before \in Raws, NEW t \in Seq(Characters), NEW p, Reads(p, t, before),
         NEW r \in ParserState, r.error = "none", r.cells = p.cells, r.cell = p.cell, r.out = p.out,
         Rest(t) # <<>>, Good(OpenField(t)), Value(OpenField(t)) = p.cell
  PROVE  LET q == FinishRow(r) IN
         /\ q \in ParserState
         /\ q.error = "none" => AllGoodRecords(Records(t)) /\ before \o q.out = Table(Records(t))
         /\ q.error # "none" => ~AllGoodRecords(Records(t))
<1> DEFINE x == Rest(t)
           rs == CompleteRecords(t)
           f == OpenField(t)
           cs == Append(p.cells, p.cell)
           q == FinishRow(r)
<1>1. /\ rs \in Seq(Seq(Characters)) /\ x \in Seq(Characters) /\ f \in Seq(Characters)
      /\ Fields(x) = Append(DoneFields(t), f)
  BY TextHas
<1>2. Records(t) = Append(rs, x)
  BY RecordsAre
<1>3. Sofar(t) /\ p.cells = Values(DoneFields(t)) /\ before \o p.out = Table(rs)
  BY DEF Reads
<1>4. Cells(x) = cs /\ (Len(cs) <= MaxColumns <=> GoodRecord(x))
  <2> DEFINE v == Values(DoneFields(t))
  <2>1. Good(f) /\ Value(f) = p.cell
    OBVIOUS
  <2> HIDE DEF x, f
  <2>2. /\ Cells(x) = Append(v, Value(f))
        /\ Len(Append(v, Value(f))) <= MaxColumns <=> GoodRecord(x)
    BY <1>1, <1>3, <2>1, RowEnded
  <2>3. Append(v, Value(f)) = cs
    BY <1>3, <2>1
  <2> HIDE DEF v, cs
  <2> QED BY <2>2, <2>3
<1>5. /\ Same(r, q)
      /\ q.error = "none" => /\ Len(cs) <= MaxColumns
                             /\ Row(q) = <<<<>>, <<>>, FALSE, Append(p.out, cs)>>
      /\ q.error # "none" => Len(cs) > MaxColumns
  BY FinishRowIs
<1>6. cs \in Seq(Seq(Characters)) /\ p.out \in Raws /\ Len(cs) \in Nat
  <2>1. p.cells \in Seq(Seq(Characters)) /\ p.cell \in Seq(Characters) /\ p.out \in Raws
    BY DEF Reads, ParserState, Raws
  <2> QED BY <2>1, AppendProperties, LenProperties
<1>7. before \o Append(p.out, cs) = Append(before \o p.out, cs)
  <2> HIDE DEF cs
  <2> QED BY <1>6, OutGrows
<1>8. Table(Append(rs, x)) = Append(Table(rs), Cells(x))
  <2> HIDE DEF rs, x
  <2> QED BY <1>1, TableOfAppend
<1> HIDE DEF x, rs, f, cs, q
<1>9. AllGoodRecords(Append(rs, x)) <=> GoodRecord(x)
  BY <1>1, <1>3, AllRecordsOfAppend DEF Sofar, rs
<1>10. q.error = "none" => AllGoodRecords(Append(rs, x)) /\ before \o q.out = Table(Append(rs, x))
  BY <1>3, <1>4, <1>5, <1>7, <1>8, <1>9 DEF Row
<1>11. q.error # "none" => ~AllGoodRecords(Append(rs, x))
  BY <1>4, <1>5, <1>6, <1>9, CharactersAre
<1>12. q \in ParserState
  BY <1>5 DEF Same
<1> QED BY <1>2, <1>10, <1>11, <1>12 DEF q

(* The end of the text: the parser fails unless the grammar has the text   *)
(* and it has records.                                                     *)
LEMMA TextEnds ==
  ASSUME NEW before \in Raws, NEW t \in Seq(Characters), NEW p, Reads(p, t, before),
         t # <<>> => p.sawText
  PROVE  LET q == EndOfText(LastQuote(p)) IN
         /\ q \in ParserState
         /\ q.error = "none" => AllGoodRecords(Records(t)) /\ before \o q.out = Table(Records(t))
         /\ q.error # "none" => ~AllGoodRecords(Records(t)) \/ Records(t) = <<>>
<1> DEFINE f == OpenField(t)
           q == EndOfText(LastQuote(p))
           r == [p EXCEPT !.quotePending = FALSE, !.quoted = FALSE, !.afterQuote = TRUE]
<1>1. /\ p \in ParserState /\ p.error = "none" /\ ByteCount(p.cell) <= MaxCellBytes
      /\ p.cell \in Seq(Characters) /\ Mode(p, f)
  BY DEF Reads, ParserState
<1>2. f \in Seq(Characters) /\ CR \in Characters /\ Quote \in Characters
  BY TextHas, CharactersAre
<1>3. p.cells = Values(DoneFields(t)) /\ (p.rowActive => Rest(t) # <<>>) /\ Sofar(t)
      /\ before \o p.out = Table(CompleteRecords(t))
  BY DEF Reads
<1>4. CASE AtQuote(p, f)
  <2>1. PICK s : Sound(s) /\ p.cell = Unpaired(s) /\ f = Append(QuoteThen(s), Quote)
    BY <1>4 DEF AtQuote
  <2>2. p.quotePending /\ ~p.pendingCr
    BY <1>4 DEF AtQuote
  <2>3. LastQuote(p) = r
    BY <2>2 DEF LastQuote
  <2>4. /\ r \in ParserState /\ r.error = "none" /\ r.cells = p.cells /\ r.cell = p.cell
        /\ r.out = p.out /\ ~r.quoted /\ ~r.pendingCr /\ r.afterQuote
    BY <1>1, <2>2 DEF ParserState
  <2> HIDE DEF r
  <2>5. q = FinishRow(r)
    BY <2>3, <2>4 DEF EndOfText
  <2>6. Good(f) /\ Value(f) = p.cell
    BY <1>1, <2>1, ClosedIsWellFormed DEF Good
  <2>7. f # <<>>
    <3> DEFINE g == QuoteThen(s)
    <3>1. g \in Seq(Characters) /\ f = Append(g, Quote)
      BY <2>1, QuotedIs
    <3> HIDE DEF g, f
    <3> QED BY <1>2, <3>1, AppendIsNot
  <2>8. Rest(t) # <<>>
    BY <2>7, RestHas
  <2> HIDE DEF q
  <2> QED BY <2>4, <2>5, <2>6, <2>8, LastRow DEF q
<1>5. CASE p.pendingCr \/ InQuoted(p, f)
  <2>1. ~p.quotePending
    BY <1>1, <1>5 DEF Mode, InPlain, InQuoted, AtQuote, AfterQuote
  <2>2. LastQuote(p) = p
    BY <2>1 DEF LastQuote
  <2>3. q = Malformed(p)
    BY <1>1, <1>5, <2>2 DEF EndOfText, InQuoted
  <2>4. q \in ParserState /\ q.error # "none"
    BY <1>1, <2>3, MalformedIs DEF Same
  <2> HIDE DEF q
  <2>5. ~Good(f) /\ f # <<>>
    <3>1. CASE InPlain(p, f)
      <4>1. f = Append(p.cell, CR) /\ PlainText(p.cell)
        BY <1>5, <3>1 DEF InPlain, InQuoted, WithReturn
      <4>2. f # <<>> /\ ~PlainText(f) /\ f[1] # Quote
        BY <1>1, <1>2, <4>1, PlainMore, Apart
      <4>3. Hopeless(f)
        BY <1>2, <4>2, PlainHopeless
      <4> QED BY <1>2, <4>2, <4>3, HopelessMore
    <3>2. CASE InQuoted(p, f)
      <4>1. PICK s : Sound(s) /\ f = WithReturn(QuoteThen(s), p.pendingCr)
        BY <3>2 DEF InQuoted
      <4>2. /\ s \in Seq(Characters) /\ QuoteThen(Append(s, CR)) = Append(QuoteThen(s), CR)
            /\ Append(s, CR) \in Seq(Characters)
        BY <1>2, <4>1, QuotedIs
      <4>3. ~WellFormed(QuoteThen(s))
        BY <4>1, SoundIsOpen
      <4>4. ~WellFormed(QuoteThen(Append(s, CR)))
        <5> DEFINE u == Append(s, CR)
        <5>1. u # <<>> /\ Last(u) = CR
          BY <1>2, <4>2, AppendIsNot
        <5>2. u \in Seq(Characters)
          BY <4>2
        <5> HIDE DEF u
        <5> QED BY <5>1, <5>2, NotClosed, Apart DEF u
      <4>5. ~WellFormed(f)
        BY <4>1, <4>2, <4>3, <4>4 DEF WithReturn
      <4>6. f # <<>>
        <5>1. WellFormed(<<>>)
          <6>1. PlainText(<<>>) /\ <<>> \in Seq(Characters)
            BY DEF PlainText
          <6> QED BY <6>1, PlainIsWellFormed
        <5> HIDE DEF f
        <5> QED BY <4>5, <5>1
      <4> QED BY <4>5, <4>6 DEF Good
    <3>3. CASE AfterQuote(p, f)
      <4>1. PICK s : Sound(s) /\ f = Append(Append(QuoteThen(s), Quote), CR)
        BY <3>3 DEF AfterQuote
      <4>2. Hopeless(f)
        BY <1>2, <4>1, AfterQuoteHopeless, Apart
      <4>3. f # <<>>
        <5> DEFINE g == Append(QuoteThen(s), Quote)
        <5>1. g \in Seq(Characters) /\ f = Append(g, CR)
          BY <1>2, <4>1, QuotedIs
        <5> HIDE DEF g, f
        <5> QED BY <1>2, <5>1, AppendIsNot
      <4> QED BY <1>2, <4>2, <4>3, HopelessMore
    <3> QED BY <1>1, <1>5, <3>1, <3>2, <3>3 DEF Mode, AtQuote
  <2>6. ~AllGoodRecords(Records(t))
    BY <2>5, OpenAtTheEnd
  <2> QED BY <2>4, <2>6 DEF q
<1>6. CASE InPlain(p, f) /\ ~p.pendingCr
  <2>1. f = p.cell /\ ~p.quoted /\ ~p.quotePending /\ ~p.afterQuote /\ PlainText(f)
    BY <1>6 DEF InPlain, WithReturn
  <2>2. LastQuote(p) = p
    BY <2>1 DEF LastQuote
  <2>3. Rest(t) # <<>> <=> p.cell # <<>> \/ p.cells # <<>>
    <3> DEFINE d == DoneFields(t)
    <3>1. d \in Seq(Seq(Characters))
      BY TextHas
    <3>2. d = <<>> <=> Values(d) = <<>>
      <4> HIDE DEF d
      <4>1. Len(Values(d)) = Len(d) /\ (d = <<>> <=> Len(d) = 0)
        BY <1>2, <3>1, ValuesOfAppend, EmptySeq, LenProperties
      <4>2. Values(<<>>) = <<>>
        BY DEF Values
      <4>3. Len(<<>>) = 0
        OBVIOUS
      <4> QED BY <4>1, <4>2, <4>3
    <3>3. Rest(t) # <<>> <=> d # <<>> \/ f # <<>>
      BY RestHas
    <3> HIDE DEF d, f
    <3> QED BY <1>3, <2>1, <3>2, <3>3 DEF d
  <2>4. CASE Rest(t) # <<>>
    <3>1. q = FinishRow(p)
      BY <1>1, <1>6, <2>1, <2>2, <2>3, <2>4 DEF EndOfText
    <3>2. Good(f) /\ Value(f) = p.cell
      BY <1>1, <1>2, <2>1, PlainIsWellFormed DEF Good
    <3> HIDE DEF q
    <3> QED BY <1>1, <2>4, <3>1, <3>2, LastRow DEF q
  <2>5. CASE Rest(t) = <<>>
    <3>1. p.cell = <<>> /\ p.cells = <<>> /\ ~p.rowActive
      BY <1>3, <2>3, <2>5
    <3>2. q = IF p.sawText THEN p ELSE Fail(p, "invalid_csv_header")
      BY <1>1, <1>6, <2>1, <2>2, <3>1 DEF EndOfText
    <3>3. Records(t) = CompleteRecords(t)
      BY <2>5, RecordsAre
    <3> HIDE DEF q
    <3>4. CASE p.sawText
      <4>1. q = p
        BY <3>2, <3>4
      <4> QED BY <1>1, <1>3, <3>3, <4>1 DEF Sofar, q
    <3>5. CASE ~p.sawText
      <4>1. t = <<>>
        BY <3>5
      <4>2. Records(t) = <<>>
        BY <3>3, <4>1, NoText
      <4>3. q = Fail(p, "invalid_csv_header")
        BY <3>2, <3>5
      <4>4. Same(p, Fail(p, "invalid_csv_header")) /\ Fail(p, "invalid_csv_header").error # "none"
        BY <1>1, FailIs DEF ParserErrors
      <4> QED BY <4>2, <4>3, <4>4 DEF Same, q
    <3> QED BY <3>4, <3>5
  <2> QED BY <2>4, <2>5
<1> QED BY <1>1, <1>4, <1>5, <1>6 DEF Mode, AfterQuote

(***************************************************************************)
(* The decoder: bytes that come in parts are decoded as if they came at    *)
(* once.                                                                   *)
(***************************************************************************)
Decoded == [pending : Seq(Byte), chars : Seq(Characters), bad : BOOLEAN]

(* d has read the characters h before those of e, and stands where e does. *)
Joined(h, d, e) ==
  /\ d.bad <=> e.bad
  /\ ~e.bad => d.pending = e.pending /\ d.chars = h \o e.chars

(* One byte: the decoder stays a decoder, and fails for good.              *)
LEMMA DecodeByteIs ==
  ASSUME NEW d \in Decoded, NEW b \in Byte
  PROVE  /\ DecodeByte(d, b) \in Decoded
         /\ d.bad => DecodeByte(d, b) = d
<1> DEFINE bytes == Append(d.pending, b)
           whole == {c \in Characters : Encoding[c] = bytes}
           ch == CHOOSE c \in whole : TRUE
           begun == \E c \in Characters : IsStrictPrefix(bytes, Encoding[c])
<1>1. d.pending \in Seq(Byte) /\ d.chars \in Seq(Characters) /\ d.bad \in BOOLEAN
  BY DEF Decoded
<1>2. bytes \in Seq(Byte)
  BY <1>1, AppendProperties
<1>3. whole # {} => ch \in Characters
  OBVIOUS
<1>4. DecodeByte(d, b) =
        CASE d.bad -> d
          [] ~ d.bad /\ whole # {} -> [d EXCEPT !.pending = <<>>, !.chars = Append(d.chars, ch)]
          [] ~ d.bad /\ whole = {} /\ begun -> [d EXCEPT !.pending = bytes]
          [] OTHER -> [d EXCEPT !.bad = TRUE]
  BY DEF DecodeByte
<1> HIDE DEF bytes, whole, ch, begun
<1>5. CASE d.bad
  <2>1. DecodeByte(d, b) = d
    BY <1>4, <1>5
  <2> QED BY <2>1
<1>6. CASE ~d.bad
  <2>1. whole # {} => Append(d.chars, ch) \in Seq(Characters)
    BY <1>1, <1>3, AppendProperties
  <2> DEFINE more == Append(d.chars, ch)
  <2> HIDE DEF more
  <2>2. whole # {} => more \in Seq(Characters)
    BY <2>1 DEF more
  <2>3. \/ whole # {} /\ DecodeByte(d, b) = [d EXCEPT !.pending = <<>>, !.chars = more]
        \/ DecodeByte(d, b) = [d EXCEPT !.pending = bytes]
        \/ DecodeByte(d, b) = [d EXCEPT !.bad = TRUE]
    BY <1>4, <1>6 DEF more
  <2>4. <<>> \in Seq(Byte)
    OBVIOUS
  <2>5. CASE whole # {} /\ DecodeByte(d, b) = [d EXCEPT !.pending = <<>>, !.chars = more]
    BY <1>6, <2>2, <2>4, <2>5 DEF Decoded
  <2>6. CASE DecodeByte(d, b) = [d EXCEPT !.pending = bytes]
    BY <1>2, <1>6, <2>6 DEF Decoded
  <2>7. CASE DecodeByte(d, b) = [d EXCEPT !.bad = TRUE]
    BY <1>6, <2>7 DEF Decoded
  <2> QED BY <2>3, <2>5, <2>6, <2>7
<1> QED BY <1>5, <1>6

(* Two decoders that stand at the same place stay together.                *)
LEMMA JoinedStep ==
  ASSUME NEW h \in Seq(Characters), NEW d \in Decoded, NEW e \in Decoded, Joined(h, d, e),
         NEW b \in Byte
  PROVE  Joined(h, DecodeByte(d, b), DecodeByte(e, b))
<1>1. CASE e.bad
  <2>1. d.bad
    BY <1>1 DEF Joined
  <2>2. DecodeByte(d, b) = d /\ DecodeByte(e, b) = e
    BY <1>1, <2>1, DecodeByteIs
  <2> QED BY <2>2
<1>2. CASE ~e.bad
  <2>1. ~d.bad /\ d.pending = e.pending /\ d.chars = h \o e.chars /\ e.chars \in Seq(Characters)
    BY <1>2 DEF Joined, Decoded
  <2> DEFINE bytes == Append(e.pending, b)
             whole == {c \in Characters : Encoding[c] = bytes}
             ch == CHOOSE c \in whole : TRUE
             begun == \E c \in Characters : IsStrictPrefix(bytes, Encoding[c])
             more == Append(e.chars, ch)
             longer == Append(d.chars, ch)
  <2>2. DecodeByte(e, b) =
          CASE e.bad -> e
            [] ~ e.bad /\ whole # {} -> [e EXCEPT !.pending = <<>>, !.chars = more]
            [] ~ e.bad /\ whole = {} /\ begun -> [e EXCEPT !.pending = bytes]
            [] OTHER -> [e EXCEPT !.bad = TRUE]
    BY DEF DecodeByte
  <2>3. DecodeByte(d, b) =
          CASE d.bad -> d
            [] ~ d.bad /\ whole # {} -> [d EXCEPT !.pending = <<>>, !.chars = longer]
            [] ~ d.bad /\ whole = {} /\ begun -> [d EXCEPT !.pending = bytes]
            [] OTHER -> [d EXCEPT !.bad = TRUE]
    BY <2>1 DEF DecodeByte
  <2>4. whole # {} => ch \in Characters
    OBVIOUS
  <2> HIDE DEF whole, ch, begun
  <2>5. whole # {} => longer = h \o more
    <3> SUFFICES ASSUME whole # {} PROVE longer = h \o more
      OBVIOUS
    <3> DEFINE r == e.chars
    <3>1. r \in Seq(Characters) /\ ch \in Characters /\ d.chars = h \o r
      BY <2>1, <2>4
    <3> HIDE DEF r
    <3>2. h \o Append(r, ch) = Append(h \o r, ch)
      BY <3>1, ConcatAppend
    <3> QED BY <3>1, <3>2 DEF r
  <2> HIDE DEF bytes, more, longer
  <2>6. CASE whole # {}
    <3>1. DecodeByte(e, b) = [e EXCEPT !.pending = <<>>, !.chars = more]
      BY <1>2, <2>2, <2>6
    <3>2. DecodeByte(d, b) = [d EXCEPT !.pending = <<>>, !.chars = longer]
      BY <2>1, <2>3, <2>6
    <3>3. /\ DecodeByte(e, b).bad = e.bad /\ DecodeByte(e, b).pending = <<>> /\ DecodeByte(e, b).chars = more
          /\ DecodeByte(d, b).bad = d.bad /\ DecodeByte(d, b).pending = <<>> /\ DecodeByte(d, b).chars = longer
      BY <3>1, <3>2 DEF Decoded
    <3> QED BY <1>2, <2>1, <2>5, <2>6, <3>3 DEF Joined
  <2>7. CASE whole = {} /\ begun
    <3>1. DecodeByte(e, b) = [e EXCEPT !.pending = bytes]
      BY <1>2, <2>2, <2>7
    <3>2. DecodeByte(d, b) = [d EXCEPT !.pending = bytes]
      BY <2>1, <2>3, <2>7
    <3>3. /\ DecodeByte(e, b).bad = e.bad /\ DecodeByte(e, b).pending = bytes /\ DecodeByte(e, b).chars = e.chars
          /\ DecodeByte(d, b).bad = d.bad /\ DecodeByte(d, b).pending = bytes /\ DecodeByte(d, b).chars = d.chars
      BY <3>1, <3>2 DEF Decoded
    <3> QED BY <1>2, <2>1, <3>3 DEF Joined
  <2>8. CASE whole = {} /\ ~begun
    <3>1. DecodeByte(e, b) = [e EXCEPT !.bad = TRUE]
      BY <1>2, <2>2, <2>8
    <3>2. DecodeByte(d, b) = [d EXCEPT !.bad = TRUE]
      BY <2>1, <2>3, <2>8
    <3>3. DecodeByte(e, b).bad = TRUE /\ DecodeByte(d, b).bad = TRUE
      BY <3>1, <3>2 DEF Decoded
    <3> QED BY <3>3 DEF Joined
  <2> QED BY <2>6, <2>7, <2>8
<1> QED BY <1>1, <1>2

Begin(pending) == [pending |-> pending, chars |-> <<>>, bad |-> FALSE]

(* The decoder, a byte at a time.                                          *)
LEMMA DecodeBytesAre ==
  ASSUME NEW pending \in Seq(Byte)
  PROVE  /\ Begin(pending) \in Decoded /\ DecodeBytes(pending, <<>>) = Begin(pending)
         /\ \A x \in Seq(Byte) : \A b \in Byte :
              DecodeBytes(pending, Append(x, b)) = DecodeByte(DecodeBytes(pending, x), b)
         /\ \A x \in Seq(Byte) : DecodeBytes(pending, x) \in Decoded
<1> DEFINE D(x) == DecodeBytes(pending, x)
           Q == {x \in Seq(Byte) : D(x) \in Decoded}
<1>1. Begin(pending) \in Decoded
  BY DEF Begin, Decoded
<1>2. D(<<>>) = Begin(pending)
  BY DecodedOfNothing DEF DecodeBytes, Begin
<1>3. ASSUME NEW x \in Seq(Byte), NEW b \in Byte
      PROVE  D(Append(x, b)) = DecodeByte(D(x), b)
  BY DecodedOfAppend DEF DecodeBytes
<1> HIDE DEF D
<1>4. <<>> \in Q
  BY <1>1, <1>2
<1>5. \A x \in Seq(Byte) : x \in Q => \A b \in Byte : Append(x, b) \in Q
  <2> SUFFICES ASSUME NEW x \in Seq(Byte), x \in Q, NEW b \in Byte
               PROVE  Append(x, b) \in Q
    OBVIOUS
  <2>1. DecodeByte(D(x), b) \in Decoded
    BY DecodeByteIs
  <2>2. Append(x, b) \in Seq(Byte)
    BY AppendProperties
  <2> QED BY <1>3, <2>1, <2>2
<1> HIDE DEF Q
<1>6. \A x \in Seq(Byte) : x \in Q
  BY <1>4, <1>5, SeqInduction
<1> QED BY <1>1, <1>2, <1>3, <1>6 DEF Q, D

(* Bytes that come in two parts are decoded as if they came at once.       *)
LEMMA DecodeMore ==
  ASSUME NEW x \in Seq(Byte)
  PROVE  \A y \in Seq(Byte) :
           LET d == DecodeBytes(<<>>, x) IN
           /\ d.bad => DecodeBytes(<<>>, x \o y).bad
           /\ ~d.bad => Joined(d.chars, DecodeBytes(<<>>, x \o y), DecodeBytes(d.pending, y))
<1> DEFINE D(z) == DecodeBytes(<<>>, z)
           d == D(x)
           E(y) == DecodeBytes(d.pending, y)
           Q == {y \in Seq(Byte) : /\ d.bad => D(x \o y).bad
                                   /\ ~d.bad => Joined(d.chars, D(x \o y), E(y))}
<1>1. /\ \A z \in Seq(Byte) : \A b \in Byte : D(Append(z, b)) = DecodeByte(D(z), b)
      /\ \A z \in Seq(Byte) : D(z) \in Decoded
  <2>1. <<>> \in Seq(Byte)
    OBVIOUS
  <2> QED BY <2>1, DecodeBytesAre
<1>2. d.pending \in Seq(Byte) /\ d.chars \in Seq(Characters) /\ d.bad \in BOOLEAN
  BY <1>1 DEF Decoded
<1>3. /\ E(<<>>) = Begin(d.pending)
      /\ \A z \in Seq(Byte) : \A b \in Byte : E(Append(z, b)) = DecodeByte(E(z), b)
      /\ \A z \in Seq(Byte) : E(z) \in Decoded
  BY <1>2, DecodeBytesAre
<1> HIDE DEF D, E, d
<1>4. <<>> \in Q
  <2>1. x \o <<>> = x /\ <<>> \in Seq(Byte)
    BY ConcatIsText
  <2>2. d.chars \o <<>> = d.chars
    BY <1>2, ConcatIsText
  <2>3. ~d.bad => Joined(d.chars, d, E(<<>>))
    <3>1. E(<<>>).pending = d.pending /\ E(<<>>).chars = <<>> /\ E(<<>>).bad = FALSE
      BY <1>3 DEF Begin
    <3> QED BY <2>2, <3>1 DEF Joined
  <2> QED BY <2>1, <2>3 DEF d
<1>5. \A y \in Seq(Byte) : y \in Q => \A b \in Byte : Append(y, b) \in Q
  <2> SUFFICES ASSUME NEW y \in Seq(Byte), y \in Q, NEW b \in Byte
               PROVE  Append(y, b) \in Q
    OBVIOUS
  <2> DEFINE z == x \o y
  <2>1. z \in Seq(Byte)
    BY ConcatIsText
  <2>2. x \o Append(y, b) = Append(z, b)
    BY ConcatAppend
  <2>3. Append(y, b) \in Seq(Byte)
    BY AppendProperties
  <2>4. (d.bad => D(z).bad) /\ (~d.bad => Joined(d.chars, D(z), E(y)))
    OBVIOUS
  <2> HIDE DEF z
  <2>5. D(Append(z, b)) = DecodeByte(D(z), b) /\ E(Append(y, b)) = DecodeByte(E(y), b)
    BY <1>1, <1>3, <2>1
  <2>6. D(z) \in Decoded /\ E(y) \in Decoded
    BY <1>1, <1>3, <2>1
  <2>7. d.bad => D(Append(z, b)).bad
    BY <2>4, <2>5, <2>6, DecodeByteIs
  <2>8. ~d.bad => Joined(d.chars, D(Append(z, b)), E(Append(y, b)))
    BY <1>2, <2>4, <2>5, <2>6, JoinedStep
  <2> QED BY <2>2, <2>3, <2>7, <2>8
<1> HIDE DEF Q
<1>6. \A y \in Seq(Byte) : y \in Q
  BY <1>4, <1>5, SeqInduction
<1> QED BY <1>6 DEF Q, d, D, E

(***************************************************************************)
(* The byte order mark.                                                    *)
(***************************************************************************)
PrefixMeans(s, t) ==
  /\ IsPrefix(s, t) <=> Len(s) <= Len(t) /\ \A i \in 1 .. Len(s) : s[i] = t[i]
  /\ IsStrictPrefix(s, t) <=> IsPrefix(s, t) /\ Len(s) < Len(t)
  /\ Len(s) \in Nat /\ Len(t) \in Nat

(* What it means to be a prefix, place by place.                           *)
LEMMA PrefixIs ==
  ASSUME NEW S, NEW s \in Seq(S), NEW t \in Seq(S)
  PROVE  PrefixMeans(s, t)
<1> DEFINE n == Len(s)
<1>1. n \in Nat /\ Len(t) \in Nat /\ SubSeq(s, 1, n) = s
  BY PrefixStep
<1>2. ASSUME n <= Len(t)
      PROVE  /\ SubSeq(t, 1, n) \in Seq(S) /\ Len(SubSeq(t, 1, n)) = n
             /\ \A i \in 1 .. n : SubSeq(t, 1, n)[i] = t[i]
  <2> DEFINE z == SubSeq(t, 1, n)
  <2>0. 1 \in Nat /\ 1 >= 1 /\ n \in Int /\ n <= Len(t)
    BY <1>1, <1>2
  <2>1. /\ z \in Seq(S) /\ Len(z) = IF 1 <= n THEN n - 1 + 1 ELSE 0
        /\ \A i \in 1 .. n - 1 + 1 : z[i] = t[1 + i - 1]
    BY <2>0, SubSeqIs
  <2> HIDE DEF z
  <2>2. n - 1 + 1 = n /\ (n = 0 \/ 1 <= n)
    BY <1>1
  <2>3. Len(z) = n
    BY <1>1, <2>1, <2>2
  <2>4. ASSUME NEW i \in 1 .. n PROVE z[i] = t[i]
    <3>1. 1 + i - 1 = i
      BY <1>1
    <3> QED BY <2>1, <2>2, <3>1
  <2> QED BY <2>1, <2>3, <2>4 DEF z
<1> DEFINE z == SubSeq(t, 1, n)
<1> HIDE DEF z
<1>3. IsPrefix(s, t) <=> n <= Len(t) /\ s = z
  BY <1>1 DEF IsPrefix, z
<1>4. IsPrefix(s, t) <=> n <= Len(t) /\ \A i \in 1 .. n : s[i] = t[i]
  <2>1. CASE n <= Len(t)
    <3>1. z \in Seq(S) /\ Len(z) = n /\ \A i \in 1 .. n : z[i] = t[i]
      BY <1>2, <2>1 DEF z
    <3>2. (\A i \in 1 .. n : s[i] = z[i]) => s = z
      BY <3>1, SeqEqual
    <3> HIDE DEF n
    <3> QED BY <1>3, <2>1, <3>1, <3>2
  <2> QED BY <1>3, <2>1
<1>5. IsPrefix(s, t) /\ n = Len(t) => s = t
  BY <1>4, SeqEqual
<1>6. s = t => n = Len(t)
  OBVIOUS
<1>7. IsStrictPrefix(s, t) <=> IsPrefix(s, t) /\ s # t
  BY DEF IsStrictPrefix
<1>8. IsPrefix(s, t) => n <= Len(t)
  BY <1>4
<1> HIDE DEF n
<1>9. IsStrictPrefix(s, t) <=> IsPrefix(s, t) /\ n < Len(t)
  <2>1. n < Len(t) <=> n <= Len(t) /\ n # Len(t)
    BY <1>1
  <2> QED BY <1>5, <1>6, <1>7, <1>8, <2>1
<1> QED BY <1>1, <1>4, <1>9 DEF n, PrefixMeans

(* The byte order mark has three bytes.                                    *)
LEMMA BomIs == Bom \in Seq(Byte) /\ Len(Bom) = 3 /\ <<>> \in Seq(Byte)
<1>1. ToSet(Bom) \subseteq Byte
  BY CodecAssumption
<1>2. DOMAIN Bom = 1 .. 3 /\ Len(Bom) = 3 /\ Bom \in Seq({Bom[1], Bom[2], Bom[3]})
  BY DEF Bom
<1>3. {Bom[1], Bom[2], Bom[3]} \subseteq Byte
  BY <1>1, <1>2 DEF ToSet
<1>4. \A i \in 1 .. 3 : Bom[i] \in Byte
  BY <1>1, <1>2 DEF ToSet
<1>5. Bom = [i \in 1 .. 3 |-> Bom[i]]
  BY DEF Bom
<1>6. Bom \in Seq(Byte)
  BY <1>4, <1>5, FunctionIsSeq
<1> QED BY <1>2, <1>6

(* What follows the first three bytes.                                     *)
LEMMA TailOfConcat ==
  ASSUME NEW S, NEW x \in Seq(S), NEW y \in Seq(S), Len(x) >= 3
  PROVE  SubSeq(x \o y, 4, Len(x \o y)) = SubSeq(x, 4, Len(x)) \o y
<1> DEFINE z == x \o y
           n == Len(x)
           m == Len(y)
           a == SubSeq(z, 4, n + m)
           h == SubSeq(x, 4, n)
           b == h \o y
<1>1. /\ z \in Seq(S) /\ Len(z) = n + m /\ n \in Nat /\ m \in Nat
      /\ \A i \in 1 .. n + m : z[i] = IF i <= n THEN x[i] ELSE y[i - n]
  BY ConcatProperties, LenProperties
<1> HIDE DEF z
<1>2. /\ a \in Seq(S) /\ Len(a) = (IF 4 <= n + m THEN n + m - 4 + 1 ELSE 0)
      /\ \A i \in 1 .. n + m - 4 + 1 : a[i] = z[4 + i - 1]
  BY <1>1, SubSeqIs
<1>3. /\ h \in Seq(S) /\ Len(h) = (IF 4 <= n THEN n - 4 + 1 ELSE 0)
      /\ \A i \in 1 .. n - 4 + 1 : h[i] = x[4 + i - 1]
  BY <1>1, SubSeqIs
<1> HIDE DEF a, h
<1>4. /\ b \in Seq(S) /\ Len(b) = Len(h) + m
      /\ \A i \in 1 .. Len(h) + m : b[i] = IF i <= Len(h) THEN h[i] ELSE y[i - Len(h)]
  BY <1>3, ConcatProperties
<1> HIDE DEF b, n, m
<1>5. Len(h) = n - 3 /\ Len(a) = n + m - 3
  <2>1. n \in Nat /\ m \in Nat /\ n >= 3
    BY <1>1 DEF n
  <2>2. Len(h) = (IF 4 <= n THEN n - 4 + 1 ELSE 0) /\ Len(a) = (IF 4 <= n + m THEN n + m - 4 + 1 ELSE 0)
    BY <1>2, <1>3
  <2>3. CASE 4 <= n
    BY <2>1, <2>2, <2>3
  <2>4. CASE ~(4 <= n)
    <3>1. n = 3
      BY <2>1, <2>4
    <3>2. Len(h) = 0
      BY <2>2, <2>4
    <3>3. Len(a) = m
      BY <2>1, <2>2, <3>1
    <3> QED BY <2>1, <3>1, <3>2, <3>3
  <2> QED BY <2>3, <2>4
<1>6. Len(a) = Len(b)
  BY <1>1, <1>4, <1>5
<1>7. ASSUME NEW i \in 1 .. Len(a) PROVE a[i] = b[i]
  <2>1. /\ i \in Nat /\ i >= 1 /\ i <= n + m - 3
        /\ i \in 1 .. n + m - 4 + 1 /\ 4 + i - 1 = i + 3 /\ i + 3 \in 1 .. n + m
        /\ i \in 1 .. Len(h) + m
    BY <1>1, <1>5
  <2>2. a[i] = z[i + 3]
    BY <1>2, <2>1
  <2>3. z[i + 3] = IF i + 3 <= n THEN x[i + 3] ELSE y[i + 3 - n]
    BY <1>1, <2>1
  <2>4. b[i] = IF i <= Len(h) THEN h[i] ELSE y[i - Len(h)]
    BY <1>4, <2>1
  <2>5. CASE i <= n - 3
    <3>1. i + 3 <= n /\ i \in 1 .. n - 4 + 1 /\ i <= Len(h)
      BY <1>1, <1>5, <2>1, <2>5
    <3>2. h[i] = x[i + 3]
      BY <1>3, <2>1, <3>1
    <3> QED BY <2>2, <2>3, <2>4, <3>1, <3>2
  <2>6. CASE ~(i <= n - 3)
    <3>1. ~(i + 3 <= n) /\ i + 3 - n = i - Len(h) /\ ~(i <= Len(h))
      BY <1>1, <1>5, <2>1, <2>6
    <3> QED BY <2>2, <2>3, <2>4, <3>1
  <2> QED BY <2>5, <2>6
<1>8. a = b
  BY <1>2, <1>4, <1>6, <1>7, SeqEqual
<1> QED BY <1>1, <1>8 DEF a, b, h, z, n, m

(* A mark that is not the beginning of the bytes, or begins them, does so  *)
(* whatever comes after.                                                   *)
LEMMA BomMore ==
  ASSUME NEW x \in Seq(Byte), NEW y \in Seq(Byte), ~IsStrictPrefix(x, Bom)
  PROVE  /\ ~IsStrictPrefix(x \o y, Bom)
         /\ WithoutBom(x \o y) = WithoutBom(x) \o y
<1> DEFINE z == x \o y
           n == Len(x)
           m == Len(y)
<1>1. /\ z \in Seq(Byte) /\ Len(z) = n + m /\ n \in Nat /\ m \in Nat
      /\ \A i \in 1 .. n + m : z[i] = IF i <= n THEN x[i] ELSE y[i - n]
  BY ConcatProperties, LenProperties
<1>2. Bom \in Seq(Byte) /\ Len(Bom) = 3
  BY BomIs
<1> DEFINE w == Bom
<1> HIDE DEF z, w
<1>3. /\ IsPrefix(x, w) <=> n <= 3 /\ \A i \in 1 .. n : x[i] = w[i]
      /\ IsStrictPrefix(x, w) <=> IsPrefix(x, w) /\ n < 3
      /\ IsPrefix(w, x) <=> 3 <= n /\ \A i \in 1 .. 3 : w[i] = x[i]
      /\ IsPrefix(z, w) <=> n + m <= 3 /\ \A i \in 1 .. n + m : z[i] = w[i]
      /\ IsStrictPrefix(z, w) <=> IsPrefix(z, w) /\ n + m < 3
      /\ IsPrefix(w, z) <=> 3 <= n + m /\ \A i \in 1 .. 3 : w[i] = z[i]
  <2>1. w \in Seq(Byte) /\ Len(w) = 3
    BY <1>2 DEF w
  <2>2. Len(x) = n
    OBVIOUS
  <2> HIDE DEF n, m
  <2>3. PrefixMeans(x, w) /\ PrefixMeans(w, x)
    BY <2>1, PrefixIs
  <2>4. PrefixMeans(z, w) /\ PrefixMeans(w, z)
    BY <1>1, <2>1, PrefixIs
  <2>7. Len(z) = n + m
    BY <1>1
  <2> QED BY <2>1, <2>2, <2>3, <2>4, <2>7 DEF PrefixMeans
<1> HIDE DEF n, m
<1>4. \A i \in 1 .. n : i \in 1 .. n + m /\ z[i] = x[i]
  <2> SUFFICES ASSUME NEW i \in 1 .. n PROVE i \in 1 .. n + m /\ z[i] = x[i]
    OBVIOUS
  <2>1. i \in 1 .. n + m /\ i <= n
    BY <1>1
  <2> QED BY <1>1, <2>1
<1>5. ~(n < 3 /\ \A i \in 1 .. n : x[i] = w[i])
  <2>1. n < 3 => n <= 3
    BY <1>1
  <2> QED BY <1>3, <2>1 DEF w
<1>6. ~IsStrictPrefix(z, w)
  <2> SUFFICES ASSUME IsStrictPrefix(z, w) PROVE FALSE
    OBVIOUS
  <2>1. n + m < 3 /\ \A i \in 1 .. n + m : z[i] = w[i]
    BY <1>3
  <2>2. n < 3
    BY <1>1, <2>1
  <2>3. \A i \in 1 .. n : x[i] = w[i]
    BY <1>4, <2>1
  <2> QED BY <1>5, <2>2, <2>3
<1>7. IsPrefix(w, z) <=> IsPrefix(w, x)
  <2>1. CASE n < 3
    <3>1. ~IsPrefix(w, x)
      BY <1>1, <1>3, <2>1
    <3>2. ~IsPrefix(w, z)
      <4> SUFFICES ASSUME IsPrefix(w, z) PROVE FALSE
        OBVIOUS
      <4>1. \A i \in 1 .. 3 : w[i] = z[i]
        BY <1>3
      <4>2. ASSUME NEW i \in 1 .. n PROVE x[i] = w[i]
        <5>1. i \in 1 .. 3
          BY <1>1, <2>1
        <5> QED BY <1>4, <4>1, <5>1
      <4> QED BY <1>5, <2>1, <4>2
    <3> QED BY <3>1, <3>2
  <2>2. CASE ~(n < 3)
    <3>1. 3 <= n /\ 3 <= n + m
      BY <1>1, <2>2
    <3>2. \A i \in 1 .. 3 : z[i] = x[i]
      <4>1. \A i \in 1 .. 3 : i \in 1 .. n
        BY <1>1, <3>1
      <4> QED BY <1>4, <4>1
    <3> QED BY <1>3, <3>1, <3>2
  <2> QED BY <2>1, <2>2
<1>8. CASE IsPrefix(w, x)
  <2>1. n >= 3
    BY <1>1, <1>3, <1>8
  <2>2. SubSeq(z, 4, Len(z)) = SubSeq(x, 4, Len(x)) \o y
    BY <2>1, TailOfConcat DEF z, n
  <2> QED BY <1>6, <1>7, <1>8, <2>2 DEF WithoutBom, z, w
<1>9. CASE ~IsPrefix(w, x)
  BY <1>6, <1>7, <1>9 DEF WithoutBom, z, w
<1> QED BY <1>8, <1>9

(* The bytes without their mark.                                           *)
LEMMA WithoutBomIs ==
  ASSUME NEW x \in Seq(Byte)
  PROVE  /\ WithoutBom(x) \in Seq(Byte)
         /\ IsPrefix(Bom, x) => WithoutBom(x) = SubSeq(x, 4, Len(x)) /\ ~IsStrictPrefix(x, Bom)
         /\ ~IsPrefix(Bom, x) => WithoutBom(x) = x
<1>1. Bom \in Seq(Byte) /\ Len(Bom) = 3
  BY BomIs
<1>2. IsPrefix(Bom, x) => Len(x) >= 3 /\ Len(x) \in Nat
  <2>1. IsPrefix(Bom, x) => Len(Bom) <= Len(x) /\ Len(x) \in Nat
    BY <1>1, PrefixIs DEF PrefixMeans
  <2> QED BY <1>1, <2>1
<1>3. IsStrictPrefix(x, Bom) => Len(x) < 3
  <2>1. IsStrictPrefix(x, Bom) => Len(x) < Len(Bom)
    BY <1>1, PrefixIs DEF PrefixMeans
  <2> QED BY <1>1, <2>1
<1>4. IsPrefix(Bom, x) => ~IsStrictPrefix(x, Bom)
  BY <1>2, <1>3
<1>5. IsPrefix(Bom, x) => SubSeq(x, 4, Len(x)) \in Seq(Byte)
  <2> SUFFICES ASSUME IsPrefix(Bom, x) PROVE SubSeq(x, 4, Len(x)) \in Seq(Byte)
    OBVIOUS
  <2>1. 4 \in Nat /\ 4 >= 1 /\ Len(x) \in Int /\ Len(x) <= Len(x)
    BY <1>2
  <2> QED BY <2>1, SubSeqIs
<1> QED BY <1>4, <1>5 DEF WithoutBom

(***************************************************************************)
(* The parser between two chunks.                                          *)
(***************************************************************************)
(* What the parser has read does not depend on what it keeps of the bytes. *)
LEMMA ReadsCarry ==
  ASSUME NEW before, NEW t, NEW p, NEW q \in ParserState, Reads(p, t, before),
         q.error = "none", Row(q) = Row(p), Flags(q) = Flags(p)
  PROVE  Reads(q, t, before)
<1>1. /\ q.cells = p.cells /\ q.cell = p.cell /\ (q.rowActive <=> p.rowActive) /\ q.out = p.out
      /\ (q.quoted <=> p.quoted) /\ (q.quotePending <=> p.quotePending)
      /\ (q.afterQuote <=> p.afterQuote) /\ (q.pendingCr <=> p.pendingCr)
  BY DEF Row, Flags
<1>2. Mode(p, OpenField(t)) => Mode(q, OpenField(t))
  <2> DEFINE f == OpenField(t)
  <2> HIDE DEF f
  <2>1. \A s : WithReturn(s, p.pendingCr) = WithReturn(s, q.pendingCr)
    BY <1>1 DEF WithReturn
  <2>2. InPlain(p, f) => InPlain(q, f)
    BY <1>1, <2>1 DEF InPlain
  <2>3. InQuoted(p, f) => InQuoted(q, f)
    BY <1>1, <2>1 DEF InQuoted
  <2>4. AtQuote(p, f) => AtQuote(q, f)
    BY <1>1 DEF AtQuote
  <2>5. AfterQuote(p, f) => AfterQuote(q, f)
    BY <1>1 DEF AfterQuote
  <2> QED BY <2>2, <2>3, <2>4, <2>5 DEF Mode, f
<1> QED BY <1>1, <1>2 DEF Reads

(* The parser has read the bytes x, a BOM left out.                        *)
ReadBytes(p, x, before) ==
  LET d == DecodeBytes(<<>>, x) IN
  /\ ~d.bad /\ Reads(p, d.chars, before) /\ p.pending = d.pending
  /\ d.chars # <<>> => p.sawText
LostAfter(x) == DecodeBytes(<<>>, x).bad \/ Lost(DecodeBytes(<<>>, x).chars)

(* Bytes after a decided mark.                                             *)
LEMMA DecodeStep ==
  ASSUME NEW before \in Raws, NEW x \in Seq(Byte), NEW y \in Seq(Byte), NEW p,
         ReadBytes(p, x, before)
  PROVE  LET q == Decode(p, y) IN
         /\ q \in ParserState /\ q.preamble = p.preamble /\ q.resolved = p.resolved
         /\ q.error = "none" => ReadBytes(q, x \o y, before)
         /\ q.error # "none" => LostAfter(x \o y)
<1> DEFINE a == DecodeBytes(<<>>, x)
           e == DecodeBytes(p.pending, y)
           d == DecodeBytes(<<>>, x \o y)
           q == Decode(p, y)
<1>0. /\ ~a.bad /\ Reads(p, a.chars, before) /\ p.pending = a.pending
      /\ a.chars # <<>> => p.sawText
  BY DEF ReadBytes
<1>1. <<>> \in Seq(Byte) /\ x \o y \in Seq(Byte)
  BY ConcatIsText
<1>2. a \in Decoded /\ d \in Decoded
  BY <1>1, DecodeBytesAre
<1>3. p.pending \in Seq(Byte) /\ p \in ParserState /\ p.error = "none"
  BY <1>0 DEF Reads, ParserState
<1>4. e \in Decoded
  BY <1>3, DecodeBytesAre
<1>5. Joined(a.chars, d, e)
  <2>1. ~a.bad => Joined(a.chars, d, DecodeBytes(a.pending, y))
    BY DecodeMore
  <2> QED BY <1>0, <2>1
<1>6. q = TakeCharacters(p, e)
  BY DEF Decode
<1> HIDE DEF a, e, d, q
<1>7. CASE e.bad
  <2>1. q = Malformed(p)
    BY <1>6, <1>7 DEF TakeCharacters
  <2>2. Same(p, q) /\ q.error # "none"
    BY <1>3, <2>1, MalformedIs
  <2>3. d.bad
    BY <1>5, <1>7 DEF Joined
  <2> QED BY <2>2, <2>3 DEF Same, LostAfter, d, q
<1>8. CASE ~e.bad
  <2> DEFINE r == [p EXCEPT !.pending = e.pending, !.sawText = p.sawText \/ e.chars # <<>>]
  <2>1. q = ReadOf(r, e.chars)
    BY <1>6, <1>8 DEF TakeCharacters, ReadOf
  <2>2. e.pending \in Seq(Byte) /\ e.chars \in Seq(Characters) /\ a.chars \in Seq(Characters)
    BY <1>2, <1>4 DEF Decoded
  <2>3. /\ r \in ParserState /\ r.error = "none" /\ Row(r) = Row(p) /\ Flags(r) = Flags(p)
        /\ r.pending = e.pending /\ r.preamble = p.preamble /\ r.resolved = p.resolved
        /\ r.sawText = (p.sawText \/ e.chars # <<>>)
    BY <1>3, <2>2 DEF ParserState, Row, Flags
  <2> HIDE DEF r
  <2>4. Reads(r, a.chars, before)
    BY <1>0, <2>3, ReadsCarry
  <2>5. ReadsOn(r, q, a.chars \o e.chars, before)
    BY <2>1, <2>2, <2>4, CharactersRead
  <2>6. ~d.bad /\ d.pending = e.pending /\ d.chars = a.chars \o e.chars
    BY <1>5, <1>8 DEF Joined
  <2>7. d.chars # <<>> => a.chars # <<>> \/ e.chars # <<>>
    BY <2>2, <2>6, ConcatIsText
  <2>8. d.chars # <<>> => r.sawText
    BY <1>0, <2>3, <2>7
  <2>9. q \in ParserState /\ q.preamble = p.preamble /\ q.resolved = p.resolved
        /\ q.pending = d.pending /\ q.sawText = r.sawText
    BY <2>3, <2>5, <2>6 DEF ReadsOn, Same
  <2>10. (q.error = "none" => Reads(q, d.chars, before)) /\ (q.error # "none" => Lost(d.chars))
    BY <2>5, <2>6 DEF ReadsOn
  <2>11. q.error = "none" => ReadBytes(q, x \o y, before)
    BY <2>6, <2>8, <2>9, <2>10 DEF ReadBytes, d
  <2>12. q.error # "none" => LostAfter(x \o y)
    BY <2>10 DEF LostAfter, d
  <2> QED BY <2>9, <2>11, <2>12 DEF q
<1> QED BY <1>7, <1>8

AllDecoded(given) == DecodeBytes(<<>>, WithoutBom(given))
Seen(given) == IF IsStrictPrefix(given, Bom) THEN <<>> ELSE TextOf(given)

Parsed(p, given, before) ==
  /\ Reads(p, Seen(given), before)
  /\ IsStrictPrefix(given, Bom) => ~p.resolved /\ p.preamble = given /\ p.pending = <<>>
  /\ ~IsStrictPrefix(given, Bom) =>
       /\ p.resolved /\ p.preamble = <<>> /\ ~AllDecoded(given).bad
       /\ p.pending = AllDecoded(given).pending
       /\ Seen(given) # <<>> => p.sawText

(* The bytes are those of no document, whatever comes after them.          *)
LostBytes(given) ==
  ~IsStrictPrefix(given, Bom) /\ (AllDecoded(given).bad \/ Lost(TextOf(given)))

(* What has been seen is text.                                             *)
LEMMA SeenIs ==
  ASSUME NEW given \in Seq(Byte)
  PROVE  /\ AllDecoded(given) \in Decoded /\ TextOf(given) = AllDecoded(given).chars
         /\ TextOf(given) \in Seq(Characters) /\ Seen(given) \in Seq(Characters)
<1>1. WithoutBom(given) \in Seq(Byte) /\ <<>> \in Seq(Byte)
  BY WithoutBomIs
<1>2. AllDecoded(given) \in Decoded
  BY <1>1, DecodeBytesAre DEF AllDecoded
<1>3. TextOf(given) = AllDecoded(given).chars
  BY DEF TextOf, AllDecoded
<1>4. TextOf(given) \in Seq(Characters)
  BY <1>2, <1>3 DEF Decoded
<1>5. <<>> \in Seq(Characters)
  OBVIOUS
<1> QED BY <1>2, <1>3, <1>4, <1>5 DEF Seen

(* Decoding what comes after x, for a parser that has read x.              *)
Resumes(p, x, y, given, before) ==
  /\ x \in Seq(Byte) /\ y \in Seq(Byte) /\ ReadBytes(p, x, before)
  /\ p.resolved /\ p.preamble = <<>>
  /\ ~IsStrictPrefix(given, Bom) /\ WithoutBom(given) = x \o y

(* Decoding on brings the parser to the bytes given.                       *)
LEMMA DecodedMore ==
  ASSUME NEW before \in Raws, NEW x, NEW y, NEW given, NEW p, Resumes(p, x, y, given, before)
  PROVE  LET q == Decode(p, y) IN
         /\ q \in ParserState
         /\ q.error = "none" => Parsed(q, given, before)
         /\ q.error # "none" => LostBytes(given)
<1> DEFINE q == Decode(p, y)
           d == DecodeBytes(<<>>, x \o y)
<1>0. /\ x \in Seq(Byte) /\ y \in Seq(Byte) /\ ReadBytes(p, x, before) /\ p.resolved /\ p.preamble = <<>>
      /\ ~IsStrictPrefix(given, Bom) /\ WithoutBom(given) = x \o y
  BY DEF Resumes
<1>1. /\ q \in ParserState /\ q.preamble = p.preamble /\ q.resolved = p.resolved
      /\ q.error = "none" => ReadBytes(q, x \o y, before)
      /\ q.error # "none" => LostAfter(x \o y)
  BY <1>0, DecodeStep
<1>2. AllDecoded(given) = d /\ TextOf(given) = d.chars /\ Seen(given) = d.chars
  BY <1>0 DEF AllDecoded, TextOf, Seen
<1>3. q.error = "none" => /\ ~d.bad /\ Reads(q, d.chars, before) /\ q.pending = d.pending
                          /\ d.chars # <<>> => q.sawText
  BY <1>1 DEF ReadBytes
<1>4. q.error # "none" => d.bad \/ Lost(d.chars)
  BY <1>1 DEF LostAfter
<1> HIDE DEF q, d
<1> QED BY <1>0, <1>1, <1>2, <1>3, <1>4 DEF Parsed, LostBytes, q

(* The parser between chunks, by whether the mark is decided.              *)
LEMMA ParsedBytes ==
  ASSUME NEW before, NEW given \in Seq(Byte), NEW p, Parsed(p, given, before)
  PROVE  /\ p \in ParserState /\ p.error = "none"
         /\ ~IsStrictPrefix(given, Bom) => p.resolved /\ p.preamble = <<>> /\ ReadBytes(p, WithoutBom(given), before)
         /\ IsStrictPrefix(given, Bom) => ~p.resolved /\ p.preamble = given /\ ReadBytes(p, <<>>, before)
<1>1. p \in ParserState /\ p.error = "none"
  BY DEF Parsed, Reads
<1>2. ASSUME ~IsStrictPrefix(given, Bom)
      PROVE  p.resolved /\ p.preamble = <<>> /\ ReadBytes(p, WithoutBom(given), before)
  BY <1>2 DEF Parsed, ReadBytes, Seen, AllDecoded, TextOf
<1>3. ASSUME IsStrictPrefix(given, Bom)
      PROVE  ~p.resolved /\ p.preamble = given /\ ReadBytes(p, <<>>, before)
  <2> DEFINE d == DecodeBytes(<<>>, <<>>)
  <2>1. d = Begin(<<>>)
    <3>1. <<>> \in Seq(Byte)
      OBVIOUS
    <3> QED BY <3>1, DecodeBytesAre
  <2>2. d.bad = FALSE /\ d.chars = <<>> /\ d.pending = <<>>
    BY <2>1 DEF Begin
  <2>3. Reads(p, <<>>, before) /\ ~p.resolved /\ p.preamble = given /\ p.pending = <<>>
    BY <1>3 DEF Parsed, Seen
  <2> HIDE DEF d
  <2> QED BY <2>2, <2>3 DEF ReadBytes, d
<1> QED BY <1>1, <1>2, <1>3

(* What has been read does not depend on the mark.                         *)
LEMMA ReadBytesCarry ==
  ASSUME NEW before, NEW x, NEW p, NEW q \in ParserState, ReadBytes(p, x, before),
         q.error = "none", Row(q) = Row(p), Flags(q) = Flags(p), q.pending = p.pending,
         q.sawText = p.sawText
  PROVE  ReadBytes(q, x, before)
  BY ReadsCarry DEF ReadBytes

(* One more chunk.                                                         *)
LEMMA WriteStep ==
  ASSUME NEW before \in Raws, NEW given \in Seq(Byte), NEW chunk \in Seq(Byte), NEW p,
         Parsed(p, given, before), p.out = <<>>
  PROVE  LET q == Write(p, chunk) IN
         /\ q \in ParserState
         /\ q.error = "none" => Parsed(q, given \o chunk, before)
         /\ q.error # "none" => LostBytes(given \o chunk)
<1> DEFINE g == given \o chunk
           q == Write(p, chunk)
           fresh == [p EXCEPT !.out = <<>>]
           decided == [fresh EXCEPT !.preamble = <<>>, !.resolved = TRUE]
           marked == [decided EXCEPT !.hadBom = TRUE]
           held == [fresh EXCEPT !.preamble = p.preamble \o chunk]
<1>1. /\ p \in ParserState /\ p.error = "none"
      /\ ~IsStrictPrefix(given, Bom) => p.resolved /\ p.preamble = <<>> /\ ReadBytes(p, WithoutBom(given), before)
      /\ IsStrictPrefix(given, Bom) => ~p.resolved /\ p.preamble = given /\ ReadBytes(p, <<>>, before)
  BY ParsedBytes
<1>2. fresh = p
  BY <1>1 DEF ParserState
<1>3. g \in Seq(Byte)
  BY ConcatIsText
<1>4. q = CASE p.resolved -> Decode(fresh, chunk)
            [] ~ p.resolved /\ IsPrefix(Bom, p.preamble \o chunk) ->
                 Decode(marked, SubSeq(p.preamble \o chunk, 4, Len(p.preamble \o chunk)))
            [] ~ p.resolved /\ IsStrictPrefix(p.preamble \o chunk, Bom) -> held
            [] OTHER -> Decode(decided, p.preamble \o chunk)
  BY DEF Write
<1>5. /\ decided \in ParserState /\ decided.error = "none" /\ Row(decided) = Row(p)
      /\ Flags(decided) = Flags(p) /\ decided.pending = p.pending /\ decided.sawText = p.sawText
      /\ decided.preamble = <<>> /\ decided.resolved = TRUE
  <2>1. <<>> \in Seq(Byte)
    OBVIOUS
  <2> HIDE DEF fresh
  <2> QED BY <1>1, <1>2, <2>1 DEF ParserState, Row, Flags
<1>6. /\ marked \in ParserState /\ marked.error = "none" /\ Row(marked) = Row(p)
      /\ Flags(marked) = Flags(p) /\ marked.pending = p.pending /\ marked.sawText = p.sawText
      /\ marked.preamble = <<>> /\ marked.resolved = TRUE
  <2> HIDE DEF decided
  <2> QED BY <1>5 DEF ParserState, Row, Flags
<1> HIDE DEF q, g, fresh, decided, marked
<1>7. CASE ~IsStrictPrefix(given, Bom)
  <2>1. q = Decode(p, chunk)
    BY <1>1, <1>2, <1>4, <1>7
  <2>2. ~IsStrictPrefix(g, Bom) /\ WithoutBom(g) = WithoutBom(given) \o chunk
    BY <1>7, BomMore DEF g
  <2>3. WithoutBom(given) \in Seq(Byte)
    BY WithoutBomIs
  <2> DEFINE x == WithoutBom(given)
  <2>4. x \in Seq(Byte) /\ ReadBytes(p, x, before) /\ p.resolved /\ p.preamble = <<>> /\ WithoutBom(g) = x \o chunk
    BY <1>1, <1>7, <2>2, <2>3
  <2> HIDE DEF x
  <2>5. Resumes(p, x, chunk, g, before)
    BY <2>2, <2>4 DEF Resumes
  <2> QED BY <2>1, <2>5, DecodedMore DEF q, g
<1>8. CASE IsStrictPrefix(given, Bom)
  <2>1. ~p.resolved /\ p.preamble \o chunk = g /\ ReadBytes(p, <<>>, before)
    BY <1>1, <1>8 DEF g
  <2>2. /\ WithoutBom(g) \in Seq(Byte)
        /\ IsPrefix(Bom, g) => WithoutBom(g) = SubSeq(g, 4, Len(g)) /\ ~IsStrictPrefix(g, Bom)
        /\ ~IsPrefix(Bom, g) => WithoutBom(g) = g
    BY <1>3, WithoutBomIs
  <2>3. <<>> \in Seq(Byte) /\ <<>> \o WithoutBom(g) = WithoutBom(g)
    BY <2>2, ConcatIsText
  <2> DEFINE w == WithoutBom(g)
             e == <<>>
  <2>4. w \in Seq(Byte) /\ e \in Seq(Byte) /\ WithoutBom(g) = e \o w
    BY <2>2, <2>3
  <2>5. ReadBytes(marked, e, before) /\ ReadBytes(decided, e, before)
    BY <1>5, <1>6, <2>1, ReadBytesCarry
  <2>6. CASE IsPrefix(Bom, g)
    <3>1. q = Decode(marked, w)
      BY <1>4, <2>1, <2>2, <2>6
    <3> HIDE DEF w, e
    <3>2. Resumes(marked, e, w, g, before)
      BY <1>6, <2>2, <2>4, <2>5, <2>6 DEF Resumes
    <3> QED BY <3>1, <3>2, DecodedMore DEF q, g
  <2>7. CASE ~IsPrefix(Bom, g) /\ ~IsStrictPrefix(g, Bom)
    <3>1. q = Decode(decided, w)
      BY <1>4, <2>1, <2>2, <2>7
    <3> HIDE DEF w, e
    <3>2. Resumes(decided, e, w, g, before)
      BY <1>5, <2>4, <2>5, <2>7 DEF Resumes
    <3> QED BY <3>1, <3>2, DecodedMore DEF q, g
  <2>8. CASE ~IsPrefix(Bom, g) /\ IsStrictPrefix(g, Bom)
    <3>1. q = held
      BY <1>4, <2>1, <2>8
    <3>2. held = [p EXCEPT !.preamble = g]
      BY <1>2, <2>1
    <3>3. /\ q \in ParserState /\ q.error = "none" /\ Row(q) = Row(p) /\ Flags(q) = Flags(p)
          /\ q.pending = p.pending /\ q.preamble = g /\ q.resolved = p.resolved
      <4> HIDE DEF held
      <4> QED BY <1>1, <1>3, <3>1, <3>2 DEF ParserState, Row, Flags
    <3>4. Reads(p, <<>>, before) /\ p.pending = <<>>
      BY <1>8 DEF Parsed, Seen
    <3>5. Reads(q, <<>>, before)
      BY <3>3, <3>4, ReadsCarry
    <3>6. Parsed(q, g, before)
      BY <2>1, <2>8, <3>3, <3>4, <3>5 DEF Parsed, Seen
    <3> QED BY <3>3, <3>6 DEF q, g
  <2> QED BY <2>6, <2>7, <2>8
<1> QED BY <1>7, <1>8

(***************************************************************************)
(* The end of the input.                                                   *)
(***************************************************************************)
Ended(q, given, before) ==
  /\ q \in ParserState
  /\ q.error = "none" =>
       /\ IsText(given) /\ AllGoodRecords(Records(TextOf(given)))
       /\ before \o q.out = Table(Records(TextOf(given)))
  /\ q.error # "none" =>
       \/ ~IsText(given) \/ ~AllGoodRecords(Records(TextOf(given)))
       \/ Records(TextOf(given)) = <<>>

(* An error is not lost at the end of the input.                           *)
LEMMA ErrorStays ==
  ASSUME NEW p \in ParserState, p.error # "none"
  PROVE  LET q == EndOfText(LastQuote(NoHalfCharacter(p))) IN
         q \in ParserState /\ q.error # "none"
<1> DEFINE r == [p EXCEPT !.quotePending = FALSE, !.quoted = FALSE, !.afterQuote = TRUE]
<1>1. NoHalfCharacter(p) = p
  BY DEF NoHalfCharacter, Malformed, Fail
<1>2. r \in ParserState /\ r.error = p.error
  BY DEF ParserState
<1>3. LastQuote(p) = p \/ LastQuote(p) = r
  BY DEF LastQuote
<1> HIDE DEF r
<1>4. LastQuote(p) \in ParserState /\ LastQuote(p).error # "none"
  BY <1>2, <1>3
<1>5. EndOfText(LastQuote(p)) = LastQuote(p)
  BY <1>4 DEF EndOfText
<1> QED BY <1>1, <1>4, <1>5

(* The end of the input: the parser's verdict is that of the grammar.      *)
LEMMA FinishStep ==
  ASSUME NEW before \in Raws, NEW given \in Seq(Byte), NEW p,
         Parsed(p, given, before), p.out = <<>>
  PROVE  Ended(FinishParse(p), given, before)
<1> DEFINE w == WithoutBom(given)
           decided == [p EXCEPT !.out = <<>>, !.preamble = <<>>, !.resolved = TRUE]
           d1 == Decode(decided, p.preamble)
           q == EndOfText(LastQuote(NoHalfCharacter(d1)))
           d == DecodeBytes(<<>>, w)
<1>1. /\ p \in ParserState /\ p.error = "none"
      /\ ~IsStrictPrefix(given, Bom) => p.resolved /\ p.preamble = <<>> /\ ReadBytes(p, WithoutBom(given), before)
      /\ IsStrictPrefix(given, Bom) => ~p.resolved /\ p.preamble = given /\ ReadBytes(p, <<>>, before)
  BY ParsedBytes
<1>2. FinishParse(p) = q
  BY DEF FinishParse
<1>3. /\ decided \in ParserState /\ decided.error = "none" /\ Row(decided) = Row(p)
      /\ Flags(decided) = Flags(p) /\ decided.pending = p.pending /\ decided.sawText = p.sawText
  <2>1. <<>> \in Seq(Byte) /\ <<>> \in Seq(Seq(Seq(Characters)))
    OBVIOUS
  <2> QED BY <1>1, <2>1 DEF ParserState, Row, Flags
<1>4. w \in Seq(Byte) /\ <<>> \in Seq(Byte) /\ w \o <<>> = w /\ <<>> \o w = w
  <2>1. w \in Seq(Byte)
    BY WithoutBomIs
  <2> QED BY <2>1, ConcatIsText
<1> HIDE DEF decided
<1>5. /\ d1 \in ParserState
      /\ d1.error = "none" => ReadBytes(d1, w, before)
      /\ d1.error # "none" => LostAfter(w)
  <2>1. CASE ~IsStrictPrefix(given, Bom)
    <3>1. ReadBytes(decided, w, before)
      BY <1>1, <1>3, <2>1, ReadBytesCarry
    <3>2. d1 = Decode(decided, <<>>)
      BY <1>1, <2>1
    <3> HIDE DEF d1, w
    <3>3. w \in Seq(Byte) /\ <<>> \in Seq(Byte)
      BY <1>4
    <3>4. /\ d1 \in ParserState
          /\ d1.error = "none" => ReadBytes(d1, w \o <<>>, before)
          /\ d1.error # "none" => LostAfter(w \o <<>>)
      BY <3>1, <3>2, <3>3, DecodeStep
    <3> QED BY <1>4, <3>4
  <2>2. CASE IsStrictPrefix(given, Bom)
    <3>1. ReadBytes(decided, <<>>, before)
      BY <1>1, <1>3, <2>2, ReadBytesCarry
    <3>2. w = given
      BY <2>2, WithoutBomIs
    <3>3. d1 = Decode(decided, w)
      BY <1>1, <2>2, <3>2
    <3> HIDE DEF d1, w
    <3>4. w \in Seq(Byte) /\ <<>> \in Seq(Byte)
      BY <1>4
    <3>5. /\ d1 \in ParserState
          /\ d1.error = "none" => ReadBytes(d1, <<>> \o w, before)
          /\ d1.error # "none" => LostAfter(<<>> \o w)
      BY <3>1, <3>3, <3>4, DecodeStep
    <3> QED BY <1>4, <3>5
  <2> QED BY <2>1, <2>2
<1>6. /\ TextOf(given) = d.chars /\ (IsText(given) <=> ~d.bad /\ d.pending = <<>>)
  BY DEF TextOf, IsText
<1>7. d \in Decoded
  BY <1>4, DecodeBytesAre
<1> HIDE DEF d1
<1>8. CASE d1.error # "none"
  <2>1. q \in ParserState /\ q.error # "none"
    BY <1>5, <1>8, ErrorStays
  <2>2. d.bad \/ Lost(d.chars)
    BY <1>5, <1>8 DEF LostAfter
  <2> HIDE DEF q, d
  <2>3. d.chars \in Seq(Characters)
    BY <1>7 DEF Decoded
  <2>4. d.bad \/ ~AllGoodRecords(Records(d.chars))
    BY <2>2, <2>3, LostIsNoDocument
  <2> QED BY <1>2, <1>6, <2>1, <2>4 DEF Ended
<1>9. CASE d1.error = "none"
  <2>1. /\ ~d.bad /\ Reads(d1, d.chars, before) /\ d1.pending = d.pending
        /\ d.chars # <<>> => d1.sawText
    BY <1>5, <1>9 DEF ReadBytes
  <2> HIDE DEF d
  <2>2. d.chars \in Seq(Characters)
    BY <1>7 DEF Decoded
  <2>3. CASE d.pending # <<>>
    <3>1. NoHalfCharacter(d1) = Malformed(d1)
      BY <2>1, <2>3 DEF NoHalfCharacter
    <3> DEFINE r == Malformed(d1)
    <3>2. r \in ParserState /\ r.error # "none"
      BY <1>5, <1>9, MalformedIs DEF Same
    <3>3. NoHalfCharacter(r) = r
      BY <3>2 DEF NoHalfCharacter, Malformed, Fail
    <3> HIDE DEF r
    <3>4. EndOfText(LastQuote(NoHalfCharacter(r))) \in ParserState
          /\ EndOfText(LastQuote(NoHalfCharacter(r))).error # "none"
      BY <3>2, ErrorStays
    <3>5. q \in ParserState /\ q.error # "none"
      BY <3>1, <3>3, <3>4 DEF r
    <3> HIDE DEF q
    <3> QED BY <1>2, <1>6, <2>3, <3>5 DEF Ended
  <2>4. CASE d.pending = <<>>
    <3>1. NoHalfCharacter(d1) = d1
      BY <2>1, <2>4 DEF NoHalfCharacter
    <3> DEFINE t == d.chars
    <3>2. t \in Seq(Characters) /\ Reads(d1, t, before) /\ (t # <<>> => d1.sawText)
      BY <2>1, <2>2
    <3> HIDE DEF t
    <3>3. /\ q \in ParserState
          /\ q.error = "none" => AllGoodRecords(Records(t)) /\ before \o q.out = Table(Records(t))
          /\ q.error # "none" => ~AllGoodRecords(Records(t)) \/ Records(t) = <<>>
      BY <3>1, <3>2, TextEnds
    <3> HIDE DEF q
    <3> QED BY <1>2, <1>6, <2>1, <2>4, <3>3 DEF Ended, t
  <2> QED BY <2>3, <2>4
<1> QED BY <1>8, <1>9

(***************************************************************************)
(* Raw rows that are taken one after the other.                            *)
(***************************************************************************)
Start == [headers |-> <<>>, rows |-> <<>>, error |-> "none"]
Taken(table) == FoldLeft(Consume, Start, table)
RawRow == Seq(Seq(Characters))
Decodeds(raw) == [i \in DOMAIN raw |-> FormulaDecoded(raw[i])]

(* How a catalog looks when a raw row is added.                            *)
FirstRow(raw, longer) ==
  /\ IsCatalog(longer) <=> HeaderError(raw) = "none"
  /\ HeaderOf(longer) = Decodeds(raw) /\ BodyOf(longer) = <<>>
OneMoreRow(table, raw, longer) ==
  /\ IsCatalog(longer) <=> IsCatalog(table) /\ RowError(HeaderOf(table), raw) = "none"
  /\ HeaderOf(longer) = HeaderOf(table)
  /\ BodyOf(longer) = Append(BodyOf(table), CanonicalRow(HeaderOf(table), raw))

(* A table is a catalog if its header and each of its rows is valid.       *)
LEMMA CatalogIs ==
  ASSUME NEW table \in Raws
  PROVE  IsCatalog(table) <=>
           /\ table # <<>> /\ HeaderError(table[1]) = "none"
           /\ \A k \in 2 .. Len(table) : RowError(HeaderOf(table), table[k]) = "none"
<1>1. CASE table = <<>>
  BY <1>1 DEF IsCatalog
<1>2. CASE table # <<>>
  <2> DEFINE u == Tail(table)
             n == Len(table)
  <2>1. /\ u \in Raws /\ Len(u) = n - 1 /\ n \in Nat /\ n >= 1
        /\ \A i \in 1 .. n - 1 : u[i] = table[i + 1]
    BY <1>2, EmptySeq, LenProperties, HeadTailProperties DEF Raws
  <2>2. DOMAIN u = 1 .. n - 1
    BY <2>1, LenProperties DEF Raws
  <2> HIDE DEF u, n
  <2>3. ASSUME NEW k \in 2 .. n PROVE k - 1 \in 1 .. n - 1 /\ u[k - 1] = table[k]
    <3>1. k - 1 \in 1 .. n - 1 /\ (k - 1) + 1 = k
      BY <2>1
    <3> QED BY <2>1, <3>1
  <2>4. ASSUME NEW i \in 1 .. n - 1 PROVE i + 1 \in 2 .. n /\ u[i] = table[i + 1]
    BY <2>1
  <2>5. (\A raw \in ToSet(u) : RowError(HeaderOf(table), raw) = "none")
          <=> (\A k \in 2 .. n : RowError(HeaderOf(table), table[k]) = "none")
    BY <2>2, <2>3, <2>4 DEF ToSet
  <2> QED BY <1>2, <2>5 DEF IsCatalog, u, n
<1> QED BY <1>1, <1>2

(* The rows of a catalog, one by one.                                      *)
LEMMA BodyIs ==
  ASSUME NEW table \in Raws, table # <<>>, NEW S,
         \A raw \in RawRow : CanonicalRow(HeaderOf(table), raw) \in S
  PROVE  /\ BodyOf(table) \in Seq(S) /\ Len(BodyOf(table)) = Len(table) - 1
         /\ \A k \in 1 .. Len(table) - 1 :
              BodyOf(table)[k] = CanonicalRow(HeaderOf(table), table[k + 1])
<1> DEFINE n == Len(table) - 1
           h == HeaderOf(table)
           b == [k \in 1 .. n |-> CanonicalRow(h, table[k + 1])]
<1>1. Len(table) \in Nat /\ Len(table) # 0 /\ DOMAIN table = 1 .. Len(table)
  BY EmptySeq, LenProperties DEF Raws
<1>2. n \in Nat
  BY <1>1
<1>3. \A k \in 1 .. n : k + 1 \in DOMAIN table
  BY <1>1
<1>4. \A k \in 1 .. n : CanonicalRow(h, table[k + 1]) \in S
  BY <1>3, ElementOfSeq DEF Raws, RawRow
<1> HIDE DEF n, h
<1>5. b \in [1 .. n -> S]
  BY <1>4
<1>6. BodyOf(table) = b
  BY DEF BodyOf, n, h
<1> HIDE DEF b
<1>7. b \in Seq(S) /\ Len(b) = n
  BY <1>2, <1>5, FunctionIsSeq
<1> QED BY <1>6, <1>7 DEF b, n, h

(* The header.                                                             *)
LEMMA FirstRowIs ==
  ASSUME NEW raw \in RawRow
  PROVE  FirstRow(raw, Append(<<>>, raw))
<1> DEFINE u == Append(<<>>, raw)
<1>1. <<>> \in Raws
  BY DEF Raws
<1>2. u \in Raws /\ u # <<>> /\ Len(u) = Len(<<>>) + 1 /\ u[Len(<<>>) + 1] = raw
  BY <1>1, AppendIsNot, AppendHas DEF Raws, RawRow
<1>3. Len(<<>>) = 0
  OBVIOUS
<1>4. Len(u) = 1 /\ u[1] = raw
  BY <1>2, <1>3
<1> HIDE DEF u
<1>5. IsCatalog(u) <=> HeaderError(raw) = "none"
  <2>1. ~ \E k \in 2 .. Len(u) : TRUE
    BY <1>4
  <2> QED BY <1>2, <1>4, <2>1, CatalogIs
<1>6. HeaderOf(u) = Decodeds(raw)
  BY <1>4 DEF HeaderOf, Decodeds
<1>7. BodyOf(u) = <<>>
  <2> DEFINE S == {CanonicalRow(HeaderOf(u), x) : x \in RawRow}
  <2>0. \A x \in RawRow : CanonicalRow(HeaderOf(u), x) \in S
    OBVIOUS
  <2> HIDE DEF S
  <2>1. BodyOf(u) \in Seq(S) /\ Len(BodyOf(u)) = Len(u) - 1
    BY <1>2, <2>0, BodyIs
  <2>2. Len(BodyOf(u)) = 0
    BY <1>4, <2>1
  <2> QED BY <2>1, <2>2, EmptySeq
<1> QED BY <1>5, <1>6, <1>7 DEF FirstRow, u

(* One row more.                                                           *)
LEMMA OneMoreRowIs ==
  ASSUME NEW table \in Raws, table # <<>>, NEW raw \in RawRow
  PROVE  OneMoreRow(table, raw, Append(table, raw))
<1> DEFINE u == Append(table, raw)
           n == Len(table)
           h == HeaderOf(table)
           S == {CanonicalRow(h, x) : x \in RawRow}
           c == CanonicalRow(h, raw)
           b == BodyOf(table)
<1>1. u \in Raws /\ u # <<>> /\ Len(u) = n + 1 /\ n \in Nat
  BY AppendIsNot DEF Raws, RawRow
<1>2. DOMAIN table = 1 .. n /\ n # 0
  BY EmptySeq, LenProperties DEF Raws
<1>3. u[n + 1] = raw /\ \A k \in DOMAIN table : u[k] = table[k]
  BY AppendHas DEF Raws, RawRow
<1> HIDE DEF u
<1>4. u[1] = table[1]
  BY <1>1, <1>2, <1>3
<1>5. HeaderOf(u) = h
  BY <1>4 DEF HeaderOf
<1>6. IsCatalog(u) <=> IsCatalog(table) /\ RowError(h, raw) = "none"
  <2>1. IsCatalog(u) <=> /\ HeaderError(u[1]) = "none"
                         /\ \A k \in 2 .. Len(u) : RowError(HeaderOf(u), u[k]) = "none"
    BY <1>1, CatalogIs
  <2>2. IsCatalog(table) <=> /\ HeaderError(table[1]) = "none"
                             /\ \A k \in 2 .. n : RowError(h, table[k]) = "none"
    BY CatalogIs
  <2> HIDE DEF n, h
  <2>3. 2 .. Len(u) = (2 .. n) \cup {n + 1}
    BY <1>1, <1>2
  <2>4. \A k \in 2 .. n : u[k] = table[k]
    <3>1. \A k \in 2 .. n : k \in DOMAIN table
      BY <1>1, <1>2
    <3> QED BY <1>3, <3>1
  <2> QED BY <1>3, <1>4, <1>5, <2>1, <2>2, <2>3, <2>4
<1>7. /\ b \in Seq(S) /\ Len(b) = n - 1
      /\ \A k \in 1 .. n - 1 : b[k] = CanonicalRow(h, table[k + 1])
  BY BodyIs
<1>8. /\ BodyOf(u) \in Seq(S) /\ Len(BodyOf(u)) = Len(u) - 1
      /\ \A k \in 1 .. Len(u) - 1 : BodyOf(u)[k] = CanonicalRow(h, u[k + 1])
  <2>1. \A x \in RawRow : CanonicalRow(HeaderOf(u), x) \in S
    BY <1>5
  <2> HIDE DEF S
  <2>2. /\ BodyOf(u) \in Seq(S) /\ Len(BodyOf(u)) = Len(u) - 1
        /\ \A k \in 1 .. Len(u) - 1 : BodyOf(u)[k] = CanonicalRow(HeaderOf(u), u[k + 1])
    BY <1>1, <2>1, BodyIs
  <2> QED BY <1>5, <2>2
<1>9. c \in S
  OBVIOUS
<1> HIDE DEF S, c, b, h
<1>10. Append(b, c) \in Seq(S)
  BY <1>7, <1>9, AppendProperties
<1>11. /\ DOMAIN b = 1 .. n - 1 /\ Len(Append(b, c)) = Len(b) + 1
       /\ Append(b, c)[Len(b) + 1] = c /\ \A k \in DOMAIN b : Append(b, c)[k] = b[k]
  BY <1>7, <1>9, AppendHas, LenProperties
<1> DEFINE v == BodyOf(u)
           w == Append(b, c)
<1>12. Len(v) = n /\ Len(w) = n
  BY <1>1, <1>7, <1>8, <1>11
<1> HIDE DEF v, w, n
<1>13. ASSUME NEW k \in 1 .. n PROVE v[k] = w[k]
  <2>1. k \in 1 .. Len(u) - 1
    BY <1>1
  <2>2. v[k] = CanonicalRow(h, u[k + 1])
    BY <1>8, <2>1 DEF v
  <2>3. CASE k = n
    <3>1. w[k] = c
      <4>1. Len(b) + 1 = n
        BY <1>1, <1>7
      <4> QED BY <1>11, <2>3, <4>1 DEF w
    <3>2. u[k + 1] = raw
      BY <1>3, <2>3
    <3> QED BY <2>2, <3>1, <3>2 DEF c
  <2>4. CASE k # n
    <3>1. k \in 1 .. n - 1 /\ k + 1 \in DOMAIN table
      BY <1>1, <1>2, <2>4
    <3>2. b[k] = CanonicalRow(h, table[k + 1])
      BY <1>7, <3>1
    <3>3. u[k + 1] = table[k + 1] /\ w[k] = b[k]
      BY <1>3, <1>11, <3>1 DEF w
    <3> QED BY <2>2, <3>2, <3>3
  <2> QED BY <2>3, <2>4
<1>14. v = w
  BY <1>8, <1>10, <1>12, <1>13, SeqEqual DEF v, w
<1> QED BY <1>5, <1>6, <1>14 DEF OneMoreRow, u, v, w, h, b, c

(* A valid header is not empty.                                            *)
LEMMA HeadersAreNot ==
  ASSUME NEW raw, HeaderError(raw) = "none"
  PROVE  Decodeds(raw) # <<>>
<1> DEFINE hs == Decodeds(raw)
<1>1. ColumnSet \subseteq ToSet(hs)
  BY Zenon DEF HeaderError, Decodeds
<1>2. Columns \in Seq(Seq(Characters)) /\ Columns # <<>>
  BY CodecAssumption
<1>3. Len(Columns) \in Nat /\ Len(Columns) # 0 /\ DOMAIN Columns = 1 .. Len(Columns)
  BY <1>2, EmptySeq, LenProperties
<1>4. 1 \in DOMAIN Columns
  BY <1>3
<1>5. Columns[1] \in ToSet(hs)
  BY <1>1, <1>4 DEF ColumnSet, ToSet
<1> HIDE DEF hs
<1>6. hs # <<>>
  <2> SUFFICES ASSUME hs = <<>> PROVE FALSE
    OBVIOUS
  <2>1. DOMAIN <<>> = {}
    OBVIOUS
  <2> QED BY <1>5, <2>1 DEF ToSet
<1> QED BY <1>6 DEF hs

(* What the fold makes of a table: its header and its body if it is a      *)
(* catalog, an error if it is none.                                        *)
CatalogErrors ==
  {"none", "formula_payload", "invalid_csv_header", "malformed_csv", "invalid_identity"}
TakenIs(table, s) ==
  /\ s.error \in CatalogErrors
  /\ table = <<>> => s = Start
  /\ table # <<>> /\ IsCatalog(table) =>
       s = [headers |-> HeaderOf(table), rows |-> BodyOf(table), error |-> "none"]
  /\ table # <<>> /\ ~IsCatalog(table) => s.error # "none"

(* The codes of headers and rows.                                          *)
LEMMA ErrorsAre ==
  /\ \A raw : HeaderError(raw) \in CatalogErrors
  /\ \A hs, raw : RowError(hs, raw) \in CatalogErrors
<1>1. ASSUME NEW raw PROVE HeaderError(raw) \in CatalogErrors
  <2> DEFINE hs == [i \in DOMAIN raw |-> FormulaDecoded(raw[i])]
             a == \E v \in ToSet(raw) : IsFormula(v)
             b == (\E i, j \in DOMAIN hs : i # j /\ hs[i] = hs[j])
                    \/ <<>> \in ToSet(hs) \/ ~ (ColumnSet \subseteq ToSet(hs))
  <2>1. HeaderError(raw) = CASE a -> "formula_payload" [] b -> "invalid_csv_header" [] OTHER -> "none"
    BY DEF HeaderError
  <2> HIDE DEF a, b
  <2> QED BY <2>1 DEF CatalogErrors
<1>2. ASSUME NEW hs, NEW raw PROVE RowError(hs, raw) \in CatalogErrors
  <2> DEFINE a == Len(raw) # Len(hs)
             b == Len(raw) = Len(hs) /\ (\E v \in ToSet(raw) : IsFormula(v))
             c == Len(raw) = Len(hs) /\ (\A v \in ToSet(raw) : ~ IsFormula(v))
                    /\ ~ ValidIdentity(CanonicalRow(hs, raw))
  <2>1. RowError(hs, raw) = CASE a -> "malformed_csv" [] b -> "formula_payload"
                              [] c -> "invalid_identity" [] OTHER -> "none"
    BY DEF RowError
  <2> HIDE DEF a, b, c
  <2> QED BY <2>1 DEF CatalogErrors
<1> QED BY <1>1, <1>2

(* Consume, row after row, makes of a table what IsCatalog, HeaderOf and   *)
(* BodyOf say of it.                                                       *)
LEMMA TakenTable == \A table \in Raws : TakenIs(table, Taken(table))
<1> DEFINE Q == {table \in Raws : TakenIs(table, Taken(table))}
<1>1. <<>> \in Q
  <2>1. <<>> \in Raws
    BY DEF Raws
  <2>2. Taken(<<>>) = Start /\ Start.error = "none"
    BY TakenOfNothing DEF Taken, Start
  <2>3. "none" \in CatalogErrors
    BY DEF CatalogErrors
  <2>4. TakenIs(<<>>, Start)
    BY <2>2, <2>3 DEF TakenIs
  <2> QED BY <2>1, <2>2, <2>4
<1>2. \A table \in Raws : table \in Q => \A raw \in RawRow : Append(table, raw) \in Q
  <2> SUFFICES ASSUME NEW table \in Raws, table \in Q, NEW raw \in RawRow
               PROVE  Append(table, raw) \in Q
    OBVIOUS
  <2> DEFINE u == Append(table, raw)
             s == Taken(table)
             q == Taken(u)
  <2>1. u \in Raws /\ u # <<>>
    BY AppendIsNot DEF Raws, RawRow
  <2>2. q = Consume(s, raw)
    BY TakenOfAppend DEF Taken, Raws, RawRow
  <2>3. TakenIs(table, s)
    OBVIOUS
  <2>4. CASE table = <<>>
    <3>1. FirstRow(raw, u)
      BY <2>4, FirstRowIs
    <3> HIDE DEF u, q
    <3>2. s = Start
      BY <2>3, <2>4 DEF TakenIs
    <3>3. q = TakeHeader(Start, raw, HeaderError(raw))
      BY <2>2, <3>2 DEF Consume, Start
    <3>4. CASE HeaderError(raw) = "none"
      <4>1. q = [Start EXCEPT !.headers = Decodeds(raw)]
        BY <3>3, <3>4 DEF TakeHeader, Decodeds
      <4>2. q = [headers |-> Decodeds(raw), rows |-> <<>>, error |-> "none"]
        BY <4>1 DEF Start
      <4>3. TakenIs(u, q)
        BY <2>1, <3>1, <3>4, <4>2 DEF TakenIs, FirstRow, CatalogErrors
      <4> QED BY <2>1, <4>3 DEF u, q
    <3>5. CASE HeaderError(raw) # "none"
      <4>1. q = [Start EXCEPT !.error = HeaderError(raw)]
        BY <3>3, <3>5 DEF TakeHeader
      <4>2. q.error # "none" /\ q.error \in CatalogErrors
        BY <3>5, <4>1, ErrorsAre DEF Start
      <4>3. TakenIs(u, q)
        BY <2>1, <3>1, <3>5, <4>2 DEF TakenIs, FirstRow
      <4> QED BY <2>1, <4>3 DEF u, q
    <3> QED BY <3>4, <3>5
  <2>5. CASE table # <<>> /\ IsCatalog(table)
    <3>1. OneMoreRow(table, raw, u)
      BY <2>5, OneMoreRowIs
    <3> HIDE DEF u, q
    <3> DEFINE h == HeaderOf(table)
               b == BodyOf(table)
    <3>2. s = [headers |-> h, rows |-> b, error |-> "none"]
      BY <2>3, <2>5 DEF TakenIs
    <3>3. h # <<>>
      <4>1. HeaderError(table[1]) = "none"
        BY <2>5 DEF IsCatalog
      <4> QED BY <4>1, HeadersAreNot DEF HeaderOf, Decodeds
    <3> HIDE DEF s, h, b
    <3>4. s.headers = h /\ s.rows = b /\ s.error = "none"
      BY <3>2
    <3>5. q = TakeRow(s, raw, RowError(h, raw))
      BY <2>2, <3>3, <3>4 DEF Consume
    <3>6. CASE RowError(h, raw) = "none"
      <4> DEFINE more == Append(b, CanonicalRow(h, raw))
      <4>1. q = [s EXCEPT !.rows = more]
        BY <3>4, <3>5, <3>6 DEF TakeRow
      <4> HIDE DEF more
      <4>2. q = [headers |-> h, rows |-> more, error |-> "none"]
        BY <3>2, <4>1
      <4>3. IsCatalog(u) /\ HeaderOf(u) = h /\ BodyOf(u) = more
        BY <2>5, <3>1, <3>6 DEF OneMoreRow, h, b, more
      <4>4. TakenIs(u, q)
        BY <2>1, <4>2, <4>3 DEF TakenIs, CatalogErrors
      <4> QED BY <2>1, <4>4 DEF u, q
    <3>7. CASE RowError(h, raw) # "none"
      <4> DEFINE e == RowError(h, raw)
      <4>0. e # "none" /\ e \in CatalogErrors
        BY <3>7, ErrorsAre
      <4>1. q = [s EXCEPT !.error = e]
        BY <3>5, <3>7 DEF TakeRow
      <4> HIDE DEF e
      <4>2. q.error # "none" /\ q.error \in CatalogErrors
        BY <3>2, <4>0, <4>1
      <4>3. ~IsCatalog(u)
        BY <3>1, <3>7 DEF OneMoreRow, h
      <4>4. TakenIs(u, q)
        BY <2>1, <4>2, <4>3 DEF TakenIs
      <4> QED BY <2>1, <4>4 DEF u, q
    <3> QED BY <3>6, <3>7
  <2>6. CASE table # <<>> /\ ~IsCatalog(table)
    <3>1. OneMoreRow(table, raw, u)
      BY <2>6, OneMoreRowIs
    <3> HIDE DEF u, q
    <3>2. s.error # "none"
      BY <2>3, <2>6 DEF TakenIs
    <3>3. q = s
      BY <2>2, <3>2 DEF Consume
    <3>4. TakenIs(u, q)
      BY <2>1, <2>6, <3>1, <3>2, <3>3 DEF TakenIs, OneMoreRow
    <3> QED BY <2>1, <3>4 DEF u, q
  <2> QED BY <2>4, <2>5, <2>6
<1> HIDE DEF Q
<1>3. \A table \in Seq(RawRow) : table \in Q
  BY <1>1, <1>2, SeqInduction DEF Raws, RawRow
<1> QED BY <1>3 DEF Q, Raws, RawRow

(* Taking a table in two parts is taking it at once, and what is no catalog*)
(* becomes none.                                                           *)
LEMMA TakenInParts ==
  ASSUME NEW table \in Raws
  PROVE  \A more \in Raws : FoldLeft(Consume, Taken(table), more) = Taken(table \o more)
<1> DEFINE s == Taken(table)
           Q == {more \in Raws : FoldLeft(Consume, s, more) = Taken(table \o more)}
<1>1. <<>> \in Q
  <2>1. <<>> \in Raws /\ table \o <<>> = table
    BY ConcatIsText DEF Raws
  <2>2. FoldLeft(Consume, s, <<>>) = s
    BY TakenOfNothing
  <2> QED BY <2>1, <2>2
<1>2. \A more \in Raws : more \in Q => \A raw \in RawRow : Append(more, raw) \in Q
  <2> SUFFICES ASSUME NEW more \in Raws, more \in Q, NEW raw \in RawRow
               PROVE  Append(more, raw) \in Q
    OBVIOUS
  <2> DEFINE u == Append(more, raw)
             x == table \o more
  <2>1. u \in Raws /\ x \in Raws
    BY AppendIsNot, ConcatIsText DEF Raws, RawRow
  <2>2. table \o u = Append(x, raw)
    BY ConcatAppend DEF Raws, RawRow
  <2>3. FoldLeft(Consume, s, u) = Consume(FoldLeft(Consume, s, more), raw)
    BY TakenOfAppend DEF Raws, RawRow
  <2>4. FoldLeft(Consume, s, more) = Taken(x)
    OBVIOUS
  <2> HIDE DEF x, s
  <2>5. Taken(Append(x, raw)) = Consume(Taken(x), raw)
    BY <2>1, TakenOfAppend DEF Taken, Raws, RawRow
  <2>6. FoldLeft(Consume, s, u) = Taken(table \o u)
    BY <2>2, <2>3, <2>4, <2>5
  <2> QED BY <2>1, <2>6
<1> HIDE DEF Q
<1>3. \A more \in Seq(RawRow) : more \in Q
  BY <1>1, <1>2, SeqInduction DEF Raws, RawRow
<1> QED BY <1>3 DEF Q, Raws, RawRow

(* What is no catalog does not become one.                                 *)
LEMMA CatalogBegins ==
  ASSUME NEW table \in Raws, table # <<>>, ~IsCatalog(table)
  PROVE  \A more \in Raws : ~IsCatalog(table \o more)
<1> DEFINE Q == {more \in Raws : table \o more # <<>> /\ ~IsCatalog(table \o more)}
<1>1. <<>> \in Q
  <2>1. <<>> \in Raws /\ table \o <<>> = table
    BY ConcatIsText DEF Raws
  <2> QED BY <2>1
<1>2. \A more \in Raws : more \in Q => \A raw \in RawRow : Append(more, raw) \in Q
  <2> SUFFICES ASSUME NEW more \in Raws, more \in Q, NEW raw \in RawRow
               PROVE  Append(more, raw) \in Q
    OBVIOUS
  <2> DEFINE u == Append(more, raw)
             x == table \o more
  <2>1. u \in Raws /\ x \in Raws
    BY AppendIsNot, ConcatIsText DEF Raws, RawRow
  <2>2. table \o u = Append(x, raw)
    BY ConcatAppend DEF Raws, RawRow
  <2>3. x # <<>> /\ ~IsCatalog(x)
    OBVIOUS
  <2> HIDE DEF x
  <2>4. OneMoreRow(x, raw, Append(x, raw))
    BY <2>1, <2>3, OneMoreRowIs
  <2>5. Append(x, raw) # <<>>
    BY <2>1, AppendIsNot DEF Raws, RawRow
  <2>6. ~IsCatalog(Append(x, raw))
    BY <2>3, <2>4 DEF OneMoreRow
  <2> QED BY <2>1, <2>2, <2>5, <2>6
<1> HIDE DEF Q
<1>3. \A more \in Seq(RawRow) : more \in Q
  BY <1>1, <1>2, SeqInduction DEF Raws, RawRow
<1> QED BY <1>3 DEF Q, Raws, RawRow

(***************************************************************************)
(* What comes later adds to the table.                                     *)
(***************************************************************************)
Texts == Seq(Seq(Characters))

(* The value of a field is a text.                                         *)
LEMMA ValueIs ==
  ASSUME NEW f \in Seq(Characters)
  PROVE  Value(f) \in Seq(Characters)
<1>1. CASE ~Quoted(f)
  BY <1>1 DEF Value
<1>2. CASE Quoted(f)
  <2>1. Len(f) \in Nat
    BY LenProperties
  <2>2. Len(f) - 1 \in Int /\ Len(f) - 1 <= Len(f) /\ 2 \in Nat /\ 2 >= 1
    BY <2>1
  <2>3. Inner(f) \in Seq(Characters)
    BY <2>2, SubSeqIs DEF Inner
  <2>4. Unpaired(Inner(f)) \in Seq(Characters)
    BY <2>3, UnpairedIs
  <2> QED BY <1>2, <2>4 DEF Value
<1> QED BY <1>1, <1>2

(* The cells of a record are a raw row.                                    *)
LEMMA CellsAreRaw ==
  ASSUME NEW r \in Seq(Characters)
  PROVE  Cells(r) \in RawRow
<1> DEFINE fs == Fields(r)
           n == Len(fs)
           g == [k \in 1 .. n |-> Value(fs[k])]
<1>1. fs \in Texts
  BY FieldsOfAnyText DEF Texts
<1>2. n \in Nat /\ DOMAIN fs = 1 .. n
  BY <1>1, LenProperties DEF Texts
<1>3. Cells(r) = g
  BY <1>2 DEF Cells
<1> HIDE DEF fs, n
<1>4. \A k \in 1 .. n : Value(fs[k]) \in Seq(Characters)
  BY <1>1, <1>2, ElementOfSeq, ValueIs DEF Texts
<1>5. g \in [1 .. n -> Seq(Characters)]
  BY <1>4
<1> HIDE DEF g
<1> QED BY <1>2, <1>3, <1>5, FunctionIsSeq DEF RawRow

(* The cells of all records are raw rows.                                  *)
LEMMA TableIsRaw ==
  ASSUME NEW rs \in Texts
  PROVE  Table(rs) \in Raws
<1> DEFINE n == Len(rs)
           g == [k \in 1 .. n |-> Cells(rs[k])]
<1>1. n \in Nat /\ DOMAIN rs = 1 .. n
  BY LenProperties DEF Texts
<1>2. Table(rs) = g
  BY <1>1 DEF Table
<1> HIDE DEF n
<1>3. \A k \in 1 .. n : Cells(rs[k]) \in RawRow
  BY <1>1, ElementOfSeq, CellsAreRaw DEF Texts
<1>4. g \in [1 .. n -> RawRow]
  BY <1>3
<1> HIDE DEF g
<1>5. g \in Seq(RawRow)
  BY <1>1, <1>4, FunctionIsSeq
<1> QED BY <1>2, <1>5 DEF Raws, RawRow

(* The table of records put together.                                      *)
LEMMA TableOfMore ==
  ASSUME NEW a \in Texts
  PROVE  \A rs \in Texts : Table(a \o rs) = Table(a) \o Table(rs)
<1> DEFINE Q == {rs \in Texts : Table(a \o rs) = Table(a) \o Table(rs)}
<1>0. Table(a) \in Raws
  BY TableIsRaw
<1>1. <<>> \in Q
  <2>1. <<>> \in Texts /\ a \o <<>> = a
    BY ConcatIsText DEF Texts
  <2>2. Table(<<>>) = <<>>
    BY DEF Table
  <2>3. Table(a) \o <<>> = Table(a)
    BY <1>0, ConcatIsText DEF Raws
  <2> QED BY <2>1, <2>2, <2>3
<1>2. \A rs \in Texts : rs \in Q => \A r \in Seq(Characters) : Append(rs, r) \in Q
  <2> SUFFICES ASSUME NEW rs \in Texts, rs \in Q, NEW r \in Seq(Characters)
               PROVE  Append(rs, r) \in Q
    OBVIOUS
  <2> DEFINE u == Append(rs, r)
             x == a \o rs
             c == Cells(r)
             ta == Table(a)
             tr == Table(rs)
  <2>1. u \in Texts /\ x \in Texts /\ c \in RawRow /\ ta \in Raws /\ tr \in Raws
    BY AppendIsNot, ConcatIsText, CellsAreRaw, TableIsRaw DEF Texts
  <2>2. a \o u = Append(x, r)
    BY ConcatAppend DEF Texts
  <2>3. Table(u) = Append(tr, c)
    BY TableOfAppend DEF Texts
  <2>4. Table(x) = ta \o tr
    OBVIOUS
  <2> HIDE DEF x, c, ta, tr, u
  <2>5. Table(Append(x, r)) = Append(Table(x), c)
    BY <2>1, TableOfAppend DEF Texts, c
  <2>6. ta \o Append(tr, c) = Append(ta \o tr, c)
    BY <2>1, OutGrows DEF RawRow
  <2>7. Table(a \o u) = ta \o Table(u)
    BY <2>2, <2>3, <2>4, <2>5, <2>6
  <2> QED BY <2>1, <2>7 DEF ta, u
<1> HIDE DEF Q
<1>3. \A rs \in Seq(Seq(Characters)) : rs \in Q
  BY <1>1, <1>2, SeqInduction DEF Texts
<1> QED BY <1>3 DEF Q, Texts

(* The records of u go on from those that t has ended.                     *)
Grown(t, u) ==
  \E rs \in Texts : CompleteRecords(u) = CompleteRecords(t) \o rs

(* A text that goes on keeps its finished records.                         *)
LEMMA RecordsGrow ==
  ASSUME NEW t \in Seq(Characters)
  PROVE  \A x \in Seq(Characters) : Grown(t, t \o x)
<1> DEFINE Q == {x \in Seq(Characters) : Grown(t, t \o x)}
           h == CompleteRecords(t)
<1>0. h \in Texts /\ <<>> \in Texts /\ h \o <<>> = h
  <2>1. h \in Texts
    BY TextHas DEF Texts
  <2> QED BY <2>1, ConcatIsText DEF Texts
<1>1. <<>> \in Q
  <2>1. <<>> \in Seq(Characters) /\ t \o <<>> = t
    BY ConcatIsText
  <2>2. Grown(t, t)
    BY <1>0 DEF Grown
  <2> QED BY <2>1, <2>2
<1> HIDE DEF h
<1>2. \A x \in Seq(Characters) : x \in Q => \A c \in Characters : Append(x, c) \in Q
  <2> SUFFICES ASSUME NEW x \in Seq(Characters), x \in Q, NEW c \in Characters
               PROVE  Append(x, c) \in Q
    OBVIOUS
  <2> DEFINE u == t \o x
  <2>1. u \in Seq(Characters) /\ Append(x, c) \in Seq(Characters)
    BY ConcatIsText, AppendIsNot
  <2>2. t \o Append(x, c) = Append(u, c)
    BY ConcatAppend
  <2>3. Grown(t, u)
    OBVIOUS
  <2> HIDE DEF u
  <2>4. PICK rs \in Texts : CompleteRecords(u) = h \o rs
    BY <2>3 DEF Grown, h
  <2> DEFINE last == Front(Rest(u))
             cu == CompleteRecords(u)
             cv == CompleteRecords(Append(u, c))
  <2>5. \/ cv = cu
        \/ cv = Append(cu, last) /\ last \in Seq(Characters)
    <3>1. CASE Closes(u, c)
      <4>1. Closes(OpenField(u), c)
        BY <2>1, <3>1, TextHas
      <4> QED BY <2>1, <4>1, RowEndStep
    <3>2. CASE ~Closes(u, c)
      BY <2>1, <3>2, TextStep
    <3> QED BY <3>1, <3>2
  <2>6. cu = h \o rs
    BY <2>4
  <2> HIDE DEF last, cu, cv
  <2>7. \E more \in Texts : cv = h \o more
    <3>1. CASE cv = cu
      BY <2>6, <3>1
    <3>2. CASE cv = Append(cu, last) /\ last \in Seq(Characters)
      <4>1. Append(rs, last) \in Texts
        BY <3>2, AppendIsNot DEF Texts
      <4>2. h \o Append(rs, last) = Append(h \o rs, last)
        BY <1>0, <3>2, ConcatAppend, SMTT(30) DEF Texts
      <4> DEFINE m == Append(rs, last)
      <4> HIDE DEF m
      <4>3. m \in Texts /\ cv = h \o m
        BY <2>6, <3>2, <4>1, <4>2 DEF m
      <4> QED BY <4>3
    <3> QED BY <2>5, <3>1, <3>2
  <2>8. Grown(t, Append(u, c))
    BY <2>7 DEF Grown, h, cv
  <2> QED BY <2>1, <2>2, <2>8
<1> HIDE DEF Q
<1>3. \A x \in Seq(Characters) : x \in Q
  BY <1>1, <1>2, SeqInduction
<1> QED BY <1>3 DEF Q

(* So does its table.                                                      *)
LEMMA TableGrows ==
  ASSUME NEW t \in Seq(Characters), NEW u \in Seq(Characters), Grown(t, u)
  PROVE  \E more \in Raws : Table(Records(u)) = Table(CompleteRecords(t)) \o more
<1> DEFINE h == CompleteRecords(t)
           cu == CompleteRecords(u)
           r == Rest(u)
<1>1. h \in Texts /\ cu \in Texts /\ r \in Seq(Characters)
  BY TextHas DEF Texts
<1>2. PICK rs \in Texts : cu = h \o rs
  BY DEF Grown
<1>3. (r = <<>> => Records(u) = cu) /\ (r # <<>> => Records(u) = Append(cu, r))
  BY RecordsAre
<1> HIDE DEF h, cu, r
<1>4. \E more \in Texts : Records(u) = h \o more
  <2>1. CASE r = <<>>
    BY <1>2, <1>3, <2>1
  <2>2. CASE r # <<>>
    <3> DEFINE m == Append(rs, r)
    <3>1. m \in Texts
      BY <1>1, AppendIsNot DEF Texts
    <3>2. h \o m = Append(h \o rs, r)
      BY <1>1, ConcatAppend, SMTT(30) DEF Texts
    <3> HIDE DEF m
    <3> QED BY <1>2, <1>3, <2>2, <3>1, <3>2
  <2> QED BY <2>1, <2>2
<1>5. PICK more \in Texts : Records(u) = h \o more
  BY <1>4
<1>6. Table(Records(u)) = Table(h) \o Table(more)
  BY <1>1, <1>5, TableOfMore
<1>7. Table(more) \in Raws
  BY TableIsRaw
<1> QED BY <1>6, <1>7 DEF h

(* What the whole input is, once a part of it has been seen.               *)
LEMMA WholeText ==
  ASSUME NEW g \in Seq(Byte), NEW z \in Seq(Byte), IsText(g \o z)
  PROVE  /\ TextOf(g \o z) \in Seq(Characters)
         /\ \E x \in Seq(Characters) : TextOf(g \o z) = Seen(g) \o x
         /\ ~IsStrictPrefix(g, Bom) => ~AllDecoded(g).bad
<1> DEFINE y == g \o z
           t == TextOf(y)
<1>1. y \in Seq(Byte)
  BY ConcatIsText
<1>2. t \in Seq(Characters)
  BY <1>1, SeenIs
<1>3. CASE IsStrictPrefix(g, Bom)
  <2>1. Seen(g) = <<>>
    BY <1>3 DEF Seen
  <2> HIDE DEF t
  <2>2. <<>> \o t = t
    BY <1>2, ConcatIsText
  <2> QED BY <1>2, <1>3, <2>1, <2>2 DEF t
<1>4. CASE ~IsStrictPrefix(g, Bom)
  <2> DEFINE w == WithoutBom(g)
             d == DecodeBytes(<<>>, w)
             e == DecodeBytes(d.pending, z)
             a == DecodeBytes(<<>>, w \o z)
  <2>1. WithoutBom(y) = w \o z
    BY <1>4, BomMore
  <2>2. w \in Seq(Byte) /\ <<>> \in Seq(Byte)
    BY WithoutBomIs
  <2>3. d \in Decoded
    BY <2>2, DecodeBytesAre
  <2>4. d.pending \in Seq(Byte)
    BY <2>3 DEF Decoded
  <2>5. e \in Decoded
    BY <2>4, DecodeBytesAre
  <2>6. ~a.bad /\ t = a.chars
    <3> HIDE DEF y
    <3> QED BY <2>1 DEF IsText, TextOf, y
  <2>7. (d.bad => a.bad) /\ (~d.bad => Joined(d.chars, a, e))
    <3> HIDE DEF w
    <3> QED BY <2>2, DecodeMore
  <2>8. Seen(g) = d.chars /\ AllDecoded(g) = d
    BY <1>4 DEF Seen, TextOf, AllDecoded
  <2> HIDE DEF d, e, a, t, w
  <2>9. ~d.bad /\ a.chars = d.chars \o e.chars /\ e.chars \in Seq(Characters)
    BY <2>5, <2>6, <2>7 DEF Joined, Decoded
  <2> QED BY <1>2, <2>6, <2>8, <2>9 DEF t
<1> QED BY <1>3, <1>4

(* The rows of the part that has been seen begin those of the document.    *)
LEMMA TableSoFar ==
  ASSUME NEW g \in Seq(Byte), NEW z \in Seq(Byte), IsText(g \o z)
  PROVE  \E more \in Raws :
           Table(Records(TextOf(g \o z))) = Table(CompleteRecords(Seen(g))) \o more
<1> DEFINE t == Seen(g)
           u == TextOf(g \o z)
<1>1. t \in Seq(Characters) /\ u \in Seq(Characters) /\ \E x \in Seq(Characters) : u = t \o x
  BY SeenIs, WholeText
<1> HIDE DEF t, u
<1>2. Grown(t, u)
  BY <1>1, RecordsGrow
<1>3. \E more \in Raws : Table(Records(u)) = Table(CompleteRecords(t)) \o more
  BY <1>1, <1>2, TableGrows
<1> QED BY <1>3 DEF t, u

(* Bytes that are lost begin no document.                                  *)
LEMMA LostForGood ==
  ASSUME NEW g \in Seq(Byte), NEW z \in Seq(Byte), LostBytes(g), IsText(g \o z)
  PROVE  ~AllGoodRecords(Records(TextOf(g \o z)))
<1> DEFINE t == Seen(g)
           u == TextOf(g \o z)
<1>1. /\ t \in Seq(Characters) /\ u \in Seq(Characters) /\ \E x \in Seq(Characters) : u = t \o x
      /\ ~IsStrictPrefix(g, Bom) => ~AllDecoded(g).bad
  BY SeenIs, WholeText
<1>2. Lost(t)
  BY <1>1 DEF LostBytes, Seen
<1> HIDE DEF t, u
<1>3. Lost(u)
  BY <1>1, <1>2, LostMore
<1>4. ~AllGoodRecords(Records(u))
  BY <1>1, <1>3, LostIsNoDocument
<1> QED BY <1>4 DEF u

(***************************************************************************)
(* Texts put together.                                                     *)
(***************************************************************************)
Tower(g, s, n) ==
  g = [i \in 1 .. n |-> IF i = 1 THEN s[i] ELSE g[i - 1] \o s[i]]

(* Such a tower exists for every number of pieces.                         *)
LEMMA Towers ==
  ASSUME NEW s
  PROVE  \A n \in Nat : \E g : Tower(g, s, n)
<1> DEFINE bad == {n \in Nat : ~(\E g : Tower(g, s, n))}
<1> SUFFICES ASSUME bad # {} PROVE FALSE
  OBVIOUS
<1>1. PICK n \in bad : \A k \in bad : n <= k
  <2>1. bad \in SUBSET Nat
    OBVIOUS
  <2> HIDE DEF bad
  <2> QED BY <2>1, LeastElement
<1>2. n # 0
  <2> SUFFICES ASSUME n = 0 PROVE FALSE
    OBVIOUS
  <2> DEFINE g == [i \in 1 .. n |-> s[i]]
  <2>1. 1 .. n = {}
    OBVIOUS
  <2>2. g = [i \in 1 .. n |-> IF i = 1 THEN s[i] ELSE g[i - 1] \o s[i]]
    BY <2>1, Zenon
  <2>3. Tower(g, s, n)
    BY <2>2 DEF Tower
  <2> QED BY <2>3
<1> DEFINE m == n - 1
<1>3. n \in Nat /\ m \in Nat /\ ~(n <= m) /\ n \notin 1 .. m /\ n \in 1 .. n /\ n >= 1
  BY <1>2
<1>4. m \notin bad
  BY <1>1, <1>3
<1>5. PICK g : Tower(g, s, m)
  BY <1>3, <1>4
<1> DEFINE last == IF n = 1 THEN s[n] ELSE g[n - 1] \o s[n]
           h == [i \in 1 .. n |-> IF i = n THEN last ELSE g[i]]
<1>6. ASSUME NEW i \in 1 .. n
      PROVE  h[i] = IF i = 1 THEN s[i] ELSE h[i - 1] \o s[i]
  <2>1. CASE i = n
    <3>1. h[i] = last
      BY <2>1
    <3>2. n # 1 => n - 1 \in 1 .. n /\ n - 1 # n
      BY <1>3
    <3>3. n # 1 => h[n - 1] = g[n - 1]
      BY <3>2
    <3> HIDE DEF h
    <3> QED BY <2>1, <3>1, <3>3
  <2>2. CASE i # n
    <3>1. i \in 1 .. m /\ (i # 1 => i - 1 \in 1 .. n /\ i - 1 # n)
      BY <1>3, <2>2
    <3>2. g[i] = IF i = 1 THEN s[i] ELSE g[i - 1] \o s[i]
      <4> HIDE DEF m
      <4> QED BY <1>5, <3>1 DEF Tower
    <3>3. h[i] = g[i] /\ (i # 1 => h[i - 1] = g[i - 1])
      BY <2>2, <3>1
    <3> HIDE DEF h
    <3> QED BY <3>2, <3>3
  <2> QED BY <2>1, <2>2
<1>7. h = [i \in 1 .. n |-> h[i]]
  OBVIOUS
<1> HIDE DEF h
<1>8. h = [i \in 1 .. n |-> IF i = 1 THEN s[i] ELSE h[i - 1] \o s[i]]
  BY <1>6, <1>7, Zenon
<1>9. Tower(h, s, n)
  BY <1>8 DEF Tower
<1> QED BY <1>1, <1>9

(* FlattenSeq is the top of the tower.                                     *)
LEMMA FlattenIs ==
  ASSUME NEW S, NEW s \in Seq(S), s # <<>>
  PROVE  \E g : Tower(g, s, Len(s)) /\ FlattenSeq(s) = g[Len(s)]
<1> DEFINE n == Len(s)
           IT(g) == g = [i \in 1 .. n |-> IF i = 1 THEN s[i] ELSE g[i - 1] \o s[i]]
<1>1. n \in Nat /\ n # 0
  BY EmptySeq, LenProperties
<1>2. FlattenSeq(s) = (CHOOSE g : IT(g))[n]
  BY <1>1 DEF FlattenSeq
<1>3. \E g : Tower(g, s, n)
  BY <1>1, Towers
<1>4. \A g : IT(g) <=> Tower(g, s, n)
  BY DEF Tower
<1> HIDE DEF IT, n
<1>5. IT(CHOOSE g : IT(g))
  BY <1>3, <1>4, Zenon
<1> QED BY <1>2, <1>4, <1>5 DEF n

(* A tower goes up one piece at a time.                                    *)
LEMMA TowerSteps ==
  ASSUME NEW g, NEW s, NEW n \in Nat, Tower(g, s, n)
  PROVE  \A i \in 1 .. n : g[i] = IF i = 1 THEN s[i] ELSE g[i - 1] \o s[i]
  BY Zenon DEF Tower

(* No pieces.                                                              *)
LEMMA FlattenOfNothing == FlattenSeq(<<>>) = <<>>
<1>1. Len(<<>>) = 0
  OBVIOUS
<1> QED BY <1>1 DEF FlattenSeq

(* One piece.                                                              *)
LEMMA FlattenOfOne ==
  ASSUME NEW S, NEW c \in Seq(S)
  PROVE  FlattenSeq(Append(<<>>, c)) = c
<1> DEFINE u == Append(<<>>, c)
<1>1. <<>> \in Seq(Seq(S)) /\ Len(<<>>) = 0
  OBVIOUS
<1>2. u \in Seq(Seq(S)) /\ u # <<>> /\ Len(u) = Len(<<>>) + 1 /\ u[Len(<<>>) + 1] = c
  BY <1>1, AppendIsNot, AppendHas
<1>3. Len(u) = 1 /\ u[1] = c
  BY <1>1, <1>2
<1> HIDE DEF u
<1>4. PICK g : Tower(g, u, Len(u)) /\ FlattenSeq(u) = g[Len(u)]
  BY <1>2, FlattenIs
<1>5. Len(u) \in Nat /\ 1 \in 1 .. Len(u)
  BY <1>3
<1>6. g[1] = u[1]
  BY <1>4, <1>5, TowerSteps
<1> QED BY <1>3, <1>4, <1>6 DEF u

(* A piece after others.                                                   *)
LEMMA FlattenOfAppend ==
  ASSUME NEW S, NEW s \in Seq(Seq(S)), s # <<>>, NEW c \in Seq(S)
  PROVE  FlattenSeq(Append(s, c)) = FlattenSeq(s) \o c
<1> DEFINE u == Append(s, c)
           n == Len(s)
           N == n + 1
<1>1. u \in Seq(Seq(S)) /\ u # <<>> /\ Len(u) = N
  BY AppendIsNot
<1>2. /\ n \in Nat /\ DOMAIN s = 1 .. n /\ n # 0
      /\ u[N] = c /\ \A k \in DOMAIN s : u[k] = s[k]
  BY AppendHas, EmptySeq, LenProperties
<1> HIDE DEF u
<1>3. PICK g : Tower(g, s, n) /\ FlattenSeq(s) = g[n]
  BY FlattenIs
<1>4. PICK h : Tower(h, u, N) /\ FlattenSeq(u) = h[N]
  <2>1. PICK h : Tower(h, u, Len(u)) /\ FlattenSeq(u) = h[Len(u)]
    BY <1>1, FlattenIs
  <2> QED BY <1>1, <2>1
<1> HIDE DEF n
<1>5. N \in Nat /\ N \in 1 .. N /\ N - 1 = n /\ N # 1
  BY <1>2
<1> HIDE DEF N
<1>6. \A k \in 1 .. n : g[k] = IF k = 1 THEN s[k] ELSE g[k - 1] \o s[k]
  <2>1. n \in Nat
    BY <1>2
  <2>2. Tower(g, s, n)
    BY <1>3
  <2> QED BY <2>1, <2>2, TowerSteps
<1>7. \A k \in 1 .. N : h[k] = IF k = 1 THEN u[k] ELSE h[k - 1] \o u[k]
  BY <1>4, <1>5, TowerSteps
<1> DEFINE bad == {k \in Nat : k \in 1 .. n /\ h[k] # g[k]}
<1>8. bad = {}
  <2> SUFFICES ASSUME bad # {} PROVE FALSE
    OBVIOUS
  <2>1. bad \in SUBSET Nat
    OBVIOUS
  <2>2. PICK k \in bad : \A j \in bad : k <= j
    <3> HIDE DEF bad
    <3> QED BY <2>1, LeastElement
  <2>3. k \in Nat /\ k \in 1 .. n /\ h[k] # g[k]
    OBVIOUS
  <2>4. k \in 1 .. N /\ ~(k <= k - 1) /\ (k # 1 => k - 1 \in Nat /\ k - 1 \in 1 .. n)
    BY <1>2, <1>5, <2>3
  <2>5. k - 1 \notin bad
    BY <2>2, <2>4
  <2>6. k # 1 => h[k - 1] = g[k - 1]
    BY <2>4, <2>5
  <2>7. u[k] = s[k]
    BY <1>2, <2>3
  <2>8. h[k] = IF k = 1 THEN u[k] ELSE h[k - 1] \o u[k]
    BY <1>7, <2>4
  <2>9. g[k] = IF k = 1 THEN s[k] ELSE g[k - 1] \o s[k]
    BY <1>6, <2>3
  <2> HIDE DEF bad
  <2> QED BY <2>3, <2>6, <2>7, <2>8, <2>9
<1>9. h[n] = g[n]
  <2>1. n \in Nat /\ n \in 1 .. n
    BY <1>2
  <2> QED BY <1>8, <2>1
<1>10. h[N] = h[n] \o c
  BY <1>2, <1>5, <1>7
<1> QED BY <1>3, <1>4, <1>9, <1>10 DEF u

(* One piece more.                                                         *)
LEMMA FlattenStep ==
  ASSUME NEW S, NEW s \in Seq(Seq(S)), NEW c \in Seq(S)
  PROVE  FlattenSeq(Append(s, c)) = FlattenSeq(s) \o c
<1>1. CASE s = <<>>
  <2>1. FlattenSeq(s) = <<>> /\ FlattenSeq(Append(s, c)) = c
    BY <1>1, FlattenOfNothing, FlattenOfOne
  <2>2. <<>> \o c = c
    BY ConcatIsText
  <2> QED BY <2>1, <2>2
<1>2. CASE s # <<>>
  BY <1>2, FlattenOfAppend
<1> QED BY <1>1, <1>2

(* Pieces that are texts make a text.                                      *)
LEMMA FlattenType ==
  ASSUME NEW S
  PROVE  \A s \in Seq(Seq(S)) : FlattenSeq(s) \in Seq(S)
<1> DEFINE Q == {s \in Seq(Seq(S)) : FlattenSeq(s) \in Seq(S)}
<1>1. <<>> \in Q
  <2>1. <<>> \in Seq(Seq(S)) /\ <<>> \in Seq(S)
    OBVIOUS
  <2> QED BY <2>1, FlattenOfNothing
<1>2. \A s \in Seq(Seq(S)) : s \in Q => \A c \in Seq(S) : Append(s, c) \in Q
  <2> SUFFICES ASSUME NEW s \in Seq(Seq(S)), s \in Q, NEW c \in Seq(S)
               PROVE  Append(s, c) \in Q
    OBVIOUS
  <2>1. Append(s, c) \in Seq(Seq(S))
    BY AppendIsNot
  <2>2. FlattenSeq(s) \in Seq(S)
    OBVIOUS
  <2> DEFINE f == FlattenSeq(s)
  <2> HIDE DEF f
  <2>3. f \in Seq(S) /\ f \o c \in Seq(S)
    BY <2>2, ConcatIsText DEF f
  <2>4. FlattenSeq(Append(s, c)) = f \o c
    BY FlattenStep DEF f
  <2> QED BY <2>1, <2>3, <2>4
<1> HIDE DEF Q
<1>3. \A s \in Seq(Seq(S)) : s \in Q
  BY <1>1, <1>2, SeqInduction
<1> QED BY <1>3 DEF Q

(* What is made piece by piece of a sequence of n things.                  *)
LEMMA FlattenEach ==
  ASSUME NEW S, NEW n \in Nat, NEW f \in [1 .. n -> Seq(S)]
  PROVE  FlattenSeq(f) \in Seq(S)
<1>1. f \in Seq(Seq(S))
  BY FunctionIsSeq
<1> QED BY <1>1, FlattenType

(***************************************************************************)
(* What the exporter writes is bytes.                                      *)
(***************************************************************************)
(* What stands at the places, one by one.                                  *)
LEMMA AtIs ==
  ASSUME NEW S, NEW s \in Seq(S), NEW places, places \subseteq DOMAIN s
  PROVE  /\ At(s, places) \in Seq(S) /\ DOMAIN At(s, places) = 1 .. Cardinality(places)
         /\ Cardinality(places) \in Nat
         /\ \A k \in 1 .. Cardinality(places) :
              Nth(places, k) \in places /\ At(s, places)[k] = s[Nth(places, k)]
<1> DEFINE m == Cardinality(places)
           f == [n \in 1 .. m |-> s[Nth(places, n)]]
<1>1. PlacesTo(places, Len(s)) /\ DOMAIN s = 1 .. Len(s)
  BY LenProperties DEF PlacesTo
<1>2. m \in Nat
  BY <1>1, PlacesAreNumbers
<1>3. \A k \in 1 .. m : Nth(places, k) \in places
  BY <1>1, NthIsThere
<1>4. At(s, places) = f
  BY DEF At
<1> HIDE DEF m
<1>5. \A k \in 1 .. m : s[Nth(places, k)] \in S
  BY <1>1, <1>3, ElementOfSeq
<1>6. f \in [1 .. m -> S]
  BY <1>5
<1>7. f \in Seq(S) /\ DOMAIN f = 1 .. m
  BY <1>2, <1>6, FunctionIsSeq
<1> QED BY <1>2, <1>3, <1>4, <1>7 DEF m

(* The short texts the exporter writes.                                    *)
LEMMA TextsAre ==
  /\ Apostrophe \in Characters
  /\ <<Apostrophe>> \in Seq(Characters) /\ <<Quote>> \in Seq(Characters)
  /\ <<Comma>> \in Seq(Characters) /\ <<CR, LF>> \in Seq(Characters)
  /\ <<Quote, Quote>> \in Seq(Characters) /\ <<>> \in Seq(Characters)
  /\ \A c \in Characters : <<c>> \in Seq(Characters) /\ Encoding[c] \in Seq(Byte)
<1>1. /\ Apostrophe \in Characters /\ Quote \in Characters /\ Comma \in Characters
      /\ CR \in Characters /\ LF \in Characters
      /\ \A c \in Characters : Encoding[c] \in Seq(Byte)
  BY CodecAssumption
<1>2. \A c \in Characters : <<c>> \in Seq(Characters)
  OBVIOUS
<1>3. \A c, d \in Characters : <<c, d>> \in Seq(Characters)
  OBVIOUS
<1>4. <<>> \in Seq(Characters)
  OBVIOUS
<1> QED BY <1>1, <1>2, <1>3, <1>4

(* A protected cell is a text.                                             *)
LEMMA ProtectedIs ==
  ASSUME NEW v \in Seq(Characters)
  PROVE  FormulaProtected(v) \in Seq(Characters)
<1>1. <<Apostrophe>> \o v \in Seq(Characters)
  BY TextsAre, ConcatIsText
<1> QED BY <1>1 DEF FormulaProtected

(* A quoted cell is a text.                                                *)
LEMMA QuoteCellIs ==
  ASSUME NEW v \in Seq(Characters)
  PROVE  QuoteCell(v) \in Seq(Characters)
<1> DEFINE p == FormulaProtected(v)
           n == Len(p)
           f == [i \in 1 .. n |-> IF p[i] = Quote THEN <<Quote, Quote>> ELSE <<p[i]>>]
           w == FlattenSeq(f)
<1>1. p \in Seq(Characters)
  BY ProtectedIs
<1> HIDE DEF p
<1>2. n \in Nat /\ DOMAIN p = 1 .. n /\ \A i \in 1 .. n : p[i] \in Characters
  BY <1>1, LenProperties, ElementOfSeq
<1> HIDE DEF n
<1>3. f \in [1 .. n -> Seq(Characters)]
  BY <1>2, TextsAre
<1>4. w \in Seq(Characters)
  <2> HIDE DEF f
  <2> QED BY <1>2, <1>3, FlattenEach
<1>5. QuoteCell(v) = <<Quote>> \o w \o <<Quote>>
  BY <1>2 DEF QuoteCell, p
<1> HIDE DEF w
<1>6. <<Quote>> \o w \in Seq(Characters)
  BY <1>4, TextsAre, ConcatIsText
<1> DEFINE x == <<Quote>> \o w
<1>7. x \in Seq(Characters) /\ QuoteCell(v) = x \o <<Quote>>
  BY <1>5, <1>6
<1> HIDE DEF x
<1> QED BY <1>7, TextsAre, ConcatIsText

(* A line is a text.                                                       *)
LEMMA LineIs ==
  ASSUME NEW cells \in RawRow
  PROVE  Line(cells) \in Seq(Characters)
<1> DEFINE n == Len(cells)
           q(i) == QuoteCell(cells[i])
           f == [i \in 1 .. n |-> IF i = 1 THEN q(i) ELSE <<Comma>> \o q(i)]
           w == FlattenSeq(f)
<1>1. n \in Nat /\ DOMAIN cells = 1 .. n
  BY LenProperties DEF RawRow
<1>2. \A i \in 1 .. n : cells[i] \in Seq(Characters)
  BY ElementOfSeq DEF RawRow
<1>3. ASSUME NEW i \in 1 .. n PROVE q(i) \in Seq(Characters) /\ <<Comma>> \o q(i) \in Seq(Characters)
  <2>1. q(i) \in Seq(Characters)
    BY <1>2, QuoteCellIs
  <2> HIDE DEF q
  <2> QED BY <2>1, TextsAre, ConcatIsText
<1>4. Line(cells) = w \o <<CR, LF>>
  BY <1>1 DEF Line
<1> HIDE DEF n, q
<1>5. f \in [1 .. n -> Seq(Characters)]
  BY <1>3
<1>6. w \in Seq(Characters)
  <2> HIDE DEF f
  <2> QED BY <1>1, <1>5, FlattenEach
<1> HIDE DEF w
<1> QED BY <1>4, <1>6, TextsAre, ConcatIsText

(* A text has bytes.                                                       *)
LEMMA BytesOfIs ==
  ASSUME NEW text \in Seq(Characters)
  PROVE  BytesOf(text) \in Seq(Byte)
<1> DEFINE n == Len(text)
           f == [i \in 1 .. n |-> Encoding[text[i]]]
<1>1. n \in Nat /\ DOMAIN text = 1 .. n
  BY LenProperties
<1>2. \A i \in 1 .. n : text[i] \in Characters
  BY ElementOfSeq
<1>3. BytesOf(text) = FlattenSeq(f)
  BY <1>1 DEF BytesOf
<1> HIDE DEF n
<1>4. f \in [1 .. n -> Seq(Byte)]
  BY <1>2, TextsAre
<1> HIDE DEF f
<1> QED BY <1>1, <1>3, <1>4, FlattenEach

(* Headers are texts.                                                      *)
LEMMA HeadersAre ==
  ASSUME NEW given
  PROVE  HeadersOf(given) \in RawRow
<1> DEFINE places == {i \in DOMAIN ExtraNames : ExtraNames[i] \in UNION {DOMAIN row \ ColumnSet : row \in ToSet(given)}}
<1>1. Columns \in RawRow /\ ExtraNames \in RawRow
  BY CodecAssumption DEF RawRow
<1>2. places \subseteq DOMAIN ExtraNames
  OBVIOUS
<1>3. HeadersOf(given) = Columns \o At(ExtraNames, places)
  BY DEF HeadersOf
<1> HIDE DEF places
<1>4. At(ExtraNames, places) \in RawRow
  BY <1>1, <1>2, AtIs DEF RawRow
<1> DEFINE a == At(ExtraNames, places)
<1> HIDE DEF a
<1>5. a \in RawRow /\ HeadersOf(given) = Columns \o a
  BY <1>3, <1>4 DEF a
<1> QED BY <1>1, <1>5, ConcatIsText DEF RawRow

(* Sorted given are given.                                                   *)
LEMMA SortedAre ==
  ASSUME NEW given
  PROVE  StableRowSort(given) \in Seq(ToSet(given))
<1> DEFINE ids == {Identity(row) : row \in ToSet(given)}
           places == {i \in DOMAIN Identities : Identities[i] \in ids}
           m == Cardinality(places)
           a == At(Identities, places)
           f == [k \in 1 .. m |-> RowOf(a[k], given)]
<1>1. places \subseteq DOMAIN Identities
  OBVIOUS
<1>2. Identities \in Seq(Seq(Characters))
  BY CodecAssumption
<1>3. \A i \in places : Identities[i] \in ids
  OBVIOUS
<1> HIDE DEF places, a
<1>4. /\ DOMAIN a = 1 .. m /\ m \in Nat
      /\ \A k \in 1 .. m : Nth(places, k) \in places /\ a[k] = Identities[Nth(places, k)]
  BY <1>1, <1>2, AtIs DEF a
<1>5. StableRowSort(given) = f
  BY <1>4 DEF StableRowSort, a, places
<1>6. ASSUME NEW k \in 1 .. m PROVE RowOf(a[k], given) \in ToSet(given)
  <2>1. a[k] \in ids
    BY <1>3, <1>4
  <2> QED BY <2>1 DEF RowOf
<1> HIDE DEF m
<1>7. f \in [1 .. m -> ToSet(given)]
  BY <1>6
<1> HIDE DEF f
<1> QED BY <1>4, <1>5, <1>7, FunctionIsSeq

(* What is exported is bytes.                                              *)
LEMMA ExportIs ==
  ASSUME NEW e \in Exports
  PROVE  ExportCanonicalCsv(e.rows, e.bom) \in Seq(Byte)
<1> DEFINE given == e.rows
           names == HeadersOf(given)
           n == Len(names)
           sorted == StableRowSort(given)
           m == Len(sorted)
           line(row) == Line([i \in DOMAIN names |-> CellOf(row, names[i])])
           f == [k \in 1 .. m |-> line(sorted[k])]
           body == FlattenSeq(f)
           head == Line(names)
           text == head \o body
           prefix == IF e.bom THEN Bom ELSE <<>>
<1>1. names \in RawRow
  BY HeadersAre
<1>2. n \in Nat /\ DOMAIN names = 1 .. n
  BY <1>1, LenProperties DEF RawRow
<1>3. sorted \in Seq(ToSet(given))
  BY SortedAre
<1>4. m \in Nat /\ DOMAIN sorted = 1 .. m /\ \A k \in 1 .. m : sorted[k] \in ToSet(given)
  BY <1>3, LenProperties, ElementOfSeq
<1>5. \A row \in ToSet(given) : IsRow(row)
  BY CodecAssumption
<1>6. head \in Seq(Characters)
  BY <1>1, LineIs
<1> HIDE DEF names, sorted, head
<1>7. ASSUME NEW row \in ToSet(given) PROVE line(row) \in Seq(Characters)
  <2> DEFINE cells == [i \in 1 .. n |-> CellOf(row, names[i])]
  <2>1. \A name : CellOf(row, name) \in Seq(Characters)
    BY <1>5, <1>7, TextsAre DEF CellOf, IsRow
  <2> HIDE DEF n
  <2>2. cells \in [1 .. n -> Seq(Characters)]
    BY <2>1
  <2>3. line(row) = Line(cells)
    BY <1>2
  <2> HIDE DEF cells
  <2>4. cells \in RawRow
    BY <1>2, <2>2, FunctionIsSeq DEF RawRow
  <2> QED BY <2>3, <2>4, LineIs
<1>8. ExportCanonicalCsv(e.rows, e.bom) = prefix \o BytesOf(text)
  BY <1>4 DEF ExportCanonicalCsv, names, sorted, head
<1> HIDE DEF m, line
<1>9. f \in [1 .. m -> Seq(Characters)]
  BY <1>4, <1>7
<1>10. body \in Seq(Characters)
  <2> HIDE DEF f
  <2> QED BY <1>4, <1>9, FlattenEach
<1> HIDE DEF body
<1>11. text \in Seq(Characters)
  BY <1>6, <1>10, ConcatIsText
<1> HIDE DEF text
<1> DEFINE b == BytesOf(text)
<1>12. b \in Seq(Byte)
  BY <1>11, BytesOfIs
<1>13. prefix \in Seq(Byte)
  BY BomIs
<1> HIDE DEF b, prefix
<1> QED BY <1>8, <1>12, <1>13, ConcatIsText DEF b

(* Every document is bytes.                                                *)
LEMMA DocIs ==
  ASSUME Init
  PROVE  doc.bytes \in Seq(Byte)
<1>1. CASE doc \in {ForeignDoc(b) : b \in Foreign}
  BY <1>1, CodecAssumption DEF ForeignDoc
<1>2. CASE doc \in {ExportedDoc(e) : e \in {x \in Exports : Exportable(x.rows)}}
  <2>1. PICK e \in Exports : doc = ExportedDoc(e)
    BY <1>2
  <2>2. doc.bytes = ExportCanonicalCsv(e.rows, e.bom)
    BY <2>1 DEF ExportedDoc
  <2> QED BY <2>2, ExportIs
<1> QED BY <1>1, <1>2 DEF Init

(***************************************************************************)
(* The invariant of the readers.                                           *)
(***************************************************************************)
GivenBytes == SubSeq(doc.bytes, 1, fed)
TableRead == Table(CompleteRecords(Seen(GivenBytes)))

Reading ==
  /\ Parsed(parser, GivenBytes, TableRead) /\ parser.out = <<>>
  /\ reader = "stream" =>
       raws = <<>> /\ Taken(TableRead) = [headers |-> headers, rows |-> rows, error |-> "none"]
  /\ reader = "whole" => raws = TableRead /\ headers = <<>> /\ rows = <<>>

ReaderInvariant ==
  /\ doc.bytes \in Seq(Byte) /\ fed \in 0 .. Len(doc.bytes)
  /\ reader \in {"stream", "whole"}
  /\ verdict = "reading" => Reading
  /\ ReadsTheGrammar

(* The parser's output is handed over.                                     *)
LEMMA OutTaken ==
  ASSUME NEW before \in Raws, NEW g \in Seq(Byte), NEW p, Parsed(p, g, before)
  PROVE  LET q == [p EXCEPT !.out = <<>>]
             table == Table(CompleteRecords(Seen(g)))
         IN /\ before \o p.out = table /\ table \in Raws /\ p.out \in Raws
            /\ Parsed(q, g, table) /\ q.out = <<>>
<1> DEFINE q == [p EXCEPT !.out = <<>>]
           t == Seen(g)
           table == Table(CompleteRecords(t))
<1>1. t \in Seq(Characters) /\ Reads(p, t, before)
  BY SeenIs DEF Parsed
<1>2. p \in ParserState /\ p.error = "none" /\ p.out \in Raws /\ before \o p.out = table
  BY <1>1 DEF Reads, ParserState, Raws
<1>3. table \in Raws /\ table \o <<>> = table
  <2>1. CompleteRecords(t) \in Texts
    BY <1>1, TextHas DEF Texts
  <2>2. table \in Raws
    BY <2>1, TableIsRaw
  <2> HIDE DEF table
  <2> QED BY <2>2, ConcatIsText DEF Raws
<1>4. /\ q \in ParserState /\ q.error = "none" /\ q.out = <<>>
      /\ q.preamble = p.preamble /\ q.resolved = p.resolved /\ q.pending = p.pending
      /\ q.sawText = p.sawText /\ q.cells = p.cells /\ q.cell = p.cell
      /\ q.quoted = p.quoted /\ q.quotePending = p.quotePending /\ q.afterQuote = p.afterQuote
      /\ q.pendingCr = p.pendingCr /\ q.rowActive = p.rowActive
  <2>1. <<>> \in Seq(Seq(Seq(Characters)))
    OBVIOUS
  <2> QED BY <1>2, <2>1 DEF ParserState
<1> HIDE DEF q
<1>5. Mode(p, OpenField(t)) => Mode(q, OpenField(t))
  <2> DEFINE f == OpenField(t)
  <2> HIDE DEF f
  <2>1. InPlain(p, f) => InPlain(q, f)
    BY <1>4 DEF InPlain
  <2>2. InQuoted(p, f) => InQuoted(q, f)
    BY <1>4 DEF InQuoted
  <2>3. AtQuote(p, f) => AtQuote(q, f)
    BY <1>4 DEF AtQuote
  <2>4. AfterQuote(p, f) => AfterQuote(q, f)
    BY <1>4 DEF AfterQuote
  <2> QED BY <2>1, <2>2, <2>3, <2>4 DEF Mode, f
<1>6. Reads(q, t, table)
  <2>1. table \o q.out = table
    BY <1>3, <1>4
  <2> HIDE DEF t
  <2>2. /\ Sofar(t) /\ p.cells = Values(DoneFields(t)) /\ (p.rowActive => Rest(t) # <<>>)
        /\ ByteCount(p.cell) <= MaxCellBytes /\ Mode(q, OpenField(t))
    BY <1>1, <1>5 DEF Reads
  <2> QED BY <1>4, <2>1, <2>2 DEF Reads
<1>7. Parsed(q, g, table)
  BY <1>4, <1>6 DEF Parsed
<1> HIDE DEF t, table
<1> QED BY <1>2, <1>3, <1>4, <1>7 DEF q, t, table

(* Cutting the document at n and m.                                        *)
LEMMA CutInTwo ==
  ASSUME NEW b \in Seq(Byte), NEW n \in Nat, NEW m \in Nat, n <= m, m <= Len(b)
  PROVE  /\ SubSeq(b, 1, n) \in Seq(Byte) /\ SubSeq(b, n + 1, m) \in Seq(Byte)
         /\ SubSeq(b, 1, m) = SubSeq(b, 1, n) \o SubSeq(b, n + 1, m)
<1> DEFINE x == SubSeq(b, 1, n)
           y == SubSeq(b, n + 1, m)
           z == SubSeq(b, 1, m)
           w == x \o y
<1>1. Len(b) \in Nat
  BY LenProperties
<1>2. n \in 0 .. Len(b) /\ m \in 0 .. Len(b)
  BY <1>1
<1>3. /\ x \in Seq(Byte) /\ Len(x) = n /\ \A i \in 1 .. n : x[i] = b[i]
      /\ z \in Seq(Byte) /\ Len(z) = m /\ \A i \in 1 .. m : z[i] = b[i]
  BY <1>2, BeginningIs
<1>4. n + 1 \in Nat /\ n + 1 >= 1 /\ m \in Int
  OBVIOUS
<1>5. /\ y \in Seq(Byte) /\ Len(y) = (IF n + 1 <= m THEN m - (n + 1) + 1 ELSE 0)
      /\ \A i \in 1 .. m - (n + 1) + 1 : y[i] = b[(n + 1) + i - 1]
  BY <1>4, SubSeqIs
<1> HIDE DEF x, y, z
<1>6. /\ w \in Seq(Byte) /\ Len(w) = Len(x) + Len(y)
      /\ \A i \in 1 .. Len(x) + Len(y) :
           w[i] = IF i <= Len(x) THEN x[i] ELSE y[i - Len(x)]
  BY <1>3, <1>5, ConcatProperties, ZenonT(60)
<1> HIDE DEF w
<1>7. Len(y) = m - n /\ Len(w) = m
  BY <1>3, <1>5, <1>6
<1>8. ASSUME NEW i \in 1 .. m PROVE w[i] = z[i]
  <2>1. w[i] = IF i <= n THEN x[i] ELSE y[i - n]
    <3>1. Len(x) + Len(y) = m
      BY <1>3, <1>7
    <3> QED BY <1>3, <1>6, <3>1
  <2>2. z[i] = b[i]
    BY <1>3
  <2>3. CASE i <= n
    <3>1. i \in 1 .. n
      BY <2>3
    <3>2. x[i] = b[i]
      BY <1>3, <3>1
    <3> QED BY <2>1, <2>2, <2>3, <3>2
  <2>4. CASE ~(i <= n)
    <3>1. i - n \in 1 .. m - (n + 1) + 1 /\ (n + 1) + (i - n) - 1 = i
      BY <2>4
    <3>2. y[i - n] = b[i]
      BY <1>5, <3>1
    <3> QED BY <2>1, <2>2, <2>4, <3>2
  <2> QED BY <2>3, <2>4
<1>9. w = z
  BY <1>3, <1>6, <1>7, <1>8, SeqEqual
<1> QED BY <1>3, <1>5, <1>9 DEF w, x, y, z

(* What the document is, said with what the parser looks at.               *)
Accepted(b, who) ==
  LET table == Table(Records(TextOf(b))) IN
  /\ IsText(b) /\ AllGoodRecords(Records(TextOf(b))) /\ IsCatalog(table)
  /\ who = "whole" => NoDuplicates(BodyOf(table))

Judged(b, who, v, given) ==
  v # "reading" =>
    /\ v = "accepted" <=> Accepted(b, who)
    /\ v = "accepted" => given = BodyOf(Table(Records(TextOf(b))))

(* This is what ReadsTheGrammar asks of a document.                        *)
LEMMA GrammarSays ==
  ASSUME NEW b \in Seq(Byte), NEW who
  PROVE  Accepted(b, who) <=>
           /\ IsText(b) /\ IsDocument(TextOf(b))
           /\ FitsLimits(Table(Records(TextOf(b)))) /\ IsCatalog(Table(Records(TextOf(b))))
           /\ who = "whole" => NoDuplicates(BodyOf(Table(Records(TextOf(b)))))
<1> DEFINE t == TextOf(b)
<1>1. t \in Seq(Characters)
  BY SeenIs
<1> HIDE DEF t
<1>2. AllGoodRecords(Records(t)) <=> IsDocument(t) /\ FitsLimits(Table(Records(t)))
  BY <1>1, GoodIsTheGrammar
<1> QED BY <1>2 DEF Accepted, t

(* A judged document is read as the grammar says.                          *)
LEMMA JudgedThen ==
  ASSUME doc'.bytes \in Seq(Byte), Judged(doc'.bytes, reader', verdict', rows')
  PROVE  ReadsTheGrammar'
<1>1. Accepted(doc'.bytes, reader') <=>
        /\ IsText(doc'.bytes) /\ IsDocument(TextOf(doc'.bytes))
        /\ FitsLimits(Table(Records(TextOf(doc'.bytes))))
        /\ IsCatalog(Table(Records(TextOf(doc'.bytes))))
        /\ reader' = "whole" => NoDuplicates(BodyOf(Table(Records(TextOf(doc'.bytes)))))
  BY GrammarSays
<1> QED BY <1>1, Zenon DEF ReadsTheGrammar, Judged

(* The readers begin within the invariant.                                 *)
LEMMA ReaderInit == Init => ReaderInvariant
<1> SUFFICES ASSUME Init PROVE ReaderInvariant
  OBVIOUS
<1>1. doc.bytes \in Seq(Byte)
  BY DocIs
<1>2. /\ reader \in {"stream", "whole"} /\ fed = 0 /\ parser = NewParser /\ raws = <<>>
      /\ headers = <<>> /\ rows = <<>> /\ verdict = "reading"
  BY DEF Init
<1>3. GivenBytes = <<>> /\ Len(doc.bytes) \in Nat
  BY <1>1, <1>2, PrefixStep DEF GivenBytes
<1>4. IsStrictPrefix(<<>>, Bom)
  <2> DEFINE e == <<>>
  <2>1. e \in Seq(Byte) /\ Bom \in Seq(Byte) /\ Len(Bom) = 3 /\ Len(e) = 0
    BY BomIs
  <2> HIDE DEF e
  <2>2. PrefixMeans(e, Bom)
    BY <2>1, PrefixIs
  <2>3. \A i \in 1 .. Len(e) : e[i] = Bom[i]
    BY <2>1
  <2>4. Len(e) <= Len(Bom) /\ Len(e) < Len(Bom)
    BY <2>1
  <2> QED BY <2>2, <2>3, <2>4 DEF PrefixMeans, e
<1>5. Seen(GivenBytes) = <<>>
  BY <1>3, <1>4 DEF Seen
<1>6. TableRead = <<>>
  <2>1. CompleteRecords(<<>>) = <<>>
    BY NoText
  <2>2. Table(<<>>) = <<>>
    BY DEF Table
  <2> QED BY <1>5, <2>1, <2>2 DEF TableRead
<1>7. /\ NewParser \in ParserState /\ NewParser.error = "none" /\ NewParser.cells = <<>>
      /\ NewParser.cell = <<>> /\ NewParser.out = <<>> /\ NewParser.quoted = FALSE
      /\ NewParser.quotePending = FALSE /\ NewParser.afterQuote = FALSE
      /\ NewParser.pendingCr = FALSE /\ NewParser.rowActive = FALSE
      /\ NewParser.resolved = FALSE /\ NewParser.preamble = <<>> /\ NewParser.pending = <<>>
  <2>1. /\ <<>> \in Seq(Byte) /\ <<>> \in Seq(Characters) /\ <<>> \in Seq(Seq(Characters))
        /\ <<>> \in Seq(Seq(Seq(Characters))) /\ "none" \in ParserErrors
    BY DEF ParserErrors
  <2> QED BY <2>1 DEF NewParser, ParserState
<1>8. Reads(NewParser, <<>>, <<>>)
  BY <1>7, NewParserReads
<1>9. Parsed(parser, GivenBytes, TableRead)
  BY <1>2, <1>3, <1>4, <1>5, <1>6, <1>7, <1>8 DEF Parsed
<1>10. Taken(TableRead) = Start
  BY <1>6, TakenOfNothing DEF Taken
<1>11. Reading
  BY <1>2, <1>6, <1>7, <1>9, <1>10 DEF Reading, Start
<1>12. fed \in 0 .. Len(doc.bytes)
  BY <1>2, <1>3
<1>13. ReadsTheGrammar
  BY <1>2 DEF ReadsTheGrammar
<1> QED BY <1>1, <1>2, <1>11, <1>12, <1>13 DEF ReaderInvariant

(* A reader that reads, with all its invariant says.                       *)
LEMMA ParserIs ==
  ASSUME ReaderInvariant, verdict = "reading"
  PROVE  /\ GivenBytes \in Seq(Byte) /\ TableRead \in Raws
         /\ Parsed(parser, GivenBytes, TableRead) /\ parser.out = <<>>
         /\ Taken(TableRead).error = "none" \/ reader = "whole"
<1>1. doc.bytes \in Seq(Byte) /\ fed \in 0 .. Len(doc.bytes)
  BY DEF ReaderInvariant
<1>2. Parsed(parser, GivenBytes, TableRead) /\ parser.out = <<>>
  BY DEF ReaderInvariant, Reading
<1>3. GivenBytes \in Seq(Byte)
  BY <1>1, BeginningIs DEF GivenBytes
<1>4. CompleteRecords(Seen(GivenBytes)) \in Texts
  BY <1>3, SeenIs, TextHas DEF Texts
<1>5. TableRead \in Raws
  BY <1>4, TableIsRaw DEF TableRead
<1>6. Taken(TableRead).error = "none" \/ reader = "whole"
  BY DEF ReaderInvariant, Reading
<1> QED BY <1>2, <1>3, <1>5, <1>6

(* Error codes are no other verdicts.                                      *)
LEMMA CodesAre ==
  ASSUME NEW code \in ParserErrors \cup CatalogErrors
  PROVE  code # "reading" /\ code # "accepted" /\ code # "duplicate"
  BY DEF ParserErrors, CatalogErrors

(* Rows of the bytes given so far that are no catalog: the document is none*)
LEMMA NoCatalog ==
  ASSUME NEW g \in Seq(Byte), NEW z \in Seq(Byte), NEW table \in Raws,
         table = Table(CompleteRecords(Seen(g))), table # <<>>, ~IsCatalog(table)
  PROVE  \A who : ~Accepted(g \o z, who)
<1> DEFINE b == g \o z
<1>1. CASE ~IsText(b)
  BY <1>1 DEF Accepted
<1>2. CASE IsText(b)
  <2>1. \E more \in Raws : Table(Records(TextOf(b))) = table \o more
    BY <1>2, TableSoFar
  <2>2. \A more \in Raws : ~IsCatalog(table \o more)
    BY CatalogBegins
  <2> HIDE DEF b
  <2>3. ~IsCatalog(Table(Records(TextOf(b))))
    BY <2>1, <2>2
  <2> QED BY <2>3 DEF Accepted, b
<1> QED BY <1>1, <1>2

(* Bytes that are lost are not accepted.                                   *)
LEMMA NoDocument ==
  ASSUME NEW g \in Seq(Byte), NEW z \in Seq(Byte), LostBytes(g)
  PROVE  \A who : ~Accepted(g \o z, who)
<1>1. IsText(g \o z) => ~AllGoodRecords(Records(TextOf(g \o z)))
  BY LostForGood
<1> QED BY <1>1 DEF Accepted

(* A chunk keeps the invariant.                                            *)
LEMMA FeedKeeps ==
  ASSUME ReaderInvariant, NEW n \in Chunks, Feed(n)
  PROVE  ReaderInvariant'
<1> DEFINE b == doc.bytes
           g == GivenBytes
           chunk == SubSeq(b, fed + 1, fed + n)
           m == fed + n
           h == SubSeq(b, 1, m)
           z == SubSeq(b, m + 1, Len(b))
           p == Write(parser, chunk)
           table == TableRead
           more == Table(CompleteRecords(Seen(h)))
           taken == IF reader = "stream" /\ p.error = "none" THEN p.out ELSE <<>>
           s == ConsumeAll(taken)
<1>1. /\ verdict = "reading" /\ m <= Len(b) /\ fed' = m /\ doc' = doc /\ reader' = reader
      /\ parser' = [p EXCEPT !.out = <<>>] /\ headers' = s.headers /\ rows' = s.rows
      /\ verdict' = Verdict(p, s, "reading")
      /\ raws' = IF reader = "whole" THEN raws \o p.out ELSE raws
  BY DEF Feed, FeedRows, Took
<1>2. /\ b \in Seq(Byte) /\ fed \in Nat /\ n \in Nat /\ m \in Nat /\ fed <= m /\ Len(b) \in Nat
      /\ m \in 0 .. Len(b)
  <2>1. b \in Seq(Byte) /\ fed \in 0 .. Len(b)
    BY DEF ReaderInvariant
  <2>2. n \in Nat
    BY CodecAssumption
  <2>3. Len(b) \in Nat
    BY <2>1, LenProperties
  <2> QED BY <1>1, <2>1, <2>2, <2>3
<1>3. g \in Seq(Byte) /\ chunk \in Seq(Byte) /\ h = g \o chunk /\ h \in Seq(Byte)
  <2>1. m <= Len(b)
    BY <1>1
  <2> HIDE DEF m
  <2>2. /\ SubSeq(b, 1, fed) \in Seq(Byte) /\ SubSeq(b, fed + 1, m) \in Seq(Byte)
        /\ SubSeq(b, 1, m) = SubSeq(b, 1, fed) \o SubSeq(b, fed + 1, m)
    BY <1>2, <2>1, CutInTwo
  <2>3. SubSeq(b, 1, m) \in Seq(Byte)
    BY <1>2, BeginningIs
  <2> QED BY <2>2, <2>3 DEF m, GivenBytes
<1>4. z \in Seq(Byte) /\ b = h \o z
  <2>1. SubSeq(b, 1, Len(b)) = b
    BY <1>2, PrefixStep
  <2> DEFINE L == Len(b)
  <2>2. L \in Nat /\ m <= L /\ L <= L
    BY <1>1, <1>2
  <2>3. SubSeq(b, m + 1, L) \in Seq(Byte) /\ SubSeq(b, 1, L) = SubSeq(b, 1, m) \o SubSeq(b, m + 1, L)
    <3> HIDE DEF L, m
    <3> QED BY <1>2, <2>2, CutInTwo DEF L
  <2> QED BY <2>1, <2>3
<1>5. /\ table \in Raws /\ Parsed(parser, g, table) /\ parser.out = <<>>
  BY <1>1, ParserIs
<1>6. doc'.bytes = b /\ GivenBytes' = h
  BY <1>1 DEF GivenBytes
<1> HIDE DEF chunk, h, z, g, table
<1>7. /\ p \in ParserState
      /\ p.error = "none" => Parsed(p, g \o chunk, table)
      /\ p.error # "none" => LostBytes(g \o chunk)
  BY <1>3, <1>5, WriteStep
<1>8. p.error \in ParserErrors
  BY <1>7 DEF ParserState
<1>9. \/ p.error # "none" /\ verdict' = p.error
      \/ p.error = "none" /\ s.error # "none" /\ verdict' = s.error
      \/ p.error = "none" /\ s.error = "none" /\ verdict' = "reading"
  <2> HIDE DEF p, s
  <2> QED BY <1>1 DEF Verdict
<1>10. doc'.bytes \in Seq(Byte) /\ fed' \in 0 .. Len(doc'.bytes) /\ reader' \in {"stream", "whole"}
  BY <1>1, <1>2 DEF ReaderInvariant
<1> HIDE DEF p, m
<1>11. CASE p.error # "none"
  <2>1. verdict' = p.error
    BY <1>9, <1>11
  <2>2. verdict' # "reading" /\ verdict' # "accepted"
    BY <1>8, <2>1, CodesAre
  <2>3. LostBytes(h)
    BY <1>3, <1>7, <1>11
  <2>4. ~Accepted(b, reader)
    BY <1>3, <1>4, <2>3, NoDocument
  <2>5. ReadsTheGrammar'
    <3>1. Judged(doc'.bytes, reader', verdict', rows')
      BY <1>1, <1>6, <2>2, <2>4 DEF Judged
    <3> QED BY <1>10, <3>1, JudgedThen
  <2> QED BY <1>10, <2>2, <2>5 DEF ReaderInvariant
<1>12. CASE p.error = "none"
  <2>1. Parsed(p, h, table)
    BY <1>3, <1>7, <1>12
  <2>2. /\ table \o p.out = more /\ more \in Raws /\ p.out \in Raws
        /\ Parsed(parser', h, more) /\ parser'.out = <<>>
    BY <1>1, <1>3, <1>5, <2>1, OutTaken
  <2>3. TableRead' = more
    BY <1>6 DEF TableRead
  <2> HIDE DEF more
  <2>4. ReaderInvariant => Reading
    BY <1>1 DEF ReaderInvariant
  <2>5. CASE reader = "stream"
    <3>1. s = FoldLeft(Consume, Taken(table), p.out) /\ raws = <<>> /\ raws' = <<>>
      BY <1>1, <1>12, <2>4, <2>5 DEF ConsumeAll, Reading, table
    <3>2. s = Taken(more)
      BY <1>5, <2>2, <3>1, TakenInParts
    <3>3. TakenIs(more, s)
      BY <2>2, <3>2, TakenTable
    <3> HIDE DEF s
    <3>4. CASE s.error = "none"
      <4>1. verdict' = "reading"
        BY <1>9, <1>12, <3>4
      <4>2. s = [headers |-> s.headers, rows |-> s.rows, error |-> "none"]
        BY <3>3, <3>4 DEF TakenIs, Start
      <4>3. Taken(TableRead') = [headers |-> headers', rows |-> rows', error |-> "none"]
        BY <1>1, <2>3, <3>2, <4>2
      <4>4. Reading'
        BY <1>1, <1>6, <2>2, <2>3, <2>5, <3>1, <4>3 DEF Reading
      <4>5. ReadsTheGrammar'
        BY <4>1 DEF ReadsTheGrammar
      <4> QED BY <1>10, <4>4, <4>5 DEF ReaderInvariant
    <3>5. CASE s.error # "none"
      <4>1. verdict' = s.error
        BY <1>9, <1>12, <3>5
      <4>2. verdict' # "reading" /\ verdict' # "accepted"
        BY <3>3, <4>1, CodesAre DEF TakenIs
      <4>3. more # <<>> /\ ~IsCatalog(more)
        BY <3>3, <3>5 DEF TakenIs, Start
      <4>4. ~Accepted(b, reader)
        BY <1>3, <1>4, <2>2, <4>3, NoCatalog DEF more
      <4>5. ReadsTheGrammar'
        <5>1. Judged(doc'.bytes, reader', verdict', rows')
          BY <1>1, <1>6, <4>2, <4>4 DEF Judged
        <5> QED BY <1>10, <5>1, JudgedThen
      <4> QED BY <1>10, <4>2, <4>5 DEF ReaderInvariant
    <3> QED BY <3>4, <3>5
  <2>6. CASE reader = "whole"
    <3>1. raws = table /\ headers = <<>> /\ rows = <<>>
      BY <2>4, <2>6 DEF Reading, table
    <3>2. taken = <<>>
      BY <2>6
    <3>3. s = [headers |-> headers, rows |-> rows, error |-> "none"]
      BY <3>2, TakenOfNothing DEF ConsumeAll
    <3>4. s.headers = <<>> /\ s.rows = <<>> /\ s.error = "none"
      BY <3>1, <3>3
    <3> HIDE DEF s
    <3>5. verdict' = "reading"
      BY <1>9, <1>12, <3>4
    <3>6. raws' = more
      BY <1>1, <2>2, <2>6, <3>1
    <3>7. Reading'
      BY <1>1, <1>6, <2>2, <2>3, <2>6, <3>4, <3>6 DEF Reading
    <3>8. ReadsTheGrammar'
      BY <3>5 DEF ReadsTheGrammar
    <3> QED BY <1>10, <3>7, <3>8 DEF ReaderInvariant
  <2> QED BY <2>5, <2>6 DEF ReaderInvariant
<1> QED BY <1>11, <1>12

(* So does the end of the input.                                           *)
LEMMA FinishKeeps ==
  ASSUME ReaderInvariant, Finish
  PROVE  ReaderInvariant'
<1> DEFINE b == doc.bytes
           g == GivenBytes
           table == TableRead
           p == FinishParse(parser)
           t == TextOf(b)
           T == Table(Records(t))
           taken == IF p.error = "none" THEN raws \o p.out ELSE <<>>
           s == ConsumeAll(taken)
           ok == EndVerdict(s)
<1>1. /\ verdict = "reading" /\ fed = Len(b) /\ fed' = fed /\ doc' = doc /\ reader' = reader
      /\ rows' = s.rows /\ verdict' = Verdict(p, s, ok)
  BY DEF Finish, LastRows, FinishRows, Took
<1>2. b \in Seq(Byte) /\ fed \in 0 .. Len(b) /\ reader \in {"stream", "whole"} /\ Reading
  BY <1>1 DEF ReaderInvariant
<1>3. g = b
  BY <1>1, <1>2, PrefixStep DEF GivenBytes
<1>4. table \in Raws /\ Parsed(parser, g, table) /\ parser.out = <<>>
  BY <1>1, ParserIs
<1> HIDE DEF g, table, p, s, ok
<1>5. Ended(p, b, table)
  BY <1>2, <1>3, <1>4, FinishStep DEF p
<1>6. /\ p \in ParserState
      /\ p.error = "none" => IsText(b) /\ AllGoodRecords(Records(t)) /\ table \o p.out = T
      /\ p.error # "none" => ~IsText(b) \/ ~AllGoodRecords(Records(t)) \/ Records(t) = <<>>
  BY <1>5 DEF Ended
<1>7. p.error \in ParserErrors /\ p.out \in Raws
  BY <1>6 DEF ParserState, Raws
<1>8. \/ p.error # "none" /\ verdict' = p.error
      \/ p.error = "none" /\ s.error # "none" /\ verdict' = s.error
      \/ p.error = "none" /\ s.error = "none" /\ verdict' = ok
  BY <1>1 DEF Verdict
<1>9. ASSUME verdict' # "reading", Judged(b, reader, verdict', rows')
      PROVE  ReaderInvariant'
  <2>1. doc'.bytes \in Seq(Byte) /\ Judged(doc'.bytes, reader', verdict', rows')
    BY <1>1, <1>2, <1>9
  <2>2. ReadsTheGrammar'
    BY <2>1, JudgedThen
  <2>3. fed' \in 0 .. Len(doc'.bytes) /\ reader' \in {"stream", "whole"}
    BY <1>1, <1>2
  <2> QED BY <1>9, <2>1, <2>2, <2>3 DEF ReaderInvariant
<1> HIDE DEF t
<1>10. CASE p.error # "none"
  <2>1. verdict' = p.error
    BY <1>8, <1>10
  <2>2. verdict' # "reading" /\ verdict' # "accepted"
    BY <1>7, <2>1, CodesAre
  <2>3. Table(<<>>) = <<>>
    BY DEF Table
  <2>4. ~IsCatalog(<<>>)
    BY DEF IsCatalog
  <2>5. ~Accepted(b, reader)
    BY <1>6, <1>10, <2>3, <2>4 DEF Accepted, t
  <2> QED BY <1>9, <2>2, <2>5 DEF Judged
<1>11. CASE p.error = "none"
  <2>1. IsText(b) /\ AllGoodRecords(Records(t)) /\ table \o p.out = T
    BY <1>6, <1>11
  <2>2. T \in Raws
    <3> DEFINE out == p.out
    <3>1. out \in Raws /\ T = table \o out
      BY <1>7, <2>1
    <3> HIDE DEF out, T
    <3> QED BY <1>4, <3>1, ConcatIsText DEF Raws
  <2> HIDE DEF T
  <2>3. s = Taken(T)
    <3>1. CASE reader = "stream"
      <4>1. raws = <<>> /\ Taken(table) = [headers |-> headers, rows |-> rows, error |-> "none"]
        BY <1>2, <3>1 DEF Reading, table
      <4>2. taken = p.out
        <5> DEFINE out == p.out
        <5>1. out \in Raws /\ taken = <<>> \o out
          BY <1>7, <1>11, <4>1
        <5> HIDE DEF out
        <5> QED BY <5>1, ConcatIsText DEF Raws, out
      <4> HIDE DEF taken
      <4>3. s = FoldLeft(Consume, Taken(table), p.out)
        BY <4>1, <4>2 DEF s, ConsumeAll
      <4> QED BY <1>4, <1>7, <2>1, <4>3, TakenInParts
    <3>2. CASE reader = "whole"
      <4>1. raws = table /\ headers = <<>> /\ rows = <<>>
        BY <1>2, <3>2 DEF Reading, table
      <4>2. taken = T
        BY <1>11, <2>1, <4>1
      <4> HIDE DEF taken
      <4> QED BY <4>1, <4>2 DEF s, ConsumeAll, Taken, Start
    <3> QED BY <1>2, <3>1, <3>2
  <2>4. TakenIs(T, s)
    BY <2>2, <2>3, TakenTable
  <2>5. Accepted(b, reader) <=> IsCatalog(T) /\ (reader = "whole" => NoDuplicates(BodyOf(T)))
    BY <2>1 DEF Accepted, T, t
  <2>6. CASE s.error # "none"
    <3>1. verdict' = s.error
      BY <1>8, <1>11, <2>6
    <3>2. verdict' # "reading" /\ verdict' # "accepted"
      BY <2>4, <3>1, CodesAre DEF TakenIs
    <3>3. ~IsCatalog(T)
      BY <2>4, <2>6 DEF TakenIs, Start
    <3> QED BY <1>9, <2>5, <3>2, <3>3 DEF Judged
  <2>7. CASE s.error = "none" /\ T = <<>>
    <3>1. s.headers = <<>>
      BY <2>4, <2>7 DEF TakenIs, Start
    <3>2. verdict' = "invalid_csv_header"
      BY <1>8, <1>11, <2>7, <3>1 DEF EndVerdict, ok
    <3>3. ~IsCatalog(T)
      BY <2>7 DEF IsCatalog
    <3> QED BY <1>9, <2>5, <3>2, <3>3 DEF Judged
  <2>8. CASE s.error = "none" /\ T # <<>>
    <3>1. IsCatalog(T)
      BY <2>4, <2>8 DEF TakenIs
    <3>2. s.headers = HeaderOf(T) /\ s.rows = BodyOf(T)
      BY <2>4, <2>8, <3>1 DEF TakenIs
    <3>3. HeaderOf(T) # <<>>
      <4>1. HeaderError(T[1]) = "none"
        BY <3>1 DEF IsCatalog
      <4> QED BY <4>1, HeadersAreNot DEF HeaderOf, Decodeds
    <3>4. verdict' = ok /\ rows' = BodyOf(T)
      BY <1>1, <1>8, <1>11, <2>8, <3>2
    <3>5. ok = IF reader = "whole" /\ ~NoDuplicates(BodyOf(T)) THEN "duplicate" ELSE "accepted"
      BY <3>2, <3>3 DEF EndVerdict, ok
    <3>6. verdict' # "reading" /\ (verdict' = "accepted" <=> Accepted(b, reader))
      BY <2>5, <3>1, <3>4, <3>5
    <3> QED BY <1>9, <3>4, <3>6 DEF Judged, T, t
  <2> QED BY <2>6, <2>7, <2>8
<1> QED BY <1>10, <1>11

(* The readers stay within their invariant, whatever the document, its cut *)
(* into chunks and the limits are (parseCanonicalCsvStream,                *)
(* parseCanonicalCsv).                                                     *)
THEOREM ReaderSafety == Spec => []ReaderInvariant
<1>1. Init => ReaderInvariant
  BY ReaderInit
<1>2. ReaderInvariant /\ [Next]_vars => ReaderInvariant'
  <2> SUFFICES ASSUME ReaderInvariant, [Next]_vars PROVE ReaderInvariant'
    OBVIOUS
  <2>1. ASSUME NEW n \in Chunks, Feed(n) PROVE ReaderInvariant'
    BY <2>1, FeedKeeps
  <2>2. CASE Finish
    BY <2>2, FinishKeeps
  <2>3. CASE UNCHANGED vars
    BY <2>3 DEF vars, ReaderInvariant, Reading, GivenBytes, TableRead, ReadsTheGrammar
  <2> QED BY <2>1, <2>2, <2>3 DEF Next
<1> QED BY <1>1, <1>2, PTL DEF Spec

(* However a document is cut into chunks, it is accepted exactly if the    *)
(* grammar has it and its rows are valid, with the rows of the grammar.    *)
THEOREM ReadsTheGrammarAlways == Spec => []ReadsTheGrammar
<1>1. ReaderInvariant => ReadsTheGrammar
  BY DEF ReaderInvariant
<1> QED BY <1>1, ReaderSafety, PTL

(* While the stream reader reads, its sink has the rows of exactly the     *)
(* records that end within the bytes given.                                *)
THEOREM GivesOutWhatIsCompleteAlways == Spec => []GivesOutWhatIsComplete
<1>1. ReaderInvariant => GivesOutWhatIsComplete
  <2> SUFFICES ASSUME ReaderInvariant, reader = "stream", verdict = "reading"
               PROVE  IF TableRead = <<>> THEN headers = <<>> /\ rows = <<>>
                      ELSE headers = HeaderOf(TableRead) /\ rows = BodyOf(TableRead)
    BY Zenon DEF GivesOutWhatIsComplete, TableRead, Seen, GivenBytes
  <2>1. TableRead \in Raws
    BY ParserIs
  <2>2. Taken(TableRead) = [headers |-> headers, rows |-> rows, error |-> "none"]
    BY DEF ReaderInvariant, Reading
  <2>3. TakenIs(TableRead, Taken(TableRead))
    BY <2>1, TakenTable
  <2> QED BY <2>2, <2>3 DEF TakenIs, Start
<1> QED BY <1>1, ReaderSafety, PTL
=============================================================================
