---------------------------- MODULE CsvExportProofs ----------------------------
(***************************************************************************)
(* RoundTrips of CsvCodec: what exportCanonicalCsv writes is read again as *)
(* what it was given, for any rows, encoding of characters, chunks and     *)
(* limits.                                                                 *)
(*                                                                         *)
(* First the bytes are read as the text they are of (BytesAreRead), and a  *)
(* cell in its quotes by the grammar as one field (QuotedCell, CellRead).  *)
(* A line of such cells is one record (LineRead), and the header and the   *)
(* lines are the table of the rows (ExportReads). Then nothing is wrong    *)
(* with that table but a column without a name, and what it says are the   *)
(* rows, completed (CatalogComesBack), which export to the same document   *)
(* (ExportsAgain). CsvCodecProofs says when a document is accepted; what   *)
(* remains is that one which is not is refused for what is wrong with it   *)
(* (ExportInvariant).                                                      *)
(***************************************************************************)
EXTENDS CsvCodecProofs

(***************************************************************************)
(* What the exporter writes: its bytes are read as the text they are of.   *)
(***************************************************************************)
(* Pieces made one by one, and one more.                                   *)
LEMMA FlattenNext ==
  ASSUME NEW S, NEW n \in Nat, NEW f \in [1 .. n -> Seq(S)],
         NEW g \in [1 .. n + 1 -> Seq(S)], \A i \in 1 .. n : g[i] = f[i]
  PROVE  FlattenSeq(f) \in Seq(S) /\ FlattenSeq(g) = FlattenSeq(f) \o g[n + 1]
<1> DEFINE c == g[n + 1]
           h == Append(f, c)
<1>1. f \in Seq(Seq(S)) /\ Len(f) = n
  BY FunctionIsSeq
<1>2. n + 1 \in Nat /\ n + 1 \in 1 .. n + 1
  OBVIOUS
<1>3. g \in Seq(Seq(S)) /\ Len(g) = n + 1 /\ c \in Seq(S)
  BY <1>2, FunctionIsSeq
<1> HIDE DEF c
<1>4. h \in Seq(Seq(S)) /\ Len(h) = n + 1 /\ h[n + 1] = c /\ \A i \in 1 .. n : h[i] = f[i]
  BY <1>1, <1>3, AppendProperties
<1> HIDE DEF h
<1>5. ASSUME NEW i \in 1 .. n + 1 PROVE g[i] = h[i]
  <2>1. i \in 1 .. n \/ i = n + 1
    OBVIOUS
  <2> QED BY <1>4, <2>1 DEF c
<1>6. g = h
  BY <1>3, <1>4, <1>5, SeqEqual
<1>7. FlattenSeq(h) = FlattenSeq(f) \o c
  BY <1>1, <1>3, FlattenStep DEF h
<1>8. FlattenSeq(f) \in Seq(S)
  BY <1>1, FlattenType
<1> QED BY <1>6, <1>7, <1>8 DEF c

(* The bytes of a text, a character further.                               *)
LEMMA BytesNext ==
  ASSUME NEW t \in Seq(Characters), NEW c \in Characters
  PROVE  BytesOf(t) \in Seq(Byte) /\ BytesOf(Append(t, c)) = BytesOf(t) \o Encoding[c]
<1> DEFINE n == Len(t)
           u == Append(t, c)
           f == [i \in 1 .. n |-> Encoding[t[i]]]
           g == [i \in 1 .. n + 1 |-> Encoding[u[i]]]
<1>1. n \in Nat /\ DOMAIN t = 1 .. n /\ \A i \in 1 .. n : t[i] \in Characters
  BY LenProperties, ElementOfSeq
<1>2. u \in Seq(Characters) /\ Len(u) = n + 1 /\ u[n + 1] = c /\ \A i \in 1 .. n : u[i] = t[i]
  BY AppendProperties
<1> HIDE DEF u
<1>3. DOMAIN u = 1 .. n + 1 /\ \A i \in 1 .. n + 1 : u[i] \in Characters
  BY <1>2, LenProperties, ElementOfSeq
<1>4. BytesOf(t) = FlattenSeq(f) /\ BytesOf(u) = FlattenSeq(g)
  BY <1>1, <1>3 DEF BytesOf
<1> HIDE DEF n
<1>5. f \in [1 .. n -> Seq(Byte)] /\ g \in [1 .. n + 1 -> Seq(Byte)]
  BY <1>1, <1>3, TextsAre
<1>6. (\A i \in 1 .. n : g[i] = f[i]) /\ g[n + 1] = Encoding[c]
  <2>1. n + 1 \in 1 .. n + 1 /\ \A i \in 1 .. n : i \in 1 .. n + 1
    BY <1>1
  <2> QED BY <1>2, <2>1
<1> HIDE DEF f, g
<1>7. FlattenSeq(f) \in Seq(Byte) /\ FlattenSeq(g) = FlattenSeq(f) \o g[n + 1]
  BY <1>1, <1>5, <1>6, FlattenNext
<1> QED BY <1>4, <1>6, <1>7 DEF u

(* No text, no bytes.                                                      *)
LEMMA BytesOfEmpty == BytesOf(<<>>) = <<>>
<1>1. [i \in DOMAIN <<>> |-> Encoding[<<>>[i]]] = <<>>
  OBVIOUS
<1> QED BY <1>1, FlattenOfNothing DEF BytesOf

(* A decoder that has met no byte that fits nothing.                       *)
DecodedTo(pending, chars) == [pending |-> pending, chars |-> chars, bad |-> FALSE]

Holding(d, pending) == [d EXCEPT !.pending = pending]
Completing(d, pending, chars) == [d EXCEPT !.pending = pending, !.chars = chars]

(* A decoder with other bytes held, and with another character read.       *)
LEMMA Replaced ==
  ASSUME NEW d \in Decoded, NEW u \in Seq(Byte), NEW w \in Seq(Characters), d.bad = FALSE
  PROVE  /\ Holding(d, u) = DecodedTo(u, d.chars)
         /\ Completing(d, u, w) = DecodedTo(u, w)
<1> DEFINE r == [d EXCEPT !.pending = u]
           q == [d EXCEPT !.pending = u, !.chars = w]
<1>1. r \in Decoded /\ r.pending = u /\ r.chars = d.chars /\ r.bad = FALSE
  BY DEF Decoded
<1>2. q \in Decoded /\ q.pending = u /\ q.chars = w /\ q.bad = FALSE
  BY DEF Decoded
<1> HIDE DEF r, q
<1>3. r = [pending |-> r.pending, chars |-> r.chars, bad |-> r.bad]
  BY <1>1 DEF Decoded
<1>4. q = [pending |-> q.pending, chars |-> q.chars, bad |-> q.bad]
  BY <1>2 DEF Decoded
<1>5. r = DecodedTo(u, d.chars)
  BY <1>1, <1>3 DEF DecodedTo
<1>6. q = DecodedTo(u, w)
  BY <1>2, <1>4 DEF DecodedTo
<1> QED BY <1>5, <1>6 DEF r, q, Holding, Completing

(* A proper beginning of a character is held.                              *)
LEMMA HalfDecoded ==
  ASSUME NEW c \in Characters, NEW x \in Seq(Byte), NEW b \in Byte,
         IsStrictPrefix(Append(x, b), Encoding[c])
  PROVE  /\ DecodeByte(Begin(x), b) = Begin(Append(x, b))
         /\ IsStrictPrefix(x, Encoding[c])
<1> DEFINE e == Encoding[c]
           u == Append(x, b)
           whole == {d \in Characters : Encoding[d] = u}
<1>1. e \in Seq(Byte)
  BY TextsAre
<1>2. u \in Seq(Byte) /\ Len(u) = Len(x) + 1 /\ Len(x) \in Nat /\ \A i \in 1 .. Len(x) : u[i] = x[i]
  BY AppendProperties, LenProperties
<1>3. PrefixMeans(u, e) /\ PrefixMeans(x, e)
  <2> HIDE DEF u, e
  <2> QED BY <1>1, <1>2, PrefixIs
<1>4. IsStrictPrefix(u, e)
  OBVIOUS
<1> HIDE DEF e, u
<1>5. IsPrefix(u, e) /\ Len(u) < Len(e) /\ Len(e) \in Nat /\ \A i \in 1 .. Len(u) : u[i] = e[i]
  BY <1>3, <1>4 DEF PrefixMeans
<1>6. IsStrictPrefix(x, e)
  <2>1. Len(x) < Len(e) /\ Len(x) <= Len(e)
    BY <1>2, <1>5
  <2>2. ASSUME NEW i \in 1 .. Len(x) PROVE x[i] = e[i]
    <3>1. i \in 1 .. Len(u)
      BY <1>2
    <3> QED BY <1>2, <1>5, <3>1
  <2> QED BY <1>3, <2>1, <2>2 DEF PrefixMeans
<1>7. whole = {}
  <2> SUFFICES ASSUME NEW d \in Characters, Encoding[d] = u PROVE FALSE
    OBVIOUS
  <2>1. IsPrefix(Encoding[d], Encoding[c])
    BY <1>5 DEF e
  <2>2. d = c
    BY <2>1, ExportAssumption
  <2>3. Len(u) = Len(e)
    BY <2>2 DEF e
  <2> QED BY <1>5, <2>3
<1>8. \E d \in Characters : IsStrictPrefix(u, Encoding[d])
  BY <1>4 DEF e
<1> DEFINE d == Begin(x)
<1>9. d.pending = x /\ d.bad = FALSE /\ d.chars = <<>> /\ d \in Decoded
  BY DecodeBytesAre DEF Begin
<1>10. DecodeByte(d, b) = Holding(d, u)
  <2> HIDE DEF d
  <2> QED BY <1>7, <1>8, <1>9 DEF DecodeByte, u, Holding
<1> HIDE DEF d
<1>11. Holding(d, u) = DecodedTo(u, d.chars)
  <2>1. <<>> \in Seq(Characters) /\ u \in Seq(Byte) /\ d \in Decoded /\ d.bad = FALSE
    BY <1>2, <1>9
  <2> QED BY <2>1, Replaced, Zenon
<1>12. Begin(u) = DecodedTo(u, d.chars)
  BY <1>9 DEF Begin, DecodedTo
<1> QED BY <1>6, <1>10, <1>11, <1>12 DEF e, u, d

(* The bytes of a character are decoded to it.                             *)
LEMMA CharacterDecoded ==
  ASSUME NEW c \in Characters
  PROVE  DecodeBytes(<<>>, Encoding[c]) = DecodedTo(<<>>, <<c>>)
<1> DEFINE e == Encoding[c]
           D(x) == DecodeBytes(<<>>, x)
           Q == {x \in Seq(Byte) : IsStrictPrefix(x, e) => D(x) = Begin(x)}
<1>0. e \in Seq(Byte) /\ e # <<>> /\ <<>> \in Seq(Byte)
  BY TextsAre, ExportAssumption
<1>1. /\ D(<<>>) = Begin(<<>>)
      /\ \A x \in Seq(Byte) : \A b \in Byte : D(Append(x, b)) = DecodeByte(D(x), b)
  BY <1>0, DecodeBytesAre
<1> HIDE DEF D
<1>2. <<>> \in Q
  BY <1>0, <1>1
<1>3. \A x \in Seq(Byte) : x \in Q => \A b \in Byte : Append(x, b) \in Q
  <2> SUFFICES ASSUME NEW x \in Seq(Byte), x \in Q, NEW b \in Byte
               PROVE  Append(x, b) \in Q
    OBVIOUS
  <2>1. Append(x, b) \in Seq(Byte)
    BY AppendProperties
  <2>2. ASSUME IsStrictPrefix(Append(x, b), e) PROVE D(Append(x, b)) = Begin(Append(x, b))
    <3>1. DecodeByte(Begin(x), b) = Begin(Append(x, b)) /\ IsStrictPrefix(x, e)
      BY <2>2, HalfDecoded
    <3>2. D(x) = Begin(x)
      BY <3>1
    <3> QED BY <1>1, <3>1, <3>2
  <2> QED BY <2>1, <2>2
<1> HIDE DEF Q
<1>4. \A x \in Seq(Byte) : x \in Q
  BY <1>2, <1>3, SeqInduction
<1> DEFINE x == Front(e)
           b == Last(e)
<1>5. x \in Seq(Byte) /\ b \in Byte /\ e = Append(x, b) /\ Len(x) + 1 = Len(e)
  <2> HIDE DEF e
  <2> QED BY <1>0, SplitLast
<1> HIDE DEF x, b
<1>6. IsStrictPrefix(x, e)
  <2>1. Len(Append(x, b)) = Len(x) + 1 /\ Len(x) \in Nat /\ \A i \in 1 .. Len(x) : Append(x, b)[i] = x[i]
    BY <1>5, AppendProperties, LenProperties
  <2>2. PrefixMeans(x, e)
    BY <1>0, <1>5, PrefixIs
  <2> HIDE DEF e
  <2>3. Len(x) < Len(e) /\ Len(x) <= Len(e) /\ \A i \in 1 .. Len(x) : x[i] = e[i]
    BY <1>5, <2>1
  <2> QED BY <2>2, <2>3 DEF PrefixMeans
<1>7. D(x) = Begin(x)
  BY <1>4, <1>5, <1>6 DEF Q
<1>8. D(e) = DecodeByte(Begin(x), b)
  BY <1>1, <1>5, <1>7
<1> DEFINE d == Begin(x)
           whole == {a \in Characters : Encoding[a] = e}
<1>9. d.pending = x /\ d.bad = FALSE /\ d.chars = <<>> /\ d \in Decoded
  BY <1>5, DecodeBytesAre DEF Begin
<1>10. whole = {c}
  <2>1. ASSUME NEW a \in Characters, Encoding[a] = e PROVE a = c
    <3>1. IsPrefix(e, e)
      <4> HIDE DEF e
      <4>1. PrefixMeans(e, e)
        BY <1>0, PrefixIs
      <4> QED BY <4>1 DEF PrefixMeans
    <3> QED BY <2>1, <3>1, ExportAssumption
  <2> QED BY <2>1
<1>11. DecodeByte(d, b) = Completing(d, <<>>, Append(d.chars, c))
  <2>1. {a \in Characters : Encoding[a] = Append(d.pending, b)} = {c}
    BY <1>5, <1>9, <1>10
  <2>2. (CHOOSE a \in {c} : TRUE) = c
    OBVIOUS
  <2> HIDE DEF d
  <2> QED BY <1>9, <2>1, <2>2 DEF DecodeByte, Completing
<1>12. Append(d.chars, c) = <<c>> /\ <<c>> \in Seq(Characters)
  BY <1>9
<1> HIDE DEF d
<1>13. Completing(d, <<>>, <<c>>) = DecodedTo(<<>>, <<c>>)
  <2> DEFINE w == <<c>>
             n == <<>>
  <2>1. w \in Seq(Characters) /\ n \in Seq(Byte) /\ d \in Decoded /\ d.bad = FALSE
    BY <1>0, <1>9, <1>12
  <2> HIDE DEF w, n
  <2>2. Completing(d, n, w) = DecodedTo(n, w)
    BY <2>1, Replaced, Zenon
  <2> QED BY <2>2 DEF w, n
<1> QED BY <1>8, <1>11, <1>12, <1>13 DEF d, D, e

(* So are those of a text.                                                 *)
LEMMA TextDecoded ==
  \A t \in Seq(Characters) :
    DecodeBytes(<<>>, BytesOf(t)) = DecodedTo(<<>>, t)
<1> DEFINE D(x) == DecodeBytes(<<>>, x)
           R(t) == DecodedTo(<<>>, t)
           Q == {t \in Seq(Characters) : D(BytesOf(t)) = R(t)}
<1>0. <<>> \in Seq(Byte) /\ <<>> \in Seq(Characters)
  OBVIOUS
<1>1. <<>> \in Q
  BY <1>0, BytesOfEmpty, DecodeBytesAre DEF Begin, DecodedTo
<1>2. \A t \in Seq(Characters) : t \in Q => \A c \in Characters : Append(t, c) \in Q
  <2> SUFFICES ASSUME NEW t \in Seq(Characters), t \in Q, NEW c \in Characters
               PROVE  Append(t, c) \in Q
    OBVIOUS
  <2> DEFINE x == BytesOf(t)
             y == Encoding[c]
             a == D(x \o y)
  <2>1. x \in Seq(Byte) /\ BytesOf(Append(t, c)) = x \o y
    BY BytesNext
  <2>2. y \in Seq(Byte) /\ D(y) = DecodedTo(<<>>, <<c>>)
    BY TextsAre, CharacterDecoded
  <2>3. D(x) = R(t)
    OBVIOUS
  <2>4. x \o y \in Seq(Byte) /\ a \in Decoded
    <3> HIDE DEF x, y
    <3>1. x \o y \in Seq(Byte)
      BY <2>1, <2>2, ConcatIsText
    <3> QED BY <1>0, <3>1, DecodeBytesAre
  <2>5. ~D(x).bad => Joined(D(x).chars, D(x \o y), DecodeBytes(D(x).pending, y))
    <3> HIDE DEF x, y
    <3> QED BY <2>1, <2>2, DecodeMore
  <2> HIDE DEF x, y, a, D
  <2>6. Joined(t, a, D(y))
    BY <2>3, <2>5 DEF D, a, DecodedTo
  <2>7. a.bad = FALSE /\ a.pending = <<>> /\ a.chars = t \o <<c>>
    BY <2>2, <2>4, <2>6 DEF Joined, Decoded, DecodedTo
  <2>8. t \o <<c>> = Append(t, c) /\ Append(t, c) \in Seq(Characters)
    BY OneCharacter, AppendProperties
  <2>9. a = [pending |-> a.pending, chars |-> a.chars, bad |-> a.bad]
    BY <2>4 DEF Decoded
  <2>10. a = R(Append(t, c))
    BY <2>7, <2>8, <2>9 DEF DecodedTo
  <2> QED BY <2>1, <2>8, <2>10 DEF a
<1> HIDE DEF Q
<1>3. \A t \in Seq(Characters) : t \in Q
  BY <1>1, <1>2, SeqInduction
<1> QED BY <1>3 DEF Q

(* What two sequences together begin with.                                 *)
LEMMA ConcatFirst ==
  ASSUME NEW S, NEW x \in Seq(S), NEW y \in Seq(S), x # <<>>
  PROVE  x \o y \in Seq(S) /\ x \o y # <<>> /\ (x \o y)[1] = x[1]
<1> DEFINE z == x \o y
<1>1. /\ z \in Seq(S) /\ Len(z) = Len(x) + Len(y) /\ Len(x) \in Nat /\ Len(y) \in Nat
      /\ \A i \in 1 .. Len(x) + Len(y) : z[i] = IF i <= Len(x) THEN x[i] ELSE y[i - Len(x)]
  BY ConcatProperties, LenProperties
<1>2. Len(x) # 0
  BY EmptySeq
<1> HIDE DEF z
<1>3. 1 \in 1 .. Len(x) + Len(y) /\ 1 <= Len(x) /\ Len(z) # 0
  BY <1>1, <1>2
<1>4. z[1] = x[1]
  BY <1>1, <1>3
<1> QED BY <1>1, <1>3, <1>4 DEF z

(* The first byte of a text is that of its first character.                *)
LEMMA FirstByte ==
  \A t \in Seq(Characters) :
    t # <<>> => BytesOf(t) # <<>> /\ BytesOf(t)[1] = Encoding[t[1]][1]
<1> DEFINE Q == {t \in Seq(Characters) : t # <<>> => BytesOf(t) # <<>> /\ BytesOf(t)[1] = Encoding[t[1]][1]}
<1>1. <<>> \in Q
  OBVIOUS
<1>2. \A t \in Seq(Characters) : t \in Q => \A c \in Characters : Append(t, c) \in Q
  <2> SUFFICES ASSUME NEW t \in Seq(Characters), t \in Q, NEW c \in Characters
               PROVE  Append(t, c) \in Q
    OBVIOUS
  <2> DEFINE x == BytesOf(t)
             y == Encoding[c]
             u == Append(t, c)
  <2>1. x \in Seq(Byte) /\ BytesOf(u) = x \o y /\ y \in Seq(Byte) /\ y # <<>>
    BY BytesNext, TextsAre, ExportAssumption
  <2>2. u \in Seq(Characters) /\ Len(t) \in Nat /\ u[Len(t) + 1] = c /\ \A i \in 1 .. Len(t) : u[i] = t[i]
    BY AppendProperties, LenProperties
  <2> HIDE DEF x, y, u
  <2> SUFFICES BytesOf(u) # <<>> /\ BytesOf(u)[1] = Encoding[u[1]][1]
    BY <2>2 DEF u
  <2>3. CASE t = <<>>
    <3>1. x = <<>> /\ u[1] = c
      <4>1. Len(t) = 0
        BY <2>3
      <4>2. u[1] = c
        BY <2>2, <4>1
      <4> QED BY <2>3, <4>2, BytesOfEmpty DEF x
    <3>2. <<>> \o y = y
      BY <2>1, ConcatIsText
    <3> QED BY <2>1, <3>1, <3>2 DEF y
  <2>4. CASE t # <<>>
    <3>1. x # <<>> /\ x[1] = Encoding[t[1]][1]
      BY <2>4 DEF x
    <3>2. x \o y # <<>> /\ (x \o y)[1] = x[1]
      BY <2>1, <3>1, ConcatFirst
    <3>3. u[1] = t[1]
      <4>1. Len(t) # 0
        BY <2>4, EmptySeq
      <4>2. 1 \in 1 .. Len(t)
        BY <2>2, <4>1
      <4> QED BY <2>2, <4>2
    <3> QED BY <2>1, <3>1, <3>2, <3>3
  <2> QED BY <2>3, <2>4
<1> HIDE DEF Q
<1>3. \A t \in Seq(Characters) : t \in Q
  BY <1>1, <1>2, SeqInduction
<1> QED BY <1>3 DEF Q

(* A text that begins with a quote is read from its bytes, with a byte     *)
(* order mark before it or without.                                        *)
LEMMA BytesAreRead ==
  ASSUME NEW text \in Seq(Characters), text # <<>>, text[1] = Quote, NEW bom \in BOOLEAN
  PROVE  LET bytes == (IF bom THEN Bom ELSE <<>>) \o BytesOf(text) IN
         bytes \in Seq(Byte) /\ IsText(bytes) /\ TextOf(bytes) = text
<1> DEFINE x == BytesOf(text)
           bytes == (IF bom THEN Bom ELSE <<>>) \o x
<1>1. x \in Seq(Byte) /\ x # <<>> /\ x[1] = Encoding[Quote][1]
  BY BytesOfIs, FirstByte
<1>2. DecodeBytes(<<>>, x) = DecodedTo(<<>>, text)
  BY TextDecoded
<1>3. Bom \in Seq(Byte) /\ Len(Bom) = 3 /\ <<>> \in Seq(Byte)
  BY BomIs
<1> HIDE DEF x
<1>4. bytes \in Seq(Byte) /\ WithoutBom(bytes) = x
  <2>1. CASE bom
    <3> DEFINE w == Bom
    <3>1. ~IsStrictPrefix(w, w) /\ IsPrefix(w, w)
      <4>1. PrefixMeans(w, w)
        BY <1>3, PrefixIs
      <4> HIDE DEF w
      <4> QED BY <4>1 DEF PrefixMeans
    <3>2. WithoutBom(w \o x) = WithoutBom(w) \o x
      BY <1>1, <1>3, <3>1, BomMore
    <3>3. WithoutBom(w) = <<>>
      <4>1. WithoutBom(w) = SubSeq(w, 4, Len(w))
        BY <3>1 DEF WithoutBom
      <4>2. SubSeq(w, 4, 3) = <<>>
        <5>1. 4 \in Nat /\ 4 >= 1 /\ 3 \in Int /\ 3 <= Len(w)
          BY <1>3
        <5> HIDE DEF w
        <5>2. SubSeq(w, 4, 3) \in Seq(Byte) /\ Len(SubSeq(w, 4, 3)) = IF 4 <= 3 THEN 3 - 4 + 1 ELSE 0
          BY <1>3, <5>1, SubSeqIs DEF w
        <5>3. Len(SubSeq(w, 4, 3)) = 0
          BY <5>2
        <5> QED BY <5>2, <5>3, EmptySeq
      <4> QED BY <1>3, <4>1, <4>2
    <3>4. <<>> \o x = x /\ w \o x \in Seq(Byte)
      BY <1>1, <1>3, ConcatIsText
    <3>5. bytes = w \o x
      BY <2>1
    <3> HIDE DEF w, bytes
    <3> QED BY <3>2, <3>3, <3>4, <3>5
  <2>2. CASE ~bom
    <3>1. bytes = x
      <4>1. bytes = <<>> \o x
        BY <2>2
      <4> QED BY <1>1, <4>1, ConcatIsText
    <3>2. ~IsPrefix(Bom, x)
      <4> SUFFICES ASSUME IsPrefix(Bom, x) PROVE FALSE
        OBVIOUS
      <4> DEFINE w == Bom
      <4>1. w \in Seq(Byte) /\ Len(w) = 3 /\ IsPrefix(w, x) /\ w[1] # Encoding[Quote][1]
        BY <1>3, ExportAssumption
      <4> HIDE DEF w
      <4>2. PrefixMeans(w, x)
        BY <1>1, <4>1, PrefixIs
      <4>3. \A i \in 1 .. 3 : w[i] = x[i]
        BY <4>1, <4>2 DEF PrefixMeans
      <4>4. w[1] = x[1]
        BY <4>3
      <4> QED BY <1>1, <4>1, <4>4
    <3> QED BY <1>1, <3>1, <3>2, WithoutBomIs
  <2> QED BY <2>1, <2>2
<1> HIDE DEF bytes
<1>5. IsText(bytes) /\ TextOf(bytes) = text
  BY <1>2, <1>4 DEF IsText, TextOf, DecodedTo
<1> QED BY <1>4, <1>5 DEF bytes, x

(***************************************************************************)
(* Lines and quotes of a cell that is protected and has its quotes doubled.*)
(***************************************************************************)
(* Line ends are whole, but for a carriage return at the end.              *)
Sane(s) ==
  \A j \in DOMAIN s :
    /\ s[j] = CR /\ j < Len(s) => s[j + 1] = LF
    /\ s[j] = LF => j > 1 /\ s[j - 1] = CR
AtCr(s) == s # <<>> /\ Last(s) = CR

(* Whole line ends are sane ones, and no carriage return is left over.     *)
LEMMA LinesAre ==
  ASSUME NEW S, NEW s \in Seq(S)
  PROVE  LinesAreWhole(s) <=> Sane(s) /\ ~AtCr(s)
<1> DEFINE n == Len(s)
<1>1. n \in Nat /\ DOMAIN s = 1 .. n /\ (s = <<>> <=> n = 0)
  BY LenProperties, EmptySeq
<1>2. AtCr(s) <=> n # 0 /\ s[n] = CR
  BY <1>1 DEF AtCr, Last
<1> HIDE DEF n
<1>3. ASSUME LinesAreWhole(s) PROVE Sane(s) /\ ~AtCr(s)
  <2>1. \A j \in 1 .. n : s[j] = CR => j < n /\ s[j + 1] = LF
    BY <1>1, <1>3 DEF LinesAreWhole, n
  <2>2. \A j \in 1 .. n : s[j] = LF => j > 1 /\ s[j - 1] = CR
    BY <1>1, <1>3 DEF LinesAreWhole
  <2>3. Sane(s)
    BY <1>1, <2>1, <2>2 DEF Sane
  <2>4. ASSUME n # 0, s[n] = CR PROVE FALSE
    <3>1. n \in 1 .. n
      BY <1>1, <2>4
    <3>2. n < n
      BY <2>1, <2>4, <3>1
    <3> QED BY <1>1, <3>2
  <2> QED BY <1>2, <2>3, <2>4
<1>4. ASSUME Sane(s), ~AtCr(s) PROVE LinesAreWhole(s)
  <2>1. ASSUME NEW j \in 1 .. n, s[j] = CR PROVE j < n /\ s[j + 1] = LF
    <3>1. n # 0
      BY <1>1
    <3>2. j # n
      BY <1>2, <1>4, <2>1, <3>1
    <3>3. j < n
      BY <1>1, <3>2
    <3> QED BY <1>1, <1>4, <2>1, <3>3 DEF Sane, n
  <2>2. \A j \in 1 .. n : s[j] = LF => j > 1 /\ s[j - 1] = CR
    BY <1>1, <1>4 DEF Sane
  <2> QED BY <1>1, <2>1, <2>2 DEF LinesAreWhole, n
<1> QED BY <1>3, <1>4

(* One more character, and its line ends.                                  *)
LEMMA SaneNext ==
  ASSUME NEW S, NEW s \in Seq(S), NEW c \in S
  PROVE  /\ Sane(Append(s, c)) <=> Sane(s) /\ (AtCr(s) <=> c = LF)
         /\ AtCr(Append(s, c)) <=> c = CR
<1> DEFINE n == Len(s)
           u == Append(s, c)
<1>1. n \in Nat /\ DOMAIN s = 1 .. n /\ (s = <<>> <=> n = 0)
  BY LenProperties, EmptySeq
<1>2. u \in Seq(S) /\ Len(u) = n + 1 /\ u[n + 1] = c /\ \A i \in 1 .. n : u[i] = s[i]
  BY AppendProperties
<1>3. AtCr(s) <=> n # 0 /\ s[n] = CR
  BY <1>1 DEF AtCr, Last
<1>4. AtCr(u) <=> c = CR
  BY AppendIsNot DEF AtCr
<1> HIDE DEF n, u
<1>5. DOMAIN u = 1 .. n + 1
  BY <1>2, LenProperties
<1>6. Sane(u) <=> \A j \in 1 .. n + 1 :
                    /\ u[j] = CR /\ j < n + 1 => u[j + 1] = LF
                    /\ u[j] = LF => j > 1 /\ u[j - 1] = CR
  BY <1>2, <1>5 DEF Sane
<1>7. Sane(s) <=> \A j \in 1 .. n :
                    /\ s[j] = CR /\ j < n => s[j + 1] = LF
                    /\ s[j] = LF => j > 1 /\ s[j - 1] = CR
  BY <1>1 DEF Sane, n
<1>8. CR # LF
  BY Apart
<1>9. ASSUME Sane(u) PROVE Sane(s) /\ (AtCr(s) <=> c = LF)
  <2>1. ASSUME NEW j \in 1 .. n
        PROVE  /\ s[j] = CR /\ j < n => s[j + 1] = LF
               /\ s[j] = LF => j > 1 /\ s[j - 1] = CR
    <3>1. j \in 1 .. n + 1 /\ j < n + 1 /\ u[j] = s[j]
      BY <1>1, <1>2
    <3>2. s[j] = CR => u[j + 1] = LF
      BY <1>6, <1>9, <3>1
    <3>3. s[j] = LF => j > 1 /\ u[j - 1] = CR
      BY <1>6, <1>9, <3>1
    <3>4. j < n => u[j + 1] = s[j + 1]
      <4>1. j < n => j + 1 \in 1 .. n
        BY <1>1
      <4> QED BY <1>2, <4>1
    <3>5. j > 1 => u[j - 1] = s[j - 1]
      <4>1. j > 1 => j - 1 \in 1 .. n
        BY <1>1
      <4> QED BY <1>2, <4>1
    <3> QED BY <3>2, <3>3, <3>4, <3>5
  <2>2. AtCr(s) => c = LF
    <3> SUFFICES ASSUME n # 0, s[n] = CR PROVE c = LF
      BY <1>3
    <3>1. n \in 1 .. n /\ n \in 1 .. n + 1 /\ n < n + 1
      BY <1>1
    <3>2. u[n] = CR
      BY <1>2, <3>1
    <3>3. u[n + 1] = LF
      BY <1>6, <1>9, <3>1, <3>2
    <3> QED BY <1>2, <3>3
  <2>3. c = LF => AtCr(s)
    <3> SUFFICES ASSUME c = LF PROVE n # 0 /\ s[n] = CR
      BY <1>3
    <3>1. n + 1 \in 1 .. n + 1 /\ u[n + 1] = LF
      BY <1>1, <1>2
    <3>2. n + 1 > 1 /\ u[(n + 1) - 1] = CR
      BY <1>6, <1>9, <3>1
    <3>3. (n + 1) - 1 = n /\ n # 0 /\ n \in 1 .. n
      BY <1>1, <3>2
    <3> QED BY <1>2, <3>2, <3>3
  <2> QED BY <1>7, <2>1, <2>2, <2>3
<1>10. ASSUME Sane(s), AtCr(s) <=> c = LF PROVE Sane(u)
  <2> SUFFICES ASSUME NEW j \in 1 .. n + 1
               PROVE  /\ u[j] = CR /\ j < n + 1 => u[j + 1] = LF
                      /\ u[j] = LF => j > 1 /\ u[j - 1] = CR
    BY <1>6
  <2>1. CASE j \in 1 .. n
    <3>1. u[j] = s[j]
      BY <1>2, <2>1
    <3>2. ASSUME s[j] = CR PROVE u[j + 1] = LF
      <4>1. CASE j = n
        <5>1. n # 0
          BY <1>1, <2>1
        <5>2. c = LF
          BY <1>3, <1>10, <3>2, <4>1, <5>1
        <5> QED BY <1>2, <4>1, <5>2
      <4>2. CASE j # n
        <5>1. j < n /\ j + 1 \in 1 .. n
          BY <1>1, <2>1, <4>2
        <5>2. s[j + 1] = LF
          BY <1>7, <1>10, <2>1, <3>2, <5>1
        <5> QED BY <1>2, <5>1, <5>2
      <4> QED BY <4>1, <4>2
    <3>3. ASSUME s[j] = LF PROVE j > 1 /\ u[j - 1] = CR
      <4>1. j > 1 /\ s[j - 1] = CR
        BY <1>7, <1>10, <2>1, <3>3
      <4>2. j - 1 \in 1 .. n
        BY <1>1, <2>1, <4>1
      <4> QED BY <1>2, <4>1, <4>2
    <3> QED BY <3>1, <3>2, <3>3
  <2>2. CASE ~(j \in 1 .. n)
    <3>1. j = n + 1 /\ ~(j < n + 1)
      BY <1>1, <2>2
    <3>2. ASSUME c = LF PROVE j > 1 /\ u[j - 1] = CR
      <4>1. n # 0 /\ s[n] = CR
        BY <1>3, <1>10, <3>2
      <4>2. j > 1 /\ j - 1 = n /\ n \in 1 .. n
        BY <1>1, <3>1, <4>1
      <4> QED BY <1>2, <4>1, <4>2
    <3> QED BY <1>2, <3>1, <3>2
  <2> QED BY <2>1, <2>2
<1> QED BY <1>4, <1>9, <1>10 DEF u

(* The line ends of an empty text are whole.                               *)
LEMMA SaneEmpty == Sane(<<>>) /\ ~AtCr(<<>>)
  BY DEF Sane, AtCr

(* A cell with its quotes doubled.                                         *)
Twice(c) == IF c = Quote THEN <<Quote, Quote>> ELSE <<c>>
Doubled(p) == FlattenSeq([i \in DOMAIN p |-> Twice(p[i])])

(* A doubled character is a text.                                          *)
LEMMA TwiceIs ==
  ASSUME NEW c \in Characters
  PROVE  Twice(c) \in Seq(Characters)
  BY TextsAre DEF Twice

(* One more character is doubled by itself.                                *)
LEMMA DoubledNext ==
  ASSUME NEW p \in Seq(Characters), NEW c \in Characters
  PROVE  Doubled(p) \in Seq(Characters) /\ Doubled(Append(p, c)) = Doubled(p) \o Twice(c)
<1> DEFINE n == Len(p)
           u == Append(p, c)
           f == [i \in 1 .. n |-> Twice(p[i])]
           g == [i \in 1 .. n + 1 |-> Twice(u[i])]
<1>1. n \in Nat /\ DOMAIN p = 1 .. n /\ \A i \in 1 .. n : p[i] \in Characters
  BY LenProperties, ElementOfSeq
<1>2. u \in Seq(Characters) /\ Len(u) = n + 1 /\ u[n + 1] = c /\ \A i \in 1 .. n : u[i] = p[i]
  BY AppendProperties
<1> HIDE DEF u
<1>3. DOMAIN u = 1 .. n + 1 /\ \A i \in 1 .. n + 1 : u[i] \in Characters
  BY <1>2, LenProperties, ElementOfSeq
<1>4. Doubled(p) = FlattenSeq(f) /\ Doubled(u) = FlattenSeq(g)
  BY <1>1, <1>3 DEF Doubled
<1> HIDE DEF n
<1>5. f \in [1 .. n -> Seq(Characters)] /\ g \in [1 .. n + 1 -> Seq(Characters)]
  BY <1>1, <1>3, TwiceIs
<1>6. (\A i \in 1 .. n : g[i] = f[i]) /\ g[n + 1] = Twice(c)
  <2>1. n + 1 \in 1 .. n + 1 /\ \A i \in 1 .. n : i \in 1 .. n + 1
    BY <1>1
  <2> QED BY <1>2, <2>1
<1> HIDE DEF f, g
<1>7. FlattenSeq(f) \in Seq(Characters) /\ FlattenSeq(g) = FlattenSeq(f) \o g[n + 1]
  BY <1>1, <1>5, <1>6, FlattenNext
<1> QED BY <1>4, <1>6, <1>7 DEF u

(* The empty text doubled.                                                 *)
LEMMA DoubledEmpty == Doubled(<<>>) = <<>>
<1>1. [i \in DOMAIN <<>> |-> Twice(<<>>[i])] = <<>>
  OBVIOUS
<1> QED BY <1>1, FlattenOfNothing DEF Doubled

(* The two ways it goes on.                                                *)
LEMMA DoubledCharacter ==
  ASSUME NEW p \in Seq(Characters), NEW c \in Characters
  PROVE  /\ c # Quote => Doubled(Append(p, c)) = Append(Doubled(p), c)
         /\ c = Quote => Doubled(Append(p, c)) = Append(Append(Doubled(p), Quote), Quote)
<1> DEFINE d == Doubled(p)
<1>1. d \in Seq(Characters) /\ Doubled(Append(p, c)) = d \o Twice(c)
  BY DoubledNext
<1>2. d \o <<c>> = Append(d, c)
  BY <1>1, OneCharacter
<1>3. d \o <<Quote, Quote>> = Append(Append(d, Quote), Quote)
  BY <1>1, TwoCharacters, CharactersAre
<1> QED BY <1>1, <1>2, <1>3 DEF Twice

(* It says the same as the cell, in pairs of quotes.                       *)
Fits(p, d) ==
  /\ d \in Seq(Characters) /\ Even(d) /\ Paired(d) /\ Unpaired(d) = p
  /\ Sane(d) <=> Sane(p)
  /\ AtCr(d) <=> AtCr(p)

(* The empty text fits.                                                    *)
LEMMA FitsEmpty == Fits(<<>>, <<>>)
<1>1. Paired(<<>>)
  BY DEF Paired
<1> QED BY <1>1, EvenOfNothing, UnpairedOfNothing DEF Fits

(* A character other than a quote keeps the fit.                           *)
LEMMA FitsCharacter ==
  ASSUME NEW p \in Seq(Characters), NEW d, Fits(p, d), NEW c \in Characters, c # Quote
  PROVE  Fits(Append(p, c), Append(d, c))
<1>1. d \in Seq(Characters) /\ Even(d) /\ Paired(d) /\ Unpaired(d) = p
  BY DEF Fits
<1>2. Append(d, c) \in Seq(Characters) /\ Even(Append(d, c))
  BY <1>1, EvenOfAppend, AppendProperties
<1>3. Paired(Append(d, c))
  BY <1>1, PairedStep
<1>4. Unpaired(Append(d, c)) = Append(p, c)
  BY <1>1, UnpairedStep
<1>5. /\ Sane(Append(d, c)) <=> Sane(d) /\ (AtCr(d) <=> c = LF)
      /\ AtCr(Append(d, c)) <=> c = CR
  BY <1>1, SaneNext
<1>6. /\ Sane(Append(p, c)) <=> Sane(p) /\ (AtCr(p) <=> c = LF)
      /\ AtCr(Append(p, c)) <=> c = CR
  BY SaneNext
<1> QED BY <1>2, <1>3, <1>4, <1>5, <1>6 DEF Fits

(* A quote keeps it if it is doubled.                                      *)
LEMMA FitsQuote ==
  ASSUME NEW p \in Seq(Characters), NEW d, Fits(p, d)
  PROVE  Fits(Append(p, Quote), Append(Append(d, Quote), Quote))
<1> DEFINE e == Append(d, Quote)
           u == Append(e, Quote)
           q == Append(p, Quote)
<1>1. d \in Seq(Characters) /\ Even(d) /\ Paired(d) /\ Unpaired(d) = p /\ Quote \in Characters
  BY CharactersAre DEF Fits
<1>2. e \in Seq(Characters) /\ ~Even(e)
  BY <1>1, EvenOfAppend, AppendProperties
<1>3. Unpaired(e) = q
  BY <1>1, UnpairedStep
<1>4. Paired(u)
  BY <1>1, PairedPair
<1>5. /\ Sane(e) <=> Sane(d) /\ (AtCr(d) <=> Quote = LF)
      /\ AtCr(e) <=> Quote = CR
  BY <1>1, SaneNext
<1>6. /\ Sane(q) <=> Sane(p) /\ (AtCr(p) <=> Quote = LF)
      /\ AtCr(q) <=> Quote = CR
  BY <1>1, SaneNext
<1> HIDE DEF e, q
<1>7. u \in Seq(Characters) /\ Even(u)
  BY <1>1, <1>2, EvenOfAppend, AppendProperties
<1>8. Unpaired(u) = q
  BY <1>1, <1>2, <1>3, UnpairedStep
<1>9. /\ Sane(u) <=> Sane(e) /\ (AtCr(e) <=> Quote = LF)
      /\ AtCr(u) <=> Quote = CR
  BY <1>1, <1>2, SaneNext
<1> HIDE DEF u
<1>10. (Sane(u) <=> Sane(q)) /\ (AtCr(u) <=> AtCr(q))
  BY <1>5, <1>6, <1>9, Apart DEF Fits
<1>11. Fits(q, u)
  BY <1>4, <1>7, <1>8, <1>10 DEF Fits
<1> QED BY <1>11 DEF e, u, q

(* So the doubled text fits the text it is of, whatever it is.             *)
LEMMA DoubledFits == \A p \in Seq(Characters) : Fits(p, Doubled(p))
<1> DEFINE Q == {p \in Seq(Characters) : Fits(p, Doubled(p))}
<1>1. <<>> \in Q
  <2>1. <<>> \in Seq(Characters)
    OBVIOUS
  <2> QED BY <2>1, DoubledEmpty, FitsEmpty
<1>2. \A p \in Seq(Characters) : p \in Q => \A c \in Characters : Append(p, c) \in Q
  <2> SUFFICES ASSUME NEW p \in Seq(Characters), p \in Q, NEW c \in Characters
               PROVE  Append(p, c) \in Q
    OBVIOUS
  <2>1. Fits(p, Doubled(p)) /\ Append(p, c) \in Seq(Characters)
    BY AppendProperties
  <2> HIDE DEF Q
  <2>2. Fits(Append(p, c), Doubled(Append(p, c)))
    <3>1. CASE c = Quote
      <4>1. Doubled(Append(p, c)) = Append(Append(Doubled(p), Quote), Quote)
        BY <3>1, DoubledCharacter
      <4> QED BY <2>1, <3>1, <4>1, FitsQuote
    <3>2. CASE c # Quote
      <4>1. Doubled(Append(p, c)) = Append(Doubled(p), c)
        BY <3>2, DoubledCharacter
      <4> QED BY <2>1, <3>2, <4>1, FitsCharacter
    <3> QED BY <3>1, <3>2
  <2> QED BY <2>1, <2>2 DEF Q
<1> HIDE DEF Q
<1>3. \A p \in Seq(Characters) : p \in Q
  BY <1>1, <1>2, SeqInduction
<1> QED BY <1>3 DEF Q

(* An apostrophe before a cell leaves its line ends as they are.           *)
LEMMA ApostropheFirst ==
  \A v \in Seq(Characters) :
    /\ Sane(<<Apostrophe>> \o v) <=> Sane(v)
    /\ AtCr(<<Apostrophe>> \o v) <=> AtCr(v)
<1> DEFINE a == <<Apostrophe>>
           Q == {v \in Seq(Characters) : /\ Sane(a \o v) <=> Sane(v)
                                         /\ AtCr(a \o v) <=> AtCr(v)}
<1>0. a \in Seq(Characters) /\ <<>> \in Seq(Characters) /\ Apostrophe \in Characters
      /\ Apostrophe # CR /\ Apostrophe # LF
  BY TextsAre DEF Apostrophe, CR, LF
<1>1. <<>> \in Q
  <2>1. a \o <<>> = Append(<<>>, Apostrophe)
    OBVIOUS
  <2>2. /\ Sane(Append(<<>>, Apostrophe)) <=> Sane(<<>>) /\ (AtCr(<<>>) <=> Apostrophe = LF)
        /\ AtCr(Append(<<>>, Apostrophe)) <=> Apostrophe = CR
    BY <1>0, SaneNext
  <2>3. (Sane(a \o <<>>) <=> Sane(<<>>)) /\ (AtCr(a \o <<>>) <=> AtCr(<<>>))
    BY <1>0, <2>1, <2>2, SaneEmpty
  <2> QED BY <1>0, <2>3
<1>2. \A v \in Seq(Characters) : v \in Q => \A c \in Characters : Append(v, c) \in Q
  <2> SUFFICES ASSUME NEW v \in Seq(Characters), v \in Q, NEW c \in Characters
               PROVE  Append(v, c) \in Q
    OBVIOUS
  <2> DEFINE w == a \o v
  <2>1. w \in Seq(Characters) /\ a \o Append(v, c) = Append(w, c) /\ Append(v, c) \in Seq(Characters)
    BY <1>0, ConcatAppend, ConcatIsText, AppendProperties
  <2>2. (Sane(w) <=> Sane(v)) /\ (AtCr(w) <=> AtCr(v))
    OBVIOUS
  <2> HIDE DEF w, a
  <2>3. /\ Sane(Append(w, c)) <=> Sane(w) /\ (AtCr(w) <=> c = LF)
        /\ AtCr(Append(w, c)) <=> c = CR
    BY <2>1, SaneNext
  <2>4. /\ Sane(Append(v, c)) <=> Sane(v) /\ (AtCr(v) <=> c = LF)
        /\ AtCr(Append(v, c)) <=> c = CR
    BY SaneNext
  <2>5. (Sane(Append(w, c)) <=> Sane(Append(v, c))) /\ (AtCr(Append(w, c)) <=> AtCr(Append(v, c)))
    BY <2>2, <2>3, <2>4
  <2> QED BY <2>1, <2>5
<1> HIDE DEF Q
<1>3. \A v \in Seq(Characters) : v \in Q
  BY <1>1, <1>2, SeqInduction
<1> QED BY <1>3 DEF Q

(* What is put before a cell is taken off again, and no protected cell is a*)
(* formula.                                                                *)
LEMMA ProtectedBack ==
  ASSUME NEW v \in Seq(Characters)
  PROVE  /\ FormulaDecoded(FormulaProtected(v)) = v
         /\ ~IsFormula(FormulaProtected(v))
<1> DEFINE a == <<Apostrophe>>
           p == a \o v
<1>1. Apostrophe \notin Formula
  BY ExportAssumption
<1>2. CASE v # <<>> /\ v[1] \in Formula \union {Apostrophe}
  <2>1. a \in Seq(Characters) /\ Len(a) = 1 /\ a[1] = Apostrophe
    BY TextsAre
  <2>2. Len(v) \in Nat /\ Len(v) # 0
    BY <1>2, LenProperties, EmptySeq
  <2>3. FormulaProtected(v) = p
    BY <1>2 DEF FormulaProtected
  <2> HIDE DEF a
  <2>4. /\ p \in Seq(Characters) /\ Len(p) = Len(a) + Len(v)
        /\ \A i \in 1 .. Len(a) + Len(v) : p[i] = IF i <= Len(a) THEN a[i] ELSE v[i - Len(a)]
    BY <2>1, ConcatProperties
  <2> HIDE DEF p
  <2>5. Len(p) = Len(v) + 1 /\ Len(p) > 1
    BY <2>1, <2>2, <2>4
  <2>6. p[1] = Apostrophe /\ \A i \in 1 .. Len(v) : p[i + 1] = v[i]
    <3>1. 1 \in 1 .. Len(a) + Len(v) /\ 1 <= Len(a)
      BY <2>1, <2>2
    <3>2. ASSUME NEW i \in 1 .. Len(v) PROVE p[i + 1] = v[i]
      <4>1. i + 1 \in 1 .. Len(a) + Len(v) /\ ~(i + 1 <= Len(a)) /\ (i + 1) - Len(a) = i
        BY <2>1, <2>2
      <4> QED BY <2>4, <4>1
    <3> QED BY <2>1, <2>4, <3>1, <3>2
  <2>7. p[2] = v[1]
    <3>1. 1 \in 1 .. Len(v) /\ 1 + 1 = 2
      BY <2>2
    <3> QED BY <2>6, <3>1
  <2>8. p # <<>>
    BY <2>4, <2>5, EmptySeq
  <2>9. Tail(p) = v
    <3>1. Tail(p) \in Seq(Characters) /\ Len(Tail(p)) = Len(p) - 1
          /\ \A i \in 1 .. Len(Tail(p)) : Tail(p)[i] = p[i + 1]
      BY <2>4, <2>8, HeadTailProperties
    <3>2. Len(Tail(p)) = Len(v)
      BY <2>2, <2>5, <3>1
    <3>3. \A i \in 1 .. Len(v) : Tail(p)[i] = v[i]
      BY <2>6, <3>1, <3>2
    <3> QED BY <3>1, <3>2, <3>3, SeqEqual
  <2>10. FormulaDecoded(p) = Tail(p)
    BY <1>2, <2>5, <2>6, <2>7 DEF FormulaDecoded
  <2>11. ~IsFormula(p)
    BY <1>1, <2>6 DEF IsFormula
  <2> QED BY <2>3, <2>9, <2>10, <2>11
<1>3. CASE ~(v # <<>> /\ v[1] \in Formula \union {Apostrophe})
  <2>1. FormulaProtected(v) = v
    BY <1>3 DEF FormulaProtected
  <2>2. ~IsFormula(v)
    BY <1>3 DEF IsFormula
  <2>3. FormulaDecoded(v) = v
    <3>1. CASE v = <<>>
      <4>1. Len(v) = 0 /\ ~(0 > 1)
        BY <3>1
      <4>2. ~(Len(v) > 1)
        BY <4>1
      <4> QED BY <4>2 DEF FormulaDecoded
    <3>2. CASE v # <<>>
      <4>1. v[1] # Apostrophe
        BY <1>3, <3>2
      <4> QED BY <4>1 DEF FormulaDecoded
    <3> QED BY <3>1, <3>2
  <2> QED BY <2>1, <2>2, <2>3
<1> QED BY <1>2, <1>3

(* The protection against formulas leaves line ends as they are.           *)
LEMMA ProtectedLines ==
  ASSUME NEW v \in Seq(Characters)
  PROVE  LinesAreWhole(FormulaProtected(v)) <=> LinesAreWhole(v)
<1> DEFINE p == <<Apostrophe>> \o v
<1>1. p \in Seq(Characters)
  BY TextsAre, ConcatIsText
<1>2. (Sane(p) <=> Sane(v)) /\ (AtCr(p) <=> AtCr(v))
  BY ApostropheFirst
<1> HIDE DEF p
<1>3. LinesAreWhole(p) <=> LinesAreWhole(v)
  BY <1>1, <1>2, LinesAre
<1> QED BY <1>3 DEF FormulaProtected, p

(* A quoted cell is a field that says the protected cell, and one within   *)
(* the grammar and the limits exactly if it can be taken back.             *)
Quoting(p) == QuoteThen(Doubled(p))

(* The grammar reads the quoted cell as the protected one, and the cell is *)
(* within it and within the limits if it is importable (quoteCell).        *)
LEMMA QuotedCell ==
  ASSUME NEW v \in Seq(Characters)
  PROVE  LET p == FormulaProtected(v) IN
         /\ QuoteCell(v) = Append(Quoting(p), Quote)
         /\ QuoteCell(v) \in Seq(Characters)
         /\ Even(QuoteCell(v))
         /\ Value(QuoteCell(v)) = p
         /\ Good(QuoteCell(v)) <=> Importable(v)
<1> DEFINE p == FormulaProtected(v)
           d == Doubled(p)
           q == QuoteThen(d)
           w == Append(d, Quote)
           f == QuoteCell(v)
<1>1. p \in Seq(Characters) /\ Quote \in Characters
  BY ProtectedIs, CharactersAre
<1> HIDE DEF p
<1>2. Fits(p, d) /\ d \in Seq(Characters)
  BY <1>1, DoubledFits DEF Fits
<1>3. q \in Seq(Characters) /\ ~Even(q) /\ QuoteThen(w) = Append(q, Quote)
  <2> HIDE DEF d
  <2>1. QuoteThen(d) \in Seq(Characters)
    BY <1>1, <1>2, QuoteThenIs
  <2>2. Even(QuoteThen(d)) <=> ~Even(d)
    BY <1>1, <1>2, EvenOfQuoteThen
  <2>3. QuoteThen(Append(d, Quote)) = Append(QuoteThen(d), Quote)
    BY <1>1, <1>2, QuoteThenMore
  <2> QED BY <1>2, <2>1, <2>2, <2>3 DEF Fits
<1>4. f = Append(q, Quote)
  <2>1. f = (<<Quote>> \o d) \o <<Quote>>
    BY DEF QuoteCell, p, Doubled, Twice
  <2>2. f = q \o <<Quote>>
    BY <2>1 DEF QuoteThen
  <2> HIDE DEF q, f
  <2> QED BY <1>1, <1>3, <2>2, OneCharacter
<1> HIDE DEF d, q, f
<1>5. f \in Seq(Characters) /\ Even(f)
  BY <1>1, <1>3, <1>4, EvenOfAppend, AppendProperties
<1>6. w \in Seq(Characters) /\ w # <<>> /\ Last(w) = Quote /\ Front(w) = d
  BY <1>1, <1>2, AppendIsNot
<1> HIDE DEF w
<1>7. f = QuoteThen(w)
  BY <1>3, <1>4
<1>8. /\ Quoted(f) /\ Inner(f) = d
      /\ WellFormed(f) <=> LinesAreWhole(d) /\ Paired(d)
  BY <1>1, <1>6, <1>7, QuotedField
<1>9. Value(f) = p
  BY <1>2, <1>8 DEF Value, Fits
<1>10. LinesAreWhole(d) <=> LinesAreWhole(p)
  BY <1>1, <1>2, LinesAre DEF Fits
<1>11. LinesAreWhole(p) <=> LinesAreWhole(v)
  BY ProtectedLines DEF p
<1>12. Good(f) <=> Importable(v)
  BY <1>2, <1>8, <1>9, <1>10, <1>11 DEF Good, Importable, Fits, p
<1> QED BY <1>4, <1>5, <1>9, <1>12 DEF p, q, d, f, Quoting

(***************************************************************************)
(* What the exporter writes, read by the grammar.                          *)
(***************************************************************************)
(* The text u has, over t, nothing but an open field.                      *)
Opens(t, u, f) ==
  /\ u \in Seq(Characters) /\ CompleteRecords(u) = CompleteRecords(t)
  /\ DoneFields(u) = DoneFields(t) /\ OpenField(u) = f

(* A field goes on with a character that neither ends it nor the row.      *)
LEMMA OpensOn ==
  ASSUME NEW t, NEW u, NEW f, Opens(t, u, f), NEW c \in Characters,
         ~Even(f) \/ c = Quote \/ c = CR
  PROVE  Opens(t, Append(u, c), Append(f, c))
<1>1. u \in Seq(Characters) /\ OpenField(u) = f
  BY DEF Opens
<1>2. ~Closes(f, c) /\ ~(c = Comma /\ Even(f))
  BY Apart DEF Closes
<1>3. Append(u, c) \in Seq(Characters)
  BY <1>1, AppendProperties
<1>4. /\ CompleteRecords(Append(u, c)) = CompleteRecords(u)
      /\ DoneFields(Append(u, c)) = DoneFields(u)
      /\ OpenField(Append(u, c)) = Append(f, c)
  BY <1>1, <1>2, InFieldStep
<1> QED BY <1>3, <1>4 DEF Opens

(* A quoted cell before its last quote: it is open, and how it goes on.    *)
LEMMA QuotingNext ==
  ASSUME NEW p \in Seq(Characters), NEW c \in Characters
  PROVE  LET q == Quoting(p) IN
         /\ q \in Seq(Characters) /\ ~Even(q)
         /\ c # Quote => Quoting(Append(p, c)) = Append(q, c)
         /\ c = Quote => Quoting(Append(p, c)) = Append(Append(q, Quote), Quote)
<1> DEFINE d == Doubled(p)
           q == QuoteThen(d)
<1>1. Fits(p, d) /\ d \in Seq(Characters) /\ Even(d) /\ Quote \in Characters
  BY DoubledFits, CharactersAre DEF Fits
<1>2. /\ c # Quote => Doubled(Append(p, c)) = Append(d, c)
      /\ c = Quote => Doubled(Append(p, c)) = Append(Append(d, Quote), Quote)
  BY DoubledCharacter
<1> HIDE DEF d
<1>3. q \in Seq(Characters) /\ ~Even(q)
  <2>1. QuoteThen(d) \in Seq(Characters)
    BY <1>1, QuoteThenIs
  <2>2. Even(QuoteThen(d)) <=> ~Even(d)
    BY <1>1, EvenOfQuoteThen
  <2> QED BY <1>1, <2>1, <2>2
<1>4. \A x \in Characters : QuoteThen(Append(d, x)) = Append(q, x)
  BY <1>1, QuoteThenMore
<1>5. QuoteThen(Append(Append(d, Quote), Quote)) = Append(Append(q, Quote), Quote)
  <2> DEFINE e == Append(d, Quote)
  <2>1. e \in Seq(Characters) /\ QuoteThen(e) = Append(q, Quote)
    BY <1>1, <1>4, AppendProperties
  <2> HIDE DEF e
  <2>2. QuoteThen(Append(e, Quote)) = Append(QuoteThen(e), Quote)
    BY <1>1, <2>1, QuoteThenMore
  <2> QED BY <2>1, <2>2 DEF e
<1> HIDE DEF q
<1>6. Quoting(p) = q
  BY DEF Quoting, q, d
<1> QED BY <1>2, <1>3, <1>4, <1>5, <1>6 DEF Quoting, q

(* The grammar finds no end in a quoted cell before its last quote.        *)
LEMMA QuotingRead ==
  ASSUME NEW t \in Seq(Characters), OpenField(t) = <<>>
  PROVE  \A p \in Seq(Characters) : Opens(t, t \o Quoting(p), Quoting(p))
<1> DEFINE Q == {p \in Seq(Characters) : Opens(t, t \o Quoting(p), Quoting(p))}
<1>0. <<>> \in Seq(Characters) /\ Quote \in Characters
  BY CharactersAre
<1>1. <<>> \in Q
  <2>1. Quoting(<<>>) = Append(<<>>, Quote)
    <3>1. <<Quote>> \o <<>> = Append(<<>>, Quote)
      OBVIOUS
    <3> QED BY <3>1, DoubledEmpty DEF Quoting, QuoteThen
  <2>2. Opens(t, t, <<>>)
    BY DEF Opens
  <2>3. Opens(t, Append(t, Quote), Append(<<>>, Quote))
    BY <1>0, <2>2, OpensOn
  <2>4. t \o Append(<<>>, Quote) = Append(t, Quote)
    <3>1. t \o Append(<<>>, Quote) = Append(t \o <<>>, Quote)
      BY <1>0, ConcatAppend
    <3>2. t \o <<>> = t
      BY <1>0, ConcatIsText
    <3> QED BY <3>1, <3>2
  <2>5. Opens(t, t \o Quoting(<<>>), Quoting(<<>>))
    BY <2>1, <2>3, <2>4
  <2> QED BY <1>0, <2>5
<1>2. \A p \in Seq(Characters) : p \in Q => \A c \in Characters : Append(p, c) \in Q
  <2> SUFFICES ASSUME NEW p \in Seq(Characters), p \in Q, NEW c \in Characters
               PROVE  Append(p, c) \in Q
    OBVIOUS
  <2> DEFINE q == Quoting(p)
             u == t \o q
             r == Quoting(Append(p, c))
  <2>1. /\ q \in Seq(Characters) /\ ~Even(q)
        /\ c # Quote => r = Append(q, c)
        /\ c = Quote => r = Append(Append(q, Quote), Quote)
    BY QuotingNext
  <2>2. Opens(t, u, q) /\ Append(p, c) \in Seq(Characters)
    BY AppendProperties
  <2> HIDE DEF q, r
  <2>3. Append(q, c) \in Seq(Characters) /\ t \o Append(q, c) = Append(u, c)
    BY <2>1, ConcatAppend, AppendProperties
  <2>4. Opens(t, Append(u, c), Append(q, c))
    BY <2>1, <2>2, OpensOn
  <2> HIDE DEF u
  <2>5. Opens(t, t \o r, r)
    <3>1. CASE c # Quote
      BY <2>1, <2>3, <2>4, <3>1
    <3>2. CASE c = Quote
      <4> DEFINE e == Append(q, Quote)
                 x == Append(u, Quote)
      <4>1. Opens(t, x, e) /\ e \in Seq(Characters) /\ t \o e = x
        BY <2>3, <2>4, <3>2
      <4> HIDE DEF e, x
      <4>2. Opens(t, Append(x, Quote), Append(e, Quote))
        BY <1>0, <4>1, OpensOn
      <4>3. t \o Append(e, Quote) = Append(x, Quote)
        BY <1>0, <4>1, ConcatAppend
      <4>4. r = Append(e, Quote)
        BY <2>1, <3>2 DEF e
      <4> QED BY <4>2, <4>3, <4>4
    <3> QED BY <3>1, <3>2
  <2> QED BY <2>2, <2>5 DEF r
<1> HIDE DEF Q
<1>3. \A p \in Seq(Characters) : p \in Q
  BY <1>1, <1>2, SeqInduction
<1> QED BY <1>3 DEF Q

(* A quoted cell is one field.                                             *)
LEMMA CellRead ==
  ASSUME NEW t \in Seq(Characters), OpenField(t) = <<>>, NEW v \in Seq(Characters)
  PROVE  Opens(t, t \o QuoteCell(v), QuoteCell(v))
<1> DEFINE p == FormulaProtected(v)
           q == Quoting(p)
           u == t \o q
<1>1. p \in Seq(Characters) /\ Quote \in Characters /\ QuoteCell(v) = Append(q, Quote)
  BY ProtectedIs, CharactersAre, QuotedCell
<1> HIDE DEF p
<1>2. q \in Seq(Characters)
  BY <1>1, QuotingNext
<1>3. Opens(t, u, q)
  BY <1>1, QuotingRead
<1> HIDE DEF q
<1>4. Opens(t, Append(u, Quote), Append(q, Quote))
  BY <1>1, <1>3, OpensOn
<1>5. t \o Append(q, Quote) = Append(u, Quote)
  BY <1>1, <1>2, ConcatAppend
<1> QED BY <1>1, <1>4, <1>5

(* Three sequences, put together in either order: the last one by          *)
(* induction.                                                              *)
LEMMA ConcatAgain ==
  ASSUME NEW S, NEW x \in Seq(S), NEW y \in Seq(S)
  PROVE  \A z \in Seq(S) : (x \o y) \o z = x \o (y \o z)
<1> DEFINE Q == {z \in Seq(S) : (x \o y) \o z = x \o (y \o z)}
<1>1. <<>> \in Q
  <2>1. x \o y \in Seq(S) /\ y \o <<>> = y /\ <<>> \in Seq(S)
    BY ConcatIsText
  <2> DEFINE w == x \o y
  <2>2. w \in Seq(S)
    BY <2>1
  <2> HIDE DEF w
  <2>3. w \o <<>> = w
    BY <2>2, ConcatIsText
  <2> QED BY <2>1, <2>3 DEF w
<1>2. \A z \in Seq(S) : z \in Q => \A c \in S : Append(z, c) \in Q
  <2> SUFFICES ASSUME NEW z \in Seq(S), z \in Q, NEW c \in S PROVE Append(z, c) \in Q
    OBVIOUS
  <2> DEFINE w == x \o y
             v == y \o z
  <2>1. w \in Seq(S) /\ v \in Seq(S) /\ y \o Append(z, c) = Append(v, c) /\ w \o z = x \o v
    BY ConcatIsText, ConcatAppend
  <2> HIDE DEF w, v
  <2>2. w \o Append(z, c) = Append(w \o z, c) /\ x \o Append(v, c) = Append(x \o v, c)
    <3>1. w \in Seq(S) /\ v \in Seq(S) /\ z \in Seq(S)
      BY <2>1
    <3> HIDE DEF Q
    <3>2. w \o Append(z, c) = Append(w \o z, c)
      BY ONLY <3>1, ConcatAppend, c \in S
    <3>3. x \o Append(v, c) = Append(x \o v, c)
      BY <3>1, ConcatAppend
    <3> QED BY <3>2, <3>3
  <2>3. w \o Append(z, c) = x \o (y \o Append(z, c))
    BY <2>1, <2>2
  <2>4. Append(z, c) \in Seq(S)
    BY AppendProperties
  <2> DEFINE e == Append(z, c)
  <2>5. w \o e = x \o (y \o e) /\ e \in Seq(S)
    BY <2>3, <2>4
  <2> HIDE DEF e
  <2>6. (x \o y) \o e = x \o (y \o e)
    BY <2>5 DEF w
  <2>7. e \in Q
    BY <2>5, <2>6
  <2> QED BY <2>7 DEF e
<1> HIDE DEF Q
<1>3. \A z \in Seq(S) : z \in Q
  BY <1>1, <1>2, SeqInduction
<1> QED BY <1>3 DEF Q

(* The same, for three given sequences.                                    *)
LEMMA ConcatThree ==
  ASSUME NEW S, NEW x \in Seq(S), NEW y \in Seq(S), NEW z \in Seq(S)
  PROVE  x \o (y \o z) = (x \o y) \o z
<1>1. \A r \in Seq(S) : (x \o y) \o r = x \o (y \o r)
  BY ONLY ConcatAgain, x \in Seq(S), y \in Seq(S)
<1> QED BY ONLY <1>1, z \in Seq(S), Zenon

(* The same, for texts.                                                    *)
LEMMA TextsThree ==
  \A x, y, z \in Seq(Characters) : x \o (y \o z) = (x \o y) \o z
<1> DEFINE S == Characters
<1> HIDE DEF S
<1>1. ASSUME NEW x \in Seq(S), NEW y \in Seq(S), NEW z \in Seq(S)
      PROVE  x \o (y \o z) = (x \o y) \o z
  BY <1>1, ConcatThree
<1> QED BY <1>1 DEF S

(* The cells of a line, quoted, a comma before each but the first.         *)
Piece(i, v) == IF i = 1 THEN QuoteCell(v) ELSE <<Comma>> \o QuoteCell(v)
CellsOfLine(cells) == FlattenSeq([i \in DOMAIN cells |-> Piece(i, cells[i])])
QuoteCells(cells) == [k \in DOMAIN cells |-> QuoteCell(cells[k])]

(* A cell of a line is a text.                                             *)
LEMMA PieceIs ==
  ASSUME NEW v \in Seq(Characters), NEW i
  PROVE  Piece(i, v) \in Seq(Characters)
<1> DEFINE q == QuoteCell(v)
<1>1. q \in Seq(Characters)
  BY QuoteCellIs
<1> HIDE DEF q
<1>2. <<Comma>> \o q \in Seq(Characters)
  BY <1>1, TextsAre, ConcatIsText
<1> QED BY <1>1, <1>2 DEF Piece, q

(* A line with one more cell.                                              *)
LEMMA CellsOfLineNext ==
  ASSUME NEW cells \in RawRow, NEW v \in Seq(Characters)
  PROVE  /\ CellsOfLine(cells) \in Seq(Characters)
         /\ CellsOfLine(Append(cells, v)) = CellsOfLine(cells) \o Piece(Len(cells) + 1, v)
<1> DEFINE n == Len(cells)
           u == Append(cells, v)
           f == [i \in 1 .. n |-> Piece(i, cells[i])]
           g == [i \in 1 .. n + 1 |-> Piece(i, u[i])]
           S == Seq(Characters)
<1>0. cells \in Seq(S) /\ v \in S
  BY DEF RawRow
<1> HIDE DEF S
<1>1. n \in Nat /\ DOMAIN cells = 1 .. n /\ \A i \in 1 .. n : cells[i] \in S
  BY <1>0, LenProperties, ElementOfSeq
<1>2. u \in Seq(S) /\ Len(u) = n + 1 /\ u[n + 1] = v /\ \A i \in 1 .. n : u[i] = cells[i]
  BY <1>0, AppendProperties
<1> HIDE DEF u
<1>3. DOMAIN u = 1 .. n + 1 /\ \A i \in 1 .. n + 1 : u[i] \in S
  BY <1>2, LenProperties, ElementOfSeq
<1>4. CellsOfLine(cells) = FlattenSeq(f) /\ CellsOfLine(u) = FlattenSeq(g)
  BY <1>1, <1>3 DEF CellsOfLine
<1> HIDE DEF n
<1>5. f \in [1 .. n -> Seq(Characters)] /\ g \in [1 .. n + 1 -> Seq(Characters)]
  BY <1>1, <1>3, PieceIs DEF S
<1>6. (\A i \in 1 .. n : g[i] = f[i]) /\ g[n + 1] = Piece(n + 1, v)
  <2>1. n + 1 \in 1 .. n + 1 /\ \A i \in 1 .. n : i \in 1 .. n + 1
    BY <1>1
  <2> QED BY <1>2, <2>1
<1> HIDE DEF f, g
<1>7. FlattenSeq(f) \in Seq(Characters) /\ FlattenSeq(g) = FlattenSeq(f) \o g[n + 1]
  BY <1>1, <1>5, <1>6, FlattenNext
<1> QED BY <1>4, <1>6, <1>7 DEF u, n

(* A line with none.                                                       *)
LEMMA CellsOfLineEmpty == CellsOfLine(<<>>) = <<>>
<1>1. [i \in DOMAIN <<>> |-> Piece(i, <<>>[i])] = <<>>
  OBVIOUS
<1> QED BY <1>1, FlattenOfNothing DEF CellsOfLine

(* The quoted cells of a row, one for each.                                *)
LEMMA QuoteCellsAre ==
  ASSUME NEW cells \in RawRow
  PROVE  /\ QuoteCells(cells) \in Texts /\ Len(QuoteCells(cells)) = Len(cells)
         /\ DOMAIN QuoteCells(cells) = DOMAIN cells
         /\ \A k \in DOMAIN cells :
              cells[k] \in Seq(Characters) /\ QuoteCells(cells)[k] = QuoteCell(cells[k])
<1> DEFINE n == Len(cells)
           S == Seq(Characters)
           q == [k \in 1 .. n |-> QuoteCell(cells[k])]
<1>0. cells \in Seq(S)
  BY DEF RawRow
<1>1. \A v \in S : QuoteCell(v) \in S
  BY QuoteCellIs
<1> HIDE DEF S
<1>2. n \in Nat /\ DOMAIN cells = 1 .. n /\ \A k \in 1 .. n : cells[k] \in S
  BY <1>0, LenProperties, ElementOfSeq
<1>3. QuoteCells(cells) = q
  BY <1>2 DEF QuoteCells
<1> HIDE DEF n
<1>4. q \in [1 .. n -> S]
  BY <1>1, <1>2
<1>5. q \in Seq(S) /\ Len(q) = n /\ DOMAIN q = 1 .. n
  BY <1>2, <1>4, FunctionIsSeq
<1>6. \A k \in 1 .. n : q[k] = QuoteCell(cells[k])
  OBVIOUS
<1> HIDE DEF q
<1> QED BY <1>2, <1>3, <1>5, <1>6 DEF n, S, Texts

(* One more quoted cell.                                                   *)
LEMMA QuoteCellsNext ==
  ASSUME NEW cells \in RawRow, NEW v \in Seq(Characters)
  PROVE  /\ Append(cells, v) \in RawRow
         /\ QuoteCells(Append(cells, v)) = Append(QuoteCells(cells), QuoteCell(v))
<1> DEFINE S == Seq(Characters)
           u == Append(cells, v)
           a == QuoteCells(u)
           q == QuoteCells(cells)
           c == QuoteCell(v)
           b == Append(q, c)
           n == Len(cells)
<1>1. u \in Seq(S) /\ Len(u) = n + 1 /\ n \in Nat /\ u[n + 1] = v /\ \A i \in 1 .. n : u[i] = cells[i]
  <2>1. cells \in Seq(S) /\ v \in S
    BY DEF RawRow
  <2> HIDE DEF S
  <2> QED BY <2>1, AppendProperties, LenProperties
<1>2. u \in RawRow
  BY <1>1 DEF RawRow
<1> HIDE DEF u
<1>3. DOMAIN u = 1 .. n + 1 /\ DOMAIN cells = 1 .. n
  <2>1. cells \in Seq(S)
    BY DEF RawRow
  <2> HIDE DEF S
  <2> QED BY <1>1, <2>1, LenProperties
<1>4. a \in Seq(S) /\ Len(a) = n + 1 /\ \A k \in 1 .. n + 1 : a[k] = QuoteCell(u[k])
  BY <1>1, <1>2, <1>3, QuoteCellsAre DEF Texts
<1>5. q \in Seq(S) /\ Len(q) = n /\ \A k \in 1 .. n : q[k] = QuoteCell(cells[k])
  BY <1>3, QuoteCellsAre DEF Texts
<1>6. c \in S
  BY QuoteCellIs
<1> HIDE DEF S, a, q, n
<1>7. b \in Seq(S) /\ Len(b) = n + 1 /\ b[n + 1] = c /\ \A i \in 1 .. n : b[i] = q[i]
  BY <1>5, <1>6, AppendProperties
<1> HIDE DEF b, c
<1>8. ASSUME NEW k \in 1 .. n + 1 PROVE a[k] = b[k]
  <2>1. k \in 1 .. n \/ k = n + 1
    BY <1>1
  <2> QED BY <1>1, <1>4, <1>5, <1>7, <2>1 DEF c
<1>9. a = b
  BY <1>4, <1>7, <1>8, SeqEqual
<1> QED BY <1>2, <1>9 DEF a, b, c, q, u

(* After the text u, which follows t, the row at hand has the given cells. *)
InRow(t, u, cells) ==
  /\ u \in Seq(Characters) /\ CompleteRecords(u) = CompleteRecords(t)
  /\ Append(DoneFields(u), OpenField(u)) = QuoteCells(cells)
  /\ Even(OpenField(u))

(* No cells.                                                               *)
LEMMA QuoteCellsEmpty == QuoteCells(<<>>) = <<>> /\ <<>> \in RawRow
<1>1. [k \in DOMAIN <<>> |-> QuoteCell(<<>>[k])] = <<>>
  OBVIOUS
<1>2. <<>> \in RawRow
  BY DEF RawRow
<1> QED BY <1>1, <1>2 DEF QuoteCells

(* The first cell of a row is read.                                        *)
LEMMA FirstCellRead ==
  ASSUME NEW t \in Seq(Characters), DoneFields(t) = <<>>, OpenField(t) = <<>>,
         NEW v \in Seq(Characters)
  PROVE  InRow(t, t \o CellsOfLine(Append(<<>>, v)), Append(<<>>, v))
<1> DEFINE q == QuoteCell(v)
           one == Append(<<>>, v)
           line == CellsOfLine(one)
           u == t \o q
<1>1. q \in Seq(Characters) /\ Even(q)
  BY QuoteCellIs, QuotedCell
<1>2. line = q
  <2>1. <<>> \in RawRow /\ CellsOfLine(<<>>) = <<>> /\ Len(<<>>) = 0
    BY QuoteCellsEmpty, CellsOfLineEmpty
  <2>2. line = <<>> \o Piece(0 + 1, v)
    BY <2>1, CellsOfLineNext
  <2>3. Piece(0 + 1, v) = q
    BY DEF Piece
  <2> HIDE DEF q, line
  <2>4. <<>> \o q = q
    BY <1>1, ConcatIsText
  <2> QED BY <2>2, <2>3, <2>4
<1>3. Opens(t, u, q)
  BY CellRead
<1>4. QuoteCells(one) = Append(<<>>, q)
  BY QuoteCellsEmpty, QuoteCellsNext
<1> HIDE DEF q, one, line, u
<1>5. InRow(t, u, one)
  BY <1>1, <1>3, <1>4 DEF InRow, Opens
<1>6. t \o line = u
  BY <1>2 DEF u
<1> QED BY <1>5, <1>6 DEF line, one

(* Any other cell is read after the comma before it.                       *)
LEMMA NextCellRead ==
  ASSUME NEW t \in Seq(Characters), NEW cells \in RawRow, cells # <<>>,
         InRow(t, t \o CellsOfLine(cells), cells), NEW v \in Seq(Characters)
  PROVE  InRow(t, t \o CellsOfLine(Append(cells, v)), Append(cells, v))
<1> DEFINE q == QuoteCell(v)
           C == CellsOfLine(cells)
           more == Append(cells, v)
           u == t \o C
           w == Append(u, Comma)
           z == w \o q
<1>1. q \in Seq(Characters) /\ Even(q) /\ C \in Seq(Characters) /\ Comma \in Characters
  BY QuoteCellIs, QuotedCell, CellsOfLineNext, CharactersAre
<1>2. CellsOfLine(more) = C \o (<<Comma>> \o q)
  <2>1. CellsOfLine(more) = C \o Piece(Len(cells) + 1, v)
    BY CellsOfLineNext
  <2>2. Len(cells) \in Nat /\ Len(cells) # 0
    <3> DEFINE S == Seq(Characters)
    <3>1. cells \in Seq(S)
      BY DEF RawRow
    <3> HIDE DEF S
    <3> QED BY <3>1, EmptySeq, LenProperties
  <2>3. Len(cells) + 1 # 1
    BY <2>2
  <2> QED BY <2>1, <2>3 DEF Piece
<1>3. InRow(t, u, cells)
  OBVIOUS
<1>4. QuoteCells(more) = Append(QuoteCells(cells), q)
  BY QuoteCellsNext
<1>5. t \o CellsOfLine(more) = z
  <2> HIDE DEF q, C, more
  <2> DEFINE c == <<Comma>>
  <2>1. c \in Seq(Characters) /\ u \in Seq(Characters)
    BY <1>1, TextsAre, ConcatIsText
  <2>2. u \o c = w
    BY <1>1, <2>1, OneCharacter
  <2> HIDE DEF c
  <2>3. t \o (C \o (c \o q)) = (t \o C) \o (c \o q)
    <3>1. c \o q \in Seq(Characters)
      BY <1>1, <2>1, ConcatIsText
    <3> QED BY <1>1, <3>1, TextsThree, ZenonT(40)
  <2> HIDE DEF u
  <2>4. u \o (c \o q) = (u \o c) \o q
    BY <1>1, <2>1, TextsThree, ZenonT(40)
  <2> QED BY <1>2, <2>2, <2>3, <2>4 DEF u, c
<1> HIDE DEF q, C, more, u
<1>6. /\ u \in Seq(Characters) /\ w \in Seq(Characters)
      /\ CompleteRecords(w) = CompleteRecords(t)
      /\ DoneFields(w) = QuoteCells(cells)
      /\ OpenField(w) = <<>>
  <2>1. u \in Seq(Characters) /\ Even(OpenField(u)) /\ CompleteRecords(u) = CompleteRecords(t)
        /\ Append(DoneFields(u), OpenField(u)) = QuoteCells(cells)
    BY <1>3 DEF InRow
  <2>2. w \in Seq(Characters)
    BY <1>1, <2>1, AppendProperties
  <2>3. /\ CompleteRecords(w) = CompleteRecords(u)
        /\ DoneFields(w) = Append(DoneFields(u), OpenField(u))
        /\ OpenField(w) = <<>>
    BY <1>1, <2>1, CommaStep
  <2> HIDE DEF w
  <2> QED BY <2>1, <2>2, <2>3
<1> HIDE DEF w
<1>7. Opens(w, z, q)
  BY <1>6, CellRead DEF q
<1> HIDE DEF z
<1>8. InRow(t, z, more)
  BY <1>1, <1>4, <1>6, <1>7 DEF InRow, Opens
<1> QED BY <1>5, <1>8 DEF more

(* So all cells of a row are read, before the line ends.                   *)
LEMMA RowRead ==
  ASSUME NEW t \in Seq(Characters), DoneFields(t) = <<>>, OpenField(t) = <<>>
  PROVE  \A cells \in RawRow : cells # <<>> => InRow(t, t \o CellsOfLine(cells), cells)
<1> DEFINE S == Seq(Characters)
           Q == {cells \in RawRow : cells # <<>> => InRow(t, t \o CellsOfLine(cells), cells)}
<1>1. <<>> \in Q
  BY QuoteCellsEmpty
<1>2. \A cells \in RawRow : cells \in Q => \A v \in S : Append(cells, v) \in Q
  <2> SUFFICES ASSUME NEW cells \in RawRow, cells \in Q, NEW v \in S PROVE Append(cells, v) \in Q
    OBVIOUS
  <2>1. Append(cells, v) \in RawRow
    BY QuoteCellsNext
  <2>2. InRow(t, t \o CellsOfLine(Append(cells, v)), Append(cells, v))
    <3>1. CASE cells = <<>>
      BY <3>1, FirstCellRead
    <3>2. CASE cells # <<>>
      BY <3>2, NextCellRead
    <3> QED BY <3>1, <3>2
  <2> QED BY <2>1, <2>2
<1>3. RawRow = Seq(S)
  BY DEF RawRow
<1> HIDE DEF Q, S
<1>4. \A cells \in RawRow : cells \in Q
  BY <1>1, <1>2, <1>3, SeqInduction
<1> QED BY <1>4 DEF Q

(* The text u ends t with one more record, which has the given cells.      *)
Recorded(t, u, cells) ==
  /\ u \in Seq(Characters) /\ Rest(u) = <<>>
  /\ \E r \in Seq(Characters) :
       /\ CompleteRecords(u) = Append(CompleteRecords(t), r)
       /\ Fields(r) = QuoteCells(cells)

(* The end of the line makes a record of the row.                          *)
LEMMA LineEnds ==
  ASSUME NEW t \in Seq(Characters), NEW u, NEW cells, InRow(t, u, cells)
  PROVE  Recorded(t, u \o <<CR, LF>>, cells)
<1> DEFINE v == Append(u, CR)
           w == Append(v, LF)
           f == OpenField(u)
           g == Append(f, CR)
           r == Front(Rest(v))
<1>1. /\ u \in Seq(Characters) /\ CompleteRecords(u) = CompleteRecords(t) /\ Even(f)
      /\ Append(DoneFields(u), f) = QuoteCells(cells)
  BY DEF InRow
<1>2. CR \in Characters /\ LF \in Characters /\ CR # LF /\ CR # Comma /\ CR # Quote
  BY CharactersAre, Apart
<1>3. f \in Seq(Characters)
  BY <1>1, TextHas
<1>4. u \o <<CR, LF>> = w
  BY <1>1, <1>2, TwoCharacters
<1>5. v \in Seq(Characters) /\ w \in Seq(Characters)
  BY <1>1, <1>2, AppendProperties
<1>6. ~Closes(f, CR)
  BY <1>2 DEF Closes
<1>7. /\ CompleteRecords(v) = CompleteRecords(u) /\ DoneFields(v) = DoneFields(u)
      /\ OpenField(v) = g
  BY <1>1, <1>2, <1>6, InFieldStep
<1> HIDE DEF f
<1>8. g \in Seq(Characters) /\ g # <<>> /\ Last(g) = CR /\ Front(g) = f
  BY <1>2, <1>3, AppendIsNot
<1>9. Even(g)
  BY <1>1, <1>2, <1>3, EvenOfAppend
<1>10. Len(g) > 0
  BY <1>2, <1>3, AppendProperties, LenProperties
<1> HIDE DEF g
<1>11. Closes(g, LF)
  BY <1>8, <1>9, <1>10 DEF Closes
<1> HIDE DEF v
<1>12. /\ CompleteRecords(w) = Append(CompleteRecords(v), r) /\ r \in Seq(Characters)
       /\ Fields(r) = Append(DoneFields(v), Front(g)) /\ Rest(w) = <<>>
  BY <1>2, <1>5, <1>7, <1>11, RowEndStep
<1> HIDE DEF w, r
<1>13. CompleteRecords(w) = Append(CompleteRecords(t), r) /\ Fields(r) = QuoteCells(cells)
  BY <1>1, <1>7, <1>8, <1>12
<1>14. Recorded(t, w, cells)
  BY <1>5, <1>12, <1>13 DEF Recorded
<1> QED BY <1>4, <1>14

(* A line is its cells and the line end.                                   *)
LEMMA LineHas ==
  ASSUME NEW cells
  PROVE  Line(cells) = CellsOfLine(cells) \o <<CR, LF>>
<1> QED BY DEF Line, CellsOfLine, Piece

(* A whole line is one record with its cells.                              *)
LEMMA LineRead ==
  ASSUME NEW t \in Seq(Characters), Rest(t) = <<>>, NEW cells \in RawRow, cells # <<>>
  PROVE  Recorded(t, t \o Line(cells), cells)
<1> DEFINE C == CellsOfLine(cells)
           e == <<CR, LF>>
           u == t \o C
<1>1. DoneFields(t) = <<>> /\ OpenField(t) = <<>>
  BY RestHas
<1>2. InRow(t, u, cells)
  BY <1>1, RowRead
<1>3. C \in Seq(Characters) /\ e \in Seq(Characters)
  <2>1. QuoteCells(cells) = QuoteCells(cells) /\ <<>> \in Seq(Characters)
    BY EmptySeq
  <2>2. C \in Seq(Characters)
    BY <2>1, CellsOfLineNext
  <2> QED BY <2>2, TextsAre
<1>4. Line(cells) = C \o e
  BY LineHas
<1>5. Recorded(t, u \o e, cells)
  BY <1>2, LineEnds
<1> HIDE DEF C, e
<1>6. t \o (C \o e) = u \o e
  BY <1>3, TextsThree
<1> QED BY <1>4, <1>5, <1>6

(* What a line means once it is read.                                      *)
Protecteds(cells) == [k \in DOMAIN cells |-> FormulaProtected(cells[k])]
GoodCells(cells) ==
  Len(cells) <= MaxColumns /\ \A k \in DOMAIN cells : Importable(cells[k])

(* The record of a line says its protected cells, and keeps to the grammar *)
(* and the limits exactly if each cell can be taken back.                  *)
LEMMA RecordMeans ==
  ASSUME NEW cells \in RawRow, NEW r \in Seq(Characters), Fields(r) = QuoteCells(cells)
  PROVE  /\ Cells(r) = Protecteds(cells)
         /\ GoodRecord(r) <=> GoodCells(cells)
<1>1. /\ Len(Fields(r)) = Len(cells) /\ DOMAIN Fields(r) = DOMAIN cells
      /\ \A k \in DOMAIN cells :
           cells[k] \in Seq(Characters) /\ Fields(r)[k] = QuoteCell(cells[k])
  BY QuoteCellsAre
<1>2. \A k \in DOMAIN cells :
        /\ Value(Fields(r)[k]) = FormulaProtected(cells[k])
        /\ Good(Fields(r)[k]) <=> Importable(cells[k])
  BY <1>1, QuotedCell
<1>3. Cells(r) = Protecteds(cells)
  BY <1>1, <1>2 DEF Cells, Protecteds
<1>4. AllGood(Fields(r)) <=> \A k \in DOMAIN cells : Importable(cells[k])
  BY <1>1, <1>2 DEF AllGood
<1> QED BY <1>1, <1>3, <1>4 DEF GoodRecord, GoodCells

(***************************************************************************)
(* Rows of the exporter, and the rows they are read as.                    *)
(***************************************************************************)
(* A sequence given by a function, and one more member.                    *)
LEMMA FunctionNext ==
  ASSUME NEW S, NEW n \in Nat, NEW f \in [1 .. n -> S], NEW g \in [1 .. n + 1 -> S],
         \A i \in 1 .. n : g[i] = f[i]
  PROVE  f \in Seq(S) /\ g \in Seq(S) /\ g = Append(f, g[n + 1])
<1> DEFINE c == g[n + 1]
           h == Append(f, c)
<1>1. /\ f \in Seq(S) /\ Len(f) = n
      /\ g \in Seq(S) /\ Len(g) = n + 1
  BY FunctionIsSeq
<1>2. c \in S
  OBVIOUS
<1> HIDE DEF c
<1>3. h \in Seq(S) /\ Len(h) = n + 1 /\ h[n + 1] = c /\ \A i \in 1 .. n : h[i] = f[i]
  BY <1>1, <1>2, AppendProperties
<1> HIDE DEF h
<1>4. ASSUME NEW k \in 1 .. n + 1 PROVE g[k] = h[k]
  <2>1. k \in 1 .. n \/ k = n + 1
    OBVIOUS
  <2> QED BY <1>3, <2>1 DEF c
<1>5. g = h
  BY <1>1, <1>3, <1>4, SeqEqual
<1> QED BY <1>1, <1>5 DEF h, c

ProtectedRows(all) == [k \in DOMAIN all |-> Protecteds(all[k])]
GoodRows(all) == \A k \in DOMAIN all : GoodCells(all[k])

(* The protected cells of a row, one for each.                             *)
LEMMA ProtectedsAre ==
  ASSUME NEW cells \in RawRow
  PROVE  /\ Protecteds(cells) \in RawRow /\ Len(Protecteds(cells)) = Len(cells)
         /\ DOMAIN Protecteds(cells) = DOMAIN cells
         /\ \A k \in DOMAIN cells :
              cells[k] \in Seq(Characters) /\ Protecteds(cells)[k] = FormulaProtected(cells[k])
<1> DEFINE n == Len(cells)
           S == Seq(Characters)
           q == [k \in 1 .. n |-> FormulaProtected(cells[k])]
<1>0. cells \in Seq(S)
  BY DEF RawRow
<1>1. \A v \in S : FormulaProtected(v) \in S
  BY ProtectedIs
<1> HIDE DEF S
<1>2. n \in Nat /\ DOMAIN cells = 1 .. n /\ \A k \in 1 .. n : cells[k] \in S
  BY <1>0, LenProperties, ElementOfSeq
<1>3. Protecteds(cells) = q
  BY <1>2 DEF Protecteds
<1> HIDE DEF n
<1>4. q \in [1 .. n -> S]
  BY <1>1, <1>2
<1>5. q \in Seq(S) /\ Len(q) = n /\ DOMAIN q = 1 .. n
  BY <1>2, <1>4, FunctionIsSeq
<1>6. \A k \in 1 .. n : q[k] = FormulaProtected(cells[k])
  OBVIOUS
<1> HIDE DEF q
<1> QED BY <1>2, <1>3, <1>5, <1>6 DEF n, S, RawRow

(* Rows, and one more row.                                                 *)
LEMMA RowsNext ==
  ASSUME NEW all \in Raws, NEW cells \in RawRow
  PROVE  /\ Append(all, cells) \in Raws
         /\ ProtectedRows(Append(all, cells)) = Append(ProtectedRows(all), Protecteds(cells))
         /\ ProtectedRows(all) \in Raws
         /\ GoodRows(Append(all, cells)) <=> GoodRows(all) /\ GoodCells(cells)
<1> DEFINE n == Len(all)
           u == Append(all, cells)
           f == [k \in 1 .. n |-> Protecteds(all[k])]
           g == [k \in 1 .. n + 1 |-> Protecteds(u[k])]
<1>0. all \in Seq(RawRow) /\ \A v \in RawRow : Protecteds(v) \in RawRow
  BY ProtectedsAre DEF Raws, RawRow
<1>1. n \in Nat /\ DOMAIN all = 1 .. n /\ \A k \in 1 .. n : all[k] \in RawRow
  BY <1>0, LenProperties, ElementOfSeq
<1>2. u \in Seq(RawRow) /\ Len(u) = n + 1 /\ u[n + 1] = cells /\ \A k \in 1 .. n : u[k] = all[k]
  BY <1>0, AppendProperties
<1> HIDE DEF u
<1>3. DOMAIN u = 1 .. n + 1 /\ \A k \in 1 .. n + 1 : u[k] \in RawRow
  BY <1>2, LenProperties, ElementOfSeq
<1>4. ProtectedRows(all) = f /\ ProtectedRows(u) = g
  BY <1>1, <1>3 DEF ProtectedRows
<1> HIDE DEF n
<1>5. \A k \in 1 .. n + 1 : k \in 1 .. n \/ k = n + 1
  BY <1>1
<1>6. n + 1 \in 1 .. n + 1 /\ \A k \in 1 .. n : k \in 1 .. n + 1
  BY <1>1
<1>7. f \in [1 .. n -> RawRow] /\ g \in [1 .. n + 1 -> RawRow]
  BY <1>0, <1>1, <1>3
<1>8. (\A k \in 1 .. n : g[k] = f[k]) /\ g[n + 1] = Protecteds(cells)
  BY <1>2, <1>6
<1>9. GoodRows(u) <=> GoodRows(all) /\ GoodCells(cells)
  BY <1>1, <1>2, <1>3, <1>5, <1>6 DEF GoodRows
<1> HIDE DEF f, g
<1>10. f \in Seq(RawRow) /\ g = Append(f, g[n + 1])
  BY <1>1, <1>7, <1>8, FunctionNext
<1> QED BY <1>2, <1>4, <1>8, <1>9, <1>10 DEF u, Raws, RawRow

(* A text of whole lines, and what the reader makes of it.                 *)
ReadAs(t, all) ==
  /\ t \in Seq(Characters) /\ Rest(t) = <<>>
  /\ Table(CompleteRecords(t)) = ProtectedRows(all)
  /\ AllGoodRecords(CompleteRecords(t)) <=> GoodRows(all)

(* A whole line more is one row more.                                      *)
LEMMA ReadNext ==
  ASSUME NEW t, NEW all \in Raws, ReadAs(t, all), NEW cells \in RawRow, cells # <<>>
  PROVE  ReadAs(t \o Line(cells), Append(all, cells))
<1> DEFINE u == t \o Line(cells)
<1>1. t \in Seq(Characters) /\ Rest(t) = <<>> /\ CompleteRecords(t) \in Seq(Seq(Characters))
  BY TextHas DEF ReadAs
<1>2. Recorded(t, u, cells)
  BY <1>1, LineRead
<1> HIDE DEF u
<1>3. PICK r \in Seq(Characters) :
        /\ CompleteRecords(u) = Append(CompleteRecords(t), r)
        /\ Fields(r) = QuoteCells(cells)
  BY <1>2 DEF Recorded
<1>4. Cells(r) = Protecteds(cells) /\ (GoodRecord(r) <=> GoodCells(cells))
  BY <1>3, RecordMeans
<1>5. Table(CompleteRecords(u)) = Append(Table(CompleteRecords(t)), Cells(r))
  BY <1>1, <1>3, TableOfAppend
<1>6. AllGoodRecords(CompleteRecords(u)) <=> AllGoodRecords(CompleteRecords(t)) /\ GoodRecord(r)
  BY <1>1, <1>3, AllRecordsOfAppend
<1>7. ReadAs(u, Append(all, cells))
  BY <1>2, <1>4, <1>5, <1>6, RowsNext DEF ReadAs, Recorded
<1> QED BY <1>7 DEF u

(* No text, no rows.                                                       *)
LEMMA ReadNothing == ReadAs(<<>>, <<>>)
<1>1. <<>> \in Seq(Characters) /\ CompleteRecords(<<>>) = <<>> /\ Rest(<<>>) = <<>>
  BY NoText
<1>2. Table(<<>>) = ProtectedRows(<<>>)
  <2>1. [k \in DOMAIN <<>> |-> Cells(<<>>[k])] = <<>> /\ [k \in DOMAIN <<>> |-> Protecteds(<<>>[k])] = <<>>
    OBVIOUS
  <2> QED BY <2>1 DEF Table, ProtectedRows
<1>3. AllGoodRecords(<<>>) /\ GoodRows(<<>>)
  BY DEF AllGoodRecords, GoodRows
<1> QED BY <1>1, <1>2, <1>3 DEF ReadAs

(* Rows of at least one cell, and their lines.                             *)
FullRow == {cells \in RawRow : cells # <<>>}
LinesOf(ls) == FlattenSeq([k \in DOMAIN ls |-> Line(ls[k])])

(* They are rows.                                                          *)
LEMMA FullRowsAreRaw ==
  ASSUME NEW all \in Seq(FullRow)
  PROVE  all \in Raws
<1>1. \A k \in 1 .. Len(all) : all[k] \in RawRow
  BY ElementOfSeq DEF FullRow
<1>2. DOMAIN all = 1 .. Len(all) /\ Len(all) \in Nat /\ all = [k \in 1 .. Len(all) |-> all[k]]
  BY LenProperties, SeqDef
<1>3. all \in [1 .. Len(all) -> RawRow]
  BY <1>1, <1>2
<1>4. all \in Seq(RawRow)
  BY <1>2, <1>3, FunctionIsSeq
<1> QED BY <1>4 DEF Raws, RawRow

(* One more line.                                                          *)
LEMMA LinesOfNext ==
  ASSUME NEW ls \in Seq(FullRow), NEW cells \in FullRow
  PROVE  /\ LinesOf(ls) \in Seq(Characters) /\ Line(cells) \in Seq(Characters)
         /\ LinesOf(Append(ls, cells)) = LinesOf(ls) \o Line(cells)
<1> DEFINE n == Len(ls)
           u == Append(ls, cells)
           f == [k \in 1 .. n |-> Line(ls[k])]
           g == [k \in 1 .. n + 1 |-> Line(u[k])]
<1>0. \A v \in FullRow : Line(v) \in Seq(Characters)
  BY LineIs DEF FullRow
<1>1. n \in Nat /\ DOMAIN ls = 1 .. n /\ \A k \in 1 .. n : ls[k] \in FullRow
  BY LenProperties, ElementOfSeq
<1>2. /\ u \in Seq(FullRow) /\ Len(u) = n + 1 /\ u[n + 1] = cells
      /\ \A k \in 1 .. n : u[k] = ls[k]
  BY AppendProperties
<1> HIDE DEF u
<1>3. DOMAIN u = 1 .. n + 1 /\ \A k \in 1 .. n + 1 : u[k] \in FullRow
  BY <1>2, LenProperties, ElementOfSeq
<1>4. LinesOf(ls) = FlattenSeq(f) /\ LinesOf(u) = FlattenSeq(g)
  BY <1>1, <1>3 DEF LinesOf
<1> HIDE DEF n
<1>5. f \in [1 .. n -> Seq(Characters)] /\ g \in [1 .. n + 1 -> Seq(Characters)]
  BY <1>0, <1>1, <1>3
<1>6. (\A k \in 1 .. n : g[k] = f[k]) /\ g[n + 1] = Line(cells)
  <2>1. n + 1 \in 1 .. n + 1 /\ \A k \in 1 .. n : k \in 1 .. n + 1
    BY <1>1
  <2> QED BY <1>2, <2>1
<1> HIDE DEF f, g
<1>7. FlattenSeq(f) \in Seq(Characters) /\ FlattenSeq(g) = FlattenSeq(f) \o g[n + 1]
  BY <1>1, <1>5, <1>6, FlattenNext
<1> QED BY <1>0, <1>4, <1>6, <1>7 DEF u

(* No lines.                                                               *)
LEMMA LinesOfNothing == LinesOf(<<>>) = <<>>
<1>1. [k \in DOMAIN <<>> |-> Line(<<>>[k])] = <<>>
  OBVIOUS
<1> QED BY <1>1, FlattenOfNothing DEF LinesOf

(* A header line and any lines after it are read as these rows.            *)
LEMMA SheetRead ==
  ASSUME NEW H \in FullRow
  PROVE  \A ls \in Seq(FullRow) :
           /\ ReadAs(Line(H) \o LinesOf(ls), <<H>> \o ls)
           /\ <<H>> \o ls \in Raws
<1> DEFINE h == Line(H)
           one == <<H>>
           P(ls) == ReadAs(h \o LinesOf(ls), one \o ls) /\ one \o ls \in Seq(FullRow)
           Q == {ls \in Seq(FullRow) : P(ls)}
<1>1. h \in Seq(Characters) /\ H \in RawRow /\ H # <<>>
  BY LineIs DEF FullRow
<1>2. one \in Seq(FullRow) /\ one = Append(<<>>, H)
  OBVIOUS
<1>3. ReadAs(h, one)
  <2>1. <<>> \in Raws
    BY DEF Raws
  <2>2. ReadAs(<<>> \o h, Append(<<>>, H))
    BY <1>1, <2>1, ReadNothing, ReadNext
  <2> HIDE DEF h
  <2>3. <<>> \o h = h
    BY <1>1, ConcatIsText
  <2> QED BY <1>2, <2>2, <2>3
<1> HIDE DEF h, one
<1>4. <<>> \in Q
  <2>1. h \o <<>> = h /\ one \o <<>> = one /\ <<>> \in Seq(FullRow)
    <3>1. h \o <<>> = h
      BY <1>1, ConcatIsText
    <3>2. one \o <<>> = one
      BY <1>2, ConcatIsText
    <3> QED BY <3>1, <3>2, EmptySeq
  <2> QED BY <1>2, <1>3, <2>1, LinesOfNothing
<1>5. \A ls \in Seq(FullRow) : ls \in Q => \A cells \in FullRow : Append(ls, cells) \in Q
  <2> SUFFICES ASSUME NEW ls \in Seq(FullRow), ls \in Q, NEW cells \in FullRow
               PROVE  Append(ls, cells) \in Q
    OBVIOUS
  <2> DEFINE L == LinesOf(ls)
             all == one \o ls
             l == Line(cells)
             more == Append(ls, cells)
  <2>1. L \in Seq(Characters) /\ l \in Seq(Characters) /\ LinesOf(more) = L \o l
    BY LinesOfNext
  <2>2. ReadAs(h \o L, all) /\ all \in Seq(FullRow)
    OBVIOUS
  <2>3. cells \in RawRow /\ cells # <<>>
    BY DEF FullRow
  <2>4. all \in Raws
    BY <2>2, FullRowsAreRaw
  <2>5. ReadAs((h \o L) \o l, Append(all, cells))
    BY <2>2, <2>3, <2>4, ReadNext
  <2>6. one \o more = Append(all, cells) /\ more \in Seq(FullRow)
    BY <1>2, ConcatAppend, AppendProperties
  <2>7. Append(all, cells) \in Seq(FullRow)
    BY <2>2, AppendProperties
  <2> HIDE DEF L, l, all, more
  <2>8. h \o (L \o l) = (h \o L) \o l
    BY <1>1, <2>1, TextsThree
  <2>9. P(more)
    BY <2>1, <2>5, <2>6, <2>7, <2>8
  <2>10. more \in Q
    BY <2>6, <2>9
  <2> QED BY <2>10 DEF more
<1> HIDE DEF Q
<1>6. \A ls \in Seq(FullRow) : ls \in Q
  BY <1>4, <1>5, SeqInduction
<1>7. ASSUME NEW ls \in Seq(FullRow) PROVE one \o ls \in Raws
  <2> DEFINE all == one \o ls
  <2>2. all \in Seq(FullRow)
    BY <1>6 DEF Q
  <2> HIDE DEF all
  <2>3. all \in Raws
    BY <2>2, FullRowsAreRaw
  <2> QED BY <2>3 DEF all
<1> QED BY <1>6, <1>7 DEF Q, h, one

(* A quoted cell begins with its quote.                                    *)
LEMMA CellBegins ==
  ASSUME NEW v \in Seq(Characters)
  PROVE  QuoteCell(v) # <<>> /\ QuoteCell(v)[1] = Quote
<1> DEFINE d == Doubled(FormulaProtected(v))
           q == QuoteThen(d)
           S == Characters
<1>1. Quote \in S /\ d \in Seq(S)
  BY CharactersAre, ProtectedIs, DoubledNext
<1>2. QuoteCell(v) = Append(q, Quote)
  BY QuotedCell DEF Quoting
<1> HIDE DEF d, S
<1>3. q \in Seq(S) /\ Len(q) = Len(d) + 1 /\ Len(d) \in Nat /\ q[1] = Quote
  BY <1>1, QuoteThenIs
<1> HIDE DEF q
<1>4. 1 \in 1 .. Len(q)
  BY <1>3
<1>5. Append(q, Quote) # <<>> /\ Append(q, Quote)[1] = q[1]
  BY <1>1, <1>3, <1>4, AppendIsNot, AppendProperties
<1> QED BY <1>2, <1>3, <1>5

(* So does every line.                                                     *)
LEMMA LineBegins ==
  \A cells \in RawRow :
    cells # <<>> => CellsOfLine(cells) # <<>> /\ CellsOfLine(cells)[1] = Quote
<1> DEFINE S == Seq(Characters)
           B(t) == t # <<>> /\ t[1] = Quote
           Q == {cells \in RawRow : cells # <<>> => B(CellsOfLine(cells))}
<1>1. <<>> \in Q
  BY QuoteCellsEmpty
<1>2. \A cells \in RawRow : cells \in Q => \A v \in S : Append(cells, v) \in Q
  <2> SUFFICES ASSUME NEW cells \in RawRow, cells \in Q, NEW v \in S PROVE Append(cells, v) \in Q
    OBVIOUS
  <2> DEFINE C == CellsOfLine(cells)
             p == Piece(Len(cells) + 1, v)
             D == CellsOfLine(Append(cells, v))
  <2>1. Append(cells, v) \in RawRow
    BY QuoteCellsNext
  <2>2. C \in S /\ D = C \o p /\ p \in S
    BY CellsOfLineNext, PieceIs
  <2>3. B(D)
    <3>1. CASE cells = <<>>
      <4>1. C = <<>> /\ p = QuoteCell(v)
        BY <3>1, CellsOfLineEmpty DEF Piece
      <4> HIDE DEF D, p, C
      <4>2. D = p
        BY <2>2, <4>1, ConcatIsText
      <4> QED BY <4>1, <4>2, CellBegins
    <3>2. CASE cells # <<>>
      <4>1. B(C)
        BY <3>2
      <4> HIDE DEF C, D, p, S
      <4>2. C \o p # <<>> /\ (C \o p)[1] = C[1]
        BY <2>2, <4>1, ConcatFirst DEF S
      <4> QED BY <2>2, <4>1, <4>2
    <3> QED BY <3>1, <3>2
  <2> HIDE DEF D, B
  <2> QED BY <2>1, <2>3 DEF D
<1>3. RawRow = Seq(S)
  BY DEF RawRow
<1> HIDE DEF Q, S
<1>4. \A cells \in RawRow : cells \in Q
  BY <1>1, <1>2, <1>3, SeqInduction
<1> QED BY <1>4 DEF Q

(* The header and the lines of what is exported.                           *)
LineCells(given, row) == [i \in DOMAIN HeadersOf(given) |-> CellOf(row, HeadersOf(given)[i])]
SheetLines(given) ==
  [k \in DOMAIN StableRowSort(given) |-> LineCells(given, StableRowSort(given)[k])]
Sheet(given) == <<HeadersOf(given)>> \o SheetLines(given)
AreRows(given) == \A row \in ToSet(given) : IsRow(row)

(* There is always a column.                                               *)
LEMMA HeadersAreFull ==
  ASSUME NEW given
  PROVE  HeadersOf(given) \in FullRow
<1> DEFINE places == {i \in DOMAIN ExtraNames : ExtraNames[i] \in UNION {DOMAIN row \ ColumnSet : row \in ToSet(given)}}
           a == At(ExtraNames, places)
           S == Seq(Characters)
<1>1. Columns \in Seq(S) /\ Columns # <<>> /\ ExtraNames \in Seq(S)
  BY CodecAssumption
<1>2. HeadersOf(given) = Columns \o a
  BY DEF HeadersOf
<1>3. places \subseteq DOMAIN ExtraNames
  OBVIOUS
<1> HIDE DEF places, S
<1>4. a \in Seq(S)
  BY <1>1, <1>3, AtIs
<1> HIDE DEF a
<1>5. Columns \o a # <<>>
  BY <1>1, <1>4, ConcatFirst
<1> QED BY <1>2, <1>5, HeadersAre DEF FullRow

(* The cells of a row, one for each column.                                *)
LEMMA LineCellsAre ==
  ASSUME NEW given, NEW row, IsRow(row)
  PROVE  /\ LineCells(given, row) \in FullRow
         /\ Len(LineCells(given, row)) = Len(HeadersOf(given))
         /\ DOMAIN LineCells(given, row) = DOMAIN HeadersOf(given)
         /\ \A name : CellOf(row, name) \in Seq(Characters)
<1> DEFINE H == HeadersOf(given)
           n == Len(H)
           S == Seq(Characters)
           f == [i \in 1 .. n |-> CellOf(row, H[i])]
<1>1. H \in Seq(S) /\ H # <<>>
  BY HeadersAreFull DEF FullRow, RawRow
<1>2. \A name : CellOf(row, name) \in S
  BY TextsAre DEF CellOf, IsRow
<1> HIDE DEF S, H
<1>3. n \in Nat /\ DOMAIN H = 1 .. n /\ n # 0
  BY <1>1, LenProperties, EmptySeq
<1>4. LineCells(given, row) = f
  BY <1>3 DEF LineCells, H
<1> HIDE DEF n
<1>5. f \in [1 .. n -> S]
  BY <1>2
<1> HIDE DEF f
<1>6. f \in Seq(S) /\ Len(f) = n /\ DOMAIN f = 1 .. n
  BY <1>3, <1>5, FunctionIsSeq
<1>7. f # <<>>
  BY <1>3, <1>6, EmptySeq
<1> QED BY <1>2, <1>3, <1>4, <1>6, <1>7 DEF FullRow, RawRow, S, n, H

(* The lines of the rows, in the order of the identities.                  *)
LEMMA SheetLinesAre ==
  ASSUME NEW given, AreRows(given)
  PROVE  /\ SheetLines(given) \in Seq(FullRow)
         /\ Len(SheetLines(given)) = Len(StableRowSort(given))
         /\ DOMAIN SheetLines(given) = DOMAIN StableRowSort(given)
<1> DEFINE s == StableRowSort(given)
           m == Len(s)
           f == [k \in 1 .. m |-> LineCells(given, s[k])]
<1>1. s \in Seq(ToSet(given))
  BY SortedAre
<1> HIDE DEF s
<1>2. m \in Nat /\ DOMAIN s = 1 .. m /\ \A k \in 1 .. m : s[k] \in ToSet(given)
  BY <1>1, LenProperties, ElementOfSeq
<1>3. \A k \in 1 .. m : LineCells(given, s[k]) \in FullRow
  BY <1>2, LineCellsAre DEF AreRows
<1>4. SheetLines(given) = f
  BY <1>2 DEF SheetLines, s
<1> HIDE DEF m
<1>5. f \in [1 .. m -> FullRow]
  BY <1>3
<1> HIDE DEF f
<1>6. f \in Seq(FullRow) /\ Len(f) = m /\ DOMAIN f = 1 .. m
  BY <1>2, <1>5, FunctionIsSeq
<1> QED BY <1>2, <1>4, <1>6 DEF m, s

(* What is exported, read again.                                           *)
LEMMA ExportReads ==
  ASSUME NEW given, AreRows(given), NEW bom \in BOOLEAN
  PROVE  LET b == ExportCanonicalCsv(given, bom) IN
         /\ b \in Seq(Byte) /\ IsText(b)
         /\ Table(Records(TextOf(b))) = ProtectedRows(Sheet(given)) /\ Sheet(given) \in Raws
         /\ AllGoodRecords(Records(TextOf(b))) <=> GoodRows(Sheet(given))
<1> DEFINE H == HeadersOf(given)
           ls == SheetLines(given)
           text == Line(H) \o LinesOf(ls)
           b == ExportCanonicalCsv(given, bom)
           prefix == IF bom THEN Bom ELSE <<>>
<1>1. H \in FullRow /\ ls \in Seq(FullRow)
  BY HeadersAreFull, SheetLinesAre
<1>2. b = prefix \o BytesOf(text)
  <2> DEFINE s == StableRowSort(given)
             f == [k \in DOMAIN s |-> Line(LineCells(given, s[k]))]
             g == [k \in DOMAIN ls |-> Line(ls[k])]
  <2>1. b = prefix \o BytesOf(Line(H) \o FlattenSeq(f))
    BY DEF ExportCanonicalCsv, LineCells
  <2>2. DOMAIN ls = DOMAIN s
    BY SheetLinesAre
  <2>3. \A k \in DOMAIN s : ls[k] = LineCells(given, s[k])
    BY DEF SheetLines
  <2> HIDE DEF ls, s
  <2>4. f = g
    BY <2>2, <2>3
  <2> HIDE DEF b, H
  <2> QED BY <2>1, <2>4 DEF LinesOf
<1> HIDE DEF H, ls
<1>3. ReadAs(text, <<H>> \o ls) /\ <<H>> \o ls \in Raws
  BY <1>1, SheetRead
<1>4. text \in Seq(Characters) /\ Rest(text) = <<>>
  BY <1>3 DEF ReadAs
<1>5. text # <<>> /\ text[1] = Quote
  <2> DEFINE C == CellsOfLine(H)
             e == <<CR, LF>>
             L == LinesOf(ls)
             h == C \o e
             S == Characters
  <2>1. H \in RawRow /\ H # <<>>
    BY <1>1 DEF FullRow
  <2>2. C # <<>> /\ C[1] = Quote /\ C \in Seq(S) /\ e \in Seq(S)
    BY <2>1, LineBegins, CellsOfLineNext, TextsAre
  <2>3. L \in Seq(S)
    BY <1>1, LinesOfNext
  <2>4. Line(H) = h
    BY LineHas
  <2>5. text = h \o L
    BY <2>4
  <2> HIDE DEF C, e, L, S, text
  <2>6. h \in Seq(S) /\ h # <<>> /\ h[1] = Quote
    BY <2>2, ConcatFirst
  <2> HIDE DEF h
  <2>7. h \o L # <<>> /\ (h \o L)[1] = Quote
    BY <2>3, <2>6, ConcatFirst
  <2> QED BY <2>5, <2>7
<1> HIDE DEF text, b
<1>6. b \in Seq(Byte) /\ IsText(b) /\ TextOf(b) = text
  BY <1>2, <1>4, <1>5, BytesAreRead
<1>7. Records(text) = CompleteRecords(text)
  BY <1>4, RecordsAre
<1>8. <<H>> \o ls = Sheet(given)
  BY DEF Sheet, H, ls
<1>9. /\ Table(Records(TextOf(b))) = ProtectedRows(Sheet(given))
      /\ AllGoodRecords(Records(TextOf(b))) <=> GoodRows(Sheet(given))
  BY <1>3, <1>6, <1>7, <1>8 DEF ReadAs
<1> QED BY <1>3, <1>6, <1>8, <1>9 DEF b

(***************************************************************************)
(* The columns and the rows of what is exported.                           *)
(***************************************************************************)
(* No member of a sequence stands in it twice.                             *)
Different(s) == \A i, j \in DOMAIN s : s[i] = s[j] => i = j

(* Columns, extra names and identities are listed once each.               *)
LEMMA ListedOnce == Different(Columns) /\ Different(ExtraNames) /\ Different(Identities)
<1>1. IsInjective(Columns) /\ IsInjective(ExtraNames) /\ IsInjective(Identities)
  BY ExportAssumption
<1>2. ASSUME NEW s, IsInjective(s) PROVE Different(s)
  BY <1>2 DEF IsInjective, Different
<1> QED BY <1>1, <1>2

(* What a sequence has at the given places.                                *)
LEMMA AtHas ==
  ASSUME NEW S, NEW s \in Seq(S), Different(s), NEW places, places \subseteq DOMAIN s
  PROVE  /\ Different(At(s, places))
         /\ ToSet(At(s, places)) = {s[i] : i \in places}
<1> DEFINE m == Cardinality(places)
           a == At(s, places)
<1>1. PlacesTo(places, Len(s)) /\ DOMAIN s = 1 .. Len(s)
  BY LenProperties DEF PlacesTo
<1>2. /\ m \in Nat /\ DOMAIN a = 1 .. m
      /\ \A k \in 1 .. m : Nth(places, k) \in places /\ a[k] = s[Nth(places, k)]
  BY AtIs
<1>3. \A k \in 1 .. m : Cardinality(UpTo(places, Nth(places, k))) = k
  BY <1>1, NthIsThere
<1> HIDE DEF a
<1>4. ASSUME NEW i \in places PROVE \E k \in 1 .. m : Nth(places, k) = i
  <2> DEFINE k == Cardinality(UpTo(places, i))
  <2>1. Nth(places, k) = i
    BY <1>1, NthIs
  <2>2. k \in Nat /\ k <= m
    BY <1>1, UpToIsFinite
  <2>3. k > 0
    <3>1. i \in UpTo(places, i) /\ IsFiniteSet(UpTo(places, i))
      <4>1. i <= i
        BY <1>1, PlacesAreNumbers
      <4> QED BY <1>1, <4>1, UpToIsFinite DEF UpTo
    <3> QED BY <2>2, <3>1, FS_EmptySet
  <2> HIDE DEF k
  <2>4. k \in 1 .. m
    BY <1>2, <2>2, <2>3
  <2> QED BY <2>1, <2>4
<1> HIDE DEF m
<1>5. Different(a)
  <2> SUFFICES ASSUME NEW j \in 1 .. m, NEW k \in 1 .. m, a[j] = a[k] PROVE j = k
    BY <1>2 DEF Different
  <2>1. s[Nth(places, j)] = s[Nth(places, k)] /\ Nth(places, j) \in DOMAIN s /\ Nth(places, k) \in DOMAIN s
    BY <1>2
  <2>2. Nth(places, j) = Nth(places, k)
    BY <2>1 DEF Different
  <2> QED BY <1>3, <2>2
<1>6. ToSet(a) = {s[i] : i \in places}
  <2>1. ToSet(a) = {a[k] : k \in 1 .. m}
    BY <1>2 DEF ToSet
  <2>2. ASSUME NEW k \in 1 .. m PROVE a[k] \in {s[i] : i \in places}
    BY <1>2
  <2>3. ASSUME NEW i \in places PROVE s[i] \in {a[k] : k \in 1 .. m}
    BY <1>2, <1>4
  <2> QED BY <2>1, <2>2, <2>3
<1> QED BY <1>5, <1>6 DEF a

(* What two sequences have together.                                       *)
LEMMA JoinHas ==
  ASSUME NEW S, NEW x \in Seq(S), NEW y \in Seq(S)
  PROVE  /\ ToSet(x \o y) = ToSet(x) \cup ToSet(y)
         /\ Different(x) /\ Different(y) /\ ToSet(x) \cap ToSet(y) = {} => Different(x \o y)
<1> DEFINE n == Len(x)
           m == Len(y)
           z == x \o y
<1>1. /\ n \in Nat /\ m \in Nat /\ DOMAIN x = 1 .. n /\ DOMAIN y = 1 .. m
      /\ z \in Seq(S) /\ Len(z) = n + m
      /\ \A i \in 1 .. n : z[i] = x[i]
      /\ \A i \in n + 1 .. n + m : z[i] = y[i - n]
  <2>1. z \in Seq(S) /\ Len(z) = n + m /\ n \in Nat /\ m \in Nat
    BY ConcatProperties, LenProperties
  <2>2. \A i \in 1 .. n + m : z[i] = IF i <= n THEN x[i] ELSE y[i - n]
    BY <2>1, ConcatProperties
  <2>3. DOMAIN x = 1 .. n /\ DOMAIN y = 1 .. m
    BY LenProperties
  <2> HIDE DEF z, n, m
  <2> QED BY <2>1, <2>2, <2>3
<1>2. DOMAIN z = 1 .. n + m
  BY <1>1, LenProperties
<1> HIDE DEF z, n, m
<1>3. ASSUME NEW i \in 1 .. n + m
      PROVE  \/ i \in 1 .. n /\ z[i] = x[i]
             \/ i - n \in 1 .. m /\ z[i] = y[i - n] /\ i > n
  BY <1>1
<1>4. ASSUME NEW i \in 1 .. m PROVE i + n \in 1 .. n + m /\ z[i + n] = y[i]
  <2>1. i + n \in n + 1 .. n + m /\ (i + n) - n = i
    BY <1>1
  <2>2. z[i + n] = y[(i + n) - n]
    BY <1>1, <2>1
  <2> QED BY <1>1, <2>1, <2>2
<1>5. \A i \in 1 .. n : i \in 1 .. n + m
  BY <1>1
<1>6. ToSet(z) = ToSet(x) \cup ToSet(y)
  <2>1. /\ ToSet(z) = {z[i] : i \in 1 .. n + m} /\ ToSet(x) = {x[i] : i \in 1 .. n}
        /\ ToSet(y) = {y[i] : i \in 1 .. m}
    BY <1>1, <1>2 DEF ToSet
  <2>2. ASSUME NEW i \in 1 .. n + m PROVE z[i] \in ToSet(x) \cup ToSet(y)
    BY <1>3, <2>1
  <2>3. ASSUME NEW i \in 1 .. n PROVE x[i] \in ToSet(z)
    <3>1. z[i] = x[i] /\ i \in 1 .. n + m
      BY <1>1, <1>5
    <3> QED BY <2>1, <3>1
  <2>4. ASSUME NEW i \in 1 .. m PROVE y[i] \in ToSet(z)
    <3>1. z[i + n] = y[i] /\ i + n \in 1 .. n + m
      BY <1>4
    <3> QED BY <2>1, <3>1
  <2> QED BY <2>1, <2>2, <2>3, <2>4
<1>7. ASSUME Different(x), Different(y), ToSet(x) \cap ToSet(y) = {}
      PROVE  Different(z)
  <2> SUFFICES ASSUME NEW i \in 1 .. n + m, NEW j \in 1 .. n + m, z[i] = z[j] PROVE i = j
    BY <1>2 DEF Different
  <2>0. /\ \A k \in 1 .. n : x[k] \in ToSet(x)
        /\ \A k \in 1 .. m : y[k] \in ToSet(y)
    BY <1>1 DEF ToSet
  <2>1. \/ i \in 1 .. n /\ z[i] = x[i]
        \/ i - n \in 1 .. m /\ z[i] = y[i - n] /\ i > n
    BY <1>3
  <2>2. \/ j \in 1 .. n /\ z[j] = x[j]
        \/ j - n \in 1 .. m /\ z[j] = y[j - n] /\ j > n
    BY <1>3
  <2>3. CASE i \in 1 .. n /\ z[i] = x[i] /\ j \in 1 .. n /\ z[j] = x[j]
    BY <1>1, <1>7, <2>3 DEF Different
  <2>4. CASE i - n \in 1 .. m /\ z[i] = y[i - n] /\ j - n \in 1 .. m /\ z[j] = y[j - n]
    <3>1. i - n = j - n
      BY <1>1, <1>7, <2>4 DEF Different
    <3> QED BY <1>1, <3>1
  <2>5. CASE i \in 1 .. n /\ z[i] = x[i] /\ j - n \in 1 .. m /\ z[j] = y[j - n]
    BY <1>7, <2>0, <2>5
  <2>6. CASE j \in 1 .. n /\ z[j] = x[j] /\ i - n \in 1 .. m /\ z[i] = y[i - n]
    BY <1>7, <2>0, <2>6
  <2> QED BY <2>1, <2>2, <2>3, <2>4, <2>5, <2>6
<1> QED BY <1>6, <1>7 DEF z

(* The headers are the columns and then the extra names the rows have.     *)
Extra(given) == UNION {DOMAIN row \ ColumnSet : row \in ToSet(given)}

(* No header is there twice, and every name of a row is one.               *)
LEMMA HeadersHave ==
  ASSUME NEW given, AreRows(given)
  PROVE  /\ Different(HeadersOf(given))
         /\ ToSet(HeadersOf(given)) = ColumnSet \cup Extra(given)
<1> DEFINE places == {i \in DOMAIN ExtraNames : ExtraNames[i] \in Extra(given)}
           a == At(ExtraNames, places)
           S == Seq(Characters)
<1>1. /\ Columns \in Seq(S) /\ ExtraNames \in Seq(S)
      /\ ColumnSet \cap ToSet(ExtraNames) = {}
  BY CodecAssumption
<1>2. HeadersOf(given) = Columns \o a
  BY DEF HeadersOf, Extra
<1>3. Extra(given) \subseteq ToSet(ExtraNames)
  BY DEF Extra, AreRows, IsRow
<1>4. {ExtraNames[i] : i \in places} = Extra(given)
  BY <1>3 DEF ToSet
<1>5. places \subseteq DOMAIN ExtraNames
  OBVIOUS
<1> HIDE DEF places, S
<1>6. a \in Seq(S) /\ Different(a) /\ ToSet(a) = Extra(given)
  <2>1. a \in Seq(S)
    BY <1>1, <1>5, AtIs
  <2>2. Different(a) /\ ToSet(a) = {ExtraNames[i] : i \in places}
    <3>1. ExtraNames \in Seq(S) /\ Different(ExtraNames)
      BY <1>1, ListedOnce
    <3> QED BY <3>1, <1>5, AtHas
  <2> HIDE DEF a
  <2> QED BY <1>4, <2>1, <2>2
<1> HIDE DEF a
<1>7. ToSet(Columns) \cap ToSet(a) = {} /\ ToSet(Columns) = ColumnSet
  BY <1>1, <1>3, <1>6 DEF ColumnSet
<1>8. Different(Columns \o a) /\ ToSet(Columns \o a) = ToSet(Columns) \cup ToSet(a)
  BY <1>1, <1>6, <1>7, JoinHas, ListedOnce
<1> QED BY <1>2, <1>6, <1>7, <1>8

(* Rows with listed identities, of which no two are the same.              *)
Sortable(given) ==
  /\ \A row \in ToSet(given) : Identity(row) \in ToSet(Identities)
  /\ \A row, other \in ToSet(given) : Identity(row) = Identity(other) => row = other

IdsOf(given) == {Identity(row) : row \in ToSet(given)}
SortedIds(given) == At(Identities, {i \in DOMAIN Identities : Identities[i] \in IdsOf(given)})

(* Such rows are sorted by identity, none lost and none twice.             *)
LEMMA SortIs ==
  ASSUME NEW given, Sortable(given)
  PROVE  LET s == StableRowSort(given)
             a == SortedIds(given)
         IN /\ s \in Seq(ToSet(given)) /\ DOMAIN s = DOMAIN a
            /\ Different(a) /\ ToSet(a) = IdsOf(given)
            /\ \A k \in DOMAIN s :
                 /\ s[k] \in ToSet(given) /\ Identity(s[k]) = a[k]
                 /\ s[k] = RowOf(a[k], given)
            /\ ToSet(s) = ToSet(given)
<1> DEFINE places == {i \in DOMAIN Identities : Identities[i] \in IdsOf(given)}
           s == StableRowSort(given)
           a == SortedIds(given)
           S == Seq(Characters)
<1>1. Identities \in Seq(S) /\ Different(Identities) /\ places \subseteq DOMAIN Identities
  BY CodecAssumption, ListedOnce
<1>2. a = At(Identities, places)
  BY DEF SortedIds
<1>3. {Identities[i] : i \in places} = IdsOf(given)
  BY DEF Sortable, IdsOf, ToSet
<1>4. s = [k \in DOMAIN a |-> RowOf(a[k], given)]
  BY DEF StableRowSort, SortedIds, IdsOf
<1> HIDE DEF places, S, s, a
<1>5. Different(a) /\ ToSet(a) = IdsOf(given)
  <2>1. Different(At(Identities, places)) /\ ToSet(At(Identities, places)) = {Identities[i] : i \in places}
    BY <1>1, AtHas
  <2> QED BY <1>2, <1>3, <2>1
<1>6. ASSUME NEW id \in IdsOf(given)
      PROVE  RowOf(id, given) \in ToSet(given) /\ Identity(RowOf(id, given)) = id
  <2>1. \E row \in ToSet(given) : Identity(row) = id
    BY DEF IdsOf
  <2> QED BY <2>1 DEF RowOf
<1>7. \A k \in DOMAIN a : a[k] \in IdsOf(given)
  BY <1>5 DEF ToSet
<1>8. DOMAIN s = DOMAIN a /\ \A k \in DOMAIN a : s[k] = RowOf(a[k], given)
  BY <1>4
<1>9. \A k \in DOMAIN s : s[k] \in ToSet(given) /\ Identity(s[k]) = a[k]
  BY <1>6, <1>7, <1>8
<1>10. ToSet(s) = ToSet(given)
  <2>1. ASSUME NEW row \in ToSet(given) PROVE row \in ToSet(s)
    <3>1. Identity(row) \in ToSet(a)
      BY <1>5 DEF IdsOf
    <3>2. PICK k \in DOMAIN a : a[k] = Identity(row)
      BY <3>1 DEF ToSet
    <3>3. s[k] \in ToSet(given) /\ Identity(s[k]) = Identity(row) /\ k \in DOMAIN s
      BY <1>8, <1>9, <3>2
    <3>4. s[k] = row
      BY <3>3 DEF Sortable
    <3> QED BY <3>3, <3>4 DEF ToSet
  <2>2. ASSUME NEW row \in ToSet(s) PROVE row \in ToSet(given)
    BY <1>9 DEF ToSet
  <2> QED BY <2>1, <2>2
<1>11. s \in Seq(ToSet(given))
  BY SortedAre DEF s
<1> QED BY <1>5, <1>8, <1>9, <1>10, <1>11 DEF s, a

(* Rows of which no two have the same identity.                            *)
LEMMA NoDuplicatesSort ==
  ASSUME NEW given, NoDuplicates(given),
         \A row \in ToSet(given) : Identity(row) \in ToSet(Identities)
  PROVE  Sortable(given)
<1>1. ASSUME NEW row \in ToSet(given), NEW other \in ToSet(given), Identity(row) = Identity(other)
      PROVE  row = other
  <2>1. PICK i \in DOMAIN given : given[i] = row
    BY DEF ToSet
  <2>2. PICK j \in DOMAIN given : given[j] = other
    BY DEF ToSet
  <2> QED BY <1>1, <2>1, <2>2 DEF NoDuplicates
<1> QED BY <1>1 DEF Sortable

(***************************************************************************)
(* What comes back.                                                        *)
(***************************************************************************)
(* What the exporter is given, if it accepts it.                           *)
Given(given) ==
  /\ AreRows(given) /\ Sortable(given) /\ Len(HeadersOf(given)) <= MaxColumns
  /\ \A row \in ToSet(given) : ValidIdentity(row)

(* The documents the readers are given are of such rows.                   *)
LEMMA ExportedAreGiven ==
  ASSUME NEW e \in Exports, Exportable(e.rows)
  PROVE  Given(e.rows) /\ e.bom \in BOOLEAN
<1> DEFINE given == e.rows
<1>1. /\ e.bom \in BOOLEAN
      /\ \A row \in ToSet(given) : IsRow(row) /\ Identity(row) \in ToSet(Identities)
  BY CodecAssumption
<1>2. /\ \A row \in ToSet(given) : ValidIdentity(row)
      /\ NoDuplicates(given) /\ Len(HeadersOf(given)) <= MaxColumns
  BY DEF Exportable
<1> HIDE DEF given
<1>3. Given(given)
  BY <1>1, <1>2, NoDuplicatesSort DEF Given, AreRows
<1> QED BY <1>1, <1>3 DEF given

(* The rows as they come back: every column in every row.                  *)
CompletedRow(given, row) == [n \in ToSet(HeadersOf(given)) |-> CellOf(row, n)]

(* They are in the order of the identities.                                *)
LEMMA CompletedIs ==
  ASSUME NEW given
  PROVE  LET s == StableRowSort(given) IN
         /\ Completed(given) = [k \in DOMAIN s |-> CompletedRow(given, s[k])]
         /\ Len(Completed(given)) = Len(s)
         /\ Completed(given) \in Seq({CompletedRow(given, row) : row \in ToSet(given)})
<1> DEFINE s == StableRowSort(given)
           C == {CompletedRow(given, row) : row \in ToSet(given)}
           m == Len(s)
           f == [k \in 1 .. m |-> CompletedRow(given, s[k])]
<1>1. s \in Seq(ToSet(given))
  BY SortedAre
<1>2. Completed(given) = [k \in DOMAIN s |-> CompletedRow(given, s[k])]
  BY DEF Completed, CompletedRow
<1> HIDE DEF s
<1>3. m \in Nat /\ DOMAIN s = 1 .. m /\ \A k \in 1 .. m : s[k] \in ToSet(given)
  BY <1>1, LenProperties, ElementOfSeq
<1>4. \A k \in 1 .. m : CompletedRow(given, s[k]) \in C
  BY <1>3
<1>5. Completed(given) = f
  BY <1>2, <1>3
<1> HIDE DEF C, m
<1>6. f \in [1 .. m -> C]
  BY <1>4
<1> HIDE DEF f
<1>7. f \in Seq(C) /\ Len(f) = m
  BY <1>3, <1>6, FunctionIsSeq
<1> QED BY <1>2, <1>5, <1>7 DEF s, C, m

(* A row and the one that comes back have the same identity and cells.     *)
LEMMA CompletedRowIs ==
  ASSUME NEW given, AreRows(given), NEW row \in ToSet(given)
  PROVE  /\ Identity(CompletedRow(given, row)) = Identity(row)
         /\ DOMAIN CompletedRow(given, row) = ToSet(HeadersOf(given))
         /\ \A n \in ToSet(HeadersOf(given)) : CompletedRow(given, row)[n] = CellOf(row, n)
         /\ DOMAIN row \subseteq ToSet(HeadersOf(given))
<1>1. IsRow(row)
  BY DEF AreRows
<1>2. ToSet(HeadersOf(given)) = ColumnSet \cup Extra(given)
  BY HeadersHave
<1>3. Columns[1] \in ColumnSet
  <2> DEFINE S == Seq(Characters)
  <2>1. Columns \in Seq(S) /\ Columns # <<>>
    BY CodecAssumption
  <2> HIDE DEF S
  <2>2. 1 \in DOMAIN Columns
    BY <2>1, LenProperties, EmptySeq
  <2> QED BY <2>2 DEF ColumnSet, ToSet
<1>4. Columns[1] \in DOMAIN row
  BY <1>1, <1>3 DEF IsRow
<1>5. Identity(CompletedRow(given, row)) = Identity(row)
  BY <1>2, <1>3, <1>4 DEF Identity, CompletedRow, CellOf
<1>6. DOMAIN row \subseteq ToSet(HeadersOf(given))
  BY <1>2 DEF Extra
<1>7. /\ DOMAIN CompletedRow(given, row) = ToSet(HeadersOf(given))
      /\ \A n \in ToSet(HeadersOf(given)) : CompletedRow(given, row)[n] = CellOf(row, n)
  BY DEF CompletedRow
<1> QED BY <1>5, <1>6, <1>7

(* A sequence with one member before it.                                   *)
LEMMA OneAndThen ==
  ASSUME NEW S, NEW h \in S, NEW y \in Seq(S)
  PROVE  LET z == <<h>> \o y IN
         /\ z \in Seq(S) /\ Len(z) = Len(y) + 1 /\ z[1] = h
         /\ \A k \in 1 .. Len(y) : z[k + 1] = y[k]
<1> DEFINE x == <<h>>
           n == Len(y)
           z == x \o y
<1>1. x \in Seq(S) /\ Len(x) = 1 /\ x[1] = h /\ n \in Nat
  BY LenProperties
<1> HIDE DEF x
<1>2. /\ z \in Seq(S) /\ Len(z) = Len(x) + n
      /\ \A i \in 1 .. Len(x) + n : z[i] = IF i <= Len(x) THEN x[i] ELSE y[i - Len(x)]
  BY <1>1, ConcatProperties
<1> HIDE DEF z, n
<1>3. Len(z) = n + 1 /\ \A i \in 1 .. n + 1 : z[i] = IF i <= 1 THEN x[i] ELSE y[i - 1]
  BY <1>1, <1>2
<1>4. z[1] = h
  <2>1. 1 \in 1 .. n + 1 /\ 1 <= 1
    BY <1>1
  <2> QED BY <1>1, <1>3, <2>1
<1>5. ASSUME NEW k \in 1 .. n PROVE z[k + 1] = y[k]
  <2>1. k + 1 \in 1 .. n + 1 /\ ~(k + 1 <= 1) /\ (k + 1) - 1 = k
    BY <1>1
  <2>2. z[k + 1] = y[(k + 1) - 1]
    BY <1>3, <2>1
  <2> QED BY <2>1, <2>2
<1> QED BY <1>2, <1>3, <1>4, <1>5 DEF z, x, n

(* The header and the lines of what is exported, row by row.               *)
LEMMA SheetIs ==
  ASSUME NEW given, Given(given)
  PROVE  LET s == StableRowSort(given)
             H == HeadersOf(given)
             T == ProtectedRows(Sheet(given))
         IN /\ Len(s) \in Nat /\ DOMAIN s = 1 .. Len(s)
            /\ \A k \in 1 .. Len(s) : s[k] \in ToSet(given)
            /\ Sheet(given) \in Raws /\ DOMAIN Sheet(given) = 1 .. Len(s) + 1
            /\ Sheet(given)[1] = H
            /\ \A k \in 1 .. Len(s) : Sheet(given)[k + 1] = LineCells(given, s[k])
            /\ T \in Raws /\ T # <<>> /\ Len(T) = Len(s) + 1 /\ T[1] = Protecteds(H)
            /\ \A k \in 1 .. Len(s) : T[k + 1] = Protecteds(LineCells(given, s[k]))
<1> DEFINE s == StableRowSort(given)
           H == HeadersOf(given)
           ls == SheetLines(given)
           all == Sheet(given)
           T == ProtectedRows(all)
           n == Len(s)
           S == FullRow
           one == <<H>>
<1>1. s \in Seq(ToSet(given)) /\ AreRows(given)
  BY SortedAre DEF Given
<1>2. n \in Nat /\ DOMAIN s = 1 .. n /\ \A k \in 1 .. n : s[k] \in ToSet(given)
  <2> HIDE DEF s
  <2> QED BY <1>1, LenProperties, ElementOfSeq
<1>3. ls \in Seq(S) /\ Len(ls) = n /\ \A k \in 1 .. n : ls[k] = LineCells(given, s[k])
  BY <1>1, <1>2, SheetLinesAre DEF SheetLines
<1>4. H \in S /\ all = one \o ls
  BY HeadersAreFull DEF Sheet
<1> HIDE DEF s, n, S, H, ls, one
<1>6. /\ all \in Seq(S) /\ Len(all) = n + 1 /\ all[1] = H
      /\ \A k \in 1 .. n : all[k + 1] = ls[k]
  <2>1. <<H>> \o ls \in Seq(S) /\ Len(<<H>> \o ls) = Len(ls) + 1 /\ (<<H>> \o ls)[1] = H
        /\ \A k \in 1 .. Len(ls) : (<<H>> \o ls)[k + 1] = ls[k]
    BY <1>3, <1>4, OneAndThen
  <2> QED BY <1>3, <1>4, <2>1 DEF one
<1> HIDE DEF all
<1>7. all \in Raws /\ DOMAIN all = 1 .. n + 1
  BY <1>6, FullRowsAreRaw, LenProperties DEF S
<1>8. T = [k \in 1 .. n + 1 |-> Protecteds(all[k])]
  BY <1>7 DEF ProtectedRows
<1>9. \A k \in 1 .. n + 1 : Protecteds(all[k]) \in RawRow
  <2>1. \A k \in 1 .. n + 1 : all[k] \in S
    BY <1>6, ElementOfSeq
  <2> QED BY <2>1, ProtectedsAre DEF S, FullRow
<1> HIDE DEF T
<1>10. T \in [1 .. n + 1 -> RawRow]
  BY <1>8, <1>9
<1>11. T \in Seq(RawRow) /\ Len(T) = n + 1
  BY <1>2, <1>10, FunctionIsSeq
<1>12. T # <<>>
  BY <1>2, <1>11, EmptySeq
<1>13. 1 \in 1 .. n + 1 /\ \A k \in 1 .. n : k + 1 \in 1 .. n + 1
  BY <1>2
<1>14. T[1] = Protecteds(H) /\ \A k \in 1 .. n : T[k + 1] = Protecteds(LineCells(given, s[k]))
  BY <1>3, <1>6, <1>8, <1>13
<1> QED BY <1>2, <1>3, <1>6, <1>7, <1>11, <1>12, <1>14 DEF n, s, H, T, all, Raws, RawRow

(* Protected cells are no formulas, and say the cells they are of.         *)
LEMMA NoFormulas ==
  ASSUME NEW cells \in RawRow
  PROVE  /\ \A v \in ToSet(Protecteds(cells)) : ~IsFormula(v)
         /\ Decodeds(Protecteds(cells)) = cells
<1>1. /\ DOMAIN Protecteds(cells) = DOMAIN cells
      /\ \A k \in DOMAIN cells :
           cells[k] \in Seq(Characters) /\ Protecteds(cells)[k] = FormulaProtected(cells[k])
  BY ProtectedsAre
<1>2. \A k \in DOMAIN cells :
        /\ ~IsFormula(Protecteds(cells)[k])
        /\ FormulaDecoded(Protecteds(cells)[k]) = cells[k]
  BY <1>1, ProtectedBack
<1>3. \A v \in ToSet(Protecteds(cells)) : ~IsFormula(v)
  BY <1>1, <1>2 DEF ToSet
<1>4. cells = [k \in DOMAIN cells |-> cells[k]]
  <2> DEFINE S == Seq(Characters)
  <2>1. cells \in Seq(S)
    BY DEF RawRow
  <2> HIDE DEF S
  <2> QED BY <2>1, SeqDef
<1>5. Decodeds(Protecteds(cells)) = [k \in DOMAIN cells |-> cells[k]]
  BY <1>1, <1>2 DEF Decodeds
<1> QED BY <1>3, <1>4, <1>5

(* The header comes back, and only a column without a name is wrong with   *)
(* it (validateCanonicalCsvHeader).                                        *)
LEMMA HeaderComesBack ==
  ASSUME NEW given, Given(given)
  PROVE  LET H == HeadersOf(given) IN
         /\ Decodeds(Protecteds(H)) = H
         /\ HeaderError(Protecteds(H)) = IF <<>> \in ToSet(H) THEN "invalid_csv_header" ELSE "none"
<1> DEFINE H == HeadersOf(given)
           raw == Protecteds(H)
<1>1. Decodeds(raw) = H /\ \A v \in ToSet(raw) : ~IsFormula(v)
  BY HeadersAre, NoFormulas
<1>2. Different(H) /\ ColumnSet \subseteq ToSet(H)
  BY HeadersHave DEF Given
<1> HIDE DEF H, raw
<1>3. [i \in DOMAIN raw |-> FormulaDecoded(raw[i])] = H
  BY <1>1 DEF Decodeds
<1>4. ~ \E v \in ToSet(raw) : IsFormula(v)
  BY <1>1
<1>5. ~ \E i, j \in DOMAIN H : i # j /\ H[i] = H[j]
  BY <1>2 DEF Different
<1>6. HeaderError(raw) = IF <<>> \in ToSet(H) THEN "invalid_csv_header" ELSE "none"
  BY <1>2, <1>3, <1>4, <1>5 DEF HeaderError
<1> QED BY <1>1, <1>6 DEF H, raw

(* A row comes back with every column, and nothing is wrong with it.       *)
LEMMA RowComesBack ==
  ASSUME NEW given, Given(given), NEW row \in ToSet(given)
  PROVE  LET H == HeadersOf(given)
             raw == Protecteds(LineCells(given, row))
         IN /\ CanonicalRow(H, raw) = CompletedRow(given, row)
            /\ RowError(H, raw) = "none"
<1> DEFINE H == HeadersOf(given)
           cells == LineCells(given, row)
           raw == Protecteds(cells)
           D == DOMAIN H
<1>0. AreRows(given) /\ IsRow(row) /\ ValidIdentity(row)
  BY DEF Given, AreRows
<1>1. cells \in RawRow /\ Len(cells) = Len(H) /\ DOMAIN cells = D
  BY <1>0, LineCellsAre DEF FullRow
<1>2. \A i \in D : cells[i] = CellOf(row, H[i])
  BY DEF LineCells
<1>3. Different(H)
  BY <1>0, HeadersHave
<1> HIDE DEF H, cells, D
<1>4. /\ Len(raw) = Len(H) /\ \A v \in ToSet(raw) : ~IsFormula(v)
      /\ \A i \in D : FormulaDecoded(raw[i]) = cells[i]
  BY <1>1, ProtectedsAre, NoFormulas, ProtectedBack
<1> HIDE DEF raw
<1>5. ASSUME NEW n \in ToSet(H)
      PROVE  FormulaDecoded(raw[CHOOSE i \in DOMAIN H : H[i] = n]) = CellOf(row, n)
  <2>1. \E i \in DOMAIN H : H[i] = n
    BY DEF ToSet
  <2> DEFINE j == CHOOSE i \in DOMAIN H : H[i] = n
  <2>2. j \in D /\ H[j] = n
    BY <2>1 DEF D
  <2> HIDE DEF j
  <2>3. FormulaDecoded(raw[j]) = CellOf(row, n)
    BY <1>2, <1>4, <2>2
  <2> QED BY <2>3 DEF j
<1>6. CanonicalRow(H, raw) = [n \in ToSet(H) |-> CellOf(row, n)]
  BY <1>5 DEF CanonicalRow
<1>7. CanonicalRow(H, raw) = CompletedRow(given, row)
  BY <1>6 DEF CompletedRow, H
<1>8. ValidIdentity(CanonicalRow(H, raw))
  <2>1. Identity(CompletedRow(given, row)) = Identity(row)
    BY <1>0, CompletedRowIs
  <2> QED BY <1>0, <1>7, <2>1 DEF ValidIdentity
<1>9. ~ \E v \in ToSet(raw) : IsFormula(v)
  BY <1>4
<1>10. RowError(H, raw) = "none"
  BY <1>4, <1>8, <1>9 DEF RowError
<1> QED BY <1>7, <1>10 DEF H, raw, cells

(* The catalog that was exported comes back, if the header is read at all. *)
LEMMA CatalogComesBack ==
  ASSUME NEW given, Given(given)
  PROVE  LET T == ProtectedRows(Sheet(given)) IN
         /\ HeaderOf(T) = HeadersOf(given)
         /\ IsCatalog(T) <=> <<>> \notin ToSet(HeadersOf(given))
         /\ BodyOf(T) = Completed(given)
         /\ NoDuplicates(BodyOf(T))
<1> DEFINE T == ProtectedRows(Sheet(given))
           s == StableRowSort(given)
           H == HeadersOf(given)
           n == Len(s)
<1>1. /\ n \in Nat /\ DOMAIN s = 1 .. n /\ \A k \in 1 .. n : s[k] \in ToSet(given)
      /\ T \in Raws /\ T # <<>> /\ Len(T) = n + 1 /\ T[1] = Protecteds(H)
      /\ \A k \in 1 .. n : T[k + 1] = Protecteds(LineCells(given, s[k]))
  BY SheetIs
<1> HIDE DEF T, n
<1>2. Decodeds(T[1]) = H /\ HeaderError(T[1]) = IF <<>> \in ToSet(H) THEN "invalid_csv_header" ELSE "none"
  BY <1>1, HeaderComesBack
<1>3. HeaderOf(T) = H
  BY <1>2 DEF HeaderOf, Decodeds
<1>4. ASSUME NEW k \in 1 .. n
      PROVE  CanonicalRow(H, T[k + 1]) = CompletedRow(given, s[k]) /\ RowError(H, T[k + 1]) = "none"
  BY <1>1, RowComesBack
<1> HIDE DEF H
<1>5. \A k \in 2 .. Len(T) : RowError(H, T[k]) = "none"
  <2> TAKE k \in 2 .. Len(T)
  <2>1. k - 1 \in 1 .. n /\ (k - 1) + 1 = k
    BY <1>1
  <2>2. RowError(H, T[(k - 1) + 1]) = "none"
    BY <1>4, <2>1
  <2> QED BY <2>1, <2>2
<1>6. IsCatalog(T) <=> <<>> \notin ToSet(H)
  <2>1. IsCatalog(T) <=> HeaderError(T[1]) = "none"
    BY <1>1, <1>3, <1>5, CatalogIs
  <2> QED BY <1>2, <2>1
<1>7. BodyOf(T) = Completed(given)
  <2>1. Len(T) - 1 = n
    BY <1>1
  <2>2. BodyOf(T) = [k \in 1 .. n |-> CanonicalRow(H, T[k + 1])]
    BY <1>3, <2>1 DEF BodyOf
  <2>3. Completed(given) = [k \in 1 .. n |-> CompletedRow(given, s[k])]
    BY <1>1, CompletedIs
  <2> QED BY <1>4, <2>2, <2>3
<1>8. NoDuplicates(Completed(given))
  <2> DEFINE a == SortedIds(given)
  <2>1. DOMAIN s = DOMAIN a /\ Different(a) /\ \A k \in DOMAIN s : Identity(s[k]) = a[k]
    BY SortIs DEF Given
  <2>2. DOMAIN Completed(given) = 1 .. n /\ \A k \in 1 .. n : Completed(given)[k] = CompletedRow(given, s[k])
    <3>1. Completed(given) = [k \in 1 .. n |-> CompletedRow(given, s[k])]
      BY <1>1, CompletedIs
    <3> HIDE DEF s
    <3> QED BY <3>1
  <2>3. \A k \in 1 .. n : Identity(Completed(given)[k]) = a[k]
    BY <1>1, <2>1, <2>2, CompletedRowIs DEF Given
  <2> HIDE DEF a, s
  <2> QED BY <1>1, <2>1, <2>2, <2>3, SMTT(30) DEF NoDuplicates, Different
<1> QED BY <1>3, <1>6, <1>7, <1>8 DEF T, H

(* An empty cell can be taken back.                                        *)
LEMMA NothingIsImportable == Importable(<<>>)
<1>1. LinesAreWhole(<<>>)
  BY DEF LinesAreWhole
<1>2. FormulaProtected(<<>>) = <<>>
  BY DEF FormulaProtected
<1>3. ByteCount(<<>>) = 0 /\ MaxCellBytes \in Nat
  BY BytesOfNothing, CharactersAre
<1>4. ByteCount(<<>>) <= MaxCellBytes
  BY <1>3
<1> QED BY <1>1, <1>2, <1>4 DEF Importable

(* A row of which every cell can be taken back.                            *)
RowImportable(row) == \A n \in DOMAIN row : Importable(row[n])

(* The line of a row is within the grammar and the limits exactly if its   *)
(* row can be taken back: a column it does not have is an empty cell.      *)
LEMMA GoodLine ==
  ASSUME NEW given, Given(given), NEW row \in ToSet(given)
  PROVE  GoodCells(LineCells(given, row)) <=> RowImportable(row)
<1> DEFINE H == HeadersOf(given)
           cells == LineCells(given, row)
<1>1. AreRows(given) /\ IsRow(row) /\ Len(H) <= MaxColumns
  BY DEF Given, AreRows
<1>2. Len(cells) = Len(H) /\ DOMAIN cells = DOMAIN H
  BY <1>1, LineCellsAre
<1>3. \A i \in DOMAIN H : cells[i] = CellOf(row, H[i])
  BY DEF LineCells
<1>4. DOMAIN row \subseteq ToSet(H)
  BY <1>1, CompletedRowIs
<1> HIDE DEF cells, H
<1>5. GoodCells(cells) <=> \A i \in DOMAIN H : Importable(CellOf(row, H[i]))
  BY <1>1, <1>2, <1>3 DEF GoodCells
<1>6. ASSUME RowImportable(row), NEW i \in DOMAIN H PROVE Importable(CellOf(row, H[i]))
  BY <1>6, NothingIsImportable DEF RowImportable, CellOf
<1>7. ASSUME \A i \in DOMAIN H : Importable(CellOf(row, H[i])), NEW n \in DOMAIN row
      PROVE  Importable(row[n])
  <2>1. PICK i \in DOMAIN H : H[i] = n
    BY <1>4 DEF ToSet
  <2>2. Importable(CellOf(row, n))
    BY <1>7, <2>1
  <2> QED BY <2>2 DEF CellOf
<1> QED BY <1>5, <1>6, <1>7 DEF RowImportable, cells

(* The document is within them exactly if its columns and its rows can be  *)
(* taken back.                                                             *)
LEMMA GoodSheet ==
  ASSUME NEW given, Given(given)
  PROVE  GoodRows(Sheet(given)) <=>
           /\ \A name \in ToSet(HeadersOf(given)) : Importable(name)
           /\ \A row \in ToSet(given) : RowImportable(row)
<1> DEFINE H == HeadersOf(given)
           s == StableRowSort(given)
           n == Len(s)
           all == Sheet(given)
<1>1. /\ n \in Nat /\ DOMAIN s = 1 .. n /\ \A k \in 1 .. n : s[k] \in ToSet(given)
      /\ DOMAIN all = 1 .. n + 1 /\ all[1] = H
      /\ \A k \in 1 .. n : all[k + 1] = LineCells(given, s[k])
  BY SheetIs
<1>2. Len(H) <= MaxColumns /\ Sortable(given)
  BY DEF Given
<1>3. ToSet(s) = ToSet(given)
  BY <1>2, SortIs
<1> HIDE DEF H, s, all, n
<1>4. GoodRows(all) <=> GoodCells(H) /\ \A k \in 1 .. n : GoodCells(LineCells(given, s[k]))
  <2>1. 1 \in 1 .. n + 1 /\ \A k \in 1 .. n : k + 1 \in 1 .. n + 1
    BY <1>1
  <2>2. \A k \in 1 .. n + 1 : k = 1 \/ \E j \in 1 .. n : k = j + 1
    <3> TAKE k \in 1 .. n + 1
    <3>1. k = 1 \/ (k - 1 \in 1 .. n /\ k = (k - 1) + 1)
      BY <1>1
    <3> QED BY <3>1
  <2>3. GoodRows(all) <=> \A k \in 1 .. n + 1 : GoodCells(all[k])
    BY <1>1 DEF GoodRows
  <2>4. ASSUME \A k \in 1 .. n + 1 : GoodCells(all[k]) 
        PROVE  GoodCells(H) /\ \A k \in 1 .. n : GoodCells(LineCells(given, s[k]))
    <3>1. GoodCells(H)
      BY <1>1, <2>1, <2>4
    <3>2. \A k \in 1 .. n : GoodCells(all[k + 1])
      BY <2>1, <2>4
    <3> QED BY <1>1, <3>1, <3>2
  <2>5. ASSUME GoodCells(H), \A k \in 1 .. n : GoodCells(LineCells(given, s[k])), NEW k \in 1 .. n + 1
        PROVE  GoodCells(all[k])
    BY <1>1, <2>2, <2>5
  <2> QED BY <2>3, <2>4, <2>5
<1>5. GoodCells(H) <=> \A name \in ToSet(H) : Importable(name)
  BY <1>2 DEF GoodCells, ToSet, H
<1>6. (\A k \in 1 .. n : GoodCells(LineCells(given, s[k]))) <=> \A row \in ToSet(given) : RowImportable(row)
  <2>1. \A k \in 1 .. n : GoodCells(LineCells(given, s[k])) <=> RowImportable(s[k])
    BY <1>1, GoodLine
  <2>2. ToSet(given) = {s[k] : k \in 1 .. n}
    BY <1>1, <1>3 DEF ToSet
  <2> QED BY <2>1, <2>2
<1> QED BY <1>4, <1>5, <1>6 DEF H, all

(* Read again, the rows have the same columns.                             *)
LEMMA SameHeaders ==
  ASSUME NEW given, Given(given)
  PROVE  /\ ToSet(Completed(given)) = {CompletedRow(given, row) : row \in ToSet(given)}
         /\ HeadersOf(Completed(given)) = HeadersOf(given)
<1> DEFINE C == Completed(given)
           s == StableRowSort(given)
           H == HeadersOf(given)
<1>1. AreRows(given) /\ ToSet(s) = ToSet(given)
  BY SortIs DEF Given
<1>2. ToSet(C) = {CompletedRow(given, row) : row \in ToSet(given)}
  <2>1. DOMAIN C = DOMAIN s /\ \A k \in DOMAIN s : C[k] = CompletedRow(given, s[k])
    <3>1. C = [k \in DOMAIN s |-> CompletedRow(given, s[k])]
      BY CompletedIs
    <3> HIDE DEF C, s
    <3> QED BY <3>1
  <2> HIDE DEF C, s
  <2> QED BY <1>1, <2>1, SMTT(30) DEF ToSet
<1> HIDE DEF C, s
<1>3. ToSet(H) = ColumnSet \cup Extra(given)
  BY <1>1, HeadersHave
<1> HIDE DEF H
<1>4. \A row \in ToSet(C) : DOMAIN row = ToSet(H)
  BY <1>1, <1>2, CompletedRowIs DEF H
<1>5. Extra(C) = Extra(given)
  <2>1. \A row \in ToSet(given) : (DOMAIN row \ ColumnSet) \cap ColumnSet = {}
    OBVIOUS
  <2>2. Extra(given) \cap ColumnSet = {}
    BY <2>1 DEF Extra
  <2>3. CASE ToSet(given) = {}
    <3>1. ToSet(C) = {}
      BY <1>2, <2>3
    <3> QED BY <2>3, <3>1 DEF Extra
  <2>4. CASE ToSet(given) # {}
    <3>1. ToSet(C) # {}
      BY <1>2, <2>4
    <3>2. \A row \in ToSet(C) : DOMAIN row \ ColumnSet = Extra(given)
      BY <1>3, <1>4, <2>2
    <3> QED BY <3>1, <3>2 DEF Extra
  <2> QED BY <2>3, <2>4
<1>6. HeadersOf(C) = HeadersOf(given)
  BY <1>5 DEF HeadersOf, Extra
<1> QED BY <1>2, <1>6 DEF C

(* They are in order already.                                              *)
LEMMA SameRows ==
  ASSUME NEW given, Given(given)
  PROVE  StableRowSort(Completed(given)) = Completed(given)
<1> DEFINE C == Completed(given)
           s == StableRowSort(given)
           a == SortedIds(given)
<1>1. /\ AreRows(given) /\ DOMAIN s = DOMAIN a
      /\ \A k \in DOMAIN s : s[k] \in ToSet(given) /\ Identity(s[k]) = a[k]
      /\ \A row, other \in ToSet(given) : Identity(row) = Identity(other) => row = other
  BY SortIs DEF Given, Sortable
<1>2. C = [k \in DOMAIN s |-> CompletedRow(given, s[k])]
  BY CompletedIs
<1>3. ToSet(C) = {CompletedRow(given, row) : row \in ToSet(given)}
  BY SameHeaders
<1> HIDE DEF C, s
<1>4. \A row \in ToSet(given) : Identity(CompletedRow(given, row)) = Identity(row)
  BY <1>1, CompletedRowIs
<1>5. IdsOf(C) = IdsOf(given)
  BY <1>3, <1>4 DEF IdsOf
<1>6. SortedIds(C) = a
  BY <1>5 DEF SortedIds
<1> HIDE DEF a
<1>7. StableRowSort(C) = [k \in DOMAIN a |-> RowOf(a[k], C)]
  BY <1>6 DEF StableRowSort, SortedIds, IdsOf
<1>8. ASSUME NEW k \in DOMAIN s PROVE RowOf(a[k], C) = CompletedRow(given, s[k])
  <2> DEFINE r == CompletedRow(given, s[k])
  <2>1. r \in ToSet(C) /\ Identity(r) = a[k]
    BY <1>1, <1>3, <1>4
  <2>2. ASSUME NEW q \in ToSet(C), Identity(q) = a[k] PROVE q = r
    <3>1. PICK row \in ToSet(given) : q = CompletedRow(given, row)
      BY <1>3
    <3>2. Identity(row) = Identity(s[k])
      BY <1>1, <1>4, <2>2, <3>1
    <3>3. row = s[k]
      BY <1>1, <3>2
    <3> QED BY <3>1, <3>3
  <2> HIDE DEF r
  <2>3. RowOf(a[k], C) \in ToSet(C) /\ Identity(RowOf(a[k], C)) = a[k]
    BY <2>1 DEF RowOf
  <2>4. RowOf(a[k], C) = r
    BY <2>2, <2>3
  <2> QED BY <2>4 DEF r
<1>9. StableRowSort(C) = C
  BY <1>1, <1>2, <1>7, <1>8
<1> QED BY <1>9 DEF C

(* Read again, the rows export to the same document.                       *)
LEMMA ExportsAgain ==
  ASSUME NEW given, Given(given), NEW bom
  PROVE  ExportCanonicalCsv(Completed(given), bom) = ExportCanonicalCsv(given, bom)
<1> DEFINE C == Completed(given)
           s == StableRowSort(given)
           H == HeadersOf(given)
           f == [k \in DOMAIN s |-> Line(LineCells(given, s[k]))]
           g == [k \in DOMAIN C |-> Line(LineCells(C, C[k]))]
           prefix == IF bom THEN Bom ELSE <<>>
<1>1. HeadersOf(C) = H /\ StableRowSort(C) = C
  BY SameHeaders, SameRows
<1>2. ExportCanonicalCsv(given, bom) = prefix \o BytesOf(Line(H) \o FlattenSeq(f))
  BY DEF ExportCanonicalCsv, LineCells
<1> HIDE DEF C
<1>3. ExportCanonicalCsv(C, bom) = prefix \o BytesOf(Line(H) \o FlattenSeq(g))
  BY <1>1 DEF ExportCanonicalCsv, LineCells
<1>4. DOMAIN C = DOMAIN s /\ \A k \in DOMAIN s : C[k] = CompletedRow(given, s[k])
  <2>1. C = [k \in DOMAIN s |-> CompletedRow(given, s[k])]
    BY CompletedIs DEF C
  <2> HIDE DEF s
  <2> QED BY <2>1
<1>5. AreRows(given) /\ \A k \in DOMAIN s : s[k] \in ToSet(given)
  BY SortIs DEF Given
<1> HIDE DEF s
<1>6. ASSUME NEW k \in DOMAIN s PROVE LineCells(C, C[k]) = LineCells(given, s[k])
  <2> DEFINE r == CompletedRow(given, s[k])
  <2>1. DOMAIN r = ToSet(H) /\ \A n \in ToSet(H) : r[n] = CellOf(s[k], n)
    BY <1>5, CompletedRowIs
  <2>2. C[k] = r
    BY <1>4
  <2> HIDE DEF r, H
  <2>3. \A i \in DOMAIN H : CellOf(r, H[i]) = CellOf(s[k], H[i])
    <3> TAKE i \in DOMAIN H
    <3>1. H[i] \in ToSet(H)
      BY DEF ToSet
    <3>2. CellOf(r, H[i]) = r[H[i]]
      BY <2>1, <3>1 DEF CellOf
    <3> QED BY <2>1, <3>1, <3>2
  <2>4. LineCells(C, r) = [i \in DOMAIN H |-> CellOf(r, H[i])]
    BY <1>1 DEF LineCells
  <2>5. LineCells(given, s[k]) = [i \in DOMAIN H |-> CellOf(s[k], H[i])]
    BY DEF LineCells, H
  <2> QED BY <2>2, <2>3, <2>4, <2>5
<1>7. f = g
  BY <1>4, <1>6
<1> HIDE DEF f, g
<1> QED BY <1>2, <1>3, <1>7 DEF C

(***************************************************************************)
(* What the parser says of a document.                                     *)
(***************************************************************************)
(* The errors a parser can have before the end of the input.               *)
ReadErrors == {"none", "malformed_csv", "limit_exceeded"}
Checked(p) == "error" \in DOMAIN p /\ p.error \in ReadErrors

(* A parser that fails, fails for what is wrong with the text.             *)
LEMMA FailChecked ==
  ASSUME NEW p, Checked(p), NEW code \in ReadErrors
  PROVE  Checked(Fail(p, code)) /\ Checked(Malformed(p))
<1>1. ASSUME NEW e \in ReadErrors PROVE Checked(Fail(p, e))
  <2> DEFINE r == [p EXCEPT !.error = e]
  <2>1. Checked(r)
    BY DEF Checked
  <2>2. Fail(p, e) = r \/ Fail(p, e) = p
    BY DEF Fail
  <2> QED BY <2>1, <2>2
<1>2. "malformed_csv" \in ReadErrors
  BY DEF ReadErrors
<1> QED BY <1>1, <1>2 DEF Malformed

(* Nothing else of the parser matters for that.                            *)
LEMMA OtherChecked ==
  ASSUME NEW p, Checked(p), NEW f, f # "error", NEW v
  PROVE  Checked([p EXCEPT ![f] = v])
<1> QED BY DEF Checked

(* A cell that gets too long is over the limit.                            *)
LEMMA AppendTextChecked ==
  ASSUME NEW p, Checked(p), NEW x
  PROVE  Checked(AppendText(p, x))
<1> DEFINE q == [p EXCEPT !.cell = @ \o x]
<1>1. Checked(q)
  BY DEF Checked
<1>2. AppendText(p, x) = q \/ AppendText(p, x) = Fail(q, "limit_exceeded")
  BY DEF AppendText
<1>3. "limit_exceeded" \in ReadErrors
  BY DEF ReadErrors
<1> HIDE DEF q
<1> QED BY <1>1, <1>2, <1>3, FailChecked

(* A row that gets too long is over the limit.                             *)
LEMMA FinishChecked ==
  ASSUME NEW p, Checked(p)
  PROVE  Checked(FinishCell(p)) /\ Checked(FinishRow(p))
<1> DEFINE q == [p EXCEPT !.cells = Append(@, p.cell), !.cell = <<>>, !.afterQuote = FALSE]
           r == FinishCell(p)
           z == [r EXCEPT !.out = IF r.error = "none" THEN Append(@, r.cells) ELSE @,
                          !.cells = <<>>, !.rowActive = FALSE]
<1>1. Checked(q)
  BY DEF Checked
<1>2. r = q \/ r = Fail(q, "limit_exceeded")
  BY DEF FinishCell
<1>3. "limit_exceeded" \in ReadErrors
  BY DEF ReadErrors
<1>4. FinishRow(p) = z
  BY DEF FinishRow
<1> HIDE DEF q, r
<1>5. Checked(r)
  BY <1>1, <1>2, <1>3, FailChecked
<1>6. Checked(z)
  BY <1>5 DEF Checked
<1> QED BY <1>4, <1>5, <1>6 DEF r

(* A character outside quotes.                                             *)
LEMMA UnquotedChecked ==
  ASSUME NEW p, Checked(p), NEW c
  PROVE  Checked(Unquoted(p, c))
<1> DEFINE a == [p EXCEPT !.quoted = TRUE, !.rowActive = TRUE]
           f == FinishCell(p)
           x == AppendText(p, <<c>>)
           g == [f EXCEPT !.rowActive = TRUE]
           d == [p EXCEPT !.pendingCr = TRUE]
           y == [x EXCEPT !.rowActive = TRUE]
           m == Malformed(p)
<1>1. Checked(a) /\ Checked(d)
  BY DEF Checked
<1>2. Checked(f) /\ Checked(x) /\ Checked(m)
  BY FinishChecked, AppendTextChecked, FailChecked DEF ReadErrors
<1>3. Unquoted(p, c) \in {a, g, d, y, m}
  BY DEF Unquoted
<1> HIDE DEF a, f, x, d, m
<1>4. Checked(g) /\ Checked(y)
  BY <1>2 DEF Checked
<1> HIDE DEF g, y
<1> QED BY <1>1, <1>2, <1>3, <1>4

(* A character within quotes.                                              *)
LEMMA InQuotesChecked ==
  ASSUME NEW p, Checked(p), NEW c
  PROVE  Checked(InQuotes(p, c))
<1> DEFINE a == [p EXCEPT !.quotePending = FALSE]
           b == [p EXCEPT !.quotePending = FALSE, !.quoted = FALSE, !.afterQuote = TRUE]
           d == [p EXCEPT !.quotePending = TRUE]
           e == [p EXCEPT !.pendingCr = TRUE]
           m == Malformed(p)
<1>1. Checked(a) /\ Checked(b) /\ Checked(d) /\ Checked(e)
  BY DEF Checked
<1>2. Checked(m)
  BY FailChecked DEF ReadErrors
<1>3. InQuotes(p, c) \in {AppendText(a, <<Quote>>), Unquoted(b, c), d, e, m, AppendText(p, <<c>>)}
  BY DEF InQuotes
<1> HIDE DEF a, b, d, e, m
<1>4. Checked(AppendText(a, <<Quote>>)) /\ Checked(Unquoted(b, c)) /\ Checked(AppendText(p, <<c>>))
  BY <1>1, AppendTextChecked, UnquotedChecked
<1> QED BY <1>1, <1>2, <1>3, <1>4

(* Any character.                                                          *)
LEMMA CharacterChecked ==
  ASSUME NEW p, Checked(p), NEW c
  PROVE  Checked(Character(p, c))
<1> DEFINE a == [p EXCEPT !.pendingCr = FALSE]
           m == Malformed(p)
<1>1. Checked(a)
  BY DEF Checked
<1>2. Checked(m)
  BY FailChecked DEF ReadErrors
<1>3. AfterCr(p, c) \in {m, AppendText(a, <<CR, LF>>), FinishRow(a)}
  BY DEF AfterCr
<1> HIDE DEF a, m
<1>4. Checked(AfterCr(p, c))
  BY <1>1, <1>2, <1>3, AppendTextChecked, FinishChecked
<1>5. Character(p, c) \in {p, AfterCr(p, c), InQuotes(p, c), Unquoted(p, c)}
  BY DEF Character
<1> QED BY <1>4, <1>5, InQuotesChecked, UnquotedChecked

(* Any characters, one after the other.                                    *)
LEMMA CharactersChecked ==
  ASSUME NEW p, Checked(p)
  PROVE  \A x \in Seq(Characters) : Checked(FoldLeft(Character, p, x))
<1> DEFINE Q == {x \in Seq(Characters) : Checked(FoldLeft(Character, p, x))}
<1>1. <<>> \in Q
  BY ReadOfNothing
<1>2. \A x \in Seq(Characters) : x \in Q => \A c \in Characters : Append(x, c) \in Q
  <2> SUFFICES ASSUME NEW x \in Seq(Characters), x \in Q, NEW c \in Characters
               PROVE  Append(x, c) \in Q
    OBVIOUS
  <2>1. FoldLeft(Character, p, Append(x, c)) = Character(FoldLeft(Character, p, x), c)
    BY ReadOfAppend
  <2>2. Checked(FoldLeft(Character, p, x))
    OBVIOUS
  <2>3. Checked(Character(FoldLeft(Character, p, x), c))
    BY <2>2, CharacterChecked
  <2>4. Append(x, c) \in Seq(Characters)
    BY AppendProperties
  <2> QED BY <2>1, <2>3, <2>4
<1> HIDE DEF Q
<1>3. \A x \in Seq(Characters) : x \in Q
  BY <1>1, <1>2, SeqInduction
<1> QED BY <1>3 DEF Q

(* Any bytes.                                                              *)
LEMMA DecodeChecked ==
  ASSUME NEW p, Checked(p), p.pending \in Seq(Byte), NEW y \in Seq(Byte)
  PROVE  Checked(Decode(p, y))
<1> DEFINE d == DecodeBytes(p.pending, y)
           r == [p EXCEPT !.pending = d.pending, !.sawText = @ \/ d.chars # <<>>]
<1>1. d.chars \in Seq(Characters)
  BY DecodeBytesAre DEF Decoded
<1>2. Decode(p, y) = IF d.bad THEN Malformed(p) ELSE FoldLeft(Character, r, d.chars)
  BY DEF Decode, TakeCharacters
<1> HIDE DEF d
<1>3. Checked(r)
  BY DEF Checked
<1> HIDE DEF r
<1>4. Checked(FoldLeft(Character, r, d.chars))
  BY <1>1, <1>3, CharactersChecked
<1>5. Checked(Malformed(p))
  BY FailChecked DEF ReadErrors
<1> QED BY <1>2, <1>4, <1>5

(* So a chunk never fails for the header (parser.write).                   *)
LEMMA WriteChecked ==
  ASSUME NEW p \in ParserState, p.error = "none", NEW chunk \in Seq(Byte)
  PROVE  Checked(Write(p, chunk))
<1> DEFINE u == p.preamble \o chunk
           w == SubSeq(u, 4, Len(u))
           fresh == [p EXCEPT !.out = <<>>]
           decided == [fresh EXCEPT !.preamble = <<>>, !.resolved = TRUE]
           marked == [decided EXCEPT !.hadBom = TRUE]
           held == [fresh EXCEPT !.preamble = u]
<1>1. Checked(p) /\ p.pending \in Seq(Byte)
  BY DEF ParserState, Checked, ReadErrors
<1>2. u \in Seq(Byte)
  BY ConcatIsText DEF ParserState
<1>3. Write(p, chunk) \in {Decode(fresh, chunk), Decode(marked, w), held, Decode(decided, u)}
  BY DEF Write
<1>4. w \in Seq(Byte)
  <2> HIDE DEF u
  <2>1. Len(u) \in Nat /\ 4 \in Nat /\ 4 >= 1
    BY <1>2, LenProperties
  <2>2. Len(u) \in Int /\ Len(u) <= Len(u)
    BY <2>1
  <2> QED BY <1>2, <2>1, <2>2, SubSeqIs
<1>5. /\ Checked(fresh) /\ fresh.pending \in Seq(Byte)
      /\ Checked(decided) /\ decided.pending \in Seq(Byte)
      /\ Checked(marked) /\ marked.pending \in Seq(Byte)
      /\ Checked(held)
  BY <1>1 DEF ParserState, Checked
<1> HIDE DEF fresh, decided, marked, held, u, w
<1>6. Checked(Decode(fresh, chunk)) /\ Checked(Decode(marked, w)) /\ Checked(Decode(decided, u))
  BY <1>2, <1>4, <1>5, DecodeChecked
<1> QED BY <1>3, <1>5, <1>6

(* At the end only the lack of any text is an error in the header.         *)
LEMMA EndChecked ==
  ASSUME NEW p, Checked(p)
  PROVE  LET q == EndOfText(LastQuote(NoHalfCharacter(p))) IN
         \/ Checked(q)
         \/ p.error = "none" /\ p.pending = <<>> /\ ~p.sawText
<1> DEFINE h == NoHalfCharacter(p)
           a == [h EXCEPT !.quotePending = FALSE, !.quoted = FALSE, !.afterQuote = TRUE]
           l == LastQuote(h)
           q == EndOfText(l)
<1>1. Checked(Malformed(p))
  BY FailChecked DEF ReadErrors
<1>2. Checked(h) /\ (h = p \/ h = Malformed(p)) /\ (p.pending # <<>> => h = Malformed(p)) /\ (p.pending = <<>> => h = p)
  BY <1>1 DEF NoHalfCharacter
<1> HIDE DEF h
<1>3. Checked(a) /\ a.error = h.error /\ a.sawText = h.sawText
  BY <1>2 DEF Checked
<1>4. l = a \/ l = h
  BY DEF LastQuote
<1> HIDE DEF a, l
<1>5. Checked(l) /\ l.error = h.error /\ l.sawText = h.sawText
  BY <1>2, <1>3, <1>4
<1>6. \/ q \in {l, Malformed(l), FinishRow(l)}
      \/ l.error = "none" /\ ~l.sawText
  BY DEF EndOfText
<1> HIDE DEF q
<1>7. Checked(Malformed(l)) /\ Checked(FinishRow(l))
  BY <1>5, FailChecked, FinishChecked DEF ReadErrors
<1>8. CASE q \in {l, Malformed(l), FinishRow(l)}
  BY <1>5, <1>7, <1>8 DEF q, l, h
<1>9. CASE l.error = "none" /\ ~l.sawText
  <2>1. h.error = "none" /\ ~h.sawText
    BY <1>5, <1>9
  <2>2. CASE p.pending = <<>>
    BY <1>2, <2>1, <2>2
  <2>3. CASE p.pending # <<>>
    <3>1. "error" \in DOMAIN p
      BY DEF Checked
    <3>2. Malformed(p).error # "none"
      BY <3>1 DEF Malformed, Fail
    <3> QED BY <1>2, <2>1, <2>3, <3>2
  <2> QED BY <2>2, <2>3
<1> QED BY <1>6, <1>8, <1>9

(* What is wrong with the header is said, whatever the rows are.           *)
LEMMA HeaderErrorStays ==
  \A table \in Raws :
    table # <<>> /\ HeaderError(table[1]) # "none"
      => Taken(table).error = HeaderError(table[1])
<1> DEFINE P(table) == table # <<>> /\ HeaderError(table[1]) # "none"
                         => Taken(table).error = HeaderError(table[1])
           Q == {table \in Raws : P(table)}
<1>0. Raws = Seq(RawRow)
  BY DEF Raws, RawRow
<1>1. <<>> \in Q
  BY <1>0, EmptySeq
<1>2. \A table \in Seq(RawRow) : table \in Q => \A raw \in RawRow : Append(table, raw) \in Q
  <2> SUFFICES ASSUME NEW table \in Seq(RawRow), table \in Q, NEW raw \in RawRow
               PROVE  Append(table, raw) \in Q
    OBVIOUS
  <2> DEFINE more == Append(table, raw)
             s == Taken(table)
             e == HeaderError(more[1])
  <2>1. more \in Seq(RawRow)
    BY AppendProperties
  <2>2. Taken(more) = Consume(s, raw)
    BY TakenOfAppend DEF Taken
  <2>3. P(more)
    <3> SUFFICES ASSUME e # "none" PROVE Taken(more).error = e
      OBVIOUS
    <3>1. CASE table = <<>>
      <4>1. s = Start
        BY <3>1, TakenOfNothing DEF Taken
      <4>2. more[1] = raw
        BY <3>1
      <4>3. Consume(Start, raw) = TakeHeader(Start, raw, HeaderError(raw))
        BY DEF Consume, Start
      <4>4. TakeHeader(Start, raw, HeaderError(raw)) = [Start EXCEPT !.error = HeaderError(raw)]
        BY <4>2 DEF TakeHeader
      <4>5. [Start EXCEPT !.error = HeaderError(raw)].error = HeaderError(raw)
        BY DEF Start
      <4> HIDE DEF more
      <4> QED BY <2>2, <4>1, <4>2, <4>3, <4>4, <4>5
    <3>2. CASE table # <<>>
      <4>1. 1 \in 1 .. Len(table)
        BY <3>2, LenProperties, EmptySeq
      <4>2. more[1] = table[1]
        BY <4>1, AppendProperties
      <4> HIDE DEF more
      <4>3. s.error = e
        BY <3>2, <4>2
      <4>4. Consume(s, raw) = s
        BY <4>3 DEF Consume
      <4> QED BY <2>2, <4>3, <4>4
    <3> QED BY <3>1, <3>2
  <2> HIDE DEF P, more
  <2>4. more \in Q
    BY <1>0, <2>1, <2>3
  <2> QED BY <2>4 DEF more
<1> HIDE DEF Q
<1>3. \A table \in Seq(RawRow) : table \in Q
  BY <1>1, <1>2, SeqInduction
<1> QED BY <1>0, <1>3 DEF Q

(* What a document says.                                                   *)
TableOf(b) == Table(Records(TextOf(b)))

(* A document of which the reader can say only that it does not parse, or  *)
(* that its header will not do.                                            *)
Innocent(b) ==
  /\ IsText(b) /\ TableOf(b) # <<>> /\ TableOf(b) \in Raws
  /\ HeaderError(TableOf(b)[1]) \in {"none", "invalid_csv_header"}
  /\ HeaderError(TableOf(b)[1]) = "none" => IsCatalog(TableOf(b)) /\ NoDuplicates(BodyOf(TableOf(b)))

(* What the reader says of such a document, when it does not accept it.    *)
Blames(b, v) ==
  \/ v \in {"malformed_csv", "limit_exceeded"}
  \/ v = "invalid_csv_header" /\ HeaderError(TableOf(b)[1]) = "invalid_csv_header"

(* Rows that begin those of such a document are refused only for the       *)
(* header.                                                                 *)
LEMMA InnocentTaken ==
  ASSUME NEW b, Innocent(b), NEW table \in Raws, NEW more \in Raws, TableOf(b) = table \o more,
         Taken(table).error # "none"
  PROVE  Blames(b, Taken(table).error)
<1> DEFINE T == TableOf(b)
           S == RawRow
<1>1. table \in Seq(S) /\ more \in Seq(S)
  BY DEF Raws, RawRow
<1>2. TakenIs(table, Taken(table))
  BY TakenTable
<1>3. table # <<>> /\ ~IsCatalog(table)
  BY <1>2 DEF TakenIs, Start
<1>4. ~IsCatalog(T)
  BY <1>3, CatalogBegins
<1> HIDE DEF T, S
<1>5. (table \o more)[1] = table[1]
  BY <1>1, <1>3, ConcatFirst
<1>6. HeaderError(T[1]) = "invalid_csv_header"
  BY <1>4 DEF Innocent, T
<1>7. HeaderError(table[1]) = "invalid_csv_header"
  BY <1>5, <1>6 DEF T
<1>8. Taken(table).error = "invalid_csv_header"
  BY <1>3, <1>7, HeaderErrorStays
<1> QED BY <1>6, <1>8 DEF Blames, T

(* The errors of parser.finish.                                            *)
LEMMA FinishBlames ==
  ASSUME NEW before \in Raws, NEW given \in Seq(Byte), NEW p,
         Parsed(p, given, before), p.out = <<>>, TableOf(given) # <<>>
  PROVE  Checked(FinishParse(p))
<1> DEFINE w == WithoutBom(given)
           decided == [p EXCEPT !.out = <<>>, !.preamble = <<>>, !.resolved = TRUE]
           d1 == Decode(decided, p.preamble)
           d == DecodeBytes(<<>>, w)
<1>1. /\ p \in ParserState /\ p.error = "none"
      /\ ~IsStrictPrefix(given, Bom) => p.resolved /\ p.preamble = <<>> /\ ReadBytes(p, WithoutBom(given), before)
      /\ IsStrictPrefix(given, Bom) => ~p.resolved /\ p.preamble = given /\ ReadBytes(p, <<>>, before)
  BY ParsedBytes
<1>2. FinishParse(p) = EndOfText(LastQuote(NoHalfCharacter(d1)))
  BY DEF FinishParse
<1>3. /\ decided \in ParserState /\ decided.error = "none" /\ Row(decided) = Row(p)
      /\ Flags(decided) = Flags(p) /\ decided.pending = p.pending /\ decided.sawText = p.sawText
  <2>1. <<>> \in Seq(Byte) /\ <<>> \in Seq(Seq(Seq(Characters)))
    OBVIOUS
  <2> QED BY <1>1, <2>1 DEF ParserState, Row, Flags
<1>4. w \in Seq(Byte) /\ <<>> \in Seq(Byte) /\ w \o <<>> = w /\ <<>> \o w = w
  <2>1. w \in Seq(Byte)
    BY WithoutBomIs
  <2> QED BY <2>1, ConcatIsText
<1> HIDE DEF decided
<1>5. Checked(d1)
  <2>1. Checked(decided) /\ decided.pending \in Seq(Byte)
    BY <1>3 DEF ParserState, Checked, ReadErrors
  <2>2. p.preamble \in Seq(Byte)
    BY <1>1 DEF ParserState
  <2> QED BY <2>1, <2>2, DecodeChecked
<1>6. d1.error = "none" => ReadBytes(d1, w, before)
  <2>1. CASE ~IsStrictPrefix(given, Bom)
    <3>1. ReadBytes(decided, w, before)
      BY <1>1, <1>3, <2>1, ReadBytesCarry
    <3>2. d1 = Decode(decided, <<>>)
      BY <1>1, <2>1
    <3> HIDE DEF d1, w
    <3>3. w \in Seq(Byte) /\ <<>> \in Seq(Byte)
      BY <1>4
    <3>4. d1.error = "none" => ReadBytes(d1, w \o <<>>, before)
      BY <3>1, <3>2, <3>3, DecodeStep
    <3> QED BY <1>4, <3>4
  <2>2. CASE IsStrictPrefix(given, Bom)
    <3>1. ReadBytes(decided, <<>>, before)
      BY <1>1, <1>3, <2>2, ReadBytesCarry
    <3>2. w = given
      BY <2>2, WithoutBomIs
    <3>3. d1 = Decode(decided, w)
      BY <1>1, <2>2, <3>2
    <3> HIDE DEF d1, w
    <3>4. w \in Seq(Byte) /\ <<>> \in Seq(Byte)
      BY <1>4
    <3>5. d1.error = "none" => ReadBytes(d1, <<>> \o w, before)
      BY <3>1, <3>3, <3>4, DecodeStep
    <3> QED BY <1>4, <3>5
  <2> QED BY <2>1, <2>2
<1>7. TextOf(given) = d.chars /\ d \in Decoded
  BY <1>4, DecodeBytesAre DEF TextOf
<1> HIDE DEF d1
<1>8. ASSUME d1.error = "none", ~d1.sawText PROVE FALSE
  <2>1. d.chars # <<>> => d1.sawText
    BY <1>6, <1>8 DEF ReadBytes
  <2>2. TextOf(given) = <<>>
    BY <1>7, <1>8, <2>1
  <2>3. Records(<<>>) = <<>>
    BY NoText, RecordsAre, EmptySeq
  <2>4. Table(<<>>) = <<>>
    BY DEF Table
  <2> QED BY <2>2, <2>3, <2>4 DEF TableOf
<1>9. Checked(EndOfText(LastQuote(NoHalfCharacter(d1))))
  BY <1>5, <1>8, EndChecked
<1> QED BY <1>2, <1>9

(* An exported document is such a document, and is accepted exactly if its *)
(* rows and columns can be taken back.                                     *)
LEMMA ExportedIs ==
  ASSUME NEW given, Given(given), NEW bom \in BOOLEAN
  PROVE  LET b == ExportCanonicalCsv(given, bom) IN
         /\ Innocent(b) /\ BodyOf(TableOf(b)) = Completed(given)
         /\ \A who : Accepted(b, who) <=> AreImportable(given)
         /\ HeaderError(TableOf(b)[1]) = "invalid_csv_header" => <<>> \in ToSet(HeadersOf(given))
<1> DEFINE b == ExportCanonicalCsv(given, bom)
           H == HeadersOf(given)
           T == ProtectedRows(Sheet(given))
           good == AllGoodRecords(Records(TextOf(b)))
<1>1. /\ IsText(b) /\ TableOf(b) = T /\ (good <=> GoodRows(Sheet(given)))
  BY ExportReads DEF Given, TableOf
<1>2. T \in Raws /\ T # <<>> /\ T[1] = Protecteds(H)
  BY SheetIs
<1>3. HeaderError(T[1]) = IF <<>> \in ToSet(H) THEN "invalid_csv_header" ELSE "none"
  BY <1>2, HeaderComesBack
<1>4. /\ IsCatalog(T) <=> <<>> \notin ToSet(H)
      /\ BodyOf(T) = Completed(given) /\ NoDuplicates(BodyOf(T))
  BY CatalogComesBack
<1>5. good <=> /\ \A name \in ToSet(H) : Importable(name)
               /\ \A row \in ToSet(given) : RowImportable(row)
  BY <1>1, GoodSheet
<1> HIDE DEF b, T
<1>6. Innocent(b)
  <2>1. HeaderError(T[1]) \in {"none", "invalid_csv_header"}
    BY <1>3
  <2>2. HeaderError(T[1]) = "none" => IsCatalog(T) /\ NoDuplicates(BodyOf(T))
    BY <1>3, <1>4
  <2> QED BY <1>1, <1>2, <2>1, <2>2 DEF Innocent
<1>7. AreImportable(given) <=> good /\ <<>> \notin ToSet(H)
  <2> HIDE DEF good
  <2>1. AreImportable(given) <=>
          /\ \A name \in ToSet(H) : name # <<>> /\ Importable(name)
          /\ \A row \in ToSet(given) : RowImportable(row)
    BY DEF AreImportable, RowImportable
  <2> HIDE DEF H
  <2> QED BY <1>5, <2>1
<1>8. \A who : Accepted(b, who) <=> AreImportable(given)
  <2> SUFFICES ASSUME NEW who PROVE Accepted(b, who) <=> AreImportable(given)
    OBVIOUS
  <2>1. Table(Records(TextOf(b))) = T
    BY <1>1 DEF TableOf
  <2>2. Accepted(b, who) <=> good /\ IsCatalog(T)
    BY <1>1, <1>4, <2>1 DEF Accepted
  <2> QED BY <1>4, <1>7, <2>2
<1> HIDE DEF H
<1>9. HeaderError(TableOf(b)[1]) = "invalid_csv_header" => <<>> \in ToSet(H)
  BY <1>1, <1>3
<1> QED BY <1>1, <1>4, <1>6, <1>8, <1>9 DEF b, H

(***************************************************************************)
(* The invariant of the readers of an exported document.                   *)
(***************************************************************************)
BlamesWell ==
  Innocent(doc.bytes) /\ verdict \notin {"reading", "accepted"} => Blames(doc.bytes, verdict)

(* The document is of exported rows, and the reader does not say of it     *)
(* what is not so.                                                         *)
ExportInvariant ==
  /\ ReaderInvariant
  /\ doc.exported => \E e \in Exports : Exportable(e.rows) /\ doc = ExportedDoc(e)
  /\ BlamesWell

(* A step that says what is so of the document it leaves as it is.         *)
LEMMA BlamesWellThen ==
  ASSUME doc' = doc,
         Innocent(doc.bytes) /\ verdict' # "reading" /\ verdict' # "accepted"
           => Blames(doc.bytes, verdict')
  PROVE  BlamesWell'
  BY DEF BlamesWell

(* The readers begin within it.                                            *)
LEMMA ExportInit == Init => ExportInvariant
<1> SUFFICES ASSUME Init PROVE ExportInvariant
  OBVIOUS
<1>1. ReaderInvariant
  BY ReaderInit
<1>2. BlamesWell
  BY DEF Init, BlamesWell
<1>3. ASSUME doc.exported PROVE \E e \in Exports : Exportable(e.rows) /\ doc = ExportedDoc(e)
  <2>1. \/ \E b \in Foreign : doc = ForeignDoc(b)
        \/ \E e \in {x \in Exports : Exportable(x.rows)} : doc = ExportedDoc(e)
    BY DEF Init
  <2>2. \A b \in Foreign : doc # ForeignDoc(b)
    BY <1>3 DEF ForeignDoc
  <2> QED BY <2>1, <2>2
<1> QED BY <1>1, <1>2, <1>3 DEF ExportInvariant

(* What the parser says is so.                                             *)
LEMMA ErrorBlames ==
  ASSUME NEW b, NEW p, Checked(p), p.error # "none"
  PROVE  Blames(b, p.error)
  BY DEF Checked, ReadErrors, Blames

(* A chunk keeps it: what the stream reader says of the rows that were     *)
(* read so far is what is wrong with the header.                           *)
LEMMA FeedBlames ==
  ASSUME ReaderInvariant, NEW n \in Chunks, Feed(n)
  PROVE  BlamesWell'
<1> DEFINE b == doc.bytes
           g == GivenBytes
           chunk == SubSeq(b, fed + 1, fed + n)
           m == fed + n
           h == SubSeq(b, 1, m)
           z == SubSeq(b, m + 1, Len(b))
           p == Write(parser, chunk)
           table == TableRead
           more == Table(CompleteRecords(Seen(h)))
           taken == IF reader = "stream" /\ p.error = "none" THEN p.out ELSE <<>>
           s == ConsumeAll(taken)
<1>1. /\ verdict = "reading" /\ m <= Len(b) /\ doc' = doc
      /\ verdict' = Verdict(p, s, "reading")
  BY DEF Feed, FeedRows, Took
<1>2. /\ b \in Seq(Byte) /\ fed \in Nat /\ n \in Nat /\ m \in Nat /\ fed <= m /\ Len(b) \in Nat
      /\ m \in 0 .. Len(b)
  <2>1. b \in Seq(Byte) /\ fed \in 0 .. Len(b)
    BY DEF ReaderInvariant
  <2>2. n \in Nat
    BY CodecAssumption
  <2>3. Len(b) \in Nat
    BY <2>1, LenProperties
  <2> QED BY <1>1, <2>1, <2>2, <2>3
<1>3. g \in Seq(Byte) /\ chunk \in Seq(Byte) /\ h = g \o chunk /\ h \in Seq(Byte)
  <2>1. m <= Len(b)
    BY <1>1
  <2> HIDE DEF m
  <2>2. /\ SubSeq(b, 1, fed) \in Seq(Byte) /\ SubSeq(b, fed + 1, m) \in Seq(Byte)
        /\ SubSeq(b, 1, m) = SubSeq(b, 1, fed) \o SubSeq(b, fed + 1, m)
    BY <1>2, <2>1, CutInTwo
  <2>3. SubSeq(b, 1, m) \in Seq(Byte)
    BY <1>2, BeginningIs
  <2> QED BY <2>2, <2>3 DEF m, GivenBytes
<1>4. z \in Seq(Byte) /\ b = h \o z
  <2>1. SubSeq(b, 1, Len(b)) = b
    BY <1>2, PrefixStep
  <2> DEFINE L == Len(b)
  <2>2. L \in Nat /\ m <= L /\ L <= L
    BY <1>1, <1>2
  <2>3. SubSeq(b, m + 1, L) \in Seq(Byte) /\ SubSeq(b, 1, L) = SubSeq(b, 1, m) \o SubSeq(b, m + 1, L)
    <3> HIDE DEF L, m
    <3> QED BY <1>2, <2>2, CutInTwo DEF L
  <2> QED BY <2>1, <2>3
<1>5. table \in Raws /\ Parsed(parser, g, table) /\ parser.out = <<>> /\ Reading
      /\ reader \in {"stream", "whole"}
  BY <1>1, ParserIs DEF ReaderInvariant
<1>6. parser \in ParserState /\ parser.error = "none"
  BY <1>3, <1>5, ParsedBytes
<1> HIDE DEF chunk, h, z, g, table
<1>7. Checked(p)
  BY <1>3, <1>6, WriteChecked
<1>8. p.error = "none" => Parsed(p, g \o chunk, table)
  BY <1>3, <1>5, WriteStep
<1> HIDE DEF p, m
<1>9. \/ p.error # "none" /\ verdict' = p.error
      \/ p.error = "none" /\ s.error # "none" /\ verdict' = s.error
      \/ p.error = "none" /\ s.error = "none" /\ verdict' = "reading"
  <2> HIDE DEF s
  <2> QED BY <1>1 DEF Verdict
<1>10. CASE p.error # "none"
  <2>1. verdict' = p.error
    BY <1>9, <1>10
  <2>2. Blames(b, verdict')
    BY <1>7, <1>10, <2>1, ErrorBlames
  <2> QED BY <1>1, <2>2, BlamesWellThen
<1>11. CASE p.error = "none"
  <2>1. Parsed(p, h, table)
    BY <1>3, <1>8, <1>11
  <2>2. table \o p.out = more /\ more \in Raws
    BY <1>3, <1>5, <2>1, OutTaken
  <2>3. p.out \in Raws
    BY <1>3, <1>5, <2>1, OutTaken
  <2> HIDE DEF more
  <2>4. CASE reader = "stream"
    <3>1. s = FoldLeft(Consume, Taken(table), p.out)
      BY <1>5, <1>11, <2>4 DEF ConsumeAll, Reading, table
    <3>2. s = Taken(more)
      BY <1>5, <2>2, <2>3, <3>1, TakenInParts
    <3> HIDE DEF s
    <3>3. ASSUME s.error # "none", Innocent(b) PROVE Blames(b, s.error)
      <4>1. IsText(h \o z)
        BY <1>4, <3>3 DEF Innocent
      <4>2. \E rest \in Raws :
              Table(Records(TextOf(h \o z))) = Table(CompleteRecords(Seen(h))) \o rest
        BY <1>3, <1>4, <4>1, TableSoFar
      <4>3. PICK rest \in Raws : TableOf(b) = more \o rest
        <5> HIDE DEF b
        <5> QED BY <1>4, <4>2 DEF TableOf, more
      <4> HIDE DEF b
      <4> QED BY <2>2, <3>2, <3>3, <4>3, InnocentTaken
    <3>4. Innocent(b) /\ verdict' # "reading" /\ verdict' # "accepted" => Blames(b, verdict')
      BY <1>9, <1>11, <3>3
    <3> QED BY <1>1, <3>4, BlamesWellThen
  <2>5. CASE reader = "whole"
    <3>1. headers = <<>> /\ rows = <<>>
      BY <1>5, <2>5 DEF Reading
    <3>2. taken = <<>>
      BY <2>5
    <3>3. s = [headers |-> headers, rows |-> rows, error |-> "none"]
      BY <3>2, TakenOfNothing DEF ConsumeAll
    <3>4. s.error = "none"
      BY <3>3
    <3> HIDE DEF s
    <3>5. verdict' = "reading"
      BY <1>9, <1>11, <3>4
    <3> QED BY <1>1, <3>5, BlamesWellThen
  <2> QED BY <1>5, <2>4, <2>5
<1> QED BY <1>10, <1>11

(* So does the end of the input: rows that are a catalog have no           *)
(* duplicates.                                                             *)
LEMMA EndBlames ==
  ASSUME ReaderInvariant, Finish
  PROVE  BlamesWell'
<1> DEFINE b == doc.bytes
           g == GivenBytes
           table == TableRead
           p == FinishParse(parser)
           T == TableOf(b)
           taken == IF p.error = "none" THEN raws \o p.out ELSE <<>>
           s == ConsumeAll(taken)
           ok == EndVerdict(s)
<1>1. /\ verdict = "reading" /\ fed = Len(b) /\ doc' = doc /\ verdict' = Verdict(p, s, ok)
  BY DEF Finish, LastRows, FinishRows, Took
<1>2. b \in Seq(Byte) /\ fed \in 0 .. Len(b) /\ reader \in {"stream", "whole"} /\ Reading
  BY <1>1 DEF ReaderInvariant
<1>3. g = b
  BY <1>1, <1>2, PrefixStep DEF GivenBytes
<1>4. table \in Raws /\ Parsed(parser, g, table) /\ parser.out = <<>>
  BY <1>1, ParserIs
<1> HIDE DEF g, table
<1>5. T # <<>> => Checked(p)
  BY <1>2, <1>3, <1>4, FinishBlames
<1> HIDE DEF p, s, ok
<1>6. Ended(p, b, table)
  BY <1>2, <1>3, <1>4, FinishStep DEF p
<1>7. p \in ParserState /\ (p.error = "none" => table \o p.out = T)
  BY <1>6 DEF Ended, TableOf
<1>8. p.out \in Raws
  BY <1>7 DEF ParserState, Raws
<1>9. \/ p.error # "none" /\ verdict' = p.error
      \/ p.error = "none" /\ s.error # "none" /\ verdict' = s.error
      \/ p.error = "none" /\ s.error = "none" /\ verdict' = ok
  BY <1>1 DEF Verdict
<1>10. ASSUME Innocent(b), verdict' # "reading", verdict' # "accepted"
       PROVE  Blames(b, verdict')
  <2>1. T # <<>> /\ T \in Raws
    BY <1>10 DEF Innocent
  <2> HIDE DEF b, T
  <2>2. CASE p.error # "none"
    <3>1. Checked(p) /\ verdict' = p.error
      BY <1>5, <1>9, <2>1, <2>2
    <3> QED BY <2>2, <3>1, ErrorBlames
  <2>3. CASE p.error = "none"
    <3>1. table \o p.out = T
      BY <1>7, <2>3
    <3>2. s = Taken(T)
      <4>1. CASE reader = "stream"
        <5>1. raws = <<>> /\ Taken(table) = [headers |-> headers, rows |-> rows, error |-> "none"]
          BY <1>2, <4>1 DEF Reading, table
        <5>2. taken = p.out
          <6> DEFINE out == p.out
          <6>1. out \in Raws /\ taken = <<>> \o out
            BY <1>8, <2>3, <5>1
          <6> HIDE DEF out
          <6> QED BY <6>1, ConcatIsText DEF Raws, out
        <5> HIDE DEF taken
        <5>3. s = FoldLeft(Consume, Taken(table), p.out)
          BY <5>1, <5>2 DEF s, ConsumeAll
        <5> QED BY <1>4, <1>8, <3>1, <5>3, TakenInParts
      <4>2. CASE reader = "whole"
        <5>1. raws = table /\ headers = <<>> /\ rows = <<>>
          BY <1>2, <4>2 DEF Reading, table
        <5>2. taken = T
          BY <2>3, <3>1, <5>1
        <5> HIDE DEF taken
        <5> QED BY <5>1, <5>2 DEF s, ConsumeAll, Taken, Start
      <4> QED BY <1>2, <4>1, <4>2
    <3>3. TakenIs(T, s)
      BY <2>1, <3>2, TakenTable
    <3>4. CASE s.error # "none"
      <4>1. verdict' = s.error
        BY <1>9, <2>3, <3>4
      <4>2. <<>> \in Raws /\ T = T \o <<>>
        <5>1. T \in Seq(RawRow) /\ <<>> \in Seq(RawRow) /\ Raws = Seq(RawRow)
          BY <2>1, EmptySeq DEF Raws, RawRow
        <5> QED BY <5>1, ConcatIsText
      <4>3. Innocent(b) /\ TableOf(b) = T
        BY <1>10 DEF T
      <4>4. Blames(b, Taken(T).error)
        BY <2>1, <3>2, <3>4, <4>2, <4>3, InnocentTaken
      <4> QED BY <3>2, <4>1, <4>4
    <3>5. CASE s.error = "none"
      <4>1. IsCatalog(T)
        BY <2>1, <3>3, <3>5 DEF TakenIs
      <4>2. s.headers = HeaderOf(T) /\ s.rows = BodyOf(T)
        BY <2>1, <3>3, <3>5, <4>1 DEF TakenIs
      <4>3. HeaderError(T[1]) = "none"
        BY <4>1 DEF IsCatalog
      <4>4. HeaderOf(T) # <<>>
        BY <4>3, HeadersAreNot DEF HeaderOf, Decodeds
      <4>5. NoDuplicates(BodyOf(T))
        BY <1>10, <4>3 DEF Innocent, T
      <4>6. ok = "accepted"
        BY <4>2, <4>4, <4>5 DEF EndVerdict, ok
      <4>7. verdict' = ok
        BY <1>9, <2>3, <3>5
      <4> QED BY <1>10, <4>6, <4>7
    <3> QED BY <3>4, <3>5
  <2> QED BY <2>2, <2>3
<1> QED BY <1>1, <1>10, BlamesWellThen

(* No document of exported rows is refused for what the exporter wrote     *)
(* around the cells, whatever the rows, the chunks and the limits are      *)
(* (exportCanonicalCsv, parseCanonicalCsvStream, parseCanonicalCsv).       *)
THEOREM ExportSafety == Spec => []ExportInvariant
<1>1. Init => ExportInvariant
  BY ExportInit
<1>2. ExportInvariant /\ [Next]_vars => ExportInvariant'
  <2> SUFFICES ASSUME ExportInvariant, [Next]_vars PROVE ExportInvariant'
    OBVIOUS
  <2>1. ReaderInvariant /\ BlamesWell
        /\ (doc.exported => \E e \in Exports : Exportable(e.rows) /\ doc = ExportedDoc(e))
    BY DEF ExportInvariant
  <2>2. ASSUME doc' = doc, ReaderInvariant', BlamesWell' PROVE ExportInvariant'
    BY <2>1, <2>2 DEF ExportInvariant
  <2>3. ASSUME NEW n \in Chunks, Feed(n) PROVE ExportInvariant'
    <3>1. doc' = doc
      BY <2>3 DEF Feed
    <3>2. ReaderInvariant' /\ BlamesWell'
      BY <2>1, <2>3, FeedKeeps, FeedBlames
    <3> QED BY <2>2, <3>1, <3>2
  <2>4. CASE Finish
    <3>1. doc' = doc
      BY <2>4 DEF Finish
    <3>2. ReaderInvariant' /\ BlamesWell'
      BY <2>1, <2>4, FinishKeeps, EndBlames
    <3> QED BY <2>2, <3>1, <3>2
  <2>5. CASE UNCHANGED vars
    <3>1. doc' = doc /\ verdict' = verdict
      BY <2>5 DEF vars
    <3>2. ReaderInvariant'
      BY <2>1, <2>5 DEF vars, ReaderInvariant, Reading, GivenBytes, TableRead, ReadsTheGrammar
    <3>3. BlamesWell'
      BY <2>1, <3>1 DEF BlamesWell
    <3> QED BY <2>2, <3>1, <3>2, <3>3
  <2> QED BY <2>3, <2>4, <2>5 DEF Next
<1> QED BY <1>1, <1>2, PTL DEF Spec

(* Rows that are exported and read again are the same rows, in identity    *)
(* order and each with every extra column, and export to the same bytes;   *)
(* rows with a cell or a column name that cannot be taken back are         *)
(* refused, never changed.                                                 *)
THEOREM RoundTripsAlways == Spec => []RoundTrips
<1>1. ExportInvariant => RoundTrips
  <2> SUFFICES ASSUME ExportInvariant, doc.exported, verdict # "reading"
               PROVE  IF AreImportable(doc.rows)
                      THEN /\ verdict = "accepted" /\ rows = Completed(doc.rows)
                           /\ ExportCanonicalCsv(rows, doc.bom) = doc.bytes
                      ELSE \/ verdict \in {"malformed_csv", "limit_exceeded"}
                           \/ verdict = "invalid_csv_header" /\ <<>> \in ToSet(HeadersOf(doc.rows))
    BY Zenon DEF RoundTrips
  <2>1. PICK e \in Exports : Exportable(e.rows) /\ doc = ExportedDoc(e)
    BY DEF ExportInvariant
  <2> DEFINE given == e.rows
             bom == e.bom
             b == ExportCanonicalCsv(given, bom)
             T == TableOf(b)
  <2>2. doc.rows = given /\ doc.bom = bom /\ doc.bytes = b
    BY <2>1 DEF ExportedDoc
  <2>3. Given(given) /\ bom \in BOOLEAN
    BY <2>1, ExportedAreGiven
  <2> HIDE DEF given, bom
  <2>4. /\ Innocent(b) /\ BodyOf(T) = Completed(given)
        /\ Accepted(b, reader) <=> AreImportable(given)
        /\ HeaderError(T[1]) = "invalid_csv_header" => <<>> \in ToSet(HeadersOf(given))
    BY <2>3, ExportedIs
  <2>5. ExportCanonicalCsv(Completed(given), bom) = b
    BY <2>3, ExportsAgain
  <2> HIDE DEF b
  <2>6. b \in Seq(Byte) /\ ReadsTheGrammar
    BY <2>2 DEF ExportInvariant, ReaderInvariant
  <2>7. verdict = "accepted" <=> Accepted(b, reader)
    <3>1. Accepted(b, reader) <=>
           /\ IsText(b) /\ IsDocument(TextOf(b))
           /\ FitsLimits(Table(Records(TextOf(b)))) /\ IsCatalog(Table(Records(TextOf(b))))
           /\ reader = "whole" => NoDuplicates(BodyOf(Table(Records(TextOf(b)))))
      BY <2>6, GrammarSays
    <3> QED BY <2>2, <2>6, <3>1, Zenon DEF ReadsTheGrammar
  <2>8. verdict = "accepted" => rows = BodyOf(T)
    BY <2>2, <2>6, Zenon DEF ReadsTheGrammar, TableOf
  <2>9. verdict # "accepted" => Blames(b, verdict)
    <3>1. BlamesWell
      BY DEF ExportInvariant
    <3> QED BY <2>2, <2>4, <3>1 DEF BlamesWell
  <2>10. CASE AreImportable(given)
    <3>1. verdict = "accepted" /\ rows = Completed(given)
      BY <2>4, <2>7, <2>8, <2>10
    <3> QED BY <2>2, <2>5, <2>10, <3>1
  <2>11. CASE ~AreImportable(given)
    <3>1. Blames(b, verdict)
      BY <2>4, <2>7, <2>9, <2>11
    <3>2. \/ verdict \in {"malformed_csv", "limit_exceeded"}
          \/ verdict = "invalid_csv_header" /\ <<>> \in ToSet(HeadersOf(given))
      BY <2>4, <3>1 DEF Blames
    <3> QED BY <2>2, <2>11, <3>2
  <2> QED BY <2>10, <2>11
<1> QED BY <1>1, ExportSafety, PTL
=============================================================================
