------------------------------- MODULE Rfc4180 -------------------------------
(***************************************************************************)
(* What a CSV document means, said without a parser: RFC 4180 with CRLF as *)
(* the only line end, in cells too, as src/README.md (RFC 4180 CSV) takes  *)
(* it.  A separator counts when an even number of quotes stands before it, *)
(* records and fields are the pieces between separators, and each piece is *)
(* well-formed or not by itself.  Texts are sequences of characters.       *)
(***************************************************************************)
EXTENDS Integers, Sequences, FiniteSets, SequencesExt

Quote == "quote"
Comma == "comma"
CR == "CR"
LF == "LF"

QuotesBefore(t, i) == Cardinality({j \in 1 .. i - 1 : t[j] = Quote})
Outside(t, i) == QuotesBefore(t, i) % 2 = 0

(* The k-th place of a set of places, in order.                            *)
Nth(places, k) ==
  CHOOSE i \in places : Cardinality({j \in places : j <= i}) = k

(* What stands in s at the places, in order.                               *)
At(s, places) == [n \in 1 .. Cardinality(places) |-> s[Nth(places, n)]]

(* The pieces of t between the cuts, each cut being w characters wide.     *)
Pieces(t, cuts, w) ==
  LET n == Cardinality(cuts)
      first(k) == IF k = 1 THEN 1 ELSE Nth(cuts, k - 1) + w
      last(k) == IF k > n THEN Len(t) ELSE Nth(cuts, k) - 1
  IN [k \in 1 .. n + 1 |-> SubSeq(t, first(k), last(k))]

RecordEnds(t) ==
  {i \in 1 .. Len(t) - 1 : t[i] = CR /\ t[i + 1] = LF /\ Outside(t, i)}

(* The records that have been ended, and all records: what follows the     *)
(* last line end is a record only if there is something.                   *)
CompleteRecords(t) == Front(Pieces(t, RecordEnds(t), 2))
Records(t) ==
  LET p == Pieces(t, RecordEnds(t), 2) IN IF Last(p) = <<>> THEN Front(p) ELSE p

Fields(r) == Pieces(r, {i \in DOMAIN r : r[i] = Comma /\ Outside(r, i)}, 1)

Quoted(f) == Len(f) >= 2 /\ f[1] = Quote /\ f[Len(f)] = Quote
Inner(f) == SubSeq(f, 2, Len(f) - 1)

(* The quotes of a quoted field come in pairs; the second of each is left  *)
(* out of its value.                                                       *)
SecondOfPair(s, j) == s[j] = Quote /\ ~ Outside(s, j)

LinesAreWhole(s) ==
  \A j \in DOMAIN s :
    /\ s[j] = CR => j < Len(s) /\ s[j + 1] = LF
    /\ s[j] = LF => j > 1 /\ s[j - 1] = CR

WellFormed(f) ==
  IF Quoted(f)
  THEN /\ LinesAreWhole(Inner(f))
       /\ \A j \in DOMAIN Inner(f) :
            Inner(f)[j] = Quote /\ Outside(Inner(f), j)
              => j < Len(Inner(f)) /\ Inner(f)[j + 1] = Quote
  ELSE \A j \in DOMAIN f : f[j] \notin {Quote, CR, LF}

Unpaired(s) == At(s, {j \in DOMAIN s : ~ SecondOfPair(s, j)})

Value(f) == IF Quoted(f) THEN Unpaired(Inner(f)) ELSE f

Cells(r) == [k \in DOMAIN Fields(r) |-> Value(Fields(r)[k])]
IsDocument(t) ==
  \A r \in ToSet(Records(t)) : \A f \in ToSet(Fields(r)) : WellFormed(f)
=============================================================================
