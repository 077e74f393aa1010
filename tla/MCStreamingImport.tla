-------------------------- MODULE MCStreamingImport --------------------------
(***************************************************************************)
(* Catalogs of up to three rows in two listings of two variants.           *)
(***************************************************************************)
EXTENDS StreamingImport, TLC

NewFacts == [listingId |-> 0, revision |-> 0, ended |-> 0, price |-> 1]
Known(revision, ended) ==
  [listingId |-> 9, revision |-> revision, ended |-> ended, price |-> 1]

Row(listing, variant, sku, facts, quantity) ==
  [listing |-> listing, variant |-> variant, sku |-> sku, facts |-> facts,
   quantity |-> quantity]
New(listing, variant) == Row(listing, variant, 0, NewFacts, 1)

Whole(rows) == [rows |-> rows, whole |-> TRUE]

(* A listing whose rows stand apart, as a seller's own file may have them. *)
Apart == Whole(<<New(1, 1), New(2, 1), New(1, 2)>>)
Two == Whole(<<New(1, 1), New(1, 2)>>)

MCSources ==
  {Apart, Two,
   \* a row gone, a row changed, and the catalog cut off
   Whole(<<New(1, 1)>>),
   Whole(<<Row(1, 2, 0, NewFacts, 2), New(1, 1)>>),
   [Two EXCEPT !.whole = FALSE],
   \* ways to collide
   Whole(<<New(1, 1), Row(1, 1, 0, NewFacts, 2)>>),
   Whole(<<Row(1, 1, 5, NewFacts, 1), Row(2, 1, 5, NewFacts, 1)>>),
   Whole(<<New(1, 1), Row(1, 2, 0, [NewFacts EXCEPT !.price = 2], 1)>>),
   \* a published listing: as it is and changed, and of another revision
   Whole(<<Row(2, 1, 5, Known(1, 0), 1), Row(2, 2, 6, Known(1, 0), 1)>>),
   Whole(<<Row(2, 1, 5, Known(2, 0), 1)>>)}

MCCurrent ==
  (<<2, 1>> :> [hash |-> NormalizedHash(Row(2, 1, 5, Known(1, 0), 1)), revision |-> 1])
    @@ (<<2, 2>> :> [hash |-> <<>>, revision |-> 1])

Identities == {1, 2} \X {1, 2}

(* Like the texts; and with the variants of a listing the other way round, *)
(* as base64url has "listing:alice:shirt#variant:m" before "...:l".        *)
LikeText == [i \in Identities |-> 10 * i[1] + i[2]]
VariantsReversed == [i \in Identities |-> 10 * i[1] - i[2]]
MCCodes == {LikeText, VariantsReversed}
=============================================================================
