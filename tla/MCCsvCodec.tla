----------------------------- MODULE MCCsvCodec -----------------------------
(* Two canonical columns, "i" for the variant and "t" for a text, and the  *)
(* extra column "x", with two extra columns no reader can take: one without*)
(* a name and one named by half a line end.  "e" is a character of two     *)
(* bytes.                                                                  *)
EXTENDS CsvCodec, TLC

MCEncoding ==
  LET ascii == {Quote, Comma, CR, LF, Apostrophe, "=", "i", "t", "x", "a", "b"}
  IN [c \in ascii |-> <<c>>] @@ [e |-> <<"C3", "A9">>, bomchar |-> Bom]
MCByte ==
  {Quote, Comma, CR, LF, Apostrophe, "=", "i", "t", "x", "a", "b", "C3", "A9"} \union ToSet(Bom)
MCLetters == {"i", "t", "x", "a", "b"}
MCColumns == <<<<"i">>, <<"t">>>>
MCExtraNames == <<<<>>, <<CR>>, <<"x">>>>
MCIdentities == <<<<"a">>, <<"b">>>>

(* Foreign documents: a beginning and up to a few bytes after it.          *)
Header == <<"i", Comma, "t", CR, LF>>
Begin(row) == Header \o row
Tails(bytes, n) == UNION {[1 .. k -> bytes] : k \in 0 .. n}
After(begin, tails) == {begin \o t : t \in tails}

MCForeign ==
  After(Begin(<<"a", Comma>>), Tails({Quote, Comma, CR, LF, "a"}, 4))
    \union After(Begin(<<"a", Comma, Quote>>), Tails({Quote, CR, LF, "C3", "A9"}, 4))
    \union After(<<>>, Tails({"EF", "BB", "BF", "i", Quote, LF}, 4))
    \union After(Bom \o Header, Tails({"a", "b", Comma, Apostrophe, "="}, 4))
    \union After(Begin(<<"a", Comma, "a", CR, LF>>), Tails({"a", "b", Comma, CR, LF}, 4))
    \union {<<"t", Comma, "x", Comma, "i", CR, LF, Comma, Comma, "a">>,
            <<"i", Comma, "t", Comma, "t", CR, LF>>,
            <<"i", Comma, "t", Comma, "=", CR, LF>>,
            <<"i", Comma, "t", Comma, CR, LF>>,
            <<"i", CR, LF, "a">>}

(* Exported rows: every text of up to two characters, two rows of which one *)
(* has an extra column, and none.                                          *)
Texts == Tails({"a", Quote, Comma, Apostrophe, "=", "e", CR, LF}, 2)
Row(id, text) == (<<"i">> :> id) @@ (<<"t">> :> text)
WithExtra(row, name, text) == row @@ (name :> text)

MCExports ==
  {[rows |-> <<Row(<<"a">>, t)>>, bom |-> bom] : t \in Texts, bom \in BOOLEAN}
    \union {[rows |-> <<WithExtra(Row(<<"b">>, <<Quote>>), <<"x">>, t), Row(<<"a">>, <<"a">>)>>,
             bom |-> FALSE] : t \in Tails({"a", Apostrophe, "="}, 3)}
    \union {[rows |-> <<WithExtra(Row(<<"a">>, t), name, <<>>)>>, bom |-> FALSE] :
              t \in Tails({"a", CR}, 1), name \in {<<>>, <<CR>>}}
    \union {[rows |-> <<>>, bom |-> TRUE]}
=============================================================================
