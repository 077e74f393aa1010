------------------------------- MODULE CsvCodec -------------------------------
(***************************************************************************)
(* The canonical CSV codec of csv.ts.  A document is given to a reader a   *)
(* chunk of bytes at a time, cut anywhere: IncrementalRawCsvParser keeps   *)
(* what it needs between chunks, turns characters into raw rows, and those *)
(* become canonical rows under the document's header.  The reader is       *)
(* parseCanonicalCsvStream, which hands each row to its sink at once, or   *)
(* parseCanonicalCsv, which reads everything before it looks at a row.     *)
(* Documents are foreign bytes or what exportCanonicalCsv wrote.           *)
(*                                                                         *)
(* Characters are names; Encoding gives the bytes of each.  Of the 25      *)
(* canonical columns the model has those of Columns: the first identifies  *)
(* a variant, the others are free text.  A row is a function from column   *)
(* names, extra ones included, to texts.                                   *)
(***************************************************************************)
EXTENDS Rfc4180

CONSTANTS
  Byte,          \* the bytes there are
  Encoding,      \* the UTF-8 bytes of each character
  Letters,       \* the characters an identifier may have
  Formula,       \* the characters a spreadsheet formula may begin with
  Columns,       \* the canonical column names, in order
  ExtraNames,    \* names of extra columns, in text order
  Identities,    \* variant identities, in text order
  MaxCellBytes, MaxColumns,  \* CsvLimits
  Foreign,       \* documents of other origin
  Exports,       \* what the exporter is given: rows, and whether with a BOM
  Chunks         \* how long a chunk may be

Apostrophe == "apostrophe"
Bom == <<"EF", "BB", "BF">>

Characters == DOMAIN Encoding
ColumnSet == ToSet(Columns)
ByteCount(text) == FoldLeft(LAMBDA n, c : n + Len(Encoding[c]), 0, text)
BytesOf(text) == FlattenSeq([i \in DOMAIN text |-> Encoding[text[i]]])
Identity(row) == row[Columns[1]]

(* A row has the canonical columns, and extra ones of the known names.      *)
IsRow(row) ==
  /\ row \in [DOMAIN row -> Seq(Characters)]
  /\ ColumnSet \subseteq DOMAIN row
  /\ DOMAIN row \subseteq ColumnSet \union ToSet(ExtraNames)

ASSUME CodecAssumption ==
  /\ {Quote, Comma, CR, LF, Apostrophe} \subseteq Characters
  /\ \A c \in Characters : Encoding[c] \in Seq(Byte)
  /\ ToSet(Bom) \subseteq Byte /\ Foreign \subseteq Seq(Byte)
  /\ Columns \in Seq(Seq(Characters)) /\ ExtraNames \in Seq(Seq(Characters))
  /\ Identities \in Seq(Seq(Characters))
  /\ Columns # <<>> /\ ColumnSet \intersect ToSet(ExtraNames) = {}
  /\ \A e \in Exports :
       /\ e.rows \in Seq(ToSet(e.rows)) /\ e.bom \in BOOLEAN
       /\ \A row \in ToSet(e.rows) : IsRow(row) /\ Identity(row) \in ToSet(Identities)
  /\ MaxCellBytes \in Nat /\ MaxColumns \in Nat /\ Chunks \subseteq Nat

-----------------------------------------------------------------------------
(* The exporter.                                                           *)

(* Mutant: only formulas get an apostrophe, leading apostrophes do not.    *)
FormulaProtectedOnce(v) ==
  IF v # <<>> /\ v[1] \in Formula THEN <<Apostrophe>> \o v ELSE v

FormulaProtected(v) ==
  IF v # <<>> /\ v[1] \in Formula \union {Apostrophe} THEN <<Apostrophe>> \o v ELSE v

QuoteCell(v) ==
  LET p == FormulaProtected(v)
      doubled == [i \in DOMAIN p |-> IF p[i] = Quote THEN <<Quote, Quote>> ELSE <<p[i]>>]
  IN <<Quote>> \o FlattenSeq(doubled) \o <<Quote>>

Line(cells) ==
  LET withComma == [i \in DOMAIN cells |->
        IF i = 1 THEN QuoteCell(cells[i]) ELSE <<Comma>> \o QuoteCell(cells[i])]
  IN FlattenSeq(withComma) \o <<CR, LF>>

HeadersOf(rows) ==
  LET extra == UNION {DOMAIN row \ ColumnSet : row \in ToSet(rows)}
  IN Columns \o At(ExtraNames, {i \in DOMAIN ExtraNames : ExtraNames[i] \in extra})

CellOf(row, name) == IF name \in DOMAIN row THEN row[name] ELSE <<>>

(* Rows in the order of their identities, of which no two rows that are    *)
(* exported have the same.                                                 *)
RowOf(id, rows) == CHOOSE row \in ToSet(rows) : Identity(row) = id
StableRowSort(rows) ==
  LET ids == {Identity(row) : row \in ToSet(rows)}
      sorted == At(Identities, {i \in DOMAIN Identities : Identities[i] \in ids})
  IN [k \in DOMAIN sorted |-> RowOf(sorted[k], rows)]

(* validateIdentity and validateRows, of which the groups of a listing and *)
(* the SKUs belong to StreamingImport.                                     *)
ValidIdentity(row) == Identity(row) # <<>> /\ ToSet(Identity(row)) \subseteq Letters
NoDuplicates(rows) ==
  \A i, j \in DOMAIN rows : Identity(rows[i]) = Identity(rows[j]) => i = j

(* Whether exportCanonicalCsv accepts the rows; a cell is measured before  *)
(* it is protected.                                                        *)
Exportable(rows) ==
  /\ \A row \in ToSet(rows) :
       ValidIdentity(row) /\ \A n \in DOMAIN row : ByteCount(row[n]) <= MaxCellBytes
  /\ NoDuplicates(rows)
  /\ Len(HeadersOf(rows)) <= MaxColumns

ExportCanonicalCsv(rows, excelBom) ==
  LET headers == HeadersOf(rows)
      sorted == StableRowSort(rows)
      line(row) == Line([i \in DOMAIN headers |-> CellOf(row, headers[i])])
      text == Line(headers) \o FlattenSeq([k \in DOMAIN sorted |-> line(sorted[k])])
  IN (IF excelBom THEN Bom ELSE <<>>) \o BytesOf(text)

-----------------------------------------------------------------------------
(* The raw parser.  Its state between two chunks, and the rows and the     *)
(* error of the chunk at hand.                                             *)
NewParser ==
  [preamble |-> <<>>, resolved |-> FALSE, hadBom |-> FALSE, pending |-> <<>>,
   cells |-> <<>>, cell |-> <<>>, quoted |-> FALSE, quotePending |-> FALSE,
   afterQuote |-> FALSE, pendingCr |-> FALSE, rowActive |-> FALSE,
   sawText |-> FALSE, out |-> <<>>, error |-> "none"]

Fail(p, code) == IF p.error = "none" THEN [p EXCEPT !.error = code] ELSE p
Malformed(p) == Fail(p, "malformed_csv")

AppendText(p, text) ==
  LET q == [p EXCEPT !.cell = @ \o text]
  IN IF ByteCount(q.cell) > MaxCellBytes THEN Fail(q, "limit_exceeded") ELSE q

FinishCell(p) ==
  LET q == [p EXCEPT !.cells = Append(@, p.cell), !.cell = <<>>, !.afterQuote = FALSE]
  IN IF Len(q.cells) > MaxColumns THEN Fail(q, "limit_exceeded") ELSE q

FinishRow(p) ==
  LET q == FinishCell(p)
  IN [q EXCEPT !.out = IF q.error = "none" THEN Append(@, q.cells) ELSE @,
               !.cells = <<>>, !.rowActive = FALSE]

(* Mutant: text after a closing quote is taken as part of the cell.        *)
UnquotedAfterQuote(p, c) ==
  CASE c = Quote /\ p.cell = <<>> -> [p EXCEPT !.quoted = TRUE, !.rowActive = TRUE]
    [] c = Quote \/ c = LF -> Malformed(p)
    [] c = Comma -> [FinishCell(p) EXCEPT !.rowActive = TRUE]
    [] c = CR -> [p EXCEPT !.pendingCr = TRUE]
    [] OTHER -> [AppendText(p, <<c>>) EXCEPT !.rowActive = TRUE]

Unquoted(p, c) ==
  CASE p.afterQuote /\ c \notin {Comma, CR} -> Malformed(p)
    [] c = Quote /\ p.cell = <<>> -> [p EXCEPT !.quoted = TRUE, !.rowActive = TRUE]
    [] c = Quote /\ p.cell # <<>> -> Malformed(p)
    [] c = Comma -> [FinishCell(p) EXCEPT !.rowActive = TRUE]
    [] c = CR -> [p EXCEPT !.pendingCr = TRUE]
    [] c = LF -> Malformed(p)
    [] OTHER -> [AppendText(p, <<c>>) EXCEPT !.rowActive = TRUE]

InQuotes(p, c) ==
  CASE p.quotePending /\ c = Quote ->
         AppendText([p EXCEPT !.quotePending = FALSE], <<Quote>>)
    [] p.quotePending /\ c # Quote ->
         Unquoted([p EXCEPT !.quotePending = FALSE, !.quoted = FALSE,
                            !.afterQuote = TRUE], c)
    [] ~ p.quotePending /\ c = Quote -> [p EXCEPT !.quotePending = TRUE]
    [] ~ p.quotePending /\ c = CR -> [p EXCEPT !.pendingCr = TRUE]
    [] ~ p.quotePending /\ c = LF -> Malformed(p)
    [] OTHER -> AppendText(p, <<c>>)

(* Mutant: a line end ends the row in a quoted cell too.                   *)
AfterCrEndsRow(p, c) ==
  IF c = LF THEN FinishRow([p EXCEPT !.pendingCr = FALSE, !.quoted = FALSE])
  ELSE Malformed(p)

AfterCr(p, c) ==
  CASE c # LF -> Malformed(p)
    [] c = LF /\ p.quoted -> AppendText([p EXCEPT !.pendingCr = FALSE], <<CR, LF>>)
    [] c = LF /\ ~ p.quoted -> FinishRow([p EXCEPT !.pendingCr = FALSE])

Character(p, c) ==
  CASE p.error # "none" -> p
    [] p.error = "none" /\ p.pendingCr -> AfterCr(p, c)
    [] p.error = "none" /\ ~ p.pendingCr /\ p.quoted -> InQuotes(p, c)
    [] OTHER -> Unquoted(p, c)

(* TextDecoder with fatal and stream: the characters the bytes complete,   *)
(* what is left of a character, and whether some byte fits none.           *)
DecodeByte(d, b) ==
  LET bytes == Append(d.pending, b)
      whole == {c \in Characters : Encoding[c] = bytes}
  IN CASE d.bad -> d
       [] ~ d.bad /\ whole # {} ->
            [d EXCEPT !.pending = <<>>, !.chars = Append(@, CHOOSE c \in whole : TRUE)]
       [] ~ d.bad /\ whole = {} /\ (\E c \in Characters : IsStrictPrefix(bytes, Encoding[c])) ->
            [d EXCEPT !.pending = bytes]
       [] OTHER -> [d EXCEPT !.bad = TRUE]

DecodeBytes(pending, bytes) ==
  FoldLeft(DecodeByte, [pending |-> pending, chars |-> <<>>, bad |-> FALSE], bytes)

(* A chunk is decoded as a whole before its first character is looked at.  *)
TakeCharacters(p, d) ==
  IF d.bad THEN Malformed(p)
  ELSE FoldLeft(Character,
                [p EXCEPT !.pending = d.pending, !.sawText = @ \/ d.chars # <<>>],
                d.chars)

Decode(p, bytes) == TakeCharacters(p, DecodeBytes(p.pending, bytes))

(* The first three bytes are held until it is known whether they are a BOM.*)
Write(p, chunk) ==
  LET start == p.preamble \o chunk
      fresh == [p EXCEPT !.out = <<>>]
      decided == [fresh EXCEPT !.preamble = <<>>, !.resolved = TRUE]
  IN CASE p.resolved -> Decode(fresh, chunk)
       [] ~ p.resolved /\ IsPrefix(Bom, start) ->
            Decode([decided EXCEPT !.hadBom = TRUE], SubSeq(start, 4, Len(start)))
       [] ~ p.resolved /\ IsStrictPrefix(start, Bom) -> [fresh EXCEPT !.preamble = start]
       [] OTHER -> Decode(decided, start)

(* The end of the input: a half BOM is decoded after all, a half character *)
(* or quote or a lone CR is an error, a row without a line end is a row.   *)
NoHalfCharacter(p) == IF p.pending # <<>> THEN Malformed(p) ELSE p

LastQuote(p) ==
  IF p.quotePending
  THEN [p EXCEPT !.quotePending = FALSE, !.quoted = FALSE, !.afterQuote = TRUE] ELSE p

EndOfText(p) ==
  LET open == p.cell # <<>> \/ p.cells # <<>> \/ p.afterQuote \/ p.rowActive
  IN CASE p.error # "none" -> p
       [] p.error = "none" /\ (p.pendingCr \/ p.quoted) -> Malformed(p)
       [] p.error = "none" /\ ~ (p.pendingCr \/ p.quoted) /\ open -> FinishRow(p)
       [] OTHER -> IF p.sawText THEN p ELSE Fail(p, "invalid_csv_header")

FinishParse(p) ==
  LET decided == [p EXCEPT !.out = <<>>, !.preamble = <<>>, !.resolved = TRUE]
  IN EndOfText(LastQuote(NoHalfCharacter(Decode(decided, p.preamble))))

-----------------------------------------------------------------------------
(* From raw rows to canonical rows.                                        *)
IsFormula(v) == v # <<>> /\ v[1] \in Formula

FormulaDecoded(v) ==
  IF Len(v) > 1 /\ v[1] = Apostrophe /\ v[2] \in Formula \union {Apostrophe}
  THEN Tail(v) ELSE v

HeaderError(raw) ==
  LET headers == [i \in DOMAIN raw |-> FormulaDecoded(raw[i])]
  IN CASE \E v \in ToSet(raw) : IsFormula(v) -> "formula_payload"
       [] (\E i, j \in DOMAIN headers : i # j /\ headers[i] = headers[j])
            \/ <<>> \in ToSet(headers) \/ ~ (ColumnSet \subseteq ToSet(headers)) ->
            "invalid_csv_header"
       [] OTHER -> "none"

CanonicalRow(hs, raw) ==
  [n \in ToSet(hs) |-> FormulaDecoded(raw[CHOOSE i \in DOMAIN hs : hs[i] = n])]

RowError(hs, raw) ==
  CASE Len(raw) # Len(hs) -> "malformed_csv"
    [] Len(raw) = Len(hs) /\ (\E v \in ToSet(raw) : IsFormula(v)) -> "formula_payload"
    [] Len(raw) = Len(hs) /\ (\A v \in ToSet(raw) : ~ IsFormula(v))
         /\ ~ ValidIdentity(CanonicalRow(hs, raw)) -> "invalid_identity"
    [] OTHER -> "none"

(* One raw row: the first is the header, the others go to the sink.        *)
TakeHeader(s, raw, error) ==
  IF error # "none" THEN [s EXCEPT !.error = error]
  ELSE [s EXCEPT !.headers = [i \in DOMAIN raw |-> FormulaDecoded(raw[i])]]

TakeRow(s, raw, error) ==
  IF error # "none" THEN [s EXCEPT !.error = error]
  ELSE [s EXCEPT !.rows = Append(@, CanonicalRow(s.headers, raw))]

Consume(s, raw) ==
  CASE s.error # "none" -> s
    [] s.error = "none" /\ s.headers = <<>> -> TakeHeader(s, raw, HeaderError(raw))
    [] OTHER -> TakeRow(s, raw, RowError(s.headers, raw))

-----------------------------------------------------------------------------
VARIABLES
  doc,      \* the document: its bytes, and what was exported if it was
  reader,   \* "stream" or "whole"
  fed,      \* how many bytes the reader has been given
  parser,   \* the raw parser between two chunks
  raws,     \* "whole": the raw rows so far
  headers, rows,  \* the header, and the canonical rows given out
  verdict   \* "reading", "accepted" or an error code

vars == <<doc, reader, fed, parser, raws, headers, rows, verdict>>

ForeignDoc(bytes) == [bytes |-> bytes, exported |-> FALSE, rows |-> <<>>, bom |-> FALSE]
ExportedDoc(e) ==
  [bytes |-> ExportCanonicalCsv(e.rows, e.bom), exported |-> TRUE, rows |-> e.rows,
   bom |-> e.bom]

Init ==
  /\ doc \in {ForeignDoc(b) : b \in Foreign}
             \union {ExportedDoc(e) : e \in {x \in Exports : Exportable(x.rows)}}
  /\ reader \in {"stream", "whole"}
  /\ fed = 0 /\ parser = NewParser /\ raws = <<>>
  /\ headers = <<>> /\ rows = <<>> /\ verdict = "reading"

Verdict(parsed, consumed, ok) ==
  CASE parsed.error # "none" -> parsed.error
    [] parsed.error = "none" /\ consumed.error # "none" -> consumed.error
    [] OTHER -> ok

ConsumeAll(raw) == FoldLeft(Consume, [headers |-> headers, rows |-> rows, error |-> "none"], raw)

(* The parser after a chunk, what has become of the rows, and the verdict. *)
Took(p, s, ok) ==
  /\ parser' = [p EXCEPT !.out = <<>>]
  /\ headers' = s.headers /\ rows' = s.rows
  /\ verdict' = Verdict(p, s, ok)

(* parser.write and consume.  A chunk that does not parse gives out none of*)
(* its rows.                                                               *)
FeedRows(p) ==
  /\ Took(p, ConsumeAll(IF reader = "stream" /\ p.error = "none" THEN p.out ELSE <<>>), "reading")
  /\ raws' = IF reader = "whole" THEN raws \o p.out ELSE raws

Feed(n) ==
  /\ verdict = "reading" /\ fed + n <= Len(doc.bytes)
  /\ FeedRows(Write(parser, SubSeq(doc.bytes, fed + 1, fed + n)))
  /\ fed' = fed + n
  /\ UNCHANGED <<doc, reader>>

(* parser.finish.  The whole reader now turns to its rows, and then to what*)
(* they say of each other, which the stream reader leaves to the planner.  *)
EndVerdict(s) ==
  CASE s.headers = <<>> -> "invalid_csv_header"
    [] s.headers # <<>> /\ reader = "whole" /\ ~ NoDuplicates(s.rows) -> "duplicate"
    [] OTHER -> "accepted"

FinishRows(p, s) == Took(p, s, EndVerdict(s))

LastRows(p) ==
  FinishRows(p, ConsumeAll(IF p.error = "none" THEN raws \o p.out ELSE <<>>))

Finish ==
  /\ verdict = "reading" /\ fed = Len(doc.bytes)
  /\ LastRows(FinishParse(parser))
  /\ UNCHANGED <<doc, reader, fed, raws>>

Next == Finish \/ \E n \in Chunks : Feed(n)

Spec == Init /\ [][Next]_vars

-----------------------------------------------------------------------------
(* What the bytes mean, by the grammar.                                    *)
WithoutBom(bytes) == IF IsPrefix(Bom, bytes) THEN SubSeq(bytes, 4, Len(bytes)) ELSE bytes
TextOf(bytes) == DecodeBytes(<<>>, WithoutBom(bytes)).chars
IsText(bytes) ==
  LET d == DecodeBytes(<<>>, WithoutBom(bytes)) IN ~ d.bad /\ d.pending = <<>>

Table(records) == [k \in DOMAIN records |-> Cells(records[k])]

FitsLimits(table) ==
  \A raw \in ToSet(table) :
    Len(raw) <= MaxColumns /\ \A v \in ToSet(raw) : ByteCount(v) <= MaxCellBytes

HeaderOf(table) == [i \in DOMAIN table[1] |-> FormulaDecoded(table[1][i])]
BodyOf(table) ==
  [k \in 1 .. Len(table) - 1 |-> CanonicalRow(HeaderOf(table), table[k + 1])]

IsCatalog(table) ==
  /\ table # <<>>
  /\ HeaderError(table[1]) = "none"
  /\ \A raw \in ToSet(Tail(table)) : RowError(HeaderOf(table), raw) = "none"

(* Cut into chunks anywhere, in the middle of a character, a BOM, a line   *)
(* end or a doubled quote, a document is accepted exactly if the grammar   *)
(* has it and its rows are valid, and its rows are those of the grammar    *)
(* (IncrementalRawCsvParser, parseCanonicalCsvStream, parseCanonicalCsv).  *)
ReadsTheGrammar ==
  verdict # "reading" =>
    LET text == TextOf(doc.bytes)
        table == Table(Records(text))
    IN /\ verdict = "accepted" <=>
            /\ IsText(doc.bytes) /\ IsDocument(text)
            /\ FitsLimits(table) /\ IsCatalog(table)
            /\ reader = "whole" => NoDuplicates(BodyOf(table))
       /\ verdict = "accepted" => rows = BodyOf(table)

(* The stream reader holds no finished row back and gives out no unfinished*)
(* one: as long as it reads, its sink has the rows of exactly the records  *)
(* that end within the bytes it was given.                                 *)
GivesOutWhatIsComplete ==
  reader = "stream" /\ verdict = "reading" =>
    LET given == SubSeq(doc.bytes, 1, fed)
        text == IF IsStrictPrefix(given, Bom) THEN <<>> ELSE TextOf(given)
        table == Table(CompleteRecords(text))
    IN IF table = <<>> THEN headers = <<>> /\ rows = <<>>
       ELSE headers = HeaderOf(table) /\ rows = BodyOf(table)

(* What the reader can take back.  A line end alone is not possible in any *)
(* cell, and an apostrophe put before a cell counts as part of it.         *)
Importable(v) == LinesAreWhole(v) /\ ByteCount(FormulaProtected(v)) <= MaxCellBytes

AreImportable(given) ==
  /\ \A name \in ToSet(HeadersOf(given)) : name # <<>> /\ Importable(name)
  /\ \A row \in ToSet(given) : \A n \in DOMAIN row : Importable(row[n])

(* UTF-8 tells where a character ends, and names and identities are listed *)
(* once each.                                                              *)
ASSUME ExportAssumption ==
  /\ \A c \in Characters : Encoding[c] # <<>>
  /\ \A c, d \in Characters : IsPrefix(Encoding[c], Encoding[d]) => c = d
  /\ Encoding[Quote][1] # Bom[1] /\ Apostrophe \notin Formula
  /\ IsInjective(Columns) /\ IsInjective(ExtraNames) /\ IsInjective(Identities)

Completed(given) ==
  LET names == ToSet(HeadersOf(given))
      sorted == StableRowSort(given)
  IN [k \in DOMAIN sorted |-> [n \in names |-> CellOf(sorted[k], n)]]

(* Rows that are exported and read again are the same rows, in identity    *)
(* order and each with every extra column, and export to the same bytes;   *)
(* rows with a cell or a column name that cannot be taken back are refused,*)
(* never changed (exportCanonicalCsv and both readers).                    *)
RoundTrips ==
  doc.exported /\ verdict # "reading" =>
    IF AreImportable(doc.rows)
    THEN /\ verdict = "accepted" /\ rows = Completed(doc.rows)
         /\ ExportCanonicalCsv(rows, doc.bom) = doc.bytes
    ELSE \/ verdict \in {"malformed_csv", "limit_exceeded"}
         \/ verdict = "invalid_csv_header" /\ <<>> \in ToSet(HeadersOf(doc.rows))
=============================================================================
