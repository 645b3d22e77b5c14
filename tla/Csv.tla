-------------------------------- MODULE Csv --------------------------------
(***************************************************************************)
(* CSV files (io/csv.c).  Reading: the rows of a text are found first, all *)
(* at once or a batch at a time, then the fields of each row, by tasks     *)
(* where there are many rows; the type of a column is inferred from a      *)
(* sample of its cells.  Writing: the cells of a table as text.  Importing *)
(* straight into a splayed table: the files, in the order they are put in  *)
(* place.                                                                  *)
(*                                                                         *)
(* A text is a sequence of characters, "q" the quote, "c" the delimiter,   *)
(* "n" newline, "r" return, and "a" any other.  Where only the type of a   *)
(* cell matters, a cell is a token that stands for a class of texts.       *)
(***************************************************************************)
EXTENDS Input, Integers, Sequences, FiniteSets, SequencesExt, FiniteSetsExt, Functions

CONSTANTS
    ManyRows,   \* more rows than this are parsed by tasks (8192)
    Narrow8,    \* symbol ids below this fit one byte (256)
    SampleRows, \* rows that types are inferred from (CSV_SAMPLE_ROWS)
    MaxText,    \* bound: length of a text
    MaxCells,   \* bound: rows of a table that is written and read back
    MaxTokens   \* bound: cells of a column whose type is inferred

Rows(s) == 1 .. Len(s)
Listed(f) == SubSeq(f, 1, Len(f))
At(t, p) == IF p \in Rows(t) THEN t[p] ELSE "end"

-----------------------------------------------------------------------------
(* Fields.  A quoted field ends at the first quote that is not doubled.     *)
RECURSIVE Closing(_, _)
Closing(t, p) ==
    IF At(t, p) = "end" THEN p
    ELSE IF t[p] # "q" THEN Closing(t, p + 1)
    ELSE IF At(t, p + 1) = "q" THEN Closing(t, p + 2) ELSE p
RECURSIVE Unescaped(_)
Unescaped(s) ==
    IF Len(s) < 2 THEN s
    ELSE IF s[1] = "q" /\ s[2] = "q" THEN <<"q">> \o Unescaped(SubSeq(s, 3, Len(s)))
    ELSE <<s[1]>> \o Unescaped(Tail(s))
PastDelimiter(t, p) == IF At(t, p) = "c" THEN p + 1 ELSE p
ScanQuoted(t, p) ==
    LET close == Closing(t, p + 1)
    IN [fld |-> Unescaped(SubSeq(t, p + 1, close - 1)),
        next |-> PastDelimiter(t, IF At(t, close) = "q" THEN close + 1 ELSE close)]
RECURSIVE PlainEnd(_, _)
PlainEnd(t, p) == IF At(t, p) \in {"end", "c", "n", "r"} THEN p ELSE PlainEnd(t, p + 1)
ScanField(t, p) ==
    IF At(t, p) = "q" THEN ScanQuoted(t, p)
    ELSE [fld |-> SubSeq(t, p, PlainEnd(t, p) - 1), next |-> PastDelimiter(t, PlainEnd(t, p))]

(* Rows.  Where there is no quote a newline is the end of a row; where      *)
(* there is one, a newline or a return outside quotes is, and every quote   *)
(* changes sides.  At most max rows are found, and where to go on.          *)
RECURSIVE PlainRows(_, _, _, _)
PlainRows(t, p, offs, max) ==
    LET nls == {k \in p .. Len(t) : t[k] = "n"}
        after == Min(nls) + 1
        start == IF At(t, after) = "r" THEN after + 1 ELSE after
    IN IF nls = {} THEN [offs |-> offs, next |-> Len(t) + 1]
       ELSE IF start > Len(t) \/ Len(offs) >= max THEN [offs |-> offs, next |-> start]
       ELSE PlainRows(t, start, Append(offs, start), max)
RECURSIVE QuotedRows(_, _, _, _, _)
QuotedRows(t, p, offs, max, inQuote) ==
    LET after == IF t[p] = "r" /\ At(t, p + 1) = "n" THEN p + 2 ELSE p + 1
    IN IF p > Len(t) THEN [offs |-> offs, next |-> p]
       ELSE IF t[p] = "q" THEN QuotedRows(t, p + 1, offs, max, ~inQuote)
       ELSE IF inQuote \/ t[p] \notin {"n", "r"} THEN QuotedRows(t, p + 1, offs, max, inQuote)
       ELSE IF after > Len(t) \/ Len(offs) >= max THEN [offs |-> offs, next |-> after]
       ELSE QuotedRows(t, after, Append(offs, after), max, FALSE)
HasQuotes(t, from) == \E k \in from .. Len(t) : t[k] = "q"
RowOffsetsLimited(t, p, max, quotes) ==
    IF p > Len(t) THEN [offs |-> <<>>, next |-> p]
    ELSE IF quotes THEN QuotedRows(t, p, <<p>>, max, FALSE) ELSE PlainRows(t, p, <<p>>, max)
RowOffsets(t, p) == RowOffsetsLimited(t, p, Len(t) + 1, HasQuotes(t, p)).offs

(* The fields of a row: what is missing is empty, what is too much is left, *)
(* and a return at the end of the last column is taken for a line end.      *)
DropReturn(f, last) == IF last /\ f # <<>> /\ f[Len(f)] = "r" THEN Front(f) ELSE f
RECURSIVE Fields(_, _, _, _)
Fields(t, p, end, n) ==
    IF n = 0 THEN <<>>
    ELSE IF p >= end THEN [c \in 1 .. n |-> <<>>]
    ELSE LET s == ScanField(t, p) IN <<DropReturn(s.fld, n = 1)>> \o Fields(t, s.next, end, n - 1)
RowEnd(t, offs, row) == IF row < Len(offs) THEN offs[row + 1] ELSE Len(t) + 1
ParseRow(t, offs, n, row) == Fields(t, offs[row], RowEnd(t, offs, row), n)
ParseSerial(t, offs, n) == Listed([row \in Rows(offs) |-> ParseRow(t, offs, n, row)])
(* Two workers take rows in turn; each notes for itself which columns had   *)
(* an empty cell.                                                           *)
ParseFn(t, offs, n, w) == [row \in {k \in Rows(offs) : k % 2 = w} |-> ParseRow(t, offs, n, row)]
Nulls(cells, n) == {c \in 1 .. n : \E row \in DOMAIN cells : cells[row][c] = <<>>}
Parse(t, offs, n) ==
    LET w0 == ParseFn(t, offs, n, 0)
        w1 == ParseFn(t, offs, n, 1)
        all == ParseSerial(t, offs, n)
    IN IF Len(offs) > ManyRows
       THEN [rows |-> Listed([row \in Rows(offs) |-> IF row % 2 = 0 THEN w0[row] ELSE w1[row]]), nulls |-> Nulls(w0, n) \cup Nulls(w1, n)]
       ELSE [rows |-> all, nulls |-> Nulls(all, n)]

(* A text column becomes symbols: each new text the next id, and the ids    *)
(* kept in one byte if the largest allows it.                               *)
RECURSIVE Intern(_, _)
Intern(dict, cells) ==
    IF cells = <<>> THEN [dict |-> dict, ids |-> <<>>]
    ELSE LET known == {i \in Rows(dict) : dict[i] = cells[1]}
             id == IF known = {} THEN Len(dict) + 1 ELSE Min(known)
             rest == Intern(IF known = {} THEN Append(dict, cells[1]) ELSE dict, Tail(cells))
         IN [dict |-> rest.dict, ids |-> <<id - 1>> \o rest.ids]
DictWidth(max) == IF max < Narrow8 THEN Narrow8 ELSE 1000
Narrow(ids) == LET w == DictWidth(Max(ToSet(ids))) IN Listed([i \in Rows(ids) |-> ids[i] % w])
SymColumn(cells) ==
    LET in0 == Intern(<< <<>> >>, cells)
        ids == Narrow(in0.ids)
    IN IF cells = <<>> THEN <<>> ELSE Listed([i \in Rows(ids) |-> in0.dict[ids[i] + 1]])
Materialize(t, offs, n) ==
    LET parsed == Parse(t, offs, n).rows
        cols == [c \in 1 .. n |-> SymColumn(Listed([row \in Rows(parsed) |-> parsed[row][c]]))]
    IN Listed([row \in Rows(offs) |-> Listed([c \in 1 .. n |-> cols[c][row]])])

(* A file: as many columns as its first line has, names from that line or   *)
(* not, then the rows.                                                      *)
RECURSIVE ColumnsFrom(_, _, _)
ColumnsFrom(t, p, inQuote) ==
    IF At(t, p) = "end" \/ (~inQuote /\ t[p] \in {"n", "r"}) THEN 1
    ELSE (IF ~inQuote /\ t[p] = "c" THEN 1 ELSE 0) + ColumnsFrom(t, p + 1, IF t[p] = "q" THEN ~inQuote ELSE inQuote)
NCols(t) == ColumnsFrom(t, 1, FALSE)
PastLineEnd(t, p) == LET q == IF At(t, p) = "r" THEN p + 1 ELSE p IN IF At(t, q) = "n" THEN q + 1 ELSE q
RECURSIVE HeaderFields(_, _, _)
HeaderFields(t, p, n) ==
    IF n = 0 THEN [names |-> <<>>, next |-> PastLineEnd(t, p)]
    ELSE LET s == ScanField(t, p) rest == HeaderFields(t, s.next, n - 1) IN [rest EXCEPT !.names = <<s.fld>> \o @]
Header(t) == HeaderFields(t, 1, NCols(t))
(* A file that should have no header may have one, with the names given.    *)
SkipMatchingHeader(t, names) == LET h == Header(t) IN IF h.names = names THEN h.next ELSE 1
ReadFrom(t, p) == Materialize(t, RowOffsets(t, p), NCols(t))
ReadCsv(t, header) == ReadFrom(t, IF header THEN Header(t).next ELSE 1)
ReadNamed(t, names) == ReadFrom(t, SkipMatchingHeader(t, names))
RECURSIVE Batches(_, _, _, _)
Batches(t, p, max, quotes) ==
    LET b == RowOffsetsLimited(t, p, max, quotes)
    IN IF p > Len(t) THEN <<>> ELSE <<Materialize(t, b.offs, NCols(t))>> \o Batches(t, b.next, max, quotes)
SaveSplayed(t, header, max) ==
    LET p == IF header THEN Header(t).next ELSE 1 IN FlattenSeq(Batches(t, p, max, HasQuotes(t, p)))
SaveParted(t, header, max) ==
    LET p == IF header THEN Header(t).next ELSE 1 IN Batches(t, p, max, HasQuotes(t, p))

(* Writing: a field is quoted when a reader could mistake a character.      *)
WriteStr(s) ==
    IF ToSet(s) \cap {"c", "q", "n", "r"} = {} THEN s
    ELSE <<"q">> \o FlattenSeq(Listed([i \in Rows(s) |-> IF s[i] = "q" THEN <<"q", "q">> ELSE <<s[i]>>])) \o <<"q">>
WriteRow(cells) == FlattenSeq(Listed([c \in Rows(cells) |-> IF c = 1 THEN WriteStr(cells[c]) ELSE <<"c">> \o WriteStr(cells[c])])) \o <<"n">>
WriteCsv(names, rows) == WriteRow(names) \o FlattenSeq(Listed([i \in Rows(rows) |-> WriteRow(rows[i])]))

-----------------------------------------------------------------------------
(* Types.  A token names a class of texts: e1 is a text like e1, small,     *)
(* edge and large are integers (below).                                     *)
Number == [zero |-> 0, one |-> 1, small |-> -1, edge16 |-> -2, over16 |-> 2, edge32 |-> -4, over32 |-> 5, edge64 |-> -8]
IntTokens == DOMAIN Number
Tokens == IntTokens \cup {"", "NA", "true", "1.5", "nan", "e1", "date", "timestamp", "time", "word"}
DetectType(x) ==
    CASE x \in {"", "NA"} -> "unknown" [] x \in IntTokens -> "i64" [] x \in {"1.5", "nan", "e1"} -> "f64"
      [] x = "true" -> "bool" [] x \in {"date", "timestamp", "time"} -> x [] OTHER -> "str"
Numeric == [bool |-> 1, i64 |-> 2, f64 |-> 3]
PromoteCsvType(cur, obs) ==
    CASE cur = "unknown" -> obs
      [] obs = "unknown" \/ cur = obs -> cur
      [] "str" \in {cur, obs} -> "str"
      [] {cur, obs} = {"date", "timestamp"} -> "timestamp"
      [] {cur, obs} \subseteq DOMAIN Numeric -> IF Numeric[cur] > Numeric[obs] THEN cur ELSE obs
      [] OTHER -> "str"
(* Of many rows, as many as a sample holds, spread evenly, the last one     *)
(* among them.                                                              *)
Sample(n) ==
    LET k == Min({n, SampleRows})
    IN [i \in 1 .. k |-> IF k > 1 /\ k < n THEN 1 + ((i - 1) * (n - 1)) \div (k - 1) ELSE i]
InferType(cells) ==
    LET seen == Sample(Len(cells))
        type == FoldLeft(LAMBDA acc, r : PromoteCsvType(acc, DetectType(cells[r])), "unknown", seen)
    IN IF type = "unknown" THEN "sym" ELSE type
ParseCell(type, x) ==
    CASE type \in {"str", "sym"} -> x
      [] type = "bool" -> IF x \in {"true", "one", "zero"} THEN x ELSE "false"
      [] type = "i64" -> IF x \in IntTokens THEN x ELSE "null"
      [] type = "f64" -> IF x \in IntTokens \cup {"1.5"} THEN x ELSE "null"
      [] type = "date" -> IF x \in {"date", "timestamp"} THEN "date" ELSE "null"
      [] OTHER -> IF x = type THEN x ELSE "null"

(* The narrowest integers that hold a column: the widths here are 2, 3 and  *)
(* 4 bits.  The smallest number of a width is its null.                     *)
Lowest == [i16 |-> -2, i32 |-> -4, i64 |-> -8]
Highest == [i16 |-> 1, i32 |-> 3, i64 |-> 7]
AutoScan(cells) ==
    LET xs == {Number[cells[i]] : i \in {i \in Rows(cells) : cells[i] \in IntTokens}}
    IN [min |-> IF xs = {} THEN 7 ELSE Min(xs), max |-> IF xs = {} THEN -8 ELSE Max(xs), null |-> \E i \in Rows(cells) : cells[i] \notin IntTokens]
ResolveIntWidthLoose(min, max, null) ==
    LET Fits(w) == min >= Lowest[w] /\ max <= Highest[w] IN IF min > max THEN "i64" ELSE IF Fits("i16") THEN "i16" ELSE IF Fits("i32") THEN "i32" ELSE "i64"
ResolveIntWidth(min, max, null) ==
    LET Fits(w) == (IF null THEN min > Lowest[w] ELSE min >= Lowest[w]) /\ max <= Highest[w]
    IN IF min > max THEN "i64" ELSE IF Fits("i16") THEN "i16" ELSE IF Fits("i32") THEN "i32" ELSE "i64"
AutoStreamed(cells, max) ==
    LET k == Min({max, Len(cells)})
        a == AutoScan(SubSeq(cells, 1, k))
        b == AutoScan(SubSeq(cells, k + 1, Len(cells)))
    IN ResolveIntWidth(Min({a.min, b.min}), Max({a.max, b.max}), a.null \/ b.null)
AutoColumn(cells) ==
    LET s == AutoScan(cells)
        w == ResolveIntWidth(s.min, s.max, s.null)
    IN [cells |-> Listed([i \in Rows(cells) |-> IF cells[i] \in IntTokens THEN Number[cells[i]] ELSE Lowest[w]]), nulls |-> s.null, width |-> w]

-----------------------------------------------------------------------------
(* An import that is cut short: the files put in place so far.  The schema  *)
(* of an earlier table goes first and the new one comes last; a step that   *)
(* fails ends the import.                                                   *)
ImportSteps == <<"unschema", "symbols", "x", "y", "schema">>
Old == [schema |-> "old", symbols |-> "old", x |-> "old", y |-> "old"]
ImportStep(disk, step) == IF step = "unschema" THEN [disk EXCEPT !.schema = "none"] ELSE [disk EXCEPT ![step] = "new"]
Import(k) == FoldLeft(ImportStep, Old, SubSeq(ImportSteps, 1, k))

-----------------------------------------------------------------------------
(* What a CSV text means (RFC 4180), one character at a time; a text that   *)
(* has a quote or a return where none may be is not one.                    *)
Alphabet == {"a", "q", "c", "n", "r"}
NoRows == [rows |-> <<>>, row |-> <<>>, fld |-> <<>>, st |-> "start", ok |-> TRUE]
EndField(m) == [m EXCEPT !.row = Append(@, m.fld), !.fld = <<>>, !.st = "start"]
EndRow(m) == LET e == EndField(m) IN [e EXCEPT !.rows = Append(@, e.row), !.row = <<>>, !.st = "line"]
Meaning(m, ch) ==
    CASE m.st = "return" -> IF ch = "n" THEN EndRow(m) ELSE [m EXCEPT !.ok = FALSE]
      [] m.st = "quoted" -> IF ch = "q" THEN [m EXCEPT !.st = "closed"] ELSE [m EXCEPT !.fld = Append(@, ch)]
      [] ch = "n" -> EndRow(m)
      [] ch = "r" -> [m EXCEPT !.st = "return"]
      [] ch = "c" -> EndField(m)
      [] m.st = "closed" -> IF ch = "q" THEN [m EXCEPT !.fld = Append(@, ch), !.st = "quoted"] ELSE [m EXCEPT !.ok = FALSE]
      [] ch = "q" -> IF m.st \in {"start", "line"} THEN [m EXCEPT !.st = "quoted"] ELSE [m EXCEPT !.ok = FALSE]
      [] OTHER -> [m EXCEPT !.fld = Append(@, ch), !.st = "plain"]
Read(t) == LET m == FoldLeft(Meaning, NoRows, t) IN IF m.st = "line" \/ t = <<>> THEN m ELSE EndRow(m)
WellFormed(t) == LET m == FoldLeft(Meaning, NoRows, t) IN m.ok /\ m.st \notin {"quoted", "return"}
Fitted(row, n) == Listed([c \in 1 .. n |-> IF c \in Rows(row) THEN row[c] ELSE <<>>])
RowsMeant(t) == LET rows == Read(t).rows IN Listed([i \in Rows(rows) |-> Fitted(rows[i], Len(rows[1]))])
ReturnLast(t) == \E i \in Rows(RowsMeant(t)) : LET f == Last(RowsMeant(t)[i]) IN f # <<>> /\ Last(f) = "r"

Cells == {<<>>, <<"a">>, <<"q">>, <<"c">>, <<"n">>, <<"a", "q">>, <<"r", "a">>, <<"a", "c", "a">>}
CsvInit ==
    in \in {[kind |-> "text", t |-> <<>>], [kind |-> "tokens", col |-> <<>>], [kind |-> "import", k |-> 0],
            [kind |-> "cells", n |-> 1, rows |-> <<>>], [kind |-> "cells", n |-> 2, rows |-> <<>>]}
CsvNext ==
    \/ /\ in.kind = "text" /\ Len(in.t) < MaxText
       /\ \E ch \in Alphabet : in' = [in EXCEPT !.t = Append(@, ch)]
    \/ /\ in.kind = "tokens" /\ Len(in.col) < MaxTokens
       /\ \E x \in Tokens : in' = [in EXCEPT !.col = Append(@, x)]
    \/ /\ in.kind = "cells" /\ Len(in.rows) < MaxCells
       /\ \E row \in [1 .. in.n -> Cells] : in' = [in EXCEPT !.rows = Append(@, row)]
    \/ /\ in.kind = "import" /\ in.k < Len(ImportSteps)
       /\ in' = [in EXCEPT !.k = @ + 1]

(* Reading gives the rows that the text means, whichever way its rows are   *)
(* found; all at once or a batch at a time; with a header, without one and  *)
(* with the one that was expected (ray_read_csv_named_opts, the splayed and *)
(* parted imports).                                                         *)
TextsRead ==
    in.kind = "text" /\ in.t # <<>> /\ WellFormed(in.t) /\ ~ReturnLast(in.t) =>
        LET rows == RowsMeant(in.t)
        IN /\ ReadCsv(in.t, FALSE) = rows
           /\ ReadCsv(in.t, TRUE) = Tail(rows)
           /\ ReadNamed(in.t, rows[1]) = Tail(rows)
           /\ \A max \in 1 .. 2 : SaveSplayed(in.t, FALSE, max) = rows /\ FlattenSeq(SaveParted(in.t, TRUE, max)) = Tail(rows)
           /\ LET offs == RowOffsets(in.t, 1) n == NCols(in.t) IN Parse(in.t, offs, n).nulls = Nulls(ParseSerial(in.t, offs, n), n)
(* A table that is written reads back as it was (ray_write_csv).            *)
WrittenReadsBack ==
    in.kind = "cells" =>
        LET names == SubSeq(<< <<"a">>, <<"q", "c">> >>, 1, in.n)
            t == WriteCsv(names, in.rows)
        IN Header(t).names = names /\ ReadCsv(t, TRUE) = in.rows
(* The type inferred for a column keeps every cell it was inferred from,    *)
(* but for the ways to write a missing value; and the narrowest integers    *)
(* that hold a column keep apart its nulls and its numbers.                 *)
Odd == {"e1", "true", "date", "timestamp", "time", "nan"}
TypesKeep ==
    in.kind = "tokens" /\ in.col # <<>> =>
        /\ ToSet(in.col) \cap Odd = {} =>
               \A s \in Rows(Sample(Len(in.col))) :
                   LET x == in.col[Sample(Len(in.col))[s]] IN x \in {"", "NA"} \/ ParseCell(InferType(in.col), x) = x
        /\ LET c == AutoColumn(in.col)
           IN /\ \A i \in Rows(in.col) : (c.nulls /\ c.cells[i] = Lowest[c.width]) = (in.col[i] \notin IntTokens) \/ in.col[i] = "edge64"
              /\ \A i \in Rows(in.col) : in.col[i] \in IntTokens => c.cells[i] = Number[in.col[i]] /\ c.cells[i] \in Lowest[c.width] .. Highest[c.width]
              /\ AutoStreamed(in.col, 1) = c.width
(* However far an import got, a directory with a schema is wholly the old   *)
(* table or wholly the new one (ray_csv_save_splayed_named_opts).           *)
ImportWhole == in.kind = "import" => LET d == Import(in.k) IN d.schema # "none" => {d[f] : f \in DOMAIN d} = {d.schema}
(* CSV files are read and written as they should be.                        *)
CsvKept == TextsRead /\ WrittenReadsBack /\ TypesKeep /\ ImportWhole

(* Not what the code does: a return at the end of the last column belongs   *)
(* to a quoted field.                                                       *)
ReturnKept == in.kind = "text" /\ in.t # <<>> /\ WellFormed(in.t) => ReadCsv(in.t, FALSE) = RowsMeant(in.t)
(* Not what the code does: a cell that decided the type of its column keeps *)
(* its value.                                                               *)
SampledKept == in.kind = "tokens" /\ in.col # <<>> /\ Len(in.col) <= SampleRows =>
    \A i \in Rows(in.col) : in.col[i] \in {"", "NA", "nan"} \/ ParseCell(InferType(in.col), in.col[i]) \in {in.col[i]} \cup (IF InferType(in.col) = "bool" THEN {"false"} ELSE {})
=============================================================================
