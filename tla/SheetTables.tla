----------------------------- MODULE SheetTables -----------------------------
(***************************************************************************)
(* How services/ingester/xlsx_tables.py finds the tables of a worksheet    *)
(* and turns their rows into records: regions one after another, each with *)
(* a header of one row, a stack of header rows, the header of an earlier   *)
(* region, or none.                                                        *)
(*                                                                         *)
(* A cell has a kind of value and a style.  What labels say is left out,  *)
(* but for whether one names an identity column ("host"): so duplicate     *)
(* labels and the band names that disambiguate them are too.  A record     *)
(* says which row each of its values comes from.                           *)
(***************************************************************************)
EXTENDS Integers, SequencesExt

CONSTANTS
    NumCols,        \* max_column
    Parts,          \* shares of a row are counted in parts: one divisible by every number of cells
    RowKind,        \* the rows a sheet may have: cells, bands, up, is
    MaxRows,        \* bound: rows of a sheet that may be anything
    Layout,         \* longer sheets: sequences of what their rows are
    ScanRows,       \* HEADER_SCAN_ROWS
    ProbeRows,      \* DATA_PROBE_ROWS
    MaxTables       \* MAX_TABLES_PER_SHEET

ASSUME SheetAssumption ==
    /\ NumCols \in Nat \ {0} /\ MaxRows \in Nat
    /\ Parts \in Nat \ {0} /\ \A n \in 1 .. NumCols : Parts % n = 0
    /\ ScanRows \in Nat /\ ProbeRows \in Nat /\ MaxTables \in Nat \ {0}
    /\ \A k \in RowKind : Len(k.cells) = NumCols

VARIABLES
    sheet,          \* the rows; `up` are the columns merged with the cell above
    complete,       \* the sheet has all its rows
    ri,             \* the row the driver is at
    tnum,           \* tables so far, also those that yielded nothing
    prevMulti,      \* keys, c1, c2 of the last multi-row header
    prevSingle,     \* keys of the last single-row header
    records         \* table, row, from: column -> row its value comes from

sheetVars == <<sheet, complete, ri, tnum, prevMulti, prevSingle, records>>

NoKeys   == <<>>
NoHeader == [keys |-> NoKeys, c1 |-> 0, c2 |-> 0]

SheetInit ==
    /\ sheet = <<>> /\ complete = FALSE
    /\ ri = 1 /\ tnum = 0
    /\ prevMulti = NoHeader /\ prevSingle = NoKeys
    /\ records = <<>>

-----------------------------------------------------------------------------
(* Styles: "plain", "bold" (or filled), "tint" (coloured or italic).       *)
(* Values: "" none, "num", "ip" (an address or a full host name),  *)
(* "host" (the label of an identity column), "text", "note" (long text).   *)
Rows       == Len(sheet)
Is(r)        == sheet[r].is
Col        == 1 .. NumCols
Value(r, c)  == sheet[r].cells[c].v
Style(r, c) == sheet[r].cells[c].fmt
Filled(r)  == {c \in Col : Value(r, c) # ""}
Count(S)   == Cardinality(S)

BlankIn(r, c1, c2) == Filled(r) \cap (c1 .. c2) = {}
HasToken(r) == \E c \in Col : Value(r, c) = "ip"

(* Horizontal merges with a label; one that is wide enough is a title.     *)
Bands(r) == IF r \in 1 .. Rows THEN {b \in sheet[r].bands : Value(r, b[1]) # ""} ELSE {}
Banded(r)    == UNION {b[1] .. b[2] : b \in Bands(r)}
IsTitle(r)   == \E b \in Bands(r) : 10 * (b[2] - b[1] + 1) >= 6 * NumCols

(* A vertical merge gives the value of its top cell to all its rows.       *)
MergeTop(r, c) == CHOOSE t \in 1 .. r : /\ c \notin sheet[t].up
                                        /\ \A q \in t + 1 .. r : c \in sheet[q].up
Merged(r, c)   == c \in sheet[r].up /\ Value(MergeTop(r, c), c) # ""

-----------------------------------------------------------------------------
(***************************************************************************)
(* The header row: the one that differs most from its neighbours, is       *)
(* textual, short and as wide as the data.  Shares are whole Parts, and    *)
(* the score is in tenths of those.                                        *)
(***************************************************************************)
Share(S, r) == (Parts * Count(S)) \div Count(Filled(r))

IsBold(r, c) == Style(r, c) = "bold"
Distinct(r, other) ==
    IF other \in 1 .. Rows
    THEN Share({c \in Filled(r) : IsBold(r, c) # IsBold(other, c)}, r) ELSE Parts

Density(start) == Max({Count(Filled(r)) : r \in start .. Min({start + ScanRows + 5, Rows})})

HeaderScore(r, density) ==
      20 * Share({c \in Filled(r) : Value(r, c) # "num"}, r)
    + 10 * Share({c \in Filled(r) : Value(r, c) # "note"}, r)
    + 15 * Distinct(r, r + 1) + 8 * Distinct(r, r - 1)
    +  5 * Share({c \in Filled(r) : IsBold(r, c)}, r)
    + (IF 10 * Count(Filled(r)) >= 6 * density THEN 20 * Parts ELSE 0)

Scores(start) ==
    LET density == Density(start) IN
    [r \in {q \in start .. Min({start + ScanRows, Rows}) : Filled(q) # {}} |-> HeaderScore(r, density)]

(* The first of the best.  The driver skips blank rows: `start` is filled. *)
DetectHeader(start) ==
    LET score == Scores(start) IN
    Min({r \in DOMAIN score : \A q \in DOMAIN score : score[q] <= score[r]})

(* Where the next table begins. *)
NewHeader(r, c1, c2) ==
    LET text == {c \in c1 .. c2 : Value(r, c) \notin {"", "num"}}
        bold == {c \in c1 .. c2 : IsBold(r, c)} IN
    /\ \A c \in c1 .. c2 : Value(r, c) # "num"
    /\ 2 * Count(text) > c2 - c1 + 1
    /\ 2 * Count(bold) >= Count(text)

NewBand(r, c1, c2) == r > 1 /\ BlankIn(r - 1, c1, c2) /\ Banded(r) \cap (c1 .. c2) # {}

BugBoundary(r, c1, c2) == NewBand(r, c1, c2)    \* mutant: stacked headers are data
Boundary(r, c1, c2)    == NewHeader(r, c1, c2) \/ NewBand(r, c1, c2)

RegionEnd(h, c1, c2) ==
    Min({Rows} \cup {r - 1 : r \in {q \in h + 1 .. Rows : Boundary(q, c1, c2)}})

Shape(r, c) == IF Value(r, c) \in {"", "num"} THEN Value(r, c) ELSE "text"

Headerless(h, c1, c2, end) ==
    \/ h + 1 > end
    \/ /\ \A c \in c1 .. c2 : Shape(h, c) = Shape(h + 1, c)
       /\ 10 * Count({c \in c1 .. c2 : IsBold(h, c) # IsBold(h + 1, c)}) < 3 * (c2 - c1 + 1)

-----------------------------------------------------------------------------
(* Identity columns, by their label; otherwise the leftmost. *)
Anchors(keys) ==
    LET named == {c \in DOMAIN keys : keys[c] = "host"} IN
    IF named = {} THEN {Min(DOMAIN keys)} ELSE named

RowIsData(r, anchors) == anchors \cap Filled(r) # {}

LastDataRow(anchors, h, end) ==
    LET data  == {r \in h + 1 .. end : RowIsData(r, anchors)}
        token == {r \in h + 1 .. end : HasToken(r)} IN
    Max({h} \cup IF data # {} THEN data ELSE token)

Labels(r, cols) == [c \in cols |-> IF Value(r, c) = "host" THEN "host" ELSE "text"]

(* Columns right of the header that an earlier table of the sheet labelled *)
(* and that have data here, if a band is above this header.                *)
Reused(keys, c2, h, end) ==
    IF Bands(h - 1) = {} THEN {}
    ELSE {c \in DOMAIN prevSingle \ DOMAIN keys :
            c > c2 /\ \E r \in h + 1 .. end : c \in Filled(r)}

(* Group labels in a first column that looks different are carried down.   *)
CarryCols(keys, h, end) ==
    LET first  == Min(DOMAIN keys)
        second == Min(DOMAIN keys \ {first})
        probes == {r \in h + 1 .. end : first \in Filled(r)} IN
    IF Count(DOMAIN keys) >= 2 /\ probes # {} /\ Style(Min(probes), first) # Style(Min(probes), second)
    THEN {first} ELSE {}

(* The row a value is taken from, 0 for none: its own, or a merge's top.   *)
Source(r, c, c1, c2) ==
    IF c \in Filled(r) THEN r
    ELSE IF c \in c1 .. c2 /\ Merged(r, c) THEN MergeTop(r, c) ELSE 0

Record(r, from) == [table |-> tnum, row |-> r, from |-> from]
Emitted(out, r, from) ==
    IF \E c \in DOMAIN from : from[c] # 0 THEN Append(out, Record(r, from)) ELSE out

(* One row below a header; `carry` is the row of the group label, or 0.    *)
AfterBlank(s) == [s EXCEPT !.carry = 0]

EmitRow(s, r, t) ==
    LET own  == [c \in DOMAIN t.keys |-> Source(r, c, t.c1, t.c2)]
        held == \E c \in t.carries : own[c] # 0
        from == [c \in DOMAIN own |->
                   IF c \in t.carries /\ own[c] = 0 THEN s.carry ELSE own[c]]
        keep == \/ IF t.anchored THEN RowIsData(r, t.anchors) ELSE HasToken(r)
                \/ t.carries \cap Filled(r) # {} IN
    IF BlankIn(r, t.c1, t.c2) THEN AfterBlank(s)
    ELSE [carry |-> IF held THEN own[Min(t.carries)] ELSE s.carry,
          out   |-> IF keep THEN Emitted(s.out, r, from) ELSE s.out]

(* Only tables of one header carry labels down. *)
EmitRows(keys, c1, c2, h, end, single) ==
    LET anchors == Anchors(keys)
        last    == LastDataRow(anchors, h, end)
        t == [keys |-> keys, c1 |-> c1, c2 |-> c2, anchors |-> anchors,
              carries  |-> IF single THEN CarryCols(keys, h, last) ELSE {},
              anchored |-> \E r \in h + 1 .. last : RowIsData(r, anchors)] IN
    FoldLeft(LAMBDA s, r : EmitRow(s, r, t), [carry |-> 0, out |-> records],
             [i \in 1 .. last - h |-> h + i]).out

-----------------------------------------------------------------------------
After(end) == Max({end + 1, ri + 1})

(* The labels of f, and of g where f has none. *)
Over(f, g) == [c \in DOMAIN f \cup DOMAIN g |-> IF c \in DOMAIN f THEN f[c] ELSE g[c]]

(* A region without a header: every filled row is a record as it stands. *)
EmitHeaderless(top, end) ==
    /\ records' = FoldLeft(LAMBDA out, r : Emitted(out, r, [c \in Filled(r) |-> r]),
                           records, [i \in 1 .. end - top + 1 |-> top + i - 1])
    /\ ri' = After(end)
    /\ UNCHANGED <<prevSingle, prevMulti>>

EmitSingle(top) ==
    LET h   == DetectHeader(top)
        c1  == Min(Filled(h))
        c2  == Max(Filled(h))
        end == RegionEnd(h, c1, c2)
        own   == Labels(h, Filled(h))
        extra == Reused(own, c2, h, end)
        keys  == Over(own, [c \in extra |-> prevSingle[c]]) IN
    IF Headerless(h, c1, c2, end) THEN EmitHeaderless(top, end)
    ELSE /\ records' = EmitRows(keys, c1, Max({c2} \cup extra), h, end, TRUE)
         /\ prevSingle' = keys
         /\ ri' = After(end)
         /\ UNCHANGED prevMulti

(* Below the title bands: the first row with a token is data, what is      *)
(* above it the header; data right under the title reuses the last header. *)
Below(top)   == Min({Rows + 1} \cup {r \in top .. Rows : ~ IsTitle(r)})
FirstData(r) == LET tokens == {q \in r .. Min({r + ProbeRows, Rows}) : HasToken(q)} IN
                IF tokens = {} THEN 0 ELSE Min(tokens)

Composed(top, bottom) ==
    LET filled(c) == {r \in top .. bottom : c \in Filled(r)}
        cols == {c \in Col : filled(c) # {}} IN
    [c \in cols |-> Labels(Max(filled(c)), {c})[c]]

(* Unlabelled columns left of the header are absorbed if they look like    *)
(* group labels; the leftmost of them becomes a column of its own.         *)
Absorbed(c, bottom, end) ==
    LET filled == Count({r \in bottom + 1 .. end : c \in Filled(r)}) IN
    /\ bottom >= 1 => c \notin Filled(bottom)
    /\ \/ \E r \in bottom + 1 .. Rows : c \in sheet[r].up /\ MergeTop(r, c) <= end
       \/ filled > 0 /\ (filled < 2 \/ 10 * filled < 6 * (end - bottom))

WithGroup(header, bottom, end) ==
    LET left == Min({header.c1} \cup {c \in 1 .. header.c1 - 1 :
                       \A d \in c .. header.c1 - 1 : Absorbed(d, bottom, end)}) IN
    IF left = header.c1 \/ left \in DOMAIN header.keys THEN header
    ELSE [header EXCEPT !.keys = Over([c \in {left} |-> "group"], @), !.c1 = left]

EmitTable(header, bottom, data, reused) ==
    LET end  == Min({Rows} \cup {r - 1 : r \in {q \in data .. Rows : IsTitle(q)}})
        full == WithGroup(header, bottom, end) IN
    /\ records' = EmitRows(full.keys, full.c1, full.c2, bottom, end, FALSE)
    /\ prevMulti' = IF reused THEN prevMulti
                    ELSE [full EXCEPT !.keys = [c \in {d \in DOMAIN @ : @[d] # "group"} |-> @[c]]]
    /\ ri' = After(end)

Reuse(r, data)    == data = r /\ prevMulti # NoHeader

EmitMulti(top) ==
    LET r      == Below(top)
        data   == FirstData(r)
        keys   == Composed(r, data - 1)
        nothing(end) == ri' = After(end) /\ UNCHANGED <<prevMulti, records>> IN
    /\ IF r > Rows THEN nothing(Rows)
       ELSE IF data = 0 THEN nothing(r)
       ELSE IF Reuse(r, data) THEN EmitTable(prevMulti, r - 1, data, TRUE)
       ELSE IF DOMAIN keys = {} THEN nothing(data)
       ELSE EmitTable([keys |-> keys, c1 |-> Min(DOMAIN keys), c2 |-> Max(DOMAIN keys)],
                      data - 1, data, FALSE)
    /\ UNCHANGED prevSingle

-----------------------------------------------------------------------------
(* The driver.  The sheet is what somebody typed. *)
AddRow(k) ==
    /\ ~ complete
    /\ LET is == Append([r \in 1 .. Rows |-> Is(r)], k.is) IN
       Len(is) <= MaxRows \/ \E l \in Layout : IsPrefix(is, l)
    /\ k.up # {} => sheet # <<>> /\ Is(Rows) = "data"
    /\ sheet' = Append(sheet, k)
    /\ UNCHANGED <<complete, ri, tnum, prevMulti, prevSingle, records>>

OpenSheet == /\ ~ complete /\ complete' = TRUE
             /\ UNCHANGED <<sheet, ri, tnum, prevMulti, prevSingle, records>>

SkipBlank == /\ complete /\ ri <= Rows /\ tnum < MaxTables
             /\ Filled(ri) = {}
             /\ ri' = ri + 1
             /\ UNCHANGED <<sheet, complete, tnum, prevMulti, prevSingle, records>>

IsMulti(top) == IsTitle(top) \/ Bands(top) # {} \/ Bands(top + 1) # {}

EmitRegion == /\ complete /\ ri <= Rows /\ tnum < MaxTables
              /\ Filled(ri) # {}
              /\ IF IsMulti(ri) THEN EmitMulti(ri) ELSE EmitSingle(ri)
              /\ tnum' = tnum + 1
              /\ UNCHANGED <<sheet, complete>>

SheetNext == \/ \E k \in RowKind : AddRow(k)
             \/ OpenSheet \/ SkipBlank \/ EmitRegion

SheetDone == complete /\ (ri > Rows \/ tnum = MaxTables)

-----------------------------------------------------------------------------
(* The type of every variable. *)
SheetTypeOK ==
    /\ sheet \in Seq(RowKind) /\ complete \in BOOLEAN
    /\ ri \in 1 .. Rows + 1 /\ tnum \in 0 .. MaxTables
    /\ \A i \in DOMAIN records :
         /\ records[i].row \in 1 .. ri - 1 /\ records[i].table \in 0 .. tnum - 1
         /\ \A c \in DOMAIN records[i].from : records[i].from[c] \in 0 .. records[i].row

(* No row is told twice, and the order of the sheet is kept, however its   *)
(* regions are bounded, headers reused and groups absorbed.                *)
EachRowOnce ==
    \A i, j \in DOMAIN records : i < j => /\ records[i].row < records[j].row
                                          /\ records[i].table <= records[j].table

(* A value that a record has from another row, by a merge or a carried     *)
(* label, is from its own table, and no blank row is in between.           *)
BorrowsInItsTable ==
    \A i \in DOMAIN records : \A c \in DOMAIN records[i].from :
      LET from == records[i].from[c] IN
      from \notin {0, records[i].row} =>
        /\ \A r \in from .. records[i].row : Filled(r) # {}
        /\ \A r \in from + 1 .. records[i].row : Is(r) # "header"

(***************************************************************************)
(* Tables as people write them: a header of comparable width, at least one *)
(* data row, then totals or notes; blank rows between tables or rows.      *)
(***************************************************************************)
Headers  == {r \in 1 .. Rows : Is(r) = "header"}
HeaderOf(r) == Max({h \in Headers : h < r})
HasIdentity(r, h) == RowIsData(r, Anchors(Labels(h, Filled(h))))

Stacked ==
    /\ Rows > 0 /\ 1 \in Headers
    /\ \A r \in 1 .. Rows : Is(r) \in {"header", "data", "note", "blank"}
    /\ \A h \in Headers : h < Rows /\ Is(h + 1) = "data"
                          /\ 10 * Count(Filled(h)) >= 6 * Density(1)
    /\ \A r \in 2 .. Rows : Is(r) = "note" => Is(r - 1) # "header"
    /\ \A r \in 3 .. Rows : Is(r) = "data" => \A q \in HeaderOf(r) .. r : Is(q) # "note"
    /\ \A r \in 2 .. Rows : Is(r) \in {"data", "note"} => (Is(r) = "data" <=> HasIdentity(r, HeaderOf(r)))

(* Sections under title bands: the first has its header, a later one may   *)
(* do without and is read with the columns of the first.                   *)
Sectioned ==
    /\ Rows > 3 /\ Is(1) = "title" /\ Is(2) = "header"
    /\ \A r \in 3 .. Rows : Is(r) \in {"title", "data"}
    /\ \A r \in 2 .. Rows : Is(r) = "title" => r < Rows /\ Is(r - 1) = "data" /\ Is(r + 1) = "data"
    /\ \A r \in 3 .. Rows : Is(r) = "data" => HasToken(r) /\ HasIdentity(r, 2)
=============================================================================
