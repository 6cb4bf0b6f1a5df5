------------------------------- MODULE Parsing -------------------------------
(***************************************************************************)
(* iter_file of services/ingester/ingester.py: a file goes to the parser   *)
(* of its suffix.  Text becomes chunks, sheets become records, a docx file *)
(* gives both, and a suffix nobody knows gives nothing.                    *)
(***************************************************************************)
EXTENDS Chunking, SheetTables

fileVars == <<proseVars, sheetVars>>

IsProse   == format \in {"md", "txt", "pdf", "docx"}
IsTabular == format \in {"xlsx", "csv", "docx"}

Init == ProseInit /\ SheetInit

-----------------------------------------------------------------------------
(***************************************************************************)
(* Plain tables: the header of a csv file is its first row that is not     *)
(* blank, that of a table in a docx file its first row.  Every row below   *)
(* is a record of its cells that have a label, if it has any.              *)
(***************************************************************************)
BugKeyedHeader == 1                     \* mutant: also when it is blank
KeyedHeader ==
    IF format = "csv" THEN Min({Rows + 1} \cup {r \in 1 .. Rows : Filled(r) # {}}) ELSE 1

ReadKeyedTable ==
    /\ format \in {"csv", "docx"}
    /\ complete /\ ri <= Rows
    /\ LET h    == KeyedHeader
           from(r) == [c \in Filled(h) |-> IF c \in Filled(r) THEN r ELSE 0] IN
       records' = FoldLeft(LAMBDA out, r : Emitted(out, r, from(r)), records,
                           [i \in 1 .. Rows - h |-> h + i])
    /\ ri' = Rows + 1 /\ tnum' = tnum + 1
    /\ UNCHANGED <<sheet, complete, prevMulti, prevSingle>>

(* MaxRows and Layout bound the sheets, MaxLines the texts; a docx file    *)
(* has either text or a table here.                                        *)
ReadSheet ==
    /\ IsTabular /\ ~ parsed /\ nr = 0
    /\ \/ \E k \in RowKind : AddRow(k)
       \/ OpenSheet
       \/ format = "xlsx" /\ (SkipBlank \/ EmitRegion)
       \/ ReadKeyedTable
    /\ UNCHANGED proseVars

ReadProse ==
    /\ IsProse /\ Rows = 0
    /\ ProseNext
    /\ UNCHANGED sheetVars

SkipFile ==
    /\ ~ IsProse /\ ~ IsTabular
    /\ ~ parsed /\ parsed' = TRUE
    /\ UNCHANGED <<format, nr, heading, open, sections, body, chunks, sheetVars>>

Next == ReadSheet \/ ReadProse \/ SkipFile

Spec == Init /\ [][Next]_fileVars

-----------------------------------------------------------------------------
SheetRead == format = "xlsx" /\ SheetDone /\ tnum < MaxTables
DataRows  == {r \in 1 .. Rows : Is(r) = "data"}
RowsTold  == {records[i].row : i \in DOMAIN records}

(* Of a sheet of tables as people write them (Stacked) every data row is a *)
(* record, and no header, note, total or blank row is.                     *)
DataRowsAndNothingElse == SheetRead /\ Stacked => RowsTold = DataRows

(* Sections that have only a title are read with the columns of the        *)
(* section before them (Sectioned), and lose no row.                       *)
SectionsShareAHeader ==
    SheetRead /\ Sectioned =>
      /\ RowsTold = DataRows
      /\ \A i \in DOMAIN records : Filled(2) \subseteq DOMAIN records[i].from

(* A row of a csv file with a labelled value is a record exactly when a    *)
(* row with labels is above it, however many blank rows come first.        *)
KeyedRowsComplete ==
    format = "csv" /\ complete /\ ri > Rows =>
      \A r \in 1 .. Rows :
        (\E i \in DOMAIN records : records[i].row = r) <=>
        (\E h \in 1 .. r - 1 : /\ Filled(h) \cap Filled(r) # {}
                               /\ \A q \in 1 .. h - 1 : Filled(q) = {})

-----------------------------------------------------------------------------
(* The type of every variable. *)
TypeOK == ProseTypeOK /\ SheetTypeOK

(* The chunks of a text are the text: nothing is lost or doubled, the      *)
(* cited lines are the right ones, sizes are kept, and what overlaps is    *)
(* the end of the chunk before and goes away when the two are joined.      *)
ChunksTellTheText ==
    /\ NothingLost /\ CitesItsLines /\ CarriesTheTail /\ WithinCeiling
    /\ RejoinsWithoutRepeating

(* The records of a sheet, however odd the sheet: no row twice, the rows   *)
(* and tables in the order of the sheet, and of plain tables every row.    *)
RowsTellTheSheet == EachRowOnce /\ KeyedRowsComplete

(* Tables as people write them: nothing is borrowed from another table,    *)
(* and of stacked tables and titled sections every data row is told.       *)
TablesReadAsWritten == BorrowsInItsTable /\ DataRowsAndNothingElse /\ SectionsShareAHeader
=============================================================================
