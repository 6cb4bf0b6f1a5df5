------------------------------ MODULE MCParsing ------------------------------
(* Lines of one to three sentences; rows as they are found in inventories. *)
EXTENDS Parsing

MCLine == {<<1>>, <<2, 1>>, <<1, 1, 1>>, <<4>>}

Plain(v) == [v |-> v, fmt |-> "plain"]
Bold(v)  == [v |-> v, fmt |-> "bold"]
Tint(v)  == [v |-> v, fmt |-> "tint"]
MCNone   == Plain("")
Row(is, cells, bands, up) == [is |-> is, cells |-> cells, bands |-> bands, up |-> up]

MCRowKind == {
    Row("blank",  <<MCNone, MCNone, MCNone, MCNone>>, {}, {}),
    Row("header", <<Bold("text"), Bold("host"), Bold("text"), Bold("text")>>, {}, {}),
    Row("header", <<Bold("host"), Bold("text"), Bold("text"), Bold("")>>, {}, {}),
    Row("data",   <<Plain("text"), Plain("ip"), Plain("num"), Plain("text")>>, {}, {}),
    Row("data",   <<Tint("text"), Plain("ip"), MCNone, Plain("num")>>, {}, {}),
    Row("data",   <<Tint("text"), Plain("text"), Plain("text"), Plain("text")>>, {}, {}),
    Row("data",   <<MCNone, Plain("ip"), Plain("text"), Plain("num")>>, {}, {}),
    Row("data",   <<MCNone, Plain("ip"), Plain("num"), MCNone>>, {}, {1}),
    Row("note",   <<Plain("note"), MCNone, Plain("num"), MCNone>>, {}, {}),
    Row("title",  <<Bold("text"), Bold(""), Bold(""), Bold("")>>, {<<1, 4>>}, {}),
    Row("band",   <<MCNone, Tint("text"), MCNone, MCNone>>, {<<2, 3>>}, {}) }

MCLayout == {
    <<"title", "header", "data", "title", "data", "data">>,
    <<"title", "band", "header", "data", "title", "data">>,
    <<"header", "data", "blank", "band", "header", "data">>,
    <<"header", "data", "note", "blank", "header", "data", "data">>,
    <<"header", "data", "header", "data", "blank", "data">> }
=============================================================================
