----------------------------- MODULE MCServiceTools -----------------------------
(***************************************************************************)
(* The instance of ServiceTools for TLC.                                   *)
(***************************************************************************)
EXTENDS ServiceTools, TLC

(***************************************************************************)
(* A job with every documented value, and one that is not registered.      *)
(***************************************************************************)
MCExpected == [j \in {"coin"} |-> Parts]

MCConfigs == {[off |-> {}, ours |-> TRUE], [off |-> {"cron"}, ours |-> TRUE]}

(***************************************************************************)
(* A log whose first date field is missing.                                *)
(***************************************************************************)
MCDates == [r \in Records |-> <<0, 1>>]
MCRecordDays == [r \in Records |-> 1]

Symmetry == Permutations(Viewer) \cup Permutations(Ids)

-----------------------------------------------------------------------------
(* The templates *)

PartOf(kind, i) == [kind |-> kind, n |-> i]

MCItems == {PartOf("item", 1)}
MCBlocks == <<{2, 3}, {6}>>
MCConnectionOf == [q \in {PartOf("queryTable", 1), PartOf("queryTable", 2)} |-> IF q.n = 1 THEN "loaded" ELSE "manual"]

SheetOf(nums, tables, data, totals, filter) ==
    LET sorted == SetToSortSeq(nums, LAMBDA a, b : a < b)
        reach == IF filter THEN 2 + data ELSE 0
    IN [rows |-> [i \in DOMAIN sorted |-> [num |-> sorted[i], new |-> FALSE, id |-> sorted[i],
                                    beside |-> FALSE]],
        tables |-> tables, header |-> 2, last |-> 2 + data + totals, totals |-> totals,
        filter |-> reach, name |-> reach]

TableSheet(data, totals, filter, blank, after) ==
    SheetOf(((1..2 + data + totals) \ blank) \cup {2 + data + totals + k : k \in after},
            1, data, totals, filter)

LedgerSheet(nums) == SheetOf(nums, 0, 0, 0, FALSE)

WithBeside(s, nums) ==
    [s EXCEPT !.rows = [i \in DOMAIN s.rows |->
                            [s.rows[i] EXCEPT !.beside = s.rows[i].num \in nums]]]

PlainTable == TableSheet(1, 1, TRUE, {}, {1})

PackageOf(queries, others, items, chain, sheets, labelled, formulas) ==
    LET queryParts == {PartOf("queryTable", i) : i \in queries}
        connections == others \cup {MCConnectionOf[q] : q \in queryParts}
        parts == {Workbook} \cup {PartOf("table", i) : i \in 1..2} \cup queryParts
                 \cup {PartOf(k, i) : k \in {"item", "itemProps"}, i \in items}
                 \cup (IF connections # {} THEN {Connections} ELSE {})
                 \cup (IF chain THEN {CalcChain} ELSE {})
    IN [parts |-> parts, types |-> parts \ {Workbook},
        rels |-> {<<PartOf("table", i), PartOf("queryTable", i)>> : i \in queries}
                 \cup {<<PartOf("item", i), PartOf("itemProps", i)>> : i \in items}
                 \cup {<<Workbook, p>> : p \in {q \in parts : q.kind \in {"item", "connections", "calcChain"}}},
        bound |-> {PartOf("table", i) : i \in queries}, connections |-> connections,
        sheets |-> sheets, labelled |-> labelled,
        headed |-> {name \in DOMAIN sheets : name # "ledger"},
        formulas |-> formulas, recalculates |-> FALSE]

Sheets(table) == [name \in {"ledger", "detail"} |->
                    IF name = "ledger" THEN LedgerSheet({1, 2, 5}) ELSE table]

(***************************************************************************)
(* The first family varies what Power Query left in the package, the second*)
(* the table and the rows around it, the third the rows that have cells    *)
(* beside the table (header, data, totals and after it), the fourth the    *)
(* rows of the fixed cells and what a builder may miss.                    *)
(***************************************************************************)
MCTemplates ==
    {PackageOf(queries, others, items, chain, Sheets(PlainTable), TRUE, {}) :
        queries \in SUBSET (1..2), others \in SUBSET {"staging", "other"},
        items \in SUBSET (1..2), chain \in BOOLEAN}
    \cup
    {PackageOf({1}, {}, {1}, TRUE, Sheets(TableSheet(data, totals, filter, blank, after)), TRUE, {}) :
        data \in 1..2, totals \in 0..1, filter \in BOOLEAN,
        blank \in {{}, {1}, {3}, {4}, {2}}, after \in SUBSET {1, 3}}
    \cup
    {PackageOf({1}, {}, {1}, TRUE, Sheets(WithBeside(TableSheet(2, 1, TRUE, {}, {1}), nums)), TRUE, {}) :
        nums \in SUBSET {2, 3, 4, 5, 6} \ {{}}}
    \cup
    {PackageOf({1}, {}, {1}, TRUE,
               [name \in {"ledger", "detail", "works"} |->
                    CASE name = "ledger" -> LedgerSheet(nums)
                      [] name = "detail" -> PlainTable
                      [] name = "works" -> TableSheet(2, 0, FALSE, {}, {})], labelled, formulas) :
        nums \in SUBSET {1, 2, 3, 6, 7}, labelled \in BOOLEAN, formulas \in {{}, {6}, {4}}}
=============================================================================
