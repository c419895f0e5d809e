---------------------------- MODULE ReportWorkbook ----------------------------
(***************************************************************************)
(* A report's workbook (xlsx_package_writer.py): the parts of a template's *)
(* package are edited in memory in the order of the report's builder       *)
(* (create_ad_revenue_workbook, build_app_workbook and the others of       *)
(* jumpplus_coin_ledger_workbooks.py) and saved at the end.  A template    *)
(* may have its Power Query removed before.                                *)
(*                                                                         *)
(* A definition named D_X is a faulty variant of D, a change that a        *)
(* property must notice; nothing uses it.                                  *)
(***************************************************************************)
EXTENDS Integers, Sequences, SequencesExt, FiniteSetsExt

CONSTANTS
    Templates,      \* the templates, each a Package
    ConnectionOf,   \* per query table part, the connection it uses
    MashupConnections,  \* the connections that carry Power Query's signature
    MashupItems,    \* the customXml items that are a DataMashup
    Ledger,         \* the sheet of fixed cells
    Blocks,         \* the rows of each of its blocks, in order
    MaxRows         \* bound of the check: data rows written to a table

VARIABLES
    template,   \* the template read, the state of the package before it is edited
    package,    \* the XlsxPackage
    report,     \* the kind of report
    plan,       \* the builder's calls still to come
    todo,       \* the table sheets still to be written
    written,    \* per sheet, the data rows written to its table
    saved       \* whether the output file exists

wvars == <<template, package, report, plan, todo, written, saved>>

(***************************************************************************)
(* A part is told by its kind and a number.                                *)
(***************************************************************************)
Kinds == {"workbook", "table", "queryTable", "connections", "item", "itemProps", "calcChain"}
Part == [kind : Kinds, n : Nat]

Workbook == [kind |-> "workbook", n |-> 0]
Connections == [kind |-> "connections", n |-> 0]
CalcChain == [kind |-> "calcChain", n |-> 0]

(***************************************************************************)
(* A row element: its number, the row of the template or the new data row  *)
(* that it is, and whether it has cells beside the table's columns.        *)
(* A table takes up the rows from header to last, the totals row included; *)
(* filter is the last row of its autoFilter, and name the last row that    *)
(* the sheet's _FilterDatabase name speaks of.                             *)
(***************************************************************************)
RowElement == [num : Nat, new : BOOLEAN, id : Nat, beside : BOOLEAN]
Sheet == [rows : Seq(RowElement), tables : Nat, header : Nat, last : Nat, totals : {0, 1},
          filter : Nat, name : Nat]

OfKind(parts, kind) == {p \in parts : p.kind = kind}

(***************************************************************************)
(* rels: which part's relationships name which; types: the parts with an   *)
(* Override; bound: the tables of tableType queryTable; labelled: whether  *)
(* the summary label is found; headed: the sheets whose table has every    *)
(* required header; formulas: the fixed rows that hold a formula.          *)
(***************************************************************************)
IsPackage(p) ==
    /\ DOMAIN p = {"parts", "types", "rels", "bound", "connections", "sheets", "labelled",
                   "headed", "formulas", "recalculates"}
    /\ p.parts \subseteq Part /\ p.types \subseteq p.parts
    /\ p.rels \subseteq p.parts \X p.parts
    /\ p.bound \subseteq OfKind(p.parts, "table")
    /\ p.connections \subseteq STRING
    /\ \A name \in DOMAIN p.sheets : p.sheets[name] \in Sheet
    /\ p.headed \subseteq DOMAIN p.sheets
    /\ p.formulas \subseteq Nat
    /\ {p.labelled, p.recalculates} \subseteq BOOLEAN

Ascending(rows) == \A i, j \in DOMAIN rows : i < j => rows[i].num < rows[j].num

(***************************************************************************)
(* Parts go, with their Overrides and relationships of their own, and from *)
(* the workbook's relationships; those of other parts are not looked at.   *)
(***************************************************************************)
Without(p, removed) ==
    [p EXCEPT !.parts = @ \ removed, !.types = @ \ removed,
              !.rels = {r \in @ : /\ r[1] \notin removed
                                  /\ r[1] = Workbook => r[2] \notin removed}]

(***************************************************************************)
(* A template as Excel saved it: a query table belongs to a bound table,   *)
(* and to no other part, it has no relationships, and its connection is    *)
(* there; a customXml item's relationships name its properties, which are  *)
(* of no other item; an item, the connections and the calculation chain    *)
(* are named by the workbook alone.  A sheet's rows are in order, and a    *)
(* table has its header row and its totals row within its range.           *)
(***************************************************************************)
ASSUME TemplatesAreExcels ==
    \A t \in Templates :
        /\ IsPackage(t)
        /\ \A q \in OfKind(t.parts, "queryTable") :
              ConnectionOf[q] \in t.connections /\ \E b \in t.bound : <<b, q>> \in t.rels
        /\ \A r \in t.rels :
              /\ r[2].kind = "queryTable" => r[1] \in t.bound
              /\ r[1].kind # "queryTable"
              /\ r[1].kind = "item" <=> r[2].kind = "itemProps"
              /\ r[2].kind \in {"item", "connections", "calcChain"} => r[1] = Workbook
              /\ \A s \in t.rels : r[2].kind = "itemProps" /\ r[2] = s[2] => r[1] = s[1]
        /\ t.connections # {} <=> Connections \in t.parts
        /\ \A name \in DOMAIN t.sheets :
              LET s == t.sheets[name]
              IN /\ Ascending(s.rows) /\ \A r \in Range(s.rows) : ~r.new
                 /\ s.header + s.totals <= s.last

ASSUME MashupsAreItems == \A i \in MashupItems : i.kind = "item"
ASSUME BlocksAreRows ==
    /\ Blocks \in Seq(SUBSET Nat) /\ Blocks # <<>>
    /\ \A b \in DOMAIN Blocks : \E m \in Blocks[b] : \A n \in Blocks[b] : 0 < n /\ n <= m
ASSUME MaxRowsIsNat == MaxRows \in Nat

-----------------------------------------------------------------------------
(* remove_power_query_dependency *)

(***************************************************************************)
(* The query tables that the bound tables' relationships name.             *)
(***************************************************************************)
QueryTargets(p) ==
    {q \in OfKind(p.parts, "queryTable") : \E t \in p.bound : <<t, q>> \in p.rels}

(***************************************************************************)
(* The tables become plain ones; the other relationships of a table stay.  *)
(***************************************************************************)
RemoveQueryTables(p) ==
    [p EXCEPT !.parts = @ \ QueryTargets(p), !.types = @ \ QueryTargets(p), !.bound = {},
              !.rels = {r \in @ : ~(r[1] \in p.bound /\ r[2].kind = "queryTable")}]

(***************************************************************************)
(* A connection goes with its query tables, or because it is Power Query's *)
(* though no table uses it; the part goes when no connection is left.      *)
(***************************************************************************)
RemoveConnections(p, queries) ==
    LET left == p.connections \ (MashupConnections \cup {ConnectionOf[q] : q \in queries})
        kept == [p EXCEPT !.connections = left]
    IN IF left = {} THEN Without(kept, {Connections}) ELSE kept

(***************************************************************************)
(* Only items whose content is a DataMashup, each with its properties.     *)
(***************************************************************************)
RemoveMashups(p) ==
    LET items == p.parts \cap MashupItems
    IN Without(p, items \cup {q \in p.parts : \E i \in items : <<i, q>> \in p.rels})

remove_power_query_dependency(p) ==
    RemoveMashups(RemoveConnections(RemoveQueryTables(p), QueryTargets(p)))

-----------------------------------------------------------------------------
(* The edits *)

(***************************************************************************)
(* force_recalculation_on_load                                             *)
(***************************************************************************)
Recalculated(p) == [Without(p, {CalcChain}) EXCEPT !.recalculates = TRUE]

(***************************************************************************)
(* The rows of a sequence that are in K, those up to and after a row, and  *)
(* that row.                                                               *)
(***************************************************************************)
Only(rows, K) ==
    LET kept[n \in 0..Len(rows)] ==
            IF n = 0 THEN <<>>
            ELSE IF rows[n] \in K THEN Append(kept[n - 1], rows[n]) ELSE kept[n - 1]
    IN kept[Len(rows)]

UpTo(rows, num) == Only(rows, {r \in Range(rows) : r.num <= num})
After(rows, num) == Only(rows, {r \in Range(rows) : r.num > num})
At(rows, num) == Only(rows, {r \in Range(rows) : r.num = num})

Moved(rows, delta) == [i \in DOMAIN rows |-> [rows[i] EXCEPT !.num = @ + delta]]

(***************************************************************************)
(* A new row is cloned from the last data row, the table's columns of it.  *)
(***************************************************************************)
NewRows(header, n) ==
    [i \in 1..n |-> [num |-> header + i, new |-> TRUE, id |-> i, beside |-> FALSE]]

(***************************************************************************)
(* The rows after the table, moved by as much as the table grew.           *)
(***************************************************************************)
TrailingRows_Stay(s, delta) == After(s.rows, s.last)

TrailingRows(s, delta) == Moved(After(s.rows, s.last), delta)

(***************************************************************************)
(* replace_detail_rows: the rows up to the header, the new data rows, the  *)
(* totals row, if the template's sheet has it, and the rows after the      *)
(* table; the table and its filter are resized.                            *)
(***************************************************************************)
replace_detail_rows(s, n) ==
    LET delta == n - (s.last - s.totals - s.header)
        total == IF s.totals > 0 THEN At(s.rows, s.last - s.totals + 1) ELSE <<>>
    IN [s EXCEPT
          !.rows = UpTo(s.rows, s.header)
                   \o NewRows(s.header, n)
                   \o Moved(total, delta)
                   \o TrailingRows(s, delta),
          !.last = s.header + n + s.totals,
          !.filter = IF @ = 0 THEN 0 ELSE s.header + n]

Nums(rows) == {rows[i].num : i \in DOMAIN rows}

(***************************************************************************)
(* write_fixed_cells adds the rows that are missing, each before the first *)
(* one after it.                                                           *)
(***************************************************************************)
AddRow(rows, num) ==
    IF num \in Nums(rows) THEN rows
    ELSE UpTo(rows, num) \o <<[num |-> num, new |-> TRUE, id |-> num, beside |-> FALSE]>> \o After(rows, num)

WriteBlock(s, nums) ==
    LET filled[n \in 0..Max(nums)] ==
            IF n = 0 THEN s.rows
            ELSE IF n \in nums THEN AddRow(filled[n - 1], n) ELSE filled[n - 1]
    IN [s EXCEPT !.rows = filled[Max(nums)]]

TableSheets(p) == {name \in DOMAIN p.sheets : p.sheets[name].tables = 1}

(***************************************************************************)
(* sync_filter_database_names: to the table's filter, else to its range.   *)
(***************************************************************************)
SyncedNames(p) ==
    [p EXCEPT !.sheets = [name \in DOMAIN @ |->
        LET s == @[name]
        IN IF name \in TableSheets(p) /\ s.name # 0
           THEN [s EXCEPT !.name = IF s.filter # 0 THEN s.filter ELSE s.last]
           ELSE s]]

-----------------------------------------------------------------------------
(* The builders *)

Reports == {"ad revenue", "coin ledger", "products"}

(***************************************************************************)
(* A call of write_fixed_cells per block of the ledger; "rows" writes all  *)
(* of the report's tables.                                                 *)
(***************************************************************************)
Builder(kind) ==
    CASE kind = "ad revenue" -> <<"recalculate", "summary", "rows", "save">>
      [] kind = "coin ledger" -> [b \in DOMAIN Blocks |-> "block"]
                                     \o <<"rows", "names", "recalculate", "save">>
      [] kind = "products" -> <<"rows", "names", "recalculate", "save">>

(***************************************************************************)
(* The sheets a report writes: the product list finds its only table.      *)
(***************************************************************************)
Written(kind, p) == IF kind = "products" THEN TableSheets(p) ELSE DOMAIN p.sheets \ {Ledger}

(***************************************************************************)
(* _replace_table of the coin ledger keeps a blank row for no rows; the ad *)
(* revenue writer does not.                                                *)
(***************************************************************************)
DataRows(kind, n) == IF kind # "ad revenue" /\ n = 0 THEN 1 ELSE n

WorkbookInit ==
    /\ template = <<>> /\ package = <<>> /\ report = "none"
    /\ plan = <<>> /\ todo = {} /\ written = <<>>
    /\ saved = FALSE

(***************************************************************************)
(* The Power Query of a template is removed once, before it is used.       *)
(***************************************************************************)
Load(t, stripped, kind) ==
    /\ template' = t
    /\ package' = IF stripped THEN remove_power_query_dependency(t) ELSE t
    /\ report' = kind
    /\ plan' = Builder(kind)
    /\ todo' = Written(kind, t)
    /\ written' = [name \in {} |-> 0]
    /\ UNCHANGED saved

Due(call) == plan # <<>> /\ Head(plan) = call

(***************************************************************************)
(* The calls done so far; the blocks come first.                           *)
(***************************************************************************)
Done == Len(Builder(report)) - Len(plan)

Block == Blocks[Done + 1]

(***************************************************************************)
(* The errors of the writer: nothing is saved after one.                   *)
(***************************************************************************)
Refused ==
    \/ Due("summary") /\ ~package.labelled
    \/ Due("rows") /\ \E name \in todo :
           \/ name \notin TableSheets(package)
           \/ name \notin package.headed
           \/ package.sheets[name].header \notin Nums(package.sheets[name].rows)
    \/ Due("rows") /\ report = "products" /\ Cardinality(TableSheets(package)) # 1
    \/ Due("block") /\ (Ledger \notin DOMAIN package.sheets \/ Block \cap package.formulas # {})

Abort ==
    /\ Refused
    /\ plan' = <<>>
    /\ UNCHANGED <<template, package, report, todo, written, saved>>

(***************************************************************************)
(* The ledger's source has not one row per coin type and platform, or its  *)
(* balance does not add up.                                                *)
(***************************************************************************)
RefuseSource ==
    /\ Due("block")
    /\ plan' = <<>>
    /\ UNCHANGED <<template, package, report, todo, written, saved>>

Edit(call, edited) ==
    /\ Due(call) /\ ~Refused
    /\ package' = edited
    /\ plan' = Tail(plan)
    /\ UNCHANGED <<template, report, todo, written, saved>>

Recalculate == Edit("recalculate", Recalculated(package))
UpdateSummary == Edit("summary", package)
WriteLedgerBlock ==
    Edit("block", [package EXCEPT !.sheets[Ledger] = WriteBlock(@, Block)])
SyncNames == Edit("names", SyncedNames(package))

ReplaceRows(name, n) ==
    /\ Due("rows") /\ ~Refused
    /\ name \in todo
    /\ package' = [package EXCEPT !.sheets[name] = replace_detail_rows(@, DataRows(report, n))]
    /\ written' = [s \in DOMAIN written \cup {name} |-> IF s = name THEN n ELSE written[s]]
    /\ todo' = todo \ {name}
    /\ plan' = IF todo = {name} THEN Tail(plan) ELSE plan
    /\ UNCHANGED <<template, report, saved>>

Save ==
    /\ Due("save")
    /\ saved' = TRUE
    /\ plan' = <<>>
    /\ UNCHANGED <<template, package, report, todo, written>>

WorkbookNext ==
    \/ /\ template = <<>>
       /\ \E t \in Templates, stripped \in BOOLEAN, kind \in Reports : Load(t, stripped, kind)
    \/ Abort
    \/ RefuseSource
    \/ Recalculate
    \/ UpdateSummary
    \/ WriteLedgerBlock
    \/ SyncNames
    \/ \E name \in todo, n \in 0..MaxRows : ReplaceRows(name, n)
    \/ Save

WorkbookSpec == WorkbookInit /\ [][WorkbookNext]_wvars

-----------------------------------------------------------------------------
WorkbookTypeOK ==
    /\ template = <<>> \/ IsPackage(template)
    /\ report \in Reports \cup {"none"}
    /\ plan \in Seq({"block", "recalculate", "summary", "rows", "names", "save"})
    /\ saved \in BOOLEAN
    /\ template # <<>> =>
          /\ IsPackage(package)
          /\ package.parts \subseteq template.parts
          /\ package.connections \subseteq template.connections
          /\ todo \cup DOMAIN written \subseteq DOMAIN package.sheets

(***************************************************************************)
(* Every relationship and every Override is of a part that exists, and a   *)
(* query table's connection is still there.                                *)
(***************************************************************************)
NothingDangles ==
    /\ package.types \subseteq package.parts
    /\ package.rels \subseteq package.parts \X package.parts
    /\ \A q \in OfKind(package.parts, "queryTable") : ConnectionOf[q] \in package.connections
    /\ package.connections # {} => Connections \in package.parts
    /\ CalcChain \notin package.parts

(***************************************************************************)
(* What is not Power Query's stays in the package: a customXml item with   *)
(* its properties, a connection that no removed query table used.          *)
(***************************************************************************)
NothingElseIsLost ==
    LET kept == OfKind(template.parts, "item") \ MashupItems
    IN /\ kept \cup {q \in template.parts : \E i \in kept : <<i, q>> \in template.rels}
              \subseteq package.parts
       /\ \A c \in template.connections \ MashupConnections :
             c \in package.connections
             \/ \E q \in template.parts \ package.parts :
                   q.kind = "queryTable" /\ ConnectionOf[q] = c

(***************************************************************************)
(* A table that n rows were written to: the rows are in order, its data    *)
(* rows are those n, the template's other rows are all there with what     *)
(* stands beside the table in them, those up to the header where they were *)
(* and the others as far from the table's end as before, and the table and *)
(* its filter end where the rows do.  What stood beside the template's own *)
(* data rows goes with them.                                               *)
(***************************************************************************)
TableFits(was, is, n) ==
    LET others == {r \in Range(was.rows) : r.num <= was.header \/ r.num > was.last - was.totals}
        Place(r) == IF r.num <= was.header THEN r.num ELSE r.num - was.last + is.last
    IN /\ Ascending(is.rows)
       /\ {r \in Range(is.rows) : r.new} = Range(NewRows(was.header, n))
       /\ {r \in Range(is.rows) : ~r.new} = {[r EXCEPT !.num = Place(r)] : r \in others}
       /\ is.last = was.header + n + was.totals
       /\ is.filter \in {0, is.last - is.totals}

(***************************************************************************)
(* The package half of what a saved workbook keeps.                        *)
(***************************************************************************)
PackageIsSound == saved => NothingDangles /\ NothingElseIsLost

(***************************************************************************)
(* What the coin ledger's writers promise beyond that, and the ad revenue  *)
(* builder does not: even for an empty month a table has a data row        *)
(* (_replace_table: "An Excel Table needs at least one data row"), the     *)
(* _FilterDatabase names speak of the resized tables, and the ledger has   *)
(* the rows of all its fixed cells, in order.                              *)
(***************************************************************************)
HasDataRow(s) == s.last - s.totals > s.header

CoinLedgerFits ==
    saved /\ report # "ad revenue" =>
        /\ \A name \in DOMAIN written : HasDataRow(package.sheets[name])
        /\ \A name \in TableSheets(package) :
              package.sheets[name].name
                  \in {0, package.sheets[name].filter, package.sheets[name].last}
        /\ report = "coin ledger" =>
              LET rows == package.sheets[Ledger].rows
              IN UNION Range(Blocks) \subseteq Nums(rows) /\ Ascending(rows)

(***************************************************************************)
(* Whatever template a report starts from, with or without its Power Query *)
(* removed, and however many rows it has, a workbook that is saved names   *)
(* no part that is gone, has lost of its parts nothing but Power Query,    *)
(* and on every sheet written has the data rows written between the rows   *)
(* of the template, with the table ending where they do; the coin ledger's *)
(* and the product list's tables have a data row and their names fit.      *)
(*                                                                         *)
(* It does not say that an ad revenue table has a data row: for a sheet    *)
(* without rows it is only its header, which Excel offers to repair.       *)
(***************************************************************************)
SavedIsSound ==
    /\ PackageIsSound
    /\ saved =>
        \A name \in DOMAIN written :
            TableFits(template.sheets[name], package.sheets[name],
                      DataRows(report, written[name]))
    /\ CoinLedgerFits
=============================================================================
