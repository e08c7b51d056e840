------------------------------ MODULE DblTables ------------------------------
(***************************************************************************)
(* The design data (dbl_mgr.cpp): tables read from the text an Excel       *)
(* export leaves, dumped into one package in either byte order, loaded     *)
(* from it by servers and tools, and read through cursors; and the         *)
(* editor's export (startdialog.cpp), which checks the package it wrote    *)
(* by loading it again.                                                    *)
(*                                                                         *)
(* A cell is Empty or [kind, v].  What the library of logic values makes   *)
(* of a text is given: its kind, and whether it can be built as the type   *)
(* of its column (Buildable).                                              *)
(***************************************************************************)
EXTENDS Integers, Sequences, FiniteSets, SequencesExt

CONSTANTS Names,      \* the names of tables, in the order of std::map
          Texts,      \* what an export from Excel can leave: [list, files]
          Host,       \* nd_byte_order() of this machine
          Orders,     \* the byte orders
          CountSize,  \* values of the 16 bits that hold the number of rows: 65536
          Buildable,  \* Buildable[type]: the kinds of cells dbl_build_from_text accepts
          MaxOps      \* bound: exports and changes of the package

ASSUME NamesAssumption == Names \in Seq(ToSet(Names)) /\ {"version", "version.xlsx"} \subseteq ToSet(Names)
ASSUME OrderAssumption == Host \in Orders
ASSUME CountAssumption == CountSize \in Nat \ {0} /\ MaxOps \in Nat

VARIABLES needChange,  \* s_data_needChangeOrder, one for all databases of the process
          package,     \* the package on disk
          inst, tmp,   \* the singleton and expExcel's dbtmp
          exporting,   \* the step of expExcel that comes next
          cursor,      \* a DBLCursor on a table of the singleton
          ops,         \* exports and changes of the package so far
          refused,     \* how often in a row a good package was refused
          halfLoaded,  \* a load into the singleton failed since it was destroyed
          origin,      \* the tables of the package the singleton was loaded from
          fresh,       \* this export wrote all of the package it checks
          exported     \* the last export returned true: its tables, and whether it wrote them

vars == <<needChange, package, inst, tmp, exporting, cursor, ops, refused, halfLoaded,
          origin, fresh, exported>>

Empty == [kind |-> "EMPTY"]
None == [none |-> TRUE]
Torn == [torn |-> TRUE]  \* a package of which not even the head was written
NewDatabase == [loaded |-> FALSE, tables |-> <<>>]
NoCursor == [open |-> FALSE]

----------------------------------------------------------------------------
(* Text.                                                                   *)

Rank == [INT |-> 0, FLOAT |-> 1, STRING |-> 2, ARRAY |-> 7]
Larger(a, b) == IF Rank[a] >= Rank[b] THEN a ELSE b

\* What a cell does to the type of its column; "BAD" stays.
Widen(type, cell) ==
  CASE type = "BAD" \/ cell = Empty -> type
    [] type = "STRING" -> type
    [] type \notin {"BAD", "STRING"} /\ cell.kind = "VOID" -> type
    [] type \notin {"BAD", "STRING"} /\ cell.kind = "BAD" -> "BAD"
    [] type = "ARRAY" /\ cell.kind \in DOMAIN Rank \ {"ARRAY"} -> "BAD"
    [] OTHER -> Larger(cell.kind, type)

Cells(t, i) == [n \in DOMAIN t.rows |-> IF i \in DOMAIN t.rows[n] THEN t.rows[n][i] ELSE Empty]

\* The first line names the columns, the second gives them names of their
\* own, the cells below give them their types; a column without any is text.
ColumnType(t, i) ==
  IF \A n \in DOMAIN t.rows : Cells(t, i)[n] = Empty THEN "STRING"
  ELSE FoldLeft(Widen, "INT", Cells(t, i))

parseTableTypeInfo(t) ==
  IF \/ t.names = <<>> \/ "" \in ToSet(t.names) \cup ToSet(t.aliases)
     \/ Len(t.aliases) # Len(t.names)
     \/ \E i \in DOMAIN t.names : ColumnType(t, i) = "BAD"
  THEN None
  ELSE [i \in DOMAIN t.names |-> ColumnType(t, i)]

\* atoi of the first cell
RowId(row) == IF row[1] = Empty THEN 0 ELSE row[1].v

loadFromText(t) ==
  LET Id(n) == RowId(t.rows[n])
      Bad(types) ==
        \/ types[1] # "INT"
        \/ \E n \in DOMAIN t.rows : \E i \in DOMAIN types :
             Cells(t, i)[n] # Empty /\ t.rows[n][i].kind \notin Buildable[types[i]]
        \/ \E n, m \in DOMAIN t.rows : n # m /\ Id(n) = Id(m)
      Row(n, types) == [i \in DOMAIN types |->
        IF Cells(t, i)[n] = Empty THEN Empty ELSE [kind |-> types[i], v |-> t.rows[n][i].v]]
      Table(types) ==
        [names |-> t.names, aliases |-> t.aliases, types |-> types,
         rows |-> [id \in {Id(n) : n \in DOMAIN t.rows} |->
                     Row(CHOOSE n \in DOMAIN t.rows : Id(n) = id, types)]]
      Build(types) == IF Bad(types) THEN None ELSE Table(types)
      Load(parsed) == IF parsed = None THEN None
                      ELSE Build([parsed EXCEPT ![1] = IF @ = "FLOAT" THEN "INT" ELSE @])
  IN  Load(parseTableTypeInfo(t))

\* Every text has its columns' names, which differ, and a number as its id.
ASSUME TextAssumption ==
  \A tx \in Texts :
    /\ tx.list \in Seq(ToSet(tx.list))
    /\ ToSet(tx.list) \subseteq DOMAIN tx.files \cap ToSet(Names) /\ "version" \in DOMAIN tx.files
    /\ \A n \in DOMAIN tx.files :
         LET t == tx.files[n] IN
         /\ t.names \in Seq(ToSet(t.names)) /\ t.aliases \in Seq(ToSet(t.aliases))
         /\ \A i \in DOMAIN t.names, j \in DOMAIN t.names \cap DOMAIN t.aliases :
              i # j => t.names[i] \notin {t.names[j], t.aliases[j]}
         /\ t.rows \in Seq(ToSet(t.rows)) /\ \A m \in DOMAIN t.rows : RowId(t.rows[m]) \in Int

\* The tables of the list up to the first that cannot be loaded, then the
\* version, which has another name unless it is on the list.
_loadText(db, tx) ==
  LET loaded == [n \in DOMAIN tx.files |-> loadFromText(tx.files[n])]
      read == {tx.list[i] : i \in {i \in DOMAIN tx.list : \A j \in 1..i : loaded[tx.list[j]] # None}}
      tables == [n \in DOMAIN db.tables \cup read |->
                   IF n \in DOMAIN db.tables THEN db.tables[n] ELSE loaded[n]]
      versioned == [n \in DOMAIN tables \cup {"version.xlsx"} |->
                      IF n \in DOMAIN tables THEN tables[n] ELSE loaded["version"]]
  IN  IF read # ToSet(tx.list) THEN [db EXCEPT !.tables = tables]
      ELSE IF "version" \in DOMAIN tables THEN [loaded |-> TRUE, tables |-> tables]
      ELSE IF loaded["version"] = None THEN [db EXCEPT !.tables = tables]
      ELSE [loaded |-> TRUE, tables |-> versioned]

LoadFromText(db, tx) == IF db.loaded THEN db ELSE _loadText(db, tx)

----------------------------------------------------------------------------
(* The package.  Numbers are swapped or not, and the first one behind the  *)
(* marks, the length of a name between 5 and 255, is out of its range when *)
(* it is read the other way round.                                         *)

\* The ids of the rows, in the order of std::map, whose keys are unsigned.
Less(a, b) == IF a < 0 <=> b < 0 THEN a < b ELSE b < 0
Ids(table) ==
  LET ids == DOMAIN table.rows
      Before(id) == {other \in ids : Less(other, id)}
  IN  [i \in 1..Cardinality(ids) |-> CHOOSE id \in ids : Cardinality(Before(id)) = i - 1]

\* A table as it is written.  A file that ends within it ends in a part that
\* makes the load fail (damaged), or else where only nd_assert looks: cut is
\* then the row and the cell of the first one that is not there.
DumpTable(table) == [table |-> table, count |-> Cardinality(DOMAIN table.rows) % CountSize,
                     damaged |-> FALSE, cut |-> <<>>]

Dump(db, order, change) ==
  [order |-> order, swapped |-> change \/ order # Host,
   tables |-> [n \in DOMAIN db.tables |-> DumpTable(db.tables[n])]]

\* A table in the package: its first count rows.  The rows left over are
\* taken for the tables behind it.  What is not there is read as empty: a row
\* keeps the cells before it, and the rows behind get the id 0, which is
\* inserted once.
There(part, k, i) ==
  part.cut = <<>> \/ k < part.cut[1] \/ (k = part.cut[1] /\ i < part.cut[2])
LosesRows(part) == part.cut # <<>> /\ (part.cut[1] < part.count \/ part.cut[2] = 1)

LoadBinTable(file, n) ==
  LET part == file.tables[n]
      ids == Ids(part.table)
      kept == {k \in 1..part.count : There(part, k, 1)}
      read == {ids[k] : k \in kept}
      Cell(k, i) == IF There(part, k, i) THEN part.table.rows[ids[k]][i] ELSE Empty
      Row(id) == [i \in DOMAIN part.table.names |->
                    IF id \in read THEN Cell(CHOOSE k \in kept : ids[k] = id, i) ELSE Empty]
  IN  [part.table EXCEPT !.rows = [id \in read \cup (IF LosesRows(part) THEN {0} ELSE {}) |-> Row(id)]]

Spills(file, n) == file.tables[n].count # Cardinality(DOMAIN file.tables[n].table.rows)

\* Tables are read in their order, up to the first that is damaged, and to
\* the one whose rows spill or behind which the file ends.
Comes(m, n) == \E i, j \in DOMAIN Names : i <= j /\ Names[i] = m /\ Names[j] = n
Read(file) == {n \in DOMAIN file.tables :
                 \A m \in DOMAIN file.tables : Comes(m, n) =>
                   /\ ~file.tables[m].damaged
                   /\ m # n => ~Spills(file, m) /\ file.tables[m].cut = <<>>}

\* What nd_assert does is left to Crash; here it is nothing, as in a release.
LoadBinStream(db, file, change) ==
  LET swap == change \/ file.order # Host
      read == Read(file)
      tables == [n \in DOMAIN db.tables \cup read |->
                   IF n \in DOMAIN db.tables THEN db.tables[n] ELSE LoadBinTable(file, n)]
  IN  IF db.loaded THEN [ok |-> TRUE, db |-> db, change |-> change]
      ELSE IF file = None THEN [ok |-> FALSE, db |-> db, change |-> change]
      ELSE IF file = Torn \/ swap # file.swapped THEN [ok |-> FALSE, db |-> db, change |-> FALSE]
      ELSE IF read = DOMAIN file.tables
           THEN [ok |-> TRUE, db |-> [loaded |-> TRUE, tables |-> tables], change |-> FALSE]
           ELSE [ok |-> FALSE, db |-> [db EXCEPT !.tables = tables], change |-> swap]

\* operator==: the tables of a, and of each as many rows as both have.
Same(a, b) ==
  \A n \in DOMAIN a.tables :
    /\ n \in DOMAIN b.tables
    /\ LET x == a.tables[n]
           y == b.tables[n]
           xs == Ids(x)
           ys == Ids(y)
       IN  /\ Len(x.types) = Len(y.types)
           /\ \A i \in DOMAIN xs \cap DOMAIN ys : x.rows[xs[i]] = y.rows[ys[i]]
----------------------------------------------------------------------------
Complete(file) == /\ file \notin {None, Torn}
                  /\ \A n \in DOMAIN file.tables : ~file.tables[n].damaged /\ file.tables[n].cut = <<>>
Good(file) == /\ Complete(file) /\ file.swapped = (file.order # Host)
              /\ \A n \in DOMAIN file.tables : ~Spills(file, n)

\* What is left of a file that ends within one of its tables, but not within
\* the columns of it.
CutOff(file) ==
  {[file EXCEPT !.tables[n].damaged = TRUE] : n \in DOMAIN file.tables} \cup
  UNION {{[file EXCEPT !.tables[n].cut = <<k, i>>] :
            k \in {1} \cup 1..file.tables[n].count, i \in DOMAIN file.tables[n].table.names} :
         n \in DOMAIN file.tables}

Init ==
  /\ needChange = FALSE /\ package = None
  /\ inst = NewDatabase /\ tmp = NewDatabase
  /\ exporting = "idle" /\ cursor = NoCursor /\ ops = 0
  /\ refused = 0 /\ halfLoaded = FALSE /\ origin = None /\ fresh = FALSE /\ exported = None

Idle == exporting = "idle" /\ cursor = NoCursor
Operation == ops < MaxOps /\ ops' = ops + 1

LoadInst ==
  LET l == LoadBinStream(inst, package, needChange) IN
  /\ inst' = l.db /\ needChange' = l.change
  /\ halfLoaded' = (halfLoaded \/ ~l.ok)
  /\ refused' = IF l.ok THEN 0 ELSE IF Good(package) THEN refused + 1 ELSE refused
  /\ origin' = IF l.ok /\ ~inst.loaded THEN package.tables ELSE origin

\* loadDataBase, LoadClientScript, nodeflow_plugin_init: the singleton loads
\* the package, and stays as it is when that fails.
loadDataBase ==
  /\ Idle
  /\ LoadInst
  /\ UNCHANGED <<ops, package, tmp, exporting, cursor, fresh, exported>>

\* mutant: the tables stay in the map
destroy_Instant_tables ==
  /\ Idle /\ inst # NewDatabase
  /\ inst' = [inst EXCEPT !.loaded = FALSE] /\ halfLoaded' = FALSE /\ origin' = None
  /\ UNCHANGED <<needChange, package, tmp, exporting, cursor, ops, refused, fresh, exported>>

\* nodeflow_plugin_destroy, the end of runTest: the static flag survives.
destroy_Instant ==
  /\ Idle /\ inst # NewDatabase
  /\ inst' = NewDatabase /\ halfLoaded' = FALSE /\ origin' = None
  /\ UNCHANGED <<needChange, package, tmp, exporting, cursor, ops, refused, fresh, exported>>

\* Someone else brings a package made on another machine, all of it or not,
\* or cuts off the one that is there.
ChangePackage ==
  /\ Idle /\ Operation
  /\ \/ \E tx \in Texts, order \in Orders :
          LET db == _loadText(NewDatabase, tx)
              file == [Dump(db, order, FALSE) EXCEPT !.swapped = (order # Host)]
          IN  db.loaded /\ package' \in {file} \cup CutOff(file)
     \/ Complete(package) /\ package' \in CutOff(package)
  /\ refused' = 0 /\ exported' = None
  /\ UNCHANGED <<needChange, inst, tmp, exporting, cursor, halfLoaded, origin, fresh>>

----------------------------------------------------------------------------
(* startDialog::expExcel                                                   *)

\* It returns when the shell that writes the texts fails.
expExcel ==
  /\ Idle /\ Operation
  /\ inst' = NewDatabase /\ tmp' = NewDatabase /\ halfLoaded' = FALSE /\ origin' = None
  /\ exporting' \in {"idle", "text"} /\ exported' = None
  /\ UNCHANGED <<needChange, package, cursor, refused, fresh>>

Fail == /\ exporting' = "idle" /\ inst' = NewDatabase /\ tmp' = NewDatabase
        /\ halfLoaded' = FALSE /\ origin' = None /\ fresh' = FALSE

\* On Windows a package in another encoding is dumped before, which clears
\* the flag.
ExportText ==
  /\ exporting = "text"
  /\ \E tx \in Texts :
       LET db == LoadFromText(tmp, tx) IN
       \/ db.loaded /\ exporting' = "open" /\ tmp' = db /\ UNCHANGED <<inst, halfLoaded, origin, fresh>>
       \/ ~db.loaded /\ Fail
  /\ needChange' \in {needChange, FALSE}
  /\ UNCHANGED <<package, cursor, ops, refused, exported>>

\* crypt_fopen_w empties the package, or fails, and then the export goes on
\* with the package that is there.
ExportOpen ==
  /\ exporting = "open"
  /\ \/ exporting' = "dump" /\ package' = Torn /\ fresh' = TRUE /\ refused' = 0
     \/ exporting' = "load" /\ fresh' = FALSE /\ UNCHANGED <<package, refused>>
  /\ UNCHANGED <<needChange, inst, tmp, cursor, ops, halfLoaded, origin, exported>>

\* A write that fails meets only nd_assert, and the package is cut off.
ExportDump ==
  /\ exporting = "dump"
  /\ \E order \in Orders :
       LET file == Dump(tmp, order, needChange) IN
       \/ package' = file /\ UNCHANGED fresh
       \/ package' \in {Torn} \cup CutOff(file) /\ fresh' = FALSE
  /\ needChange' = FALSE
  /\ exporting' = "load"
  /\ UNCHANGED <<inst, tmp, cursor, ops, refused, halfLoaded, origin, exported>>

ExportLoad ==
  /\ exporting = "load"
  /\ LET l == LoadBinStream(inst, package, needChange) IN
     /\ needChange' = l.change
     /\ \/ l.ok /\ exporting' = "compare" /\ inst' = l.db /\ refused' = 0
           /\ origin' = package.tables /\ UNCHANGED <<tmp, halfLoaded, fresh>>
        \/ ~l.ok /\ Fail
           /\ refused' = IF Good(package) THEN refused + 1 ELSE refused
  /\ UNCHANGED <<package, cursor, ops, exported>>

\* mutant: a difference is only logged
ExportCompare_logged ==
  /\ exporting = "compare" /\ exporting' = "output"
  /\ UNCHANGED <<needChange, package, inst, tmp, cursor, ops, refused, halfLoaded, origin, fresh, exported>>

ExportCompare ==
  /\ exporting = "compare"
  /\ \/ Same(inst, tmp) /\ exporting' = "output" /\ UNCHANGED <<inst, tmp, halfLoaded, origin, fresh>>
     \/ ~Same(inst, tmp) /\ Fail
  /\ UNCHANGED <<needChange, package, cursor, ops, refused, exported>>

\* expLua and TestOutput write a file per table: a file that cannot be
\* opened fails the export.
ExportOutput ==
  /\ exporting = "output"
  /\ exported' \in {None, [fresh |-> fresh, tables |-> tmp.tables]}
  /\ Fail
  /\ UNCHANGED <<needChange, package, cursor, ops, refused>>

\* The process ends: the editor in the middle, or whoever loads a package
\* where a read or a write fails and nd_assert ends it.  A package that was
\* being written stays cut off.
Crash ==
  /\ cursor = NoCursor
  /\ exporting = "idle" => ~inst.loaded /\ package \notin {None, Torn} /\ ~Complete(package)
  /\ Fail /\ needChange' = FALSE
  /\ \/ UNCHANGED package
     \/ exporting = "dump" /\ \E order \in Orders : package' \in CutOff(Dump(tmp, order, needChange))
  /\ UNCHANGED <<cursor, ops, refused, exported>>

----------------------------------------------------------------------------
(* Cursors.  They are locals: no load or export runs while one is open.    *)

Table == inst.tables[cursor.table]
ColIndex(table, name) ==
  LET named == {i \in DOMAIN table.names : name \in {table.aliases[i], table.names[i]}}
  IN  IF named = {} THEN 0 ELSE Min(named)

\* DBLTable::FindData
FindData(table, id, name) ==
  IF ColIndex(table, name) = 0 \/ id \notin DOMAIN table.rows THEN Empty
  ELSE table.rows[id][ColIndex(table, name)]

\* A cursor on all columns or on some, by name or alias, even one that does
\* not exist.
OpenCursor ==
  /\ exporting = "idle" /\ cursor = NoCursor /\ inst.loaded
  /\ \E n \in DOMAIN inst.tables :
       LET t == inst.tables[n] IN
       \E sel \in {t.names, Reverse(t.aliases), <<t.names[Len(t.names)], "no such column">>} :
         cursor' = [open |-> TRUE, all |-> sel = t.names, table |-> n, names |-> sel,
                    fetched |-> FALSE, at |-> 0, row |-> <<>>, seen |-> <<>>]
  /\ UNCHANGED <<needChange, package, inst, tmp, exporting, ops, refused, halfLoaded, origin, fresh, exported>>

\* mutant: the columns of the table instead of those selected
Fetched_all(at, seen) ==
  LET ids == Ids(Table) IN
  IF at \notin DOMAIN ids
  THEN cursor' = [cursor EXCEPT !.fetched = FALSE, !.at = Len(ids) + 1, !.row = <<>>, !.seen = seen]
  ELSE cursor' = [cursor EXCEPT !.fetched = TRUE, !.at = at, !.seen = Append(seen, ids[at]),
                    !.row = Table.rows[ids[at]]]

\* _fetch: the row of the at-th id, or none behind the last.
Fetched(at, seen) ==
  LET ids == Ids(Table)
      cols == IF cursor.all THEN [i \in DOMAIN Table.names |-> i]
              ELSE [i \in DOMAIN cursor.names |-> ColIndex(Table, cursor.names[i])]
  IN  IF at \notin DOMAIN ids
      THEN cursor' = [cursor EXCEPT !.fetched = FALSE, !.at = Len(ids) + 1, !.row = <<>>, !.seen = seen]
      ELSE cursor' = [cursor EXCEPT !.fetched = TRUE, !.at = at, !.seen = Append(seen, ids[at]),
                        !.row = [i \in DOMAIN cols |-> IF cols[i] = 0 THEN Empty
                                                       ELSE Table.rows[ids[at]][cols[i]]]]

CursorOnly == UNCHANGED <<needChange, package, inst, tmp, exporting, ops, refused, halfLoaded, origin, fresh, exported>>

FetchFirst == cursor.open /\ Fetched(1, <<>>) /\ CursorOnly
FetchNext ==
  /\ cursor.open /\ cursor.fetched
  /\ Fetched(cursor.at + 1, cursor.seen)
  /\ CursorOnly
\* The row of an id, or none, as the id is not there.
Fetch ==
  /\ cursor.open
  /\ \E at \in 0..Len(Ids(Table)) : Fetched(at, <<>>)
  /\ CursorOnly
Close == cursor.open /\ cursor' = NoCursor /\ CursorOnly

\* The bound on operations is reached.
Done == Idle /\ ops = MaxOps /\ UNCHANGED vars

Next == \/ loadDataBase \/ destroy_Instant \/ ChangePackage
        \/ expExcel \/ ExportText \/ ExportOpen \/ ExportDump \/ ExportLoad \/ ExportCompare
        \/ ExportOutput \/ Crash
        \/ OpenCursor \/ FetchFirst \/ FetchNext \/ Fetch \/ Close \/ Done

Spec == Init /\ [][Next]_vars
----------------------------------------------------------------------------
\* The singleton and the export stay within their states, and a package that
\* is good is refused at most once in a row: the flag for the byte order that
\* a load before it left behind, of whatever package, is gone then
\* (LoadBinStream, Dump).
TypeOK ==
  /\ needChange \in BOOLEAN /\ halfLoaded \in BOOLEAN /\ fresh \in BOOLEAN
  /\ exporting \in {"idle", "text", "open", "dump", "load", "compare", "output"}
  /\ ops \in 0..MaxOps
  /\ inst.loaded \in BOOLEAN /\ DOMAIN inst.tables \subseteq ToSet(Names)
  /\ refused \in 0..1

\* A loaded singleton holds the tables of the package it was loaded from and
\* nothing of another one, in either byte order, unless a load failed before
\* and nobody destroyed what it left.  Only the table that comes last may have
\* lost cells, where the file ended between them (and nd_assert did nothing)
\* or it has more rows than their number can tell; and even then no cell holds
\* what the table did not have there, beside a row 0 of empty ones
\* (LoadBinStream, DBLTable::Dump).
LoadedExact ==
  inst.loaded /\ ~halfLoaded =>
    /\ DOMAIN inst.tables = DOMAIN origin
    /\ \A n \in DOMAIN origin :
         LET got == inst.tables[n]
             wrote == origin[n].table
         IN  \/ got = wrote
             \/ /\ origin[n].cut # <<>> \/ Cardinality(DOMAIN wrote.rows) >= CountSize
                /\ \A m \in DOMAIN origin : Comes(m, n)
                /\ got = [wrote EXCEPT !.rows = got.rows]
                /\ \A id \in DOMAIN got.rows : \A i \in DOMAIN got.rows[id] :
                     got.rows[id][i] # Empty => id \in DOMAIN wrote.rows /\ got.rows[id][i] = wrote.rows[id][i]

\* When an export returns true, no cell of the package differs from the text
\* in the rows that both have; and if it could write all of the package, the
\* next program that loads it gets the tables of the text (expExcel,
\* operator==).
ExportedExact ==
  exported # None =>
    LET l == LoadBinStream(NewDatabase, package, FALSE) IN
    /\ Good(package) => l.ok /\ Same(l.db, [loaded |-> TRUE, tables |-> exported.tables])
    /\ exported.fresh /\ (\A n \in DOMAIN exported.tables :
                            Cardinality(DOMAIN exported.tables[n].rows) < CountSize)
         => l.ok /\ l.db.tables = exported.tables

\* A cursor that was moved to a row by any calls shows the cells of that row
\* that FindData gives for its columns, a scan shows every row once and in
\* order, wherever it starts, and ends (FetchFirst, FetchNext, Fetch).
CursorExact ==
  cursor.open /\ cursor.seen # <<>> =>
    LET ids == Ids(Table)
        first == CHOOSE i \in DOMAIN ids : ids[i] = cursor.seen[1]
    IN  /\ cursor.seen = SubSeq(ids, first, IF cursor.fetched THEN cursor.at ELSE Len(ids))
        /\ cursor.fetched => \A i \in DOMAIN cursor.row :
             cursor.row[i] = FindData(Table, ids[cursor.at], cursor.names[i])
=============================================================================
