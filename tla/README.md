# TLA+ models of apollolib

apollolib is the shared C++ library of an online role-playing game: what the
servers and the clients of the game have in common.  This directory holds TLA+
models of the parts of it whose correctness depends on the order in which
things happen, TLC configurations that check them on small instances, and
TLAPS proofs of the properties that matter most for every instance.

Paths below are relative to the root of the repository; `PROJECT.json` names,
for every definition of every module, the lines of code it stands for.

Contents: [1 the system](#1-the-system), [2 the modules](#2-the-modules),
[3 the runs](#3-the-runs), [4 fairness](#4-fairness), [5 the proofs](#5-the-proofs),
[6 findings](#6-findings), [7 what is left out](#7-what-is-left-out),
[8 plan](#8-plan), [9 how to run](#9-how-to-run).

## 1. The system

### 1.1 Components

| Component | Code | State it keeps | Modelled by |
|---|---|---|---|
| Role state machine | `attribute/stat_machine.*` | the active sub-states of each field, reference counts, forbid counters, lists of raisers | `StatMachine`, `StatHold` |
| Role attributes | `attribute/attr_mgr.*` | attribute values, recalculation switch, rate, undo log of an affair | `RoleAttr` |
| Attribute table | `attribute/roleattr_help.*` | limits, formulas and the order in which they are evaluated | `RunSort` (the order), `RoleAttr` (limits) |
| State table | `attribute/stat_data.*` | sub-states, forbids, check lists | assumptions of `StatMachine` |
| Player addition data | `srv_common/userAddtionData.*` | named data, undo log of an affair | `UserAdditionData` |
| Alarms | `srv_common/dailyUpdateMgr.*` | the last run of each row, time zone, change mark | `DailyAlarm`, `CalendarAlarm` |
| Database connections | `db_common/mydatabase.*`, `gameDBConnector.*` | two connections, statement objects | `DbConn` |
| Database thread, common data | `db_common/commonDataMgr.*`, `sqlThMsgHandler.*`, `CommonDataSql.*` | two message queues, rows of `at_common_data` | `SqlThread` |
| Client login | `cli_common/apoClientObj.*`, `login_apollo.*`, `plugin_u3d/apoCliApi.cpp` | connector, login object, session, run state | `ApoClient` |
| Session file | `cli_common/login_apollo.cpp`, `include/loginToken.h` | the parts of the file, the session loaded from it | `SessionFile` |
| Client message handlers | `cli_common/dftCliMsgHandler.*`, `tool/apoEditor/src/connectdialog.*`, `game_parser/dbldata2netstream.cpp` | tables of names, formats and types, their files, the dialog's connection and login | `MessageFormats` |
| Message streams and generators | `plugin_u3d/ndMsgStream.cs`, `ApolloBridge.cs`, `tool/protocolBuilder/`, `game_parser/dbldata2netstream.cpp`, `apoGameCommon.cpp` | a buffer shared by all streams, read position, marks | `NetStream` |
| Player routing, role object | `srv_common/playerMgr.*`, `gameRole.*`, `srv_msghandler.cpp` | map from player to session, link to the other servers | `PlayerRouting` |
| Rank list | `include/rankMap.h` | a sorted bounded list | `RankMap` |
| Random sampling | `srv_common/ndrand.*` | quota and weight that are carried over | `Sampling` |
| Data tables | `game_parser/dbl_mgr.*`, `dbl_plugin.cpp`, `tool/apoEditor/src/startdialog.cpp` | tables, cursors, package, a static flag for the byte order | `DblTables` |
| Live update server | `tool/liveupdate-node/*.js` | directories of versions, list, log, requests under way | `LiveUpdate`, `VersionStore` |
| Plugin formulas | `plugin_u3d/apoAttrCalcHelper.*`, `apoFormula.cpp`, `FormulaParser.cs` | the client's attribute table, its order, the values of a helper | `AttrCalc` |
| Other script functions, robots, tools, engine bindings, geometry, build files | `game_parser/`, `cli_common/`, `tool/`, `plugin*` | none, or that of an external engine | not modelled, see 7 |

### 1.2 How they interact

* A role owns one state machine, one set of attributes, one set of addition data
  and one alarm manager of each kind.  The server's loop calls them one after
  the other in one thread; nothing in them locks.  `RoleAttrAsset` and
  `UserAdditionData` derive from `NDAffair` (a library class): a group of
  changes is bracketed by Begin and Commit or Rollback, the objects report each
  change with `AffairAdd/Modify/Del`, and a rollback calls their `Undo`.
* The table loader (`RoleAttrHelper`) runs once at start.  What it establishes
  (`RunSort`) is what `RoleAttrAsset::Recalc` relies on (`RoleAttr` assumes it of
  its constant `m_run_sort`, in the words of `RunSort`'s invariants).
* A server has a network thread and a database thread.  The network thread
  posts load, create and save requests for rows to the database thread, which
  executes them over the connections, which reconnect by themselves, and posts
  some answers back.  `SqlThread` EXTENDS `DbConn`: the steps of the thread are
  the steps of the connections together with the queues and the tables.
* A client makes blocking calls (`LoginAccount`, `ReloginEx`, `SelectServer`,
  ...).  Inside a call several requests go to the server, each waiting for its
  answer for `NET_MSG_TIMEOUT`; between calls `Update` pumps the connection.  Each
  login saves its session in a file, from which the next start of the program
  logs in again.
* A client that shows what it receives (the editor's connect dialog) asks its server for the
  tables of messages after each login, or reads them from the files of an earlier one.  A timer
  works on the connection, also while the user picks a server in the middle of a login.
* Messages are written and read by code that protocolBuilder generates from the
  definitions, or by scripts from formats loaded at run time; the programs that
  talk may have been built from different versions of the definitions.
* A server sends a player's message to the session it finds in its map, or wraps
  it for the other servers, which pass it on to the host that has him.
* Design data go from Excel through the editor's export into one package, which
  servers and tools load, and which clients fetch from the live update server.

### 1.3 What is hard here

* *Caches*: reference counts, forbid counters and raiser lists summarise the
  active sub-states; derived attributes summarise formulas; `m_runningUpdate`,
  `m_login` and the connector's level summarise the connection.  Long sequences
  of legal calls may let them drift apart from what they summarise.
* *Partial failure*: a buffer of changes that stops half-way, an affair rolled
  back, a reconnection that fails at the third statement of five, a login that
  moved to another server which then refuses.
* *Time*: gaps of days or years between two Updates, a clock that is set back,
  time zones, restarts from what was saved.
* *Unreliable answers*: a statement executed by a server that is lost before
  it answers; a login granted after the client gave up waiting.
* *Interleavings*: a session that ends between the look-up and the send, callbacks
  of several requests, an export that fails between two of its steps.
* *Versions*: a reader that knows more or fewer fields than the writer.
* *Crashes*: a session file, a package or a directory of which only a part was
  written.
* *Limits*: eight slots of raisers, sixteen memory nodes for a formula, a
  reference count of one byte, three tries.

`PROJECT.json` lists the hazards at their lines, with the properties that would
catch them.  Hazards met in the code that are not on that list, for want of a
property or of an abstraction that would say more than the code does:
callbacks of the state machine that call back into it (`stat_machine.cpp:495`); a
formula that reads more than 16 attributes and is then never evaluated
(`attr_mgr.cpp:540`); a limit that is lowered below what it limits (`attr_mgr.cpp:486`); the
last datum of a player, whose removal cannot be saved (`userAddtionData.cpp:137`);
`setEvent` of a row that exists, which marks no change, and a callback of `Update` that
adds a row (`dailyUpdateMgr.cpp:96`, `:343`); a month that is missed altogether, after
which the row runs early (`:643`); the retry of a statement on the object the
reconnection replaced, and a database that stays closed after one failed
reconnection (`mydatabase.cpp:477`, `:104`; the models have both, no document says what
should be); a `LoginOnly` after a failed `SelectServer` on the connection to the game
server (`apoClientObj.cpp:564`; which host a connection leads to is not in the model).

### 1.4 What makes each component correct

* State machine: an operation is allowed exactly when no active sub-state
  forbids it; a counted sub-state is active exactly while someone holds it.
* Attribute table: each formula is evaluated after what it reads; a table is
  refused only if it has a cycle.
* Attributes: a rollback restores everything; derived attributes equal their
  formulas once recalculated; a price is taken in full or not at all.
* Addition data: a rollback restores all data.
* Alarms: every time of the day is reported once; a week or month is reported
  at most once, and at its time.
* Database: a statement belongs to the present connection; the server does
  each write once; a load sees the writes before it; the queue drains.
* Client: who takes himself for logged in is served under the session he holds
  and updated; every call returns; what the session file offers is one whole login.
* Message handlers: once all is answered, every message of the server can be shown; what runs on a
  connection finds one that is there.
* Messages: what both programs know arrives as it was sent, and no field gets the
  value of another.
* Routing: a message for one player reaches no other, a broadcast everyone once.
* Rank list: the best of all that was ever offered, in order.
* Sampling: over any number of draws the wins are what the rates are worth.
* Tables: what is loaded is what was exported; a cursor shows it row by row.
* Live updates: a version appears whole, once, and for good; downloads that are
  resumed give every byte once.

## 2. The modules

The names in the modules are those of the code wherever TLA+ allows it.
"Mutation of X" marks operators that describe a plausible mistake in X; they are
used only to confirm that the properties can tell it apart.

### StatMachine, StatHold

One action per public call of `StatMachine`: `SetByIndex`, `ClearByIndex`, and
`ReplaceByIndex` through the paths for value fields (exactly one sub-state) and
bit fields (any set), and `ClearField`.  A call is one step, as in the code it
is one function without a return to the caller's loop; the order *inside* it
(books of the entering bits before those of the leaving bits, the reference
count written after the enter callback) is kept by threading a record of the
three caches through `on_status_set`, `on_status_clear`, `AddReference` and
`DropReference`.
A field's bits are the set of its active sub-states.  The eight raiser slots of
a forbid are the set of their occupants: where the code reports the first
occupied slot the model has a set of candidates.

The callbacks (`OnEnter`, `OnLeave`, `s_insted_*`) are taken not to call back
into the machine.  That is an assumption about the game code, which is not in
the repository; see 8.

`StatHold` adds owners (buffs, items) that set a counted sub-state when they
begin and clear it when they end; `holders` is a history variable.

### RunSort

`RoleAttrHelper::parse_run_sort`.  `Init` ranges over every dependency relation;
`Visit` is one iteration of the `for` loop with its four alternatives,
`NextRound` and `Finish` the end of the `do ... while` and the test after it.

### AttrCalc

The client's formulas: one table for the process, filled by `InitAttrNode` or all at once
by `globalInitConfig`, parsed by `preParseFormula`, whose result the plugin's functions drop.
A parse reads the formulas in the order of the rows (`ParseRow`, which stops at a name nobody told),
records who reads whom, and appends an order to the one of the parse before (`m_run_sort` is
never cleared).  A row nobody told has the id 0 and counts as the attribute 0 (`wa_id`).
`parse_run_sort` is computed in one step here, its loop is `RunSort`'s subject.
`getInfections` changes nothing where it returns; where the recorded readers form a
circle it does not return, which ends the process.  `parsed`, `reinited` and `calculated` are history:
what the caller would know if the results were told.  Each helper has values of
its own; the module has one helper.

### FormulaOrder

The two programs side by side, each with variables of its own: `AttrCalc` and an instance of
`RunSort`.  `MCDefinitions` checks and `FormulaOrder_proofs` proves what this module states.

### RoleAttr

`RoleAttrAsset`.  A call puts its nodes into `todo` and each node is one step
(`NextNode`: refuse or accept); a change that infects others starts `Recalc`,
whose loop is one step per formula (`RunFormula`), so that the partial states
which `_set_val` sees through limits by other attributes are there.  No other call
runs in between.  The columns of the table are read as `parse_minmax` reads
them, including the value it takes from the wrong column.  Values are
integers, each step in units of at least `ATTR_VALUE_DETA`.
`OutOfBound` abandons a call that would leave the values explored: a bound of
the model, not an action of the code.
Recalculation inside `getVal` is `GetValRecalc`.  `fresh` is the history that
says whether the caller has given the formulas a chance to be up to date.

### UserAdditionData

`setData`, `removeData` and the affair.  `NDAffair` is external: the log entries
are undone last first, each with its inverse operation and the node that was
reported, one entry a step (`UndoLast`) from `RollbackAffair` to `Return`; the owner
does not call in between.  The properties are about the moment when the
last entry is taken back.  The history `first` is the operation that the affair did first to a name.

### DailyAlarm

`DailyUpdateMgr` over `AlarmBase`.  `Update` is one pass over all rows; `Times(a)`
is what the code passes to `UpdateDaily`, computed by `renewTimes` from the two
ends of the interval, as in the code.  `Tick`, `SetBack` and `setTimeZone` are the
environment.  `toStream` and `Restart` are saving with the owner's data and
reading it back.  The history `owed` counts what came due and was not yet
told; it belongs to the owner's data, hence is saved and restored with it.
The `nd_time_*` functions are external and modelled by their use: midnights
between two moments and the time of a day.

### CalendarAlarm

`WeekAlarmMgr` and `MonthAlarmMgr`: when a row runs is decided by comparing the
period of the last run with the present one.  The comparison of a *local* time
with an event time that is not local, and the distance of 31 days across the
new year, are the code's.  The calendar is external: a year is a sequence of month
starts (`Elapsed`), the same for every year, with a last month of 31 days, as in the
code's calendar but for the leap years.

### DbConn

One thread, two databases (`main`, and the optional `reader`), one statement
object per class.  A statement object is known by the connection it was made on;
`prepared` is the set of objects that still hold a statement.
`StmtExecute`/`SqlExecute` choose a target, `Execute` is one try with one of the
answers ok, error, lost; `Reopen(db, fails)` closes and reopens, where Create may
fail at any class (the classes before it are made and closed again, it is NULL,
the ones after it are left closed); `CannotReopen` is a refused connection, and
`Refuse` and the crash are what the code does with what is left.

### SqlThread

The handlers of `sqlThMsgHandler.cpp` and the calls of `commonDataMgr.cpp` over
`DbConn`.  A row's content is the number of the request that wrote it.  A lost
connection may be lost before or after the server did what it was asked
(`Lost`).  The reader's tables lag (`Replicate`).  Answers go through `toNet` and
`Deliver`, the owner's own calls before the threads start through the same
statements.

### ApoClient

`ApoClient` and `LoginApollo` as the plugin drives them.  `call` is the call under
way and its step; each step is one request or one return to the caller's code,
so the network may change between any two.  `peer` is the session the server
has for this connection, `late` the answers on their way that nobody waits for
any more: a request that times out is answered later, and `Taken` picks, as the
library does, the first answer in the inbox that carries the awaited message
id (login and relogin share theirs).  Between calls come `Open`, `Close`,
`ResetConnect`, `Logout`, `ReadyGame`, `Update`, `Receive`.  The network library's
connector is modelled by its use: open, closed, its level.

### SessionFile

`save_session_info` writes seven parts over a truncated file, one step each, so
that an end of the program can come between any two; `Relogin` is three steps
(load, check of the server's key, request).  A part is the number of the login it
was written by: what matters is whether the parts belong together.  Servers
forget logins and get new keys.  Encryption and file formats are left out.

### MessageFormats

The login of the connect dialog (`stage`), its connection, and what the scripts know of it (`owner`).  A table
stands for the build of the messages it describes, 0 for none; each of the three handlers is one
step, with the file it reads, the questions it sends on and the file it writes, which may come out
whole, unchanged or unreadable.  The two servers share the files, as in the code, and are built anew at any time.
What has no step of its own: `ndSendAndWaitMessage` inside a login, whose failure is `LoginFails`.
A message is shown by the build it came with (`Shown`).

### NetStream

The stream of `ndMsgStream.cs` byte by byte, because its errors are in the bytes: a value
is a marker (type and size in one byte) and as many bytes as it needs; a structure
ends with `0xff` unless a command in the stream turns the marks off.  The
generated functions are interpreted from `Schema[v]`, the definitions of version
`v`, in the shape that the generators (C#, Lua, C++, Unreal) give them: a test for the
end of the structure behind every field, `TrytoMoveStructEnd` at the end; C++ also
refuses arrays that are too long (`checked`).  `Receive...` puts a message of generated code, of a
script, or one that a script relayed into the receiver's stream, new or used, and
over the bytes the shared buffer still holds; `Read` reads one structure.  A used stream keeps
`m_bSkipEndMarker` (`skip`): `From` does not reset it (`ndMsgStream.cs:281`).  `scripts` is a history, whether a
script's message ever came to the stream.

### PlayerRouting

Hosts with their maps and sessions, and copies of messages under way.  A copy
carries a session number, looked up when it was made; the number may belong to
someone else when it arrives.  The history `meant` is the login that had it at the
look-up.  The servers in between are external: they pass a copy on to a host where the
player is, or to all hosts.

### RankMap

`trytoAdd` with what it does to ties and at the limit of the list; `offers` is the
history of all that was offered.

### Sampling

`ndSampling`, `ndAccumulateWeightProb` and `SamplingSpecial`, with the value of `rand()` as
the input of each draw.  `Restore` saves and makes the object again through its
getters, both of which return the number of draws, as in the code.

### DblTables

`LoadFromText` with the types of columns that widen cell by cell, `Dump`, `LoadBinStream`, the
static flag `s_data_needChangeOrder` that outlives the databases, `operator==`, cursors,
and `expExcel` with every return in the middle.  A package is its tables, the byte order of
its head and whether its numbers are swapped: a package read the other way round is refused at the length of its name.  The number of rows is written in a
bounded field (`CountSize`); what is left over spills into the next table.  Ids are in the order
of the map's unsigned keys.

A file that ends too soon, because the editor ended, a write failed or someone cut it off, ends in one of three ways.
`Torn`: not even the head is there.  `damaged`: where the code returns an error.  `cut`, the row and the cell of the
first one missing: where only an `nd_assert` looks (the cells' `isInit`, `dbl_mgr.cpp:757`).  `nd_assert` is not in the
repository, and release builds define `NDEBUG` (`Rules.make:73`), so both are modelled:
`LoadBinStream` goes on as if it were not there, and `Crash` ends the process, the editor's or that of whoever loads.
When it goes on, the missing cells are empty, and the missing rows give one of empty cells with
the id 0 (`DBLRecord::Create` zeroes the cells, `:223`; the second of them is not inserted).  If a table follows, its name
cannot be read and the load fails; if the table is the last one, the load succeeds.

### LiveUpdate, VersionStore

One action per callback of node; `saveFiles` is one callback, since it uses the
synchronous calls, but it can be stopped between two of them by an error or the end
of the process.  The `appendFile` calls are done later, in any order, or fail
unnoticed.  `VersionStore` says in six actions what users may rely on;
`KeepsPromises` is its specification under the mapping that takes the
directories with data for the published versions.

### The composites

`MCStat`, `MCDefinitions`, `MCRoleData`, `MCAlarms`, `MCClient`, `MCPlayers` and `MCData` put components of one
owner side by side in one state space: `part` says which of them moves, the
others stay in an initial state.  They do not interact in the code either (the
ones that do, `SqlThread` with `DbConn` and `StatHold` with `StatMachine`, are composed in
earnest); the union keeps one configuration for each owner.  Properties that are the
conjunction of several named ones (`BlockedExact`, `SortedRight`, `AlarmsKept`, `ConnectionsSound`, ...) are
defined from them, each with its comment.

## 3. The runs

| Run | Module | Bounds | States | Shows |
|---|---|---|---|---|
| `stat` | `MCStat` | 7 sub-states in 3 fields, reference counts modulo 3, 2 slots, 3 owners | 13 140 | counters, checks and raiser lists equal what the active sub-states imply; a FALSE result is truthful; active exactly while held |
| `stat_reason` (violation) | `MCStatMachine` | 8 slots | - | finding 1 |
| `definitions` | `MCDefinitions` | 2 versions of 5 structures, 2 messages of 2 structures, 56 bytes; every relation of 4 attributes; 6 tables of 4 attributes, 2 of them or of single rows told, orders of up to 8 entries, 1 value told | 183 179 | messages arrive as sent; the order is topological, complete, refuses only cycles, returns; the client computes what the formulas say and finds what a change reaches |
| `role_data` | `MCRoleData` | 5 attributes, values -1..3, rates 1 and 2, six calls; 2 names, 2 nodes, 4 changes per affair | 514 550 | rollback of attributes and data, derived values, prices |
| `role_attr_unlimited` (violation) | `MCRoleAttr` | the same attributes | - | finding 2 |
| `user_data_old` (violation) | `UserAdditionData` | 2 names, 2 nodes, 4 changes | - | finding 3 |
| `alarms` | `MCAlarms` | days of 3 ticks, 2 daily rows, 6 readings of the clock over 2 midnights; weeks of 3 ticks, months of 3, 2, 3, more than two years; 2 time zones | 227 932 | every daily time is told once, across restarts; weekly and monthly rows at most once in a period, on time |
| `db_thread` | `MCSqlThread` | 4 classes, 3 connections, 3 requests, 1 row | 1 069 902 | statements current, nothing twice, loads see writes, queue drains |
| `client` | `MCClient` | 2 sessions, 3 tries; 4 logins in the file, 2 keys of the server; 2 servers, messages of 3 builds | 27 286 | logged in means served and pumped; calls return; the session file is sound; messages can be shown |
| `players` | `MCPlayers` | 2 hosts, 2 players, 2 sessions, 3 logins, 1 message; 5 offers for 3 places; 6 draws at 4 in a round | 646 993 | messages arrive where they should; the list keeps the best; draws are fair |
| `random_range` (violation) | `MCPlayers` | `rand()` also returns `RAND_MAX` | - | finding 4 |
| `data` | `MCData` | 4 texts of up to 2 tables and the version, 2 byte orders, 3 exports or packages; 2 connections, 4 names of versions, 2 data, 3 requests | 509 866 | loaded and exported data are exact, cursors show them, but for the last table when the package is cut off in it or it has too many rows; the live update server implements `VersionStore` and every request ends |

Why the bounds are enough:

* `stat`: two bit fields and a value field give each pair of paths
  (value, bit; counted, uncounted); every forbid is raised from more than one
  field and one forbid by more sub-states than the list has slots; the counts
  wrap within three calls.  What depends on larger tables is proved (5).
  As many owners as the count can hold, the case where the bound
  of the theorem is met exactly.  With one more the property fails: the count
  comes round to 1 and the first release drops the sub-state.
* `definitions`: with four attributes there are chains in reverse row order, which
  need every round, two disjoint cycles, and cycles beside sortable formulas.  The client's tables
  are a chain, what makes a circle of the rest of it, the attribute 0 with and without
  a gap, an order against the rows, a name nobody told, a formula that reads itself, and a
  circle; two of them one after the other leave old readers and an old order behind.
  The structures differ in their tail (`Role`, `Bag`), in a nested structure
  (`Move`), in the length an array may have; values take 0, 1, 2 and 4 bytes, and texts contain the
  bytes of the marks.  The second message lies over the bytes of the first.
* `role_data`: the formulas chain (`str` to `hpmax` to `atk`), one result is cut
  at its maximum, one attribute is limited by another, one buffer stops at its
  second node and one at its third.
  Two names suffice for what happens to one name while another
  changes; four changes are add, overwrite, remove, add again.
* `alarms`: two midnights let a gap contain a whole day with both ends
  inside other days.  Two years and one month let a row pass a
  whole year without a call; a month shorter than its neighbours and the last
  month as long as the longest are what the 31-day rule is about.
* `db_thread`: three connections are the first one, a reconnection, and a
  reconnection of that (a text is tried three times); three requests are two
  writes and a load between or after them.  The four classes are those that
  differ (load is the one the reader serves; one is only executed).
* `client`: two sessions distinguish a late answer from the right one; the
  numbers of tries are the code's.  Four logins fill a file, replace it, cut it off and
  read it again; a second key makes the saved one stale.
  Two servers and three builds give a file that is too old, recent, or another server's; each table can be in
  memory, in its file, in both with different builds, or in neither.
* `players`: a player logs in twice on two hosts or one while a third login takes a number
  over; since messages do not meet, one is enough.  Four draws make a round, six reach into the next.
* `data`: three operations are a foreign package, an export over it, and another
  one; the texts have rows in another order than their ids, short rows, empty
  columns, a float as id, a negative id, and two that must be refused; the table that comes last has rows to
  lose in one, and as many as `CountSize` in another.  A package is cut off at any cell of any table.
  Two connections and three requests let two uploads of one version, or
  an upload and a download, run into each other, with an end of the process between.

Deadlock is checked except where the system stops: `definitions` (the server's function
returns) and `db_thread` (the process may exit, crash, be closed; and the bound
on requests ends it).  In the other modules with bounds, `Done` is the stuttering step when the bound is
reached.

Properties.  Each has a mutant in `PROJECT.json`, a plausible mistake in the code
under which TLC finds it violated.  The comment above each property in its
module says what it means; the deeper ones:

* `BlockedExact` and `ReasonExact` relate three caches to the active sub-states
  through all paths; `HeldExact` relates them to a history of who holds what.
* `SortedRight`: the order is topological at every moment (`NeedsFirst`), and the bound on
  the rounds is enough (`ErrorIsCycle`).
* `FormulasRight`: `CalcExact` holds through orders left by earlier parses, because the last part of
  `m_run_sort` is complete; its exceptions (formulas that read themselves, which run once per
  parse, and the attribute 0 of a table with gaps) are the code's.  `InfectionsExact` says
  exactly when nothing is missed, and when nothing is added and the recursion ends.
* `DerivedConsistent`: one pass is enough and every change that matters starts it.
  Its conditions (a formula that does not read itself, limits that are
  numbers, at most `MM_NODE_NUMBER` reads) are those under which it is true.
* `PaidInFull` is about unscaled prices: with a rate other than 1 `subVal`
  compares the unscaled step and takes the scaled one.
* `AlarmsKept` relates what `Update` computes from two clock readings to a tick-by-tick
  history (`NothingLost`, `EveryTimeOnce`); its part `CleanIsSaved` is what makes a restart
  harmless.  `CalendarExact` follows a row across the new year (`StaysOnTime`).
* `KeepsTop` says of the list what it is for, not how it is made: the best of all that was offered, in
  order, and `isOk` exactly for an offer that is on it.
* `RowsAsAnswered` relates answers, the order of the requests and what the server
  really did under retries.
* `LoggedInIsServed` relates the client's view and the server's through late
  answers, redirections and lost connections.
* `SessionFileSound`: what is sent to log in again was saved by one login and fits the
  server's key, whatever was cut off.
* `FormatsRight`: what is left in memory and in files by other servers, by older builds and by answers
  that were cut off never reaches what is shown (`MessagesShown`, `NothingForeign`).  `NothingForeign` needs its condition:
  with an older server the code keeps the table of a newer one.  `OwnerLives` is about the order
  of what the timer, a failed login and a logout do.
* `CommonFieldsArrive` and `ReadingSound` (with its part `NeverMixed`) are the promise of the stream to programs of different
  versions.  The first is about versions that differ in the tails of the outer structures (where
  nested ones differ, fields are indeed lost): all structures of a message arrive at a stream to which no script's message came; after
  one only the first does, because the marks stay skipped, also for generated messages behind it
  (`From` keeps the flag).  The second also covers nested differences, for the first structure of a message, and says that
  the flag is never set by bytes of an earlier message; after a script's message a field may get the value
  of another, so it says nothing there.
* `RoutedRight`: its part `OnlyToPlayer` allows for one exception, the code's: a session number that was
  used again between look-up and arrival (`meant`).
* `DrawsFair` bounds the wins over any number of draws by the sum of the rates.
* `LoadedExact`, `ExportedExact` hold through flags that earlier loads left, packages of the other
  byte order, damaged ones, and exports that could not write; `TypeOK` of
  `DblTables` says that a good package is refused at most once.  They do not say that a package that is cut off is always refused, for it
  is not: `LoadedExact` allows the table that comes last to have lost cells and rows, and to have gained
  a row 0 of empty cells, when the file ended between its cells or its rows were too many to count;
  no cell may hold anything else.  It also leaves out a database in which a load failed that nobody destroyed.
* `KeepsPromises` is a refinement, with errors and ends of the process inside `saveFiles`.

## 4. Fairness

* `RunSort`: `WF(Next)` (in `MCDefinitions` over `sortVars`, of the server's part).  The loop runs; nothing else is in the process.
* `SqlThread`: `WF(DatabaseStep)`.  The database thread's loop takes the next message
  and goes on with the present one; the network thread, the replication and the
  requests have no fairness.  `QueueDrains` also allows the thread to have
  crashed, exited or been closed.
* `ApoClient`: `WF(Work)`.  Within a call the client's code continues and a wait ends
  after `NET_MSG_TIMEOUT` at the latest; servers and callers have no fairness.
  `Returns` then rests on the bounded tries.  A connection may be lost again and
  again; that every call returns nevertheless is the point.
* `LiveUpdate`: `WF(Callback(s))` for each connection and `WF(appendFile)`: libuv runs the callback of
  whatever has finished.  Clients and requests have no fairness.  `EveryRequestEnds`
  does not promise an answer to the three requests that the code leaves waiting (a
  download of what is not there, a log that cannot be read, a manager whose
  address is not known): their state is `hung`.

The other modules state safety only: their owners may stop calling.

## 5. The proofs

All proofs are checked by TLAPS to the last leaf; they hold for every value of the
constants that satisfies the named assumptions, which TLC evaluates on the
instances of the runs.

**MCStat_proofs.**  The machine.  `BooksOK(b, A)` says of a record `b` of the three caches what
they hold when exactly the sub-states `A` are active; `CoreInv` is `BooksOK` of the
present caches and the active sub-states, with a value field holding exactly
one.  `BooksOK` is about a set `A` and not about `m_stbuf` because the code updates the
caches sub-state by sub-state while the field is written at the end (or, in
Replace, in the middle): `EnterKeepsBooks` and `LeaveKeepsBooks` move `A` by one
sub-state, the lemmas `SetBitsStep`, `ClearBitsStep`, `ReplaceBitsStep`,
`AssignValueStep` put them together.  Sub-states enter in the order of the table, so
the raisers that find a free slot are the lowest (`LowestOf`, `LowestOfFacts`).

The owners.  `HoldInv` adds that a counted sub-state's count is the number of its holders modulo
`RefMod`, and that it is active iff held.  `HoldCorrect` and `HeldCorrect` (the latter of the composition
the run checks) assume `Cardinality(Owner) <= RefMod` (256 in the code, whose count is an unsigned
char); the bound is exact.  Theorems: `TypeCorrect`, `BlockedCorrect`, `ReasonCorrect`, `HeldCorrect`,
and `FalseCorrect`, about the answers of a single call, for which the two states it compares are enough.

**FormulaOrder_proofs.**  The server's order (`RunSort`, which `FormulaOrder` instantiates as `Sort`).  `WalkInv` (walked formulas
are the placed ones) and `RoundInv` (`done` is 0 exactly while the round left nothing behind) give the order and that
it is complete.  That only cycles are refused needs a measure: in an acyclic table each finished
round has walked one more attribute (`ProgressInv`), because a set of
formulas that are all blocked would contain a cycle; so `WaNum` rounds suffice.
`SortCorrect` has all three, for every number of attributes.  `RoundsEnd`: the loop takes at most
`(WaNum + 1)` squared steps (`SortStepsLeft`: a round left costs a look at every attribute and one more).

The client's table (`AttrCalc`).  A parse, a sort and `CalcAll` are one step each in the model, computed by folds, so the proof has
to go along the fold.  Induction over data with an operator as parameter is out of the provers' reach; induction over
a *set* of numbers is not: `LeastNumber` (from the library's well-founded order of the naturals) gives `Along`, a
set that holds 0 and with `i - 1` also `i` holds all of `0 .. n`.  With it `FoldDefined` shows that the function which
a fold is defined by exists, `FoldPath` that the fold's result is the end of a path `h` of its steps (`h[i] = G[<<h[i - 1], i>>]`), and
`IterationDefined` the same for the rounds.  From then on every loop is a path and what it keeps is
proved per step: `RowKeepsParse` (the rows before are compiled with all their readers recorded, or one reads what
nobody told), `RowKeepsOrder` (`SortInv`: behind the old order, nothing comes twice or before what it needs, what is walked
is placed), `CalculatedRight` (what a formula reads is computed before it for the last time and does not
change again, whatever stands before `p`).

`IInv` is inductive: the table is well formed (`NodesOK`); an accepted one is `Compiled` and its order is `Ordered` behind
some place `p`, what is before `p` being left by earlier parses; as long as nothing was told again after a parse
only readers are recorded as infected (`OnlyReaders`), and before the first parse nothing is (`Fresh`).  A sort that ends with formulas left over
has a round that walked nothing, whose formulas left over read each other in a circle (`RefusedRightly`).  Conversely
the place in the order rises along every infection, so nothing infects itself (`NoCircle`) and the recursion of `getInfections`
ends (`InfectionsRight`).  Theorem `FormulasCorrect`, for any capacity, configurations, formulas (sequences of
attributes), values and number of calls.

**MCRoleData_proofs.**  The attributes.  `AffairInv`: the log restores `begun.datas`.  `LoopInv`: while `Recalc`
is at position `pos`, the formulas before it agree with the present values;
that it survives the next store is where the topological order and
`AgreesDepends` (a formula depends on what it reads and on its limits) come in.
`BegunInv` carries agreement over an affair to its rollback.  The
assumption on `m_run_sort` is what `SortCorrect` proves of `parse_run_sort`.
Theorems: `AffairCorrect`, `DerivedCorrect`, `TypeCorrect`, `PriceCorrect`.

The addition data: `DataInv`.  What a rollback makes of a name is decided by the oldest entry about it that is left
in the log, since the entries are taken back last first; so the invariant says of the oldest entry what the
name held at the begin (or, for an overwritten one, that it held something), and of a name without an entry that it holds what it
held then.  One operation appends at the end and one step of the rollback drops the end,
neither of which changes the oldest entry of a name that has another.  Theorem `TakenBackCorrect`, for any
names, contents and number of changes.

**MCAlarms_proofs.**  The daily manager.  `Count(a, t)`, the number of times of a row up to a moment, midnights
and time of day put together.  `RenewCounts`: what `renewTimes` computes from
two readings is `Count(a, to) - Count(a, from)`.  `CountTick`: one tick moves the count by
what comes due then.  With these `NothingLost` is inductive together with the same
statement about what is saved (`SavedLost`).  Theorems: `TypeCorrect`,
`KeptCorrect`, `ToldOnce`, `FirstDayCorrect`, for any length of a day, any
times of a row, any time zones and any jumps of the clock.

The weekly and the monthly manager: `CalendarInv`.  `RowOK` says of a row, with the clock, the time zone and its last run as
arguments, that a call in the present period means a last run in it, that a weekly row without one ran in
an earlier week, and that a monthly row on time ran at its time in this month or in
the one right before, whose successor it is (`MonthSuccessor`: of the same year, or January after a December that is
31 days away).  `RowTick` and `RowUpdate` keep it; `MonthRunsOnTime` is the rule of the code across the new year.
That each moment lies in exactly one month is the well-founded order of the month starts (`MonthExists`,
`MonthUnique`).  Theorem `CalendarCorrect`, for any weeks, month lengths, rows and time zones.

**SqlThread_proofs.**  First the connections (`DbConn`).  `IInv` adds to the properties `Waiting`: what waits for a
reconnection has an old connection, and a reader is connected only if it is
configured.  Without it a failed reopening would not be known to deal with
exactly the classes of its database.  `UsesConnections` proves `Spec => DbSpec`: every
step of the two threads is a step of the connections or leaves them alone, so
what is proved of `DbConn` holds in `SqlThread` (`ConnectionsCorrect`).

Then the requests.  `SqlInv` follows a request through the queue, its tries, the server, the
answer and the reader: `QueueInv` (the queue is the rest of the requests, in order), `TryInv` (a statement
on the connection it was made on has done nothing yet; a text has done no more than it was tried),
`AppliedInv` (nothing is done before its turn, and by a statement at most once, also when the connection was
lost before the answer), `AnswerInv` (every answer is to another request, and true), `RowsInv` (a row holds
the last write to it, the reader's copy some write) and `LoadInv` (a load sees the writes
before it, the last one where there is no reader, and never an older one than the load before).
Theorems: `TypeCorrect`, `ConnectionsCorrect`, `AnswersCorrect` (`Spec => []RowsAsAnswered`), and
`QueueGetsShorter`: `StepsLeft`, ten for each request in the queue, counted down by where the present one is
(`AtPc`), falls with every step of the thread and rises only by ten with a new request.

**ApoClient_proofs.**  `StepInv` (which steps a call may be in), `BoundInv` (a call past
connecting has a `LoginApollo`), `LevelInv` (requests go out on a connection that is
not logged in, lists on one that is), `LateInv`, `ServedInv` and `PumpedInv`.  The
critical lemma is `TakenIsAnswer`: the first answer in the inbox with the
awaited id is the one just sent.  That rests on `LateInv`: a call that gives a
request up ends or connects anew, and the answers that are late on a connection
that is kept are to `SelectServer`, which sends its request on a connection made
for the purpose.  Theorems: `TypeCorrect`, `AlwaysLoginBound`,
`AlwaysPumped`, `AlwaysServed`, `AlwaysSuccessIsLoggedIn`; and `CallsGetNearer`: `StepsLeft` is
computed from the step a call is at and the tries it has left (`Ahead`), every step of the call lowers it, though a
retry goes back to connecting, and nothing beside the call raises it.
The session file has an invariant of its own, `FileInv`: every part in the file is of one
login, what was loaded to log in with is whole, a request goes out only while the key it was saved under is
the server's, and after a refusal the file is gone; with it `SessionFileCorrect` is about ends of the program between any two writes and any number of logins and keys.
The tables of messages: `FormatsInv`.  No table, in memory or in a file, is newer than every server
(`NotAhead`); questions are open only on a connection, in the order of the tables; and a table that is no longer
asked for is at least as new as the server that was logged in to.  The last part survives a server built anew
because that server's connection is lost with it.  Theorem `FormatsCorrect`, for any servers and builds.

**MCPlayers_proofs.**  Three parts that share no variable, each with its invariant.

Routing: `RoutingInv`.  The logins of the sessions are distinct (`SessionInv`), and what the
map holds is an open session of that player (`MapInv`), because an entry is deleted before its session is
closed.  `MessageInv` says of each message where it can be.  One for a player: one
copy at most, gone when it has come, meant for a login of his from the look-up on.  One for all: one copy with
the other servers, or one for each host, none of whose logins has got it; and who it is for has
it, or a copy is on its way to his host, or will be.  A login that is closed and opened again
between look-up and arrival gets a new number in `player`, so that what was meant for the old one is
told from it.  Theorem `RoutedCorrect`, for any hosts, players, sessions, logins and messages.

The rank list: `RankInv`, the list is the `capacity` best of the offers (`IsTop`), for which inserting in
front of the first entry that is not better, and dropping the last, has to give the best of one offer
more (`TopKept`, for every capacity and any offers).

Sampling: `Account`, the weight is the first one, and the rates since, less one
round for each win, and lies within a round of zero; hence `FairDraw`.  `Counted`: what was won is bounded
by what was counted, and by the draws when every draw must win, so restoring an object with its
draws in the place of its wins makes it win less often and never more.  `DrawsCorrect`, for
every number of draws in a round, all rates and any `rand()`; `TypesCorrect` for the types of all.

**MCData_proofs.**  The live update server implements `VersionStore`: `ServerImplementsStore` (of the
server by itself) and `PromisesKept` (of what the run checks).  `LiveInv`: `ConnInv` (what a connection can hold),
`FileInv` (only versions whose data are there wait to be listed, so that the list never shows one that is
not complete), `DownloadInv` (a download starts and goes on where the client's bytes end).  Each of the server's
actions is then a step of the store or leaves it alone, saveFiles' five moves and its end in between included.
`RequestsGetNearer`: the callbacks a request waits for (`CallbacksLeft`) are two at most and fall with each.

The tables: `TablesInv`.  `ExportInv` and `CheckedInv` hold what each step of an export relies on from the ones
before, through every return in the middle; `RefusedInv`, that a refusal leaves the flag for the byte order as the next
load needs it; `LoadedInv`, that what is loaded is what is read of the package it came from.  `LoadedCorrect` then needs that only the
last table of a package can be read short (`LastOnly`) and that reading invents no cell (`NoneInvented`).  `CursorInv`, that a
cursor has seen the ids in order up to where it is.  Theorems `TypesCorrect`, `LoadedCorrect`, `ExportedCorrect`,
`CursorCorrect`, for any texts, machines of both byte orders and any number of calls.

*Assumptions on the constants*, each named in its module: `NumbersAssumption` (0 is neither a session nor a
player: the code takes it for "none" and "all"), `CapacityAssumption` (a list has room for one),
`TextAssumption` (the columns of a table have different names and its ids are numbers), and those that
say of a number that it is one.

*Liveness*, proved in part: for each of the four liveness properties a theorem has the measure that its argument rests on, for all
values of the constants: a number that falls with every step the fairness is about and that no
other step raises (`RoundsEnd` for `SortReturns`, `CallsGetNearer` for `Returns`, `RequestsGetNearer` for
`EveryRequestEnds`; `QueueGetsShorter` for `QueueDrains`, where a new request adds its own ten steps and the number of requests is bounded).
Infinitely many such steps are thus impossible in one call, queue or request; what is left to TLC is that a step is
possible until then, and taken.

*Only model-checked*: those four properties themselves (`SortReturns`, that is `Returns` of `RunSort`, `Returns` of `ApoClient`,
`QueueDrains`, `EveryRequestEnds`), since TLAPS proves nothing about ENABLED and fairness here;
and the module `NetStream`: its writers and readers are RECURSIVE operators over the tree of a structure, so a
module that reaches them has no SMT backend, and what they compute for every tree is induction over data.  Its three
properties (`SameVersionExact`, `CommonFieldsArrive`, `ReadingSound`) are the only invariants of the runs without a theorem.

## 6. Findings

1. `stat_reason`: `GetUnoperateReason` (`attribute/stat_machine.cpp:131`) walks the check list
   from its length cell: it asks for the reason of the forbid numbered like the
   length and never for the last entry.  The comment above it says it gets the
   state by which the operation is forbidden.
2. `role_attr_unlimited`: `parse_minmax` (`attribute/roleattr_help.cpp:473`) takes the
   threshold of an attribute without maximum from the `max_val` column; the
   header documents "1: the number that was put in".
3. `user_data_old`: `UserAdditionData::setData` (`srv_common/userAddtionData.cpp:184`) reports
   the new node of an overwritten datum where `attr_mgr.cpp:519` reports the old
   one; `Undo` calls its parameter `old_val` and stores it, so a rollback keeps
   the new content.
4. `random_range`: `ndrand_range` (`srv_common/ndrand.h:31`) returns one more than its upper
   limit when `rand()` is `RAND_MAX`, although the comment at line 19 says it returns
   [min, max].  `SamplingSpecial` then marks an entry behind its table and gives one fewer than it
   was asked for.

Behaviour the models have, or that was met while reading, and that no document of
the repository contradicts is not listed as a finding.  Worth knowing:
with more than 256 holders a reference count wraps; a table with an
unknown forbid leaves a hole in the sub-state's list (`stat_data.cpp:145`);
`addVal` and `subVal` by an unknown name read beyond the values
(`attr_mgr.cpp:308`); `operator=` drops `datasCount` (`attr_mgr.h:42`); lowering a limiting
attribute does not cut the limited one; an event time shifted with `setEvent`
is not marked as a change; a row with no times reads `clock_seconds[-1]`; a
month's event is compared with a shifted clock; a failed reconnection leaves
the database without connection for ever and its statements NULL; the retry
after a reconnection uses the object that the reconnection replaced and fails;
each reconnection leaks the old statement objects; the answer to a load
carries no name; `SelectServer` by address reports success when the login there failed
and may return a stale error code; a failed fetch of the crypt version removes the
session file; a nested structure of an older program ends the reading of the one around it; the
end of a player's old session takes the map's entry of his new one, so that messages for him go the
long way round; a package that was refused leaves the byte-order flag set, so that the next good
one is refused once; without `nd_assert` a package that is cut off between two cells of its last table loads with success, with
rows missing and a row 0 of empty cells (`dbl_mgr.cpp:757`); a stream to which a script's message came skips the marks
of all messages after it (`ndMsgStream.cs:281`), so that fields of programs of another version are lost or
mixed; a load that failed keeps its tables, and a later one does not replace them;
an export that cannot open the package compares with the one that is there, and only the rows
both have; `getSuccessTimes` returns the draws; an upload that was cut off can never be
uploaded again; a form without its md5 ends the update server; `apoFormulaAddValue` sets the value; a table of messages from a newer server is used
with an older one; picking a server after the timer closed the login calls a null pointer; attribute 0 is never reported
by the client's `getInfections`, which does not return after some changes of an accepted table.

## 7. What is left out

* *Callbacks into a component* (state machine, alarms): the game code is not in the
  repository.
* *Undefined behaviour* after misuse: `Logout` or `apoCli_fetchSessionKey` on a login
  object whose connector was destroyed, names that do not exist, empty tables.
* *Data*: texts of tables, the compiler and machine for formulas (external),
  byte streams, sizes of mails, encryption (a step that succeeds or fails).
* *Client*: third-party logins and the other lists have the shape of the calls
  modelled; in `ApoClient` the session file is never set (it is `SessionFile`'s, over calls that succeed or
  fail); `m_isRelogin`, which the role list's request carries to the server (`apoCliApi.cpp:447`) and nothing here depends on; `SelectServer` when the failing step set no error code; late
  answers to lists, which carry ids of their own.
* *Messages*: 64-bit numbers beyond four bytes and negative ones, the parsing of
  definitions, the numbers of messages, the text of the generated files.
* *Routing*: encryption and the saving of messages for players who are away.  A broadcast goes to
  every open session, in the code to those that are ready (`EPL_READY`) among them.
* *Tables*: encodings of texts, `ReloadTable`, which nothing calls, printing.  Files that end
  within the columns of a table (what is read as its names and types then is not followed) and files of which bytes
  are changed.  Cursors give cells by number; `GetDataNode` by name (`dbl_mgr.cpp:944`) takes the table's number of the column
  for that of the selected ones, which is right only for cursors on all columns.
* *Live updates*: the pages and the parsing of forms.  The data file has a name of its own; the one the client
  sends (`upload.js:94`) could also be that of a file the server writes beside it.
* *States and alarms*: the sub-state's forbids are a set, where the loader can leave one twice or a hole; the packing of
  times (`toStream`) does not fail for long names or full buffers.
* *Database*: the length of the text of a query (`mydatabase.cpp:142`); an answer goes to the request it was made for, though it carries no name;
  a request lost with the connection is lost for good, never done late by the server.
* *Jump*: any answer to it is success in the code (`login_apollo.cpp:764`); that the server then serves the session is an
  assumption about the server.
* *Draws*: `ProbSampling` of weights with a sum of 0 or less, which returns -1.
* *Library* (`NDAffair`, `nd_time_*`, the connector, MySQL): modelled by use and
  marked external in `PROJECT.json`.
* *Message handlers*: those that print, store a file, load a script or install a handler; a tables' answer that
  is not well formed but for unreadable types; files that are neither whole nor refused by the library.
* *Components*: script bindings (they call an external
  script engine), test robots, the other windows of the editor and generators (user interfaces), geometry and
  error texts (no state), the Unreal binding, build files, example data.

## 8. Plan

Order: the state machine and attributes first (the library's own logic, used by
everything), then time and persistence, then the threads and the client, then messages,
routing, data and updates.  Done so far: all modules of section 2.  What could follow:

1. `StatMachine` with callbacks that call back: a stack of calls; which of the
   present invariants survive (the reference count is written after the enter
   callback), and under which rule for callbacks all do.
2. `RunSort` and `RoleAttr` composed, so that the assumption on `m_run_sort` is
   discharged inside one specification.
3. Saving and loading a player as a whole: attributes, addition data and
   alarms from one save, with crashes between.
4. An abstract specification of the state machine (the set of active sub-states, operations
   allowed by it) and of the alarms (a log of moments told once), refined by the modules here.
5. Theorems about `NetStream`, with its structures laid out as sequences of places, so that `FoldPath` of
   `FormulaOrder_proofs` serves for its readers too.

## 9. How to run

    tlc -workers 2 -config MCStat.cfg MCStat
    tlapm MCStat_proofs.tla

and likewise for the other pairs of configuration and module in
`PROJECT.json` ("runs") and the other `*_proofs.tla`.
