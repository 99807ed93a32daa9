# TLA+ specifications of db-rs

db-rs is a small relational database: SQL text arrives over TCP, one worker
thread executes it over heap files, and pages go through a buffer pool with a
clock replacement policy.  These modules model it from the syntax tree of a
statement down to the blocks of a file, check it with TLC on small instances and
prove for every size with TLAPS what TLC checked of its safety: all 33 invariants,
the action property and the five refinements.  What is left to TLC is the one
liveness property.

## The system

| Component | State it keeps | Operations | Modules |
|---|---|---|---|
| Server and worker (`server.rs`, `bin/db.rs`) | a thread per connection, the job queue, a result channel per request, the worker and its `Database` | accept, `handle_conn` (read, enqueue, stream replies), `DbWorker::run` | `Server`, `ServerProofs` |
| Executors (`execution/*`, `transaction.rs`) | the scan's page and slot, the page count it started with | `insert_record` with its retry loop, `SeqScanExecutor::next_tuple`, `scan` | `RowBag`, `HeapTable`, `HeapTableProofs` |
| Binder and planner (`planner/*`) | none; reads the tables' names and columns | `bind` and what it calls, `plan` | `Binder`, `Query`, `QueryProofs` |
| Expressions (`expr.rs`, `value.rs`) | none | `evaluate`, `evaluate_ref` | `Floats`, `Expr`, `Query`, `QueryProofs` |
| Tuples and schemas (`tables.rs`) | none | `serialize`, `deserialize`, `get_attr`, `is_valid_tuple`; bytes of columns and schemas; `Table::new`, `Table::open` | `ByteStrings`, `TupleCodec`, `SchemaCodec`, `ReopenedTable`, `ReopenedTableProofs` (and `HeapTable`, `Database`) |
| Database and catalog (`database.rs`, `catalog.rs`) | `tables`, `table_names`, the catalog manager's entries, the catalog page | `open`, `create_table`, `get_table`, drop; bytes of a catalog entry | `TableSpace`, `Database`, `DatabaseProofs`, `SchemaCodec`, `ReopenedTableProofs` |
| Buffer pool (`buffer_pool.rs`) | frames (page id, pins, clock flag, dirty, data), page table, free list, clock hand | `get_page`, `create_page`, `PageGuard` and its drop, `flush_all` | `Pages`, `PageStore`, `BufferPool`, `BufferPoolProofs` |
| Slotted page (`page/*.rs`) | header, slot array and records in 8192 bytes | `insert`, `get_slot` | `RecordList`, `SlottedPage`, `SlottedPageProofs` |
| Storage manager (`storage.rs`, `lib.rs`) | open files, their footers, file ids | `open_or_create_file`, `read_block`, `write_block`, `append_empty_block`, `ensure_capacity` | `BlockFile`, `StorageFile`, `StorageFileProofs` (file ids: `Database`) |

A statement goes: connection thread, job queue, worker, parser, binder,
planner, `Executor`, then `Database` or an executor, then the buffer pool
(guards borrow its frames), the slotted page in the frame, and the storage
manager when a page is loaded, created or evicted.  Results come back through
the channel of the request.  Nothing is written ahead: table files and their
blocks are on disk at once, the contents of pages when they are evicted or when
the `Database` is dropped, and `bin/db.rs` never shuts down, so that outside
the demo the database is only dropped when a panic unwinds the worker.

What is hard in it, and where it is modelled:

* frames that are taken from one page for another while callers hold guards,
  and error returns half way through `get_page`, `create_page`, `evict_page`
  (`BufferPool`);
* offsets that are `u16`, in a release build without overflow checks
  (`SlottedPage`, `TupleCodec`);
* the file footer that is overwritten before it is written anew
  (`StorageFile`);
* what a killed process leaves behind, and identifiers that are given out anew
  in every session (`Database`, `HeapTable`, `StorageFile`);
* the retry loop of an insert and the three nested counters of a scan
  (`HeapTable`);
* threads racing to the queue, a worker that dies, clients that leave or stop
  reading (`Server`);
* schemas that are read back from bytes whose lengths the reader counts itself
  (`SchemaCodec`, `ReopenedTable`);
* NULL, NaN, `INT` beside `FLOAT`, overflow and division in conditions; names
  that are kept with the quotes they were written in; which of it is found when a statement is bound, when
  it is executed, or by a panic (`Binder`, `Expr`, `Query`).

## The modules

Every module's opening comment says what one step of it is.  Names of
variables and operators are the source's where TLA+ allows it.

**`Pages`, `PageStore`, `BufferPool`.**  `BufferPool` has a record of pages
(`disk`), the frame fields as functions (`pageId`, `pinCount`, `clockFlag`,
`dirty`, `data`), `pageTable`, `freeFrames`, `clockHand`, and one guard per
holder.  A call of the pool is one action, because the pool is used by one
thread; its error returns are actions of their own (`GetPageReadFails`,
`GetPageEvictFails`, `CreatePageAppendFails`, ...), with just what the code
has changed by then.  The clock is not stepped: `Selects(k)` says whether the
sweep stops at its k-th visit.  `PageStore` is the promise: an array of pages
that grows at the end of each file and changes only when a caller changes a
page.

**`RecordList`, `SlottedPage`.**  `SlottedPage` models `insert` over the bytes
of a page: a byte holds what it was last written for.  `build` chooses between
the profiles: in `debug` an underflow panics before anything is written, in
`release` it wraps.  `RecordList` is the promise: a list that records are
appended to.

**`BlockFile`, `StorageFile`.**  System call by system call: a call in
progress is in `call`, and the process may end between any two.  `mode` says
whose calls are followed: those of the buffer pool on a table file, those of
anybody (`AnyPage`), or those on `catalog.db`, whose footer is not checked when
it is opened.

**`TableSpace`, `Database`.**  Which table a name stands for, and under which
columns it is read.  Statements run on one thread, so that each is one action.
The files' contents are abstracted to the set of rows in them, each with the
schema it was written under, and the catalog page to a sequence of entries; both
exist twice, in the pool and on disk.  `Open` gives out the file ids in any
order, since the catalog is read into a `HashMap`.  `mode` is chosen once:
"Tame" is a database that is never killed and whose catalog page is never full,
and implements `TableSpace`; "Killed" is every other.

**`RowBag`, `HeapTable`.**  One table over its heap pages, a turn of the loop of
`insert_record` or `next_tuple` per action.  A page is its header's page id and
the rows on it; sizes decide about `PageFull`.  The row a filter is evaluated
on, and its outcome (true, false, NULL, or no Boolean at all) are constants.
`RowBag` is the promise: a bag of rows that only a kill makes smaller.  The
record ids given out, and the blocks a kill left without a header, are history
that `RidNamesRow` needs and no action reads.

**`ByteStrings`, `TupleCodec`, `SchemaCodec`, `ReopenedTable`.**  The loops of
`serialize` and `deserialize`, and those of the codecs of schemas and catalog
entries, a column per step, over bytes of `BitsPerByte` bits, so that a length
(a byte), an offset (a `u16`, two bytes) overflows and the null bitmap has a
second byte within TLC's reach.  `ReopenedTable` composes them: the columns of
a table go through the catalog page, a tuple through a record, and the record
is read under the columns that came back.

**`Floats`, `Expr`, `Binder`, `Query`.**  `Binder` translates syntax trees and
`Expr` evaluates what it bound, both with recursive functions over the trees of at
most `MaxNesting` operators within each other, whatever that number is (what is
bound may be twice as deep).  A syntax tree is a record per node; what the parser
takes in but the binder never looks at (`ORDER BY`, `LIMIT`, `GROUP BY`, column
lists, `VALUES` behind the first row) is not in it.  `Floats` stands for `f32`:
rounding to a few significant bits, infinities, NaN and two zeros.  Names and
texts are sequences of characters: `to_string` and `table_name` are the `Display`
of sqlparser's `Ident` and `ObjectName`, which put quotes and dots among the other
characters and double a quote that is inside, and what they give is what tables
and columns are stored under.  `Query` executes the plans: a row of a scan per
step, statement after statement, with errors and panics where the code has them;
`build` is the profile, as in `SlottedPage`.  Any page that a statement needs may
fail it: `RecordIsNotStored`, `TableIsNotCreated` and `PageIsNotRead` say with an
error or a panic and no more than that, since `HeapTable`, `Database` and the
modules below them have the reasons.  What such a failure, or a page that is
written badly behind an `Ok`, takes from the files is in those modules too; in
`Query` the directory is then perhaps no longer `whole`, and the next statement
is bound to an empty one in its place.  `created` is history.

**`Server`.**  Connection threads, the queue, and the worker; the statements of a
request are numbered.  A statement ends in a result (an error is a result), which
says whose statement it answers, or panics.

## The runs

| Run | What it shows | Bounds, and why they are enough |
|---|---|---|
| `buffer_pool` | on a disk that works the pool implements `PageStore`; what is held is mapped, `flush_all` flushes | 2 frames, 3 pages, 2 holders: a page more than there are frames, so everything can be evicted while something is held |
| `buffer_pool_faults` | pins and guards survive every error path, no page gets another's block, and a refusal is justified | 2 frames, 3 holders: the pool can be exhausted; every disk access may fail at any time |
| `slotted_page` | both profiles, any inserts: slot array and records stay apart, records come back, and a panic damages at most what lies behind the next entry | a page of 30 bytes, `u16` of 128 values: sizes that fit, that leave a gap below a slot entry, that underflow, that wrap to the inside of the page |
| `slotted_page_no_room` | **violation**: no room is not always `PageFull` | two sizes |
| `storage_file` | counted pages exist, the footer of a sealed file tells its length, the blocks persist (`BlockFile`) | 4 blocks, two values; failures and process ends between any two system calls |
| `database` | without kills: names, tables and rows, across any number of sessions; with kills, a full catalog page and failing `Table::new`: open files have distinct ids, names resolve as long as the catalog is dense, and a table in the catalog is never read under other columns than its rows were written with | 3 names: two that exist, in either order, and a new one; 2 entries fit on the catalog page; 2 schemas |
| `database_multi_table` | **violation**: names may resolve to other tables after a kill | 4 names (3 are too few) |
| `server` | in-order execution; replies in order, each to the connection that asked; no queued request waits for ever | 3 connections of at most 2 statements, one stalled |
| `server_later_queries` | **violation**: requests behind a panic are not answered | the same |
| `heap_table` | a table is a bag of rows, scans are exact, record ids name their row, an insert adds few pages | 3 heap pages, two kinds of rows that fit (a page takes two short ones, or a short and a long one) and one that does not; one kill; pages that cannot be had at any time |
| `reopened_table` | a table is reopened under its name and columns; what an INSERT stores comes back, by `deserialize` and by `get_attr`, under the columns read back | 3 columns of 3 types, bytes of 2 bits in records and of 3 in the catalog; records of up to 15 bytes and longer; column and file names on both sides of the longest that fits |
| `query` | conditions obey three-valued logic, names find the columns they were created for, and what fails at run time can be told from the statement | 2 rows, so that one is right and the other fails; `INT` of 4 bits, floats of 2 significant bits: overflow, rounding, NaN and both zeros occur; the 609 conditions of one operator on 7 atoms, and 176 of two or three; tables `t` and `"t".u`; columns `a`, `f`, `"f"`, two whose names are displayed alike and one that is too long; identifiers without quotes, in double quotes and in backquotes, with quotes and dots inside |

The bounds are constants of the modules (`MaxPages`, `MaxKills`,
`MaxStatements`, `MaxColumns`, ...).  `CHECK_DEADLOCK FALSE` stands in the
`server` runs, where all clients may be served and nobody new comes, and in
`reopened_table`, which ends with its tuple.  The holders of `BufferPool` are
symmetric; no liveness is checked there.

**Fairness.**  Only `Server` has a liveness property.  Assumed are: the worker
goes on (it is a loop that blocks on nothing but the queue, and a statement
always ends), and so does each connection thread that has a reply to write or
finds its channel closed, unless its client has stalled.  Nothing is assumed of
clients: they may never send a request.  Panics and failures are never forced.

## What the violations say

* `NoRoomMeansPageFull`: `insert` computes `sa_entry.offset - size` as `u16`
  (`page/mod.rs:149`).  A record longer than what lies below the last one
  underflows.  In a debug build that is a panic.  In a release build the wrapped
  offset passes the comparison at line 157, the slot entry is written (over the
  first bytes of the last record if fewer than 4 bytes are free), and the slice
  at line 170 panics.  Unwinding drops the database, which flushes the page.
  The test at line 385 expects an error, and has records that are too small.
* `NameResolvesToOwnTable`: a file whose catalog entry was lost is taken over by
  the next `create_table` of that name with a file id and without an entry; ids
  in the catalog then have a gap, the next session numbers its files without it,
  and a new table takes the id of a cataloged one (`database.rs:115-150`).
* `LaterQueriesAnswered`: an error that is returned does not disturb later
  queries, as the test at `server.rs:188` says, but a panic does: `INSERT` of
  NULL (`tables.rs:366`, `datatype().unwrap()`), or the underflow above.

Two more departures are in the models and are not runs of their own.  A failing
write-back in `evict_page` leaves its frame with a page that is no longer in the
page table (`buffer_pool.rs:175`), so that the next `get_page` reads the old
block and the change is lost; `GuardedPageIsMapped` and the refinement are
therefore claims about a disk that works.  When the clock comes round to the
orphaned frame, it is written over newer content and takes the new mapping with
it; `BlocksKeepTheirPage` says that this is all: pages are not mixed up.  And for
a page behind the end of the file `ensure_capacity` makes room, but counts one page
less (`storage.rs:240`), so the footer is written into the page that `write_block`
then writes over, against its comment at line 184: the file is left without a footer
and the page uncounted.  `StorageFile` follows it for any caller (`mode = "AnyPage"`);
that the buffer pool, which writes no such page, never gets there is
`CountIsRight` and `FooterTellsLength`.

Three properties say how far the code goes right: `RidNamesRow` (a record id
says page 0 only after a kill or a failed `create_page`), `DenseCatalogResolves`,
and `RoundTrips` (a NULL beside a string garbles the string, because
`header_size` counts the NULL with no bytes; an INSERT cannot get there).
So do `NamesFindColumns` (a name in quotes keeps them as characters of the name,
and an identifier is looked up as the text within its own quotes: the column `"f"`
is not found by `f` nor by `"f"`, but by `` `"f"` `` and by `"""f"""`, and so may another
column be that is displayed alike; `FROM` finds a table only as it was displayed
when it was created, so `` `t` `` does not find `"t"`) and `FailuresAreForeseeable`
(a column in `VALUES` is bound and then unwrapped from no tuple,
`executor.rs:35`; a division by zero ends the worker; any other `INSERT` that
panics is one that the columns accept, and panics at its page as
`NoRoomMeansPageFull` has it).

What else the models of statements follow and a user may not expect: an `INSERT`
of several rows stores the first; its column list is ignored and values go by
the order of the schema; `CREATE TABLE` of a name that exists succeeds whatever
its columns; a whole number is refused in a `FLOAT` column, and every literal in
a `BLOB` column; `-2147483648` is `0 - 2147483648` and thereby a `FLOAT`, which
an `INT` column refuses; `SELECT id, *` returns whole rows; an `INT` and a
`FLOAT` are compared as `f32`, so that two different numbers may equal the same
float.

## The proofs

A component's proofs are in a module of their own beside it, `BufferPoolProofs`
for `BufferPool` and so on.  At their heads stand the facts about sequences and
numbers that they need (what appending does to a domain, a least member, a set
counted by numbering it, sequences joined from parts, digits and powers of two).
A recursive function is shown to exist before anything is taken from its
definition: those that step through a sequence turn by turn (`TurnsExist`,
`LoopGoesOn` in `ReopenedTableProofs`), those over trees by their depth.  Every module's assumptions on its
constants are named `...Assumption` (or `NoneIsNo...`, where a value stands for
"nothing") and TLC evaluates them on the instances.  They say what a constant is:
that sizes are numbers, that the bookkeeping fits on a page, that there are
finitely many names or holders.  No bound of the runs is in them: the theorems
hold for any number of pages, frames, names, connections, statements, kills, and
for trees of any depth.

Each module proves an inductive invariant (`...IsSafe`), with a lemma for each
action or group of actions and what they share, and takes the other theorems from
it.

**`ServerProofs`** (`SafeInv`)

| Theorem | States |
|---|---|
| `ServerIsSafe`, `ServerIsWellTyped` | the invariant, its types |
| `RequestsAreSequential` | requests are executed in the order of the queue, statement by statement, none skipped or repeated |
| `RepliesComeInOrder` | what a client reads are results of its own statements, the first ones, in their order |
| `ServiceIsComplete` | while the worker lives a request's channel closes only behind its last result |

The three properties speak of `executed`, `replies` and `arrived` only; what ties
them together is in the queue and the channels.  `QueueIsRest`: as long as the
worker lives, the queue is what is left of `arrived`.  `WorkIsDone`: the executed
statements are those of the jobs taken, the last one's up to `next`.
`AnswersAddUp`: what a connection has and what is in its channel are, in this
order, the results of its request so far.

**`DatabaseProofs`** (`DbInv`)

| Theorem | States |
|---|---|
| `DatabaseIsSafe`, `DatabaseIsWellTyped` | the invariant, its types |
| `IdsNeverRunOut` | the bound on ids never rules a statement out |
| `FilesAreKeptApart` | no two open files have the same id |
| `DenseCatalogsResolve` | names resolve to their own tables as long as the catalog's ids have no gap |
| `CatalogedRowsAreReadAsWritten` | a cataloged table is read under the columns its rows were written with |
| `DatabaseImplementsTableSpace` | without kills and failures: a space of named tables |

`FilesNeverShared` needs a count: as many files are open as ids were handed out,
and a name at most once (`IdsHandedOut`), which also bounds the ids.
`CatalogedRowsReadAsWritten` speaks of both the pool's and the disk's pages;
`DiskLagsBehind` (the disk is an earlier state of the pool) carries it over a
kill, `AllInFiles` keeps a cataloged file from being created a second time, and
`PoolReadsAsWritten` is the property for the pool.  `DenseIds` adds to
`DenseCatalogResolves` that the next id, and the id of a file that is open
and has no name, are not in use by any name.  `NothingLost` says of the mode "Tame"
that files, catalog and names agree; the refinement needs it.

**`HeapTableProofs`** (`HeapInv`)

| Theorem | States |
|---|---|
| `HeapIsSafe`, `HeapIsWellTyped` | the invariant, its types |
| `ScansAreExact` | a scan that ends well has found each matching row once, in the order of the file |
| `IdsNameRows` | a record id goes on to name its record, through kills the record survives |
| `InsertsNeedOnePage` | an insert creates one page before the row is in, at most |
| `HeapImplementsRowBag` | the heap file is a bag of rows that only a kill makes smaller |

`ScanFollows` says of every moment of a scan what `ScanIsExact` says of its end:
the rows found are those of the slots behind it (`Seen`).  `PagesNamed` and
`DiskLagsBehind` are why ids survive a kill: a page on disk is a block of zeros,
or has the header of the page in the pool and a prefix of its rows.  `InsertEnds`
adds that a page an insert created is empty while it goes on, and
`EmptyPageFits` that a record that is not refused fits on such a page: the sum in
`insert_record`'s check and the one in `insert` are the same.

**`BufferPoolProofs`** (`SafeInv`)

| Theorem | States |
|---|---|
| `PoolIsSafe` | the inductive invariant `SafeInv`, disk failing or not |
| `PoolIsWellTyped`, `PinsAreBalanced`, `GuardsKeepTheirPage`, `FlushNeverPanics` | its main parts, the first three of which the runs check on the instances too |
| `BlocksStayInPlace` | no page is ever read or written as another, disk failing or not |
| `RefusalsAreJustified` | a page is refused only when all frames are pinned: a sweep of four laps is enough for any number of frames |
| `HeldPagesAreMapped`, `FlushIsDurable`, `PoolImplementsPageStore` | on a disk that works |

That a guard keeps its page rests on `PinsCountGuards`: a victim has no pins, so
nobody holds it (`UnpinnedUnguarded`).  That needs the free list to hold only
frames that were never used, which needs it to be duplicate-free:
`FreeFramesInOrder` says it is still a prefix of the list `BufferPool::new` built.
`TableNamesFrame` keeps the page table from naming a frame that went to another
page, `FramePageExists` and `DiskHasAllocated` keep the writes inside the file, and
the refinement adds `FrameIsMapped` and `CleanFrameIsOnDisk`: a page that is not in
the page table is read from disk, so its last frame must have been clean or written
back.

**`SlottedPageProofs`** (`PageInv`)

| Theorem | States |
|---|---|
| `PageIsSafe`, `PageIsWellTyped` | the invariant; every slot that counts names bytes of the page |
| `SlotsStayIntact` | no record is written over the slot array, not even when an offset wraps |
| `RecordsBehindAreKept` | whatever an insert does, a record behind the next slot entry reads as before (an action property) |
| `PageImplementsRecordList` | in a debug build: an append-only list of records |

`SlotArrayIntact` speaks of bytes; that the next insert keeps it follows from
where the records are: each ends where an earlier one begins or below
(`RecordsDescend`), and the last one begins behind the slot array (`ArraysApart`).

**`StorageFileProofs`** (`FileInv`)

| Theorem | States |
|---|---|
| `FileIsSafe`, `FileIsWellTyped` | the invariant, its types |
| `PagesExist` | whoever calls, no page behind the end of the file is read |
| `CountIsExact`, `FootersTellLength` | under the pool the count is exact, and no old footer survives inside the file |
| `FileImplementsBlockFile` | under the pool the file is a sequence of blocks, lost only while its newest block has no footer |

`FootersCount` says of every footer, the stale ones too, that it counts the blocks
in front of it.  `CallsCount` and `PoolAppends` say for each call in progress how
far it has got, which is what a process that ends in the middle of it leaves.

**`ReopenedTableProofs`** (`SessionSafe`)

| Theorem | States |
|---|---|
| `SessionsAreSafe`, `TuplesAreWellTyped` | the invariant, the types of the loops' variables |
| `SchemasSurvive` | a table is opened under the id, names and columns it was created with, and its entry never makes the reader panic |
| `TuplesRoundTrip` | a record gives back its tuple if a statement stored it or its offsets are right; `deserialize` never panics |
| `FiltersSeeTheTuple` | `get_attr` finds in a stored record what was stored, in every column |

The invariant says of each of the four loops how far it has got.  `SchemaInv` does
it with the bytes of the columns as a list of parts: the writer has the first
ones joined (`EncodedSoFar`), the reader has the last ones before it
(`DecodedSoFar`), and a part is as long as `name_len` and the type byte let the
reader count.  `TupleInv` has positions instead: `RecordUpTo(m)` says that the
header holds the bitmap in front, the bytes of column k at `attr_pos(k - 1)` and
its string at `StringBytes[k - 1]` behind the header, for the first m columns;
`ReadSoFar` that `deserialize` has come to `attr_pos(i - 1)` and has what was
written, if the offsets are right.  Without that condition it says what keeps a
read inside the record: an offset, cut to a `u16` or short by a NULL, is never
more than what it stands for.  `BitmapTellsNull` (the bits are different powers of
two) is why a value is taken for NULL only if it is.  `StoredOffsetsAreRight`
brings in `MaxRecord`: what `insert_record` takes is shorter than a `u16` counts.
`SessionInv` ties the codecs together: the columns that come back are those the
tuple was checked against.

**`QueryProofs`** (`IInv`)

| Theorem | States |
|---|---|
| `QueryIsSafe`, `QueryIsWellTyped` | the invariant; rows are of their columns, without a NULL and with every number in range |
| `ClausesObeyLogic` | a `SELECT` returns the rows its `WHERE` clause is true of; negation, De Morgan's laws and the laws of the six comparisons hold of it |
| `ColumnsAreFound` | for any names in any quotes: a name finds a column just if one was created that is displayed as the text within the name's quotes, and the scan gives its values back |
| `FailuresAreForeseen` | a `SELECT` that panics has its cause in the statement, whatever the pages do, and so has an `INSERT`, unless its tuple fits and it panics at its page; a clause without NULL is a condition on all rows or on none |

Most of the work is below the invariant, on trees.  `Nested`, `Written`, `evaluate`,
`Ops` and `parse_expr` are recursive functions: each is shown to exist by
induction on the depth, and then to be at a node what its definition says of the
parts (`Evaluates`, `OpsAre`, `Parses`).  `EvaluateOutcome` says that an evaluation
ends in a value, an error or a panic, with every `Int` in its width and every float
a float, for which the rounding in `Floats` must never leave them.
`ExpressionHasType` is an induction over bound expressions: on rows of the
same columns an expression without NULL has one type or panics (every operator's
type follows from its operands' types); `SoundIsClosed` and `BoundAre` say that one
that panics has one of the risky operators in it, by induction over the binder's
tree.  `Trichotomy`, from the order of strings, of numbers and of signed
magnitudes, makes one of `<`, `=` and `>` true of two comparable values but for NaN;
`NegationIs`, `DeMorgan` and `ComparisonLaws` are the laws on one row, and
`BinaryClauses` and `UnaryClauses` say that a clause built of clauses means what
its operator does to what they mean, whatever it is bound as.

The invariant then is about a statement's steps: the plan is still what
the binder makes of the statement, since only `CREATE TABLE` changes the tables
and its own plan does not depend on them (`PlanOK`); a table's columns are still those
that the statement it was `created` by displays (`NamesOK`); rows are of their
columns (`TablesOK`); on every row a scan has passed the clause is a condition, and it has found just
those rows that the clause is true of (`ScanOK`); a panic has its cause in the
statement (`PanicHasCause`).  `WhereObeysLogic` speaks of a scan's end, when all rows
are passed and the clause is true, false or NULL of each.

The assumptions: sizes are positive numbers (`FloatsAssumption`,
`ExprAssumption`), and statements are syntax trees whose expressions are at most
`MaxNesting - 2` deep, because `WhereObeysLogic` puts a clause within two
more operators (`StatementsAssumption`).

**What the proofs changed.**  `HandledSequentially`, `ScanIsExact` and `RowCount`
compared with sequences that recursive operators had put together; they now say
the same with the positions of statements and rows (for the last two, TLC found
both forms equal).  The bitmap, the sizes and the numbers of the codecs were
recursive operators, too, and are recursive functions; so are, over trees of bounded
depth, those of `Expr` and `Binder`.  `WhereObeysLogic` says by their places which
rows a scan has found.  The constants of `Floats` are three numbers and a set of steps, and
its rounding is defined for every numerator: it was only
known to be so for the floats of the run.  `TableRows` was a `CASE` with overlapping guards, which
means any of its branches: the refinement could not be proved before it was
an `IF`.  `None` had to be assumed to be no table, which the configurations had
made so all along.

**What is only model-checked.**  Liveness (`EveryRequestEnds`): the prover has no
rule for fairness and `ENABLED` here.

## Not modelled, and why

* Parsing (the crate `sqlparser`); `bin/demo.rs`, logging, error wording.
* `Eq` and `Ord` of `Value`, which only tests call; `BLOB` values, which no
  statement makes; `LIKE`, which is `todo!()` and never bound.
* The encoding of texts: a name that is not UTF-8 does not get past the parser.
* `FROM catalog`: the catalog page is no heap page and is skipped by a scan.
* `RefCell` borrow panics: the program holds at most one guard at a time.
* `FileNotFound`: the ids of open files are always in `files`; the path is the
  same as `PageNotFound`.
* The bytes a frame holds after a failed read: the frame has no page then and
  nobody reads it.
* Partial writes within one system call.
* An unsealed file makes `Database::open` fail as a whole: in `StorageFile` it
  is lost; `Database` takes its files to be sealed.
* `catalog.db` is followed through kills, not through failing system calls;
  `INSERT INTO catalog` appends heap pages to it and is left out: no statement of
  `Query` names that table, which is there without having been created.
* Statements over files that are no longer `whole`: which rows are left is in
  `HeapTable` and `Database`, and nothing is bound to such files in `Query`.
* The entry that the catalog manager keeps in memory for a table whose `CREATE
  TABLE` failed: only its own tests read `CatalogManager` after `load`.
* What `deserialize` makes of a row that was written under another schema: such a
  row is only read from a file that lost its catalog entry, or when two tables
  share an id; `Database` has it not be that row any more.
* A failing `accept` ends the process.

## Plan

1. Done: the modules above, and the proofs of all components.
2. A composition of `Database` with unsealed files.
