------------------------------ MODULE Database ------------------------------
(***************************************************************************)
(* The database over its files (src/src/database.rs, catalog.rs): which    *)
(* table a name stands for, across sessions.  A table is a file <name>.db; *)
(* the catalog page lists id and name of every table.  Ids are file ids,   *)
(* and file ids are handed out in the order in which a session opens its   *)
(* files.  The catalog page and the heap pages live in the buffer pool:    *)
(* they reach the disk when they are evicted or when the database is       *)
(* dropped, while a new file is on disk at once.                           *)
(*                                                                         *)
(* All statements run on one thread, one after the other: a call is one    *)
(* action.  The files are taken to be sealed (StorageFile) when a session  *)
(* opens them, and the rows of a table to be in any of its heap pages.      *)
(* A row is kept with the schema it was written under: read under another, *)
(* its bytes are not that row.                                             *)
(***************************************************************************)
EXTENDS Integers, Sequences, FiniteSets

CONSTANTS
    Names,         \* names a client gives to tables
    Rows,          \* rows a client may insert
    Schemas,       \* column lists of CREATE TABLE
    CatalogRoom,   \* entries that fit on the catalog page whatever their size
    None,          \* no table, no id
    Modes,         \* "Killed": the process may be killed and the catalog page be
                   \* full; "Tame": neither happens
    IOFaults       \* TRUE: in mode "Killed" the disk may fail while a table is
                   \* formatted

ASSUME NamesAssumption == IsFiniteSet(Names) /\ None \notin Names
ASSUME RoomAssumption  == CatalogRoom \in Nat
ASSUME FlagsAssumption == Modes \subseteq {"Tame", "Killed"} /\ IOFaults \in BOOLEAN

\* A session opens a file per name at most; id 0 is catalog.db.
Ids   == 1 .. Cardinality(Names)
Table == [name : Names, schema : Schemas]
Entry == [id : Ids, name : Names, schema : Schemas]
Row   == [row : Rows, schema : Schemas]

ASSUME NoneAssumption == None \notin Ids /\ None \notin Table

VARIABLES
    mode,          \* one of Modes
    files,         \* the table files on disk
    catalogDisk,   \* the catalog page on disk
    heapDisk,      \* the rows on the disk pages of each file
    running,       \* a session is open
    catalog,       \* the catalog page as the buffer pool has it
    heap,          \* the rows of each file as the buffer pool has them
    listed,        \* CatalogManager.tables
    paths,         \* StorageManager.paths: the file id of each open file
    next_id,       \* StorageManager.next_id
    table_names,   \* Database.table_names
    tables         \* Database.tables: the table of each id

diskVars    == <<files, catalogDisk, heapDisk>>
pageVars    == <<catalog, heap>>
sessionVars == <<listed, paths, next_id, table_names, tables>>
vars == <<mode, diskVars, running, pageVars, sessionVars>>

NamesIn(entries) == {entries[i].name : i \in DOMAIN entries}

Init ==
    /\ mode \in Modes
    /\ files       = {}
    /\ catalogDisk = <<>>
    /\ heapDisk    = [n \in Names |-> {}]
    /\ running     = FALSE
    /\ catalog     = <<>>
    /\ heap        = [n \in Names |-> {}]
    /\ listed      = {}
    /\ paths       = [n \in Names |-> None]
    /\ next_id     = 1
    /\ table_names = [n \in Names |-> None]
    /\ tables      = [i \in Ids |-> None]

-----------------------------------------------------------------------------
(* open: the entries come out of a HashMap, in any order. *)

Orders(n) == {o \in [1 .. n -> 1 .. n] : \A i, j \in 1 .. n : o[i] = o[j] => i = j}

\* The table an id ends up with: the entry that was handled last.
LastOf(order, id) ==
    LET same == {i \in DOMAIN catalogDisk : catalogDisk[i].id = id}
    IN  IF same = {} THEN None
        ELSE LET last == CHOOSE i \in same : \A j \in same : order[j] <= order[i]
             IN  [name |-> catalogDisk[last].name, schema |-> catalogDisk[last].schema]

IndexOf(n) == CHOOSE i \in DOMAIN catalogDisk : catalogDisk[i].name = n

\* Mutant: opening the files does not use up file ids.
Open_KeepsNextId(order) ==
    /\ ~ running
    /\ running' = TRUE
    /\ files'   = files \cup NamesIn(catalogDisk)
    /\ listed'  = NamesIn(catalogDisk)
    /\ paths'   = [n \in Names |-> IF n \in NamesIn(catalogDisk)
                                      THEN order[IndexOf(n)] ELSE None]
    /\ next_id' = 1
    /\ table_names' = [n \in Names |-> IF n \in NamesIn(catalogDisk)
                                          THEN catalogDisk[IndexOf(n)].id ELSE None]
    /\ tables'  = [i \in Ids |-> LastOf(order, i)]
    /\ UNCHANGED <<mode, catalogDisk, heapDisk, pageVars>>

Open(order) ==
    /\ ~ running
    /\ running' = TRUE
    /\ files'   = files \cup NamesIn(catalogDisk)
    /\ listed'  = NamesIn(catalogDisk)
    /\ paths'   = [n \in Names |-> IF n \in NamesIn(catalogDisk)
                                      THEN order[IndexOf(n)] ELSE None]
    /\ next_id' = Len(catalogDisk) + 1
    /\ table_names' = [n \in Names |-> IF n \in NamesIn(catalogDisk)
                                          THEN catalogDisk[IndexOf(n)].id ELSE None]
    /\ tables'  = [i \in Ids |-> LastOf(order, i)]
    /\ UNCHANGED <<mode, catalogDisk, heapDisk, pageVars>>

-----------------------------------------------------------------------------
(* create_table; a name that is known returns its id and changes nothing.  *)

\* Mutant: a file takes the next id without using it up.
FileId_Kept(n, id) ==
    IF paths[n] # None
       THEN id = paths[n] /\ UNCHANGED <<paths, next_id>>
       ELSE id = next_id /\ paths' = [paths EXCEPT ![n] = id] /\ UNCHANGED next_id

\* Mutant: the next id moves on twice.
FileId_Twice(n, id) ==
    IF paths[n] # None
       THEN id = paths[n] /\ UNCHANGED <<paths, next_id>>
       ELSE /\ id = next_id
            /\ paths' = [paths EXCEPT ![n] = id]
            /\ next_id' = next_id + 2

\* open_or_create_file gives an open file its id, and any other the next one.
FileId(n, id) ==
    IF paths[n] # None
       THEN id = paths[n] /\ UNCHANGED <<paths, next_id>>
       ELSE /\ id = next_id
            /\ paths' = [paths EXCEPT ![n] = id]
            /\ next_id' = next_id + 1

Register(n, s, id) ==
    /\ table_names' = [table_names EXCEPT ![n] = id]
    /\ tables' = [tables EXCEPT ![id] = [name |-> n, schema |-> s]]

Cataloged(n, s, id) ==
    catalog' = Append(catalog, [id |-> id, name |-> n, schema |-> s])

Unknown(n) == running /\ table_names[n] = None

\* Mutant: the file is taken as it is, and cataloged.
CreateTableFromFile_Cataloged(n, s) ==
    /\ Unknown(n)
    /\ n \in files
    /\ \E id \in Ids : FileId(n, id) /\ Register(n, s, id) /\ Cataloged(n, s, id)
    /\ UNCHANGED <<mode, diskVars, running, heap, listed>>

\* The file is there although the name is not known: it is taken as it is,
\* under the schema of this statement, and the catalog is left alone.
CreateTableFromFile(n, s) ==
    /\ Unknown(n)
    /\ n \in files
    /\ \E id \in Ids : FileId(n, id) /\ Register(n, s, id)
    /\ UNCHANGED <<mode, diskVars, running, pageVars, listed>>

CreateTable(n, s) ==
    /\ Unknown(n)
    /\ n \notin files
    /\ files' = files \cup {n}
    /\ \E id \in Ids : FileId(n, id) /\ Cataloged(n, s, id) /\ Register(n, s, id)
    /\ listed' = listed \cup {n}
    /\ UNCHANGED <<mode, catalogDisk, heapDisk, running, heap>>

\* The entry does not fit on the catalog page: the file and its id stay.
CreateTableCatalogFull(n) ==
    /\ mode = "Killed"
    /\ Unknown(n)
    /\ n \notin files
    /\ Len(catalog) >= CatalogRoom
    /\ files' = files \cup {n}
    /\ \E id \in Ids : FileId(n, id)
    /\ listed' = listed \cup {n}
    /\ UNCHANGED <<mode, catalogDisk, heapDisk, running, pageVars, table_names, tables>>

\* Table::new fails: the name is known and cataloged, but has no table.
CreateTableFormatFails(n, s) ==
    /\ mode = "Killed" /\ IOFaults
    /\ Unknown(n)
    /\ n \notin files
    /\ files' = files \cup {n}
    /\ \E id \in Ids :
          /\ FileId(n, id)
          /\ Cataloged(n, s, id)
          /\ table_names' = [table_names EXCEPT ![n] = id]
    /\ listed' = listed \cup {n}
    /\ UNCHANGED <<mode, catalogDisk, heapDisk, running, heap, tables>>

-----------------------------------------------------------------------------
(* get_table and the statements over it *)

get_table(n) == IF table_names[n] = None THEN None ELSE tables[table_names[n]]

\* What is in the table's file comes back, read under the table's schema.
Scan(n) ==
    LET table == get_table(n)
    IN  IF table = None THEN {}
        ELSE {w.row : w \in {x \in heap[table.name] : x.schema = table.schema}}

Insert(n, r) ==
    /\ running
    /\ get_table(n) # None
    /\ LET table == get_table(n)
       IN  heap' = [heap EXCEPT ![table.name] = @ \cup {[row |-> r, schema |-> table.schema]}]
    /\ UNCHANGED <<mode, diskVars, running, catalog, sessionVars>>

-----------------------------------------------------------------------------
(* The buffer pool writes a page back when it evicts it. *)

WriteBackCatalog ==
    /\ running
    /\ catalogDisk' = catalog
    /\ UNCHANGED <<mode, files, heapDisk, running, pageVars, sessionVars>>

WriteBackHeap(n) ==
    /\ running
    /\ heapDisk' = [heapDisk EXCEPT ![n] = heap[n]]
    /\ UNCHANGED <<mode, files, catalogDisk, running, pageVars, sessionVars>>

\* The session is over: what was only in memory is gone.
SessionEnds ==
    /\ running
    /\ running'     = FALSE
    /\ UNCHANGED mode
    /\ catalog'     = catalogDisk'
    /\ heap'        = heapDisk'
    /\ listed'      = {}
    /\ paths'       = [n \in Names |-> None]
    /\ next_id'     = 1
    /\ table_names' = [n \in Names |-> None]
    /\ tables'      = [i \in Ids |-> None]

\* Mutant: dropping the database does not write its pages back.
Drop_Unflushed ==
    /\ UNCHANGED diskVars
    /\ SessionEnds

\* Drop for Database: flush_all.
Drop ==
    /\ catalogDisk' = catalog
    /\ heapDisk' = heap
    /\ UNCHANGED files
    /\ SessionEnds

\* The process is killed: Drop does not run.
Kill ==
    /\ mode = "Killed"
    /\ UNCHANGED diskVars
    /\ SessionEnds

-----------------------------------------------------------------------------
Next ==
    \/ \E order \in Orders(Len(catalogDisk)) : Open(order)
    \/ \E n \in Names :
          \/ \E s \in Schemas :
                \/ CreateTableFromFile(n, s)
                \/ CreateTable(n, s)
                \/ CreateTableFormatFails(n, s)
          \/ CreateTableCatalogFull(n)
          \/ \E r \in Rows : Insert(n, r)
          \/ WriteBackHeap(n)
    \/ WriteBackCatalog
    \/ Drop
    \/ Kill

Spec == Init /\ [][Next]_vars
-----------------------------------------------------------------------------
(* Properties. *)

\* Ids never run out of their range, and a closed database has no session.
TypeOK ==
    /\ mode \in Modes
    /\ files \subseteq Names
    /\ {catalogDisk, catalog} \subseteq Seq(Entry)
    /\ {heapDisk, heap} \subseteq [Names -> SUBSET Row]
    /\ running \in BOOLEAN
    /\ listed \subseteq Names
    /\ paths \in [Names -> Ids \cup {None}]
    /\ next_id \in 1 .. Cardinality(Names) + 1
    /\ table_names \in [Names -> Ids \cup {None}]
    /\ tables \in [Ids -> Table \cup {None}]

\* Two open files never have the same id: the buffer pool, which knows a page
\* by file id and number, never mixes the pages of two tables.
FilesNeverShared ==
    /\ \A m, n \in Names : m # n /\ paths[m] # None => paths[m] # paths[n]
    /\ \A n \in Names : paths[n] # None => paths[n] < next_id

\* A name stands for the table that was created under it (`Multi-table
\* support').  Only true of a database that was never killed and whose catalog
\* page was never full.
NameResolvesToOwnTable ==
    \A n \in Names : get_table(n) # None => get_table(n).name = n

\* Whatever happened, names are resolved right as long as the ids in the
\* catalog have no gap: it takes a file that lost its entry, and the id that
\* file used up, to make a later table take the id of an earlier one.
DenseCatalogResolves ==
    (\A i \in DOMAIN catalog : catalog[i].id = i) => NameResolvesToOwnTable

\* A table that the catalog lists has one schema for good: every row of its
\* file, in the pool or on disk, was written under the schema of its entry, and
\* is read under no other.  create_table opens a file that is there under the
\* schema of the new statement (`Table::open`); only a file that lost its entry
\* may hold rows of several schemas.  Holds through kills, and when ids collide
\* and the rows of a name are another table's.
CatalogedRowsReadAsWritten ==
    \A pages \in {<<catalog, heap>>, <<catalogDisk, heapDisk>>} :
        \A i \in DOMAIN pages[1] :
            /\ \A w \in pages[2][pages[1][i].name] : w.schema = pages[1][i].schema
            /\ \A id \in Ids :
                  tables[id] # None /\ tables[id].name = pages[1][i].name
                      => tables[id].schema = pages[1][i].schema

\* Without kills and failures, sessions come and go unseen: a table is created
\* once, and a scan returns what was inserted under its name, ever.  (In the
\* other mode this says nothing.)
TableRows ==
    [n \in Names |-> IF mode # "Tame" THEN {}
                     ELSE IF running THEN Scan(n) ELSE {w.row : w \in heap[n]}]

Space == INSTANCE TableSpace
            WITH created <- IF mode = "Tame" THEN NamesIn(catalog) ELSE {},
                 rows    <- TableRows
ImplementsTableSpace == Space!Spec
=============================================================================
