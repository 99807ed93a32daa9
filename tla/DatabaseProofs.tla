--------------------------- MODULE DatabaseProofs ---------------------------
(***************************************************************************)
(* Proofs about Database for any number of names and sessions, wherever    *)
(* the process is killed.                                                  *)
(***************************************************************************)
EXTENDS Database, SequenceTheorems, FiniteSetTheorems, WellFoundedInduction, TLAPS

-----------------------------------------------------------------------------
(* Sequences and numbers. *)

\* What appending does, in terms of the domain.
LEMMA AppendedDomain ==
    ASSUME NEW S, NEW s \in Seq(S), NEW e \in S
    PROVE  /\ Append(s, e) \in Seq(S) /\ Len(Append(s, e)) = Len(s) + 1
           /\ DOMAIN Append(s, e) = DOMAIN s \cup {Len(s) + 1}
           /\ Len(s) + 1 \notin DOMAIN s
           /\ \A i \in DOMAIN s : Append(s, e)[i] = s[i]
           /\ Append(s, e)[Len(s) + 1] = e
<1>1. Len(s) \in Nat /\ DOMAIN s = 1 .. Len(s)
  BY LenProperties
<1>2. /\ Append(s, e) \in Seq(S) /\ Len(Append(s, e)) = Len(s) + 1
      /\ \A i \in 1 .. Len(s) : Append(s, e)[i] = s[i]
      /\ Append(s, e)[Len(s) + 1] = e
  BY AppendProperties
<1>3. DOMAIN Append(s, e) = 1 .. Len(s) + 1
  BY <1>2, LenProperties
<1>4. 1 .. Len(s) + 1 = (1 .. Len(s)) \cup {Len(s) + 1}
  BY <1>1
<1> QED BY <1>1, <1>2, <1>3, <1>4

\* A set of numbers that has a member has a least one.
LEMMA LeastExists ==
    ASSUME NEW T \in SUBSET Nat, T # {}
    PROVE  \E x \in T : \A y \in T : x <= y
<1>1. PICK x \in T : \A y \in T : ~ (<<y, x>> \in OpToRel(<, Nat))
  BY NatLessThanWellFounded, WFMin, Zenon
<1>2. \A y \in T : ~ (y < x)
  BY <1>1, Zenon DEF OpToRel
<1> QED BY <1>2

\* The numbers a function gives to the members of a set have a greatest.
LEMMA GreatestExists ==
    ASSUME NEW D, D # {}, NEW k \in Nat, NEW f, \A i \in D : f[i] \in 1 .. k
    PROVE  \E i \in D : \A j \in D : f[j] <= f[i]
<1> DEFINE T == {k - f[i] : i \in D}
<1>1. T \in SUBSET Nat /\ T # {}
  OBVIOUS
<1>2. PICK x \in T : \A y \in T : x <= y
  BY <1>1, LeastExists
<1>3. PICK i \in D : x = k - f[i]
  OBVIOUS
<1>4. \A j \in D : k - f[i] <= k - f[j]
  BY <1>2, <1>3
<1>5. \A j \in D : f[j] <= f[i]
  BY <1>4
<1> QED BY <1>5

\* As many things are in a set as there are numbers that name them one to one.
LEMMA NumberedSet ==
    ASSUME NEW k \in Nat, NEW S, NEW f \in [1 .. k -> S],
           \A i, j \in 1 .. k : f[i] = f[j] => i = j,
           \A x \in S : \E i \in 1 .. k : f[i] = x
    PROVE  IsFiniteSet(S) /\ Cardinality(S) = k
<1>1. IsFiniteSet(1 .. k) /\ Cardinality(1 .. k) = k
  BY FS_Interval
<1>2. f \in Bijection(1 .. k, S)
  BY DEF Bijection, Injection, Surjection, IsInjective
<1> QED BY <1>1, <1>2, FS_Bijection DEF ExistsBijection

-----------------------------------------------------------------------------
(* The inductive invariant. *)

OpenFiles == {n \in Names : paths[n] # None}

NamesOnce(entries) ==
    \A i, j \in DOMAIN entries : entries[i].name = entries[j].name => i = j

\* As many files are open as ids were handed out, no two under the same id.
IdsHandedOut ==
    /\ OpenFiles \subseteq files
    /\ Cardinality(OpenFiles) = next_id - 1
    /\ FilesNeverShared

\* The pages on disk are earlier states of the pages in the pool.
DiskLagsBehind ==
    /\ Len(catalogDisk) <= Len(catalog)
    /\ \A i \in DOMAIN catalogDisk : catalogDisk[i] = catalog[i]
    /\ \A n \in Names : heapDisk[n] \subseteq heap[n]
    /\ ~ running => catalogDisk = catalog /\ heapDisk = heap

\* The catalog lists a name once; what is listed, holds rows or is open as a
\* table is a file.
AllInFiles ==
    /\ NamesOnce(catalog)
    /\ NamesIn(catalog) \subseteq files
    /\ \A n \in Names \ files : heap[n] = {}
    /\ \A id \in Ids : tables[id] # None => tables[id].name \in files

\* A session knows all names of the catalog; without one nothing is known.
SessionKnowsCatalog ==
    /\ running => \A n \in NamesIn(catalog) : table_names[n] # None
    /\ ~ running => /\ \A n \in Names : paths[n] = None /\ table_names[n] = None
                    /\ \A id \in Ids : tables[id] = None

\* CatalogedRowsReadAsWritten of the pool's pages.
PoolReadsAsWritten ==
    \A i \in DOMAIN catalog :
        /\ \A w \in heap[catalog[i].name] : w.schema = catalog[i].schema
        /\ \A id \in Ids :
              tables[id] # None /\ tables[id].name = catalog[i].name
                  => tables[id].schema = catalog[i].schema

\* While the ids in the catalog have no gap, names have ids of their own; the
\* next id and those of files that are open but not known are not among them.
DenseIds ==
    (\A i \in DOMAIN catalog : catalog[i].id = i) =>
        /\ \A m, n \in Names : table_names[m] # None /\ table_names[m] = table_names[n] => m = n
        /\ \A n \in Names : table_names[n] # None => table_names[n] < next_id
        /\ \A n \in Names : paths[n] # None /\ table_names[n] = None
              => \A m \in Names : table_names[m] # paths[n]
        /\ \A id \in Ids : tables[id] # None => table_names[tables[id].name] = id

\* Without kills and failures every file is cataloged, the ids have no gap, and
\* each cataloged name stands for its entry.
NothingLost ==
    mode = "Tame" =>
        /\ files \subseteq NamesIn(catalog)
        /\ \A i \in DOMAIN catalog : catalog[i].id = i
        /\ \A n \in Names : table_names[n] # None => n \in NamesIn(catalog)
        /\ running =>
              /\ next_id = Len(catalog) + 1
              /\ \A i \in DOMAIN catalog :
                    /\ table_names[catalog[i].name] = i
                    /\ tables[i] = [name |-> catalog[i].name, schema |-> catalog[i].schema]

DbInv ==
    /\ TypeOK
    /\ IdsHandedOut
    /\ DiskLagsBehind
    /\ AllInFiles
    /\ SessionKnowsCatalog
    /\ PoolReadsAsWritten
    /\ DenseIds
    /\ NothingLost

-----------------------------------------------------------------------------
(* The operators. *)

LEMMA NamesCounted ==
    /\ IsFiniteSet(Names) /\ Cardinality(Names) \in Nat
    /\ Ids = 1 .. Cardinality(Names) /\ None \notin Ids /\ None \notin Names /\ None \notin Table
    /\ \A n \in Names, s \in Schemas : [name |-> n, schema |-> s] \in Table
    /\ \A n \in Names, s \in Schemas : [name |-> n, schema |-> s] # None
<1>1. \A n \in Names, s \in Schemas : [name |-> n, schema |-> s] \in Table
  BY DEF Table
<1>2. \A n \in Names, s \in Schemas : [name |-> n, schema |-> s] # None
  BY <1>1, NoneAssumption
<1> QED BY <1>1, <1>2, NamesAssumption, NoneAssumption, FS_CardinalityType DEF Ids

\* A page that lists each name once has no more entries than there are names.
LEMMA EntriesCounted ==
    ASSUME NEW s \in Seq(Entry), NamesOnce(s)
    PROVE  /\ DOMAIN s = 1 .. Len(s) /\ Len(s) \in Nat
           /\ \A i \in DOMAIN s : s[i] \in Entry
           /\ NamesIn(s) \subseteq Names
           /\ Cardinality(NamesIn(s)) = Len(s)
           /\ Len(s) <= Cardinality(Names)
<1>1. DOMAIN s = 1 .. Len(s) /\ Len(s) \in Nat /\ s \in [1 .. Len(s) -> Entry]
  BY LenProperties
<1>2. \A i \in DOMAIN s : s[i] \in Entry /\ s[i].name \in Names
  BY <1>1 DEF Entry
<1>3. NamesIn(s) \subseteq Names
  BY <1>2 DEF NamesIn
<1> DEFINE f == [i \in 1 .. Len(s) |-> s[i].name]
<1>4. f \in [1 .. Len(s) -> NamesIn(s)]
  BY <1>1 DEF NamesIn
<1>5. \A i, j \in 1 .. Len(s) : f[i] = f[j] => i = j
  BY <1>1 DEF NamesOnce
<1>6. \A x \in NamesIn(s) : \E i \in 1 .. Len(s) : f[i] = x
  BY <1>1 DEF NamesIn
<1> HIDE DEF f
<1>7. Cardinality(NamesIn(s)) = Len(s)
  BY <1>1, <1>4, <1>5, <1>6, NumberedSet
<1>8. Cardinality(NamesIn(s)) <= Cardinality(Names)
  BY <1>3, NamesCounted, FS_Subset
<1> QED BY <1>1, <1>2, <1>3, <1>7, <1>8

\* An entry that is appended to a page.
LEMMA EntryAdded ==
    ASSUME DbInv, NEW n \in Names, NEW s \in Schemas, NEW id \in Ids, Cataloged(n, s, id)
    PROVE  /\ catalog' \in Seq(Entry) /\ Len(catalog') = Len(catalog) + 1
           /\ Len(catalog) \in Nat /\ DOMAIN catalog = 1 .. Len(catalog)
           /\ \A i \in DOMAIN catalog : catalog[i] \in Entry /\ catalog[i].name \in Names
           /\ DOMAIN catalog' = DOMAIN catalog \cup {Len(catalog) + 1}
           /\ Len(catalog) + 1 \notin DOMAIN catalog
           /\ \A i \in DOMAIN catalog : catalog'[i] = catalog[i]
           /\ catalog'[Len(catalog) + 1] = [id |-> id, name |-> n, schema |-> s]
           /\ NamesIn(catalog') = NamesIn(catalog) \cup {n}
<1> DEFINE e == [id |-> id, name |-> n, schema |-> s]
<1>1. e \in Entry /\ catalog \in Seq(Entry)
  BY DEF Entry, DbInv, TypeOK
<1>2. catalog' = Append(catalog, e)
  BY DEF Cataloged
<1>3. e.name = n
  OBVIOUS
<1>4. Len(catalog) \in Nat /\ DOMAIN catalog = 1 .. Len(catalog)
      /\ \A i \in DOMAIN catalog : catalog[i] \in Entry /\ catalog[i].name \in Names
  BY <1>1, EntriesCounted DEF DbInv, AllInFiles, Entry
<1> HIDE DEF e
<1>5. /\ catalog' \in Seq(Entry) /\ Len(catalog') = Len(catalog) + 1
      /\ DOMAIN catalog' = DOMAIN catalog \cup {Len(catalog) + 1}
      /\ Len(catalog) + 1 \notin DOMAIN catalog
      /\ \A i \in DOMAIN catalog : catalog'[i] = catalog[i]
      /\ catalog'[Len(catalog) + 1] = e
  BY <1>1, <1>2, AppendedDomain
<1>6. NamesIn(catalog') = NamesIn(catalog) \cup {n}
  BY <1>3, <1>5 DEF NamesIn
<1> QED BY <1>4, <1>5, <1>6 DEF e

\* open_or_create_file keeps ids apart.
LEMMA FileIdHandedOut ==
    ASSUME DbInv, NEW n \in Names, NEW id \in Ids, FileId(n, id), files' = files \cup {n}
    PROVE  /\ paths' \in [Names -> Ids \cup {None}]
           /\ next_id' \in 1 .. Cardinality(Names) + 1
           /\ IdsHandedOut'
           /\ paths'[n] = id /\ \A m \in Names \ {n} : paths'[m] = paths[m]
           /\ id < next_id' /\ next_id <= next_id'
           /\ paths[n] = None => id = next_id /\ next_id' = next_id + 1
           /\ \A m \in Names \ {n} : paths[m] # id
<1>1. /\ paths \in [Names -> Ids \cup {None}] /\ next_id \in Nat /\ None \notin Ids
      /\ \A i \in Ids : i \in Nat
      /\ next_id \in 1 .. Cardinality(Names) + 1 /\ Cardinality(Names) \in Nat
      /\ Ids = 1 .. Cardinality(Names)
  BY NamesCounted DEF DbInv, TypeOK
<1>2. FilesNeverShared /\ OpenFiles \subseteq files /\ Cardinality(OpenFiles) = next_id - 1
  BY DEF DbInv, IdsHandedOut
<1>3. IsFiniteSet(OpenFiles)
  BY NamesCounted, FS_Subset DEF OpenFiles
<1>4. CASE paths[n] # None
  <2>1. id = paths[n] /\ paths' = paths /\ next_id' = next_id
    BY <1>4 DEF FileId
  <2>2. FilesNeverShared' /\ OpenFiles' = OpenFiles
    BY <1>2, <2>1 DEF FilesNeverShared, OpenFiles
  <2>3. id < next_id /\ \A m \in Names \ {n} : paths[m] # id
    BY <1>2, <1>4, <2>1 DEF FilesNeverShared
  <2> QED BY <1>1, <1>2, <1>4, <2>1, <2>2, <2>3 DEF IdsHandedOut
<1>5. CASE paths[n] = None
  <2>1. id = next_id /\ paths' = [paths EXCEPT ![n] = id] /\ next_id' = next_id + 1
    BY <1>5 DEF FileId
  <2>2. id # None /\ id \in Nat
    BY <1>1
  <2>3. \A m \in Names : paths[m] # id
    BY <1>1, <1>2, <2>1, <2>2 DEF FilesNeverShared
  <2>4. OpenFiles' = OpenFiles \cup {n} /\ n \notin OpenFiles
    BY <1>1, <1>5, <2>1, <2>2 DEF OpenFiles
  <2>5. Cardinality(OpenFiles') = Cardinality(OpenFiles) + 1
    BY <1>3, <2>4, FS_AddElement
  <2>6. FilesNeverShared'
    BY <1>1, <1>2, <2>1, <2>3 DEF FilesNeverShared
  <2> QED BY <1>1, <1>2, <2>1, <2>2, <2>3, <2>4, <2>5, <2>6 DEF IdsHandedOut
<1> QED BY <1>4, <1>5

\* The id that a file would get is always in the range of the model: no session
\* of the code is cut off by it.
IdsSuffice == \A n \in Names : paths[n] = None => next_id \in Ids

LEMMA InvGivesIds == DbInv => IdsSuffice
<1> SUFFICES ASSUME DbInv, NEW n \in Names, paths[n] = None PROVE next_id \in Ids
  BY DEF IdsSuffice
<1>1. OpenFiles \in SUBSET Names /\ OpenFiles # Names
  BY DEF OpenFiles
<1>2. Cardinality(OpenFiles) <= Cardinality(Names) /\ Cardinality(OpenFiles) # Cardinality(Names)
  BY <1>1, NamesCounted, FS_Subset
<1>3. Cardinality(OpenFiles) = next_id - 1 /\ next_id \in 1 .. Cardinality(Names) + 1
  BY DEF DbInv, IdsHandedOut, TypeOK
<1> QED BY <1>2, <1>3, NamesCounted

-----------------------------------------------------------------------------
(* Sessions. *)

LEMMA InitDb == Init => DbInv
<1> SUFFICES ASSUME Init PROVE DbInv
  OBVIOUS
<1> USE NamesCounted DEF Init
<1>1. <<>> \in Seq(Entry) /\ Len(<<>>) = 0 /\ DOMAIN <<>> = {}
  BY EmptySeq, LenProperties
<1>2. NamesIn(<<>>) = {} /\ NamesOnce(<<>>)
  BY <1>1 DEF NamesIn, NamesOnce
<1>3. TypeOK
  <2>1. 1 \in 1 .. Cardinality(Names) + 1
    OBVIOUS
  <2>2. {catalogDisk, catalog} \subseteq Seq(Entry)
    BY <1>1
  <2>3. {heapDisk, heap} \subseteq [Names -> SUBSET Row]
    OBVIOUS
  <2>4. tables \in [Ids -> Table \cup {None}]
    OBVIOUS
  <2> QED BY <2>1, <2>2, <2>3, <2>4 DEF TypeOK
<1>4. OpenFiles = {} /\ Cardinality({}) = 0
  BY FS_EmptySet DEF OpenFiles
<1>5. IdsHandedOut
  BY <1>4 DEF IdsHandedOut, FilesNeverShared
<1>6. DiskLagsBehind /\ AllInFiles /\ SessionKnowsCatalog
  BY <1>1, <1>2 DEF DiskLagsBehind, AllInFiles, SessionKnowsCatalog
<1>7. PoolReadsAsWritten /\ DenseIds /\ NothingLost
  BY <1>1 DEF PoolReadsAsWritten, DenseIds, NothingLost
<1> QED BY <1>3, <1>5, <1>6, <1>7 DEF DbInv

\* Where a name that is listed once is found.
LEMMA IndexFound ==
    ASSUME NamesOnce(catalogDisk), NEW i \in DOMAIN catalogDisk
    PROVE  IndexOf(catalogDisk[i].name) = i
BY DEF IndexOf, NamesOnce

\* The table of an id is one of the entries with that id.
LEMMA LastOfIsAnEntry ==
    ASSUME catalogDisk \in Seq(Entry), NEW order \in Orders(Len(catalogDisk)), NEW id \in Ids
    PROVE  \/ /\ LastOf(order, id) = None
              /\ \A i \in DOMAIN catalogDisk : catalogDisk[i].id # id
           \/ \E i \in DOMAIN catalogDisk :
                 /\ catalogDisk[i].id = id
                 /\ LastOf(order, id) = [name |-> catalogDisk[i].name,
                                         schema |-> catalogDisk[i].schema]
<1> DEFINE same == {i \in DOMAIN catalogDisk : catalogDisk[i].id = id}
           last == CHOOSE i \in same : \A j \in same : order[j] <= order[i]
<1>1. CASE same = {}
  BY <1>1 DEF LastOf
<1>2. CASE same # {}
  <2>1. Len(catalogDisk) \in Nat /\ DOMAIN catalogDisk = 1 .. Len(catalogDisk)
    BY LenProperties
  <2>2. \A i \in same : order[i] \in 1 .. Len(catalogDisk)
    BY <2>1 DEF Orders
  <2> HIDE DEF same
  <2>3. \E i \in same : \A j \in same : order[j] <= order[i]
    BY <1>2, <2>1, <2>2, GreatestExists
  <2>4. last \in same
    BY <2>3
  <2>5. LastOf(order, id) = [name |-> catalogDisk[last].name, schema |-> catalogDisk[last].schema]
    BY <1>2 DEF LastOf, same
  <2> HIDE DEF last
  <2> QED BY <2>4, <2>5 DEF same
<1> QED BY <1>1, <1>2

\* What a session knows when it opens the files of the catalog.
LEMMA SessionOpened ==
    ASSUME DbInv, NEW order \in Orders(Len(catalogDisk)), Open(order)
    PROVE  /\ catalogDisk = catalog /\ catalog' = catalog
           /\ catalog \in Seq(Entry) /\ Len(catalog) \in Nat
           /\ DOMAIN catalog = 1 .. Len(catalog)
           /\ \A i \in DOMAIN catalog : catalog[i] \in Entry /\ i \in Ids
           /\ NamesIn(catalog) \subseteq Names /\ files' = files
           /\ Cardinality(NamesIn(catalog)) = Len(catalog)
           /\ Len(catalog) <= Cardinality(Names)
           /\ next_id' = Len(catalog) + 1
           /\ paths' \in [Names -> (1 .. Len(catalog)) \cup {None}]
           /\ table_names' \in [Names -> Ids \cup {None}]
           /\ \A n \in Names : n \notin NamesIn(catalog) =>
                 paths'[n] = None /\ table_names'[n] = None
           /\ \A i \in DOMAIN catalog :
                 /\ catalog[i].name \in Names
                 /\ paths'[catalog[i].name] = order[i]
                 /\ table_names'[catalog[i].name] = catalog[i].id
           /\ tables' = [id \in Ids |-> LastOf(order, id)]
<1>1. catalogDisk = catalog /\ catalog' = catalog
  BY DEF Open, DbInv, DiskLagsBehind, pageVars
<1>2. catalog \in Seq(Entry) /\ NamesOnce(catalog)
  BY DEF DbInv, TypeOK, AllInFiles
<1>3. /\ DOMAIN catalog = 1 .. Len(catalog) /\ Len(catalog) \in Nat
      /\ \A i \in DOMAIN catalog : catalog[i] \in Entry
      /\ NamesIn(catalog) \subseteq Names
      /\ Cardinality(NamesIn(catalog)) = Len(catalog) /\ Len(catalog) <= Cardinality(Names)
  BY <1>2, EntriesCounted
<1>4. files' = files
  BY <1>1 DEF Open, DbInv, AllInFiles
<1>5. \A i \in DOMAIN catalog : i \in Ids /\ catalog[i].id \in Ids /\ catalog[i].name \in Names
  BY <1>3, NamesCounted DEF Entry
<1>6. \A i \in DOMAIN catalog : catalog[i].name \in NamesIn(catalog) /\ IndexOf(catalog[i].name) = i
  BY <1>1, <1>2, IndexFound DEF NamesIn
<1>7. \A n \in NamesIn(catalog) : IndexOf(n) \in DOMAIN catalog
  BY <1>6 DEF NamesIn
<1>8. order \in [1 .. Len(catalog) -> 1 .. Len(catalog)]
  BY <1>1 DEF Orders
<1>9. /\ paths' = [n \in Names |-> IF n \in NamesIn(catalog) THEN order[IndexOf(n)] ELSE None]
      /\ table_names' = [n \in Names |-> IF n \in NamesIn(catalog)
                                              THEN catalog[IndexOf(n)].id ELSE None]
      /\ tables' = [id \in Ids |-> LastOf(order, id)]
      /\ next_id' = Len(catalog) + 1
  BY <1>1 DEF Open
<1>10. /\ paths' \in [Names -> (1 .. Len(catalog)) \cup {None}]
       /\ table_names' \in [Names -> Ids \cup {None}]
  BY <1>3, <1>5, <1>7, <1>8, <1>9
<1>11. \A n \in Names : n \notin NamesIn(catalog) => paths'[n] = None /\ table_names'[n] = None
  BY <1>9
<1>12. \A i \in DOMAIN catalog : /\ paths'[catalog[i].name] = order[i]
                                 /\ table_names'[catalog[i].name] = catalog[i].id
  BY <1>5, <1>6, <1>9
<1> QED BY <1>1, <1>2, <1>3, <1>4, <1>5, <1>9, <1>10, <1>11, <1>12

LEMMA OpenKeepsInv ==
    ASSUME DbInv, NEW order \in Orders(Len(catalogDisk)), Open(order)
    PROVE  DbInv'
<1>1. /\ catalogDisk = catalog /\ catalog' = catalog
      /\ catalog \in Seq(Entry) /\ Len(catalog) \in Nat
      /\ DOMAIN catalog = 1 .. Len(catalog)
      /\ \A i \in DOMAIN catalog : catalog[i] \in Entry /\ i \in Ids
      /\ NamesIn(catalog) \subseteq Names /\ files' = files
      /\ Cardinality(NamesIn(catalog)) = Len(catalog)
      /\ Len(catalog) <= Cardinality(Names)
      /\ next_id' = Len(catalog) + 1
      /\ paths' \in [Names -> (1 .. Len(catalog)) \cup {None}]
      /\ table_names' \in [Names -> Ids \cup {None}]
      /\ \A n \in Names : n \notin NamesIn(catalog) => paths'[n] = None /\ table_names'[n] = None
      /\ \A i \in DOMAIN catalog :
            /\ catalog[i].name \in Names
            /\ paths'[catalog[i].name] = order[i]
            /\ table_names'[catalog[i].name] = catalog[i].id
      /\ tables' = [id \in Ids |-> LastOf(order, id)]
  BY SessionOpened
<1>2. /\ running' = TRUE /\ mode' = mode /\ listed' = NamesIn(catalog)
      /\ UNCHANGED <<catalogDisk, heapDisk, heap>>
  BY <1>1 DEF Open, pageVars
<1>3. \A i \in DOMAIN catalog : /\ catalog[i].id \in Ids /\ catalog[i].name \in Names
                                /\ catalog[i].schema \in Schemas
                                /\ catalog[i].name \in NamesIn(catalog)
  BY <1>1 DEF Entry, NamesIn
<1>4. \A id \in Ids :
         \/ /\ tables'[id] = None
            /\ \A i \in DOMAIN catalog : catalog[i].id # id
         \/ \E i \in DOMAIN catalog :
               /\ catalog[i].id = id
               /\ tables'[id] = [name |-> catalog[i].name, schema |-> catalog[i].schema]
  BY <1>1, LastOfIsAnEntry
<1>n. \A n \in NamesIn(catalog) : \E i \in DOMAIN catalog : n = catalog[i].name
  BY DEF NamesIn
<1>t. ASSUME NEW id \in Ids, tables'[id] # None
      PROVE  \E i \in DOMAIN catalog : /\ catalog[i].id = id /\ tables'[id] \in Table
                                       /\ tables'[id].name = catalog[i].name
                                       /\ tables'[id].schema = catalog[i].schema
  <2>1. PICK i \in DOMAIN catalog :
           /\ catalog[i].id = id
           /\ tables'[id] = [name |-> catalog[i].name, schema |-> catalog[i].schema]
    BY <1>4, <1>t
  <2>2. tables'[id] \in Table
    BY <1>3, <2>1 DEF Table
  <2> QED BY <2>1, <2>2
<1>5. TypeOK'
  <2>1. \A id \in Ids : tables'[id] \in Table \cup {None}
    BY <1>t
  <2>2. tables' \in [Ids -> Table \cup {None}]
    BY <1>1, <2>1
  <2>3. paths' \in [Names -> Ids \cup {None}]
    BY <1>1, NamesCounted
  <2>4. next_id' \in 1 .. Cardinality(Names) + 1
    BY <1>1, NamesCounted
  <2> QED BY <1>1, <1>2, <2>2, <2>3, <2>4 DEF DbInv, TypeOK
<1>6. IdsHandedOut'
  <2>1. \A i \in DOMAIN catalog : order[i] \in 1 .. Len(catalog)
    BY <1>1 DEF Orders
  <2>2. \A i, j \in DOMAIN catalog : order[i] = order[j] => i = j
    BY <1>1 DEF Orders
  <2>3. \A i \in 1 .. Len(catalog) : i # None /\ i < next_id'
    BY <1>1, NamesCounted
  <2>5. OpenFiles' = NamesIn(catalog)
    BY <1>1, <1>n, <2>1, <2>3 DEF OpenFiles
  <2>6. FilesNeverShared'
    <3>1. ASSUME NEW m \in Names, NEW n \in Names, m # n, paths'[m] # None
          PROVE  paths'[m] # paths'[n]
      <4>1. PICK i \in DOMAIN catalog : m = catalog[i].name
        BY <1>1, <1>n, <3>1
      <4>2. CASE n \notin NamesIn(catalog)
        BY <1>1, <3>1, <4>2
      <4>3. CASE n \in NamesIn(catalog)
        <5>1. PICK j \in DOMAIN catalog : n = catalog[j].name
          BY <1>n, <4>3
        <5> QED BY <1>1, <2>2, <3>1, <4>1, <5>1
      <4> QED BY <4>2, <4>3
    <3>2. \A n \in Names : paths'[n] # None => paths'[n] < next_id'
      BY <1>1, <2>3
    <3> QED BY <3>1, <3>2 DEF FilesNeverShared
  <2>7. NamesIn(catalog) \subseteq files
    BY DEF DbInv, AllInFiles
  <2> QED BY <1>1, <2>5, <2>6, <2>7 DEF IdsHandedOut
<1>7. DiskLagsBehind'
  BY <1>1, <1>2 DEF DbInv, DiskLagsBehind
<1>8. AllInFiles'
  <2>1. \A id \in Ids : tables'[id] # None => tables'[id].name \in NamesIn(catalog)
    BY <1>3, <1>t
  <2> QED BY <1>1, <1>2, <2>1 DEF DbInv, AllInFiles
<1>9. SessionKnowsCatalog'
  <2>1. \A n \in NamesIn(catalog) : table_names'[n] # None
    BY <1>1, <1>3, NamesCounted DEF NamesIn
  <2> QED BY <1>1, <1>2, <2>1 DEF SessionKnowsCatalog
<1>10. PoolReadsAsWritten'
  <2>1. \A i \in DOMAIN catalog : \A w \in heap[catalog[i].name] : w.schema = catalog[i].schema
    BY DEF DbInv, PoolReadsAsWritten
  <2>2. ASSUME NEW i \in DOMAIN catalog, NEW id \in Ids, tables'[id] # None,
               tables'[id].name = catalog[i].name
        PROVE  tables'[id].schema = catalog[i].schema
    <3>1. PICK j \in DOMAIN catalog :
             tables'[id] = [name |-> catalog[j].name, schema |-> catalog[j].schema]
      BY <1>4, <2>2
    <3>2. i = j
      BY <2>2, <3>1 DEF DbInv, AllInFiles, NamesOnce
    <3> QED BY <3>1, <3>2
  <2> QED BY <1>1, <1>2, <2>1, <2>2 DEF PoolReadsAsWritten
<1>11. ASSUME \A i \in DOMAIN catalog : catalog[i].id = i
       PROVE  /\ \A i \in DOMAIN catalog : /\ table_names'[catalog[i].name] = i
                                           /\ tables'[i] = [name |-> catalog[i].name,
                                                            schema |-> catalog[i].schema]
              /\ DenseIds'
  <2>1. \A i \in DOMAIN catalog :
           /\ table_names'[catalog[i].name] = i
           /\ tables'[i] = [name |-> catalog[i].name, schema |-> catalog[i].schema]
    BY <1>1, <1>4, <1>11
  <2>2. \A n \in Names : table_names'[n] # None =>
           \E i \in DOMAIN catalog : n = catalog[i].name /\ table_names'[n] = i
    <3> TAKE n \in Names
    <3> HAVE table_names'[n] # None
    <3>1. n \in NamesIn(catalog)
      BY <1>1
    <3>2. PICK i \in DOMAIN catalog : n = catalog[i].name
      BY <1>n, <3>1
    <3> QED BY <2>1, <3>2
  <2>3. \A m, n \in Names : table_names'[m] # None /\ table_names'[m] = table_names'[n] => m = n
    BY <2>2
  <2>4. \A n \in Names : table_names'[n] # None => table_names'[n] < next_id'
    BY <1>1, <2>2
  <2>5. \A n \in Names : paths'[n] # None => table_names'[n] # None
    <3>1. \A i \in DOMAIN catalog : i # None
      BY <1>1, NamesCounted
    <3> TAKE n \in Names
    <3> HAVE paths'[n] # None
    <3>2. n \in NamesIn(catalog)
      BY <1>1
    <3>3. PICK i \in DOMAIN catalog : n = catalog[i].name
      BY <1>n, <3>2
    <3> QED BY <2>1, <3>1, <3>3
  <2>6. \A id \in Ids : tables'[id] # None => table_names'[tables'[id].name] = id
    <3> TAKE id \in Ids
    <3> HAVE tables'[id] # None
    <3>1. PICK i \in DOMAIN catalog : catalog[i].id = id /\ tables'[id].name = catalog[i].name
      BY <1>t
    <3> QED BY <1>11, <2>1, <3>1, ZenonT(40)
  <2> QED BY <2>1, <2>3, <2>4, <2>5, <2>6 DEF DenseIds
<1>12. DenseIds'
  <2>1. CASE \A i \in DOMAIN catalog : catalog[i].id = i
    BY <1>11, <2>1
  <2>2. CASE ~ \A i \in DOMAIN catalog : catalog[i].id = i
    BY <1>1, <2>2 DEF DenseIds
  <2> QED BY <2>1, <2>2
<1>13. NothingLost'
  <2>1. SUFFICES ASSUME mode = "Tame" PROVE NothingLost'
    BY <1>2 DEF NothingLost
  <2>2. files \subseteq NamesIn(catalog) /\ \A i \in DOMAIN catalog : catalog[i].id = i
    BY <2>1 DEF DbInv, NothingLost
  <2> QED BY <1>1, <1>2, <1>11, <2>2 DEF NothingLost
<1> QED BY <1>5, <1>6, <1>7, <1>8, <1>9, <1>10, <1>12, <1>13 DEF DbInv

\* A session that ends, with the pages of the pool written back or not.
LEMMA EndKeepsInv == ASSUME DbInv, Drop \/ Kill PROVE DbInv'
<1>1. /\ mode' = mode /\ files' = files /\ running' = FALSE /\ listed' = {}
      /\ catalog' = catalogDisk' /\ heap' = heapDisk' /\ next_id' = 1
      /\ paths' = [n \in Names |-> None] /\ table_names' = [n \in Names |-> None]
      /\ tables' = [i \in Ids |-> None]
  BY DEF Drop, Kill, SessionEnds, diskVars
<1>2. /\ catalogDisk \in Seq(Entry) /\ catalog \in Seq(Entry)
      /\ heapDisk \in [Names -> SUBSET Row] /\ heap \in [Names -> SUBSET Row]
  BY DEF DbInv, TypeOK
<1>3. catalog' \in Seq(Entry) /\ heap' \in [Names -> SUBSET Row]
  BY <1>1, <1>2 DEF Drop, Kill, diskVars
<1>4. /\ DOMAIN catalog' \subseteq DOMAIN catalog
      /\ \A i \in DOMAIN catalog' : catalog'[i] = catalog[i]
      /\ \A n \in Names : heap'[n] \subseteq heap[n]
      /\ mode = "Tame" => catalog' = catalog
  <2>1. CASE Drop
    BY <1>1, <2>1 DEF Drop
  <2>2. CASE Kill
    <3>1. catalog' = catalogDisk /\ heap' = heapDisk /\ mode # "Tame"
      BY <1>1, <2>2 DEF Kill, diskVars
    <3>2. DOMAIN catalogDisk = 1 .. Len(catalogDisk) /\ DOMAIN catalog = 1 .. Len(catalog)
          /\ Len(catalogDisk) \in Nat /\ Len(catalog) \in Nat
      BY <1>2, LenProperties
    <3>3. DiskLagsBehind
      BY DEF DbInv
    <3> QED BY <3>1, <3>2, <3>3 DEF DiskLagsBehind
  <2> QED BY <2>1, <2>2
<1>5. TypeOK'
  <2>1. next_id' \in 1 .. Cardinality(Names) + 1
    BY <1>1, NamesCounted
  <2> QED BY <1>1, <1>3, <2>1 DEF DbInv, TypeOK
<1>6. IdsHandedOut'
  <2>1. OpenFiles' = {}
    BY <1>1 DEF OpenFiles
  <2>2. Cardinality({}) = 0
    BY FS_EmptySet
  <2> QED BY <1>1, <2>1, <2>2 DEF IdsHandedOut, FilesNeverShared
<1>7. DiskLagsBehind'
  <2>1. Len(catalog') \in Nat
    BY <1>3, LenProperties
  <2> QED BY <1>1, <2>1 DEF DiskLagsBehind
<1>8. AllInFiles'
  <2>1. NamesOnce(catalog') /\ NamesIn(catalog') \subseteq NamesIn(catalog)
    BY <1>4 DEF NamesOnce, NamesIn, DbInv, AllInFiles
  <2> QED BY <1>1, <1>4, <2>1 DEF DbInv, AllInFiles
<1>9. SessionKnowsCatalog'
  BY <1>1 DEF SessionKnowsCatalog
<1>10. PoolReadsAsWritten'
  <2>1. \A i \in DOMAIN catalog : catalog[i].name \in Names
    BY <1>2, EntriesCounted DEF DbInv, AllInFiles, Entry
  <2> QED BY <1>1, <1>4, <2>1 DEF DbInv, PoolReadsAsWritten
<1>11. DenseIds'
  BY <1>1 DEF DenseIds
<1>12. NothingLost'
  BY <1>1, <1>4 DEF DbInv, NothingLost
<1> QED BY <1>5, <1>6, <1>7, <1>8, <1>9, <1>10, <1>11, <1>12 DEF DbInv

-----------------------------------------------------------------------------
(* create_table. *)

\* A name that becomes known takes an id that no name stands for, as far as the
\* ids in the catalog have no gap.
LEMMA NewNamesKeepDense ==
    ASSUME DbInv, NEW n \in Names, NEW id \in Ids, Unknown(n), FileId(n, id),
           files' = files \cup {n}, table_names' = [table_names EXCEPT ![n] = id],
           tables' = tables
              \/ \E s \in Schemas : tables' = [tables EXCEPT ![id] = [name |-> n, schema |-> s]],
           \A i \in DOMAIN catalog : i \in DOMAIN catalog' /\ catalog'[i] = catalog[i]
    PROVE  DenseIds'
<1>1. SUFFICES ASSUME \A i \in DOMAIN catalog : catalog[i].id = i
               PROVE  DenseIds'
  BY DEF DenseIds
<1>2. /\ \A k, m \in Names : table_names[k] # None /\ table_names[k] = table_names[m] => k = m
      /\ \A m \in Names : table_names[m] # None => table_names[m] < next_id
      /\ \A m \in Names : paths[m] # None /\ table_names[m] = None
            => \A k \in Names : table_names[k] # paths[m]
      /\ \A i \in Ids : tables[i] # None => table_names[tables[i].name] = i
  BY <1>1 DEF DbInv, DenseIds
<1>3. /\ table_names \in [Names -> Ids \cup {None}] /\ tables \in [Ids -> Table \cup {None}]
      /\ table_names[n] = None /\ None \notin Ids /\ next_id \in Nat /\ \A i \in Ids : i \in Nat
      /\ \A t \in Table : t.name \in Names
  BY NamesCounted DEF DbInv, TypeOK, Unknown, Table
<1>4. /\ paths'[n] = id /\ \A m \in Names \ {n} : paths'[m] = paths[m]
      /\ id < next_id' /\ next_id <= next_id' /\ next_id' \in Nat
      /\ paths[n] = None => id = next_id
      /\ \A m \in Names \ {n} : paths[m] # id
  BY FileIdHandedOut, NamesCounted
<1>5. \A m \in Names : table_names[m] # id
  <2>1. CASE paths[n] = None
    BY <1>2, <1>3, <1>4, <2>1
  <2>2. CASE paths[n] # None
    BY <1>2, <1>3, <2>2 DEF FileId
  <2> QED BY <2>1, <2>2
<1>6. table_names'[n] = id /\ \A m \in Names \ {n} : table_names'[m] = table_names[m]
  BY <1>3
<1>7. \A k, m \in Names : table_names'[k] # None /\ table_names'[k] = table_names'[m] => k = m
  BY <1>2, <1>5, <1>6
<1>8. \A m \in Names : table_names'[m] # None => table_names'[m] < next_id'
  BY <1>2, <1>3, <1>4, <1>6
<1>9. ASSUME NEW m \in Names, paths'[m] # None, table_names'[m] = None, NEW k \in Names
      PROVE  table_names'[k] # paths'[m]
  <2>1. m # n /\ paths'[m] = paths[m] /\ table_names[m] = None
    BY <1>3, <1>4, <1>6, <1>9
  <2>2. CASE k = n
    BY <1>4, <1>6, <2>1, <2>2
  <2>3. CASE k # n
    BY <1>2, <1>6, <1>9, <2>1, <2>3
  <2> QED BY <2>2, <2>3
<1>10. ASSUME NEW i \in Ids, tables'[i] # None PROVE table_names'[tables'[i].name] = i
  <2>1. CASE tables'[i] = tables[i]
    <3>1. tables[i].name \in Names /\ table_names[tables[i].name] = i
      BY <1>2, <1>3, <1>10, <2>1
    <3>2. tables[i].name # n
      BY <1>3, <3>1
    <3> QED BY <1>6, <2>1, <3>1, <3>2
  <2>2. CASE tables'[i] # tables[i]
    <3>1. PICK s \in Schemas : tables' = [tables EXCEPT ![id] = [name |-> n, schema |-> s]]
      BY <2>2
    <3>2. i = id /\ tables'[i] = [name |-> n, schema |-> s]
      BY <1>3, <2>2, <3>1
    <3> QED BY <1>6, <3>2
  <2> QED BY <2>1, <2>2
<1> QED BY <1>7, <1>8, <1>9, <1>10 DEF DenseIds

LEMMA FromFileKeepsInv ==
    ASSUME DbInv, NEW n \in Names, NEW s \in Schemas, CreateTableFromFile(n, s)
    PROVE  DbInv'
<1>1. PICK id \in Ids : FileId(n, id) /\ Register(n, s, id)
  BY DEF CreateTableFromFile
<1>2. /\ UNCHANGED <<mode, files, catalogDisk, heapDisk, running, catalog, heap, listed>>
      /\ Unknown(n) /\ n \in files /\ files' = files \cup {n}
  BY DEF CreateTableFromFile, diskVars, pageVars
<1>3. /\ paths' \in [Names -> Ids \cup {None}] /\ next_id' \in 1 .. Cardinality(Names) + 1
      /\ IdsHandedOut'
  BY <1>1, <1>2, FileIdHandedOut
<1>4. /\ table_names' = [table_names EXCEPT ![n] = id]
      /\ tables' = [tables EXCEPT ![id] = [name |-> n, schema |-> s]]
      /\ table_names \in [Names -> Ids \cup {None}] /\ tables \in [Ids -> Table \cup {None}]
      /\ None \notin Ids /\ [name |-> n, schema |-> s] \in Table
  BY <1>1, NamesCounted DEF Register, DbInv, TypeOK
<1>5. TypeOK'
  BY <1>2, <1>3, <1>4 DEF DbInv, TypeOK
<1>6. DiskLagsBehind'
  BY <1>2 DEF DbInv, DiskLagsBehind
<1>7. AllInFiles'
  BY <1>2, <1>4 DEF DbInv, AllInFiles
<1>8. SessionKnowsCatalog'
  <2>1. NamesIn(catalog) \subseteq Names
    BY EntriesCounted DEF DbInv, TypeOK, AllInFiles
  <2> QED BY <1>2, <1>4, <2>1 DEF DbInv, SessionKnowsCatalog, Unknown
<1>9. n \notin NamesIn(catalog)
  BY <1>2 DEF DbInv, SessionKnowsCatalog, Unknown
<1>10. PoolReadsAsWritten'
  <2>1. \A i \in DOMAIN catalog : catalog[i].name # n
    BY <1>9 DEF NamesIn
  <2> QED BY <1>2, <1>4, <2>1 DEF DbInv, PoolReadsAsWritten
<1>11. DenseIds'
  BY <1>1, <1>2, <1>4, NewNamesKeepDense
<1>12. NothingLost'
  BY <1>2, <1>9 DEF DbInv, NothingLost
<1> QED BY <1>3, <1>5, <1>6, <1>7, <1>8, <1>10, <1>11, <1>12 DEF DbInv

LEMMA CatalogFullKeepsInv ==
    ASSUME DbInv, NEW n \in Names, CreateTableCatalogFull(n)
    PROVE  DbInv'
<1>1. PICK id \in Ids : FileId(n, id)
  BY DEF CreateTableCatalogFull
<1>2. /\ UNCHANGED <<mode, catalogDisk, heapDisk, running, catalog, heap, table_names, tables>>
      /\ Unknown(n) /\ files' = files \cup {n} /\ listed' = listed \cup {n} /\ mode = "Killed"
  BY DEF CreateTableCatalogFull, pageVars
<1>3. /\ paths' \in [Names -> Ids \cup {None}] /\ next_id' \in 1 .. Cardinality(Names) + 1
      /\ IdsHandedOut'
      /\ paths'[n] = id /\ \A m \in Names \ {n} : paths'[m] = paths[m]
      /\ next_id <= next_id' /\ (paths[n] = None => id = next_id)
  BY <1>1, <1>2, FileIdHandedOut
<1>4. TypeOK'
  BY <1>2, <1>3 DEF DbInv, TypeOK
<1>5. DiskLagsBehind' /\ PoolReadsAsWritten'
  BY <1>2 DEF DbInv, DiskLagsBehind, PoolReadsAsWritten
<1>6. AllInFiles' /\ NothingLost'
  BY <1>2 DEF DbInv, AllInFiles, NothingLost
<1>7. SessionKnowsCatalog'
  BY <1>2 DEF DbInv, SessionKnowsCatalog, Unknown
<1>8. DenseIds'
  <2>1. SUFFICES ASSUME \A i \in DOMAIN catalog : catalog[i].id = i
                 PROVE  DenseIds'
    BY <1>2 DEF DenseIds
  <2>2. /\ \A m \in Names : table_names[m] # None => table_names[m] < next_id
        /\ \A m \in Names : paths[m] # None /\ table_names[m] = None
              => \A k \in Names : table_names[k] # paths[m]
    BY <2>1 DEF DbInv, DenseIds
  <2>3. /\ table_names \in [Names -> Ids \cup {None}] /\ None \notin Ids /\ next_id \in Nat
        /\ next_id' \in Nat /\ \A i \in Ids : i \in Nat
    BY <1>3, NamesCounted DEF DbInv, TypeOK
  <2>4. \A m \in Names : table_names[m] # None => table_names[m] < next_id'
    BY <1>3, <2>2, <2>3
  <2>5. \A k \in Names : table_names[k] # id
    <3>1. CASE paths[n] = None
      BY <1>3, <2>2, <2>3, <3>1
    <3>2. CASE paths[n] # None
      BY <1>1, <1>2, <2>2, <3>2 DEF FileId, Unknown
    <3> QED BY <3>1, <3>2
  <2>6. \A m \in Names : paths'[m] # None /\ table_names[m] = None
           => \A k \in Names : table_names[k] # paths'[m]
    BY <1>3, <2>2, <2>5
  <2> QED BY <1>2, <2>1, <2>4, <2>6 DEF DbInv, DenseIds
<1> QED BY <1>3, <1>4, <1>5, <1>6, <1>7, <1>8 DEF DbInv

\* A table in a new file, formatted or not.
LEMMA CreateKeepsInv ==
    ASSUME DbInv, NEW n \in Names, NEW s \in Schemas,
           CreateTable(n, s) \/ CreateTableFormatFails(n, s)
    PROVE  DbInv'
<1>1. PICK id \in Ids :
         /\ FileId(n, id) /\ Cataloged(n, s, id)
         /\ table_names' = [table_names EXCEPT ![n] = id]
         /\ \/ tables' = [tables EXCEPT ![id] = [name |-> n, schema |-> s]]
            \/ mode # "Tame" /\ tables' = tables
  BY DEF CreateTable, CreateTableFormatFails, Register
<1>2. /\ UNCHANGED <<mode, catalogDisk, heapDisk, running, heap>>
      /\ Unknown(n) /\ n \notin files /\ files' = files \cup {n} /\ listed' = listed \cup {n}
  BY DEF CreateTable, CreateTableFormatFails
<1>3. /\ paths' \in [Names -> Ids \cup {None}] /\ next_id' \in 1 .. Cardinality(Names) + 1
      /\ IdsHandedOut'
      /\ paths[n] = None => id = next_id /\ next_id' = next_id + 1
  BY <1>1, <1>2, FileIdHandedOut
<1>4. paths[n] = None
  BY <1>2 DEF DbInv, IdsHandedOut, OpenFiles
<1>5. /\ catalog' \in Seq(Entry) /\ Len(catalog') = Len(catalog) + 1
      /\ Len(catalog) \in Nat /\ DOMAIN catalog = 1 .. Len(catalog)
      /\ \A i \in DOMAIN catalog : catalog[i] \in Entry /\ catalog[i].name \in Names
      /\ DOMAIN catalog' = DOMAIN catalog \cup {Len(catalog) + 1}
      /\ Len(catalog) + 1 \notin DOMAIN catalog
      /\ \A i \in DOMAIN catalog : catalog'[i] = catalog[i]
      /\ catalog'[Len(catalog) + 1] = [id |-> id, name |-> n, schema |-> s]
      /\ NamesIn(catalog') = NamesIn(catalog) \cup {n}
  BY <1>1, EntryAdded
<1>6. /\ table_names \in [Names -> Ids \cup {None}] /\ tables \in [Ids -> Table \cup {None}]
      /\ None \notin Ids /\ [name |-> n, schema |-> s] \in Table
      /\ catalogDisk \in Seq(Entry)
  BY NamesCounted DEF DbInv, TypeOK
<1>7. /\ table_names' \in [Names -> Ids \cup {None}] /\ tables' \in [Ids -> Table \cup {None}]
      /\ table_names'[n] = id /\ \A m \in Names \ {n} : table_names'[m] = table_names[m]
      /\ \A i \in Ids : tables'[i] = tables[i] \/ tables'[i] = [name |-> n, schema |-> s]
  BY <1>1, <1>6
<1>8. TypeOK'
  BY <1>2, <1>3, <1>5, <1>6, <1>7 DEF DbInv, TypeOK
<1>9. /\ n \notin NamesIn(catalog) /\ heap[n] = {}
      /\ \A i \in DOMAIN catalog : catalog[i].name # n
      /\ \A i \in Ids : tables[i] # None => tables[i].name # n
  BY <1>2 DEF DbInv, AllInFiles, NamesIn
<1>10. DiskLagsBehind'
  <2>1. Len(catalogDisk) \in Nat /\ DOMAIN catalogDisk = 1 .. Len(catalogDisk)
    BY <1>6, LenProperties
  <2>2. DOMAIN catalogDisk \subseteq DOMAIN catalog /\ running
    BY <1>2, <1>5, <2>1 DEF DbInv, DiskLagsBehind, Unknown
  <2> QED BY <1>2, <1>5, <2>1, <2>2 DEF DbInv, DiskLagsBehind
<1>11. AllInFiles'
  <2>1. NamesOnce(catalog')
    BY <1>5, <1>9 DEF DbInv, AllInFiles, NamesOnce
  <2>2. NamesIn(catalog') \subseteq files'
    BY <1>2, <1>5 DEF DbInv, AllInFiles
  <2>3. \A i \in Ids : tables'[i] # None => tables'[i].name \in files'
    BY <1>2, <1>7 DEF DbInv, AllInFiles
  <2> QED BY <1>2, <2>1, <2>2, <2>3 DEF DbInv, AllInFiles
<1>12. SessionKnowsCatalog'
  <2>1. NamesIn(catalog) \subseteq Names
    BY <1>5 DEF NamesIn
  <2> QED BY <1>2, <1>5, <1>6, <1>7, <2>1 DEF DbInv, SessionKnowsCatalog, Unknown
<1>13. PoolReadsAsWritten'
  <2>1. ASSUME NEW i \in DOMAIN catalog
        PROVE  /\ \A w \in heap[catalog[i].name] : w.schema = catalog[i].schema
               /\ \A j \in Ids : tables'[j] # None /\ tables'[j].name = catalog[i].name
                     => tables'[j].schema = catalog[i].schema
    BY <1>7, <1>9 DEF DbInv, PoolReadsAsWritten
  <2>2. ASSUME NEW j \in Ids, tables'[j] # None, tables'[j].name = n
        PROVE  tables'[j].schema = s
    <3>1. tables[j] # None => tables[j].name # n
      BY <1>9
    <3>2. tables'[j] # tables[j]
      BY <2>2, <3>1, Zenon
    <3>3. tables'[j] = [name |-> n, schema |-> s]
      BY <1>7, <3>2
    <3> QED BY <3>3
  <2>3. catalog'[Len(catalog) + 1].name = n /\ catalog'[Len(catalog) + 1].schema = s
    BY <1>5
  <2>4. ASSUME NEW i \in DOMAIN catalog'
        PROVE  /\ \A w \in heap[catalog'[i].name] : w.schema = catalog'[i].schema
               /\ \A j \in Ids : tables'[j] # None /\ tables'[j].name = catalog'[i].name
                     => tables'[j].schema = catalog'[i].schema
    <3>1. CASE i \in DOMAIN catalog
      BY <1>5, <2>1, <3>1
    <3>2. CASE i = Len(catalog) + 1
      <4>1. catalog'[i].name = n /\ catalog'[i].schema = s
        BY <2>3, <3>2
      <4>2. \A j \in Ids : tables'[j] # None /\ tables'[j].name = n => tables'[j].schema = s
        BY <2>2
      <4>3. \A w \in heap[n] : w.schema = s
        BY <1>9
      <4> QED BY <4>1, <4>2, <4>3, Zenon
    <3> QED BY <1>5, <3>1, <3>2
  <2> QED BY <1>2, <2>4 DEF PoolReadsAsWritten
<1>14. DenseIds'
  BY <1>1, <1>2, <1>5, NewNamesKeepDense
<1>15. NothingLost'
  <2>1. SUFFICES ASSUME mode = "Tame" PROVE NothingLost'
    BY <1>2 DEF NothingLost
  <2>2. running /\ running'
    BY <1>2 DEF Unknown
  <2>3. /\ files \subseteq NamesIn(catalog)
        /\ \A i \in DOMAIN catalog : catalog[i].id = i
        /\ \A m \in Names : table_names[m] # None => m \in NamesIn(catalog)
        /\ next_id = Len(catalog) + 1
        /\ \A i \in DOMAIN catalog :
              /\ table_names[catalog[i].name] = i
              /\ tables[i] = [name |-> catalog[i].name, schema |-> catalog[i].schema]
    BY <2>1, <2>2 DEF DbInv, NothingLost
  <2>4. id = Len(catalog) + 1 /\ next_id' = Len(catalog') + 1
    BY <1>3, <1>4, <1>5, <2>3
  <2>5. tables'[id] = [name |-> n, schema |-> s]
    BY <1>1, <1>6, <2>1
  <2>6. \A i \in DOMAIN catalog : i \in Ids /\ i # id /\ tables'[i] = tables[i]
    <3>1. \A i \in DOMAIN catalog : i \in Ids
      BY <1>5, <2>3 DEF Entry
    <3> QED BY <1>1, <1>5, <1>6, <2>4, <3>1
  <2>7. \A i \in DOMAIN catalog :
           /\ table_names'[catalog[i].name] = i
           /\ tables'[i] = [name |-> catalog[i].name, schema |-> catalog[i].schema]
    BY <1>5, <1>7, <1>9, <2>3, <2>6
  <2>8. files' \subseteq NamesIn(catalog')
        /\ \A m \in Names : table_names'[m] # None => m \in NamesIn(catalog')
    BY <1>2, <1>5, <1>7, <2>3
  <2>9. \A i \in DOMAIN catalog' :
           /\ catalog'[i].id = i /\ table_names'[catalog'[i].name] = i
           /\ tables'[i] = [name |-> catalog'[i].name, schema |-> catalog'[i].schema]
    <3> TAKE i \in DOMAIN catalog'
    <3>1. CASE i \in DOMAIN catalog
      BY <1>5, <2>3, <2>7, <3>1
    <3>2. CASE i = Len(catalog) + 1
      BY <1>5, <1>7, <2>4, <2>5, <3>2
    <3> QED BY <1>5, <3>1, <3>2
  <2> QED BY <2>4, <2>8, <2>9 DEF NothingLost
<1> QED BY <1>3, <1>8, <1>10, <1>11, <1>12, <1>13, <1>14, <1>15 DEF DbInv

-----------------------------------------------------------------------------
(* Statements and write-backs. *)

\* The table a name stands for.
LEMMA TableFound ==
    ASSUME DbInv, NEW n \in Names, get_table(n) # None
    PROVE  /\ table_names[n] \in Ids /\ get_table(n) = tables[table_names[n]]
           /\ get_table(n) \in Table
           /\ get_table(n).name \in Names /\ get_table(n).name \in files
           /\ get_table(n).schema \in Schemas
<1>1. /\ table_names[n] \in Ids /\ tables[table_names[n]] \in Table \cup {None}
      /\ get_table(n) = tables[table_names[n]]
  BY DEF get_table, DbInv, TypeOK
<1> QED BY <1>1 DEF DbInv, AllInFiles, Table

LEMMA InsertKeepsInv ==
    ASSUME DbInv, NEW n \in Names, NEW r \in Rows, Insert(n, r)
    PROVE  DbInv'
<1> DEFINE table == get_table(n)
           row   == [row |-> r, schema |-> table.schema]
<1>1. /\ UNCHANGED <<mode, files, catalogDisk, heapDisk, running, catalog, listed, paths,
                     next_id, table_names, tables>>
      /\ running /\ heap' = [heap EXCEPT ![table.name] = @ \cup {row}]
  BY DEF Insert, diskVars, sessionVars
<1>2. /\ table_names[n] \in Ids /\ table = tables[table_names[n]] /\ table # None
      /\ table.name \in Names /\ table.name \in files /\ table.schema \in Schemas
  BY TableFound DEF Insert
<1>3. row \in Row /\ row.schema = table.schema /\ heap \in [Names -> SUBSET Row]
  BY <1>2 DEF Row, DbInv, TypeOK
<1> HIDE DEF table, row
<1>4. /\ heap' \in [Names -> SUBSET Row]
      /\ heap'[table.name] = heap[table.name] \cup {row}
      /\ \A m \in Names \ {table.name} : heap'[m] = heap[m]
  BY <1>1, <1>2, <1>3
<1>5. TypeOK'
  BY <1>1, <1>4 DEF DbInv, TypeOK
<1>6. IdsHandedOut' /\ SessionKnowsCatalog' /\ DenseIds' /\ NothingLost'
  BY <1>1 DEF DbInv, IdsHandedOut, OpenFiles, FilesNeverShared, SessionKnowsCatalog, DenseIds,
              NothingLost
<1>7. DiskLagsBehind'
  BY <1>1, <1>2, <1>4 DEF DbInv, DiskLagsBehind
<1>8. AllInFiles'
  BY <1>1, <1>2, <1>4 DEF DbInv, AllInFiles
<1>9. PoolReadsAsWritten'
  <2>1. ASSUME NEW i \in DOMAIN catalog, NEW w \in heap'[catalog[i].name]
        PROVE  w.schema = catalog[i].schema
    <3>1. catalog[i].name \in Names
      BY EntriesCounted DEF DbInv, TypeOK, AllInFiles, Entry
    <3>2. CASE w \in heap[catalog[i].name]
      BY <3>2 DEF DbInv, PoolReadsAsWritten
    <3>3. CASE w \notin heap[catalog[i].name]
      <4>1. catalog[i].name = table.name /\ w = row
        BY <1>4, <2>1, <3>1, <3>3
      <4>2. table.schema = catalog[i].schema
        BY <1>2, <4>1 DEF DbInv, PoolReadsAsWritten
      <4> QED BY <1>3, <4>1, <4>2
    <3> QED BY <3>2, <3>3
  <2> QED BY <1>1, <2>1 DEF DbInv, PoolReadsAsWritten
<1> QED BY <1>5, <1>6, <1>7, <1>8, <1>9 DEF DbInv

LEMMA WriteBackKeepsInv ==
    ASSUME DbInv, WriteBackCatalog \/ \E n \in Names : WriteBackHeap(n)
    PROVE  DbInv'
<1>1. /\ UNCHANGED <<mode, files, running, catalog, heap, listed, paths, next_id, table_names,
                     tables>>
      /\ running
  BY DEF WriteBackCatalog, WriteBackHeap, pageVars, sessionVars
<1>2. /\ catalog \in Seq(Entry) /\ heap \in [Names -> SUBSET Row]
      /\ catalogDisk \in Seq(Entry) /\ heapDisk \in [Names -> SUBSET Row]
  BY DEF DbInv, TypeOK
<1>3. CASE WriteBackCatalog
  <2>1. catalogDisk' = catalog /\ heapDisk' = heapDisk /\ Len(catalog) \in Nat
    BY <1>2, <1>3, LenProperties DEF WriteBackCatalog
  <2>2. TypeOK' /\ DiskLagsBehind'
    BY <1>1, <1>2, <2>1 DEF DbInv, TypeOK, DiskLagsBehind
  <2> QED BY <1>1, <2>2
          DEF DbInv, IdsHandedOut, OpenFiles, FilesNeverShared, AllInFiles, SessionKnowsCatalog,
              PoolReadsAsWritten, DenseIds, NothingLost
<1>4. ASSUME NEW n \in Names, WriteBackHeap(n) PROVE DbInv'
  <2>1. catalogDisk' = catalogDisk /\ heapDisk' = [heapDisk EXCEPT ![n] = heap[n]]
    BY <1>4 DEF WriteBackHeap
  <2>2. TypeOK'
    BY <1>1, <1>2, <2>1 DEF DbInv, TypeOK
  <2>3. DiskLagsBehind'
    BY <1>1, <1>2, <2>1 DEF DbInv, DiskLagsBehind
  <2> QED BY <1>1, <2>2, <2>3
          DEF DbInv, IdsHandedOut, OpenFiles, FilesNeverShared, AllInFiles, SessionKnowsCatalog,
              PoolReadsAsWritten, DenseIds, NothingLost
<1> QED BY <1>3, <1>4

LEMMA NextDb == ASSUME DbInv, [Next]_vars PROVE DbInv'
<1>1. CASE \E order \in Orders(Len(catalogDisk)) : Open(order)
  BY <1>1, OpenKeepsInv
<1>2. ASSUME NEW n \in Names, NEW s \in Schemas,
             CreateTableFromFile(n, s) \/ CreateTable(n, s) \/ CreateTableFormatFails(n, s)
      PROVE  DbInv'
  BY <1>2, FromFileKeepsInv, CreateKeepsInv
<1>3. ASSUME NEW n \in Names, CreateTableCatalogFull(n) PROVE DbInv'
  BY <1>3, CatalogFullKeepsInv
<1>4. ASSUME NEW n \in Names, NEW r \in Rows, Insert(n, r) PROVE DbInv'
  BY <1>4, InsertKeepsInv
<1>5. CASE WriteBackCatalog \/ \E n \in Names : WriteBackHeap(n)
  BY <1>5, WriteBackKeepsInv
<1>6. CASE Drop \/ Kill
  BY <1>6, EndKeepsInv
<1>7. CASE UNCHANGED vars
  BY <1>7 DEF vars, diskVars, pageVars, sessionVars, DbInv, TypeOK, IdsHandedOut, OpenFiles,
              FilesNeverShared, DiskLagsBehind, AllInFiles, SessionKnowsCatalog,
              PoolReadsAsWritten, DenseIds, NothingLost
<1> QED BY <1>1, <1>2, <1>3, <1>4, <1>5, <1>6, <1>7 DEF Next

-----------------------------------------------------------------------------
(* The theorems. *)

\* Wherever the process is killed and whatever fails, the database keeps its
\* invariant.
THEOREM DatabaseIsSafe == Spec => []DbInv
BY InitDb, NextDb, PTL DEF Spec

\* Every variable stays in its range: ids never run out (database.rs).
THEOREM DatabaseIsWellTyped == Spec => []TypeOK
<1>1. DbInv => TypeOK
  BY DEF DbInv
<1> QED BY <1>1, DatabaseIsSafe, PTL

\* The id that open_or_create_file gives to a file is one that the model has:
\* no statement is ruled out because the ids of Ids are used up.
THEOREM IdsNeverRunOut == Spec => []IdsSuffice
BY InvGivesIds, DatabaseIsSafe, PTL

\* No two open files have the same id, so that the buffer pool never mixes the
\* pages of two tables (storage.rs, open_or_create_file).
THEOREM FilesAreKeptApart == Spec => []FilesNeverShared
<1>1. DbInv => FilesNeverShared
  BY DEF DbInv, IdsHandedOut
<1> QED BY <1>1, DatabaseIsSafe, PTL

\* As long as the ids in the catalog have no gap a name stands for its own
\* table, through kills, full catalog pages and failed formats.
THEOREM DenseCatalogsResolve == Spec => []DenseCatalogResolves
<1>1. DbInv => DenseCatalogResolves
  <2> SUFFICES ASSUME DbInv, \A i \in DOMAIN catalog : catalog[i].id = i,
                      NEW n \in Names, get_table(n) # None
               PROVE  get_table(n).name = n
    BY DEF DenseCatalogResolves, NameResolvesToOwnTable
  <2>1. /\ table_names[n] \in Ids /\ get_table(n) = tables[table_names[n]]
        /\ get_table(n).name \in Names
    BY TableFound
  <2>2. table_names[get_table(n).name] = table_names[n] /\ table_names[n] # None
    BY <2>1, NamesCounted DEF DbInv, DenseIds
  <2> QED BY <2>1, <2>2 DEF DbInv, DenseIds
<1> QED BY <1>1, DatabaseIsSafe, PTL

\* Rows of a table that the catalog lists are read under the schema they were
\* written under, whichever pages a kill leaves on disk.
THEOREM CatalogedRowsAreReadAsWritten == Spec => []CatalogedRowsReadAsWritten
<1>1. DbInv => CatalogedRowsReadAsWritten
  <2> SUFFICES ASSUME DbInv
               PROVE  CatalogedRowsReadAsWritten
    OBVIOUS
  <2>1. /\ catalog \in Seq(Entry) /\ catalogDisk \in Seq(Entry)
        /\ \A i \in DOMAIN catalog : catalog[i].name \in Names
    BY EntriesCounted DEF DbInv, TypeOK, AllInFiles, Entry
  <2>2. DOMAIN catalogDisk \subseteq DOMAIN catalog
    <3>1. /\ DOMAIN catalogDisk = 1 .. Len(catalogDisk) /\ DOMAIN catalog = 1 .. Len(catalog)
          /\ Len(catalogDisk) \in Nat /\ Len(catalog) \in Nat
      BY <2>1, LenProperties
    <3> QED BY <3>1 DEF DbInv, DiskLagsBehind
  <2> DEFINE Reads(entries, rows) ==
                \A i \in DOMAIN entries :
                   /\ \A w \in rows[entries[i].name] : w.schema = entries[i].schema
                   /\ \A id \in Ids :
                         tables[id] # None /\ tables[id].name = entries[i].name
                            => tables[id].schema = entries[i].schema
  <2>3. Reads(catalog, heap)
    BY DEF DbInv, PoolReadsAsWritten
  <2>4. Reads(catalogDisk, heapDisk)
    <3> SUFFICES ASSUME NEW i \in DOMAIN catalogDisk
                 PROVE  /\ \A w \in heapDisk[catalogDisk[i].name] :
                               w.schema = catalogDisk[i].schema
                        /\ \A id \in Ids :
                              tables[id] # None /\ tables[id].name = catalogDisk[i].name
                                 => tables[id].schema = catalogDisk[i].schema
      OBVIOUS
    <3>1. i \in DOMAIN catalog /\ catalogDisk[i] = catalog[i] /\ catalog[i].name \in Names
      BY <2>1, <2>2 DEF DbInv, DiskLagsBehind
    <3>2. heapDisk[catalog[i].name] \subseteq heap[catalog[i].name]
      BY <3>1 DEF DbInv, DiskLagsBehind
    <3> QED BY <2>3, <3>1, <3>2
  <2> HIDE DEF Reads
  <2>5. \A pages \in {<<catalog, heap>>, <<catalogDisk, heapDisk>>} : Reads(pages[1], pages[2])
    BY <2>3, <2>4
  <2> QED BY <2>5 DEF Reads, CatalogedRowsReadAsWritten
<1> QED BY <1>1, DatabaseIsSafe, PTL

-----------------------------------------------------------------------------
(* The refinement of TableSpace. *)

\* What the instance Space sees.
Created == IF mode = "Tame" THEN NamesIn(catalog) ELSE {}

RowsOf(n) == {w.row : w \in heap[n]}

\* As long as nothing is lost, a name stands for the table of its entry.
LEMMA TameTable ==
    ASSUME DbInv, mode = "Tame", running, NEW n \in Names
    PROVE  /\ n \notin NamesIn(catalog) => get_table(n) = None
           /\ n \in NamesIn(catalog) =>
                 /\ get_table(n) # None /\ get_table(n).name = n
                 /\ \A w \in heap[n] : w.schema = get_table(n).schema
<1>1. CASE n \notin NamesIn(catalog)
  BY <1>1 DEF DbInv, NothingLost, get_table
<1>2. CASE n \in NamesIn(catalog)
  <2>1. PICK i \in DOMAIN catalog : n = catalog[i].name
    BY <1>2 DEF NamesIn
  <2>2. catalog[i] \in Entry
    BY EntriesCounted DEF DbInv, TypeOK, AllInFiles
  <2>3. /\ catalog[i].id = i /\ table_names[n] = i
        /\ tables[i] = [name |-> n, schema |-> catalog[i].schema]
    BY <2>1 DEF DbInv, NothingLost
  <2>4. get_table(n) = [name |-> n, schema |-> catalog[i].schema] /\ get_table(n) # None
    BY <2>2, <2>3, NamesCounted DEF get_table, Entry
  <2>5. \A w \in heap[n] : w.schema = catalog[i].schema
    BY <2>1 DEF DbInv, PoolReadsAsWritten
  <2> QED BY <1>2, <2>4, <2>5
<1> QED BY <1>1, <1>2

\* A scan returns all rows of the file, with a session or without.
LEMMA TameRows ==
    DbInv => TableRows = [n \in Names |-> IF mode = "Tame" THEN RowsOf(n) ELSE {}]
<1> SUFFICES ASSUME DbInv
             PROVE  TableRows = [n \in Names |-> IF mode = "Tame" THEN RowsOf(n) ELSE {}]
  OBVIOUS
<1>1. CASE mode # "Tame"
  BY <1>1 DEF TableRows
<1>2. CASE mode = "Tame" /\ ~ running
  BY <1>2 DEF TableRows, RowsOf
<1>3. CASE mode = "Tame" /\ running
  <2>1. ASSUME NEW n \in Names PROVE Scan(n) = RowsOf(n)
    <3>1. CASE n \in NamesIn(catalog)
      <4>1. /\ get_table(n) # None /\ get_table(n).name = n
            /\ \A w \in heap[n] : w.schema = get_table(n).schema
        BY <1>3, <3>1, TameTable
      <4>2. {x \in heap[n] : x.schema = get_table(n).schema} = heap[n]
        BY <4>1
      <4> QED BY <4>1, <4>2 DEF Scan, RowsOf
    <3>2. CASE n \notin NamesIn(catalog)
      <4>1. get_table(n) = None /\ heap[n] = {}
        BY <1>3, <3>2, TameTable DEF DbInv, NothingLost, AllInFiles
      <4> QED BY <4>1 DEF Scan, RowsOf
    <3> QED BY <3>1, <3>2
  <2> QED BY <1>3, <2>1 DEF TableRows
<1> QED BY <1>1, <1>2, <1>3

LEMMA InitSpace == Init => Space!Init
<1> SUFFICES ASSUME Init PROVE Created = {} /\ TableRows = [n \in Names |-> {}]
  BY DEF Space!Init, Created
<1>1. NamesIn(<<>>) = {}
  BY DEF NamesIn
<1>2. Created = {}
  BY <1>1 DEF Init, Created
<1>3. \A n \in Names : RowsOf(n) = {}
  BY DEF Init, RowsOf
<1> QED BY <1>2, <1>3, InitDb, TameRows

SpaceStutters == Created' = Created /\ TableRows' = TableRows

LEMMA NextSpace == ASSUME DbInv, [Next]_vars PROVE Space!Next \/ SpaceStutters
<1>1. DbInv'
  BY NextDb
<1>2. mode' = mode
  BY DEF Next, Open, CreateTableFromFile, CreateTable, CreateTableFormatFails,
         CreateTableCatalogFull, Insert, WriteBackHeap, WriteBackCatalog, Drop, Kill, SessionEnds,
         vars
<1>3. TableRows = [n \in Names |-> IF mode = "Tame" THEN RowsOf(n) ELSE {}]
  BY TameRows
<1>4. TableRows' = [n \in Names |-> IF mode = "Tame" THEN RowsOf(n)' ELSE {}]
  <2>1. (DbInv => TableRows = [n \in Names |-> IF mode = "Tame" THEN RowsOf(n) ELSE {}])'
    BY TameRows, PTL
  <2> QED BY <1>1, <1>2, <2>1
<1>5. CASE mode # "Tame"
  BY <1>2, <1>3, <1>4, <1>5 DEF SpaceStutters, Created
<1>6. ASSUME UNCHANGED <<catalog, heap>> PROVE SpaceStutters
  BY <1>2, <1>3, <1>4, <1>6 DEF SpaceStutters, Created, RowsOf
<1>7. CASE mode = "Tame"
  <2>1. ASSUME NEW n \in Names, NEW s \in Schemas, CreateTable(n, s) PROVE Space!Next
    <3>1. PICK id \in Ids : Cataloged(n, s, id)
      BY <2>1 DEF CreateTable
    <3>2. NamesIn(catalog') = NamesIn(catalog) \cup {n}
      BY <3>1, EntryAdded
    <3>3. Created' = Created \cup {n}
      BY <1>2, <1>7, <3>2 DEF Created
    <3>4. n \notin Created
      BY <1>7, <2>1 DEF CreateTable, DbInv, AllInFiles, Created
    <3>5. TableRows' = TableRows
      BY <1>3, <1>4, <2>1 DEF CreateTable, RowsOf
    <3>6. Space!Create(n) <=> n \notin Created /\ Created' = Created \cup {n}
                              /\ TableRows' = TableRows
      BY Zenon DEF Space!Create, Created
    <3> QED BY <3>3, <3>4, <3>5, <3>6 DEF Space!Next
  <2>2. ASSUME NEW n \in Names, NEW r \in Rows, Insert(n, r) PROVE Space!Next
    <3>1. running /\ get_table(n) # None /\ catalog' = catalog
      BY <2>2 DEF Insert
    <3>2. n \in NamesIn(catalog) /\ get_table(n).name = n
      BY <1>7, <3>1, TameTable
    <3>3. heap' = [heap EXCEPT ![n] = @ \cup {[row |-> r, schema |-> get_table(n).schema]}]
      BY <2>2, <3>2 DEF Insert
    <3>4. RowsOf(n)' = RowsOf(n) \cup {r} /\ \A m \in Names \ {n} : RowsOf(m)' = RowsOf(m)
      <4>1. /\ heap'[n] = heap[n] \cup {[row |-> r, schema |-> get_table(n).schema]}
            /\ \A m \in Names \ {n} : heap'[m] = heap[m]
        BY <3>3 DEF DbInv, TypeOK
      <4>2. RowsOf(n)' = {w.row : w \in heap'[n]} /\ RowsOf(n) = {w.row : w \in heap[n]}
        BY DEF RowsOf
      <4>3. [row |-> r, schema |-> get_table(n).schema].row = r
        OBVIOUS
      <4>4. RowsOf(n)' = RowsOf(n) \cup {r}
        BY <4>1, <4>2, <4>3
      <4>5. \A m \in Names \ {n} : RowsOf(m)' = RowsOf(m)
        BY <4>1 DEF RowsOf
      <4> QED BY <4>4, <4>5
    <3>5. TableRows' = [TableRows EXCEPT ![n] = @ \cup {r}]
      BY <1>3, <1>4, <1>7, <3>4
    <3>6. n \in Created /\ Created' = Created
      BY <1>2, <1>7, <3>1, <3>2 DEF Created
    <3>7. Space!Insert(n, r) <=> n \in Created /\ TableRows' = [TableRows EXCEPT ![n] = @ \cup {r}]
                                 /\ Created' = Created
      BY Zenon DEF Space!Insert, Created
    <3> QED BY <3>5, <3>6, <3>7 DEF Space!Next
  <2>3. ASSUME NEW n \in Names
        PROVE  /\ \A s \in Schemas : CreateTableFromFile(n, s) => SpaceStutters
               /\ \A s \in Schemas : ~ CreateTableFormatFails(n, s)
               /\ ~ CreateTableCatalogFull(n)
               /\ WriteBackHeap(n) => SpaceStutters
    BY <1>6, <1>7 DEF CreateTableFromFile, CreateTableFormatFails, CreateTableCatalogFull,
                      WriteBackHeap, pageVars
  <2>4. ASSUME NEW order \in Orders(Len(catalogDisk)), Open(order) PROVE SpaceStutters
    BY <1>6, <2>4 DEF Open, pageVars
  <2>5. WriteBackCatalog => SpaceStutters
    BY <1>6 DEF WriteBackCatalog, pageVars
  <2>6. Drop => SpaceStutters
    BY <1>6 DEF Drop, SessionEnds
  <2>7. ~ Kill
    BY <1>7 DEF Kill
  <2>8. UNCHANGED vars => SpaceStutters
    BY <1>6 DEF vars, pageVars
  <2> QED BY <2>1, <2>2, <2>3, <2>4, <2>5, <2>6, <2>7, <2>8 DEF Next
<1> QED BY <1>5, <1>7

\* Without kills and failures clients see named tables that are created once,
\* and scans return what was inserted under the name, in any number of
\* sessions: create_table, get_table and the catalog agree for every number of
\* names.
THEOREM DatabaseImplementsTableSpace == Spec => ImplementsTableSpace
<1>1. DbInv /\ [Next]_vars => [Space!Next]_<<Created, TableRows>>
  BY NextSpace DEF SpaceStutters
<1> QED BY <1>1, InitSpace, DatabaseIsSafe, PTL
        DEF Spec, ImplementsTableSpace, Space!Spec, Created
=============================================================================
