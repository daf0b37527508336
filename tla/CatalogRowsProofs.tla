-------------------------- MODULE CatalogRowsProofs --------------------------
(***************************************************************************)
(* Proofs about CatalogRows, for any number of snapshots, sessions, ids    *)
(* and operations.                                                         *)
(*                                                                         *)
(* The argument rests on what a session may have staged (StagedInv): new   *)
(* rows, which begin at the snapshot the session will get and have ids no  *)
(* committed row has, and committed rows that end there.  Putting those    *)
(* over the committed rows then changes what readers see at no snapshot    *)
(* there has been.  That drop_table leaves nothing behind needs that the   *)
(* staged rows are closed under its cascade (CascadeClosed), and that a    *)
(* data file dies with its table only (FileInv).                           *)
(***************************************************************************)
EXTENDS CatalogRows, WellFoundedInduction, TLAPS

-----------------------------------------------------------------------------
\* Sets of rows

\* One row per key.
Unique(S) == \A r, q \in S : Key(r) = Key(q) => r = q

\* A put of the rows of S writes the key of x.
Covered(S, x) == \E q \in S : Key(q) = Key(x)

FilesOf(S) == {r \in S : r.kind = "file"}

Counters == [catalog : Nat, file : Nat]

\* The ids in a row have been handed out by the counters c.
IdsBelow(r, c) ==
    /\ r.kind \in {"schema", "table"} => r.id < c.catalog
    /\ r.kind \in {"file", "delete"} => r.id < c.file
    /\ r.kind = "file" => r.parent < c.catalog
    /\ r.kind = "delete" => r.parent < c.file
    /\ r.kind = "inlined" => r.id <= MaxRowId

\* A row a session adds: it has an id that no committed row has.
Fresh(t, c) ==
    /\ t \in Row /\ t.begin = Peek /\ t.end = NoEnd
    /\ IdsBelow(t, c)
    /\ t.kind \in {"schema", "table"} => t.id >= counters.catalog
    /\ t.kind \in {"file", "delete"} => t.id >= counters.file
    /\ t.kind = "inlined" /\ clients = {} => ~Covered(rows, t)

\* A row a session retires.
Ending(t) == \E x \in rows : t = Retired(x) /\ (clients = {} => Live(x))

\* Whoever writes a table writes all that drop_table cascades to, and whoever
\* writes a committed data file writes its table.
CascadeClosed(S) ==
    /\ \A t \in rows : t.kind = "table" /\ Covered(S, t) => \A c \in Cascade(t) : Covered(S, c)
    /\ \A f, t \in rows :
           f.kind = "file" /\ Covered(S, f) /\ t.kind = "table" /\ t.id = f.parent => Covered(S, t)

-----------------------------------------------------------------------------
\* The inductive invariant

RowInv ==
    /\ rows \in SUBSET Row /\ Unique(rows)
    /\ \A r \in rows : r.begin <= head /\ (r.end = NoEnd \/ (r.begin < r.end /\ r.end <= head))

IdInv ==
    /\ counters \in Counters /\ next \in Counters
    /\ counters.catalog <= next.catalog /\ counters.file <= next.file
    /\ \A r \in rows : IdsBelow(r, counters)

StagedInv ==
    /\ Unique(staged)
    /\ \A t \in staged : Fresh(t, next) \/ Ending(t)
    /\ CascadeClosed(staged)

\* The id of a table names one row.
TableInv ==
    \A t, q \in rows \cup staged :
        t.kind = "table" /\ q.kind = "table" /\ t.id = q.id => Key(t) = Key(q)

\* A data file dies with its table only.
FileInv ==
    \A f, t \in rows :
        f.kind = "file" /\ ~Live(f) /\ t.kind = "table" /\ t.id = f.parent => ~Live(t)

IndexInv == index = FilesOf(rows) /\ stagedIdx = FilesOf(staged)

SessionInv ==
    /\ head \in Nat \ {0} /\ head <= MaxSnapshots
    /\ ops \in Nat /\ ops <= MaxOps
    /\ ops > 0 => head < MaxSnapshots
    /\ DOMAIN seen = 1..head

IInv ==
    /\ RowInv /\ IdInv /\ StagedInv /\ TableInv /\ FileInv /\ IndexInv /\ SessionInv
    /\ TimeTravel /\ CascadeComplete

-----------------------------------------------------------------------------
\* Lemmas about the operators

\* A set of numbers that is not empty has a least one.
LEMMA MinExists ==
    ASSUME NEW S, S \subseteq Nat, S # {}
    PROVE  Min(S) \in S /\ \A x \in S : Min(S) <= x
<1> DEFINE Less == {ss \in Nat \X Nat : ss[1] < ss[2]}
<1>1. IsWellFoundedOn(Less, Nat)
  BY NatLessThanWellFounded, Zenon DEF OpToRel
<1> HIDE DEF Less
<1>2. PICK m \in S : \A x \in S : <<x, m>> \notin Less
  BY <1>1, WFMin
<1>3. \A x \in S : m <= x
  <2> SUFFICES ASSUME NEW x \in S, x < m PROVE FALSE
    OBVIOUS
  <2>1. <<x, m>> \in Nat \X Nat /\ <<x, m>>[1] < <<x, m>>[2]
    OBVIOUS
  <2> QED BY <1>2, <2>1 DEF Less
<1> QED BY <1>3 DEF Min

\* A retired row is the row with another end.
LEMMA RetiredRow ==
    ASSUME SessionInv, NEW x \in Row
    PROVE  /\ Retired(x) \in Row /\ Key(Retired(x)) = Key(x) /\ Fact(Retired(x)) = Fact(x)
           /\ Retired(x).kind = x.kind /\ Retired(x).id = x.id /\ Retired(x).parent = x.parent
           /\ Retired(x).begin = x.begin /\ Retired(x).end = Peek
<1>1. Peek \in Nat
  BY DEF SessionInv, Peek
<1>2. /\ Retired(x) \in Row /\ Retired(x).kind = x.kind /\ Retired(x).id = x.id
      /\ Retired(x).parent = x.parent /\ Retired(x).begin = x.begin /\ Retired(x).end = Peek
  BY <1>1 DEF Retired, Row
<1> QED BY <1>2 DEF Key, Fact

\* Rows with the same key are of the same kind and have the same ids.
LEMMA SameKey ==
    ASSUME NEW r, NEW q, Key(r) = Key(q)
    PROVE  /\ r.kind = q.kind /\ r.parent = q.parent /\ r.id = q.id
           /\ r.kind \in Versioned => r.begin = q.begin
BY DEF Key

\* What a put leaves.
LEMMA PutRows ==
    ASSUME NEW S, NEW T
    PROVE  /\ \A y \in PutAll(S, T) : y \in T \/ (y \in S /\ ~Covered(T, y))
           /\ T \subseteq PutAll(S, T)
           /\ \A x : Covered(PutAll(S, T), x) <=> Covered(S, x) \/ Covered(T, x)
           /\ Unique(S) /\ Unique(T) => Unique(PutAll(S, T))
           /\ FilesOf(PutAll(S, T)) = PutAll(FilesOf(S), FilesOf(T))
<1>1. \A y \in PutAll(S, T) : y \in T \/ (y \in S /\ ~Covered(T, y))
  BY DEF PutAll, Covered
<1>2. T \subseteq PutAll(S, T)
  BY DEF PutAll
<1>3. ASSUME NEW x PROVE Covered(PutAll(S, T), x) <=> Covered(S, x) \/ Covered(T, x)
  <2>1. ASSUME NEW q \in S, Key(q) = Key(x), ~Covered(T, x) PROVE q \in PutAll(S, T)
    BY <2>1 DEF PutAll, Covered
  <2> QED BY <1>1, <1>2, <2>1 DEF Covered
<1>4. ASSUME Unique(S), Unique(T), NEW r \in PutAll(S, T), NEW q \in PutAll(S, T), Key(r) = Key(q)
      PROVE  r = q
  BY <1>1, <1>4 DEF Unique, Covered
<1>5. FilesOf(PutAll(S, T)) = PutAll(FilesOf(S), FilesOf(T))
  <2>1. ASSUME NEW x, x.kind = "file", \A t \in FilesOf(T) : Key(x) # Key(t)
        PROVE  \A t \in T : Key(x) # Key(t)
    BY <2>1, SameKey DEF FilesOf
  <2> QED BY <2>1 DEF PutAll, FilesOf
<1> QED BY <1>1, <1>2, <1>3, <1>4, <1>5 DEF Unique

\* The closure under the cascade is closed under puts.
LEMMA PutClosed ==
    ASSUME NEW S, NEW T, CascadeClosed(S), CascadeClosed(T)
    PROVE  CascadeClosed(PutAll(S, T))
<1>1. \A x : Covered(PutAll(S, T), x) <=> Covered(S, x) \/ Covered(T, x)
  BY PutRows
<1> QED BY <1>1 DEF CascadeClosed

-----------------------------------------------------------------------------
\* The operations of a session

\* What an operation may stage while the session's counters become c.
Proper(T, c) ==
    /\ Unique(T)
    /\ c \in Counters /\ c.catalog >= next.catalog /\ c.file >= next.file
    /\ \A t \in T : Fresh(t, c) \/ Ending(t)
    /\ \A t \in T : t.kind = "table" => Ending(t) \/ (T = {t} /\ t.id >= next.catalog)
    /\ CascadeClosed(T)

\* Rows that are new, and retired ones that are no tables or data files, touch
\* nothing the cascade is about.
LEMMA ClosedTrivially ==
    ASSUME IInv, NEW T, NEW c,
           \A t \in T : Fresh(t, c) \/ t.kind \notin {"table", "file"}
    PROVE  CascadeClosed(T)
<1>1. ASSUME NEW x \in rows, x.kind \in {"table", "file"}, NEW t \in T, Key(t) = Key(x)
      PROVE  FALSE
  <2>1. t.kind = x.kind /\ t.id = x.id /\ (t.kind \in Versioned => t.begin = x.begin)
    BY <1>1, SameKey
  <2>2. Fresh(t, c)
    BY <1>1, <2>1
  <2>3. x \in Row /\ x.begin <= head /\ IdsBelow(x, counters) /\ head \in Nat /\ counters \in Counters
    BY DEF IInv, RowInv, IdInv, SessionInv
  <2> QED BY <1>1, <2>1, <2>2, <2>3 DEF Fresh, IdsBelow, Versioned, Peek, Row, Counters
<1> QED BY <1>1 DEF CascadeClosed, Covered

\* A new row.
LEMMA NewProper ==
    ASSUME IInv, NEW c \in Counters, c.catalog >= next.catalog, c.file >= next.file,
           NEW k \in Kind, NEW parent \in Nat, NEW id \in Nat,
           k \in {"schema", "table"} => id >= next.catalog /\ id < c.catalog,
           k \in {"file", "delete"} => id >= next.file /\ id < c.file,
           k = "file" => parent < c.catalog,
           k = "delete" => parent < c.file,
           k = "inlined" => id <= MaxRowId,
           k = "inlined" /\ clients = {} =>
               ~\E r \in rows : r.kind = "inlined" /\ r.parent = parent /\ r.id = id
    PROVE  Proper({New(k, parent, id)}, c)
<1> DEFINE t == New(k, parent, id)
<1>1. /\ t \in Row /\ t.kind = k /\ t.parent = parent /\ t.id = id
      /\ t.begin = Peek /\ t.end = NoEnd
  BY DEF New, Row, Peek, NoEnd, IInv, SessionInv
<1> HIDE DEF t
<1>2. IdsBelow(t, c)
  BY <1>1 DEF IdsBelow
<1>3. t.kind = "inlined" /\ clients = {} => ~Covered(rows, t)
  BY <1>1, SameKey DEF Covered
<1>4. Fresh(t, c)
  BY <1>1, <1>2, <1>3 DEF Fresh, IInv, IdInv, Counters
<1>5. CascadeClosed({t})
  BY <1>4, ClosedTrivially
<1>6. Unique({t})
  BY DEF Unique
<1> QED BY <1>1, <1>4, <1>5, <1>6 DEF Proper, t

\* A retired row, other than of a table or a data file.
LEMMA EndProper ==
    ASSUME IInv, NEW x \in rows, clients = {} => Live(x), x.kind \notin {"table", "file"}
    PROVE  Proper({Retired(x)}, next)
<1>1. Retired(x).kind = x.kind
  BY RetiredRow DEF IInv, RowInv
<1>2. CascadeClosed({Retired(x)})
  BY <1>1, ClosedTrivially
<1>3. Ending(Retired(x)) /\ Unique({Retired(x)})
  BY DEF Ending, Unique
<1> QED BY <1>1, <1>2, <1>3 DEF Proper, IInv, IdInv, Counters

\* A renamed column: the old version and the new one have different keys.
LEMMA RenameProper ==
    ASSUME IInv, NEW x \in rows, x.kind = "column", Live(x)
    PROVE  Proper(Renamed(x), next) /\ FilesOf(Renamed(x)) = {}
<1> DEFINE y == [x EXCEPT !.begin = Peek, !.end = NoEnd]
<1>1. x \in Row /\ x.begin <= head /\ head \in Nat /\ Peek = head + 1
  BY DEF IInv, RowInv, SessionInv, Peek
<1>2. y \in Row /\ y.begin = Peek /\ y.end = NoEnd /\ y.kind = "column"
  <2>1. x \in Row /\ Peek \in Nat /\ NoEnd \in Nat
    BY <1>1 DEF NoEnd
  <2>2. y \in Row /\ y.begin = Peek /\ y.end = NoEnd /\ y.kind = x.kind
    BY <2>1 DEF Row
  <2> QED BY <2>2
<1>3. Retired(x).kind = "column" /\ Retired(x).begin = x.begin
  BY <1>1, RetiredRow DEF IInv
<1> HIDE DEF y
<1>4. Fresh(y, next)
  BY <1>2 DEF Fresh, IdsBelow
<1>5. Renamed(x) = {Retired(x), y}
  BY DEF Renamed, y
<1>6. Key(y) # Key(Retired(x))
  <2>1. x.begin # Peek
    BY <1>1 DEF Row
  <2> QED BY <1>2, <1>3, <2>1, SameKey DEF Versioned
<1>7. Ending(Retired(x))
  BY DEF Ending
<1>8. CascadeClosed(Renamed(x))
  BY <1>2, <1>3, <1>5, ClosedTrivially
<1> QED BY <1>2, <1>3, <1>4, <1>5, <1>6, <1>7, <1>8 DEF Proper, Unique, FilesOf, IInv, IdInv, Counters

\* A dropped table, with its cascade.
LEMMA DropProper ==
    ASSUME IInv, NEW t \in rows, t.kind = "table", clients = {} => Live(t)
    PROVE  LET T == {Retired(r) : r \in Cascade(t) \cup {t}}
           IN  Proper(T, next) /\ FilesOf(T) = CascadeIndex(t)
<1> DEFINE C == Cascade(t) \cup {t}
           T == {Retired(r) : r \in C}
<1>1. /\ C \subseteq rows /\ t \in C /\ \A r \in Cascade(t) : Live(r)
      /\ \A r \in Cascade(t) : r.kind # "table" /\ (r.kind = "file" => r.parent = t.id)
  BY DEF Cascade
<1>2. \A r \in C : /\ Key(Retired(r)) = Key(r) /\ Retired(r).kind = r.kind /\ Ending(Retired(r))
  <2> SUFFICES ASSUME NEW r \in C
               PROVE Key(Retired(r)) = Key(r) /\ Retired(r).kind = r.kind /\ Ending(Retired(r))
    OBVIOUS
  <2>1. r \in rows /\ r \in Row
    BY <1>1 DEF IInv, RowInv
  <2>2. clients = {} => Live(r)
    BY <1>1
  <2> QED BY <2>1, <2>2, RetiredRow DEF IInv, Ending
<1>3. \A x : Covered(T, x) <=> \E r \in C : Key(r) = Key(x)
  BY <1>2 DEF Covered
<1>4. \A x \in rows : Covered(T, x) <=> x \in C
  BY <1>1, <1>3 DEF IInv, RowInv, Unique
<1>5. Unique(T)
  BY <1>1, <1>2 DEF IInv, RowInv, Unique
<1>6. CascadeClosed(T)
  <2>1. ASSUME NEW x \in rows, x.kind = "table", Covered(T, x) PROVE x = t
    BY <1>1, <1>4, <2>1
  <2>2. ASSUME NEW f \in rows, f.kind = "file", Covered(T, f), NEW x \in rows, x.kind = "table",
               x.id = f.parent
        PROVE  x = t
    <3>1. f.parent = t.id
      BY <1>1, <1>4, <2>2
    <3>2. Key(x) = Key(t)
      BY <2>2, <3>1 DEF IInv, TableInv
    <3> QED BY <3>2 DEF IInv, RowInv, Unique
  <2>3. \A x \in Cascade(t) : Covered(T, x)
    BY <1>1, <1>4
  <2>4. Covered(T, t)
    BY <1>1, <1>4
  <2> QED BY <2>1, <2>2, <2>3, <2>4 DEF CascadeClosed
<1>7. Proper(T, next)
  BY <1>2, <1>5, <1>6 DEF Proper, IInv, IdInv, Counters
<1>8. FilesOf(T) = CascadeIndex(t)
  BY <1>1, <1>2 DEF FilesOf, CascadeIndex
<1> QED BY <1>7, <1>8

\* The operations of Next, as against its commit and its failure.
Operation ==
    \/ CreateSchema \/ CreateTable \/ AddColumn \/ CreateView \/ SetTag
    \/ RegisterDataFile \/ RegisterDeleteFile \/ InsertInlinedRow
    \/ DropOne \/ DropTable \/ DropColumn \/ EndUpdateIgnored \/ RenameColumn
    \/ DeleteInlinedRow \/ ReplaceInlinedRow

\* The ids clients name are those of committed rows, or of the session's own.
LEMMA NamedRows ==
    ASSUME IInv
    PROVE  /\ \A k, r : r \in Named(k) => /\ r \in rows /\ r \in Row /\ r.kind = k
                                          /\ (clients = {} => Live(r))
           /\ \A id \in Tables : id \in Nat /\ id < next.catalog
           /\ \A id \in Files : id \in Nat /\ id < next.file
<1>1. \A k, r : r \in Named(k) => /\ r \in rows /\ r \in Row /\ r.kind = k
                                  /\ (clients = {} => Live(r))
  BY DEF Named, IInv, RowInv
<1>2. ASSUME NEW r \in rows \cup staged PROVE r \in Row /\ IdsBelow(r, next)
  <2>1. CASE r \in rows
    BY <2>1 DEF IInv, RowInv, IdInv, IdsBelow, Row, Counters
  <2>2. CASE r \in staged /\ Fresh(r, next)
    BY <2>2 DEF Fresh
  <2>3. CASE Ending(r)
    <3>1. PICK x \in rows : r = Retired(x)
      BY <2>3 DEF Ending
    <3>2. x \in Row /\ IdsBelow(x, counters)
      BY DEF IInv, RowInv, IdInv
    <3>3. IdsBelow(x, next)
      BY <3>2 DEF IInv, IdInv, IdsBelow, Row, Counters
    <3> QED BY <3>1, <3>2, <3>3, RetiredRow DEF IInv, IdsBelow
  <2> QED BY <2>1, <2>2, <2>3 DEF IInv, StagedInv
<1>3. \A id \in Tables : id \in Nat /\ id < next.catalog
  BY <1>1, <1>2 DEF Tables, IdsBelow, Row
<1>4. \A id \in Files : id \in Nat /\ id < next.file
  BY <1>1, <1>2 DEF Files, IdsBelow, Row
<1> QED BY <1>1, <1>3, <1>4

\* The row id of an insert is in range, and no committed row has it.
LEMMA FreeRowIdIsFree ==
    ASSUME IInv, NEW t, NEW wanted \in 0..MaxRowId
    PROVE  /\ FreeRowId(t, wanted) \in Nat
           /\ ~\E r \in rows : r.kind = "inlined" /\ r.parent = t /\ r.id = FreeRowId(t, wanted)
<1> DEFINE S == {i \in wanted..(MaxRowId + 1) :
                    ~\E r \in rows \cup staged :
                        r.kind = "inlined" /\ r.parent = t /\ r.id = i}
<1>0. MaxRowId \in Nat
  BY BoundsAssumption
<1>1. ASSUME NEW r \in rows \cup staged, r.kind = "inlined" PROVE r.id # MaxRowId + 1
  <2>1. CASE r \in rows
    BY <1>0, <1>1, <2>1 DEF IInv, IdInv, IdsBelow, RowInv, Row
  <2>2. CASE Fresh(r, next)
    BY <1>0, <1>1, <2>2 DEF Fresh, IdsBelow, Row
  <2>3. CASE Ending(r)
    <3>1. PICK x \in rows : r = Retired(x)
      BY <2>3 DEF Ending
    <3>2. x \in Row /\ IdsBelow(x, counters)
      BY DEF IInv, RowInv, IdInv
    <3>3. r.id = x.id /\ r.kind = x.kind
      BY <3>1, <3>2, RetiredRow DEF IInv
    <3> QED BY <1>0, <1>1, <3>2, <3>3 DEF IdsBelow, Row
  <2> QED BY <2>1, <2>2, <2>3 DEF IInv, StagedInv
<1>2. MaxRowId + 1 \in S
  BY <1>0, <1>1
<1>3. S \subseteq Nat
  BY <1>0
<1>4. Min(S) \in S
  BY <1>2, <1>3, MinExists
<1> QED BY <1>3, <1>4 DEF FreeRowId

\* Every operation stages rows that are proper, and index entries for the data
\* files among them.
LEMMA OperationStages ==
    ASSUME IInv, Operation
    PROVE  \E T : Stage(T, FilesOf(T)) /\ Proper(T, next')
<1> DEFINE Goal == \E T : Stage(T, FilesOf(T)) /\ Proper(T, next')
<1>0. next \in Counters /\ next.catalog \in Nat /\ next.file \in Nat
  BY DEF IInv, IdInv, Counters
<1>1. /\ \A k, r : r \in Named(k) => /\ r \in rows /\ r \in Row /\ r.kind = k
                                     /\ (clients = {} => Live(r))
      /\ \A id \in Tables : id \in Nat /\ id < next.catalog
      /\ \A id \in Files : id \in Nat /\ id < next.file
  BY NamedRows
<1>2. AllocCatalogId => /\ next' \in Counters /\ next'.catalog = next.catalog + 1
                        /\ next'.file = next.file
  BY <1>0 DEF AllocCatalogId, Counters
<1>3. AllocFileId => /\ next' \in Counters /\ next'.catalog = next.catalog
                     /\ next'.file = next.file + 1
  BY <1>0 DEF AllocFileId, Counters
<1>4. ASSUME NEW k \in Kind \ {"file"}, NEW parent, NEW id
      PROVE  FilesOf({New(k, parent, id)}) = {}
  BY DEF FilesOf, New
<1>5. \A x \in Row : x.kind # "file" => FilesOf({Retired(x)}) = {}
  BY RetiredRow DEF FilesOf, IInv
<1>6. CASE CreateSchema
  <2>1. Stage({New("schema", 0, next.catalog)}, {}) /\ AllocCatalogId
    BY <1>6 DEF CreateSchema
  <2>2. Proper({New("schema", 0, next.catalog)}, next')
    BY <1>0, <1>2, <2>1, NewProper DEF Kind
  <2> QED BY <1>4, <2>1, <2>2 DEF Kind
<1>7. CASE CreateTable \/ CreateView
  <2>1. PICK k \in {"table", "view"}, s \in Named("schema") :
            Stage({New(k, s.id, next.catalog)}, {}) /\ AllocCatalogId
    BY <1>7 DEF CreateTable, CreateView
  <2>2. s.id \in Nat
    BY <1>1 DEF Row
  <2>3. Proper({New(k, s.id, next.catalog)}, next')
    BY <1>0, <1>2, <2>1, <2>2, NewProper DEF Kind
  <2> QED BY <1>4, <2>1, <2>3 DEF Kind
<1>8. CASE AddColumn
  <2>1. PICK t \in Tables : Stage({New("column", t, next.catalog)}, {}) /\ AllocCatalogId
    BY <1>8 DEF AddColumn
  <2>2. Proper({New("column", t, next.catalog)}, next')
    BY <1>0, <1>1, <1>2, <2>1, NewProper DEF Kind
  <2> QED BY <1>4, <2>1, <2>2 DEF Kind
<1>9. CASE SetTag
  <2>1. PICK t \in Tables : Stage({New("tag", t, 1)}, {}) /\ UNCHANGED next
    BY <1>9 DEF SetTag
  <2>2. Proper({New("tag", t, 1)}, next')
    BY <1>0, <1>1, <2>1, NewProper DEF Kind
  <2> QED BY <1>4, <2>1, <2>2 DEF Kind
<1>10. CASE RegisterDataFile
  <2>1. PICK t \in Tables : /\ Stage({New("file", t, next.file)}, {New("file", t, next.file)})
                            /\ AllocFileId
    BY <1>10 DEF RegisterDataFile
  <2>2. Proper({New("file", t, next.file)}, next')
    BY <1>0, <1>1, <1>3, <2>1, NewProper DEF Kind
  <2>3. FilesOf({New("file", t, next.file)}) = {New("file", t, next.file)}
    BY DEF FilesOf, New
  <2> QED BY <2>1, <2>2, <2>3
<1>11. CASE RegisterDeleteFile
  <2>1. PICK f \in Files : Stage({New("delete", f, next.file)}, {}) /\ AllocFileId
    BY <1>11 DEF RegisterDeleteFile
  <2>2. f \in Nat /\ f < next'.file
    BY <1>0, <1>1, <1>3, <2>1
  <2>3. Proper({New("delete", f, next.file)}, next')
    BY <1>0, <1>3, <2>1, <2>2, NewProper DEF Kind
  <2> QED BY <1>4, <2>1, <2>3 DEF Kind
<1>12. CASE InsertInlinedRow
  <2>1. PICK t \in Tables, wanted \in 0..MaxRowId :
            /\ FreeRowId(t, wanted) <= MaxRowId
            /\ Stage({New("inlined", t, FreeRowId(t, wanted))}, {})
    BY <1>12 DEF InsertInlinedRow
  <2>2. UNCHANGED next
    BY <1>12 DEF InsertInlinedRow
  <2>3. /\ FreeRowId(t, wanted) \in Nat
        /\ ~\E r \in rows : r.kind = "inlined" /\ r.parent = t /\ r.id = FreeRowId(t, wanted)
    BY FreeRowIdIsFree
  <2>4. Proper({New("inlined", t, FreeRowId(t, wanted))}, next')
    BY <1>0, <1>1, <2>1, <2>2, <2>3, NewProper DEF Kind
  <2> QED BY <1>4, <2>1, <2>4 DEF Kind
<1>13. CASE DropOne \/ DropColumn \/ DeleteInlinedRow
  <2>1. PICK k \in {"schema", "view", "tag", "column", "inlined"}, r \in rows :
            r \in Named(k) /\ Stage({Retired(r)}, {}) /\ UNCHANGED next
    BY <1>1, <1>13 DEF DropOne, DropColumn, DeleteInlinedRow
  <2>2. Proper({Retired(r)}, next')
    BY <1>1, <2>1, EndProper
  <2> QED BY <1>1, <1>5, <2>1, <2>2
<1>14. CASE DropTable
  <2>1. PICK t \in Named("table") :
            Stage({Retired(r) : r \in Cascade(t) \cup {t}}, CascadeIndex(t))
    BY <1>14 DEF DropTable
  <2>2. UNCHANGED next
    BY <1>14 DEF DropTable
  <2>3. LET T == {Retired(r) : r \in Cascade(t) \cup {t}}
        IN  Proper(T, next) /\ FilesOf(T) = CascadeIndex(t)
    BY <1>1, DropProper
  <2> QED BY <2>1, <2>2, <2>3
<1>15. CASE EndUpdateIgnored
  <2>1. Stage({}, {}) /\ UNCHANGED next
    BY <1>15 DEF EndUpdateIgnored
  <2>2. Proper({}, next')
    BY <1>0, <2>1 DEF Proper, Unique, CascadeClosed, Covered
  <2>3. FilesOf({}) = {}
    BY DEF FilesOf
  <2> QED BY <2>1, <2>2, <2>3
<1>16. CASE RenameColumn
  <2>1. PICK x \in rows : x.kind = "column" /\ Live(x) /\ Stage(Renamed(x), {}) /\ UNCHANGED next
    BY <1>16 DEF RenameColumn
  <2> QED BY <2>1, RenameProper
<1>17. CASE ReplaceInlinedRow
  <2>1. PICK r \in Named("inlined") :
            Stage({New("inlined", r.parent, r.id)}, {}) /\ UNCHANGED next
    BY <1>17 DEF ReplaceInlinedRow
  <2>2. r.parent \in Nat /\ r.id \in Nat /\ r.id <= MaxRowId
    BY <1>1 DEF Row, IInv, IdInv, IdsBelow
  <2>3. clients # {}
    BY <1>17 DEF ReplaceInlinedRow
  <2>4. Proper({New("inlined", r.parent, r.id)}, next')
    BY <1>0, <2>1, <2>2, <2>3, NewProper DEF Kind
  <2> QED BY <1>4, <2>1, <2>4 DEF Kind
<1> QED BY <1>6, <1>7, <1>8, <1>9, <1>10, <1>11, <1>12, <1>13, <1>14, <1>15, <1>16, <1>17 DEF Operation

\* A new row stays one while the session's counters grow.
LEMMA StillFresh ==
    ASSUME NEW t, NEW c \in Counters, NEW d \in Counters, Fresh(t, c),
           c.catalog <= d.catalog, c.file <= d.file
    PROVE  Fresh(t, d)
<1>1. t \in Row /\ IdsBelow(t, c)
  BY DEF Fresh
<1>2. IdsBelow(t, d)
  BY <1>1 DEF IdsBelow, Row, Counters
<1> QED BY <1>2 DEF Fresh

\* Staging proper rows.
LEMMA StageStep ==
    ASSUME IInv, NEW T, Stage(T, FilesOf(T)), Proper(T, next')
    PROVE  IInv'
<1>1. /\ ops < MaxOps /\ head < MaxSnapshots /\ ops' = ops + 1
      /\ staged' = PutAll(staged, T) /\ stagedIdx' = PutAll(stagedIdx, FilesOf(T))
      /\ UNCHANGED <<clients, rows, index, head, counters, seen>>
  BY DEF Stage
<1>2. next \in Counters /\ next' \in Counters /\ next.catalog <= next'.catalog /\ next.file <= next'.file
  BY DEF Proper, IInv, IdInv, Counters
<1>3. RowInv'
  BY <1>1 DEF IInv, RowInv, Unique, Key
<1>4. IdInv'
  BY <1>1, <1>2 DEF IInv, IdInv, Counters, IdsBelow
<1>5. /\ \A y \in staged' : y \in T \/ y \in staged
      /\ Unique(staged') /\ FilesOf(staged') = PutAll(FilesOf(staged), FilesOf(T))
  BY <1>1, PutRows DEF IInv, StagedInv, Proper
<1>6. ASSUME NEW t PROVE /\ Fresh(t, next') => Fresh(t, next)'
                         /\ Ending(t) => Ending(t)'
  BY <1>1 DEF Fresh, IdsBelow, Covered, Key, Peek, Ending, Retired, Live
<1>7. StagedInv'
  <2>1. Unique(staged)'
    BY <1>5 DEF Unique, Key
  <2>2. ASSUME NEW t \in staged' PROVE Fresh(t, next)' \/ Ending(t)'
    <3>1. CASE t \in T
      BY <1>6, <3>1 DEF Proper
    <3>2. CASE t \in staged
      BY <1>2, <1>6, <3>2, StillFresh DEF IInv, StagedInv
    <3> QED BY <1>5, <3>1, <3>2
  <2>3. CascadeClosed(PutAll(staged, T))
    BY PutClosed DEF IInv, StagedInv, Proper
  <2>4. CascadeClosed(staged)'
    BY <1>1, <2>3 DEF CascadeClosed, Covered, Cascade, Key, Live
  <2> QED BY <2>1, <2>2, <2>4 DEF StagedInv
<1>8. TableInv'
  <2>1. ASSUME NEW t \in rows \cup staged', t.kind = "table"
        PROVE  \/ \E x \in rows \cup staged :
                      x.kind = "table" /\ x.id = t.id /\ Key(x) = Key(t) /\ t.id < next.catalog
               \/ t \in T /\ T = {t} /\ t.id >= next.catalog /\ t.id \in Nat
    <3>1. CASE t \in rows
      BY <2>1, <3>1 DEF IInv, IdInv, IdsBelow, RowInv, Row, Counters
    <3>2. CASE t \in staged /\ Fresh(t, next)
      BY <2>1, <3>2 DEF Fresh, IdsBelow
    <3>3. CASE Ending(t)
      <4>1. PICK x \in rows : t = Retired(x)
        BY <3>3 DEF Ending
      <4>2. x \in Row /\ x.kind = "table" /\ x.id = t.id /\ Key(x) = Key(t)
        BY <2>1, <4>1, RetiredRow DEF IInv, RowInv
      <4>3. x.id < next.catalog
        BY <4>2 DEF IInv, IdInv, IdsBelow, Row, Counters
      <4> QED BY <4>2, <4>3
    <3>4. CASE t \in T /\ ~Ending(t)
      BY <2>1, <3>4 DEF Proper, Fresh, Row
    <3> QED BY <1>5, <2>1, <3>1, <3>2, <3>3, <3>4 DEF IInv, StagedInv
  <2>2. ASSUME NEW t \in rows \cup staged', NEW q \in rows \cup staged',
               t.kind = "table", q.kind = "table", t.id = q.id
        PROVE  Key(t) = Key(q)
    <3>1. next.catalog \in Nat
      BY <1>2 DEF Counters
    <3>2. CASE t.id >= next.catalog /\ t.id \in Nat
      BY <2>1, <2>2, <3>1, <3>2
    <3>3. CASE ~(t.id >= next.catalog /\ t.id \in Nat)
      <4>1. PICK x \in rows \cup staged : x.kind = "table" /\ x.id = t.id /\ Key(x) = Key(t)
        BY <2>1, <2>2, <3>3
      <4>2. PICK y \in rows \cup staged : y.kind = "table" /\ y.id = q.id /\ Key(y) = Key(q)
        BY <2>1, <2>2, <3>3
      <4> QED BY <2>2, <4>1, <4>2 DEF IInv, TableInv
    <3> QED BY <3>2, <3>3
  <2> QED BY <1>1, <2>2 DEF TableInv, Key
<1>9. FileInv' /\ IndexInv'
  BY <1>1, <1>5 DEF IInv, FileInv, IndexInv, Live, FilesOf
<1>10. SessionInv'
  BY <1>1, BoundsAssumption DEF IInv, SessionInv
<1>11. TimeTravel' /\ CascadeComplete'
  BY <1>1 DEF IInv, TimeTravel, At, CascadeComplete, Live, Visible
<1> QED BY <1>3, <1>4, <1>7, <1>8, <1>9, <1>10, <1>11 DEF IInv

\* A session that fails leaves no trace.
LEMMA FailStep ==
    ASSUME IInv, FailSession
    PROVE  IInv'
<1>1. /\ staged' = {} /\ stagedIdx' = {} /\ ops' = 0 /\ next' = counters
      /\ UNCHANGED <<clients, rows, index, head, counters, seen>>
  BY DEF FailSession
<1>2. RowInv'
  BY <1>1 DEF IInv, RowInv, Unique, Key
<1>3. IdInv'
  BY <1>1 DEF IInv, IdInv, Counters, IdsBelow
<1>4. StagedInv'
  BY <1>1 DEF StagedInv, Unique, CascadeClosed, Covered
<1>5. TableInv' /\ FileInv' /\ IndexInv'
  BY <1>1 DEF IInv, TableInv, FileInv, IndexInv, FilesOf, Key, Live
<1>6. SessionInv'
  BY <1>1, BoundsAssumption DEF IInv, SessionInv
<1>7. TimeTravel' /\ CascadeComplete'
  BY <1>1 DEF IInv, TimeTravel, At, CascadeComplete, Live, Visible
<1> QED BY <1>2, <1>3, <1>4, <1>5, <1>6, <1>7 DEF IInv

-----------------------------------------------------------------------------
\* create_snapshot

\* A committed row that the session does not write.
Kept(y) == y \in rows /\ ~Covered(staged, y)

\* A committed row x that the session retires, as y.
Ends(x, y) ==
    /\ x \in rows /\ Covered(staged, x) /\ (clients = {} => Live(x))
    /\ Key(y) = Key(x) /\ Fact(y) = Fact(x)
    /\ y.kind = x.kind /\ y.parent = x.parent /\ y.id = x.id /\ y.begin = x.begin /\ y.end = Peek

\* The rows after a commit are rows that are kept, that end or that are new.
LEMMA MergedRows ==
    ASSUME IInv, CreateSnapshot
    PROVE  /\ \A y \in rows' : y \in Row /\ (Kept(y) \/ Fresh(y, next) \/ \E x \in rows : Ends(x, y))
           /\ \A y \in staged : y \in rows'
           /\ \A y : Kept(y) => y \in rows'
<1>1. rows' = PutAll(rows, staged)
  BY DEF CreateSnapshot
<1>2. ASSUME NEW y \in staged, Ending(y) PROVE y \in Row /\ \E x \in rows : Ends(x, y)
  <2>1. PICK x \in rows : y = Retired(x) /\ (clients = {} => Live(x))
    BY <1>2 DEF Ending
  <2>2. x \in Row
    BY DEF IInv, RowInv
  <2>3. Key(y) = Key(x) /\ Covered(staged, x)
    BY <2>1, <2>2, RetiredRow DEF IInv, Covered
  <2> QED BY <2>1, <2>2, <2>3, RetiredRow DEF IInv, Ends
<1>3. \A y \in rows' : y \in staged \/ Kept(y)
  BY <1>1, PutRows DEF Kept
<1>4. \A y : Kept(y) => y \in Row
  BY DEF Kept, IInv, RowInv
<1>5. \A y : Kept(y) => y \in rows'
  BY <1>1 DEF Kept, PutAll, Covered
<1>6. \A y \in staged : y \in rows'
  BY <1>1, PutRows
<1>7. \A y \in staged : (Fresh(y, next) /\ y \in Row) \/ Ending(y)
  BY DEF IInv, StagedInv, Fresh
<1> QED BY <1>2, <1>3, <1>4, <1>5, <1>6, <1>7

\* The rows after a commit have proper intervals and one row per key, and their
\* ids are below the counters the commit writes.
LEMMA CommittedRows ==
    ASSUME IInv, CreateSnapshot
    PROVE  RowInv' /\ IdInv'
<1>1. /\ head' = head + 1 /\ counters' = next /\ next' = next /\ head \in Nat /\ Peek = head + 1
      /\ rows' = PutAll(rows, staged)
  BY DEF CreateSnapshot, IInv, SessionInv, Peek
<1>2. ASSUME NEW y \in rows'
      PROVE  y \in Row /\ y.begin <= head' /\ (y.end = NoEnd \/ (y.begin < y.end /\ y.end <= head'))
  <2>1. y \in Row /\ y.begin \in Nat /\ y.end \in Nat
    BY MergedRows DEF Row
  <2>2. CASE Kept(y)
    BY <1>1, <2>1, <2>2 DEF Kept, IInv, RowInv
  <2>3. CASE Fresh(y, next)
    BY <1>1, <2>1, <2>3 DEF Fresh
  <2>4. ASSUME NEW x \in rows, Ends(x, y) PROVE y.begin <= head' /\ y.begin < y.end /\ y.end <= head'
    BY <1>1, <2>1, <2>4 DEF Ends, IInv, RowInv
  <2> QED BY <2>1, <2>2, <2>3, <2>4, MergedRows
<1>3. Unique(rows')
  BY <1>1, PutRows DEF IInv, RowInv, StagedInv
<1>4. RowInv'
  BY <1>2, <1>3 DEF RowInv, Unique, Key
<1>5. ASSUME NEW y \in rows' PROVE IdsBelow(y, next)
  <2>1. ASSUME NEW x \in rows PROVE IdsBelow(x, next)
    BY DEF IInv, RowInv, IdInv, IdsBelow, Row, Counters
  <2>2. CASE Kept(y)
    BY <2>1, <2>2 DEF Kept
  <2>3. CASE Fresh(y, next)
    BY <2>3 DEF Fresh
  <2>4. ASSUME NEW x \in rows, Ends(x, y) PROVE IdsBelow(y, next)
    BY <2>1, <2>4 DEF Ends, IdsBelow
  <2> QED BY <2>2, <2>3, <2>4, MergedRows
<1>6. IdInv'
  BY <1>1, <1>5 DEF IInv, IdInv, IdsBelow, Counters
<1> QED BY <1>4, <1>6

\* Tables keep their ids apart, and data files die with their tables.
LEMMA CommittedTables ==
    ASSUME IInv, CreateSnapshot
    PROVE  TableInv' /\ FileInv'
<1>1. staged' = {}
  BY DEF CreateSnapshot
<1>2. \A y \in rows' : y \in rows \cup staged
  BY PutRows DEF CreateSnapshot
<1>3. TableInv'
  BY <1>1, <1>2 DEF IInv, TableInv, Key
<1>4. ASSUME NEW f \in rows', NEW t \in rows', f.kind = "file", ~Live(f), t.kind = "table", Live(t),
             t.id = f.parent
      PROVE  FALSE
  <2>0. Peek # NoEnd
    BY DEF Peek, NoEnd, IInv, SessionInv
  <2>1. Kept(t) \/ Fresh(t, next)
    BY <1>4, <2>0, MergedRows DEF Ends, Live
  <2>2. \E x \in rows : /\ x.kind = "file" /\ x.parent = f.parent
                        /\ (~Live(x) \/ Covered(staged, x))
    BY <1>4, MergedRows DEF Kept, Fresh, Ends, Live
  <2>3. PICK x \in rows : /\ x.kind = "file" /\ x.parent = f.parent
                          /\ (~Live(x) \/ Covered(staged, x))
    BY <2>2
  <2>4. CASE Kept(t)
    BY <1>4, <2>3, <2>4 DEF Kept, IInv, FileInv, StagedInv, CascadeClosed
  <2>5. CASE Fresh(t, next)
    <3>1. x.parent \in Nat /\ x.parent < counters.catalog
      BY <2>3 DEF IInv, RowInv, IdInv, IdsBelow, Row
    <3>2. t.id >= counters.catalog
      BY <1>4, <2>5 DEF Fresh
    <3> QED BY <1>4, <2>3, <3>1, <3>2 DEF IInv, IdInv, Counters
  <2> QED BY <2>1, <2>4, <2>5
<1> QED BY <1>3, <1>4 DEF FileInv, Live

\* Readers of the snapshots so far see after a commit what they saw before it.
LEMMA CommitKeepsHistory ==
    ASSUME IInv, CreateSnapshot
    PROVE  TimeTravel'
<1>1. /\ head' = head + 1 /\ clients' = clients /\ head \in Nat /\ Peek = head + 1
      /\ seen' = [s \in 1..(head + 1) |->
                     IF s <= head THEN seen[s]
                     ELSE {Fact(r) : r \in {x \in rows' : Visible(x, s)}}]
  BY DEF CreateSnapshot, IInv, SessionInv, Peek
<1>2. ASSUME clients = {}, NEW s \in 1..head, NEW x \in rows, Visible(x, s)
      PROVE  \E y \in rows' : Fact(y) = Fact(x) /\ Visible(y, s)
  <2>1. CASE Kept(x)
    BY <1>2, <2>1, MergedRows
  <2>2. CASE ~Kept(x)
    <3>1. PICK y \in staged : Key(y) = Key(x)
      BY <2>2 DEF Kept, Covered
    <3>2. x \in Row /\ x.begin <= head /\ x.begin \in Nat
      BY DEF IInv, RowInv, Row
    <3>3. ~Fresh(y, next)
      <4>1. /\ y.kind = x.kind /\ y.id = x.id /\ y.parent = x.parent
            /\ (y.kind \in Versioned => y.begin = x.begin)
        BY <3>1, SameKey
      <4>2. IdsBelow(x, counters) /\ counters \in Counters
        BY DEF IInv, IdInv
      <4>3. CASE x.kind \in Versioned
        BY <1>1, <3>2, <4>1, <4>3 DEF Fresh
      <4>4. CASE x.kind \in {"schema", "file", "delete"}
        BY <3>2, <4>1, <4>2, <4>4 DEF Fresh, IdsBelow, Counters, Row
      <4>5. CASE x.kind = "inlined"
        BY <1>2, <3>1, <4>1, <4>5 DEF Fresh, Covered
      <4> QED BY <3>2, <4>3, <4>4, <4>5 DEF Row, Kind, Versioned
    <3>4. PICK z \in rows : y = Retired(z) /\ Live(z)
      BY <1>2, <3>3 DEF IInv, StagedInv, Ending
    <3>5. z \in Row /\ Key(z) = Key(x)
      BY <3>1, <3>4, RetiredRow DEF IInv, RowInv
    <3>6. z = x
      BY <3>5 DEF IInv, RowInv, Unique
    <3>7. Fact(y) = Fact(x) /\ y.begin = x.begin /\ y.end = Peek
      BY <3>2, <3>4, <3>6, RetiredRow DEF IInv
    <3>8. Visible(y, s)
      BY <1>1, <1>2, <3>7 DEF Visible
    <3> QED BY <3>7, <3>8, MergedRows
  <2> QED BY <2>1, <2>2
<1>3. ASSUME clients = {}, NEW s \in 1..head, NEW y \in rows', Visible(y, s)
      PROVE  \E x \in rows : Fact(x) = Fact(y) /\ Visible(x, s)
  <2>1. CASE Kept(y)
    BY <1>3, <2>1 DEF Kept
  <2>2. CASE Fresh(y, next)
    BY <1>1, <1>3, <2>2 DEF Fresh, Visible
  <2>3. ASSUME NEW x \in rows, Ends(x, y) PROVE Fact(x) = Fact(y) /\ Visible(x, s)
    BY <1>3, <2>3 DEF Ends, Live, Visible
  <2> QED BY <2>1, <2>2, <2>3, MergedRows
<1>4. ASSUME clients = {}, NEW s \in 1..head
      PROVE  At(s) = {Fact(r) : r \in {x \in rows' : Visible(x, s)}}
  BY <1>2, <1>3, <1>4 DEF At
<1>5. ASSUME clients' = {}, NEW s \in 1..head'
      PROVE  {Fact(r) : r \in {x \in rows' : Visible(x, s)}} = seen'[s]
  <2>1. CASE s <= head
    <3>1. s \in 1..head
      BY <1>1, <2>1
    <3>2. seen'[s] = seen[s] /\ seen[s] = At(s)
      BY <1>1, <1>5, <3>1 DEF IInv, TimeTravel
    <3> QED BY <1>1, <1>4, <1>5, <3>1, <3>2
  <2>2. CASE ~(s <= head)
    BY <1>1, <2>2
  <2> QED BY <2>1, <2>2
<1> QED BY <1>5 DEF TimeTravel, At, Fact, Visible

\* r was registered for the table with id t, directly or through a data file of R.
BelongsTo(R, r, t) ==
    \/ r.kind \in {"column", "tag", "inlined", "file"} /\ r.parent = t
    \/ r.kind = "delete" /\ \E f \in R : f.kind = "file" /\ f.id = r.parent /\ f.parent = t

\* A dropped table takes with it all that was committed for it before.
LEMMA CommitKeepsCascade ==
    ASSUME IInv, CreateSnapshot
    PROVE  CascadeComplete'
<1>1. clients' = clients /\ head \in Nat /\ Peek = head + 1 /\ Peek # NoEnd
  BY DEF CreateSnapshot, IInv, SessionInv, Peek, NoEnd
<1>2. ASSUME NEW x \in rows, NEW id, BelongsTo(rows', x, id) PROVE BelongsTo(rows, x, id)
  <2>1. CASE x.kind # "delete"
    BY <1>2, <2>1 DEF BelongsTo
  <2>2. CASE x.kind = "delete"
    <3>1. PICK f \in rows' : f.kind = "file" /\ f.id = x.parent /\ f.parent = id
      BY <1>2, <2>2 DEF BelongsTo
    <3>2. ~Fresh(f, next)
      <4>1. x.parent \in Nat /\ x.parent < counters.file /\ counters.file \in Nat
        BY <2>2 DEF IInv, RowInv, IdInv, IdsBelow, Row, Counters
      <4> QED BY <3>1, <4>1 DEF Fresh
    <3>3. \E g \in rows : g.kind = "file" /\ g.id = x.parent /\ g.parent = id
      BY <3>1, <3>2, MergedRows DEF Kept, Ends
    <3> QED BY <2>2, <3>3 DEF BelongsTo
  <2> QED BY <2>1, <2>2
<1>3. ASSUME clients = {}, NEW t \in rows, t.kind = "table", ~Live(t),
             NEW x \in rows, BelongsTo(rows, x, t.id), x.begin < t.end
      PROVE  ~Live(x) /\ x.end <= t.end
  BY <1>3 DEF IInv, CascadeComplete, BelongsTo
<1>4. ASSUME clients = {}, NEW t \in rows', t.kind = "table", ~Live(t),
             NEW r \in rows', BelongsTo(rows', r, t.id), r.begin < t.end
      PROVE  ~Live(r) /\ r.end <= t.end
  <2>1. /\ r \in Row /\ t \in Row /\ r.begin \in Nat /\ r.end \in Nat
        /\ t.begin \in Nat /\ t.end \in Nat
    BY MergedRows DEF Row
  <2>2. ~Fresh(t, next)
    BY <1>4 DEF Fresh, Live
  <2>3. CASE Kept(t)
    <3>1. t \in rows /\ t.end <= head
      BY <1>4, <2>3 DEF Kept, IInv, RowInv, Live
    <3>2. ~Fresh(r, next)
      BY <1>1, <1>4, <2>1, <3>1 DEF Fresh
    <3>3. CASE Kept(r)
      BY <1>2, <1>3, <1>4, <3>1, <3>3 DEF Kept
    <3>4. ASSUME NEW x \in rows, Ends(x, r) PROVE FALSE
      <4>1. BelongsTo(rows', x, t.id) /\ x.begin < t.end /\ Live(x)
        BY <1>4, <3>4 DEF Ends, BelongsTo
      <4> QED BY <1>2, <1>3, <1>4, <3>1, <4>1
    <3> QED BY <3>2, <3>3, <3>4, MergedRows
  <2>4. ASSUME NEW u \in rows, Ends(u, t) PROVE ~Live(r) /\ r.end <= t.end
    <3>1. /\ u.kind = "table" /\ u.id = t.id /\ Live(u) /\ Covered(staged, u) /\ t.end = Peek
      BY <1>4, <2>4 DEF Ends
    <3>2. ~Fresh(r, next)
      BY <1>1, <1>4, <2>1, <3>1 DEF Fresh
    <3>3. CASE Kept(r) /\ ~Live(r)
      BY <1>1, <2>1, <3>1, <3>3 DEF Kept, IInv, RowInv, Live
    <3>4. CASE Kept(r) /\ Live(r)
      <4>1. r \in rows /\ BelongsTo(rows, r, u.id)
        BY <1>2, <1>4, <3>1, <3>4 DEF Kept
      <4>2. \A f \in rows : f.kind = "file" /\ f.parent = u.id => Live(f)
        BY <3>1 DEF IInv, FileInv
      <4>3. r \in Cascade(u)
        BY <3>4, <4>1, <4>2 DEF Cascade, BelongsTo
      <4> QED BY <3>1, <3>4, <4>3 DEF Kept, IInv, StagedInv, CascadeClosed
    <3>5. ASSUME NEW x \in rows, Ends(x, r) PROVE ~Live(r) /\ r.end <= t.end
      BY <1>1, <3>1, <3>5 DEF Ends, Live
    <3> QED BY <3>2, <3>3, <3>4, <3>5, MergedRows
  <2> QED BY <2>2, <2>3, <2>4, MergedRows
<1> QED BY <1>1, <1>4 DEF CascadeComplete, BelongsTo, Live

LEMMA CommitStep ==
    ASSUME IInv, CreateSnapshot
    PROVE  IInv'
<1>1. /\ head' = head + 1 /\ ops' = 0 /\ ops > 0 /\ staged' = {} /\ stagedIdx' = {}
      /\ rows' = PutAll(rows, staged) /\ index' = PutAll(index, stagedIdx)
      /\ DOMAIN seen' = 1..(head + 1)
  BY DEF CreateSnapshot
<1>2. StagedInv'
  BY <1>1 DEF StagedInv, Unique, CascadeClosed, Covered
<1>3. SessionInv'
  BY <1>1, BoundsAssumption DEF IInv, SessionInv
<1>4. IndexInv'
  <2>1. index' = FilesOf(rows')
    BY <1>1, PutRows DEF IInv, IndexInv
  <2> QED BY <1>1, <2>1 DEF IndexInv, FilesOf
<1> QED BY <1>2, <1>3, <1>4, CommittedRows, CommittedTables, CommitKeepsHistory, CommitKeepsCascade
        DEF IInv

-----------------------------------------------------------------------------
LEMMA InitInv == Init => IInv
<1> SUFFICES ASSUME Init PROVE IInv
  OBVIOUS
<1> DEFINE r == [kind |-> "schema", parent |-> 0, id |-> 1, begin |-> 1, end |-> NoEnd]
<1>1. rows = {r} /\ r \in Row /\ r.begin = 1 /\ r.end = NoEnd /\ r.kind = "schema" /\ r.id = 1
  BY DEF Init, Row, Kind, NoEnd
<1> HIDE DEF r
<1>2. head = 1 /\ index = {} /\ staged = {} /\ stagedIdx = {} /\ ops = 0
  BY DEF Init
<1>3. counters \in Counters /\ next = counters /\ counters.catalog = 2 /\ counters.file = 1
  BY DEF Init, Counters
<1>4. RowInv
  BY <1>1, <1>2 DEF RowInv, Unique
<1>5. IdInv
  BY <1>1, <1>3 DEF IdInv, IdsBelow, Counters
<1>6. StagedInv /\ TableInv
  BY <1>1, <1>2 DEF StagedInv, TableInv, Unique, CascadeClosed, Covered
<1>7. FileInv /\ IndexInv
  BY <1>1, <1>2 DEF FileInv, IndexInv, FilesOf
<1>8. SessionInv
  BY <1>2, BoundsAssumption DEF SessionInv, Init
<1>9. TimeTravel
  <2>1. seen[1] = At(1)
    BY DEF Init
  <2> QED BY <1>2, <2>1 DEF TimeTravel
<1>10. CascadeComplete
  BY <1>1 DEF CascadeComplete
<1> QED BY <1>4, <1>5, <1>6, <1>7, <1>8, <1>9, <1>10 DEF IInv

\* The inductive invariant holds of every reachable catalog.
THEOREM Invariance == Spec => []IInv
<1>1. IInv /\ Next => IInv'
  BY OperationStages, StageStep, FailStep, CommitStep DEF Next, Operation
<1>2. IInv /\ UNCHANGED vars => IInv'
  BY DEF vars, IInv, RowInv, IdInv, StagedInv, TableInv, FileInv, IndexInv, SessionInv, TimeTravel,
         CascadeComplete, Unique, CascadeClosed, Covered, Cascade, Fresh, Ending, Retired, Peek,
         IdsBelow, FilesOf, Key, Live, At, Visible, Fact
<1> QED BY <1>1, <1>2, InitInv, PTL DEF Spec

\* Rows and index entries are well formed, with one row per key, and a session
\* stages rows of its own snapshot only.
THEOREM TypeCorrect == Spec => []TypeOK
<1>1. IInv => TypeOK
  <2> SUFFICES ASSUME IInv PROVE TypeOK
    OBVIOUS
  <2>1. ASSUME NEW t \in staged PROVE t \in Row /\ (t.begin = Peek \/ t.end = Peek)
    <3>1. CASE Fresh(t, next)
      BY <3>1 DEF Fresh
    <3>2. CASE Ending(t)
      BY <3>2, RetiredRow DEF Ending, IInv, RowInv
    <3> QED BY <3>1, <3>2 DEF IInv, StagedInv
  <2>2. rows \in SUBSET Row /\ staged \in SUBSET Row
    BY <2>1 DEF IInv, RowInv
  <2>3. index \subseteq rows /\ stagedIdx \subseteq staged
    BY DEF IInv, IndexInv, FilesOf
  <2>4. \A S \in {rows, index, staged, stagedIdx} : \A r, q \in S : Key(r) = Key(q) => r = q
    <3>1. Unique(rows) /\ Unique(staged)
      BY DEF IInv, RowInv, StagedInv
    <3> QED BY <2>3, <3>1 DEF Unique
  <2>5. head \in 1..MaxSnapshots /\ ops \in 0..MaxOps /\ DOMAIN seen = 1..head
    BY BoundsAssumption DEF IInv, SessionInv
  <2> QED BY <2>1, <2>2, <2>3, <2>4, <2>5 DEF TypeOK
<1> QED BY <1>1, Invariance, PTL

\* A reader finds at every snapshot exactly what one found when it was new, as
\* long as clients retire live rows.
THEOREM TimeTravelHolds == Spec => []TimeTravel
<1>1. IInv => TimeTravel
  BY DEF IInv
<1> QED BY <1>1, Invariance, PTL

\* drop_table leaves nothing of the table visible, delete files included.
THEOREM CascadeIsComplete == Spec => []CascadeComplete
<1>1. IInv => CascadeComplete
  BY DEF IInv
<1> QED BY <1>1, Invariance, PTL

\* list_data_files, which scans the index, agrees with the rows at every snapshot.
THEOREM IndexAgreesHolds == Spec => []IndexAgrees
<1>1. IInv => IndexAgrees
  <2> SUFFICES ASSUME IInv, NEW s \in 1..head, NEW t \in 1..MaxCatalogId
               PROVE  ListDataFiles(t, s) =
                          {r \in rows : r.kind = "file" /\ r.parent = t /\ Visible(r, s)}
    BY DEF IndexAgrees
  <2>1. \A r \in rows : r.begin \in Nat /\ r.end \in Nat
    BY DEF IInv, RowInv, Row
  <2>2. \A r \in rows : Visible(r, s) <=> r.begin <= s /\ ~(r.end # NoEnd /\ r.end <= s)
    BY <2>1 DEF Visible, IInv, SessionInv
  <2> QED BY <2>2 DEF IInv, IndexInv, FilesOf, ListDataFiles
<1> QED BY <1>1, Invariance, PTL

\* snapshot_diff(from, to) applied to the state at `from` gives the state at `to`.
THEOREM DiffReplaysHolds == Spec => []DiffReplays
<1>1. IInv => DiffReplays
  <2> SUFFICES ASSUME IInv, clients = {}, NEW to \in 1..head, NEW from \in 1..to
               PROVE  seen[to] = (seen[from] \cup {Fact(r) : r \in Added(from, to)})
                                     \ {Fact(r) : r \in Removed(from, to)}
    BY DEF DiffReplays
  <2>1. to \in Nat /\ from \in Nat /\ from <= to /\ from \in 1..head
    BY DEF IInv, SessionInv
  <2>2. seen[to] = At(to) /\ seen[from] = At(from)
    BY <2>1 DEF IInv, TimeTravel
  <2>3. \A r, q \in rows : Fact(r) = Fact(q) => r = q
    BY DEF IInv, RowInv, Unique, Fact, Key
  <2>4. ASSUME NEW r \in rows
        PROVE  Visible(r, to) <=>
                   (Visible(r, from) \/ r \in Added(from, to)) /\ r \notin Removed(from, to)
    <3>1. r.begin \in Nat /\ r.end \in Nat /\ (r.end = NoEnd \/ r.begin < r.end)
      BY DEF IInv, RowInv, Row
    <3> QED BY <2>1, <3>1 DEF Visible, Added, Removed
  <2>5. Added(from, to) \subseteq rows /\ Removed(from, to) \subseteq rows
    BY DEF Added, Removed
  <2>6. At(to) = (At(from) \cup {Fact(r) : r \in Added(from, to)})
                     \ {Fact(r) : r \in Removed(from, to)}
    BY <2>3, <2>4, <2>5 DEF At
  <2> QED BY <2>2, <2>6
<1> QED BY <1>1, Invariance, PTL

\* What has left the latest snapshot does not come back, whatever clients retire
\* twice or replace.
THEOREM NothingResurrected == Spec => NoResurrection
<1> DEFINE Gone == \A r \in rows : Fact(r) \notin At(head) => Fact(r) \notin At(head)'
<1>1. IInv /\ [Next]_vars => [Gone]_vars
  <2> SUFFICES ASSUME IInv, Next PROVE Gone
    OBVIOUS
  <2>1. CASE CreateSnapshot
    <3> SUFFICES ASSUME NEW r \in rows, Fact(r) \in At(head)' PROVE Fact(r) \in At(head)
      OBVIOUS
    <3>1. head' = head + 1 /\ head \in Nat /\ Peek = head + 1
      BY <2>1 DEF CreateSnapshot, IInv, SessionInv, Peek
    <3>2. PICK y \in rows' : Fact(y) = Fact(r) /\ Visible(y, head + 1)
      BY <3>1 DEF At, Fact, Visible
    <3>3. r.begin \in Nat /\ r.begin <= head /\ y.begin = r.begin
      BY <3>2 DEF IInv, RowInv, Row, Fact
    <3>4. ~Fresh(y, next)
      BY <3>1, <3>3 DEF Fresh
    <3>5. \A x \in rows : ~Ends(x, y)
      BY <3>1, <3>2 DEF Ends, Visible, NoEnd
    <3>6. Kept(y)
      BY <2>1, <3>4, <3>5, MergedRows
    <3>7. y \in rows /\ y.end \in Nat
      BY <3>6 DEF Kept, IInv, RowInv, Row
    <3>8. Visible(y, head)
      BY <3>1, <3>2, <3>3, <3>7 DEF Visible
    <3> QED BY <3>2, <3>7, <3>8 DEF At
  <2>2. CASE ~CreateSnapshot
    <3>1. UNCHANGED <<rows, head>>
      BY <2>2, OperationStages DEF Next, Operation, FailSession, Stage
    <3> QED BY <3>1 DEF At, Visible, Fact
  <2> QED BY <2>1, <2>2
<1> QED BY <1>1, Invariance, PTL DEF Spec, NoResurrection
=============================================================================
