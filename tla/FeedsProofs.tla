----------------------------- MODULE FeedsProofs -----------------------------
(***************************************************************************)
(* Feeds, for any number of snapshots, tables, files, consumers and        *)
(* batches: exactly-once ingestion (for streams of batches of one length)  *)
(* and the completeness of the change feed.                                *)
(*                                                                         *)
(* The inductive invariant has three parts.  CatInv: the rows tell what    *)
(* each snapshot not below the last excision showed (Tells), which needs   *)
(* that a fact is of one row and that no row begins or ends later than the *)
(* head; the rows of the sink are in it only when they are never           *)
(* overwritten.  SinkInv: the inlined rows are those of the batches up to  *)
(* the offset, each once; their numbers grow with the batch, so that the   *)
(* next batch overwrites none; all of them are live until the sink's table *)
(* is dropped, and its id never comes back.  FeedInv: the pending export   *)
(* leads from the facts written to the facts of the snapshot it names.     *)
(*                                                                         *)
(* CommitStep has all that the steps have in common: each is a commit that *)
(* puts new rows and ends live ones (Puts).                                *)
(*                                                                         *)
(* CatalogQuery, on the same catalog: statements that read it scan by scan *)
(* while it changes answer as of their snapshot, the pruned files and the  *)
(* record counts miss no file, and table_changes is exact.  The invariant  *)
(* IInvQuery adds to CatInv and SinkInv that what is live and what is      *)
(* shown are trees (TreeInv: otherwise a listing that goes down from the   *)
(* schemas would miss rows), that a file id is given once (FileInv) and    *)
(* that every file has its statistics before it is shown (StatsInv); and   *)
(* of a statement that what it is to find is found or lies below a scan    *)
(* that is still to come (Covered).                                        *)
(***************************************************************************)
EXTENDS CatalogQuery, FiniteSetTheorems, SequenceTheorems, TLAPS

\* All batches of the stream have one length (the last one included): a condition
\* on the stream, without which the row ids of batches overlap.
SameLength == \A k, l \in DOMAIN Lens : Lens[k] = Lens[l]

\* The kinds whose rows are never overwritten.
Steady(kind) == kind # "inlined" \/ SameLength

KindName == {"schema", "table", "column", "file", "inlined"}

Datum == Nat \cup (Nat \X Nat)

Row == [kind : KindName, parent : Datum, id : Nat, data : Datum, begin : Nat, end : Nat]

FactSet == KindName \X Datum \X Nat \X Nat \X Datum

\* The ids of tables and files are within their bounds.
Good(kind, id) ==
    /\ kind = "table" => id \in 1..MaxTables
    /\ kind = "file" => id \in 1..MaxFiles

Fresh(r) == r.begin = Peek /\ r.end = NoEnd

CatType ==
    /\ head \in Nat \ {0} /\ version \in Nat
    /\ retainFrom \in Nat /\ excised \in Nat /\ excised <= retainFrom /\ retainFrom <= head
    /\ rows \in SUBSET Row /\ session \in Seq(Row)
    /\ shown \in Seq(SUBSET FactSet) /\ Len(shown) = head

\* Rows begin and end at snapshots there have been, and a fact is of one row.
RowsInv ==
    /\ \A r \in rows : /\ Good(r.kind, r.id) /\ r.begin <= head
                       /\ r.end = NoEnd \/ (r.begin < r.end /\ r.end <= head)
    /\ \A r, x \in rows : Fact(r) = Fact(x) => r = x

\* The files of a session begin at the snapshot it will make.
SessionInv ==
    \A i \in 1..Len(session) :
        /\ session[i].kind = "file" /\ Good("file", session[i].id) /\ Fresh(session[i])

\* The rows tell what the snapshots not below the last excision showed.
Tells(s) ==
    /\ \A r \in rows : Steady(r.kind) /\ Visible(r, s) => Fact(r) \in shown[s]
    /\ \A f \in shown[s] : Steady(f[1]) => \E r \in rows : Visible(r, s) /\ Fact(r) = f

ShownInv ==
    \A s \in 1..head :
        /\ \A f \in shown[s] : Good(f[1], f[3])
        /\ excised <= s => Tells(s)

CatInv == CatType /\ RowsInv /\ SessionInv /\ ShownInv

-----------------------------------------------------------------------------
\* Commits

LEMMA FactParts ==
    ASSUME NEW r \in Row
    PROVE  /\ Fact(r) \in FactSet
           /\ Fact(r)[1] = r.kind /\ Fact(r)[2] = r.parent /\ Fact(r)[3] = r.id
           /\ Fact(r)[4] = r.begin /\ Fact(r)[5] = r.data
  BY DEF Fact, Row, FactSet

LEMMA FactDetermines ==
    ASSUME NEW r \in Row, NEW x \in Row, Fact(r) = Fact(x), r.end = x.end
    PROVE  r = x
  <1>1. /\ r.kind = x.kind /\ r.parent = x.parent /\ r.id = x.id /\ r.begin = x.begin
        /\ r.data = x.data
    BY DEF Fact
  <1> QED BY <1>1 DEF Row

Ended(r) == [r EXCEPT !.end = Peek]

LEMMA EndedParts ==
    ASSUME CatType, NEW r \in Row
    PROVE  /\ Ended(r) \in Row /\ Fact(Ended(r)) = Fact(r)
           /\ Ended(r).kind = r.kind /\ Ended(r).id = r.id /\ Ended(r).begin = r.begin
           /\ Ended(r).end = Peek /\ Ended(r).parent = r.parent /\ Ended(r).data = r.data
  <1>1. Peek \in Nat
    BY DEF CatType, Peek
  <1> QED BY <1>1 DEF Ended, Row, Fact

LEMMA FactsType ==
    ASSUME NEW R \in SUBSET Row, NEW s
    PROVE  Facts(R, s) \in SUBSET FactSet
  BY FactParts DEF Facts

\* What a commit puts: new rows, and live rows that end.
Puts(Out, In) ==
    /\ Out \in SUBSET rows /\ In \in SUBSET Row
    /\ \A x \in In : Good(x.kind, x.id)
    /\ \A x \in In : Fresh(x) \/ \E r \in Out : Live(r) /\ x = Ended(r)
    /\ \A r \in Out : Steady(r.kind) => Live(r) /\ Ended(r) \in In

LEMMA CommitType ==
    ASSUME CatType, NEW Out, NEW In, Puts(Out, In), Commit(Out, In), version' \in Nat
    PROVE  /\ CatType' /\ rows' \in SUBSET Row /\ head' = head + 1
           /\ shown' = Append(shown, Facts(rows', Peek))
           /\ shown'[head + 1] = Facts(rows', Peek)
           /\ \A s \in 1..head : shown'[s] = shown[s]
  <1>1. /\ session' = <<>> /\ head' = head + 1 /\ rows' = (rows \ Out) \cup In
        /\ shown' = Append(shown, Facts(rows', Peek)) /\ UNCHANGED <<retainFrom, excised>>
    BY DEF Commit, NoSession, Peek, floor
  <1>2. rows' \in SUBSET Row
    BY <1>1 DEF CatType, Puts
  <1>3. Facts(rows', Peek) \in SUBSET FactSet
    BY <1>2, FactsType
  <1>4. /\ shown' \in Seq(SUBSET FactSet) /\ Len(shown') = head + 1
        /\ shown'[head + 1] = Facts(rows', Peek)
        /\ \A s \in 1..head : shown'[s] = shown[s]
    <2> DEFINE new == Facts(rows', Peek)
    <2>1. /\ shown \in Seq(SUBSET FactSet) /\ Len(shown) = head /\ new \in SUBSET FactSet
          /\ shown' = Append(shown, new)
      BY <1>1, <1>3 DEF CatType
    <2> HIDE DEF new
    <2>2. /\ Append(shown, new) \in Seq(SUBSET FactSet)
          /\ Len(Append(shown, new)) = Len(shown) + 1
          /\ \A i \in 1..Len(shown) : Append(shown, new)[i] = shown[i]
          /\ Append(shown, new)[Len(shown) + 1] = new
      BY <2>1, AppendProperties
    <2>3. /\ shown' \in Seq(SUBSET FactSet) /\ Len(shown') = head + 1
          /\ shown'[head + 1] = new /\ \A s \in 1..head : shown'[s] = shown[s]
      BY <2>1, <2>2
    <2> QED BY <2>3 DEF new
  <1>5. head + 1 \in Nat \ {0} /\ retainFrom <= head + 1 /\ <<>> \in Seq(Row)
    BY DEF CatType
  <1>6. CatType'
    BY <1>1, <1>2, <1>4, <1>5 DEF CatType
  <1> QED BY <1>1, <1>2, <1>4, <1>6

LEMMA CommitRows ==
    ASSUME CatType, RowsInv, NEW Out, NEW In, Puts(Out, In), Commit(Out, In)
    PROVE  RowsInv'
  <1>1. /\ rows' = (rows \ Out) \cup In /\ head' = head + 1 /\ head \in Nat
        /\ rows \in SUBSET Row /\ In \in SUBSET Row /\ Out \in SUBSET rows
    BY DEF Commit, Peek, CatType, Puts
  <1>2. ASSUME NEW r \in In
        PROVE  \/ r.begin = head + 1 /\ r.end = NoEnd
               \/ \E o \in Out : Live(o) /\ r = Ended(o) /\ Fact(r) = Fact(o)
                                 /\ r.begin <= head /\ r.end = head + 1 /\ r.begin \in Nat
    <2>1. CASE Fresh(r)
      BY <2>1 DEF Fresh, Peek
    <2>2. CASE \E o \in Out : Live(o) /\ r = Ended(o)
      <3>1. PICK o \in Out : Live(o) /\ r = Ended(o)
        BY <2>2
      <3>2. o \in rows /\ o \in Row /\ o.begin <= head /\ o.begin \in Nat
        BY <1>1 DEF RowsInv, Row
      <3> QED BY <3>1, <3>2, EndedParts DEF Peek
    <2> QED BY <2>1, <2>2 DEF Puts
  <1>3. ASSUME NEW r \in rows'
        PROVE  /\ Good(r.kind, r.id) /\ r.begin <= head'
               /\ r.end = NoEnd \/ (r.begin < r.end /\ r.end <= head')
    <2>1. CASE r \in In
      BY <1>1, <1>2, <2>1 DEF Puts
    <2>2. CASE r \in rows
      <3>1. /\ Good(r.kind, r.id) /\ r.begin <= head
            /\ r.end = NoEnd \/ (r.begin < r.end /\ r.end <= head)
        BY <2>2 DEF RowsInv
      <3>2. r.begin \in Nat /\ r.end \in Nat
        BY <1>1, <2>2 DEF Row
      <3> QED BY <1>1, <3>1, <3>2
    <2> QED BY <1>1, <2>1, <2>2
  <1>4. ASSUME NEW r \in rows', NEW x \in rows', Fact(r) = Fact(x)
        PROVE  r = x
    <2>1. ASSUME NEW a \in rows \ Out, NEW b \in In, Fact(a) = Fact(b)
          PROVE  FALSE
      <3>1. a.begin = b.begin /\ a.begin <= head /\ a.begin \in Nat
        BY <1>1, <2>1, FactParts DEF RowsInv, Row
      <3>2. PICK o \in Out : Fact(b) = Fact(o)
        BY <1>1, <1>2, <3>1
      <3>3. a = o
        BY <1>1, <2>1, <3>2 DEF RowsInv
      <3> QED BY <2>1, <3>3
    <2>2. CASE r \in In /\ x \in In
      <3>1. r \in Row /\ x \in Row /\ r.begin = x.begin
        BY <1>1, <1>4, <2>2, FactParts
      <3>2. CASE r.begin = head + 1
        <4>1. r.end = NoEnd /\ x.end = NoEnd
          <5>1. \A a \in In : a.begin = head + 1 => a.end = NoEnd
            BY <1>1, <1>2
          <5> QED BY <2>2, <3>1, <3>2, <5>1
        <4> QED BY <1>4, <3>1, <4>1, FactDetermines
      <3>3. CASE r.begin # head + 1
        <4>1. r.end = head + 1 /\ x.end = head + 1
          BY <1>1, <1>2, <2>2, <3>1, <3>3
        <4> QED BY <1>4, <3>1, <4>1, FactDetermines
      <3> QED BY <3>2, <3>3
    <2>3. CASE r \in rows \ Out /\ x \in rows \ Out
      BY <1>4, <2>3 DEF RowsInv
    <2> QED BY <1>1, <1>4, <2>1, <2>2, <2>3
  <1> QED BY <1>3, <1>4 DEF RowsInv

LEMMA CommitShown ==
    ASSUME CatType, RowsInv, ShownInv, NEW Out, NEW In, Puts(Out, In), Commit(Out, In),
           version' \in Nat
    PROVE  ShownInv'
  <1>1. /\ rows' = (rows \ Out) \cup In /\ head' = head + 1 /\ head \in Nat \ {0}
        /\ rows \in SUBSET Row /\ In \in SUBSET Row /\ Out \in SUBSET rows
        /\ excised' = excised /\ rows' \in SUBSET Row
        /\ shown'[head + 1] = Facts(rows', Peek) /\ \A s \in 1..head : shown'[s] = shown[s]
        /\ Peek = head + 1
    BY CommitType DEF Commit, Peek, CatType, Puts, floor
  <1>2. \A r \in rows' : Good(r.kind, r.id)
    BY <1>1 DEF RowsInv, Puts
  <1>3. /\ \A f \in shown'[head + 1] : Good(f[1], f[3])
        /\ \A r \in rows' : Visible(r, head + 1) => Fact(r) \in shown'[head + 1]
        /\ \A f \in shown'[head + 1] : \E r \in rows' : Visible(r, head + 1) /\ Fact(r) = f
    <2>1. \A f \in shown'[head + 1] : \E r \in rows' : Visible(r, head + 1) /\ Fact(r) = f
      BY <1>1 DEF Facts
    <2>2. \A r \in rows' : Visible(r, head + 1) => Fact(r) \in shown'[head + 1]
      BY <1>1 DEF Facts
    <2>3. \A f \in shown'[head + 1] : Good(f[1], f[3])
      <3> TAKE f \in shown'[head + 1]
      <3>1. PICK r \in rows' : Fact(r) = f
        BY <2>1
      <3>2. r \in Row /\ f[1] = r.kind /\ f[3] = r.id
        BY <1>1, <3>1, FactParts
      <3> QED BY <1>2, <3>2
    <2> QED BY <2>1, <2>2, <2>3
  <1>4. ASSUME NEW s \in 1..head, excised <= s
        PROVE  /\ \A r \in rows' : Steady(r.kind) /\ Visible(r, s) => Fact(r) \in shown[s]
               /\ \A f \in shown[s] : Steady(f[1]) =>
                      \E r \in rows' : Visible(r, s) /\ Fact(r) = f
    <2>1. Tells(s) /\ s \in Nat /\ s <= head
      BY <1>1, <1>4 DEF ShownInv
    <2>2. ASSUME NEW o \in rows, Live(o)
          PROVE  Visible(Ended(o), s) <=> Visible(o, s)
      <3>1. o.end = NoEnd /\ Ended(o).begin = o.begin /\ Ended(o).end = head + 1
        BY <1>1, <2>2, EndedParts DEF Live
      <3> QED BY <1>1, <2>1, <3>1 DEF Visible
    <2>3. ASSUME NEW r \in rows', Steady(r.kind), Visible(r, s)
          PROVE  Fact(r) \in shown[s]
      <3>1. CASE r \in rows
        BY <2>1, <2>3, <3>1 DEF Tells
      <3>2. CASE r \in In
        <4>1. ~Fresh(r)
          BY <1>1, <2>1, <2>3 DEF Fresh, Visible
        <4>2. PICK o \in Out : Live(o) /\ r = Ended(o)
          BY <3>2, <4>1 DEF Puts
        <4>3. o \in rows /\ o \in Row /\ Visible(o, s) /\ Fact(r) = Fact(o) /\ o.kind = r.kind
          BY <1>1, <2>2, <2>3, <4>2, EndedParts
        <4> QED BY <2>1, <2>3, <4>3 DEF Tells
      <3> QED BY <1>1, <3>1, <3>2
    <2>4. ASSUME NEW f \in shown[s], Steady(f[1])
          PROVE  \E r \in rows' : Visible(r, s) /\ Fact(r) = f
      <3>1. PICK r \in rows : Visible(r, s) /\ Fact(r) = f
        BY <2>1, <2>4 DEF Tells
      <3>2. r \in Row /\ Steady(r.kind)
        BY <1>1, <2>4, <3>1, FactParts
      <3>3. CASE r \in Out
        <4>1. Live(r) /\ Ended(r) \in In
          BY <3>2, <3>3 DEF Puts
        <4>2. Visible(Ended(r), s) /\ Fact(Ended(r)) = f
          BY <2>2, <3>1, <3>2, <4>1, EndedParts
        <4> QED BY <1>1, <4>1, <4>2
      <3>4. CASE r \notin Out
        BY <1>1, <3>1, <3>4
      <3> QED BY <3>3, <3>4
    <2> QED BY <2>3, <2>4
  <1>5. ASSUME NEW s \in 1..head'
        PROVE  (/\ \A f \in shown[s] : Good(f[1], f[3])
                /\ excised <= s => Tells(s))'
    <2>1. CASE s = head + 1
      BY <1>3, <2>1 DEF Tells
    <2>2. CASE s # head + 1
      <3>1. s \in 1..head
        BY <1>1, <2>2
      <3>2. \A f \in shown[s] : Good(f[1], f[3])
        BY <3>1 DEF ShownInv
      <3> QED BY <1>1, <1>4, <3>1, <3>2 DEF Tells
    <2> QED BY <2>1, <2>2
  <1> QED BY <1>5 DEF ShownInv

LEMMA CommitStep ==
    ASSUME CatInv, NEW Out, NEW In, Puts(Out, In), Commit(Out, In), version' \in Nat
    PROVE  CatInv'
  <1>1. SessionInv'
    <2>1. session' = <<>>
      BY DEF Commit, NoSession
    <2> QED BY <2>1 DEF SessionInv
  <1> QED BY <1>1, CommitType, CommitRows, CommitShown DEF CatInv

-----------------------------------------------------------------------------
\* The sink

\* A row of a batch that is committed.
OfBatch(r) ==
    \E k \in 1..offset : \E i \in 1..Lens[k] :
        r.data = <<k, i>> /\ r.id = BatchRowId(k, i) /\ r.parent[1] = SinkTable

\* The sink's table has been dropped.
Dead ==
    /\ \E s \in 1..head : \E f \in shown[s] : f[1] = "table" /\ f[3] = SinkTable
    /\ \A r \in LiveOf("table") : r.id # SinkTable

Arrived == \A k \in 1..offset : \A i \in 1..Lens[k] :
               \E r \in LiveOf("inlined") : r.data = <<k, i>>

SinkInv ==
    /\ offset \in 0..Len(Lens) /\ pos \in [Consumer -> Nat]
    /\ SameLength =>
           /\ \A r \in rows : r.kind = "inlined" => OfBatch(r)
           /\ \A r, x \in rows :
                  r.kind = "inlined" /\ x.kind = "inlined" /\ r.data = x.data => r = x
           /\ Dead \/ Arrived

LEMMA LensType ==
    /\ Len(Lens) \in Nat /\ DOMAIN Lens = 1..Len(Lens)
    /\ \A k \in 1..Len(Lens) : Lens[k] \in Nat \ {0}
  BY LensAssumption, LenProperties, ElementOfSeq

\* Ids are counted from 1, and an id that was given is counted.
LEMMA NextIdType ==
    ASSUME CatType, ShownInv, NEW kind \in {"table", "file"}
    PROVE  /\ NextId(kind) \in Nat \ {0}
           /\ (\E s \in 1..head : \E f \in shown[s] : f[1] = kind) => NextId(kind) # 1
  <1> DEFINE ids == {f[3] : f \in {g \in UNION {shown[s] : s \in 1..head} : g[1] = kind}}
             n == MaxTables + MaxFiles
  <1>1. MaxTables \in Nat /\ MaxFiles \in Nat /\ n \in Nat
    BY BoundsAssumption
  <1>2. \A s \in 1..head : \A f \in shown[s] : f[1] = kind => f[3] \in Nat /\ f[3] <= n
    BY <1>1 DEF ShownInv, Good
  <1>3. ids \in SUBSET Nat /\ \A x \in ids : x <= n
    BY <1>2
  <1>4. NextId(kind) = 1 + Cardinality(ids)
    BY DEF NextId
  <1>5. (\E s \in 1..head : \E f \in shown[s] : f[1] = kind) => ids # {}
    OBVIOUS
  <1> HIDE DEF ids, n
  <1>6. IsFiniteSet(ids)
    BY <1>1, <1>3, FS_BoundedSetOfNaturals
  <1>7. Cardinality(ids) \in Nat /\ (Cardinality(ids) = 0 <=> ids = {})
    BY <1>6, FS_CardinalityType, FS_EmptySet
  <1> QED BY <1>4, <1>5, <1>7

\* The numbers of later batches are higher.
LEMMA BatchesApart ==
    ASSUME NEW a \in Nat, NEW b \in Nat, a < b, NEW n \in Nat,
           NEW i \in 1..n, NEW j \in 1..n
    PROVE  a * n + i - 1 < b * n + j - 1
  <1>1. PICK d \in Nat : b = a + 1 + d
    <2>1. b - a - 1 \in Nat /\ b = a + 1 + (b - a - 1)
      OBVIOUS
    <2> QED BY <2>1
  <1>2. (a + 1 + d) * n = a * n + n + d * n
    OBVIOUS
  <1>3. a * n \in Nat /\ d * n \in Nat
    OBVIOUS
  <1> DEFINE an == a * n
             dn == d * n
  <1>4. b * n = an + n + dn
    BY <1>1, <1>2
  <1>5. an \in Nat /\ dn \in Nat
    BY <1>3
  <1> HIDE DEF an, dn
  <1>6. an + i - 1 < an + n + dn + j - 1
    BY <1>5
  <1> QED BY <1>4, <1>6 DEF an

LEMMA NewParts ==
    ASSUME CatType, NEW kind \in KindName, NEW parent \in Datum, NEW id \in Nat,
           NEW data \in Datum
    PROVE  /\ New(kind, parent, id, data) \in Row /\ Fresh(New(kind, parent, id, data))
           /\ New(kind, parent, id, data).kind = kind
           /\ New(kind, parent, id, data).parent = parent
           /\ New(kind, parent, id, data).id = id
           /\ New(kind, parent, id, data).data = data
  <1>1. Peek \in Nat /\ NoEnd \in Nat
    BY DEF CatType, Peek, NoEnd
  <1> QED BY <1>1 DEF New, Fresh, Row

\* The rows of a batch.
LEMMA BatchParts ==
    ASSUME CatType, NEW k \in 1..Len(Lens), NEW x \in Batch(k)
    PROVE  /\ x \in Row /\ Fresh(x) /\ x.kind = "inlined"
           /\ \E i \in 1..Lens[k] : /\ x = New("inlined", <<SinkTable, version>>, BatchRowId(k, i), <<k, i>>)
                                    /\ x.data = <<k, i>> /\ x.id = BatchRowId(k, i)
                                    /\ x.parent = <<SinkTable, version>>
  <1>1. PICK i \in 1..Lens[k] :
            x = New("inlined", <<SinkTable, version>>, BatchRowId(k, i), <<k, i>>)
    BY DEF Batch
  <1>2. k \in Nat /\ Lens[k] \in Nat /\ i \in Nat /\ i >= 1
    BY LensType
  <1>3. BatchRowId(k, i) \in Nat
    <2>1. k * Lens[k] \in Nat
      BY <1>2
    <2> DEFINE kl == k * Lens[k]
    <2>2. kl \in Nat
      BY <2>1
    <2> HIDE DEF kl
    <2>3. kl + i - 1 \in Nat
      BY <1>2, <2>2
    <2> QED BY <2>3 DEF kl, BatchRowId
  <1>4. <<SinkTable, version>> \in Datum /\ <<k, i>> \in Datum /\ "inlined" \in KindName
    BY <1>2 DEF CatType, Datum, SinkTable, KindName
  <1>5. /\ x \in Row /\ Fresh(x) /\ x.kind = "inlined" /\ x.data = <<k, i>>
        /\ x.id = BatchRowId(k, i) /\ x.parent = <<SinkTable, version>>
    BY <1>1, <1>3, <1>4, NewParts
  <1> QED BY <1>1, <1>5

\* A consumer that is not fenced has the batch that comes next.
LEMMA NextBatch ==
    ASSUME SinkInv, NEW c \in Consumer, NEW answered \in BOOLEAN, CommitBatch(c, answered)
    PROVE  /\ pos[c] + 1 = offset + 1 /\ offset + 1 \in 1..Len(Lens)
           /\ Commit(Overwritten(Batch(offset + 1)), Batch(offset + 1))
           /\ offset' = offset + 1 /\ version' = version
  <1>1. pos[c] = offset
    BY DEF CommitBatch, Fenced
  <1>2. offset \in Nat /\ offset + 1 <= Len(Lens)
    BY <1>1, LensType DEF SinkInv, CommitBatch
  <1> QED BY <1>1, <1>2, LensType DEF CommitBatch

\* Nothing is overwritten by a batch of the common length.
LEMMA NoOverwrite ==
    ASSUME CatType, SinkInv, SameLength, offset + 1 \in 1..Len(Lens)
    PROVE  Overwritten(Batch(offset + 1)) = {}
  <1> DEFINE b == offset + 1
  <1>1. SUFFICES ASSUME NEW r \in rows, r.kind = "inlined", NEW x \in Batch(b), r.id = x.id
                 PROVE  FALSE
    BY DEF Overwritten
  <1>2. PICK k \in 1..offset : \E i \in 1..Lens[k] : r.id = BatchRowId(k, i)
    BY <1>1 DEF SinkInv, OfBatch
  <1>3. PICK i \in 1..Lens[k] : r.id = BatchRowId(k, i)
    BY <1>2
  <1>4. PICK j \in 1..Lens[b] : x.id = BatchRowId(b, j)
    BY <1>1, BatchParts
  <1>5. /\ offset \in Nat /\ k \in Nat /\ b \in Nat /\ k < b /\ k \in 1..Len(Lens)
        /\ b \in 1..Len(Lens)
    BY LensType DEF SinkInv
  <1>6. Lens[k] = Lens[b] /\ Lens[b] \in Nat
    BY <1>5, LensType DEF SameLength
  <1> HIDE DEF b
  <1>7. k * Lens[b] + i - 1 < b * Lens[b] + j - 1
    BY <1>3, <1>4, <1>5, <1>6, BatchesApart
  <1>8. r.id = k * Lens[b] + i - 1 /\ x.id = b * Lens[b] + j - 1
    BY <1>3, <1>4, <1>6 DEF BatchRowId
  <1>9. k * Lens[b] + i - 1 \in Int /\ b * Lens[b] + j - 1 \in Int
    <2>1. k * Lens[b] \in Nat /\ b * Lens[b] \in Nat /\ i \in Nat /\ j \in Nat
      BY <1>5, <1>6
    <2> QED BY <2>1
  <1> DEFINE u == k * Lens[b] + i - 1
             w == b * Lens[b] + j - 1
  <1>10. u \in Int /\ w \in Int /\ u < w /\ r.id = u /\ x.id = w
    BY <1>7, <1>8, <1>9
  <1> HIDE DEF u, w
  <1>11. r.id = x.id
    BY <1>1
  <1>12. u = w
    BY <1>10, <1>11
  <1> QED BY <1>10, <1>12

-----------------------------------------------------------------------------
\* The catalog's steps

LEMMA CreatePuts ==
    ASSUME CatInv, CreateTable
    PROVE  Puts({}, {New("table", 1, NextId("table"), 0),
                     New("column", NextId("table"), NextId("table"), 0)})
  <1> DEFINE t == NextId("table")
             tab == New("table", 1, t, 0)
             col == New("column", t, t, 0)
  <1>1. t \in Nat /\ t \in 1..MaxTables
    <2>1. t \in Nat \ {0}
      BY NextIdType DEF CatInv
    <2>2. t <= MaxTables /\ MaxTables \in Nat
      BY BoundsAssumption DEF CreateTable
    <2> HIDE DEF t
    <2> QED BY <2>1, <2>2
  <1>2. /\ "table" \in KindName /\ "column" \in KindName /\ 0 \in Datum /\ 1 \in Datum
        /\ t \in Datum
    BY <1>1 DEF KindName, Datum
  <1> HIDE DEF t
  <1>3. tab \in Row /\ Fresh(tab) /\ tab.kind = "table" /\ tab.id = t
    BY <1>1, <1>2, NewParts DEF CatInv
  <1>4. col \in Row /\ Fresh(col) /\ col.kind = "column"
    BY <1>1, <1>2, NewParts DEF CatInv
  <1> HIDE DEF tab, col
  <1>5. Good(tab.kind, tab.id) /\ Good(col.kind, col.id)
    BY <1>1, <1>3, <1>4 DEF Good
  <1>6. Puts({}, {tab, col})
    BY <1>3, <1>4, <1>5 DEF Puts
  <1> QED BY <1>6 DEF tab, col, t

LEMMA RetirePuts ==
    ASSUME CatInv, NEW R \in SUBSET rows, \A r \in R : Live(r)
    PROVE  Puts(R, Retired(R))
  <1>1. Retired(R) = {Ended(r) : r \in R}
    BY DEF Retired, Ended
  <1>2. \A r \in R : r \in Row /\ Ended(r) \in Row /\ Good(Ended(r).kind, Ended(r).id)
    BY EndedParts DEF CatInv, CatType, RowsInv
  <1> QED BY <1>1, <1>2 DEF Puts

\* The rows of a table.
RowsOf(t) ==
    {r \in rows : Live(r) /\ \/ r.kind = "table" /\ r.id = t
                             \/ r.kind \in {"column", "file"} /\ r.parent = t
                             \/ r.kind = "inlined" /\ r.parent[1] = t}

LEMMA RenamePuts ==
    ASSUME CatInv, NEW c \in LiveOf("column")
    PROVE  Puts({c}, Retired({c}) \cup {[c EXCEPT !.begin = Peek]})
  <1> DEFINE new == [c EXCEPT !.begin = Peek]
  <1>1. c \in rows /\ c \in Row /\ Live(c) /\ c.kind = "column" /\ Peek \in Nat
    BY DEF LiveOf, CatInv, CatType, Peek
  <1>2. new \in Row /\ Fresh(new) /\ new.kind = "column"
    BY <1>1 DEF Row, Fresh, Live
  <1> HIDE DEF new
  <1>3. Good(new.kind, new.id)
    BY <1>2 DEF Good
  <1>4. Puts({c}, Retired({c}))
    BY <1>1, RetirePuts
  <1>5. Puts({c}, Retired({c}) \cup {new})
    BY <1>2, <1>3, <1>4 DEF Puts
  <1> QED BY <1>5 DEF new

LEMMA FilesPuts ==
    ASSUME CatInv
    PROVE  Puts({}, ToSet(session))
  <1>1. session \in Seq(Row) /\ DOMAIN session = 1..Len(session)
    BY LenProperties DEF CatInv, CatType
  <1>2. \A i \in 1..Len(session) : session[i] \in Row
    BY <1>1, ElementOfSeq
  <1>3. \A x \in ToSet(session) : x \in Row /\ Good(x.kind, x.id) /\ Fresh(x)
    BY <1>1, <1>2 DEF ToSet, CatInv, SessionInv
  <1> QED BY <1>3 DEF Puts

LEMMA BatchPuts ==
    ASSUME CatInv, SinkInv, offset + 1 \in 1..Len(Lens)
    PROVE  Puts(Overwritten(Batch(offset + 1)), Batch(offset + 1))
  <1> DEFINE b == offset + 1
  <1>1. \A x \in Batch(b) : x \in Row /\ Fresh(x) /\ x.kind = "inlined"
    BY BatchParts DEF CatInv
  <1>2. \A x \in Batch(b) : Good(x.kind, x.id)
    BY <1>1 DEF Good
  <1>3. Overwritten(Batch(b)) \in SUBSET rows
    BY DEF Overwritten
  <1>4. ASSUME NEW r \in Overwritten(Batch(b)), Steady(r.kind)
        PROVE  FALSE
    <2>1. SameLength
      BY <1>4 DEF Steady, Overwritten
    <2> QED BY <1>4, <2>1, NoOverwrite DEF CatInv
  <1> HIDE DEF b
  <1>5. Puts(Overwritten(Batch(b)), Batch(b))
    BY <1>1, <1>2, <1>3, <1>4 DEF Puts
  <1> QED BY <1>5 DEF b

LEMMA ExciseStep ==
    ASSUME CatInv, Excise
    PROVE  CatInv'
  <1>1. /\ rows' = {r \in rows : r.end = NoEnd \/ r.end > retainFrom}
        /\ excised' = retainFrom /\ UNCHANGED <<head, version, session, shown, retainFrom>>
    BY DEF Excise
  <1>2. CatType /\ RowsInv /\ SessionInv /\ ShownInv
    BY DEF CatInv
  <1>3. CatType'
    BY <1>1, <1>2 DEF CatType
  <1>4. RowsInv'
    BY <1>1, <1>2 DEF RowsInv
  <1>5. SessionInv'
    BY <1>1, <1>2 DEF SessionInv, Fresh, Peek
  <1>6. ASSUME NEW s \in 1..head, retainFrom <= s
        PROVE  /\ \A r \in rows' : Steady(r.kind) /\ Visible(r, s) => Fact(r) \in shown[s]
               /\ \A f \in shown[s] : Steady(f[1]) =>
                      \E r \in rows' : Visible(r, s) /\ Fact(r) = f
    <2>1. excised <= s /\ s \in Nat /\ retainFrom \in Nat
      BY <1>2, <1>6 DEF CatType
    <2>2. Tells(s)
      BY <1>2, <2>1 DEF ShownInv
    <2>3. ASSUME NEW r \in rows, Visible(r, s)
          PROVE  r \in rows'
      <3>1. r.end \in Nat
        BY <1>2 DEF CatType, Row
      <3> QED BY <1>1, <1>6, <2>1, <2>3, <3>1 DEF Visible
    <2> QED BY <1>1, <2>2, <2>3 DEF Tells
  <1>7. ShownInv'
    BY <1>1, <1>2, <1>6 DEF ShownInv, Tells
  <1> QED BY <1>3, <1>4, <1>5, <1>7 DEF CatInv

LEMMA PutStatsStep ==
    ASSUME CatInv, NEW t \in 1..MaxTables, NEW v \in Value, PutStats(t, v)
    PROVE  CatInv'
  <1> DEFINE f == NextId("file") + Len(session)
             new == New("file", t, f, v)
  <1>1. /\ f <= MaxFiles /\ session' = Append(session, new)
        /\ UNCHANGED <<rows, head, version, shown, retainFrom, excised>>
    BY DEF PutStats, floor
  <1>2. CatType /\ RowsInv /\ SessionInv /\ ShownInv
    BY DEF CatInv
  <1>3. f \in 1..MaxFiles
    <2>1. NextId("file") \in Nat \ {0} /\ Len(session) \in Nat /\ MaxFiles \in Nat
      BY <1>2, NextIdType, LenProperties, BoundsAssumption DEF CatType
    <2> QED BY <1>1, <2>1
  <1>4. f \in Nat /\ t \in Datum /\ v \in Datum /\ "file" \in KindName
    BY <1>3, ValueAssumption DEF Datum, KindName
  <1> HIDE DEF f
  <1>5. new \in Row /\ Fresh(new) /\ new.kind = "file" /\ new.id = f
    BY <1>2, <1>4, NewParts
  <1> HIDE DEF new
  <1>6. /\ session' \in Seq(Row) /\ Len(session') = Len(session) + 1
        /\ session'[Len(session) + 1] = new
        /\ \A i \in 1..Len(session) : session'[i] = session[i]
    BY <1>1, <1>2, <1>5, AppendProperties DEF CatType
  <1>7. CatType'
    BY <1>1, <1>2, <1>6 DEF CatType
  <1>8. SessionInv'
    <2>1. ASSUME NEW i \in 1..Len(session')
          PROVE  session'[i].kind = "file" /\ Good("file", session'[i].id) /\ Fresh(session'[i])
      <3>1. Len(session) \in Nat
        BY <1>2, LenProperties DEF CatType
      <3>2. CASE i = Len(session) + 1
        BY <1>3, <1>5, <1>6, <3>2 DEF Good
      <3>3. CASE i # Len(session) + 1
        <4>1. i \in 1..Len(session)
          BY <1>6, <3>1, <3>3
        <4> QED BY <1>2, <1>6, <4>1 DEF SessionInv
      <3> QED BY <3>2, <3>3
    <2>2. Peek' = Peek
      BY <1>1 DEF Peek
    <2> QED BY <2>1, <2>2 DEF SessionInv, Fresh
  <1>9. RowsInv' /\ ShownInv'
    BY <1>1, <1>2 DEF RowsInv, ShownInv, Tells
  <1> QED BY <1>7, <1>8, <1>9 DEF CatInv

LEMMA CatalogInv ==
    ASSUME CatInv, CatalogStep
    PROVE  CatInv'
  <1>1. version \in Nat /\ version + 1 \in Nat
    BY DEF CatInv, CatType
  <1>2. CASE CreateTable
    BY <1>1, <1>2, CreatePuts, CommitStep DEF CreateTable
  <1>3. CASE RegisterDataFiles
    BY <1>1, <1>3, FilesPuts, CommitStep DEF RegisterDataFiles
  <1>4. CASE FailSession
    <2>1. session' = <<>> /\ UNCHANGED <<rows, head, version, shown, retainFrom, excised>>
      BY <1>4 DEF FailSession, NoSession, floor
    <2> QED BY <2>1 DEF CatInv, CatType, RowsInv, SessionInv, ShownInv, Tells
  <1>5. ASSUME NEW t \in 1..MaxTables, DropTable(t)
        PROVE  CatInv'
    <2>1. Commit(RowsOf(t), Retired(RowsOf(t))) /\ version' \in Nat
      BY <1>1, <1>5 DEF DropTable, RowsOf
    <2>2. Puts(RowsOf(t), Retired(RowsOf(t)))
      BY RetirePuts DEF RowsOf
    <2> QED BY <2>1, <2>2, CommitStep
  <1>6. ASSUME NEW t \in 1..MaxTables, RenameColumn(t)
        PROVE  CatInv'
    <2>1. PICK c \in LiveOf("column") :
              Commit({c}, Retired({c}) \cup {[c EXCEPT !.begin = Peek]})
      BY <1>6 DEF RenameColumn
    <2> QED BY <1>1, <1>6, <2>1, RenamePuts, CommitStep DEF RenameColumn
  <1>7. ASSUME NEW s \in 2..MaxSnapshots, GcApply(s)
        PROVE  CatInv'
    <2>1. /\ retainFrom' = s /\ retainFrom < s /\ s <= head /\ s \in Nat
          /\ UNCHANGED <<rows, head, version, session, shown, excised>>
      BY <1>7 DEF GcApply, store
    <2>2. CatType'
      BY <2>1 DEF CatInv, CatType
    <2>3. RowsInv' /\ SessionInv' /\ ShownInv'
      BY <2>1 DEF CatInv, RowsInv, SessionInv, Fresh, Peek, ShownInv, Tells
    <2> QED BY <2>2, <2>3 DEF CatInv
  <1> QED
    BY <1>2, <1>3, <1>4, <1>5, <1>6, <1>7, PutStatsStep, ExciseStep DEF CatalogStep

LEMMA BatchInv ==
    ASSUME CatInv, SinkInv, NEW c \in Consumer, NEW answered \in BOOLEAN,
           CommitBatch(c, answered)
    PROVE  CatInv'
  <1>1. version' \in Nat
    BY NextBatch DEF CatInv, CatType
  <1> QED BY <1>1, NextBatch, BatchPuts, CommitStep

-----------------------------------------------------------------------------
\* What the steps do to the sink

LEMMA SinkKept ==
    ASSUME SinkInv, UNCHANGED <<rows, shown, head, offset>>, pos' \in [Consumer -> Nat]
    PROVE  SinkInv'
  <1>1. SinkInv
    OBVIOUS
  <1> QED BY <1>1 DEF SinkInv, OfBatch, Dead, Arrived, LiveOf

\* A commit that has nothing of the sink.
LEMMA SinkApart ==
    ASSUME CatInv, SinkInv, NEW Out, NEW In, Puts(Out, In), Commit(Out, In), version' \in Nat,
           SameLength => \A r \in Out \cup In : r.kind # "inlined",
           \A x \in In : x.kind = "table" /\ Live(x) /\ Dead => x.id # SinkTable,
           UNCHANGED <<offset, pos>>
    PROVE  SinkInv'
  <1>1. /\ rows' = (rows \ Out) \cup In /\ head' = head + 1 /\ head \in Nat \ {0}
        /\ \A s \in 1..head : shown'[s] = shown[s]
    BY CommitType DEF Commit, Peek, CatInv, CatType
  <1>2. Dead => Dead'
    <2> SUFFICES ASSUME Dead PROVE Dead'
      OBVIOUS
    <2>1. PICK s \in 1..head : \E f \in shown[s] : f[1] = "table" /\ f[3] = SinkTable
      BY DEF Dead
    <2>2. s \in 1..head' /\ shown'[s] = shown[s]
      BY <1>1
    <2>3. \A r \in LiveOf("table")' : r.id # SinkTable
      BY <1>1 DEF LiveOf, Dead
    <2> QED BY <2>1, <2>2, <2>3 DEF Dead
  <1>3. ASSUME SameLength
        PROVE  /\ \A r \in rows' : r.kind = "inlined" => OfBatch(r)'
               /\ \A r, x \in rows' :
                      r.kind = "inlined" /\ x.kind = "inlined" /\ r.data = x.data => r = x
               /\ Dead' \/ Arrived'
    <2>1. \A r : r.kind = "inlined" => (r \in rows' <=> r \in rows)
      BY <1>1, <1>3
    <2>2. LiveOf("inlined")' = LiveOf("inlined")
      BY <2>1 DEF LiveOf
    <2>3. Arrived => Arrived'
      BY <2>2 DEF Arrived
    <2>4. \A r \in rows' : r.kind = "inlined" => OfBatch(r)'
      BY <1>3, <2>1 DEF SinkInv, OfBatch
    <2> QED BY <1>2, <1>3, <2>1, <2>3, <2>4 DEF SinkInv
  <1> QED BY <1>3 DEF SinkInv

\* The sink's table is dropped.
LEMMA SinkDropped ==
    ASSUME CatInv, SinkInv, DropTable(SinkTable)
    PROVE  SinkInv'
  <1> DEFINE gone == RowsOf(SinkTable)
  <1>1. Commit(gone, Retired(gone)) /\ UNCHANGED <<offset, pos>> /\ version' = version + 1
    BY DEF DropTable, RowsOf, sink
  <1>2. PICK tab \in LiveOf("table") : tab.id = SinkTable
    BY DEF DropTable
  <1>3. /\ rows \in SUBSET Row /\ head \in Nat \ {0} /\ excised <= head /\ version + 1 \in Nat
    BY DEF CatInv, CatType
  <1>4. gone \in SUBSET rows /\ \A r \in gone : Live(r) /\ r \in Row
    BY <1>3 DEF RowsOf
  <1>5. Puts(gone, Retired(gone))
    BY <1>4, RetirePuts
  <1>6. /\ rows' = (rows \ gone) \cup {Ended(r) : r \in gone} /\ head' = head + 1
        /\ \A s \in 1..head : shown'[s] = shown[s]
    BY <1>1, <1>3, <1>5, CommitType DEF Commit, Peek, CatInv, Retired, Ended
  <1>7. Dead'
    <2>1. tab \in rows /\ tab \in Row /\ tab.kind = "table" /\ Visible(tab, head)
      BY <1>2, <1>3 DEF LiveOf, Live, Visible, CatInv, RowsInv
    <2>2. Fact(tab) \in shown[head]
      BY <1>3, <2>1 DEF CatInv, ShownInv, Tells, Steady
    <2>3. Fact(tab)[1] = "table" /\ Fact(tab)[3] = SinkTable
      BY <1>2, <2>1, FactParts
    <2>4. head \in 1..head' /\ shown'[head] = shown[head]
      BY <1>3, <1>6
    <2>5. ASSUME NEW r \in rows', r.kind = "table", Live(r), r.id = SinkTable
          PROVE  FALSE
      <3>1. CASE r \in rows \ gone
        BY <2>5, <3>1 DEF RowsOf
      <3>2. CASE r \in {Ended(o) : o \in gone}
        <4>1. r.end = Peek
          BY <1>4, <3>2, EndedParts DEF CatInv
        <4>2. Peek # NoEnd
          BY <1>3 DEF Peek, NoEnd
        <4> QED BY <2>5, <4>1, <4>2 DEF Live
      <3> QED BY <1>6, <3>1, <3>2
    <2> QED BY <2>2, <2>3, <2>4, <2>5 DEF Dead, LiveOf
  <1>8. ASSUME NEW r \in rows'
        PROVE  \E o \in rows : /\ o.kind = r.kind /\ o.data = r.data /\ o.id = r.id
                               /\ o.parent = r.parent
                               /\ \/ o \notin gone /\ r = o
                                  \/ o \in gone /\ r = Ended(o)
    <2>1. CASE r \in rows \ gone
      BY <2>1
    <2>2. CASE r \in {Ended(o) : o \in gone}
      <3>1. PICK o \in gone : r = Ended(o)
        BY <2>2
      <3>2. o.kind = r.kind /\ o.data = r.data /\ o.id = r.id /\ o.parent = r.parent
        BY <1>4, <3>1, EndedParts DEF CatInv
      <3> QED BY <1>4, <3>1, <3>2
    <2> QED BY <1>6, <2>1, <2>2
  <1>9. ASSUME SameLength
        PROVE  /\ \A r \in rows' : r.kind = "inlined" => OfBatch(r)'
               /\ \A r, x \in rows' :
                      r.kind = "inlined" /\ x.kind = "inlined" /\ r.data = x.data => r = x
    <2>1. ASSUME NEW r \in rows', r.kind = "inlined"
          PROVE  OfBatch(r)'
      <3>1. PICK o \in rows : /\ o.kind = r.kind /\ o.data = r.data /\ o.id = r.id
                              /\ o.parent = r.parent
        BY <1>8
      <3>2. OfBatch(o)
        BY <1>9, <2>1, <3>1 DEF SinkInv
      <3> QED BY <1>1, <3>1, <3>2 DEF OfBatch
    <2>2. ASSUME NEW r \in rows', NEW x \in rows', r.kind = "inlined", x.kind = "inlined",
                 r.data = x.data
          PROVE  r = x
      <3>1. PICK o \in rows : /\ o.kind = r.kind /\ o.data = r.data
                              /\ (o \notin gone /\ r = o) \/ (o \in gone /\ r = Ended(o))
        BY <1>8
      <3>2. PICK u \in rows : /\ u.kind = x.kind /\ u.data = x.data
                              /\ (u \notin gone /\ x = u) \/ (u \in gone /\ x = Ended(u))
        BY <1>8
      <3>3. o = u
        BY <1>9, <2>2, <3>1, <3>2 DEF SinkInv
      <3> QED BY <3>1, <3>2, <3>3
    <2> QED BY <2>1, <2>2
  <1> QED BY <1>1, <1>7, <1>9 DEF SinkInv

\* A batch arrives.
LEMMA SinkBatch ==
    ASSUME CatInv, SinkInv, NEW c \in Consumer, NEW answered \in BOOLEAN,
           CommitBatch(c, answered)
    PROVE  SinkInv'
  <1> DEFINE b == offset + 1
  <1>1. /\ b \in 1..Len(Lens) /\ offset' = b /\ version' = version
        /\ Commit(Overwritten(Batch(b)), Batch(b)) /\ pos[c] + 1 = b
    BY NextBatch
  <1>2. offset \in Nat /\ Len(Lens) \in Nat
    BY LensType DEF SinkInv
  <1>3. offset' \in 0..Len(Lens) /\ pos' \in [Consumer -> Nat]
    <2>1. pos' = [pos EXCEPT ![c] = IF answered THEN b ELSE @]
      BY <1>1 DEF CommitBatch
    <2>2. pos \in [Consumer -> Nat] /\ b \in Nat
      BY <1>2 DEF SinkInv
    <2> QED BY <1>1, <1>2, <2>1, <2>2
  <1>4. ASSUME SameLength
        PROVE  /\ \A r \in rows' : r.kind = "inlined" => OfBatch(r)'
               /\ \A r, x \in rows' :
                      r.kind = "inlined" /\ x.kind = "inlined" /\ r.data = x.data => r = x
               /\ Dead' \/ Arrived'
    <2>1. Overwritten(Batch(b)) = {}
      BY <1>1, <1>4, NoOverwrite DEF CatInv
    <2>2. Puts(Overwritten(Batch(b)), Batch(b))
      BY <1>1, BatchPuts
    <2>3. /\ head' = head + 1 /\ head \in Nat \ {0}
          /\ \A s \in 1..head : shown'[s] = shown[s]
      BY <1>1, <2>2, CommitType DEF CatInv, CatType
    <2>4. rows' = rows \cup Batch(b)
      BY <1>1, <2>1 DEF Commit
    <2>5. \A x \in Batch(b) :
              /\ x.kind = "inlined" /\ Fresh(x)
              /\ \E i \in 1..Lens[b] :
                     /\ x = New("inlined", <<SinkTable, version>>, BatchRowId(b, i), <<b, i>>)
                     /\ x.data = <<b, i>> /\ x.id = BatchRowId(b, i)
                     /\ x.parent = <<SinkTable, version>>
      BY <1>1, BatchParts DEF CatInv
    <2>6. \A i \in 1..Lens[b] :
              New("inlined", <<SinkTable, version>>, BatchRowId(b, i), <<b, i>>) \in Batch(b)
      BY DEF Batch
    <2>7. /\ \A r \in rows : r.kind = "inlined" => OfBatch(r)
          /\ \A r, x \in rows :
                 r.kind = "inlined" /\ x.kind = "inlined" /\ r.data = x.data => r = x
          /\ Dead \/ Arrived
      BY <1>4 DEF SinkInv
    <2> HIDE DEF b
    <2>8. \A k \in 1..offset : k \in 1..b /\ k # b
      BY <1>2 DEF b
    <2>9. b \in 1..b
      BY <1>2 DEF b
    <2>10. ASSUME NEW r \in rows', r.kind = "inlined"
           PROVE  OfBatch(r)'
      <3>1. CASE r \in rows
        <4>1. PICK k \in 1..offset : \E i \in 1..Lens[k] :
                  r.data = <<k, i>> /\ r.id = BatchRowId(k, i) /\ r.parent[1] = SinkTable
          BY <2>7, <2>10, <3>1 DEF OfBatch
        <4>2. k \in 1..offset'
          BY <1>1, <2>8
        <4> QED BY <4>1, <4>2 DEF OfBatch
      <3>2. CASE r \in Batch(b)
        <4>1. PICK i \in 1..Lens[b] :
                  /\ r.data = <<b, i>> /\ r.id = BatchRowId(b, i)
                  /\ r.parent = <<SinkTable, version>>
          BY <2>5, <3>2
        <4>2. r.parent[1] = SinkTable /\ b \in 1..offset'
          BY <1>1, <2>9, <4>1
        <4> QED BY <4>1, <4>2 DEF OfBatch
      <3> QED BY <2>4, <3>1, <3>2
    <2>11. ASSUME NEW r \in rows, r.kind = "inlined", NEW x \in Batch(b), r.data = x.data
           PROVE  FALSE
      <3>1. PICK k \in 1..offset : \E i \in 1..Lens[k] : r.data = <<k, i>>
        BY <2>7, <2>11 DEF OfBatch
      <3>2. PICK i \in 1..Lens[b] : x.data = <<b, i>>
        BY <2>5
      <3>3. r.data[1] = k /\ x.data[1] = b
        BY <3>1, <3>2
      <3> QED BY <2>8, <2>11, <3>3
    <2>12. ASSUME NEW r \in Batch(b), NEW x \in Batch(b), r.data = x.data
           PROVE  r = x
      <3>1. PICK i \in 1..Lens[b] :
                /\ r = New("inlined", <<SinkTable, version>>, BatchRowId(b, i), <<b, i>>)
                /\ r.data = <<b, i>>
        BY <2>5
      <3>2. PICK j \in 1..Lens[b] :
                /\ x = New("inlined", <<SinkTable, version>>, BatchRowId(b, j), <<b, j>>)
                /\ x.data = <<b, j>>
        BY <2>5
      <3>3. i = j
        BY <2>12, <3>1, <3>2
      <3> QED BY <3>1, <3>2, <3>3
    <2>13. \A r, x \in rows' :
               r.kind = "inlined" /\ x.kind = "inlined" /\ r.data = x.data => r = x
      BY <2>4, <2>7, <2>11, <2>12
    <2>14. Dead => Dead'
      <3> SUFFICES ASSUME Dead PROVE Dead'
        OBVIOUS
      <3>1. PICK s \in 1..head : \E f \in shown[s] : f[1] = "table" /\ f[3] = SinkTable
        BY DEF Dead
      <3>2. s \in 1..head' /\ shown'[s] = shown[s]
        BY <2>3
      <3>3. LiveOf("table")' = LiveOf("table")
        BY <2>4, <2>5 DEF LiveOf
      <3> QED BY <3>1, <3>2, <3>3 DEF Dead
    <2>15. Arrived => Arrived'
      <3> SUFFICES ASSUME Arrived, NEW k \in 1..offset', NEW i \in 1..Lens[k]
                   PROVE  \E r \in LiveOf("inlined")' : r.data = <<k, i>>
        BY DEF Arrived
      <3>1. CASE k = b
        <4> DEFINE x == New("inlined", <<SinkTable, version>>, BatchRowId(b, i), <<b, i>>)
        <4>1. x \in Batch(b)
          BY <2>6, <3>1
        <4>2. x.data = <<b, i>>
          BY DEF New
        <4> HIDE DEF x
        <4>3. x \in rows' /\ x.kind = "inlined" /\ Live(x)
          BY <2>4, <2>5, <4>1 DEF Fresh, Live
        <4>4. x \in LiveOf("inlined")'
          BY <4>3 DEF LiveOf
        <4> QED BY <3>1, <4>2, <4>4
      <3>2. CASE k # b
        <4>1. k \in 1..offset
          BY <1>1, <1>2, <3>2 DEF b
        <4>2. PICK r \in LiveOf("inlined") : r.data = <<k, i>>
          BY <4>1 DEF Arrived
        <4>3. r \in LiveOf("inlined")'
          BY <2>4 DEF LiveOf
        <4> QED BY <4>2, <4>3
      <3> QED BY <3>1, <3>2
    <2> QED BY <2>7, <2>10, <2>13, <2>14, <2>15
  <1> QED BY <1>3, <1>4 DEF SinkInv

LEMMA SinkCatalog ==
    ASSUME CatInv, SinkInv, CatalogStep
    PROVE  SinkInv'
  <1>1. version \in Nat /\ version + 1 \in Nat /\ pos \in [Consumer -> Nat]
    BY DEF CatInv, CatType, SinkInv
  <1>2. CASE CreateTable
    <2> DEFINE t == NextId("table")
               In == {New("table", 1, t, 0), New("column", t, t, 0)}
    <2>1. Puts({}, In)
      BY <1>2, CreatePuts
    <2>2. Commit({}, In) /\ version' = version + 1 /\ UNCHANGED <<offset, pos>>
      BY <1>2 DEF CreateTable, sink
    <2>3. \A x \in In : x.kind # "inlined" /\ (x.kind = "table" => x.id = t)
      BY DEF New
    <2>4. Dead => t # SinkTable
      BY NextIdType DEF Dead, CatInv, SinkTable
    <2> HIDE DEF In, t
    <2> QED BY <1>1, <2>1, <2>2, <2>3, <2>4, SinkApart
  <1>3. CASE RegisterDataFiles
    <2> DEFINE In == ToSet(session)
    <2>1. Puts({}, In)
      BY FilesPuts
    <2>2. Commit({}, In) /\ version' = version /\ UNCHANGED <<offset, pos>>
      BY <1>3 DEF RegisterDataFiles, sink
    <2>3. \A x \in In : x.kind = "file"
      <3>1. DOMAIN session = 1..Len(session)
        BY LenProperties DEF CatInv, CatType
      <3> QED BY <3>1 DEF ToSet, CatInv, SessionInv
    <2> HIDE DEF In
    <2> QED BY <1>1, <2>1, <2>2, <2>3, SinkApart
  <1>4. CASE FailSession
    BY <1>1, <1>4, SinkKept DEF FailSession, sink
  <1>5. ASSUME NEW t \in 1..MaxTables, DropTable(t)
        PROVE  SinkInv'
    <2>1. CASE t = SinkTable
      BY <1>5, <2>1, SinkDropped
    <2>2. CASE t # SinkTable
      <3> DEFINE Out == RowsOf(t)
                 In == Retired(Out)
      <3>1. Commit(Out, In) /\ version' = version + 1 /\ UNCHANGED <<offset, pos>>
        BY <1>5 DEF DropTable, RowsOf, sink
      <3>2. Out \in SUBSET rows /\ \A r \in Out : Live(r) /\ r \in Row
        BY DEF RowsOf, CatInv, CatType
      <3>3. Puts(Out, In)
        BY <3>2, RetirePuts
      <3>4. SameLength => \A r \in Out : r.kind # "inlined"
        BY <2>2 DEF RowsOf, SinkInv, OfBatch
      <3>5. In = {Ended(r) : r \in Out}
        BY DEF Retired, Ended
      <3>6. \A x \in In : x.end = Peek /\ \E r \in Out : x.kind = r.kind
        BY <3>2, <3>5, EndedParts DEF CatInv
      <3>7. Peek # NoEnd
        BY DEF Peek, NoEnd, CatInv, CatType
      <3>8. \A x \in In : ~Live(x)
        BY <3>6, <3>7 DEF Live
      <3> HIDE DEF In, Out
      <3>9. SameLength => \A r \in Out \cup In : r.kind # "inlined"
        BY <3>4, <3>6
      <3> QED BY <1>1, <3>1, <3>3, <3>8, <3>9, SinkApart
    <2> QED BY <2>1, <2>2
  <1>6. ASSUME NEW t \in 1..MaxTables, RenameColumn(t)
        PROVE  SinkInv'
    <2>1. PICK c \in LiveOf("column") :
              Commit({c}, Retired({c}) \cup {[c EXCEPT !.begin = Peek]})
      BY <1>6 DEF RenameColumn
    <2> DEFINE In == Retired({c}) \cup {[c EXCEPT !.begin = Peek]}
    <2>2. Puts({c}, In)
      BY RenamePuts
    <2>3. version' = version + 1 /\ UNCHANGED <<offset, pos>>
      BY <1>6 DEF RenameColumn, sink
    <2>4. c \in Row /\ c.kind = "column"
      BY DEF LiveOf, CatInv, CatType
    <2>5. \A x \in In : x.kind = "column"
      BY <2>4 DEF Retired, Row
    <2>6. Commit({c}, In)
      BY <2>1
    <2> HIDE DEF In
    <2> QED BY <1>1, <2>2, <2>3, <2>4, <2>5, <2>6, SinkApart
  <1>7. ASSUME NEW t \in 1..MaxTables, NEW v \in Value, PutStats(t, v)
        PROVE  SinkInv'
    BY <1>1, <1>7, SinkKept DEF PutStats, sink
  <1>8. ASSUME NEW s \in 2..MaxSnapshots, GcApply(s)
        PROVE  SinkInv'
    BY <1>1, <1>8, SinkKept DEF GcApply, sink, store
  <1>9. CASE Excise
    <2>1. /\ rows' = {r \in rows : r.end = NoEnd \/ r.end > retainFrom}
          /\ UNCHANGED <<head, shown, offset, pos>>
      BY <1>9 DEF Excise, sink
    <2>2. \A kind : LiveOf(kind)' = LiveOf(kind)
      BY <2>1 DEF LiveOf, Live
    <2>3. (Dead <=> Dead') /\ (Arrived <=> Arrived')
      BY <2>1, <2>2 DEF Dead, Arrived
    <2>4. \A r : OfBatch(r) => OfBatch(r)'
      BY <2>1 DEF OfBatch
    <2> QED BY <2>1, <2>3, <2>4 DEF SinkInv
  <1> QED BY <1>2, <1>3, <1>4, <1>5, <1>6, <1>7, <1>8, <1>9 DEF CatalogStep

-----------------------------------------------------------------------------
\* The tailer

TailedOf(F) == {f \in F : f[1] \in Tailed}

Export == [to : Nat, add : SUBSET FactSet, retire : SUBSET FactSet]

\* The export that is not yet written leads from the facts written to those of
\* the snapshot it names; with none, these are the facts of the last poll.
FeedInv ==
    /\ tail \in [last : 1..head, out : {<<>>} \cup {<<x>> : x \in Export}]
    /\ feed \in [upto : 1..head, facts : SUBSET FactSet, gap : BOOLEAN]
    /\ tail.out # <<>> => tail.out[1].to = tail.last
    /\ ~feed.gap =>
           /\ feed.facts = TailedOf(shown[feed.upto])
           /\ tail.out = <<>> => feed.facts = TailedOf(shown[tail.last])
           /\ tail.out # <<>> => (feed.facts \cup tail.out[1].add) \ tail.out[1].retire
                                     = TailedOf(shown[tail.out[1].to])

\* What a poll finds leads from the snapshot of the last one to the latest,
\* unless it began below the last excision.
LEMMA PollExact ==
    ASSUME CatInv, NEW from \in 1..head, from < head, excised <= from
    PROVE  (TailedOf(shown[from]) \cup {Fact(r) : r \in Added(from, head)})
               \ {Fact(r) : r \in Removed(from, head)} = TailedOf(shown[head])
  <1> DEFINE add == {Fact(r) : r \in Added(from, head)}
             ret == {Fact(r) : r \in Removed(from, head)}
  <1>1. /\ head \in Nat /\ from \in Nat /\ excised <= head /\ rows \in SUBSET Row
        /\ head \in 1..head
    BY DEF CatInv, CatType
  <1>2. Tells(from) /\ Tells(head)
    BY <1>1 DEF CatInv, ShownInv
  <1>3. \A kind \in Tailed : Steady(kind)
    BY DEF Tailed, Steady
  <1>4. \A r \in rows : /\ r.begin \in Nat /\ r.end \in Nat /\ r.begin <= head
                        /\ r.end = NoEnd \/ (r.begin < r.end /\ r.end <= head)
                        /\ Fact(r)[1] = r.kind
    BY <1>1, FactParts DEF CatInv, RowsInv, Row
  <1>5. ASSUME NEW r \in rows, r.kind \in Tailed, Fact(r) \notin ret,
               Visible(r, from) \/ r \in Added(from, head)
        PROVE  Fact(r) \in TailedOf(shown[head])
    <2>1. r.begin <= head
      BY <1>4
    <2>2. r.end = NoEnd
      <3>1. SUFFICES ASSUME r.end # NoEnd PROVE FALSE
        OBVIOUS
      <3>2. from < r.end /\ r.end <= head
        BY <1>1, <1>4, <1>5, <3>1 DEF Visible, Added
      <3>3. r \in Removed(from, head)
        BY <1>5, <3>1, <3>2 DEF Removed, Live
      <3> QED BY <1>5, <3>3
    <2>3. Visible(r, head)
      BY <2>1, <2>2 DEF Visible
    <2>4. Fact(r) \in shown[head]
      BY <1>2, <1>3, <1>5, <2>3 DEF Tells
    <2> QED BY <1>4, <1>5, <2>4 DEF TailedOf
  <1>6. ASSUME NEW f \in (TailedOf(shown[from]) \cup add) \ ret
        PROVE  f \in TailedOf(shown[head])
    <2>1. CASE f \in TailedOf(shown[from])
      <3>1. PICK r \in rows : Visible(r, from) /\ Fact(r) = f
        BY <1>2, <1>3, <2>1 DEF Tells, TailedOf
      <3>2. r.kind \in Tailed
        BY <1>4, <2>1, <3>1 DEF TailedOf
      <3> QED BY <1>5, <1>6, <3>1, <3>2
    <2>2. CASE f \in add
      <3>1. PICK r \in Added(from, head) : Fact(r) = f
        BY <2>2
      <3>2. r \in rows /\ r.kind \in Tailed
        BY DEF Added
      <3> QED BY <1>5, <1>6, <3>1, <3>2
    <2> QED BY <1>6, <2>1, <2>2
  <1>7. ASSUME NEW f \in TailedOf(shown[head])
        PROVE  f \in (TailedOf(shown[from]) \cup add) \ ret
    <2>1. PICK r \in rows : Visible(r, head) /\ Fact(r) = f
      BY <1>2, <1>3, <1>7 DEF Tells, TailedOf
    <2>2. r.kind \in Tailed
      BY <1>4, <1>7, <2>1 DEF TailedOf
    <2>3. r.end = NoEnd
      BY <1>1, <1>4, <2>1 DEF Visible
    <2>4. f \notin ret
      <3>1. SUFFICES ASSUME NEW x \in Removed(from, head), Fact(x) = f PROVE FALSE
        OBVIOUS
      <3>2. x \in rows /\ ~Live(x)
        BY DEF Removed
      <3>3. x = r
        BY <2>1, <3>1, <3>2 DEF CatInv, RowsInv
      <3> QED BY <2>3, <3>2, <3>3 DEF Live
    <2>5. CASE r.begin <= from
      <3>1. Visible(r, from)
        BY <2>3, <2>5 DEF Visible
      <3>2. f \in shown[from]
        BY <1>2, <1>3, <2>1, <2>2, <3>1 DEF Tells
      <3> QED BY <1>7, <2>4, <3>2 DEF TailedOf
    <2>6. CASE from < r.begin
      <3>1. r \in Added(from, head)
        BY <1>4, <2>2, <2>6 DEF Added
      <3> QED BY <2>1, <2>4, <3>1
    <2> QED BY <1>1, <1>4, <2>5, <2>6
  <1> QED BY <1>6, <1>7

LEMMA FeedKept ==
    ASSUME CatInv, FeedInv, UNCHANGED <<tail, feed>>, head' \in Nat, head <= head',
           \A s \in 1..head : shown'[s] = shown[s]
    PROVE  FeedInv'
  <1>1. head \in Nat
    BY DEF CatInv, CatType
  <1>2. 1..head \in SUBSET (1..head')
    BY <1>1
  <1>3. /\ tail' \in [last : 1..head', out : {<<>>} \cup {<<x>> : x \in Export}]
        /\ feed' \in [upto : 1..head', facts : SUBSET FactSet, gap : BOOLEAN]
        /\ tail.last \in 1..head /\ feed.upto \in 1..head
    BY <1>2 DEF FeedInv
  <1>4. /\ shown'[tail.last] = shown[tail.last] /\ shown'[feed.upto] = shown[feed.upto]
        /\ tail.out # <<>> => /\ tail.out[1].to = tail.last
                              /\ shown'[tail.out[1].to] = shown[tail.out[1].to]
    BY <1>2, <1>3 DEF FeedInv
  <1> QED BY <1>3, <1>4 DEF FeedInv

\* A commit adds a snapshot to those there were.
LEMMA CommitGrows ==
    ASSUME CatType, NEW Out, NEW In, Commit(Out, In)
    PROVE  head' \in Nat /\ head <= head' /\ \A s \in 1..head : shown'[s] = shown[s]
  <1> DEFINE new == Facts(rows', Peek)
  <1>1. /\ shown \in Seq(SUBSET FactSet) /\ Len(shown) = head /\ head \in Nat
        /\ shown' = Append(shown, new) /\ head' = head + 1
    BY DEF CatType, Commit, Peek
  <1> HIDE DEF new
  <1>2. \A s \in 1..Len(shown) : Append(shown, new)[s] = shown[s]
    BY <1>1
  <1> QED BY <1>1, <1>2

\* No step of the catalog or of a consumer takes a snapshot back.
LEMMA FeedCatalog ==
    ASSUME CatInv, FeedInv,
           CatalogStep \/ \E c \in Consumer, answered \in BOOLEAN : CommitBatch(c, answered)
    PROVE  FeedInv'
  <1>1. CatType /\ head \in Nat
    BY DEF CatInv, CatType
  <1>2. UNCHANGED <<tail, feed>>
    BY DEF CatalogStep, CreateTable, RegisterDataFiles, FailSession, DropTable, RenameColumn,
           PutStats, GcApply, Excise, CommitBatch, tailer
  <1>3. \/ \E Out, In : Commit(Out, In)
        \/ UNCHANGED <<head, shown>>
    <2>1. CASE CatalogStep
      <3>1. CASE CreateTable
        BY <3>1 DEF CreateTable
      <3>2. CASE RegisterDataFiles
        BY <3>2 DEF RegisterDataFiles
      <3>3. CASE \E t \in 1..MaxTables : DropTable(t)
        BY <3>3 DEF DropTable
      <3>4. CASE \E t \in 1..MaxTables : RenameColumn(t)
        BY <3>4 DEF RenameColumn
      <3>5. CASE FailSession \/ Excise \/ \E s \in 2..MaxSnapshots : GcApply(s)
        BY <3>5 DEF FailSession, Excise, GcApply, store
      <3>6. CASE \E t \in 1..MaxTables : \E v \in Value : PutStats(t, v)
        BY <3>6 DEF PutStats
      <3> QED BY <2>1, <3>1, <3>2, <3>3, <3>4, <3>5, <3>6 DEF CatalogStep
    <2>2. CASE \E c \in Consumer, answered \in BOOLEAN : CommitBatch(c, answered)
      BY <2>2 DEF CommitBatch
    <2> QED BY <2>1, <2>2
  <1>4. head' \in Nat /\ head <= head' /\ \A s \in 1..head : shown'[s] = shown[s]
    BY <1>1, <1>3, CommitGrows
  <1> QED BY <1>2, <1>4, FeedKept

LEMMA PollStep ==
    ASSUME CatInv, FeedInv, Poll
    PROVE  FeedInv'
  <1> DEFINE from == tail.last
             add == {Fact(r) : r \in Added(from, head)}
             ret == {Fact(r) : r \in Removed(from, head)}
             x == [to |-> head, add |-> add, retire |-> ret]
  <1>1. /\ tail.out = <<>> /\ from < head /\ UNCHANGED <<head, shown>>
        /\ tail' = [last |-> head, out |-> IF add = {} /\ ret = {} THEN <<>> ELSE <<x>>]
        /\ feed' = [feed EXCEPT !.gap = @ \/ from < excised]
    BY DEF Poll, store
  <1>2. from \in 1..head /\ head \in Nat /\ head \in 1..head /\ excised \in Nat
    BY DEF FeedInv, CatInv, CatType
  <1>3. add \in SUBSET FactSet /\ ret \in SUBSET FactSet
    BY FactParts DEF Added, Removed, CatInv, CatType
  <1>4. excised <= from => (TailedOf(shown[from]) \cup add) \ ret = TailedOf(shown[head])
    <2>1. from < head
      BY <1>1
    <2> HIDE DEF from
    <2> QED BY <1>2, <2>1, PollExact
  <1>5. /\ feed \in [upto : 1..head, facts : SUBSET FactSet, gap : BOOLEAN]
        /\ ~feed.gap => /\ feed.facts = TailedOf(shown[feed.upto])
                        /\ feed.facts = TailedOf(shown[from])
    BY <1>1 DEF FeedInv
  <1> HIDE DEF add, ret, from
  <1>6. /\ feed' \in [upto : 1..head, facts : SUBSET FactSet, gap : BOOLEAN]
        /\ feed'.upto = feed.upto /\ feed'.facts = feed.facts
        /\ ~feed'.gap => ~feed.gap /\ excised <= from
    <2> DEFINE gap == feed.gap \/ from < excised
    <2>1. gap \in BOOLEAN /\ feed' = [feed EXCEPT !.gap = gap]
      BY <1>1
    <2>2. ~gap => ~feed.gap /\ excised <= from
      BY <1>2
    <2> HIDE DEF gap
    <2>3. /\ feed' \in [upto : 1..head, facts : SUBSET FactSet, gap : BOOLEAN]
          /\ feed'.upto = feed.upto /\ feed'.facts = feed.facts /\ feed'.gap = gap
      BY <1>5, <2>1
    <2> QED BY <2>2, <2>3
  <1>7. x \in Export /\ x.to = head /\ x.add = add /\ x.retire = ret
    BY <1>2, <1>3 DEF Export
  <1> HIDE DEF x
  <1>8. CASE add = {} /\ ret = {}
    <2>1. tail' = [last |-> head, out |-> <<>>]
      BY <1>1, <1>8
    <2>2. tail'.last = head /\ tail'.out = <<>>
      BY <2>1
    <2>3. excised <= from => TailedOf(shown[from]) = TailedOf(shown[head])
      BY <1>4, <1>8
    <2>4. tail' \in [last : 1..head, out : {<<>>} \cup {<<y>> : y \in Export}]
      BY <1>2, <2>1
    <2> QED BY <1>1, <1>5, <1>6, <2>2, <2>3, <2>4 DEF FeedInv
  <1>9. CASE ~(add = {} /\ ret = {})
    <2>1. tail' = [last |-> head, out |-> <<x>>]
      BY <1>1, <1>9
    <2>2. tail'.last = head /\ tail'.out = <<x>> /\ tail'.out # <<>> /\ tail'.out[1] = x
      BY <2>1
    <2>3. tail' \in [last : 1..head, out : {<<>>} \cup {<<y>> : y \in Export}]
      BY <1>2, <1>7, <2>1
    <2> QED BY <1>1, <1>2, <1>4, <1>5, <1>6, <1>7, <2>2, <2>3 DEF FeedInv
  <1> QED BY <1>8, <1>9

LEMMA FeedTailer ==
    ASSUME CatInv, FeedInv, Poll \/ WriteExport \/ SkipExport \/ RestartTailer
    PROVE  FeedInv'
  <1>1. /\ tail \in [last : 1..head, out : {<<>>} \cup {<<x>> : x \in Export}]
        /\ feed \in [upto : 1..head, facts : SUBSET FactSet, gap : BOOLEAN]
        /\ tail.out # <<>> => /\ tail.out[1].to = tail.last /\ tail.out[1].to \in 1..head
                              /\ tail.out[1] \in Export
    BY DEF FeedInv
  <1>2. CASE WriteExport
    <2> DEFINE x == tail.out[1]
    <2>1. /\ tail.out # <<>> /\ UNCHANGED <<head, shown>>
          /\ feed' = [feed EXCEPT !.upto = x.to, !.facts = (@ \cup x.add) \ x.retire]
          /\ tail' = [tail EXCEPT !.out = <<>>]
      BY <1>2 DEF WriteExport, store
    <2>2. x.to = tail.last /\ x.to \in 1..head /\ x.add \in SUBSET FactSet /\ x.retire \in SUBSET FactSet
      BY <1>1, <2>1 DEF Export
    <2>3. ~feed.gap => (feed.facts \cup x.add) \ x.retire = TailedOf(shown[x.to])
      BY <2>1 DEF FeedInv
    <2> HIDE DEF x
    <2>4. tail'.out = <<>> /\ tail'.last = tail.last
          /\ tail' \in [last : 1..head, out : {<<>>} \cup {<<y>> : y \in Export}]
      BY <1>1, <2>1
    <2>5. /\ feed'.upto = x.to /\ feed'.facts = (feed.facts \cup x.add) \ x.retire
          /\ feed'.gap = feed.gap
          /\ feed' \in [upto : 1..head, facts : SUBSET FactSet, gap : BOOLEAN]
      BY <1>1, <2>1, <2>2
    <2> QED BY <2>1, <2>2, <2>3, <2>4, <2>5 DEF FeedInv
  <1>3. CASE SkipExport
    <2>1. /\ UNCHANGED <<head, shown>>
          /\ tail' = [tail EXCEPT !.out = <<>>] /\ feed' = [feed EXCEPT !.gap = TRUE]
      BY <1>3 DEF SkipExport, store
    <2>2. /\ tail' \in [last : 1..head, out : {<<>>} \cup {<<y>> : y \in Export}]
          /\ tail'.out = <<>> /\ feed'.gap = TRUE
          /\ feed' \in [upto : 1..head, facts : SUBSET FactSet, gap : BOOLEAN]
      BY <1>1, <2>1
    <2> QED BY <2>1, <2>2 DEF FeedInv
  <1>4. CASE RestartTailer
    <2>1. /\ UNCHANGED <<head, shown, feed>> /\ tail' = [last |-> feed.upto, out |-> <<>>]
      BY <1>4 DEF RestartTailer, store
    <2>2. /\ tail' \in [last : 1..head, out : {<<>>} \cup {<<y>> : y \in Export}]
          /\ tail'.out = <<>> /\ tail'.last = feed.upto
      BY <1>1, <2>1
    <2> QED BY <2>1, <2>2 DEF FeedInv
  <1> QED BY <1>2, <1>3, <1>4, PollStep

-----------------------------------------------------------------------------
\* The whole

IInvFeeds == CatInv /\ SinkInv /\ FeedInv

LEMMA InitInv == InitFeeds => IInvFeeds
  <1> SUFFICES ASSUME InitFeeds PROVE IInvFeeds
    OBVIOUS
  <1> DEFINE first == Facts({Bootstrap}, 1)
  <1>1. /\ head = 1 /\ version = 1 /\ session = <<>> /\ rows = {Bootstrap}
        /\ shown = <<first>> /\ retainFrom = 0 /\ excised = 0 /\ offset = 0
        /\ pos = [c \in Consumer |-> 0] /\ tail = [last |-> 1, out |-> <<>>]
        /\ feed = [upto |-> 1, facts |-> {}, gap |-> FALSE]
    BY DEF InitFeeds, NoSession
  <1>2. /\ Bootstrap \in Row /\ Bootstrap.kind = "schema" /\ Bootstrap.begin = 1
        /\ Bootstrap.end = 0 /\ Visible(Bootstrap, 1)
    BY DEF Bootstrap, Row, KindName, Datum, Visible, NoEnd
  <1>3. first = {Fact(Bootstrap)} /\ Fact(Bootstrap) \in FactSet /\ Fact(Bootstrap)[1] = "schema"
    BY <1>2, FactParts DEF Facts
  <1> HIDE DEF first
  <1>4. CatType
    <2>1. shown \in Seq(SUBSET FactSet) /\ Len(shown) = 1
      BY <1>1, <1>3
    <2>2. session \in Seq(Row)
      BY <1>1
    <2> QED BY <1>1, <1>2, <2>1, <2>2 DEF CatType
  <1>5. RowsInv
    BY <1>1, <1>2 DEF RowsInv, Good, NoEnd
  <1>6. SessionInv
    BY <1>1 DEF SessionInv
  <1>7. ShownInv
    <2>1. shown[1] = first /\ 1..head = {1}
      BY <1>1
    <2> QED BY <1>1, <1>2, <1>3, <2>1 DEF ShownInv, Tells, Good
  <1>8. SinkInv
    <2>1. 0 \in 0..Len(Lens) /\ 1..0 = {}
      BY LensType
    <2> QED BY <1>1, <1>2, <2>1 DEF SinkInv, Arrived
  <1>9. FeedInv
    <2>1. shown[1] = first /\ 1 \in 1..head
      BY <1>1
    <2>2. TailedOf(first) = {}
      BY <1>3 DEF TailedOf, Tailed
    <2>3. /\ tail.last = 1 /\ tail.out = <<>> /\ feed.upto = 1 /\ feed.facts = {}
      BY <1>1
    <2>4. /\ tail \in [last : 1..head, out : {<<>>} \cup {<<x>> : x \in Export}]
          /\ feed \in [upto : 1..head, facts : SUBSET FactSet, gap : BOOLEAN]
      BY <1>1, <2>1
    <2> QED BY <2>1, <2>2, <2>3, <2>4 DEF FeedInv
  <1> QED BY <1>4, <1>5, <1>6, <1>7, <1>8, <1>9 DEF CatInv, IInvFeeds

\* Only the rows and the floor matter to the catalog's part.
LEMMA CatKept ==
    ASSUME CatInv, UNCHANGED <<rows, head, version, session, shown, retainFrom, excised>>
    PROVE  CatInv'
  <1>1. CatType' /\ SessionInv'
    BY DEF CatInv, CatType, SessionInv, Fresh, Peek
  <1>2. RowsInv'
    BY DEF CatInv, RowsInv
  <1>3. ShownInv'
    BY DEF CatInv, ShownInv, Tells
  <1> QED BY <1>1, <1>2, <1>3 DEF CatInv

LEMMA StepInv == IInvFeeds /\ [NextFeeds]_feeds => IInvFeeds'
  <1> SUFFICES ASSUME IInvFeeds, [NextFeeds]_feeds PROVE IInvFeeds'
    OBVIOUS
  <1>1. CatInv /\ SinkInv /\ FeedInv
    BY DEF IInvFeeds
  <1>2. pos \in [Consumer -> Nat] /\ offset \in Nat /\ head \in Nat
    BY <1>1, LensType DEF SinkInv, CatInv, CatType
  <1>3. CASE CatalogStep
    BY <1>1, <1>3, CatalogInv, SinkCatalog, FeedCatalog DEF IInvFeeds
  <1>4. ASSUME NEW c \in Consumer, NEW answered \in BOOLEAN, CommitBatch(c, answered)
        PROVE  IInvFeeds'
    BY <1>1, <1>4, BatchInv, SinkBatch, FeedCatalog DEF IInvFeeds
  <1>5. ASSUME NEW c \in Consumer, RepeatBatch(c) \/ ResumeConsumer(c)
        PROVE  IInvFeeds'
    <2>1. UNCHANGED <<rows, head, version, session, shown, retainFrom, excised, offset, tail, feed>>
      BY <1>5 DEF RepeatBatch, ResumeConsumer, store, floor, tailer
    <2>2. pos' \in [Consumer -> Nat]
      BY <1>2, <1>5 DEF RepeatBatch, ResumeConsumer
    <2>3. CatInv' /\ SinkInv'
      BY <1>1, <2>1, <2>2, CatKept, SinkKept
    <2>4. FeedInv'
      BY <1>1, <1>2, <2>1, FeedKept
    <2> QED BY <2>3, <2>4 DEF IInvFeeds
  <1>6. CASE Poll \/ WriteExport \/ SkipExport \/ RestartTailer
    <2>1. UNCHANGED <<rows, head, version, session, shown, retainFrom, excised, offset, pos>>
      BY <1>6 DEF Poll, WriteExport, SkipExport, RestartTailer, store, floor, sink
    <2>2. CatInv' /\ SinkInv'
      BY <1>1, <1>2, <2>1, CatKept, SinkKept
    <2> QED BY <1>1, <1>6, <2>2, FeedTailer DEF IInvFeeds
  <1>7. CASE UNCHANGED feeds
    <2>1. UNCHANGED <<rows, head, version, session, shown, retainFrom, excised, offset, pos,
                      tail, feed>>
      BY <1>7 DEF feeds, store, floor, sink, tailer
    <2>2. CatInv' /\ SinkInv'
      BY <1>1, <1>2, <2>1, CatKept, SinkKept
    <2>3. FeedInv'
      BY <1>1, <1>2, <2>1, FeedKept
    <2> QED BY <2>2, <2>3 DEF IInvFeeds
  <1> QED BY <1>3, <1>4, <1>5, <1>6, <1>7 DEF NextFeeds

\* The inductive invariant holds of commits, collection, excision, ingestion and
\* export in every order.
THEOREM FeedsInvariance == SpecFeeds => []IInvFeeds
  BY InitInv, StepInv, PTL DEF SpecFeeds

\* Exactly-once ingestion (IngestedOnce), for every stream whose batches are of
\* one length: commit_batch() numbers the records from next_offset *
\* records.len() on, and the numbers of uneven batches overlap.
THEOREM BatchesIngestedOnce == SpecFeeds => [](SameLength => IngestedOnce)
  <1>1. IInvFeeds => (SameLength => IngestedOnce)
    <2> SUFFICES ASSUME IInvFeeds, SameLength, \E r \in LiveOf("table") : r.id = SinkTable
                 PROVE  /\ \A k \in 1..offset : \A i \in 1..Lens[k] :
                               \E r \in LiveOf("inlined") : r.data = <<k, i>>
                        /\ \A r, x \in LiveOf("inlined") : r.data = x.data => r = x
                        /\ \A r \in LiveOf("inlined") : r.data[1] <= offset
      BY DEF IngestedOnce
    <2>1. /\ \A r \in rows : r.kind = "inlined" => OfBatch(r)
          /\ \A r, x \in rows :
                 r.kind = "inlined" /\ x.kind = "inlined" /\ r.data = x.data => r = x
          /\ Dead \/ Arrived
          /\ offset \in 0..Len(Lens)
      BY DEF IInvFeeds, SinkInv
    <2>2. Arrived
      BY <2>1 DEF Dead
    <2>3. \A r \in LiveOf("inlined") : r.data[1] <= offset
      BY <2>1 DEF LiveOf, OfBatch
    <2> QED BY <2>1, <2>2, <2>3 DEF Arrived, LiveOf
  <1> QED BY <1>1, FeedsInvariance, PTL

\* The files that the caller of poll_once() wrote add up to the snapshot the last
\* of them names, unless one was skipped or excision overtook the tailer.
THEOREM FeedIsComplete == SpecFeeds => []FeedComplete
  <1>1. IInvFeeds => FeedComplete
    BY DEF IInvFeeds, FeedInv, FeedComplete, TailedOf
  <1> QED BY <1>1, FeedsInvariance, PTL

-----------------------------------------------------------------------------
\* Ids in the order of their keys

\* Each id is at the place that the number of ids up to it gives.
LEMMA OrderExists ==
    ASSUME NEW S \in SUBSET Nat, IsFiniteSet(S)
    PROVE  \E s \in SetToSeqs(S) : \A i, j \in DOMAIN s : i < j => s[i] < s[j]
  <1> DEFINE n == Cardinality(S)
             D == 1..n
             Low(x) == {y \in S : y <= x}
             rank == [x \in S |-> Cardinality(Low(x))]
  <1>1. n \in Nat
    BY FS_CardinalityType
  <1>2. IsFiniteSet(D) /\ Cardinality(D) = n
    BY <1>1, FS_Interval
  <1>3. ASSUME NEW x \in S
        PROVE  IsFiniteSet(Low(x)) /\ Cardinality(Low(x)) \in D
    <2>1. Low(x) \in SUBSET S
      OBVIOUS
    <2>2. x \in Low(x)
      OBVIOUS
    <2> HIDE DEF Low
    <2>3. IsFiniteSet(Low(x)) /\ Cardinality(Low(x)) <= n
      BY <2>1, FS_Subset
    <2>4. Cardinality(Low(x)) \in Nat /\ Cardinality(Low(x)) # 0
      BY <2>2, <2>3, FS_CardinalityType, FS_EmptySet
    <2> QED BY <1>1, <2>3, <2>4
  <1>4. ASSUME NEW x \in S, NEW y \in S, x < y
        PROVE  Cardinality(Low(x)) < Cardinality(Low(y))
    <2>1. Low(x) \in SUBSET Low(y) /\ Low(x) # Low(y)
      <3>1. x \in Nat /\ y \in Nat /\ y \notin Low(x) /\ y \in Low(y)
        BY <1>4
      <3>2. \A z \in S : z <= x => z <= y
        BY <1>4, <3>1
      <3> QED BY <3>1, <3>2
    <2> HIDE DEF Low
    <2>2. Cardinality(Low(x)) <= Cardinality(Low(y)) /\ Cardinality(Low(x)) # Cardinality(Low(y))
      BY <1>3, <2>1, FS_Subset
    <2> QED BY <1>1, <1>3, <2>2
  <1> HIDE DEF Low
  <1>5. rank \in [S -> D] /\ \A x, y \in S : x < y => rank[x] < rank[y]
    BY <1>3, <1>4
  <1> HIDE DEF rank
  <1>6. rank \in Injection(S, D)
    <2>1. ASSUME NEW x \in S, NEW y \in S, rank[x] = rank[y]
          PROVE  x = y
      <3>1. x \in Nat /\ y \in Nat /\ rank[x] \in Nat /\ rank[y] \in Nat
        BY <1>1, <1>5
      <3>2. ~(x < y) /\ ~(y < x)
        BY <1>5, <2>1, <3>1
      <3> QED BY <3>1, <3>2
    <2> QED BY <1>5, <2>1 DEF Injection, IsInjective
  <1> HIDE DEF D
  <1>7. rank \in Surjection(S, D)
    BY <1>2, <1>6, FS_Injection
  <1>8. \A i \in D : \E x \in S : rank[x] = i
    BY <1>7 DEF Surjection
  <1> DEFINE s == [i \in D |-> CHOOSE x \in S : rank[x] = i]
  <1>9. s \in [D -> S] /\ \A i \in D : rank[s[i]] = i
    BY <1>8
  <1> HIDE DEF s
  <1>10. \A i, j \in D : i # j => s[i] # s[j]
    BY <1>9
  <1>11. ASSUME NEW i \in D, NEW j \in D, i < j
         PROVE  s[i] < s[j]
    <2>1. s[i] \in S /\ s[j] \in S /\ s[i] \in Nat /\ s[j] \in Nat
      BY <1>9
    <2>2. rank[s[i]] = i /\ rank[s[j]] = j /\ i \in Nat /\ j \in Nat
      BY <1>1, <1>9 DEF D
    <2>3. s[i] # s[j]
      BY <1>11, <2>2
    <2>4. ~(s[j] < s[i])
      BY <1>5, <1>11, <2>1, <2>2
    <2> QED BY <2>1, <2>3, <2>4
  <1>12. s \in SetToSeqs(S)
    BY <1>9, <1>10 DEF SetToSeqs, D, n
  <1>13. \A i, j \in DOMAIN s : i < j => s[i] < s[j]
    BY <1>9, <1>11
  <1> QED BY <1>12, <1>13

\* A list of all ids, each once.
LEMMA InOrderLists ==
    ASSUME NEW S \in SUBSET Nat, IsFiniteSet(S)
    PROVE  /\ InOrder(S) \in Seq(S)
           /\ \A i, j \in 1..Len(InOrder(S)) : i # j => InOrder(S)[i] # InOrder(S)[j]
           /\ \A x \in S : \E i \in 1..Len(InOrder(S)) : InOrder(S)[i] = x
  <1> DEFINE s == InOrder(S)
             n == Cardinality(S)
             D == 1..n
  <1>1. s \in SetToSeqs(S)
    BY OrderExists DEF InOrder
  <1>2. s \in [D -> S] /\ \A i, j \in D : i # j => s[i] # s[j]
    BY <1>1 DEF SetToSeqs
  <1>3. n \in Nat
    BY FS_CardinalityType
  <1>4. IsFiniteSet(D) /\ Cardinality(D) = n
    BY <1>3, FS_Interval
  <1> HIDE DEF s
  <1>5. s \in Seq(S) /\ Len(s) = n
    BY <1>2, <1>3, SeqDef, LenProperties
  <1>6. s \in Injection(D, S)
    BY <1>2 DEF Injection, IsInjective
  <1>7. s \in Surjection(D, S)
    <2> HIDE DEF D
    <2> QED BY <1>4, <1>6, FS_Injection
  <1>8. \A x \in S : \E i \in D : s[i] = x
    BY <1>7 DEF Surjection
  <1> QED BY <1>2, <1>5, <1>8 DEF s

-----------------------------------------------------------------------------
\* What the statements rely on

\* Everything that some snapshot has shown.
Past == UNION {shown[s] : s \in 1..head}

\* What a snapshot taken now would show.
LiveFacts == {Fact(r) : r \in {x \in rows : Live(x)}}

\* What a commit or a snapshot shows is a tree: the one schema, its tables, and
\* their columns and files.
Tree(F) ==
    /\ Fact(Bootstrap) \in F
    /\ \A f \in F : f[1] = "schema" => f = Fact(Bootstrap)
    /\ \A f \in F : f[1] = "table" => f[2] = 1
    /\ \A f \in F : f[1] \in {"column", "file"} =>
           \E g \in F : g[1] = "table" /\ g[3] = f[2]

\* The live rows and the snapshots are trees, and the files of the session have
\* their table.
TreeInv ==
    /\ head <= Unbounded
    /\ \A r \in rows : r.kind = "schema" => r.id = 1
    /\ Tree(LiveFacts)
    /\ \A s \in 1..head : Tree(shown[s])
    /\ \A i \in 1..Len(session) : \E g \in LiveFacts : g[1] = "table" /\ g[3] = session[i].parent

\* File ids are given out one after the other, and each once.
FileIds == {f[3] : f \in {g \in Past : g[1] = "file"}}

\* File ids are those of the counter, the session takes the next ones, and no
\* two rows of files have one id.
FileInv ==
    /\ FileIds = 1..(NextId("file") - 1)
    /\ \A i \in 1..Len(session) : session[i].id = NextId("file") - 1 + i
    /\ \A r \in rows : r.kind = "file" => r.id \in FileIds
    /\ \A r, x \in rows : r.kind = "file" /\ x.kind = "file" /\ r.id = x.id => r = x

\* The files that snapshots have or the session in progress is to have.
Coming == {Fact(session[i]) : i \in 1..Len(session)}

\* Of one table.
FilesOf(t) == {f \in Past \cup Coming : f[1] = "file" /\ f[2] = t}

\* A row of the file column statistics.
FileRange == [table : Nat, file : Nat, min : Nat, max : Nat]

\* Each file has a range that its value is in, and is counted.
StatsInv ==
    /\ stats \in [ranges : SUBSET FileRange, counts : [1..MaxTables -> Nat]]
    /\ \A f \in Past \cup Coming : f[1] = "file" =>
           \E x \in stats.ranges : x.table = f[2] /\ x.file = f[3] /\ InRange(x, f[5])
    /\ \A t \in 1..MaxTables : IsFiniteSet(FilesOf(t)) /\ Cardinality(FilesOf(t)) <= stats.counts[t]

\* The store's part of the invariant.
StoreInv == CatInv /\ SinkInv /\ TreeInv /\ FileInv /\ StatsInv

\* The scans a statement may have before it.
Scan(it) ==
    \/ q.op \in Listings /\ q.of = All /\ it = <<"schemas", All>>
    \/ q.op = "tables" /\ q.of \in {All, 1} /\ it = <<"tables", 1>>
    \/ q.op \in {"columns", "files"} /\ q.of = All /\ it = <<"tables", 1>>
    \/ q.op = "columns" /\ \E t \in Nat : q.of \in {All, t} /\ it = <<"describe", t>>
    \/ q.op \in {"columns", "files"} /\ \E t \in Nat : q.of \in {All, t} /\ it = <<q.op, t>>
    \/ q.op = "inlined" /\ it \in {<<"describe", q.of>>, <<"inlined", q.of>>}
    \/ q.op = "stats" /\ it \in {<<"stats", All>>, <<"counts", All>>}
    \/ q.op = "prune" /\ it = <<"prune", q.of>>

\* The statements that run, scan by scan.
Statements == {"none", "schemas", "tables", "columns", "files", "inlined", "stats", "prune", "changes"}

\* A scan: what is read, and below what.
Item == {"schemas", "tables", "describe", "columns", "files", "inlined", "stats", "counts", "prune"}
            \X (Nat \cup (Nat \X Nat))

\* A statement is well-formed: only scans of its own kind are to come.
StatementType ==
    /\ q = [op |-> q.op, of |-> q.of, snap |-> q.snap, todo |-> q.todo, got |-> q.got,
            ever |-> q.ever, always |-> q.always]
    /\ q.op \in Statements /\ q.todo \in Seq(Item)
    /\ q.op \in {"none", "changes"} => q.todo = <<>>
    /\ q.op = "none" => q = NoStatement
    /\ q.op \in DOMAIN Kind \cup {"stats", "prune"} => q.snap \in (1..head) \cup {Unbounded}
    /\ q.op \in {"inlined", "stats"} => q.snap \in 1..head
    /\ q.op = "inlined" => q.of \in Nat
    /\ q.op = "prune" => q.of \in Nat \X Nat
    /\ \A i \in 1..Len(q.todo) : Scan(q.todo[i])

\* The table or schema below which a scan finds the fact.
Home(f) == IF f[1] = "inlined" THEN f[2][1] ELSE f[2]

\* The scan leads to the fact.
OnPath(f, it) ==
    it \in {<<"schemas", All>>, <<"tables", 1>>, <<"describe", Home(f)>>, <<q.op, Home(f)>>}

\* What is asked for is found, or a scan that leads to it is still to come.
Covered(F) ==
    \A f \in Asked(F) : f \in q.got \/ \E i \in 1..Len(q.todo) : OnPath(f, q.todo[i])

\* The statement reads the rows of a snapshot that is retained.
Bound ==
    /\ q.op \in DOMAIN Kind /\ Steady(Kind[q.op])
    /\ q.snap \in 1..head /\ retainFrom <= q.snap

\* A bound statement has found only what its snapshot showed, and misses nothing.
BoundInv ==
    Bound => /\ q.got \subseteq Asked(shown[q.snap])
             /\ Covered(shown[q.snap])
             /\ \A i \in 1..Len(q.todo) : q.todo[i][1] = "inlined" =>
                    \E g \in shown[q.snap] : g[1] = "table" /\ g[3] = q.of

\* A listing read at u64::MAX has found only what it could, and misses nothing
\* that was live all along.
UnboundInv ==
    q.op \in Listings /\ q.snap = Unbounded =>
        /\ LiveFacts \subseteq q.ever /\ q.always \subseteq LiveFacts
        /\ q.got \subseteq q.ever
        /\ Covered(q.always)

\* What statistics and changes answer is right in the snapshots they name.
AnswerInv ==
    /\ q.op = "prune" /\ Answered /\ q.snap \in 1..head =>
           \A f \in shown[q.snap] :
               f[1] = "file" /\ f[2] = q.of[1] /\ f[5] = q.of[2] => f[3] \in q.got
    /\ q.op = "stats" =>
           \A x \in q.got :
               x[2] >= Cardinality({f \in shown[q.snap] : f[1] = "file" /\ f[2] = x[1]})
    /\ q.op = "changes" =>
           q.of \in (1..head) \X (1..head) /\ q.of[1] <= q.of[2] /\ ChangesExact

\* The statement's part of the invariant.
QueryInv == StatementType /\ BoundInv /\ UnboundInv /\ AnswerInv

\* The inductive invariant.
IInvQuery == StoreInv /\ QueryInv

-----------------------------------------------------------------------------
\* What a commit leaves of the live rows

\* No row ends later than the head: what is visible from there on is live.
LiveFromHead == \A s \in Nat : head <= s => Facts(rows, s) = LiveFacts

\* Reads at the head or later see the live rows.
LEMMA LiveAt == CatType /\ RowsInv => LiveFromHead
  <1> SUFFICES ASSUME CatType, RowsInv, NEW s \in Nat, head <= s
               PROVE  Facts(rows, s) = LiveFacts
    BY DEF LiveFromHead
  <1>1. ASSUME NEW r \in rows
        PROVE  Visible(r, s) <=> Live(r)
    <2>1. /\ r.begin \in Nat /\ r.end \in Nat /\ r.begin <= head /\ head \in Nat
          /\ r.end = NoEnd \/ r.end <= head
      BY DEF CatType, RowsInv, Row
    <2> QED BY <2>1 DEF Visible, Live, NoEnd
  <1> QED BY <1>1 DEF Facts, LiveFacts

\* The same after a step.
LEMMA LiveAtNext == CatType' /\ RowsInv' => LiveFromHead'
  BY LiveAt, PTL

\* The rows that stay, and the new ones.
LEMMA CommitLive ==
    ASSUME CatInv, NEW Out, NEW In, Puts(Out, In), Commit(Out, In), version' \in Nat
    PROVE  /\ LiveFacts' = {Fact(r) : r \in {x \in rows \ Out : Live(x)}}
                               \cup {Fact(r) : r \in {x \in In : Fresh(x)}}
           /\ shown'[head + 1] = LiveFacts' /\ head' = head + 1 /\ session' = <<>>
           /\ \A s \in 1..head : shown'[s] = shown[s]
           /\ rows' = (rows \ Out) \cup In
  <1>1. /\ rows' = (rows \ Out) \cup In /\ head' = head + 1 /\ session' = <<>>
        /\ shown'[head + 1] = Facts(rows', Peek) /\ \A s \in 1..head : shown'[s] = shown[s]
    BY CommitType DEF CatInv, Commit, NoSession
  <1>2. shown'[head + 1] = LiveFacts'
    <2>1. CatType' /\ RowsInv'
      BY CommitStep DEF CatInv
    <2>2. head + 1 \in Nat /\ Peek = head + 1
      BY DEF CatInv, CatType, Peek
    <2>3. Facts(rows', head + 1) = LiveFacts'
      <3>1. \A s \in Nat : head' <= s => Facts(rows', s) = LiveFacts'
        BY <2>1, LiveAtNext DEF LiveFromHead
      <3>2. head' <= head + 1
        BY <1>1, <2>2 DEF CatInv, CatType
      <3> QED BY <2>2, <3>1, <3>2
    <2> QED BY <1>1, <2>2, <2>3
  <1>3. ASSUME NEW x \in In
        PROVE  Live(x) <=> Fresh(x)
    <2>1. CASE Fresh(x)
      BY <2>1 DEF Fresh, Live
    <2>2. CASE ~Fresh(x)
      <3>1. PICK r \in Out : x = Ended(r)
        BY <2>2 DEF Puts
      <3>2. r \in Row /\ x.end = Peek
        BY <3>1, EndedParts DEF Puts, CatInv, CatType
      <3>3. Peek # NoEnd
        BY DEF CatInv, CatType, Peek, NoEnd
      <3> QED BY <2>2, <3>2, <3>3 DEF Live
    <2> QED BY <2>1, <2>2
  <1>4. LiveFacts' = {Fact(r) : r \in {x \in rows \ Out : Live(x)}}
                         \cup {Fact(r) : r \in {x \in In : Fresh(x)}}
    BY <1>1, <1>3 DEF LiveFacts
  <1> QED BY <1>1, <1>2, <1>4

\* Live rows that are never overwritten are shown by the head.
LEMMA LiveShown ==
    ASSUME CatInv, NEW f \in LiveFacts, Steady(f[1])
    PROVE  f \in shown[head] /\ f \in Past
  <1>1. head \in 1..head /\ excised <= head /\ rows \in SUBSET Row
    BY DEF CatInv, CatType
  <1>2. Tells(head)
    BY <1>1 DEF CatInv, ShownInv
  <1>3. PICK r \in rows : Live(r) /\ Fact(r) = f
    BY DEF LiveFacts
  <1>4. Visible(r, head) /\ r.kind = f[1]
    BY <1>1, <1>3, FactParts DEF CatInv, RowsInv, Visible, Live
  <1>5. f \in shown[head]
    BY <1>2, <1>3, <1>4 DEF Tells
  <1> QED BY <1>1, <1>5 DEF Past

\* What is shown once stays among what was shown.
LEMMA PastGrows ==
    ASSUME CatType, head' = head + 1, \A s \in 1..head : shown'[s] = shown[s]
    PROVE  Past' = Past \cup shown'[head + 1]
  <1>1. head \in Nat /\ 1..(head + 1) = (1..head) \cup {head + 1}
    BY DEF CatType
  <1>2. ASSUME NEW f \in Past'
        PROVE  f \in Past \cup shown'[head + 1]
    <2>1. PICK s \in 1..(head + 1) : f \in shown'[s]
      BY <1>2 DEF Past
    <2> QED BY <1>1, <2>1 DEF Past
  <1>3. ASSUME NEW f \in Past \cup shown'[head + 1]
        PROVE  f \in Past'
    <2>1. \E s \in 1..(head + 1) : f \in shown'[s]
      BY <1>1, <1>3 DEF Past
    <2> QED BY <2>1 DEF Past
  <1> QED BY <1>2, <1>3

-----------------------------------------------------------------------------
\* Trees

\* Nothing but leaves goes, and what comes has its place.
LEMMA TreeGrows ==
    ASSUME NEW F, NEW G, Tree(F),
           \A f \in F : f[1] \in {"schema", "table"} => f \in G,
           \A g \in G : \/ g \in F
                        \/ /\ g[1] # "schema" /\ (g[1] = "table" => g[2] = 1)
                           /\ g[1] \in {"column", "file"} =>
                                  \E h \in G : h[1] = "table" /\ h[3] = g[2]
    PROVE  Tree(G)
  <1>1. Fact(Bootstrap) \in G
    <2>1. Fact(Bootstrap) \in F /\ Fact(Bootstrap)[1] = "schema"
      BY DEF Tree, Bootstrap, Fact
    <2> QED BY <2>1
  <1>2. \A g \in G : g[1] = "schema" => g = Fact(Bootstrap)
    BY DEF Tree
  <1>3. \A g \in G : g[1] = "table" => g[2] = 1
    BY DEF Tree
  <1>4. ASSUME NEW g \in G, g[1] \in {"column", "file"}
        PROVE  \E h \in G : h[1] = "table" /\ h[3] = g[2]
    <2>1. CASE g \in F
      <3>1. PICK h \in F : h[1] = "table" /\ h[3] = g[2]
        BY <1>4, <2>1 DEF Tree
      <3> QED BY <3>1
    <2> QED BY <1>4, <2>1
  <1> QED BY <1>1, <1>2, <1>3, <1>4 DEF Tree

\* A commit after which the live rows are a tree.
LEMMA CommitTree ==
    ASSUME CatInv, TreeInv, NEW Out, NEW In, Puts(Out, In), Commit(Out, In), version' \in Nat,
           Tree(LiveFacts'), \A x \in In : Fresh(x) => x.kind # "schema"
    PROVE  TreeInv'
  <1>1. /\ head' = head + 1 /\ session' = <<>> /\ shown'[head + 1] = LiveFacts'
        /\ \A s \in 1..head : shown'[s] = shown[s]
    BY CommitLive
  <1>2. head' <= Unbounded
    BY <1>1, BoundsAssumption DEF Commit, Unbounded, CatInv, CatType
  <1>3. ASSUME NEW s \in 1..head'
        PROVE  Tree(shown'[s])
    <2>1. CASE s = head + 1
      BY <1>1, <2>1
    <2>2. CASE s # head + 1
      <3>1. s \in 1..head
        BY <1>1, <2>2 DEF CatInv, CatType
      <3> QED BY <1>1, <3>1 DEF TreeInv
    <2> QED BY <2>1, <2>2
  <1>4. ASSUME NEW r \in rows', r.kind = "schema"
        PROVE  r.id = 1
    <2>1. CASE r \in rows
      BY <1>4, <2>1 DEF TreeInv
    <2>2. CASE \E o \in Out : r = Ended(o)
      <3>1. PICK o \in Out : r = Ended(o)
        BY <2>2
      <3>2. o \in rows /\ o.kind = "schema" /\ r.id = o.id
        BY <1>4, <3>1, EndedParts DEF Puts, CatInv, CatType
      <3> QED BY <3>2 DEF TreeInv
    <2> QED BY <1>4, <2>1, <2>2, CommitLive DEF Puts
  <1> QED BY <1>1, <1>2, <1>3, <1>4 DEF TreeInv

-----------------------------------------------------------------------------
\* Files

\* The counter of files is one more than the number of ids given.
LEMMA FileIdsType ==
    ASSUME CatInv
    PROVE  /\ IsFiniteSet(FileIds) /\ Cardinality(FileIds) \in Nat /\ FileIds \in SUBSET Nat
           /\ NextId("file") = 1 + Cardinality(FileIds) /\ NextId("file") - 1 = Cardinality(FileIds)
  <1>1. \A s \in 1..head : \A f \in shown[s] : f[1] = "file" => f[3] \in Nat /\ f[3] <= MaxFiles
    BY BoundsAssumption DEF CatInv, ShownInv, Good
  <1>2. FileIds \in SUBSET Nat /\ (\A x \in FileIds : x <= MaxFiles) /\ MaxFiles \in Nat
    BY <1>1, BoundsAssumption DEF FileIds, Past
  <1>3. IsFiniteSet(FileIds)
    BY <1>2, FS_BoundedSetOfNaturals
  <1>4. Cardinality(FileIds) \in Nat
    BY <1>3, FS_CardinalityType
  <1>5. NextId("file") = 1 + Cardinality(FileIds)
    BY DEF NextId, FileIds, Past
  <1> QED BY <1>2, <1>3, <1>4, <1>5

\* The files of the live rows have ids that were given before.
LEMMA CommitIds ==
    ASSUME CatInv, FileInv, NEW Out, NEW In, Puts(Out, In), Commit(Out, In), version' \in Nat
    PROVE  /\ FileIds' = FileIds \cup {x.id : x \in {y \in In : Fresh(y) /\ y.kind = "file"}}
           /\ \A r \in rows' : r.kind = "file" => r.id \in FileIds'
  <1> DEFINE new == {x.id : x \in {y \in In : Fresh(y) /\ y.kind = "file"}}
  <1>1. /\ LiveFacts' = {Fact(r) : r \in {x \in rows \ Out : Live(x)}}
                               \cup {Fact(r) : r \in {x \in In : Fresh(x)}}
        /\ shown'[head + 1] = LiveFacts' /\ rows' = (rows \ Out) \cup In
    BY CommitLive
  <1>2. Past' = Past \cup LiveFacts'
    BY CommitLive, PastGrows DEF CatInv
  <1>3. rows \in SUBSET Row /\ In \in SUBSET Row
    BY DEF CatInv, CatType, Puts
  <1>4. ASSUME NEW r \in rows \cup In
        PROVE  Fact(r)[1] = r.kind /\ Fact(r)[3] = r.id
    BY <1>3, FactParts
  <1>5. ASSUME NEW f \in Past', f[1] = "file"
        PROVE  f[3] \in FileIds \cup new
    <2>1. CASE f \in Past
      BY <1>5, <2>1 DEF FileIds
    <2>2. CASE \E r \in rows \ Out : f = Fact(r)
      BY <1>4, <1>5, <2>2 DEF FileInv
    <2>3. CASE \E r \in In : Fresh(r) /\ f = Fact(r)
      BY <1>4, <1>5, <2>3
    <2> QED BY <1>1, <1>2, <2>1, <2>2, <2>3
  <1>6. ASSUME NEW i \in FileIds
        PROVE  i \in FileIds'
    <2>1. PICK f \in Past : f[1] = "file" /\ f[3] = i
      BY DEF FileIds
    <2>2. f \in Past'
      BY <1>2
    <2> QED BY <2>1, <2>2 DEF FileIds
  <1>7. ASSUME NEW i \in new
        PROVE  i \in FileIds'
    <2>1. PICK x \in In : Fresh(x) /\ x.kind = "file" /\ x.id = i
      OBVIOUS
    <2>2. Fact(x) \in Past'
      BY <1>1, <1>2, <2>1
    <2>3. Fact(x)[1] = "file" /\ Fact(x)[3] = i
      BY <1>4, <2>1
    <2> QED BY <2>2, <2>3 DEF FileIds
  <1>8. FileIds' = FileIds \cup new
    <2>1. FileIds' \in SUBSET (FileIds \cup new)
      <3>1. FileIds' = {f[3] : f \in {g \in Past' : g[1] = "file"}}
        BY DEF FileIds
      <3> QED BY <1>5, <3>1
    <2> QED BY <1>6, <1>7, <2>1
  <1>9. ASSUME NEW r \in rows', r.kind = "file"
        PROVE  r.id \in FileIds \cup new
    <2>1. CASE r \in rows
      BY <1>9, <2>1 DEF FileInv
    <2>2. CASE r \in In /\ Fresh(r)
      BY <1>9, <2>2
    <2>3. CASE r \in In /\ ~Fresh(r)
      <3>1. PICK o \in Out : r = Ended(o)
        BY <2>3 DEF Puts
      <3>2. o \in rows /\ r.kind = o.kind /\ r.id = o.id
        BY <1>3, <3>1, EndedParts DEF Puts, CatInv
      <3> QED BY <1>9, <3>2 DEF FileInv
    <2> QED BY <1>1, <2>1, <2>2, <2>3
  <1> QED BY <1>8, <1>9

\* A file keeps its id, and no other has it.
LEMMA CommitUnique ==
    ASSUME CatInv, FileInv, NEW Out, NEW In, Puts(Out, In), Commit(Out, In), version' \in Nat,
           \A x \in In : Fresh(x) /\ x.kind = "file" =>
               \E i \in 1..Len(session) : x = session[i]
    PROVE  \A r, x \in rows' : r.kind = "file" /\ x.kind = "file" /\ r.id = x.id => r = x
  <1>1. rows' = (rows \ Out) \cup In /\ rows \in SUBSET Row /\ Out \in SUBSET rows
    BY CommitLive DEF CatInv, CatType, Puts
  <1>2. /\ FileIds = 1..(NextId("file") - 1) /\ NextId("file") - 1 \in Nat
        /\ session \in Seq(Row) /\ Len(session) \in Nat
    BY FileIdsType, LenProperties DEF FileInv, CatInv, CatType
  <1> DEFINE n == NextId("file") - 1
             New1(r) == r \in In /\ Fresh(r)
             Old(r) == (r \in rows /\ r \notin Out)
             Gone(r) == \E o \in Out : r = Ended(o)
  <1>3. ASSUME NEW r \in rows'
        PROVE  Old(r) \/ Gone(r) \/ New1(r)
    BY <1>1 DEF Puts
  <1>4. ASSUME NEW r \in rows', r.kind = "file", Old(r) \/ Gone(r)
        PROVE  \E o \in rows : o.kind = "file" /\ o.id = r.id /\ (r = o \/ r = Ended(o)) /\ (r = o <=> Old(r))
    <2>1. CASE Old(r)
      BY <1>4, <2>1
    <2>2. CASE Gone(r) /\ ~Old(r)
      <3>1. PICK o \in Out : r = Ended(o)
        BY <2>2
      <3>2. o \in rows /\ o \in Row /\ r.kind = o.kind /\ r.id = o.id /\ r.end = Peek
        BY <1>1, <3>1, EndedParts DEF CatInv
      <3>3. o.end = NoEnd
        <4>1. Steady(o.kind)
          BY <1>4, <3>2 DEF Steady
        <4> QED BY <4>1 DEF Puts, Live
      <3>4. Peek # NoEnd
        BY DEF Peek, NoEnd, CatInv, CatType
      <3>5. r # o
        BY <3>2, <3>3, <3>4
      <3> QED BY <1>4, <2>2, <3>1, <3>2, <3>5
    <2> QED BY <1>4, <2>1, <2>2
  <1>5. ASSUME NEW r \in rows', r.kind = "file", New1(r)
        PROVE  \E i \in 1..Len(session) : r = session[i] /\ r.id = n + i
    BY <1>5 DEF FileInv
  <1>6. \A o \in rows : o.kind = "file" => o.id \in 1..n
    BY <1>2 DEF FileInv
  <1>7. n \in Nat
    BY <1>2
  <1> HIDE DEF n
  <1>8. ASSUME NEW r \in rows', NEW x \in rows', r.kind = "file", x.kind = "file", r.id = x.id
        PROVE  r = x
    <2>1. CASE New1(r) /\ New1(x)
      <3>1. PICK i \in 1..Len(session) : r = session[i] /\ r.id = n + i
        BY <1>5, <1>8, <2>1
      <3>2. PICK j \in 1..Len(session) : x = session[j] /\ x.id = n + j
        BY <1>5, <1>8, <2>1
      <3>3. i = j
        BY <1>2, <1>7, <1>8, <3>1, <3>2
      <3> QED BY <3>1, <3>2, <3>3
    <2>2. ASSUME NEW a \in rows', NEW b \in rows', a.kind = "file", b.kind = "file", New1(a),
                 Old(b) \/ Gone(b), a.id = b.id
          PROVE  FALSE
      <3>1. PICK i \in 1..Len(session) : a.id = n + i
        BY <1>5, <2>2
      <3>2. PICK o \in rows : o.kind = "file" /\ o.id = b.id
        BY <1>4, <2>2
      <3>3. b.id \in 1..n
        BY <1>6, <3>2
      <3> QED BY <1>2, <1>7, <2>2, <3>1, <3>3
    <2>3. CASE (Old(r) \/ Gone(r)) /\ (Old(x) \/ Gone(x))
      <3>1. PICK o \in rows : o.kind = "file" /\ o.id = r.id /\ (r = o \/ r = Ended(o)) /\ (r = o <=> Old(r))
        BY <1>4, <1>8, <2>3
      <3>2. PICK p \in rows : p.kind = "file" /\ p.id = x.id /\ (x = p \/ x = Ended(p)) /\ (x = p <=> Old(x))
        BY <1>4, <1>8, <2>3
      <3>3. o = p
        BY <1>8, <3>1, <3>2 DEF FileInv
      <3>4. CASE Old(r) /\ ~Old(x)
        <4>1. PICK e \in Out : x = Ended(e)
          BY <2>3, <3>4
        <4>2. e \in rows /\ e.kind = "file" /\ e.id = x.id
          BY <1>1, <1>8, <4>1, EndedParts DEF CatInv
        <4>3. e = o
          BY <1>8, <3>1, <4>2 DEF FileInv
        <4> QED BY <3>1, <3>4, <4>3
      <3>5. CASE ~Old(r) /\ Old(x)
        <4>1. PICK e \in Out : r = Ended(e)
          BY <2>3, <3>5
        <4>2. e \in rows /\ e.kind = "file" /\ e.id = r.id
          BY <1>1, <1>8, <4>1, EndedParts DEF CatInv
        <4>3. e = p
          BY <1>8, <3>2, <4>2 DEF FileInv
        <4> QED BY <3>2, <3>5, <4>3
      <3>6. CASE (Old(r) /\ Old(x)) \/ (~Old(r) /\ ~Old(x))
        BY <3>1, <3>2, <3>3, <3>6
      <3> QED BY <3>4, <3>5, <3>6
    <2> HIDE DEF New1, Old, Gone
    <2>4. (Old(r) \/ Gone(r) \/ New1(r)) /\ (Old(x) \/ Gone(x) \/ New1(x))
      BY <1>3
    <2>5. CASE New1(r) /\ (Old(x) \/ Gone(x))
      BY <1>8, <2>2, <2>5
    <2>6. CASE New1(x) /\ (Old(r) \/ Gone(r))
      BY <1>8, <2>2, <2>6
    <2> QED BY <2>1, <2>3, <2>4, <2>5, <2>6
  <1> QED BY <1>8

\* A commit without new files.
LEMMA CommitFiles ==
    ASSUME CatInv, FileInv, NEW Out, NEW In, Puts(Out, In), Commit(Out, In), version' \in Nat,
           \A x \in In : Fresh(x) => x.kind # "file"
    PROVE  FileInv'
  <1>1. session' = <<>>
    BY CommitLive
  <1>2. {x.id : x \in {y \in In : Fresh(y) /\ y.kind = "file"}} = {}
    OBVIOUS
  <1>3. FileIds' = FileIds /\ \A r \in rows' : r.kind = "file" => r.id \in FileIds'
    BY <1>2, CommitIds
  <1>4. \A r, x \in rows' : r.kind = "file" /\ x.kind = "file" /\ r.id = x.id => r = x
    BY CommitUnique
  <1>5. NextId("file")' = NextId("file")
    <2>1. NextId("file")' = 1 + Cardinality(FileIds') /\ NextId("file") = 1 + Cardinality(FileIds)
      BY DEF NextId, FileIds, Past
    <2> QED BY <1>3, <2>1
  <1>6. FileIds = 1..(NextId("file") - 1)
    BY DEF FileInv
  <1> QED BY <1>1, <1>3, <1>4, <1>5, <1>6 DEF FileInv

\* As many as their bound says.
LEMMA CountUpTo ==
    ASSUME NEW k \in Nat
    PROVE  Cardinality(1..k) = k
  <1>1. Cardinality(1..k) = IF 1 > k THEN 0 ELSE k - 1 + 1
    BY FS_Interval
  <1> QED BY <1>1

\* The files of a session take the next ids.
LEMMA RegisterFiles ==
    ASSUME CatInv, FileInv, Commit({}, ToSet(session)), version' \in Nat
    PROVE  FileInv'
  <1> DEFINE In == ToSet(session)
             n == NextId("file") - 1
             m == Len(session)
  <1>1. Puts({}, In)
    BY FilesPuts
  <1>2. session \in Seq(Row) /\ DOMAIN session = 1..m /\ m \in Nat
    BY LenProperties DEF CatInv, CatType
  <1>3. In = {session[i] : i \in 1..m}
    BY <1>2 DEF ToSet
  <1>4. \A i \in 1..m : session[i].kind = "file" /\ Fresh(session[i]) /\ session[i].id = n + i
    BY DEF CatInv, SessionInv, FileInv
  <1>5. n \in Nat /\ FileIds = 1..n
    BY FileIdsType DEF FileInv
  <1>6. session' = <<>> /\ rows' = rows \cup In
    BY <1>1, CommitLive
  <1> HIDE DEF n, m
  <1>7. {x.id : x \in {y \in In : Fresh(y) /\ y.kind = "file"}} = {n + i : i \in 1..m}
    BY <1>3, <1>4
  <1>8. /\ FileIds' = FileIds \cup {x.id : x \in {y \in In : Fresh(y) /\ y.kind = "file"}}
        /\ \A r \in rows' : r.kind = "file" => r.id \in FileIds'
    <2> HIDE DEF In
    <2> QED BY <1>1, CommitIds DEF In
  <1>9. FileIds' = 1..(n + m)
    <2>1. (1..n) \cup {n + i : i \in 1..m} = 1..(n + m)
      <3>1. ASSUME NEW j \in 1..(n + m), j \notin 1..n
            PROVE  j \in {n + i : i \in 1..m}
        <4>1. j - n \in 1..m /\ j = n + (j - n)
          BY <1>2, <1>5, <3>1
        <4> QED BY <4>1
      <3>2. \A i \in 1..m : n + i \in 1..(n + m)
        BY <1>2, <1>5
      <3>3. \A i \in 1..n : i \in 1..(n + m)
        BY <1>2, <1>5
      <3> QED BY <3>1, <3>2, <3>3
    <2> QED BY <1>5, <1>7, <1>8, <2>1
  <1>10. NextId("file")' = 1 + n + m
    <2>1. NextId("file")' = 1 + Cardinality(FileIds')
      BY DEF NextId, FileIds, Past
    <2>2. n + m \in Nat
      BY <1>2, <1>5
    <2>3. Cardinality(1..(n + m)) = n + m
      BY <2>2, CountUpTo
    <2> QED BY <1>9, <2>1, <2>2, <2>3, <1>2, <1>5
  <1>11. \A x \in In : Fresh(x) /\ x.kind = "file" => \E i \in 1..Len(session) : x = session[i]
    BY <1>3 DEF m
  <1>12. \A r, x \in rows' : r.kind = "file" /\ x.kind = "file" /\ r.id = x.id => r = x
    <2> HIDE DEF In
    <2> QED BY <1>1, <1>11, CommitUnique DEF In
  <1>13. n + m = NextId("file")' - 1
    BY <1>2, <1>5, <1>10
  <1> QED BY <1>6, <1>8, <1>9, <1>12, <1>13 DEF FileInv

\* Excision, and sessions that end, leave the ids.
LEMMA FilesKept ==
    ASSUME CatInv, FileInv, UNCHANGED <<head, shown>>, rows' \in SUBSET rows,
           session' \in {session, <<>>}
    PROVE  FileInv'
  <1>1. NextId("file")' = NextId("file") /\ FileIds' = FileIds
    BY DEF NextId, FileIds, Past
  <1>2. \A i \in 1..Len(session') : session'[i].id = NextId("file") - 1 + i
    BY DEF FileInv
  <1> QED BY <1>1, <1>2 DEF FileInv

-----------------------------------------------------------------------------
\* Statistics

\* Statistics stay, and no file comes that has none.
LEMMA StatsKept ==
    ASSUME StatsInv, stats' = stats,
           \A f \in Past' \cup Coming' : f[1] = "file" => f \in Past \cup Coming
    PROVE  StatsInv'
  <1>1. ASSUME NEW t \in 1..MaxTables
        PROVE  IsFiniteSet(FilesOf(t)') /\ Cardinality(FilesOf(t)') <= stats.counts[t]
    <2> DEFINE F == FilesOf(t)
               G == FilesOf(t)'
    <2>1. G \in SUBSET F
      BY DEF FilesOf
    <2>2. IsFiniteSet(F) /\ Cardinality(F) <= stats.counts[t] /\ stats.counts[t] \in Nat
      BY DEF StatsInv
    <2> HIDE DEF F, G
    <2>3. IsFiniteSet(G) /\ Cardinality(G) <= Cardinality(F)
      BY <2>1, <2>2, FS_Subset
    <2>4. Cardinality(G) \in Nat /\ Cardinality(F) \in Nat
      BY <2>2, <2>3, FS_CardinalityType
    <2> QED BY <2>2, <2>3, <2>4 DEF F, G
  <1> QED BY <1>1 DEF StatsInv

\* The files of a commit are those its session put statistics for.
LEMMA CommitStats ==
    ASSUME CatInv, StatsInv, NEW Out, NEW In, Puts(Out, In), Commit(Out, In), version' \in Nat,
           stats' = stats,
           \A x \in In : Fresh(x) /\ x.kind = "file" => Fact(x) \in Coming
    PROVE  StatsInv'
  <1>1. /\ LiveFacts' = {Fact(r) : r \in {x \in rows \ Out : Live(x)}}
                               \cup {Fact(r) : r \in {x \in In : Fresh(x)}}
        /\ shown'[head + 1] = LiveFacts' /\ session' = <<>>
    BY CommitLive
  <1>2. Past' = Past \cup LiveFacts'
    BY CommitLive, PastGrows DEF CatInv
  <1>3. Coming' = {}
    BY <1>1 DEF Coming
  <1>4. ASSUME NEW f \in LiveFacts', f[1] = "file"
        PROVE  f \in Past \cup Coming
    <2>1. CASE \E r \in rows : Live(r) /\ f = Fact(r)
      <3>1. f \in LiveFacts /\ Steady(f[1])
        BY <1>4, <2>1 DEF LiveFacts, Steady
      <3> QED BY <3>1, LiveShown
    <2>2. CASE \E r \in In : Fresh(r) /\ f = Fact(r)
      <3>1. PICK r \in In : Fresh(r) /\ f = Fact(r)
        BY <2>2
      <3>2. r \in Row /\ r.kind = "file"
        BY <1>4, <3>1, FactParts DEF Puts
      <3> QED BY <3>1, <3>2
    <2> QED BY <1>1, <2>1, <2>2
  <1> QED BY <1>2, <1>3, <1>4, StatsKept

\* The statistics of a file are put with it, under an id that no file has.
LEMMA PutStatsStore ==
    ASSUME StoreInv, NEW t \in 1..MaxTables, NEW v \in Value, PutStats(t, v)
    PROVE  TreeInv' /\ FileInv' /\ StatsInv'
  <1> DEFINE f == NextId("file") + Len(session)
             new == New("file", t, f, v)
             n == NextId("file") - 1
             m == Len(session)
             range == [table |-> t, file |-> f, min |-> v, max |-> v]
  <1>1. /\ session' = Append(session, new)
        /\ stats' = [ranges |-> {x \in stats.ranges : x.table # t \/ x.file # f} \cup {range},
                     counts |-> [stats.counts EXCEPT ![t] = @ + 1]]
        /\ UNCHANGED <<rows, head, version, shown, retainFrom, excised>>
        /\ \E r \in LiveOf("table") : r.id = t
    BY DEF PutStats, floor
  <1>2. CatInv /\ TreeInv /\ FileInv /\ StatsInv
    BY DEF StoreInv
  <1>3. /\ n \in Nat /\ FileIds = 1..n /\ m \in Nat /\ f = n + 1 + m /\ f \in Nat
        /\ session \in Seq(Row)
    BY <1>2, FileIdsType, LenProperties DEF FileInv, CatInv, CatType
  <1>4. t \in Datum /\ v \in Datum /\ "file" \in KindName /\ t \in Nat /\ v \in Nat
    BY ValueAssumption DEF Datum, KindName
  <1>5. NextId("file")' = NextId("file") /\ FileIds' = FileIds /\ Past' = Past /\ LiveFacts' = LiveFacts
    BY <1>1 DEF NextId, FileIds, Past, LiveFacts
  <1>6. \A i \in 1..m : session[i].id = n + i /\ session[i] \in Row
    BY <1>2, <1>3, ElementOfSeq DEF FileInv
  <1> HIDE DEF f, n
  <1>7. new \in Row /\ new.kind = "file" /\ new.id = f /\ new.parent = t /\ new.data = v
    BY <1>2, <1>3, <1>4, NewParts DEF CatInv
  <1> HIDE DEF new
  <1>8. /\ Fact(new)[1] = "file" /\ Fact(new)[2] = t /\ Fact(new)[3] = f /\ Fact(new)[5] = v
    BY <1>7, FactParts
  <1>9. /\ Len(session') = m + 1 /\ session'[m + 1] = new
        /\ \A i \in 1..m : session'[i] = session[i]
    BY <1>1, <1>3, <1>7, AppendProperties
  <1> HIDE DEF m
  <1>10. 1..(m + 1) = (1..m) \cup {m + 1}
    BY <1>3
  <1>11. TreeInv'
    <2>1. \E g \in LiveFacts : g[1] = "table" /\ g[3] = t
      <3>1. PICK r \in rows : r.kind = "table" /\ Live(r) /\ r.id = t
        BY <1>1 DEF LiveOf
      <3>2. Fact(r) \in LiveFacts /\ Fact(r)[1] = "table" /\ Fact(r)[3] = t
        BY <1>2, <3>1, FactParts DEF LiveFacts, CatInv, CatType
      <3> QED BY <3>2
    <2>2. \A i \in 1..m : \E g \in LiveFacts : g[1] = "table" /\ g[3] = session[i].parent
      BY <1>2 DEF TreeInv, m
    <2>3. \A i \in 1..(m + 1) : \E g \in LiveFacts : g[1] = "table" /\ g[3] = session'[i].parent
      BY <1>7, <1>9, <1>10, <2>1, <2>2
    <2> QED BY <1>1, <1>2, <1>5, <1>9, <2>3 DEF TreeInv
  <1>12. FileInv'
    <2>1. \A i \in 1..(m + 1) : session'[i].id = n + i
      <3>1. f = n + (m + 1)
        BY <1>3
      <3> QED BY <1>6, <1>7, <1>9, <1>10, <3>1
    <2>2. NextId("file")' - 1 = n
      BY <1>5 DEF n
    <2> QED BY <1>1, <1>2, <1>3, <1>5, <1>9, <2>1, <2>2 DEF FileInv
  <1>13. StatsInv'
    <2>1. Coming' = Coming \cup {Fact(new)}
      <3>1. Coming' = {Fact(session'[i]) : i \in 1..(m + 1)}
        BY <1>9 DEF Coming
      <3>2. Coming = {Fact(session[i]) : i \in 1..m}
        BY DEF Coming, m
      <3> QED BY <1>9, <1>10, <3>1, <3>2
    <2>2. ASSUME NEW g \in Past \cup Coming, g[1] = "file"
          PROVE  g[3] # f
      <3>1. CASE g \in Past
        <4>1. g[3] \in 1..n
          BY <1>3, <2>2, <3>1 DEF FileIds
        <4> QED BY <1>3, <4>1
      <3>2. CASE g \in Coming
        <4>1. PICK i \in 1..m : g = Fact(session[i])
          BY <3>2 DEF Coming, m
        <4>2. g[3] = n + i
          BY <1>6, <4>1, FactParts
        <4> QED BY <1>3, <4>2
      <3> QED BY <3>1, <3>2
    <2>3. /\ stats.ranges \in SUBSET FileRange /\ stats.counts \in [1..MaxTables -> Nat]
      BY <1>2 DEF StatsInv
    <2>4. range \in FileRange /\ range.table = t /\ range.file = f /\ range.min = v /\ range.max = v
      BY <1>3, <1>4 DEF FileRange
    <2> HIDE DEF range
    <2>5. /\ stats'.ranges = {x \in stats.ranges : x.table # t \/ x.file # f} \cup {range}
          /\ stats'.counts = [stats.counts EXCEPT ![t] = @ + 1]
          /\ stats' = [ranges |-> stats'.ranges, counts |-> stats'.counts]
      BY <1>1
    <2>6. stats' \in [ranges : SUBSET FileRange, counts : [1..MaxTables -> Nat]]
      <3>1. stats'.ranges \in SUBSET FileRange
        BY <2>3, <2>4, <2>5
      <3>2. stats'.counts \in [1..MaxTables -> Nat]
        <4> DEFINE old == stats.counts
        <4>1. old \in [1..MaxTables -> Nat] /\ stats'.counts = [old EXCEPT ![t] = old[t] + 1]
          BY <2>3, <2>5
        <4> HIDE DEF old
        <4>2. old[t] + 1 \in Nat
          BY <4>1
        <4> QED BY <4>1, <4>2
      <3> QED BY <2>5, <3>1, <3>2
    <2>7. ASSUME NEW g \in Past' \cup Coming', g[1] = "file"
          PROVE  \E x \in stats'.ranges : x.table = g[2] /\ x.file = g[3] /\ InRange(x, g[5])
      <3>1. CASE g = Fact(new)
        <4>1. range \in stats'.ranges
          BY <2>5
        <4>2. InRange(range, v)
          BY <1>4, <2>4 DEF InRange
        <4> QED BY <1>8, <2>4, <3>1, <4>1, <4>2
      <3>2. CASE g \in Past \cup Coming
        <4>1. PICK x \in stats.ranges : x.table = g[2] /\ x.file = g[3] /\ InRange(x, g[5])
          BY <1>2, <2>7, <3>2 DEF StatsInv
        <4>2. x \in stats'.ranges
          BY <2>2, <2>5, <2>7, <3>2, <4>1
        <4> QED BY <4>1, <4>2
      <3> QED BY <1>5, <2>1, <3>1, <3>2
    <2>8. ASSUME NEW u \in 1..MaxTables
          PROVE  IsFiniteSet(FilesOf(u)') /\ Cardinality(FilesOf(u)') <= stats'.counts[u]
      <3> DEFINE F == FilesOf(u)
                 G == FilesOf(u)'
      <3>1. IsFiniteSet(F) /\ Cardinality(F) <= stats.counts[u] /\ stats.counts[u] \in Nat
        BY <1>2 DEF StatsInv
      <3>2. CASE u = t
        <4>1. G = F \cup {Fact(new)}
          BY <1>5, <1>8, <2>1, <3>2 DEF FilesOf
        <4>2. stats'.counts[u] = stats.counts[u] + 1
          BY <2>3, <2>5, <3>2
        <4> HIDE DEF F, G
        <4>3. /\ IsFiniteSet(G) /\ Cardinality(F) \in Nat
              /\ Cardinality(G) = Cardinality(F) \/ Cardinality(G) = Cardinality(F) + 1
          BY <3>1, <4>1, FS_AddElement, FS_CardinalityType
        <4>4. Cardinality(G) <= stats'.counts[u]
          BY <3>1, <4>2, <4>3
        <4> QED BY <4>3, <4>4 DEF G
      <3>3. CASE u # t
        <4>1. G = F
          BY <1>5, <1>8, <2>1, <3>3 DEF FilesOf
        <4>2. stats'.counts[u] = stats.counts[u]
          BY <2>3, <2>5, <3>3
        <4> HIDE DEF F, G
        <4>3. IsFiniteSet(G) /\ Cardinality(G) <= stats'.counts[u]
          BY <3>1, <4>1, <4>2
        <4> QED BY <4>3 DEF G
      <3> QED BY <3>2, <3>3
    <2> QED BY <2>6, <2>7, <2>8 DEF StatsInv
  <1> QED BY <1>11, <1>12, <1>13

\* Steps that are no commits and put no statistics.
LEMMA StoreKept ==
    ASSUME CatInv, TreeInv, FileInv, StatsInv, UNCHANGED <<head, shown, stats>>,
           rows' \in SUBSET rows, \A r \in rows : Live(r) => r \in rows',
           session' \in {session, <<>>}
    PROVE  TreeInv' /\ FileInv' /\ StatsInv'
  <1>1. LiveFacts' = LiveFacts /\ Past' = Past
    BY DEF LiveFacts, Past
  <1>2. TreeInv'
    BY <1>1 DEF TreeInv
  <1>3. FileInv'
    BY FilesKept
  <1>4. \A f \in Coming' : f \in Coming
    <2>1. CASE session' = session
      BY <2>1 DEF Coming
    <2>2. CASE session' = <<>>
      <3>1. Coming' = {}
        BY <2>2 DEF Coming
      <3> QED BY <3>1
    <2> QED BY <2>1, <2>2
  <1>5. StatsInv'
    BY <1>1, <1>4, StatsKept
  <1> QED BY <1>2, <1>3, <1>5

\* A commit that ends no table, and whose new rows have their table.
LEMMA CommitGrowsTree ==
    ASSUME CatInv, TreeInv, NEW Out, NEW In, Puts(Out, In), Commit(Out, In), version' \in Nat,
           \A r \in Out : r.kind \notin {"schema", "table"},
           \A x \in In : Fresh(x) =>
               /\ x.kind # "schema" /\ (x.kind = "table" => x.parent = 1)
               /\ x.kind \in {"column", "file"} =>
                      \/ \E g \in LiveFacts : g[1] = "table" /\ g[3] = x.parent
                      \/ \E y \in In : Fresh(y) /\ y.kind = "table" /\ y.id = x.parent
    PROVE  TreeInv'
  <1>1. LiveFacts' = {Fact(r) : r \in {x \in rows \ Out : Live(x)}}
                               \cup {Fact(r) : r \in {x \in In : Fresh(x)}}
    BY CommitLive
  <1>2. rows \in SUBSET Row /\ In \in SUBSET Row
    BY DEF CatInv, CatType, Puts
  <1>3. \A r \in rows \cup In : /\ Fact(r)[1] = r.kind /\ Fact(r)[2] = r.parent
                                /\ Fact(r)[3] = r.id
    BY <1>2, FactParts
  <1>4. Tree(LiveFacts)
    BY DEF TreeInv
  <1>5. ASSUME NEW f \in LiveFacts, f[1] \in {"schema", "table"}
        PROVE  f \in LiveFacts'
    <2>1. PICK r \in rows : Live(r) /\ f = Fact(r)
      BY DEF LiveFacts
    <2>2. r \notin Out
      BY <1>3, <1>5, <2>1
    <2> QED BY <1>1, <2>1, <2>2
  <1>6. ASSUME NEW g \in LiveFacts'
        PROVE  \/ g \in LiveFacts
               \/ /\ g[1] # "schema" /\ (g[1] = "table" => g[2] = 1)
                  /\ g[1] \in {"column", "file"} =>
                         \E h \in LiveFacts' : h[1] = "table" /\ h[3] = g[2]
    <2>1. CASE \E r \in rows : Live(r) /\ g = Fact(r)
      BY <2>1 DEF LiveFacts
    <2>2. CASE \E x \in In : Fresh(x) /\ g = Fact(x)
      <3>1. PICK x \in In : Fresh(x) /\ g = Fact(x)
        BY <2>2
      <3>2. g[1] = x.kind /\ g[2] = x.parent
        BY <1>3, <3>1
      <3>3. ASSUME x.kind \in {"column", "file"}
            PROVE  \E h \in LiveFacts' : h[1] = "table" /\ h[3] = g[2]
        <4>1. CASE \E h \in LiveFacts : h[1] = "table" /\ h[3] = x.parent
          BY <1>5, <3>2, <4>1
        <4>2. CASE \E y \in In : Fresh(y) /\ y.kind = "table" /\ y.id = x.parent
          <5>1. PICK y \in In : Fresh(y) /\ y.kind = "table" /\ y.id = x.parent
            BY <4>2
          <5>2. Fact(y) \in LiveFacts' /\ Fact(y)[1] = "table" /\ Fact(y)[3] = g[2]
            BY <1>1, <1>3, <3>2, <5>1
          <5> QED BY <5>2
        <4> QED BY <3>1, <3>3, <4>1, <4>2
      <3> QED BY <3>1, <3>2, <3>3
    <2> QED BY <1>1, <2>1, <2>2
  <1>7. Tree(LiveFacts')
    <2> DEFINE F == LiveFacts
               G == LiveFacts'
    <2>1. Tree(F) /\ (\A f \in F : f[1] \in {"schema", "table"} => f \in G)
      BY <1>4, <1>5
    <2>2. \A g \in G : \/ g \in F
                       \/ /\ g[1] # "schema" /\ (g[1] = "table" => g[2] = 1)
                          /\ g[1] \in {"column", "file"} =>
                                  \E h \in G : h[1] = "table" /\ h[3] = g[2]
      BY <1>6
    <2> HIDE DEF F, G
    <2>3. Tree(G)
      BY <2>1, <2>2, TreeGrows
    <2> QED BY <2>3 DEF G
  <1> QED BY <1>7, CommitTree

\* drop_table takes all of the table's rows with it.
LEMMA DropTree ==
    ASSUME CatInv, TreeInv, NEW t, Commit(RowsOf(t), Retired(RowsOf(t))), version' \in Nat
    PROVE  /\ TreeInv' /\ Puts(RowsOf(t), Retired(RowsOf(t)))
           /\ \A x \in Retired(RowsOf(t)) : ~Fresh(x)
  <1> DEFINE Out == RowsOf(t)
             In == Retired(Out)
  <1>1. Puts(Out, In)
    BY RetirePuts DEF RowsOf
  <1>2. rows \in SUBSET Row
    BY DEF CatInv, CatType
  <1>3. \A x \in In : ~Fresh(x)
    <2>1. \A r \in Out : r \in Row
      BY <1>2 DEF RowsOf
    <2>2. In = {Ended(r) : r \in Out}
      BY DEF Retired, Ended
    <2>3. Peek # NoEnd
      BY DEF CatInv, CatType, Peek, NoEnd
    <2> QED BY <2>1, <2>2, <2>3, EndedParts DEF Fresh, CatInv
  <1>4. LiveFacts' = {Fact(r) : r \in {x \in rows \ Out : Live(x)}}
    <2>1. LiveFacts' = {Fact(r) : r \in {x \in rows \ Out : Live(x)}}
                               \cup {Fact(r) : r \in {x \in In : Fresh(x)}}
      <3> HIDE DEF In, Out
      <3> QED BY <1>1, CommitLive DEF In, Out
    <2> QED BY <1>3, <2>1
  <1>5. \A r \in rows : /\ Fact(r)[1] = r.kind /\ Fact(r)[2] = r.parent
                        /\ Fact(r)[3] = r.id
    BY <1>2, FactParts
  <1>6. Tree(LiveFacts) /\ LiveFacts' \in SUBSET LiveFacts
    BY <1>4 DEF TreeInv, LiveFacts
  <1>7. Fact(Bootstrap) \in LiveFacts'
    <2>1. Fact(Bootstrap) \in LiveFacts /\ Fact(Bootstrap)[1] = "schema"
      BY <1>6 DEF Tree, Bootstrap, Fact
    <2>2. PICK r \in rows : Live(r) /\ Fact(r) = Fact(Bootstrap)
      BY <2>1 DEF LiveFacts
    <2>3. r.kind = "schema"
      BY <1>5, <2>1, <2>2
    <2>4. r \notin Out
      BY <2>3 DEF RowsOf
    <2> QED BY <1>4, <2>2, <2>4
  <1>8. ASSUME NEW f \in LiveFacts', f[1] \in {"column", "file"}
        PROVE  \E g \in LiveFacts' : g[1] = "table" /\ g[3] = f[2]
    <2>1. PICK r \in rows \ Out : Live(r) /\ f = Fact(r)
      BY <1>4
    <2>2. r.kind \in {"column", "file"} /\ f[2] = r.parent /\ r.parent # t
      BY <1>5, <1>8, <2>1 DEF RowsOf
    <2>3. PICK g \in LiveFacts : g[1] = "table" /\ g[3] = f[2]
      BY <1>6, <1>8 DEF Tree
    <2>4. PICK x \in rows : Live(x) /\ Fact(x) = g
      BY DEF LiveFacts
    <2>5. x.kind = "table" /\ x.id # t
      BY <1>5, <2>2, <2>3, <2>4
    <2>6. x \notin Out
      BY <2>5 DEF RowsOf
    <2>7. g \in LiveFacts'
      BY <1>4, <2>4, <2>6
    <2> QED BY <2>3, <2>7
  <1>9. Tree(LiveFacts')
    BY <1>6, <1>7, <1>8 DEF Tree
  <1> HIDE DEF In, Out
  <1>10. TreeInv'
    BY <1>1, <1>3, <1>9, CommitTree DEF In, Out
  <1> QED BY <1>1, <1>3, <1>10 DEF In, Out

\* The store's part of the invariant, under the steps of the catalog.
LEMMA StoreCatalog ==
    ASSUME StoreInv, CatalogStep
    PROVE  StoreInv'
  <1>1. CatInv /\ SinkInv /\ TreeInv /\ FileInv /\ StatsInv
    BY DEF StoreInv
  <1>2. version \in Nat /\ version + 1 \in Nat /\ rows \in SUBSET Row
    BY <1>1 DEF CatInv, CatType
  <1>3. CASE CreateTable
    <2> DEFINE t == NextId("table")
               tab == New("table", 1, t, 0)
               col == New("column", t, t, 0)
               In == {tab, col}
    <2>1. Puts({}, In) /\ Commit({}, In) /\ version' = version + 1 /\ stats' = stats
      BY <1>1, <1>3, CreatePuts DEF CreateTable
    <2>2. /\ t \in Nat /\ t \in Datum /\ 1 \in Datum /\ 0 \in Datum
          /\ "table" \in KindName /\ "column" \in KindName
      BY <1>1, NextIdType DEF CatInv, Datum, KindName
    <2> HIDE DEF t
    <2>3. /\ tab.kind = "table" /\ tab.id = t /\ tab.parent = 1 /\ Fresh(tab)
          /\ col.kind = "column" /\ col.parent = t
      BY <1>1, <2>2, NewParts DEF CatInv
    <2> HIDE DEF tab, col
    <2>4. TreeInv'
      <3>1. \A x \in In : Fresh(x) =>
               /\ x.kind # "schema" /\ (x.kind = "table" => x.parent = 1)
               /\ x.kind \in {"column", "file"} =>
                      \/ \E g \in LiveFacts : g[1] = "table" /\ g[3] = x.parent
                      \/ \E y \in In : Fresh(y) /\ y.kind = "table" /\ y.id = x.parent
        BY <2>3
      <3> HIDE DEF In
      <3> QED BY <1>1, <1>2, <2>1, <3>1, CommitGrowsTree
    <2>5. \A x \in In : x.kind # "file"
      BY <2>3
    <2> HIDE DEF In
    <2>6. FileInv' /\ StatsInv'
      BY <1>1, <1>2, <2>1, <2>5, CommitFiles, CommitStats
    <2> QED BY <1>1, <1>3, <2>4, <2>6, CatalogInv, SinkCatalog DEF CatalogStep, StoreInv
  <1>4. CASE RegisterDataFiles
    <2> DEFINE In == ToSet(session)
    <2>1. Puts({}, In) /\ Commit({}, In) /\ version' = version /\ stats' = stats
      BY <1>1, <1>4, FilesPuts DEF RegisterDataFiles
    <2>2. \A x \in In : x.kind = "file" /\ \E i \in 1..Len(session) : x = session[i]
      <3>1. DOMAIN session = 1..Len(session)
        BY <1>1, LenProperties DEF CatInv, CatType
      <3> QED BY <1>1, <3>1 DEF ToSet, CatInv, SessionInv
    <2>3. FileInv'
      BY <1>1, <1>2, <2>1, RegisterFiles
    <2> HIDE DEF In
    <2>4. \A x \in In : \E g \in LiveFacts : g[1] = "table" /\ g[3] = x.parent
      BY <1>1, <2>2 DEF TreeInv
    <2>5. TreeInv'
      BY <1>1, <1>2, <2>1, <2>2, <2>4, CommitGrowsTree
    <2>6. \A x \in In : Fact(x) \in Coming
      BY <2>2 DEF Coming
    <2>7. StatsInv'
      BY <1>1, <1>2, <2>1, <2>6, CommitStats
    <2> QED BY <1>1, <1>4, <2>3, <2>5, <2>7, CatalogInv, SinkCatalog DEF CatalogStep, StoreInv
  <1>5. CASE FailSession
    <2>1. UNCHANGED <<rows, head, shown, stats>> /\ session' = <<>>
      BY <1>5 DEF FailSession, NoSession
    <2>2. TreeInv' /\ FileInv' /\ StatsInv'
      BY <1>1, <2>1, StoreKept
    <2> QED BY <1>1, <1>5, <2>2, CatalogInv, SinkCatalog DEF CatalogStep, StoreInv
  <1>6. ASSUME NEW t \in 1..MaxTables, DropTable(t)
        PROVE  StoreInv'
    <2> DEFINE Out == RowsOf(t)
               In == Retired(Out)
    <2>1. Commit(Out, In) /\ version' \in Nat /\ stats' = stats
      BY <1>2, <1>6 DEF DropTable, RowsOf
    <2>2. TreeInv' /\ Puts(Out, In) /\ \A x \in In : ~Fresh(x)
      BY <1>1, <2>1, DropTree
    <2> HIDE DEF In, Out
    <2>3. FileInv' /\ StatsInv'
      BY <1>1, <2>1, <2>2, CommitFiles, CommitStats
    <2> QED BY <1>1, <1>6, <2>2, <2>3, CatalogInv, SinkCatalog DEF CatalogStep, StoreInv
  <1>7. ASSUME NEW t \in 1..MaxTables, RenameColumn(t)
        PROVE  StoreInv'
    <2>1. PICK c \in LiveOf("column") :
              Commit({c}, Retired({c}) \cup {[c EXCEPT !.begin = Peek]})
      BY <1>7 DEF RenameColumn
    <2> DEFINE new == [c EXCEPT !.begin = Peek]
               In == Retired({c}) \cup {new}
    <2>2. Puts({c}, In) /\ Commit({c}, In) /\ version' \in Nat /\ stats' = stats
      BY <1>1, <1>2, <1>7, <2>1, RenamePuts DEF RenameColumn
    <2>3. c \in rows /\ c \in Row /\ Live(c) /\ c.kind = "column"
      BY <1>2 DEF LiveOf
    <2>4. new.kind = "column" /\ new.parent = c.parent
      BY <2>3 DEF Row
    <2> HIDE DEF new
    <2>5. \A x \in In : x.kind = "column" /\ x.parent = c.parent
      <3>1. Retired({c}) = {Ended(c)}
        BY DEF Retired, Ended
      <3>2. Ended(c).kind = "column" /\ Ended(c).parent = c.parent
        BY <1>1, <2>3, EndedParts DEF CatInv
      <3> QED BY <2>4, <3>1, <3>2
    <2> HIDE DEF In
    <2>6. \E g \in LiveFacts : g[1] = "table" /\ g[3] = c.parent
      <3>1. Fact(c) \in LiveFacts /\ Fact(c)[1] = "column" /\ Fact(c)[2] = c.parent
        BY <2>3, FactParts DEF LiveFacts
      <3> QED BY <1>1, <3>1 DEF TreeInv, Tree
    <2>7. TreeInv'
      BY <1>1, <2>2, <2>3, <2>5, <2>6, CommitGrowsTree
    <2>8. FileInv' /\ StatsInv'
      BY <1>1, <2>2, <2>5, CommitFiles, CommitStats
    <2> QED BY <1>1, <1>7, <2>7, <2>8, CatalogInv, SinkCatalog DEF CatalogStep, StoreInv
  <1>8. ASSUME NEW s \in 2..MaxSnapshots, GcApply(s)
        PROVE  StoreInv'
    <2>1. UNCHANGED <<rows, head, shown, stats, session>>
      BY <1>8 DEF GcApply, store
    <2>2. TreeInv' /\ FileInv' /\ StatsInv'
      BY <1>1, <2>1, StoreKept
    <2> QED BY <1>1, <1>8, <2>2, CatalogInv, SinkCatalog DEF CatalogStep, StoreInv
  <1>9. CASE Excise
    <2>1. /\ UNCHANGED <<head, shown, stats, session>>
          /\ rows' = {r \in rows : r.end = NoEnd \/ r.end > retainFrom}
      BY <1>9 DEF Excise
    <2>2. rows' \in SUBSET rows /\ \A r \in rows : Live(r) => r \in rows'
      BY <2>1 DEF Live
    <2>3. TreeInv' /\ FileInv' /\ StatsInv'
      BY <1>1, <2>1, <2>2, StoreKept
    <2> QED BY <1>1, <1>9, <2>3, CatalogInv, SinkCatalog DEF CatalogStep, StoreInv
  <1>10. ASSUME NEW t \in 1..MaxTables, NEW v \in Value, PutStats(t, v)
         PROVE  StoreInv'
    BY <1>1, <1>10, PutStatsStore, CatalogInv, SinkCatalog DEF CatalogStep, StoreInv
  <1> QED
    BY <1>3, <1>4, <1>5, <1>6, <1>7, <1>8, <1>9, <1>10 DEF CatalogStep

\* The store's part, under a batch of the stream.
LEMMA StoreBatch ==
    ASSUME StoreInv, NEW c \in Consumer, NEW answered \in BOOLEAN, CommitBatch(c, answered)
    PROVE  StoreInv'
  <1>1. CatInv /\ SinkInv /\ TreeInv /\ FileInv /\ StatsInv
    BY DEF StoreInv
  <1> DEFINE b == offset + 1
             In == Batch(b)
             Out == Overwritten(In)
  <1>2. /\ b \in 1..Len(Lens) /\ Commit(Out, In) /\ version' \in Nat /\ stats' = stats
    BY <1>1, NextBatch DEF CommitBatch, CatInv, CatType
  <1>3. Puts(Out, In)
    BY <1>1, <1>2, BatchPuts
  <1>4. \A x \in In : x.kind = "inlined"
    BY <1>1, <1>2, BatchParts DEF CatInv
  <1>5. \A r \in Out : r.kind = "inlined"
    BY DEF Overwritten
  <1> HIDE DEF In, Out
  <1>6. TreeInv'
    BY <1>1, <1>2, <1>3, <1>4, <1>5, CommitGrowsTree
  <1>7. FileInv' /\ StatsInv'
    BY <1>1, <1>2, <1>3, <1>4, CommitFiles, CommitStats
  <1> QED BY <1>1, <1>6, <1>7, BatchInv, SinkBatch DEF StoreInv

-----------------------------------------------------------------------------
\* Scans

\* What a scan at the statement's snapshot finds.
Seen == Facts(rows, q.snap)

\* The kind and the place that the statement asks for.
Wanted(f) ==
    /\ f[1] = Kind[q.op]
    /\ IF q.op = "inlined" THEN f[2][1] = q.of ELSE q.of \in {All, f[2]}

\* The scans on the path to the fact find their way.
Placed(f) ==
    /\ Fact(Bootstrap) \in Seen
    /\ f[1] = "table" => f[2] = 1
    /\ f[1] \in {"column", "file", "inlined"} =>
           \E g \in Seen : g[1] = "table" /\ g[2] = 1 /\ g[3] = Home(f)

\* The next scan has found R and goes on with `more`: all of it was asked for,
\* and no path ends.
Finds(R, more) ==
    /\ \A f \in R : f \in Seen /\ Wanted(f) /\ (q.op = "inlined" => q.todo[1][1] = "inlined")
    /\ \A j \in 1..Len(more) :
           /\ Scan(more[j])
           /\ more[j][1] = "inlined" => \E g \in Seen : g[1] = "table" /\ g[3] = q.of
    /\ \A f \in Seen : Wanted(f) /\ Placed(f) /\ OnPath(f, q.todo[1]) =>
           f \in R \/ \E j \in 1..Len(more) : OnPath(f, more[j])

\* What a scan changes of its statement.
LEMMA ScannedParts ==
    ASSUME StatementType, ~Answered, NEW R, NEW more \in Seq(Item), Scanned(R, more)
    PROVE  /\ q' = [op |-> q.op, of |-> q.of, snap |-> q.snap, todo |-> q'.todo,
                    got |-> q.got \cup R, ever |-> q.ever, always |-> q.always]
           /\ q'.op = q.op /\ q'.of = q.of /\ q'.snap = q.snap
           /\ q'.got = q.got \cup R /\ q'.ever = q.ever /\ q'.always = q.always
           /\ q'.todo \in Seq(Item)
           /\ \A i \in 1..Len(q'.todo) :
                  \/ \E j \in 1..Len(more) : q'.todo[i] = more[j]
                  \/ \E j \in 1..Len(q.todo) : q'.todo[i] = q.todo[j]
           /\ \A j \in 1..Len(more) : \E i \in 1..Len(q'.todo) : q'.todo[i] = more[j]
           /\ \A j \in 1..Len(q.todo) : j # 1 => \E i \in 1..Len(q'.todo) : q'.todo[i] = q.todo[j]
           /\ 1 \in 1..Len(q.todo) /\ q.todo[1] \in Item
           /\ q.op \notin {"none", "changes"}
  <1> DEFINE s == q.todo
             t == Tail(s)
             u == more \o t
  <1>1. s \in Seq(Item) /\ s # <<>>
    BY DEF StatementType, Answered
  <1>2. /\ q = [op |-> q.op, of |-> q.of, snap |-> q.snap, todo |-> q.todo, got |-> q.got,
                ever |-> q.ever, always |-> q.always]
        /\ q.op \notin {"none", "changes"}
    BY <1>1 DEF StatementType
  <1>3. /\ q' = [op |-> q.op, of |-> q.of, snap |-> q.snap, todo |-> u,
                 got |-> q.got \cup R, ever |-> q.ever, always |-> q.always]
    <2>1. q' = [q EXCEPT !.got = q.got \cup R, !.todo = u]
      BY DEF Scanned
    <2> HIDE DEF u
    <2> QED BY <1>2, <2>1
  <1>4. /\ t \in Seq(Item) /\ Len(t) = Len(s) - 1 /\ Len(s) \in Nat \ {0}
        /\ \A i \in 1..Len(t) : t[i] = s[i + 1]
    <2> HIDE DEF s
    <2> QED BY <1>1, HeadTailProperties, LenProperties
  <1> HIDE DEF t
  <1>5. /\ u \in Seq(Item) /\ Len(u) = Len(more) + Len(t) /\ Len(more) \in Nat /\ Len(t) \in Nat
        /\ \A i \in 1..Len(more) : u[i] = more[i]
        /\ \A i \in 1..Len(t) : u[Len(more) + i] = t[i]
    <2>1. Len(more) \in Nat /\ Len(t) \in Nat
      BY <1>4, LenProperties
    <2>2. /\ more \o t \in Seq(Item) /\ Len(more \o t) = Len(more) + Len(t)
          /\ \A i \in 1..(Len(more) + Len(t)) :
                 (more \o t)[i] = IF i <= Len(more) THEN more[i] ELSE t[i - Len(more)]
      BY <1>4, ConcatProperties
    <2> HIDE DEF u
    <2>3. \A i \in 1..(Len(more) + Len(t)) :
              u[i] = IF i <= Len(more) THEN more[i] ELSE t[i - Len(more)]
      BY <2>2 DEF u
    <2>4. \A i \in 1..Len(more) : u[i] = more[i]
      BY <2>1, <2>3
    <2>5. ASSUME NEW i \in 1..Len(t)
          PROVE  u[Len(more) + i] = t[i]
      <3>1. /\ Len(more) + i \in 1..(Len(more) + Len(t)) /\ ~(Len(more) + i <= Len(more))
            /\ (Len(more) + i) - Len(more) = i
        BY <2>1
      <3> QED BY <2>3, <3>1
    <2> QED BY <2>1, <2>2, <2>4, <2>5 DEF u
  <1> HIDE DEF u, s
  <1>6. ASSUME NEW i \in 1..Len(u)
        PROVE  \/ \E j \in 1..Len(more) : u[i] = more[j]
               \/ \E j \in 1..Len(s) : u[i] = s[j]
    <2>1. CASE i <= Len(more)
      BY <1>5, <2>1
    <2>2. CASE i > Len(more)
      <3> DEFINE k == i - Len(more)
      <3>1. k \in 1..Len(t) /\ Len(more) + k = i
        BY <1>5, <2>2
      <3> HIDE DEF k
      <3>2. u[i] = s[k + 1] /\ k + 1 \in 1..Len(s)
        BY <1>4, <1>5, <3>1
      <3>3. \E j \in 1..Len(s) : u[i] = s[j]
        BY <3>2
      <3> QED BY <3>3
    <2>3. i <= Len(more) \/ i > Len(more)
      <3>1. i \in Nat /\ Len(more) \in Nat
        BY <1>5
      <3> QED BY <3>1
    <2> QED BY <2>1, <2>2, <2>3
  <1>7. ASSUME NEW j \in 1..Len(more)
        PROVE  \E i \in 1..Len(u) : u[i] = more[j]
    BY <1>5
  <1>8. ASSUME NEW j \in 1..Len(s), j # 1
        PROVE  \E i \in 1..Len(u) : u[i] = s[j]
    <2>1. j - 1 \in 1..Len(t) /\ (j - 1) + 1 = j
      BY <1>4, <1>8
    <2>2. Len(more) + (j - 1) \in 1..Len(u)
      BY <1>5, <2>1
    <2>3. u[Len(more) + (j - 1)] = s[j]
      BY <1>4, <1>5, <2>1
    <2> QED BY <2>2, <2>3
  <1>9. q'.todo = u
    BY <1>3
  <1>10. /\ q'.op = q.op /\ q'.of = q.of /\ q'.snap = q.snap
         /\ q'.got = q.got \cup R /\ q'.ever = q.ever /\ q'.always = q.always
    BY <1>3
  <1>11. 1 \in 1..Len(s) /\ s[1] \in Item
    BY <1>1, <1>4, ElementOfSeq
  <1> QED BY <1>2, <1>3, <1>5, <1>6, <1>7, <1>8, <1>9, <1>10, <1>11 DEF s

\* The scans that go on are of the statement's kind.
LEMMA ScannedType ==
    ASSUME StatementType, ~Answered, NEW R, NEW more \in Seq(Item), Scanned(R, more),
           \A j \in 1..Len(more) : Scan(more[j]), head' = head
    PROVE  StatementType'
  <1>1. /\ q' = [op |-> q.op, of |-> q.of, snap |-> q.snap, todo |-> q'.todo,
                    got |-> q.got \cup R, ever |-> q.ever, always |-> q.always]
        /\ q'.op = q.op /\ q'.of = q.of /\ q'.snap = q.snap
        /\ q'.got = q.got \cup R /\ q'.ever = q.ever /\ q'.always = q.always
        /\ q'.todo \in Seq(Item) /\ q.op \notin {"none", "changes"}
    BY ScannedParts
  <1>2. \A i \in 1..Len(q'.todo) :
                  \/ \E j \in 1..Len(more) : q'.todo[i] = more[j]
                  \/ \E j \in 1..Len(q.todo) : q'.todo[i] = q.todo[j]
    BY ScannedParts
  <1>3. \A i \in 1..Len(q'.todo) : Scan(q'.todo[i])
    BY <1>2 DEF StatementType
  <1>5. \A i \in 1..Len(q'.todo) : Scan(q.todo[i])'
    BY <1>1, <1>3 DEF Scan
  <1>6. /\ q' = [op |-> q'.op, of |-> q'.of, snap |-> q'.snap, todo |-> q'.todo,
                 got |-> q'.got, ever |-> q'.ever, always |-> q'.always]
    BY <1>1
  <1>7. /\ q'.op \in Statements
        /\ q'.op \in DOMAIN Kind \cup {"stats", "prune"} => q'.snap \in (1..head) \cup {Unbounded}
        /\ q'.op \in {"inlined", "stats"} => q'.snap \in 1..head
        /\ q'.op = "inlined" => q'.of \in Nat
        /\ q'.op = "prune" => q'.of \in Nat \X Nat
    BY <1>1 DEF StatementType
  <1>8. Unbounded' = Unbounded /\ (DOMAIN Kind)' = DOMAIN Kind
    BY DEF Unbounded, Kind
  <1> QED BY <1>1, <1>5, <1>6, <1>7, <1>8 DEF StatementType

\* The kind of rows of each statement.
LEMMA KindTable ==
    /\ DOMAIN Kind = {"schemas", "tables", "columns", "files", "inlined"}
    /\ Kind["schemas"] = "schema" /\ Kind["tables"] = "table" /\ Kind["columns"] = "column"
    /\ Kind["files"] = "file" /\ Kind["inlined"] = "inlined"
    /\ Listings \in SUBSET (DOMAIN Kind)
    /\ \A op \in DOMAIN Kind : op \in Listings \/ op = "inlined"
    /\ \A op \in Listings : Kind[op] # "inlined" /\ op # "inlined"
  BY DEF Kind, Listings

\* A bound statement sees what its snapshot showed.
LEMMA BoundSees ==
    ASSUME CatInv, q.snap \in 1..head, retainFrom <= q.snap
    PROVE  /\ \A f \in Seen : Steady(f[1]) => f \in shown[q.snap]
           /\ \A f \in shown[q.snap] : Steady(f[1]) => f \in Seen
  <1>1. rows \in SUBSET Row /\ excised <= q.snap
    BY DEF CatInv, CatType
  <1>2. Tells(q.snap)
    BY <1>1 DEF CatInv, ShownInv
  <1>3. ASSUME NEW f \in Seen, Steady(f[1])
        PROVE  f \in shown[q.snap]
    <2>1. PICK r \in rows : Visible(r, q.snap) /\ f = Fact(r)
      BY DEF Seen, Facts
    <2>2. f[1] = r.kind
      BY <1>1, <2>1, FactParts
    <2> QED BY <1>2, <1>3, <2>1, <2>2 DEF Tells
  <1>4. ASSUME NEW f \in shown[q.snap], Steady(f[1])
        PROVE  f \in Seen
    BY <1>2, <1>4 DEF Tells, Seen, Facts
  <1> QED BY <1>3, <1>4

\* A statement read at u64::MAX sees the live rows.
LEMMA UnboundSees ==
    ASSUME CatInv, TreeInv, q.snap = Unbounded
    PROVE  Seen = LiveFacts
  <1>1. head <= Unbounded /\ Unbounded \in Nat
    BY BoundsAssumption DEF TreeInv, Unbounded
  <1> QED BY <1>1, LiveAt DEF Seen, CatInv, LiveFromHead

\* Facts of a tree are placed.
LEMMA TreePlaces ==
    ASSUME NEW F, Tree(F), \A f \in F : f[1] # "inlined" => f \in Seen, NEW f \in F,
           f[1] = "inlined" => \E g \in F : g[1] = "table" /\ g[3] = Home(f)
    PROVE  Placed(f)
  <1>1. Fact(Bootstrap) \in Seen
    <2>1. Fact(Bootstrap) \in F /\ Fact(Bootstrap)[1] = "schema"
      BY DEF Tree, Bootstrap, Fact
    <2> QED BY <2>1
  <1>2. f[1] = "table" => f[2] = 1
    BY DEF Tree
  <1>3. ASSUME f[1] \in {"column", "file", "inlined"}
        PROVE  \E g \in Seen : g[1] = "table" /\ g[2] = 1 /\ g[3] = Home(f)
    <2>1. PICK g \in F : g[1] = "table" /\ g[3] = Home(f)
      BY <1>3 DEF Tree, Home
    <2>2. g[2] = 1 /\ g \in Seen
      BY <2>1 DEF Tree
    <2> QED BY <2>1, <2>2
  <1> QED BY <1>1, <1>2, <1>3 DEF Placed

\* No path ends in a scan that Finds.
LEMMA ScannedCovers ==
    ASSUME StatementType, ~Answered, NEW R, NEW more \in Seq(Item), Scanned(R, more),
           Finds(R, more), NEW M, NEW f \in Asked(M), f \in Seen, Wanted(f), Placed(f),
           f \in q.got \/ \E i \in 1..Len(q.todo) : OnPath(f, q.todo[i])
    PROVE  f \in q'.got \/ \E i \in 1..Len(q'.todo) : OnPath(f, q'.todo[i])
  <1>1. /\ q'.got = q.got \cup R
        /\ \A j \in 1..Len(more) : \E i \in 1..Len(q'.todo) : q'.todo[i] = more[j]
        /\ \A j \in 1..Len(q.todo) : j # 1 => \E i \in 1..Len(q'.todo) : q'.todo[i] = q.todo[j]
    BY ScannedParts
  <1>2. CASE f \in q.got
    BY <1>1, <1>2
  <1>3. CASE \E i \in 1..Len(q.todo) : OnPath(f, q.todo[i])
    <2>1. PICK i \in 1..Len(q.todo) : OnPath(f, q.todo[i])
      BY <1>3
    <2>2. CASE i = 1
      <3>1. f \in R \/ \E j \in 1..Len(more) : OnPath(f, more[j])
        BY <2>1, <2>2 DEF Finds
      <3> QED BY <1>1, <3>1
    <2>3. CASE i # 1
      BY <1>1, <2>1, <2>3
    <2> QED BY <2>2, <2>3
  <1> QED BY <1>2, <1>3

\* A scan that Finds keeps the invariant.
LEMMA ScannedKeeps ==
    ASSUME StoreInv, QueryInv, ~Answered, q.op \in DOMAIN Kind, NEW R, NEW more \in Seq(Item),
           Finds(R, more), Scanned(R, more), UNCHANGED feeds
    PROVE  QueryInv'
  <1>1. UNCHANGED <<rows, head, shown, retainFrom>>
    BY DEF feeds, store, floor
  <1>2. CatInv /\ TreeInv /\ StatementType /\ BoundInv /\ UnboundInv
    BY DEF StoreInv, QueryInv
  <1>3. StatementType'
    BY <1>1, <1>2, ScannedType DEF Finds
  <1>4. /\ q'.op = q.op /\ q'.of = q.of /\ q'.snap = q.snap
        /\ q'.got = q.got \cup R /\ q'.ever = q.ever /\ q'.always = q.always
    BY <1>2, ScannedParts
  <1>5. \A i \in 1..Len(q'.todo) :
                  \/ \E j \in 1..Len(more) : q'.todo[i] = more[j]
                  \/ \E j \in 1..Len(q.todo) : q'.todo[i] = q.todo[j]
    BY <1>2, ScannedParts
  <1>7. ASSUME Bound'
        PROVE  (/\ q.got \subseteq Asked(shown[q.snap])
                /\ Covered(shown[q.snap])
                /\ \A i \in 1..Len(q.todo) : q.todo[i][1] = "inlined" =>
                       \E g \in shown[q.snap] : g[1] = "table" /\ g[3] = q.of)'
    <2>1. Bound
      BY <1>1, <1>4, <1>7 DEF Bound
    <2>2. PICK F : F = shown[q.snap]
      OBVIOUS
    <2>3. /\ Steady(Kind[q.op]) /\ q.snap \in 1..head
          /\ \A f \in Seen : Steady(f[1]) => f \in F
          /\ \A f \in F : Steady(f[1]) => f \in Seen
      BY <1>2, <2>1, <2>2, BoundSees DEF Bound
    <2>4. Tree(F)
      BY <1>2, <2>2, <2>3 DEF TreeInv
    <2>5. ASSUME NEW f \in R
          PROVE  f \in Asked(F)
      <3>1. f \in Seen /\ Wanted(f) /\ f[1] = Kind[q.op]
        BY DEF Finds, Wanted
      <3>2. f \in F
        BY <2>3, <3>1
      <3>3. CASE q.op = "inlined"
        <4>1. q.todo[1][1] = "inlined" /\ 1 \in 1..Len(q.todo)
          BY <1>2, <3>3, ScannedParts DEF Finds
        <4>2. \E g \in F : g[1] = "table" /\ g[3] = q.of
          BY <1>2, <2>1, <2>2, <4>1 DEF BoundInv
        <4> QED BY <3>1, <3>2, <3>3, <4>2, KindTable DEF Asked, Wanted
      <3>4. CASE q.op # "inlined"
        BY <3>1, <3>2, <3>4 DEF Asked, Wanted
      <3> QED BY <3>3, <3>4
    <2>6. ASSUME NEW f \in Asked(F)
          PROVE  f \in q'.got \/ \E i \in 1..Len(q'.todo) : OnPath(f, q'.todo[i])
      <3>1. f \in F /\ Wanted(f) /\ f[1] = Kind[q.op]
        BY KindTable DEF Asked, Wanted
      <3>2. f \in Seen
        BY <2>3, <3>1
      <3>3. Placed(f)
        <4>1. \A g \in F : g[1] # "inlined" => g \in Seen
          BY <2>3 DEF Steady
        <4>2. f[1] = "inlined" => \E g \in F : g[1] = "table" /\ g[3] = Home(f)
          <5>1. SUFFICES ASSUME f[1] = "inlined"
                         PROVE  \E g \in F : g[1] = "table" /\ g[3] = Home(f)
            OBVIOUS
          <5>2. q.op = "inlined"
            BY <3>1, <5>1, KindTable
          <5> QED BY <5>1, <5>2 DEF Asked, Home
        <4> QED BY <2>4, <3>1, <4>1, <4>2, TreePlaces
      <3>4. f \in q.got \/ \E i \in 1..Len(q.todo) : OnPath(f, q.todo[i])
        BY <1>2, <2>1, <2>2 DEF BoundInv, Covered
      <3> QED BY <1>2, <3>1, <3>2, <3>3, <3>4, ScannedCovers
    <2>7. ASSUME NEW i \in 1..Len(q'.todo), q'.todo[i][1] = "inlined"
          PROVE  \E g \in F : g[1] = "table" /\ g[3] = q.of
      <3>1. CASE \E j \in 1..Len(more) : q'.todo[i] = more[j]
        <4>1. \E g \in Seen : g[1] = "table" /\ g[3] = q.of
          BY <2>7, <3>1 DEF Finds
        <4> QED BY <2>3, <4>1 DEF Steady
      <3>2. CASE \E j \in 1..Len(q.todo) : q'.todo[i] = q.todo[j]
        BY <1>2, <2>1, <2>2, <2>7, <3>2 DEF BoundInv
      <3> QED BY <1>5, <3>1, <3>2
    <2>8. shown'[q'.snap] = F
      BY <1>1, <1>4, <2>2
    <2>9. q.got \subseteq Asked(F)
      BY <1>2, <2>1, <2>2 DEF BoundInv
    <2>10. q'.got \subseteq Asked(F)'
      <3>1. q'.got \subseteq Asked(F)
        BY <1>4, <2>5, <2>9
      <3> QED BY <1>4, <3>1 DEF Asked
    <2>11. Covered(F)'
      BY <1>4, <2>6 DEF Covered, Asked, OnPath
    <2>12. /\ \A i \in 1..Len(q'.todo) : q'.todo[i][1] = "inlined" =>
                 \E g \in F : g[1] = "table" /\ g[3] = q'.of
      BY <1>4, <2>7
    <2> QED BY <2>8, <2>10, <2>11, <2>12 DEF Covered, Asked
  <1>8. ASSUME q'.op \in Listings, q'.snap = Unbounded
        PROVE  (/\ LiveFacts \subseteq q.ever /\ q.always \subseteq LiveFacts
                /\ q.got \subseteq q.ever
                /\ Covered(q.always))'
    <2>1. q.op \in Listings /\ q.snap = Unbounded
      BY <1>4, <1>8
    <2>2. /\ LiveFacts \subseteq q.ever /\ q.always \subseteq LiveFacts
          /\ q.got \subseteq q.ever /\ Covered(q.always)
      BY <1>2, <2>1 DEF UnboundInv
    <2>3. Seen = LiveFacts /\ Tree(LiveFacts)
      BY <1>2, <2>1, UnboundSees DEF TreeInv
    <2>4. \A f \in R : f \in LiveFacts
      BY <2>3 DEF Finds
    <2>5. PICK M : M = q.always
      OBVIOUS
    <2>6. ASSUME NEW f \in Asked(M)
          PROVE  f \in q'.got \/ \E i \in 1..Len(q'.todo) : OnPath(f, q'.todo[i])
      <3>1. f \in M /\ Wanted(f) /\ f[1] = Kind[q.op] /\ f[1] # "inlined"
        BY <2>1, KindTable DEF Asked, Wanted
      <3>2. f \in LiveFacts
        BY <2>2, <2>5, <3>1
      <3>3. Placed(f)
        BY <2>3, <3>1, <3>2, TreePlaces
      <3>4. f \in q.got \/ \E i \in 1..Len(q.todo) : OnPath(f, q.todo[i])
        BY <2>2, <2>5 DEF Covered
      <3> QED BY <1>2, <2>3, <3>1, <3>2, <3>3, <3>4, ScannedCovers
    <2>7. Covered(M)'
      BY <1>4, <2>6 DEF Covered, Asked, OnPath
    <2>8. LiveFacts' = LiveFacts /\ q'.always = M
      BY <1>1, <1>4, <2>5 DEF LiveFacts
    <2> QED BY <1>4, <2>2, <2>4, <2>7, <2>8 DEF Covered, Asked
  <1>9. AnswerInv'
    BY <1>4, KindTable DEF AnswerInv
  <1> QED BY <1>3, <1>7, <1>8, <1>9 DEF QueryInv, BoundInv, UnboundInv

\* One scan for each of the parents.
LEMMA EachScans ==
    ASSUME NEW R \in SUBSET Row, NEW op, {op} \X Nat \in SUBSET Item,
           IsFiniteSet({r.id : r \in R})
    PROVE  /\ Each(op, R) \in Seq(Item)
           /\ \A j \in 1..Len(Each(op, R)) : \E r \in R : Each(op, R)[j] = <<op, r.id>>
           /\ \A r \in R : \E j \in 1..Len(Each(op, R)) : Each(op, R)[j] = <<op, r.id>>
  <1> DEFINE S == {r.id : r \in R}
             s == InOrder(S)
             n == Len(s)
             e == [i \in 1..n |-> <<op, s[i]>>]
  <1>1. S \in SUBSET Nat
    BY DEF Row
  <1>2. /\ s \in Seq(S) /\ \A x \in S : \E i \in 1..n : s[i] = x
    <2> HIDE DEF S
    <2> QED BY <1>1, InOrderLists DEF S
  <1>3. Each(op, R) = e
    BY DEF Each
  <1> HIDE DEF s
  <1>4. n \in Nat /\ \A i \in 1..n : s[i] \in S
    <2> HIDE DEF S
    <2> QED BY <1>2, LenProperties, ElementOfSeq
  <1>5. \A i \in 1..n : <<op, s[i]>> \in Item
    <2>1. \A x \in S : <<op, x>> \in {op} \X Nat
      BY <1>1
    <2> QED BY <1>4, <2>1
  <1> HIDE DEF n
  <1>6. e \in Seq(Item) /\ Len(e) = n
    BY <1>4, <1>5, SeqDef, LenProperties
  <1>7. \A j \in 1..n : e[j] = <<op, s[j]>>
    OBVIOUS
  <1>8. \A j \in 1..n : \E r \in R : e[j] = <<op, r.id>>
    BY <1>4, <1>7
  <1>9. \A r \in R : \E j \in 1..n : e[j] = <<op, r.id>>
    <2> TAKE r \in R
    <2>1. r.id \in S
      OBVIOUS
    <2>2. PICK j \in 1..n : s[j] = r.id
      BY <1>2, <2>1 DEF n
    <2> QED BY <1>7, <2>2
  <1> HIDE DEF e
  <1> QED BY <1>3, <1>6, <1>8, <1>9

\* Which statement has which scans before it.
LEMMA ScanKinds ==
    ASSUME NEW it, Scan(it)
    PROVE  /\ it[1] = "schemas" => q.op \in Listings /\ q.of = All
           /\ it[1] = "tables" => /\ it[2] = 1 /\ q.op \in {"tables", "columns", "files"}
                                  /\ q.op = "tables" => q.of \in {All, 1}
                                  /\ q.op # "tables" => q.of = All
           /\ it[1] = "describe" => \/ q.op = "columns" /\ it[2] \in Nat /\ q.of \in {All, it[2]}
                                    \/ q.op = "inlined" /\ it[2] = q.of
           /\ it[1] = "columns" => q.op = "columns" /\ it[2] \in Nat /\ q.of \in {All, it[2]}
           /\ it[1] = "files" => q.op = "files" /\ it[2] \in Nat /\ q.of \in {All, it[2]}
           /\ it[1] = "inlined" => q.op = "inlined" /\ it[2] = q.of
           /\ it[1] \in {"stats", "counts"} => q.op = "stats"
           /\ it[1] = "prune" => q.op = "prune" /\ it[2] = q.of
  <1>1. CASE q.op \in Listings /\ q.of = All /\ it = <<"schemas", All>>
    BY <1>1
  <1>2. CASE q.op = "tables" /\ q.of \in {All, 1} /\ it = <<"tables", 1>>
    BY <1>2
  <1>3. CASE q.op \in {"columns", "files"} /\ q.of = All /\ it = <<"tables", 1>>
    BY <1>3
  <1>4. CASE q.op = "columns" /\ \E t \in Nat : q.of \in {All, t} /\ it = <<"describe", t>>
    BY <1>4
  <1>5. CASE q.op \in {"columns", "files"} /\ \E t \in Nat : q.of \in {All, t} /\ it = <<q.op, t>>
    BY <1>5
  <1>6. CASE q.op = "inlined" /\ it \in {<<"describe", q.of>>, <<"inlined", q.of>>}
    BY <1>6
  <1>7. CASE q.op = "stats" /\ it \in {<<"stats", All>>, <<"counts", All>>}
    BY <1>7
  <1>8. CASE q.op = "prune" /\ it = <<"prune", q.of>>
    BY <1>8
  <1> QED BY <1>1, <1>2, <1>3, <1>4, <1>5, <1>6, <1>7, <1>8 DEF Scan

\* The next scan is one that its statement may have.
LEMMA NextScan ==
    ASSUME StatementType, ~Answered
    PROVE  /\ Scan(q.todo[1]) /\ q.todo[1] = <<q.todo[1][1], q.todo[1][2]>>
           /\ q.todo[1][1] = "schemas" => q.todo[1][2] = All
  <1>1. q.todo \in Seq(Item) /\ q.todo # <<>>
    BY DEF StatementType, Answered
  <1>2. 1 \in 1..Len(q.todo) /\ q.todo[1] \in Item
    BY <1>1, LenProperties, ElementOfSeq, EmptySeq
  <1>3. Scan(q.todo[1])
    BY <1>2 DEF StatementType
  <1>4. q.todo[1] = <<q.todo[1][1], q.todo[1][2]>>
    BY <1>2 DEF Item
  <1>5. q.todo[1][1] = "schemas" => q.todo[1][2] = All
    BY <1>3 DEF Scan
  <1> QED BY <1>3, <1>4, <1>5

\* Rows that are visible, and their facts.
LEMMA FoundFacts ==
    ASSUME CatInv, NEW kind
    PROVE  /\ Found(kind) \in SUBSET rows /\ Found(kind) \in SUBSET Row
           /\ \A r \in Found(kind) : /\ Fact(r) \in Seen /\ r.kind = kind /\ Fact(r)[1] = kind
                                     /\ Fact(r)[2] = r.parent /\ Fact(r)[3] = r.id
           /\ \A f \in Seen : f[1] = kind =>
                  \E r \in Found(kind) : f = Fact(r) /\ f[2] = r.parent /\ f[3] = r.id
  <1>1. rows \in SUBSET Row
    BY DEF CatInv, CatType
  <1>2. \A r \in rows : Fact(r)[1] = r.kind /\ Fact(r)[2] = r.parent /\ Fact(r)[3] = r.id
    BY <1>1, FactParts
  <1>3. ASSUME NEW f \in Seen, f[1] = kind
        PROVE  \E r \in Found(kind) : f = Fact(r) /\ f[2] = r.parent /\ f[3] = r.id
    <2>1. PICK r \in rows : Visible(r, q.snap) /\ f = Fact(r)
      BY DEF Seen, Facts
    <2>2. r \in Found(kind)
      BY <1>2, <1>3, <2>1 DEF Found
    <2> QED BY <1>2, <2>1, <2>2
  <1> QED BY <1>1, <1>2, <1>3 DEF Found, Seen, Facts

\* A scan that answers.
LEMMA AnswerFinds ==
    ASSUME StoreInv, QueryInv, q.op \in DOMAIN Kind, ~Answered,
           NEW R \in SUBSET Found(Kind[q.op]), UNCHANGED feeds, Answers(R),
           \A r \in R : Wanted(Fact(r)),
           q.op = "inlined" => q.todo[1][1] = "inlined",
           \A r \in Found(Kind[q.op]) :
               Wanted(Fact(r)) /\ Placed(Fact(r)) /\ OnPath(Fact(r), q.todo[1]) => r \in R
    PROVE  QueryInv'
  <1>1. CatInv
    BY DEF StoreInv
  <1> DEFINE A == {Fact(r) : r \in R}
  <1>2. Finds(A, <<>>)
    <2>1. \A f \in A : f \in Seen /\ Wanted(f)
      BY <1>1, FoundFacts
    <2>2. ASSUME NEW f \in Seen, Wanted(f), Placed(f), OnPath(f, q.todo[1])
          PROVE  f \in A
      <3>1. f[1] = Kind[q.op]
        BY <2>2 DEF Wanted
      <3>2. PICK r \in Found(Kind[q.op]) : f = Fact(r)
        BY <1>1, <3>1, FoundFacts
      <3> QED BY <2>2, <3>2
    <2> HIDE DEF A
    <2> QED BY <2>1, <2>2 DEF Finds
  <1>3. Scanned(A, <<>>)
    BY DEF Answers
  <1> HIDE DEF A
  <1>4. <<>> \in Seq(Item)
    OBVIOUS
  <1> QED BY <1>2, <1>3, <1>4, ScannedKeeps

\* SelectSchemas, and the schemas of the other listings.
LEMMA SchemasScanned ==
    ASSUME StoreInv, QueryInv, ScanSchemas
    PROVE  QueryInv'
  <1>1. CatInv /\ TreeInv /\ StatementType /\ ~Answered /\ UNCHANGED feeds
    BY DEF StoreInv, QueryInv, ScanSchemas, Turn
  <1>2. /\ q.todo[1] = <<"schemas", All>> /\ q.op \in Listings /\ q.of = All
    BY <1>1, NextScan, ScanKinds DEF ScanSchemas, Turn
  <1>3. q.op \in DOMAIN Kind /\ q.op # "inlined"
    BY <1>2, KindTable
  <1> DEFINE S == Found("schema")
  <1>4. CASE q.op = "schemas"
    <2>1. Answers(S) /\ Kind[q.op] = "schema"
      BY <1>4, KindTable DEF ScanSchemas
    <2>2. \A r \in S : Wanted(Fact(r))
      BY <1>1, <1>2, <1>3, <2>1, FoundFacts DEF Wanted
    <2> QED BY <1>1, <1>3, <2>1, <2>2, AnswerFinds
  <1>5. CASE q.op # "schemas"
    <2>1. Scanned({}, Each("tables", S))
      BY <1>5 DEF ScanSchemas
    <2>2. S \in SUBSET rows /\ S \in SUBSET Row /\ \A r \in S : r.id = 1
      BY <1>1, FoundFacts DEF TreeInv
    <2>3. IsFiniteSet({r.id : r \in S})
      <3> DEFINE ids == {r.id : r \in S}
      <3>1. ids \in SUBSET Nat /\ \A x \in ids : x <= 1
        BY <2>2
      <3> HIDE DEF ids
      <3>2. IsFiniteSet(ids)
        BY <3>1, FS_BoundedSetOfNaturals
      <3> QED BY <3>2 DEF ids
    <2>4. PICK T : T = S
      OBVIOUS
    <2>5. {"tables"} \X Nat \in SUBSET Item
      BY DEF Item
    <2>6. /\ Each("tables", T) \in Seq(Item)
          /\ \A j \in 1..Len(Each("tables", T)) : Each("tables", T)[j] = <<"tables", 1>>
          /\ T # {} => \E j \in 1..Len(Each("tables", T)) : Each("tables", T)[j] = <<"tables", 1>>
      <3>1. T \in SUBSET Row /\ IsFiniteSet({r.id : r \in T}) /\ \A r \in T : r.id = 1
        BY <2>2, <2>3, <2>4
      <3>2. /\ Each("tables", T) \in Seq(Item)
            /\ \A j \in 1..Len(Each("tables", T)) :
                   \E r \in T : Each("tables", T)[j] = <<"tables", r.id>>
            /\ \A r \in T : \E j \in 1..Len(Each("tables", T)) :
                   Each("tables", T)[j] = <<"tables", r.id>>
        BY <2>5, <3>1, EachScans
      <3> QED BY <3>1, <3>2
    <2> DEFINE more == Each("tables", T)
    <2>7. Finds({}, more)
      <3>1. ASSUME NEW j \in 1..Len(more)
            PROVE  Scan(more[j]) /\ more[j][1] # "inlined"
        <4>1. more[j] = <<"tables", 1>>
          BY <2>6
        <4>2. q.op \in {"tables", "columns", "files"}
          BY <1>2, <1>5 DEF Listings
        <4> HIDE DEF more
        <4> QED BY <1>2, <4>1, <4>2 DEF Scan
      <3>2. ASSUME NEW f \in Seen, Placed(f)
            PROVE  \E j \in 1..Len(more) : OnPath(f, more[j])
        <4>1. Fact(Bootstrap) \in Seen /\ Fact(Bootstrap)[1] = "schema"
          BY <3>2 DEF Placed, Bootstrap, Fact
        <4>2. T # {}
          BY <1>1, <2>4, <4>1, FoundFacts
        <4>3. PICK j \in 1..Len(more) : more[j] = <<"tables", 1>>
          BY <2>6, <4>2
        <4> HIDE DEF more
        <4> QED BY <4>3 DEF OnPath
      <3> HIDE DEF more
      <3> QED BY <3>1, <3>2 DEF Finds
    <2>8. Scanned({}, more) /\ more \in Seq(Item)
      BY <2>1, <2>4, <2>6
    <2> HIDE DEF more
    <2> QED BY <1>1, <1>3, <2>7, <2>8, ScannedKeeps
  <1> QED BY <1>4, <1>5

\* SelectTables, and the tables of the listings below them.
LEMMA TablesScanned ==
    ASSUME StoreInv, QueryInv, ScanTables
    PROVE  QueryInv'
  <1>1. CatInv /\ StatementType /\ ~Answered /\ UNCHANGED feeds
    BY DEF StoreInv, QueryInv, ScanTables, Turn
  <1>2. /\ q.todo[1] = <<"tables", 1>> /\ q.op \in {"tables", "columns", "files"}
        /\ q.op = "tables" => q.of \in {All, 1}
        /\ q.op # "tables" => q.of = All
    BY <1>1, NextScan, ScanKinds DEF ScanTables, Turn
  <1>3. q.op \in DOMAIN Kind /\ q.op # "inlined" /\ Of = 1
    BY <1>2, KindTable DEF Of
  <1> DEFINE S == Below("table", 1)
  <1>4. S \in SUBSET Found("table") /\ \A r \in Found("table") : r \in S <=> r.parent = 1
    BY DEF Below
  <1>5. CASE q.op = "tables"
    <2>1. Answers(S) /\ Kind[q.op] = "table"
      BY <1>3, <1>5, KindTable DEF ScanTables
    <2>2. \A r \in S : Wanted(Fact(r))
      BY <1>1, <1>2, <1>3, <1>4, <1>5, <2>1, FoundFacts DEF Wanted
    <2>3. \A r \in Found("table") : Placed(Fact(r)) => r \in S
      BY <1>1, <1>4, FoundFacts DEF Placed
    <2> QED BY <1>1, <1>3, <1>4, <2>1, <2>2, <2>3, AnswerFinds
  <1>6. CASE q.op # "tables"
    <2> DEFINE op == IF q.op = "columns" THEN "describe" ELSE "files"
    <2>1. Scanned({}, Each(op, S))
      BY <1>3, <1>6 DEF ScanTables
    <2>2. S \in SUBSET rows /\ S \in SUBSET Row /\ \A r \in S : r.kind = "table"
      BY <1>1, <1>4, FoundFacts
    <2>3. IsFiniteSet({r.id : r \in S})
      <3> DEFINE ids == {r.id : r \in S}
      <3>1. ids \in SUBSET Nat /\ (\A x \in ids : x <= MaxTables) /\ MaxTables \in Nat
        BY <1>1, <2>2, BoundsAssumption DEF CatInv, RowsInv, Good
      <3> HIDE DEF ids
      <3>2. IsFiniteSet(ids)
        BY <3>1, FS_BoundedSetOfNaturals
      <3> QED BY <3>2 DEF ids
    <2>4. PICK T, k : T = S /\ k = op
      OBVIOUS
    <2>5. {k} \X Nat \in SUBSET Item
      BY <2>4 DEF Item
    <2>6. /\ Each(k, T) \in Seq(Item)
          /\ \A j \in 1..Len(Each(k, T)) : \E r \in T : Each(k, T)[j] = <<k, r.id>>
          /\ \A r \in T : \E j \in 1..Len(Each(k, T)) : Each(k, T)[j] = <<k, r.id>>
      <3>1. T \in SUBSET Row /\ IsFiniteSet({r.id : r \in T})
        BY <2>2, <2>3, <2>4
      <3> QED BY <2>5, <3>1, EachScans
    <2> DEFINE more == Each(k, T)
    <2>7. (k = "describe" /\ q.op = "columns") \/ (k = "files" /\ q.op = "files")
      BY <1>2, <1>6, <2>4
    <2>8. Finds({}, more)
      <3>1. ASSUME NEW j \in 1..Len(more)
            PROVE  Scan(more[j]) /\ more[j][1] # "inlined"
        <4>1. PICK r \in T : more[j] = <<k, r.id>>
          BY <2>6
        <4>2. r.id \in Nat
          BY <2>2, <2>4 DEF Row
        <4> HIDE DEF more
        <4> QED BY <1>2, <1>6, <2>7, <4>1, <4>2 DEF Scan
      <3>2. ASSUME NEW f \in Seen, Placed(f), Wanted(f)
            PROVE  \E j \in 1..Len(more) : OnPath(f, more[j])
        <4>1. f[1] \in {"column", "file"}
          BY <2>7, <3>2, KindTable DEF Wanted
        <4>2. PICK g \in Seen : g[1] = "table" /\ g[2] = 1 /\ g[3] = Home(f)
          BY <3>2, <4>1 DEF Placed
        <4>3. PICK r \in Found("table") : r.parent = 1 /\ r.id = Home(f)
          BY <1>1, <4>2, FoundFacts
        <4>4. r \in T
          BY <1>4, <2>4, <4>3
        <4>5. PICK j \in 1..Len(more) : more[j] = <<k, Home(f)>>
          BY <2>6, <4>3, <4>4
        <4> HIDE DEF more
        <4> QED BY <2>7, <4>5 DEF OnPath
      <3> HIDE DEF more
      <3> QED BY <3>1, <3>2 DEF Finds
    <2>9. Scanned({}, more) /\ more \in Seq(Item)
      BY <2>1, <2>4, <2>6
    <2> HIDE DEF more
    <2> QED BY <1>1, <1>3, <2>8, <2>9, ScannedKeeps
  <1> QED BY <1>5, <1>6

\* describe_table, before its columns or inlined rows are read.
LEMMA TableScanned ==
    ASSUME StoreInv, QueryInv, ScanTable
    PROVE  QueryInv'
  <1>1. CatInv /\ StatementType /\ ~Answered /\ UNCHANGED feeds
    BY DEF StoreInv, QueryInv, ScanTable, Turn
  <1>2. PICK t : t = Of
    OBVIOUS
  <1>3. /\ q.todo[1] = <<"describe", t>> /\ t \in Nat
        /\ \/ q.op = "columns" /\ q.of \in {All, t}
           \/ q.op = "inlined" /\ t = q.of
    <2>1. /\ q.todo[1] = <<"describe", t>>
          /\ \/ q.op = "columns" /\ t \in Nat /\ q.of \in {All, t}
             \/ q.op = "inlined" /\ t = q.of
      BY <1>1, <1>2, NextScan, ScanKinds DEF ScanTable, Turn, Of
    <2> QED BY <1>1, <2>1 DEF StatementType
  <1>4. q.op \in DOMAIN Kind /\ q.op \in {"columns", "inlined"}
    BY <1>3, KindTable
  <1> DEFINE found == \E r \in Found("table") : r.id = t
             it == <<q.op, t>>
             more == IF found THEN <<it>> ELSE <<>>
  <1>5. Scanned({}, more)
    BY <1>2 DEF ScanTable
  <1>6. it \in Item
    BY <1>3, <1>4 DEF Item
  <1>7. Scan(it)
    BY <1>3 DEF Scan
  <1>8. found => \E g \in Seen : g[1] = "table" /\ g[3] = t
    BY <1>1, FoundFacts
  <1>9. ASSUME NEW f \in Seen, Wanted(f), Placed(f), OnPath(f, q.todo[1])
        PROVE  found /\ OnPath(f, it)
    <2>1. f[1] \in {"column", "inlined"}
      BY <1>4, <1>9, KindTable DEF Wanted
    <2>2. t = Home(f)
      BY <1>3, <1>4, <1>9 DEF OnPath
    <2>3. PICK g \in Seen : g[1] = "table" /\ g[3] = t
      BY <1>9, <2>1, <2>2 DEF Placed
    <2>4. found
      BY <1>1, <2>3, FoundFacts
    <2> QED BY <2>2, <2>4 DEF OnPath
  <1>10. q.op = "inlined" => t = q.of
    BY <1>3
  <1>11. it[1] = q.op
    OBVIOUS
  <1> HIDE DEF found, it
  <1>12. more \in Seq(Item)
    BY <1>6
  <1>13. CASE found
    <2>1. Len(more) = 1 /\ more[1] = it /\ more = <<it>>
      BY <1>13
    <2> HIDE DEF more
    <2>2. \A j \in 1..Len(more) : more[j] = it
      BY <2>1
    <2>3. 1 \in 1..Len(more)
      BY <2>1
    <2>4. Finds({}, more)
      BY <1>7, <1>8, <1>9, <1>10, <1>11, <1>13, <2>1, <2>2, <2>3 DEF Finds
    <2> QED BY <1>1, <1>4, <1>5, <1>12, <2>4, ScannedKeeps
  <1>14. CASE ~found
    <2>1. more = <<>>
      BY <1>14
    <2>2. 1..Len(more) = {}
      BY <2>1
    <2> HIDE DEF more
    <2>3. Finds({}, more)
      BY <1>9, <1>14, <2>2 DEF Finds
    <2> QED BY <1>1, <1>4, <1>5, <1>12, <2>3, ScannedKeeps
  <1> QED BY <1>13, <1>14

\* Columns, files and inlined rows: scans that only answer.
LEMMA LeavesScanned ==
    ASSUME StoreInv, QueryInv, ScanColumns \/ ScanFiles \/ ScanInlined
    PROVE  QueryInv'
  <1>1. CatInv /\ StatementType /\ ~Answered /\ UNCHANGED feeds
    BY DEF StoreInv, QueryInv, ScanColumns, ScanFiles, ScanInlined, Turn
  <1>2. PICK t : t = Of
    OBVIOUS
  <1>3. CASE ScanColumns
    <2>1. q.todo[1] = <<"columns", t>> /\ q.op = "columns" /\ q.of \in {All, t}
      BY <1>1, <1>2, <1>3, NextScan, ScanKinds DEF ScanColumns, Turn, Of
    <2>2. Answers(Below("column", t)) /\ Kind[q.op] = "column" /\ q.op \in DOMAIN Kind
      BY <1>2, <1>3, <2>1, KindTable DEF ScanColumns
    <2>3. /\ Below("column", t) \in SUBSET Found("column")
          /\ \A r \in Found("column") : r \in Below("column", t) <=> r.parent = t
      BY DEF Below
    <2>4. \A r \in Below("column", t) : Wanted(Fact(r))
      BY <1>1, <2>1, <2>2, <2>3, FoundFacts DEF Wanted
    <2>5. \A r \in Found("column") : OnPath(Fact(r), q.todo[1]) => r \in Below("column", t)
      BY <1>1, <2>1, <2>3, FoundFacts DEF OnPath, Home
    <2> QED BY <1>1, <2>1, <2>2, <2>3, <2>4, <2>5, AnswerFinds
  <1>4. CASE ScanFiles
    <2>1. q.todo[1] = <<"files", t>> /\ q.op = "files" /\ q.of \in {All, t}
      BY <1>1, <1>2, <1>4, NextScan, ScanKinds DEF ScanFiles, Turn, Of
    <2>2. Answers(Below("file", t)) /\ Kind[q.op] = "file" /\ q.op \in DOMAIN Kind
      BY <1>2, <1>4, <2>1, KindTable DEF ScanFiles
    <2>3. /\ Below("file", t) \in SUBSET Found("file")
          /\ \A r \in Found("file") : r \in Below("file", t) <=> r.parent = t
      BY DEF Below
    <2>4. \A r \in Below("file", t) : Wanted(Fact(r))
      BY <1>1, <2>1, <2>2, <2>3, FoundFacts DEF Wanted
    <2>5. \A r \in Found("file") : OnPath(Fact(r), q.todo[1]) => r \in Below("file", t)
      BY <1>1, <2>1, <2>3, FoundFacts DEF OnPath, Home
    <2> QED BY <1>1, <2>1, <2>2, <2>3, <2>4, <2>5, AnswerFinds
  <1>5. CASE ScanInlined
    <2> DEFINE R == {r \in Found("inlined") : r.parent[1] = t}
    <2>1. q.todo[1] = <<"inlined", t>> /\ q.op = "inlined" /\ q.of = t
      BY <1>1, <1>2, <1>5, NextScan, ScanKinds DEF ScanInlined, Turn, Of
    <2>2. Answers(R) /\ Kind[q.op] = "inlined" /\ q.op \in DOMAIN Kind
      BY <1>2, <1>5, <2>1, KindTable DEF ScanInlined
    <2>3. R \in SUBSET Found("inlined")
      OBVIOUS
    <2>4. \A r \in R : Wanted(Fact(r))
      BY <1>1, <2>1, <2>2, <2>3, FoundFacts DEF Wanted
    <2>5. \A r \in Found("inlined") : OnPath(Fact(r), q.todo[1]) => r \in R
      BY <1>1, <2>1, <2>3, FoundFacts DEF OnPath, Home
    <2>6. q.todo[1][1] = "inlined"
      BY <2>1
    <2> HIDE DEF R
    <2> QED BY <1>1, <2>1, <2>2, <2>3, <2>4, <2>5, <2>6, AnswerFinds
  <1> QED BY <1>3, <1>4, <1>5

\* The snapshot of the statistics is checked.
LEMMA SnapshotScanned ==
    ASSUME StoreInv, QueryInv, ScanSnapshot
    PROVE  QueryInv'
  <1>1. StatementType /\ AnswerInv /\ ~Answered /\ UNCHANGED <<head, shown>>
    BY DEF QueryInv, ScanSnapshot, Turn, feeds, store
  <1> DEFINE more == <<<<"counts", All>>>>
  <1>2. q.op = "stats" /\ Scanned({}, more)
    BY <1>1, NextScan, ScanKinds DEF ScanSnapshot, Turn
  <1>3. <<"counts", All>> \in Item /\ Scan(<<"counts", All>>)
    BY <1>2 DEF Item, All, Scan
  <1>4. more \in Seq(Item) /\ \A j \in 1..Len(more) : Scan(more[j])
    <2>1. PICK it : it = <<"counts", All>>
      OBVIOUS
    <2>2. more = <<it>> /\ it \in Item /\ Scan(it)
      BY <1>3, <2>1
    <2> HIDE DEF more
    <2>3. more \in Seq(Item) /\ Len(more) = 1 /\ more[1] = it
      BY <2>2
    <2> QED BY <2>2, <2>3
  <1> HIDE DEF more
  <1>5. StatementType'
    BY <1>1, <1>2, <1>4, ScannedType
  <1>6. q'.op = "stats" /\ q'.got = q.got /\ q'.snap = q.snap
    <2>1. q'.op = q.op /\ q'.got = q.got \cup {} /\ q'.snap = q.snap
      BY <1>1, <1>2, <1>4, ScannedParts
    <2> QED BY <1>2, <2>1
  <1>7. AnswerInv'
    BY <1>1, <1>2, <1>6 DEF AnswerInv
  <1>8. BoundInv' /\ UnboundInv'
    BY <1>6, KindTable DEF BoundInv, UnboundInv, Bound
  <1> QED BY <1>5, <1>7, <1>8 DEF QueryInv

\* Record counts only grow: they count the files of every snapshot.
LEMMA CountsScanned ==
    ASSUME StoreInv, QueryInv, ScanTableStats
    PROVE  QueryInv'
  <1>1. /\ CatInv /\ StatsInv /\ StatementType /\ AnswerInv /\ ~Answered
        /\ UNCHANGED <<head, shown>>
    BY DEF StoreInv, QueryInv, ScanTableStats, Turn, feeds, store
  <1>2. q.op = "stats" /\ Scanned(Counted, <<>>)
    BY <1>1, NextScan, ScanKinds DEF ScanTableStats, Turn
  <1>3. <<>> \in Seq(Item) /\ \A j \in 1..Len(<<>>) : Scan(<<>>[j])
    OBVIOUS
  <1>4. StatementType'
    BY <1>1, <1>2, <1>3, ScannedType
  <1>5. q'.op = "stats" /\ q'.got = q.got \cup Counted /\ q'.snap = q.snap
    BY <1>1, <1>2, <1>3, ScannedParts
  <1>6. ASSUME NEW x \in Counted
        PROVE  x[2] >= Cardinality({f \in shown[q.snap] : f[1] = "file" /\ f[2] = x[1]})
    <2>1. PICK t \in 1..MaxTables : x = <<t, stats.counts[t]>>
      BY DEF Counted
    <2> DEFINE F == FilesOf(t)
               G == {f \in shown[q.snap] : f[1] = "file" /\ f[2] = t}
    <2>2. G \in SUBSET F
      BY <1>1, <1>2 DEF StatementType, FilesOf, Past
    <2>3. IsFiniteSet(F) /\ Cardinality(F) <= stats.counts[t] /\ stats.counts[t] \in Nat
      BY <1>1 DEF StatsInv
    <2>4. x[1] = t /\ x[2] = stats.counts[t]
      BY <2>1
    <2> HIDE DEF F, G
    <2>5. IsFiniteSet(G) /\ Cardinality(G) <= Cardinality(F)
      BY <2>2, <2>3, FS_Subset
    <2>6. Cardinality(G) \in Nat /\ Cardinality(F) \in Nat
      BY <2>3, <2>5, FS_CardinalityType
    <2>7. x[2] >= Cardinality(G)
      BY <2>3, <2>4, <2>5, <2>6
    <2> QED BY <2>4, <2>7 DEF G
  <1>7. ASSUME NEW x \in q'.got
        PROVE  x[2] >= Cardinality({f \in shown[q.snap] : f[1] = "file" /\ f[2] = x[1]})
    <2>1. CASE x \in Counted
      BY <1>6, <2>1
    <2>2. CASE x \in q.got
      BY <1>1, <1>2, <2>2 DEF AnswerInv
    <2> QED BY <1>5, <2>1, <2>2
  <1>8. AnswerInv'
    BY <1>1, <1>5, <1>7 DEF AnswerInv
  <1>9. BoundInv' /\ UnboundInv'
    BY <1>5, KindTable DEF BoundInv, UnboundInv, Bound
  <1> QED BY <1>4, <1>8, <1>9 DEF QueryInv

\* prune_files keeps each file whose range has the value.
LEMMA FileStatsScanned ==
    ASSUME StoreInv, QueryInv, ScanFileStats
    PROVE  QueryInv'
  <1>1. /\ CatInv /\ StatsInv /\ StatementType /\ ~Answered /\ UNCHANGED <<head, shown>>
    BY DEF StoreInv, QueryInv, ScanFileStats, Turn, feeds, store
  <1>2. q.op = "prune" /\ Of = q.of
    BY <1>1, NextScan, ScanKinds DEF ScanFileStats, Turn, Of
  <1> DEFINE K == Kept(q.of[1], q.of[2])
  <1>3. Scanned(K, <<>>)
    BY <1>2 DEF ScanFileStats
  <1>4. <<>> \in Seq(Item) /\ \A j \in 1..Len(<<>>) : Scan(<<>>[j])
    OBVIOUS
  <1>5. StatementType'
    BY <1>1, <1>3, <1>4, ScannedType
  <1>6. q'.op = "prune" /\ q'.got = q.got \cup K /\ q'.snap = q.snap /\ q'.of = q.of
    BY <1>1, <1>2, <1>3, <1>4, ScannedParts
  <1>7. ASSUME NEW f, q.snap \in 1..head, f \in shown[q.snap],
               f[1] = "file", f[2] = q.of[1], f[5] = q.of[2]
        PROVE  f[3] \in K
    <2>1. f \in Past
      BY <1>7 DEF Past
    <2>2. PICK x \in stats.ranges : x.table = f[2] /\ x.file = f[3] /\ InRange(x, f[5])
      BY <1>1, <1>7, <2>1 DEF StatsInv
    <2> QED BY <1>7, <2>2 DEF Kept
  <1> HIDE DEF K
  <1>8. AnswerInv'
    BY <1>1, <1>6, <1>7 DEF AnswerInv
  <1>9. BoundInv' /\ UnboundInv'
    BY <1>6, KindTable DEF BoundInv, UnboundInv, Bound
  <1> QED BY <1>5, <1>8, <1>9 DEF QueryInv

-----------------------------------------------------------------------------
\* Beginnings and ends

\* No statement runs.
LEMMA Idle == q = NoStatement => QueryInv
  <1> SUFFICES ASSUME q = NoStatement PROVE QueryInv
    OBVIOUS
  <1>1. /\ q.op = "none" /\ q.todo = <<>> /\ q.got = {} /\ q.ever = {} /\ q.always = {}
        /\ q.of = All /\ q.snap = 0
    BY DEF NoStatement
  <1>2. /\ q = [op |-> q.op, of |-> q.of, snap |-> q.snap, todo |-> q.todo, got |-> q.got,
                ever |-> q.ever, always |-> q.always]
    BY DEF NoStatement
  <1>3. StatementType
    <2>1. q.todo \in Seq(Item) /\ \A i \in 1..Len(q.todo) : Scan(q.todo[i])
      BY <1>1
    <2> QED BY <1>1, <1>2, <2>1, KindTable DEF StatementType, Statements
  <1>4. BoundInv /\ UnboundInv /\ AnswerInv
    BY <1>1, KindTable DEF BoundInv, Bound, UnboundInv, AnswerInv
  <1> QED BY <1>3, <1>4 DEF QueryInv

\* The same after a step.
LEMMA IdleNext == (q = NoStatement)' => QueryInv'
  BY Idle, PTL

\* A statement begins, with the scan that leads to all it asks for.
LEMMA AskStep ==
    ASSUME StoreInv, NEW op, NEW of, NEW snap, Ask(op, of, snap),
           \/ /\ op \in Listings /\ of \in Nat /\ snap \in (1..head) \cup {Unbounded}
              /\ op = "schemas" => of = All
              /\ op = "tables" => of \in {All, 1}
           \/ op = "inlined" /\ of \in Nat /\ snap \in 1..head
           \/ op = "stats" /\ of = All /\ snap \in 1..head
           \/ op = "prune" /\ of \in Nat \X Nat /\ snap \in (1..head) \cup {Unbounded}
    PROVE  QueryInv'
  <1> DEFINE it == FirstScan(op, of)
             live == Watched(snap, rows)
  <1>1. /\ q' = [op |-> op, of |-> of, snap |-> snap, todo |-> <<it>>,
                 got |-> {}, ever |-> live, always |-> live]
        /\ UNCHANGED <<rows, head, shown, retainFrom>>
    BY DEF Ask, feeds, store, floor
  <1>2. /\ it \in Item /\ it[1] # "inlined"
        /\ \/ op \in Listings /\ of = All /\ it = <<"schemas", All>>
           \/ op = "tables" /\ of = 1 /\ it = <<"tables", 1>>
           \/ op = "columns" /\ of \in Nat /\ of # All /\ it = <<"describe", of>>
           \/ op = "files" /\ of \in Nat /\ of # All /\ it = <<"files", of>>
           \/ op = "inlined" /\ of \in Nat /\ it = <<"describe", of>>
           \/ op = "stats" /\ it = <<"stats", All>>
           \/ op = "prune" /\ it = <<"prune", of>>
    BY DEF FirstScan, Listings, All, Item
  <1> HIDE DEF it, live
  <1>3. /\ q'.op = op /\ q'.of = of /\ q'.snap = snap /\ q'.todo = <<it>> /\ q'.got = {}
        /\ q'.ever = live /\ q'.always = live
    BY <1>1
  <1>4. Len(q'.todo) = 1 /\ q'.todo[1] = it /\ q'.todo \in Seq(Item) /\ q'.todo # <<>>
    BY <1>2, <1>3
  <1>5. StatementType'
    <2>1. Scan(q.todo[1])'
      BY <1>2, <1>3, <1>4 DEF Scan
    <2>2. \A i \in 1..Len(q'.todo) : i = 1
      BY <1>4
    <2>3. \A i \in 1..Len(q'.todo) : Scan(q.todo[i])'
      BY <2>1, <2>2
    <2>4. /\ q' = [op |-> q'.op, of |-> q'.of, snap |-> q'.snap, todo |-> q'.todo,
                   got |-> q'.got, ever |-> q'.ever, always |-> q'.always]
      BY <1>1, <1>3
    <2>5. /\ q'.op \in Statements \ {"none", "changes"}
          /\ q'.snap \in (1..head) \cup {Unbounded}
          /\ q'.op \in {"inlined", "stats"} => q'.snap \in 1..head
          /\ q'.op = "inlined" => q'.of \in Nat
          /\ q'.op = "prune" => q'.of \in Nat \X Nat
      BY <1>3 DEF Statements, Listings
    <2> QED BY <1>1, <1>4, <2>3, <2>4, <2>5 DEF StatementType
  <1>6. ASSUME NEW F, NEW f \in Asked(F)', op \in DOMAIN Kind
        PROVE  OnPath(f, it)'
    <2>1. CASE op = "inlined"
      <3>1. f[1] = "inlined" /\ f[2][1] = of
        BY <1>3, <1>6, <2>1 DEF Asked
      <3>2. it = <<"describe", of>>
        BY <1>2, <2>1 DEF Listings
      <3> QED BY <3>1, <3>2 DEF OnPath, Home
    <2>2. CASE op # "inlined"
      <3>1. f[1] = Kind[op] /\ of \in {All, f[2]} /\ Kind[op] # "inlined"
        BY <1>3, <1>6, <2>2, KindTable DEF Asked
      <3>2. Home(f) = f[2]
        BY <3>1 DEF Home
      <3>3. \/ it = <<"schemas", All>> \/ it = <<"tables", 1>>
            \/ (of # All /\ (it = <<"describe", of>> \/ it = <<op, of>>))
        BY <1>2, <1>6, <2>2, KindTable
      <3>4. of # All => of = Home(f)
        BY <3>1, <3>2
      <3> QED BY <1>3, <3>3, <3>4 DEF OnPath
    <2> QED BY <2>1, <2>2
  <1>7. ASSUME NEW F, op \in DOMAIN Kind
        PROVE  Covered(F)'
    BY <1>4, <1>6, <1>7 DEF Covered
  <1>8. BoundInv'
    <2>1. \A i \in 1..Len(q'.todo) : q'.todo[i][1] # "inlined"
      BY <1>2, <1>4
    <2>2. PICK F : F = shown'[q'.snap]
      OBVIOUS
    <2>3. op \in DOMAIN Kind => Covered(F)'
      BY <1>7
    <2>4. op \in DOMAIN Kind => Covered(shown[q.snap])'
      BY <2>2, <2>3 DEF Covered, Asked
    <2> QED BY <1>3, <2>1, <2>4 DEF BoundInv, Bound
  <1>9. UnboundInv'
    <2>1. SUFFICES ASSUME op \in Listings, snap = Unbounded
                   PROVE  (/\ LiveFacts \subseteq q.ever /\ q.always \subseteq LiveFacts
                           /\ q.got \subseteq q.ever /\ Covered(q.always))'
      BY <1>3 DEF UnboundInv
    <2>2. live = LiveFacts
      <3>1. CatType /\ RowsInv /\ head <= Unbounded /\ Unbounded \in Nat
        BY BoundsAssumption DEF StoreInv, CatInv, TreeInv, Unbounded
      <3>2. Facts(rows, Unbounded) = LiveFacts
        BY <3>1, LiveAt DEF LiveFromHead
      <3> QED BY <2>1, <3>2 DEF live, Watched
    <2>3. LiveFacts' = LiveFacts
      BY <1>1 DEF LiveFacts
    <2>4. PICK F : F = live
      OBVIOUS
    <2>5. Covered(F)'
      BY <1>7, <2>1, KindTable
    <2>6. Covered(q.always)'
      BY <1>3, <2>4, <2>5 DEF Covered, Asked
    <2> QED BY <1>3, <2>2, <2>3, <2>6
  <1>10. AnswerInv'
    <2>1. ~Answered'
      BY <1>4 DEF Answered
    <2>2. op # "changes"
      BY <1>2 DEF Listings
    <2> QED BY <1>3, <2>1, <2>2 DEF AnswerInv
  <1> QED BY <1>5, <1>8, <1>9, <1>10 DEF QueryInv

\* What the catalog does while a statement runs.
LEMMA CatalogGrows ==
    ASSUME StoreInv, CatalogStep \/ \E c \in Consumer : CommitBatch(c, TRUE)
    PROVE  /\ head \in Nat /\ head' \in Nat /\ head <= head'
           /\ \A s \in 1..head : shown'[s] = shown[s]
           /\ retainFrom \in Nat /\ retainFrom' \in Nat /\ retainFrom <= retainFrom'
           /\ head' = head \/ head' < Unbounded
  <1>1. CatType /\ head \in Nat /\ retainFrom \in Nat /\ Unbounded = MaxSnapshots + 1
        /\ MaxSnapshots \in Nat
    BY BoundsAssumption DEF StoreInv, CatInv, CatType, Unbounded
  <1>2. \/ \E Out, In : Commit(Out, In)
        \/ UNCHANGED <<head, shown>> /\ retainFrom <= retainFrom' /\ retainFrom' \in Nat
    <2>1. CASE CreateTable
      BY <2>1 DEF CreateTable
    <2>2. CASE RegisterDataFiles
      BY <2>2 DEF RegisterDataFiles
    <2>3. CASE \E t \in 1..MaxTables : DropTable(t)
      BY <2>3 DEF DropTable
    <2>4. CASE \E t \in 1..MaxTables : RenameColumn(t)
      BY <2>4 DEF RenameColumn
    <2>5. CASE FailSession \/ Excise \/ \E t \in 1..MaxTables : \E v \in Value : PutStats(t, v)
      BY <1>1, <2>5 DEF FailSession, Excise, PutStats, floor
    <2>6. CASE \E s \in 2..MaxSnapshots : GcApply(s)
      BY <1>1, <2>6 DEF GcApply, store
    <2>7. CASE \E c \in Consumer : CommitBatch(c, TRUE)
      BY <2>7 DEF CommitBatch
    <2> QED BY <2>1, <2>2, <2>3, <2>4, <2>5, <2>6, <2>7 DEF CatalogStep
  <1>3. ASSUME NEW Out, NEW In, Commit(Out, In)
        PROVE  /\ head' \in Nat /\ head <= head' /\ \A s \in 1..head : shown'[s] = shown[s]
               /\ retainFrom' = retainFrom /\ head' < Unbounded
    <2>1. head' \in Nat /\ head <= head' /\ \A s \in 1..head : shown'[s] = shown[s]
      BY <1>1, <1>3, CommitGrows
    <2>2. head' = head + 1 /\ head < MaxSnapshots /\ retainFrom' = retainFrom
      BY <1>3 DEF Commit, Peek, floor
    <2> QED BY <1>1, <2>1, <2>2
  <1> QED BY <1>1, <1>2, <1>3

\* The store's part, under all that happens while a statement runs.
LEMMA StoreMeanwhile ==
    ASSUME StoreInv, CatalogStep \/ \E c \in Consumer : CommitBatch(c, TRUE)
    PROVE  StoreInv'
  BY StoreCatalog, StoreBatch

\* A statement that runs is not harmed: what it is bound to stays as it was, and
\* what it reads at u64::MAX is watched.
LEMMA MeanwhileStep ==
    ASSUME StoreInv, QueryInv, Meanwhile
    PROVE  QueryInv'
  <1> DEFINE live == Watched(q.snap, rows')
  <1>1. /\ q = NoStatement \/ ~Answered
        /\ CatalogStep \/ \E c \in Consumer : CommitBatch(c, TRUE)
        /\ q' = [q EXCEPT !.ever = @ \cup live, !.always = @ \cap live]
    BY DEF Meanwhile
  <1>2. StatementType /\ BoundInv /\ UnboundInv /\ AnswerInv
    BY DEF QueryInv
  <1>3. StoreInv'
    BY <1>1, StoreMeanwhile
  <1>4. /\ head \in Nat /\ head' \in Nat /\ head <= head'
        /\ \A s \in 1..head : shown'[s] = shown[s]
        /\ retainFrom \in Nat /\ retainFrom' \in Nat /\ retainFrom <= retainFrom'
        /\ head' = head \/ head' < Unbounded
        /\ Unbounded \in Nat
    <2>1. Unbounded \in Nat
      BY BoundsAssumption DEF Unbounded
    <2> QED BY <1>1, <2>1, CatalogGrows
  <1>5. CASE q = NoStatement
    <2>1. live = {}
      BY <1>5, BoundsAssumption DEF NoStatement, Watched, Unbounded
    <2> HIDE DEF live
    <2>2. q' = NoStatement
      BY <1>1, <1>5, <2>1 DEF NoStatement
    <2> QED BY <2>2, IdleNext
  <1>6. CASE q # NoStatement
    <2> HIDE DEF live
    <2>1. q.todo # <<>> /\ q.op \notin {"none", "changes"} /\ ~Answered
      BY <1>1, <1>2, <1>6 DEF StatementType, Answered
    <2>2. q = [op |-> q.op, of |-> q.of, snap |-> q.snap, todo |-> q.todo, got |-> q.got,
               ever |-> q.ever, always |-> q.always]
      BY <1>2 DEF StatementType
    <2>3. q' = [op |-> q.op, of |-> q.of, snap |-> q.snap, todo |-> q.todo, got |-> q.got,
                ever |-> q.ever \cup live, always |-> q.always \cap live]
      BY <1>1, <2>2
    <2>4. /\ q'.op = q.op /\ q'.of = q.of /\ q'.snap = q.snap /\ q'.todo = q.todo
          /\ q'.got = q.got /\ q'.ever = q.ever \cup live /\ q'.always = q.always \cap live
      BY <2>3
    <2>5. 1..head \in SUBSET (1..head')
      BY <1>4
    <2>6. StatementType'
      <3>1. \A i \in 1..Len(q'.todo) : Scan(q.todo[i])'
        <4>1. \A i \in 1..Len(q.todo) : Scan(q.todo[i])
          BY <1>2 DEF StatementType
        <4> QED BY <2>4, <4>1 DEF Scan
      <3>2. q' = [op |-> q'.op, of |-> q'.of, snap |-> q'.snap, todo |-> q'.todo,
                  got |-> q'.got, ever |-> q'.ever, always |-> q'.always]
        BY <2>3, <2>4
      <3>3. /\ q'.op \in Statements /\ q'.todo \in Seq(Item)
            /\ q'.op \in DOMAIN Kind \cup {"stats", "prune"} => q'.snap \in (1..head') \cup {Unbounded}
            /\ q'.op \in {"inlined", "stats"} => q'.snap \in 1..head'
            /\ q'.op = "inlined" => q'.of \in Nat
            /\ q'.op = "prune" => q'.of \in Nat \X Nat
        BY <1>2, <2>4, <2>5 DEF StatementType
      <3> QED BY <2>1, <2>4, <3>1, <3>2, <3>3 DEF StatementType
    <2>7. BoundInv'
      <3>1. SUFFICES ASSUME Bound'
                     PROVE  (/\ q.got \subseteq Asked(shown[q.snap])
                             /\ Covered(shown[q.snap])
                             /\ \A i \in 1..Len(q.todo) : q.todo[i][1] = "inlined" =>
                                    \E g \in shown[q.snap] : g[1] = "table" /\ g[3] = q.of)'
        BY DEF BoundInv
      <3>2. q.op \in DOMAIN Kind /\ Steady(Kind[q.op]) /\ retainFrom' <= q.snap
            /\ q.snap \in 1..head'
        BY <2>4, <3>1 DEF Bound, Steady, SameLength
      <3>3. q.snap \in 1..head
        <4>1. q.snap \in (1..head) \cup {Unbounded}
          BY <1>2, <3>2 DEF StatementType
        <4> QED BY <1>4, <3>2, <4>1
      <3>4. Bound
        BY <1>4, <3>2, <3>3 DEF Bound
      <3>5. PICK F : F = shown[q.snap]
        OBVIOUS
      <3>6. /\ q.got \subseteq Asked(F) /\ Covered(F)
            /\ \A i \in 1..Len(q.todo) : q.todo[i][1] = "inlined" =>
                   \E g \in F : g[1] = "table" /\ g[3] = q.of
        BY <1>2, <3>4, <3>5 DEF BoundInv
      <3>7. shown'[q'.snap] = F
        BY <1>4, <2>4, <3>3, <3>5
      <3>8. q'.got \subseteq Asked(F)' /\ Covered(F)'
        BY <2>4, <3>6 DEF Asked, Covered, OnPath
      <3> QED BY <2>4, <3>6, <3>7, <3>8 DEF Asked, Covered
    <2>8. UnboundInv'
      <3>1. SUFFICES ASSUME q.op \in Listings, q.snap = Unbounded
                     PROVE  (/\ LiveFacts \subseteq q.ever /\ q.always \subseteq LiveFacts
                             /\ q.got \subseteq q.ever /\ Covered(q.always))'
        BY <2>4 DEF UnboundInv
      <3>2. live = LiveFacts'
        <4>1. CatType' /\ RowsInv' /\ head' <= Unbounded
          BY <1>3 DEF StoreInv, CatInv, TreeInv, Unbounded
        <4>2. Facts(rows', Unbounded) = LiveFacts'
          <5>1. \A s \in Nat : head' <= s => Facts(rows', s) = LiveFacts'
            BY <4>1, LiveAtNext DEF LiveFromHead
          <5> QED BY <1>4, <4>1, <5>1
        <4> QED BY <3>1, <4>2 DEF live, Watched
      <3>3. q.got \subseteq q.ever /\ Covered(q.always)
        BY <1>2, <3>1 DEF UnboundInv
      <3>4. PICK M, N : M = q.always /\ N = q'.always
        OBVIOUS
      <3>5. N \subseteq M
        BY <2>4, <3>4
      <3>6. Asked(N) \subseteq Asked(M)
        BY <3>1, <3>5, KindTable DEF Asked
      <3>7. Covered(N)
        BY <3>3, <3>4, <3>6 DEF Covered
      <3>8. Covered(N)'
        BY <2>4, <3>7 DEF Covered, Asked, OnPath
      <3>9. Covered(q.always)'
        BY <3>4, <3>8 DEF Covered, Asked
      <3> QED BY <2>4, <3>2, <3>3, <3>9
    <2>9. AnswerInv'
      <3>1. ~Answered'
        BY <2>1, <2>4 DEF Answered
      <3>2. ASSUME q.op = "stats"
            PROVE  /\ q.snap \in 1..head
                   /\ \A x \in q.got : x[2] >=
                        Cardinality({f \in shown[q.snap] : f[1] = "file" /\ f[2] = x[1]})
        BY <1>2, <3>2 DEF StatementType, AnswerInv
      <3>3. q.op = "stats" => shown'[q'.snap] = shown[q.snap]
        BY <1>4, <2>4, <3>2
      <3> QED BY <2>1, <2>4, <3>1, <3>2, <3>3 DEF AnswerInv
    <2> QED BY <2>6, <2>7, <2>8, <2>9 DEF QueryInv
  <1> QED BY <1>5, <1>6

\* A restart forgets the session and the statement.
LEMMA RestartStep ==
    ASSUME StoreInv, Restart
    PROVE  StoreInv' /\ QueryInv'
  <1>1. /\ q' = NoStatement /\ session' = <<>>
        /\ UNCHANGED <<rows, stats, head, version, shown, retainFrom, excised, offset, pos>>
    BY DEF Restart, NoSession, floor, sink
  <1>2. CatInv /\ SinkInv /\ TreeInv /\ FileInv /\ StatsInv /\ pos \in [Consumer -> Nat]
    BY DEF StoreInv, SinkInv
  <1>3. CatInv'
    <2>1. CatType' /\ SessionInv'
      BY <1>1, <1>2 DEF CatInv, CatType, SessionInv
    <2>2. RowsInv' /\ ShownInv'
      BY <1>1, <1>2 DEF CatInv, RowsInv, ShownInv, Tells
    <2> QED BY <2>1, <2>2 DEF CatInv
  <1>4. SinkInv'
    BY <1>1, <1>2, SinkKept
  <1>5. TreeInv' /\ FileInv' /\ StatsInv'
    BY <1>1, <1>2, StoreKept
  <1> QED BY <1>1, <1>3, <1>4, <1>5, IdleNext DEF StoreInv

-----------------------------------------------------------------------------
\* table_changes

\* The numbers of a list are given once, and each file has one.
LEMMA NumberedRows ==
    ASSUME CatInv, FileInv, NEW R \in SUBSET rows, \A r \in R : r.kind = "file"
    PROVE  /\ {x.row : x \in Numbered(R)} = {Fact(r) : r \in R}
           /\ \A x, y \in Numbered(R) : x.rowid = y.rowid => x = y
  <1> DEFINE S == {r.id : r \in R}
             s == InOrder(S)
             n == Len(s)
             files == [i \in 1..n |-> CHOOSE r \in R : r.id = s[i]]
  <1>1. rows \in SUBSET Row
    BY DEF CatInv, CatType
  <1>2. S \in SUBSET Nat /\ (\A x \in S : x <= MaxFiles) /\ MaxFiles \in Nat
    BY BoundsAssumption DEF CatInv, RowsInv, Good
  <1>3. /\ s \in Seq(S) /\ \A x \in S : \E i \in 1..n : s[i] = x
    <2> HIDE DEF S
    <2>1. IsFiniteSet(S)
      BY <1>2, FS_BoundedSetOfNaturals
    <2> QED BY <1>2, <2>1, InOrderLists
  <1>4. Numbered(R) = {[rowid |-> i - 1, row |-> Fact(files[i])] : i \in 1..n}
    BY DEF Numbered, FileRows
  <1> HIDE DEF s
  <1>5. n \in Nat /\ \A i \in 1..n : s[i] \in S
    <2> HIDE DEF S
    <2> QED BY <1>3, LenProperties, ElementOfSeq
  <1> HIDE DEF n
  <1>6. \A i \in 1..n : files[i] \in R /\ files[i].id = s[i]
    <2>1. \A i \in 1..n : \E r \in R : r.id = s[i]
      BY <1>5
    <2> QED BY <2>1
  <1>7. \A r \in R : \E i \in 1..n : files[i] = r
    <2> TAKE r \in R
    <2>1. r.id \in S
      OBVIOUS
    <2>2. PICK i \in 1..n : s[i] = r.id
      BY <1>3, <2>1 DEF n
    <2>3. files[i] \in rows /\ files[i].kind = "file" /\ files[i].id = r.id
      BY <1>6, <2>2
    <2>4. files[i] = r
      <3> HIDE DEF files
      <3> QED BY <2>3 DEF FileInv
    <2> QED BY <2>4
  <1> HIDE DEF files
  <1>8. {x.row : x \in Numbered(R)} = {Fact(files[i]) : i \in 1..n}
    <2>1. \A i \in 1..n : [rowid |-> i - 1, row |-> Fact(files[i])].row = Fact(files[i])
      OBVIOUS
    <2>2. \A x \in Numbered(R) : \E i \in 1..n : x.row = Fact(files[i])
      BY <1>4, <2>1
    <2>3. \A i \in 1..n : \E x \in Numbered(R) : x.row = Fact(files[i])
      BY <1>4, <2>1
    <2> QED BY <2>2, <2>3
  <1>9. {Fact(files[i]) : i \in 1..n} = {Fact(r) : r \in R}
    BY <1>6, <1>7
  <1>10. ASSUME NEW x \in Numbered(R), NEW y \in Numbered(R), x.rowid = y.rowid
         PROVE  x = y
    <2>1. PICK i \in 1..n : x = [rowid |-> i - 1, row |-> Fact(files[i])]
      BY <1>4
    <2>2. PICK j \in 1..n : y = [rowid |-> j - 1, row |-> Fact(files[j])]
      BY <1>4
    <2>3. i = j
      BY <1>5, <1>10, <2>1, <2>2
    <2> QED BY <2>1, <2>2, <2>3
  <1> QED BY <1>8, <1>9, <1>10

\* However the numbers of the two lists meet, each row has one image.
LEMMA ChangeImages ==
    ASSUME NEW A, NEW B,
           \A x, y \in A : x.rowid = y.rowid => x = y,
           \A x, y \in B : x.rowid = y.rowid => x = y
    PROVE  /\ {c.row : c \in {x \in TableChanges(A, B) : x.type \in {"insert", "update_postimage"}}}
                  = {a.row : a \in A}
           /\ {c.row : c \in {x \in TableChanges(A, B) : x.type \in {"delete", "update_preimage"}}}
                  = {b.row : b \in B}
  <1> DEFINE both == {a.rowid : a \in A} \cap {b.rowid : b \in B}
             By(X, i) == CHOOSE x \in X : x.rowid = i
             P1 == {[type |-> "update_preimage", row |-> By(B, i).row] : i \in both}
             P2 == {[type |-> "update_postimage", row |-> By(A, i).row] : i \in both}
             P3 == {[type |-> "insert", row |-> a.row] : a \in {x \in A : x.rowid \notin both}}
             P4 == {[type |-> "delete", row |-> b.row] : b \in {x \in B : x.rowid \notin both}}
             C == TableChanges(A, B)
  <1>1. C = P1 \cup P2 \cup P3 \cup P4
    BY DEF TableChanges
  <1>2. \A i \in both : By(A, i) \in A /\ By(A, i).rowid = i /\ By(B, i) \in B /\ By(B, i).rowid = i
    <2>1. \A i \in both : (\E x \in A : x.rowid = i) /\ (\E x \in B : x.rowid = i)
      OBVIOUS
    <2> QED BY <2>1
  <1>3. \A a \in A : a.rowid \in both => By(A, a.rowid) = a
    BY <1>2
  <1>4. \A b \in B : b.rowid \in both => By(B, b.rowid) = b
    BY <1>2
  <1>5. /\ \A c \in P1 : c.type = "update_preimage" /\ \E b \in B : c.row = b.row
        /\ \A c \in P2 : c.type = "update_postimage" /\ \E a \in A : c.row = a.row
        /\ \A c \in P3 : c.type = "insert" /\ \E a \in A : c.row = a.row
        /\ \A c \in P4 : c.type = "delete" /\ \E b \in B : c.row = b.row
    <2> HIDE DEF both, By
    <2> QED BY <1>2
  <1>6. \A a \in A : \E c \in P2 \cup P3 : c.row = a.row
    <2> TAKE a \in A
    <2>1. CASE a.rowid \in both
      <3> DEFINE c == [type |-> "update_postimage", row |-> By(A, a.rowid).row]
      <3>1. c \in P2 /\ c.row = By(A, a.rowid).row
        BY <2>1
      <3> HIDE DEF c, P2, By, both
      <3> QED BY <1>3, <2>1, <3>1
    <2>2. CASE a.rowid \notin both
      <3> DEFINE c == [type |-> "insert", row |-> a.row]
      <3>1. c \in P3 /\ c.row = a.row
        BY <2>2
      <3> HIDE DEF c, P3, both
      <3> QED BY <3>1
    <2> QED BY <2>1, <2>2
  <1>7. \A b \in B : \E c \in P1 \cup P4 : c.row = b.row
    <2> TAKE b \in B
    <2>1. CASE b.rowid \in both
      <3> DEFINE c == [type |-> "update_preimage", row |-> By(B, b.rowid).row]
      <3>1. c \in P1 /\ c.row = By(B, b.rowid).row
        BY <2>1
      <3> HIDE DEF c, P1, By, both
      <3> QED BY <1>4, <2>1, <3>1
    <2>2. CASE b.rowid \notin both
      <3> DEFINE c == [type |-> "delete", row |-> b.row]
      <3>1. c \in P4 /\ c.row = b.row
        BY <2>2
      <3> HIDE DEF c, P4, both
      <3> QED BY <3>1
    <2> QED BY <2>1, <2>2
  <1> HIDE DEF P1, P2, P3, P4, C
  <1>8. {x \in C : x.type \in {"insert", "update_postimage"}} = P2 \cup P3
    BY <1>1, <1>5
  <1>9. {x \in C : x.type \in {"delete", "update_preimage"}} = P1 \cup P4
    BY <1>1, <1>5
  <1>10. {c.row : c \in P2 \cup P3} = {a.row : a \in A}
    <2>1. \A c \in P2 \cup P3 : \E a \in A : c.row = a.row
      BY <1>5
    <2> QED BY <1>6, <2>1
  <1>11. {c.row : c \in P1 \cup P4} = {b.row : b \in B}
    <2>1. \A c \in P1 \cup P4 : \E b \in B : c.row = b.row
      BY <1>5
    <2> QED BY <1>7, <2>1
  <1>12. {c.row : c \in {x \in C : x.type \in {"insert", "update_postimage"}}} = {a.row : a \in A}
    BY <1>8, <1>10
  <1>13. {c.row : c \in {x \in C : x.type \in {"delete", "update_preimage"}}} = {b.row : b \in B}
    BY <1>9, <1>11
  <1> QED BY <1>12, <1>13 DEF C

\* The rows that begin after one snapshot and up to another are what came, and
\* the rows that end are what went, as long as nothing of it was excised.
LEMMA DiffExact ==
    ASSUME CatInv, NEW start \in 1..head, NEW end \in 1..head, start <= end, excised <= start
    PROVE  /\ {Fact(r) : r \in AddedFiles(start, end)} =
                  UNION {Comes(shown[s], shown[s + 1]) : s \in start..(end - 1)}
           /\ {Fact(r) : r \in RemovedFiles(start, end)} =
                  UNION {Comes(shown[s + 1], shown[s]) : s \in start..(end - 1)}
  <1>1. /\ head \in Nat /\ start \in Nat /\ end \in Nat /\ excised \in Nat /\ start >= 1
        /\ rows \in SUBSET Row
    BY DEF CatInv, CatType
  <1>2. \A r \in rows : /\ r.begin \in Nat /\ r.end \in Nat /\ r.begin <= head
                        /\ r.end = 0 \/ (r.begin < r.end /\ r.end <= head)
                        /\ Fact(r)[1] = r.kind /\ Fact(r)[4] = r.begin
    BY <1>1, FactParts DEF CatInv, RowsInv, Row, NoEnd
  <1>3. \A r, x \in rows : Fact(r) = Fact(x) => r = x
    BY DEF CatInv, RowsInv
  <1>4. ASSUME NEW s \in start..end
        PROVE  /\ \A r \in rows : r.kind = "file" /\ Visible(r, s) => Fact(r) \in shown[s]
               /\ \A f \in shown[s] : f[1] = "file" => \E r \in rows : Visible(r, s) /\ Fact(r) = f
    <2>1. s \in 1..head /\ excised <= s
      BY <1>1
    <2>2. Tells(s)
      BY <2>1 DEF CatInv, ShownInv
    <2> QED BY <2>2 DEF Tells, Steady
  <1>5. ASSUME NEW r \in rows, NEW s \in start..end, r.kind = "file"
        PROVE  Fact(r) \in shown[s] <=> Visible(r, s)
    <2>1. ASSUME Fact(r) \in shown[s]
          PROVE  Visible(r, s)
      <3>1. PICK x \in rows : Visible(x, s) /\ Fact(x) = Fact(r)
        BY <1>2, <1>4, <1>5, <2>1
      <3> QED BY <1>3, <3>1
    <2> QED BY <1>4, <1>5, <2>1
  <1>6. ASSUME NEW s \in start..(end - 1)
        PROVE  s \in start..end /\ s + 1 \in start..end /\ s \in Nat
    BY <1>1
  <1>7. ASSUME NEW r \in AddedFiles(start, end)
        PROVE  \E s \in start..(end - 1) : Fact(r) \in Comes(shown[s], shown[s + 1])
    <2> DEFINE s == r.begin - 1
    <2>1. r \in rows /\ r.kind = "file" /\ start < r.begin /\ r.begin <= end
      BY DEF AddedFiles, Added
    <2>2. s \in start..(end - 1) /\ s + 1 = r.begin /\ s \in Nat
      BY <1>1, <1>2, <2>1
    <2> HIDE DEF s
    <2>3. Visible(r, s + 1) /\ ~Visible(r, s)
      BY <1>2, <2>1, <2>2 DEF Visible, NoEnd
    <2>4. Fact(r) \in shown[s + 1] /\ Fact(r) \notin shown[s]
      BY <1>5, <1>6, <2>1, <2>2, <2>3
    <2>5. Fact(r) \in Comes(shown[s], shown[s + 1])
      BY <1>2, <2>1, <2>4 DEF Comes
    <2> QED BY <2>2, <2>5
  <1>8. ASSUME NEW s \in start..(end - 1), NEW f \in Comes(shown[s], shown[s + 1])
        PROVE  \E r \in AddedFiles(start, end) : Fact(r) = f
    <2>1. f \in shown[s + 1] /\ f \notin shown[s] /\ f[1] = "file"
      BY DEF Comes
    <2>2. PICK r \in rows : Visible(r, s + 1) /\ Fact(r) = f
      BY <1>4, <1>6, <2>1
    <2>3. r.kind = "file"
      BY <1>2, <2>1, <2>2
    <2>4. ~Visible(r, s)
      BY <1>5, <1>6, <2>1, <2>2, <2>3
    <2>5. r.begin = s + 1
      BY <1>2, <1>6, <2>2, <2>4 DEF Visible, NoEnd
    <2>6. r \in AddedFiles(start, end)
      BY <1>1, <1>6, <2>3, <2>5 DEF AddedFiles, Added, Tailed
    <2> QED BY <2>2, <2>6
  <1>9. ASSUME NEW r \in RemovedFiles(start, end)
        PROVE  \E s \in start..(end - 1) : Fact(r) \in Comes(shown[s + 1], shown[s])
    <2> DEFINE s == r.end - 1
    <2>1. r \in rows /\ r.kind = "file" /\ start < r.end /\ r.end <= end /\ r.end # 0
      BY DEF RemovedFiles, Removed, Live, NoEnd
    <2>2. s \in start..(end - 1) /\ s + 1 = r.end /\ s \in Nat
      BY <1>1, <1>2, <2>1
    <2> HIDE DEF s
    <2>3. ~Visible(r, s + 1) /\ Visible(r, s)
      BY <1>2, <2>1, <2>2 DEF Visible, NoEnd
    <2>4. Fact(r) \notin shown[s + 1] /\ Fact(r) \in shown[s]
      BY <1>5, <1>6, <2>1, <2>2, <2>3
    <2>5. Fact(r) \in Comes(shown[s + 1], shown[s])
      BY <1>2, <2>1, <2>4 DEF Comes
    <2> QED BY <2>2, <2>5
  <1>10. ASSUME NEW s \in start..(end - 1), NEW f \in Comes(shown[s + 1], shown[s])
         PROVE  \E r \in RemovedFiles(start, end) : Fact(r) = f
    <2>1. f \in shown[s] /\ f \notin shown[s + 1] /\ f[1] = "file"
      BY DEF Comes
    <2>2. PICK r \in rows : Visible(r, s) /\ Fact(r) = f
      BY <1>4, <1>6, <2>1
    <2>3. r.kind = "file"
      BY <1>2, <2>1, <2>2
    <2>4. ~Visible(r, s + 1)
      BY <1>5, <1>6, <2>1, <2>2, <2>3
    <2>5. r.end = s + 1
      BY <1>2, <1>6, <2>2, <2>4 DEF Visible, NoEnd
    <2>6. r \in RemovedFiles(start, end)
      BY <1>1, <1>6, <2>3, <2>5 DEF RemovedFiles, Removed, Tailed, Live, NoEnd
    <2> QED BY <2>2, <2>6
  <1> QED BY <1>7, <1>8, <1>9, <1>10

\* table_changes answers at once, from the rows that begin or end in between.
LEMMA ChangesStep ==
    ASSUME StoreInv, NEW end \in 1..head, NEW start \in 1..end, SelectTableChanges(start, end)
    PROVE  QueryInv'
  <1>1. CatInv /\ FileInv
    BY DEF StoreInv
  <1>2. head \in Nat /\ retainFrom \in Nat /\ excised \in Nat /\ excised <= retainFrom
    BY <1>1 DEF CatInv, CatType
  <1>3. start \in 1..head /\ start <= end /\ excised <= start
    BY <1>2 DEF SelectTableChanges
  <1> DEFINE A == Numbered(AddedFiles(start, end))
             B == Numbered(RemovedFiles(start, end))
             C == TableChanges(A, B)
             images(types) == {c.row : c \in {x \in C : x.type \in types}}
  <1>4. /\ {x.row : x \in A} = {Fact(r) : r \in AddedFiles(start, end)}
        /\ \A x, y \in A : x.rowid = y.rowid => x = y
    <2>1. AddedFiles(start, end) \in SUBSET rows /\ \A r \in AddedFiles(start, end) : r.kind = "file"
      BY DEF AddedFiles, Added
    <2> QED BY <1>1, <2>1, NumberedRows
  <1>5. /\ {x.row : x \in B} = {Fact(r) : r \in RemovedFiles(start, end)}
        /\ \A x, y \in B : x.rowid = y.rowid => x = y
    <2>1. RemovedFiles(start, end) \in SUBSET rows /\ \A r \in RemovedFiles(start, end) : r.kind = "file"
      BY DEF RemovedFiles, Removed
    <2> QED BY <1>1, <2>1, NumberedRows
  <1>6. /\ q' = [NoStatement EXCEPT !.op = "changes", !.of = <<start, end>>, !.got = C]
        /\ UNCHANGED <<head, shown>>
    BY DEF SelectTableChanges, feeds, store
  <1>7. /\ images({"insert", "update_postimage"}) = {x.row : x \in A}
        /\ images({"delete", "update_preimage"}) = {x.row : x \in B}
    <2>1. PICK X, Y : X = A /\ Y = B
      OBVIOUS
    <2> HIDE DEF A, B
    <2>2. /\ \A x, y \in X : x.rowid = y.rowid => x = y
          /\ \A x, y \in Y : x.rowid = y.rowid => x = y
      BY <1>4, <1>5, <2>1
    <2>3. /\ {c.row : c \in {x \in TableChanges(X, Y) : x.type \in {"insert", "update_postimage"}}}
                 = {a.row : a \in X}
          /\ {c.row : c \in {x \in TableChanges(X, Y) : x.type \in {"delete", "update_preimage"}}}
                 = {b.row : b \in Y}
      BY <2>2, ChangeImages
    <2>4. C = TableChanges(X, Y)
      BY <2>1
    <2> HIDE DEF C
    <2> QED BY <2>1, <2>3, <2>4
  <1>8. /\ images({"insert", "update_postimage"}) =
               UNION {Comes(shown[s], shown[s + 1]) : s \in start..(end - 1)}
        /\ images({"delete", "update_preimage"}) =
               UNION {Comes(shown[s + 1], shown[s]) : s \in start..(end - 1)}
    <2> HIDE DEF A, B, C
    <2> QED BY <1>1, <1>3, <1>4, <1>5, <1>7, DiffExact
  <1> HIDE DEF C
  <1>9. /\ q' = [op |-> "changes", of |-> <<start, end>>, snap |-> 0, todo |-> <<>>, got |-> C,
                 ever |-> {}, always |-> {}]
    BY <1>6 DEF NoStatement
  <1>10. /\ q'.op = "changes" /\ q'.of = <<start, end>> /\ q'.todo = <<>> /\ q'.got = C
         /\ q'.snap = 0 /\ q'.ever = {} /\ q'.always = {}
    BY <1>9
  <1>11. StatementType'
    <2>1. q' = [op |-> q'.op, of |-> q'.of, snap |-> q'.snap, todo |-> q'.todo, got |-> q'.got,
                ever |-> q'.ever, always |-> q'.always]
      BY <1>9, <1>10
    <2>2. q'.todo \in Seq(Item) /\ \A i \in 1..Len(q'.todo) : Scan(q.todo[i])'
      BY <1>10
    <2> QED BY <1>10, <2>1, <2>2, KindTable DEF StatementType, Statements
  <1>12. BoundInv' /\ UnboundInv'
    BY <1>10, KindTable DEF BoundInv, Bound, UnboundInv
  <1>13. ChangesExact'
    <2>1. q'.of[1] = start /\ q'.of[2] = end
      BY <1>10
    <2>2. /\ {c.row : c \in {x \in q'.got : x.type \in {"insert", "update_postimage"}}} =
                 UNION {Comes(shown'[s], shown'[s + 1]) : s \in start..(end - 1)}
          /\ {c.row : c \in {x \in q'.got : x.type \in {"delete", "update_preimage"}}} =
                 UNION {Comes(shown'[s + 1], shown'[s]) : s \in start..(end - 1)}
      <3>1. shown' = shown /\ q'.got = C
        BY <1>6, <1>10
      <3>2. /\ UNION {Comes(shown'[s], shown'[s + 1]) : s \in start..(end - 1)} =
                   UNION {Comes(shown[s], shown[s + 1]) : s \in start..(end - 1)}
            /\ UNION {Comes(shown'[s + 1], shown'[s]) : s \in start..(end - 1)} =
                   UNION {Comes(shown[s + 1], shown[s]) : s \in start..(end - 1)}
        BY <3>1
      <3> QED BY <1>8, <3>1, <3>2
    <2> QED BY <2>1, <2>2 DEF ChangesExact
  <1>14. AnswerInv'
    <2>1. /\ q'.of \in (1..head') \X (1..head') /\ q'.of[1] <= q'.of[2]
      BY <1>3, <1>6, <1>10
    <2> QED BY <1>10, <1>13, <2>1 DEF AnswerInv
  <1> QED BY <1>11, <1>12, <1>14 DEF QueryInv

-----------------------------------------------------------------------------
\* The statements and the catalog together

\* The invariant holds in a new catalog.
LEMMA QueryInit == Init => IInvQuery
  <1> SUFFICES ASSUME Init PROVE IInvQuery
    OBVIOUS
  <1>1. InitFeeds /\ q = NoStatement
    BY DEF Init
  <1>2. CatInv /\ SinkInv
    BY <1>1, InitInv DEF IInvFeeds
  <1> DEFINE first == Facts({Bootstrap}, 1)
  <1>3. /\ head = 1 /\ session = <<>> /\ rows = {Bootstrap} /\ shown = <<first>>
        /\ stats = [ranges |-> {}, counts |-> [t \in 1..MaxTables |-> 0]]
    BY <1>1 DEF InitFeeds, NoSession
  <1>4. /\ Bootstrap.kind = "schema" /\ Bootstrap.id = 1 /\ Live(Bootstrap)
        /\ Visible(Bootstrap, 1) /\ Fact(Bootstrap)[1] = "schema"
    BY DEF Bootstrap, Live, Visible, NoEnd, Fact
  <1>5. first = {Fact(Bootstrap)} /\ LiveFacts = {Fact(Bootstrap)}
    BY <1>3, <1>4 DEF Facts, LiveFacts
  <1> HIDE DEF first
  <1>6. shown[1] = {Fact(Bootstrap)} /\ 1..head = {1} /\ Past = {Fact(Bootstrap)}
    <2>1. shown[1] = {Fact(Bootstrap)} /\ 1..head = {1}
      BY <1>3, <1>5
    <2> QED BY <2>1 DEF Past
  <1>7. Tree({Fact(Bootstrap)})
    BY <1>4 DEF Tree
  <1>8. TreeInv
    <2>1. head <= Unbounded
      BY <1>3, BoundsAssumption DEF Unbounded
    <2> QED BY <1>3, <1>4, <1>5, <1>6, <1>7, <2>1 DEF TreeInv
  <1>9. FileIds = {}
    BY <1>4, <1>6 DEF FileIds
  <1>10. FileInv
    <2>1. NextId("file") = 1 /\ 1..0 = {}
      <3>1. NextId("file") = 1 + Cardinality(FileIds)
        BY <1>2, FileIdsType
      <3> QED BY <1>9, <3>1, FS_EmptySet
    <2> QED BY <1>3, <1>4, <1>9, <2>1 DEF FileInv
  <1>11. StatsInv
    <2>1. Coming = {}
      BY <1>3 DEF Coming
    <2>2. \A t \in 1..MaxTables : FilesOf(t) = {}
      BY <1>4, <1>6, <2>1 DEF FilesOf
    <2>3. IsFiniteSet({}) /\ Cardinality({}) = 0
      BY FS_EmptySet
    <2>4. stats.ranges = {} /\ stats.counts = [t \in 1..MaxTables |-> 0]
      BY <1>3
    <2>5. stats \in [ranges : SUBSET FileRange, counts : [1..MaxTables -> Nat]]
      BY <1>3
    <2>6. \A f \in Past \cup Coming : f[1] # "file"
      BY <1>4, <1>6, <2>1
    <2>7. ASSUME NEW t \in 1..MaxTables
          PROVE  IsFiniteSet(FilesOf(t)) /\ Cardinality(FilesOf(t)) <= stats.counts[t]
      <3>1. FilesOf(t) = {} /\ stats.counts[t] = 0
        BY <2>2, <2>4
      <3> QED BY <2>3, <3>1
    <2> QED BY <2>5, <2>6, <2>7 DEF StatsInv
  <1> QED BY <1>1, <1>2, <1>8, <1>10, <1>11, Idle DEF IInvQuery, StoreInv

\* Statements leave the store as it is.
LEMMA StoreUnchanged ==
    ASSUME StoreInv, UNCHANGED feeds
    PROVE  StoreInv'
  <1>1. UNCHANGED <<rows, stats, head, version, session, shown, retainFrom, excised, offset, pos>>
    BY DEF feeds, store, floor, sink
  <1>2. CatInv /\ SinkInv /\ TreeInv /\ FileInv /\ StatsInv /\ pos \in [Consumer -> Nat]
    BY DEF StoreInv, SinkInv
  <1>3. CatInv' /\ SinkInv'
    BY <1>1, <1>2, CatKept, SinkKept
  <1>4. TreeInv' /\ FileInv' /\ StatsInv'
    BY <1>1, <1>2, StoreKept
  <1> QED BY <1>3, <1>4 DEF StoreInv

\* Steps that leave the catalog and the statement as they are.
LEMMA QueryKept ==
    ASSUME QueryInv, UNCHANGED <<rows, head, shown, retainFrom, q>>
    PROVE  QueryInv'
  <1>1. StatementType'
    BY DEF QueryInv, StatementType, Scan
  <1>2. BoundInv'
    BY DEF QueryInv, BoundInv, Bound, Covered, Asked, OnPath
  <1>3. UnboundInv'
    BY DEF QueryInv, UnboundInv, LiveFacts, Covered, Asked, OnPath
  <1>4. AnswerInv'
    <2>1. AnswerInv /\ q' = q /\ shown' = shown /\ head' = head /\ (Answered' <=> Answered)
      BY DEF QueryInv, Answered
    <2>2. q.op = "changes" => ChangesExact'
      <3>1. SUFFICES ASSUME q.op = "changes" PROVE ChangesExact'
        OBVIOUS
      <3>2. ChangesExact
        BY <2>1, <3>1 DEF AnswerInv
      <3>3. PICK h, p : h = shown /\ p = q
        OBVIOUS
      <3>4. h = shown' /\ p = q'
        BY <2>1, <3>3
      <3> QED BY <3>2, <3>3, <3>4 DEF ChangesExact
    <2>3. q.op = "stats" =>
              \A x \in q'.got : x[2] >=
                  Cardinality({f \in shown'[q'.snap] : f[1] = "file" /\ f[2] = x[1]})
      BY <2>1 DEF AnswerInv
    <2>4. q.op = "prune" /\ Answered /\ q.snap \in 1..head =>
              \A f \in shown'[q'.snap] :
                  f[1] = "file" /\ f[2] = q'.of[1] /\ f[5] = q'.of[2] => f[3] \in q'.got
      BY <2>1 DEF AnswerInv
    <2>5. q.op = "changes" => q'.of \in (1..head') \X (1..head') /\ q'.of[1] <= q'.of[2]
      BY <2>1 DEF AnswerInv
    <2> QED BY <2>1, <2>2, <2>3, <2>4, <2>5 DEF AnswerInv
  <1> QED BY <1>1, <1>2, <1>3, <1>4 DEF QueryInv

\* Every step of the catalog or of the statement preserves the invariant.
LEMMA QueryStep == IInvQuery /\ [Next]_vars => IInvQuery'
  <1> SUFFICES ASSUME IInvQuery, [Next]_vars PROVE IInvQuery'
    OBVIOUS
  <1>1. StoreInv /\ QueryInv /\ head \in Nat /\ head \in 1..head
    BY DEF IInvQuery, StoreInv, CatInv, CatType
  <1>2. MaxTables \in Nat
    BY BoundsAssumption
  <1>3. ASSUME NEW snap \in (1..head) \cup {Unbounded}, NEW op \in Listings,
               NEW of \in 0..MaxTables, AskListing(op, of, snap)
        PROVE  IInvQuery'
    <2>1. /\ Ask(op, of, snap) /\ (op = "schemas" => of = All)
          /\ (op = "tables" => of \in {All, 1}) /\ of \in Nat
      BY <1>2, <1>3 DEF AskListing
    <2>2. UNCHANGED feeds
      BY <2>1 DEF Ask
    <2> QED BY <1>1, <2>1, <2>2, AskStep, StoreUnchanged DEF IInvQuery
  <1>4. ASSUME NEW snap \in (1..head) \cup {Unbounded}, NEW t \in 1..MaxTables, NEW v \in Value,
               AskPrune(t, v, snap)
        PROVE  IInvQuery'
    <2>1. Ask("prune", <<t, v>>, snap) /\ <<t, v>> \in Nat \X Nat
      BY <1>2, <1>4, ValueAssumption DEF AskPrune
    <2>2. UNCHANGED feeds
      BY <2>1 DEF Ask
    <2>3. QueryInv'
      BY <1>1, <2>1, AskStep
    <2> QED BY <1>1, <2>2, <2>3, StoreUnchanged DEF IInvQuery
  <1>5. ASSUME NEW t \in 1..MaxTables, AskInlined(t)
        PROVE  IInvQuery'
    <2>1. Ask("inlined", t, head) /\ t \in Nat
      BY <1>2, <1>5 DEF AskInlined
    <2>2. UNCHANGED feeds
      BY <2>1 DEF Ask
    <2>3. PICK snap \in 1..head : snap = head
      BY <1>1
    <2>4. Ask("inlined", t, snap)
      BY <2>1, <2>3
    <2>5. QueryInv'
      BY <1>1, <2>1, <2>4, AskStep
    <2> QED BY <1>1, <2>2, <2>5, StoreUnchanged DEF IInvQuery
  <1>6. CASE AskStats
    <2>1. PICK snap \in 1..head : snap = head
      BY <1>1
    <2>2. Ask("stats", All, snap)
      BY <1>6, <2>1 DEF AskStats
    <2>3. UNCHANGED feeds
      BY <2>2 DEF Ask
    <2>4. QueryInv'
      BY <1>1, <2>2, AskStep
    <2> QED BY <1>1, <2>3, <2>4, StoreUnchanged DEF IInvQuery
  <1>7. CASE \/ ScanSchemas \/ ScanTables \/ ScanTable \/ ScanColumns \/ ScanFiles
             \/ ScanInlined \/ ScanSnapshot \/ ScanTableStats \/ ScanFileStats
    <2>1. UNCHANGED feeds
      BY <1>7 DEF ScanSchemas, ScanTables, ScanTable, ScanColumns, ScanFiles, ScanInlined,
                  ScanSnapshot, ScanTableStats, ScanFileStats
    <2>2. QueryInv'
      BY <1>1, <1>7, SchemasScanned, TablesScanned, TableScanned, LeavesScanned,
         SnapshotScanned, CountsScanned, FileStatsScanned
    <2> QED BY <1>1, <2>1, <2>2, StoreUnchanged DEF IInvQuery
  <1>8. ASSUME NEW end \in 1..head, NEW start \in 1..end, SelectTableChanges(start, end)
        PROVE  IInvQuery'
    <2>1. UNCHANGED feeds
      BY <1>8 DEF SelectTableChanges
    <2> QED BY <1>1, <1>8, <2>1, ChangesStep, StoreUnchanged DEF IInvQuery
  <1>9. CASE Done
    <2>1. UNCHANGED feeds /\ q' = NoStatement
      BY <1>9 DEF Done
    <2> QED BY <1>1, <2>1, IdleNext, StoreUnchanged DEF IInvQuery
  <1>10. CASE Meanwhile
    <2>1. StoreInv'
      BY <1>1, <1>10, StoreMeanwhile DEF Meanwhile
    <2> QED BY <1>1, <1>10, <2>1, MeanwhileStep DEF IInvQuery
  <1>11. CASE Restart
    BY <1>1, <1>11, RestartStep DEF IInvQuery
  <1>12. CASE UNCHANGED vars
    <2>1. UNCHANGED <<rows, head, shown, retainFrom, q>> /\ UNCHANGED feeds
      BY <1>12 DEF vars, feeds, store, floor
    <2> QED BY <1>1, <2>1, QueryKept, StoreUnchanged DEF IInvQuery
  <1> QED BY <1>3, <1>4, <1>5, <1>6, <1>7, <1>8, <1>9, <1>10, <1>11, <1>12 DEF Next

\* The inductive invariant of the statements holds whatever the catalog does
\* between their scans.
THEOREM QueryInvariance == Spec => []IInvQuery
  BY QueryInit, QueryStep, PTL DEF Spec

\* Snapshot isolation of answers (BoundExact), of all statements that a snapshot
\* binds: SelectSchemas, SelectTables, SelectColumns and SelectDataFiles for every
\* stream, SelectInlinedRows for streams whose batches are of one length, since
\* uneven batches overwrite rows that a snapshot shows.
THEOREM AnswersAreOfTheirSnapshot ==
    Spec => []((SameLength \/ q.op # "inlined") => BoundExact)
  <1>1. IInvQuery => ((SameLength \/ q.op # "inlined") => BoundExact)
    <2> SUFFICES ASSUME IInvQuery, SameLength \/ q.op # "inlined",
                        q.op \in DOMAIN Kind, Answered, q.snap \in retainFrom..MaxSnapshots
                 PROVE  q.got = Asked(shown[q.snap])
      BY DEF BoundExact
    <2>1. BoundInv /\ StatementType /\ retainFrom \in Nat /\ head \in Nat
      BY DEF IInvQuery, QueryInv, StoreInv, CatInv, CatType
    <2>2. Bound
      <3>1. Steady(Kind[q.op])
        BY KindTable DEF Steady
      <3>2. q.snap \in (1..head) \cup {Unbounded}
        BY <2>1 DEF StatementType
      <3>3. retainFrom <= q.snap /\ q.snap # Unbounded
        BY <2>1, BoundsAssumption DEF Unbounded
      <3> QED BY <3>1, <3>2, <3>3 DEF Bound
    <2>3. q.got \subseteq Asked(shown[q.snap]) /\ Covered(shown[q.snap])
      BY <2>1, <2>2 DEF BoundInv
    <2>4. 1..Len(q.todo) = {}
      BY DEF Answered
    <2> QED BY <2>3, <2>4 DEF Covered
  <1> QED BY <1>1, QueryInvariance, PTL

\* What a listing read at u64::MAX answers (UnboundSound): every row that was live
\* all the time it ran, and none that was not live at some time.
THEOREM UnboundAnswersAreSound == Spec => []UnboundSound
  <1>1. IInvQuery => UnboundSound
    <2> SUFFICES ASSUME IInvQuery, q.op \in Listings, Answered, q.snap = Unbounded
                 PROVE  Asked(q.always) \subseteq q.got /\ q.got \subseteq q.ever
      BY DEF UnboundSound
    <2>1. q.got \subseteq q.ever /\ Covered(q.always)
      BY DEF IInvQuery, QueryInv, UnboundInv
    <2>2. 1..Len(q.todo) = {}
      BY DEF Answered
    <2> QED BY <2>1, <2>2 DEF Covered
  <1> QED BY <1>1, QueryInvariance, PTL

\* Statistics cover the snapshot of their statement (StatsCover): prune_files loses
\* no file with the value, and the record counts miss no file, through failed
\* transactions, which leave their statistics, and ids given anew.
THEOREM StatisticsCover == Spec => []StatsCover
  <1>1. IInvQuery => StatsCover
    <2> SUFFICES ASSUME IInvQuery PROVE StatsCover
      OBVIOUS
    <2>1. AnswerInv /\ StatementType
      BY DEF IInvQuery, QueryInv
    <2>2. q.op = "prune" /\ q.snap \in retainFrom..MaxSnapshots => q.snap \in 1..head
      <3>1. q.op = "prune" => q.snap \in (1..head) \cup {Unbounded}
        BY <2>1 DEF StatementType
      <3>2. retainFrom \in Nat
        BY DEF IInvQuery, StoreInv, CatInv, CatType
      <3> QED BY <3>1, <3>2, BoundsAssumption DEF Unbounded
    <2> QED BY <2>1, <2>2 DEF AnswerInv, StatsCover
  <1> QED BY <1>1, QueryInvariance, PTL

\* table_changes is exact (ChangesExact): one image for each row that came or went
\* between the two snapshots, however the row numbers of the two lists meet and
\* however much has been excised since.
THEOREM TableChangesAreExact == Spec => []ChangesExact
  <1>1. IInvQuery => ChangesExact
    <2>1. IInvQuery /\ q.op = "changes" => ChangesExact
      BY DEF IInvQuery, QueryInv, AnswerInv
    <2>2. q.op # "changes" => ChangesExact
      BY DEF ChangesExact
    <2> QED BY <2>1, <2>2
  <1> QED BY <1>1, QueryInvariance, PTL
=============================================================================
