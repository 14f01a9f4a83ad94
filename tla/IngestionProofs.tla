-------------------------- MODULE IngestionProofs --------------------------
(***************************************************************************)
(* For any number of ingesters, feeds and contents: the tables hold        *)
(* exactly the lines of the committed loads, a dedup_hash is in the hands  *)
(* of one load only, loading the same lines again changes nothing, and     *)
(* loads never wait for each other in a circle.                            *)
(***************************************************************************)
EXTENDS Ingestion, FiniteSetTheorems, FunctionTheorems, WellFoundedInduction, TLAPS

----------------------------------------------------------------------------
(***************************************************************************)
(* Lemmas about rows and about files.                                      *)
(***************************************************************************)

LEMMA RowShape ==
  ASSUME NEW name, NEW content, content \in Seq(Lines), NEW row \in RowsOf(name, content)
  PROVE  /\ row.table \in {"logs_raw", "rejected_records"}
         /\ row.batch = name
         /\ row.line_number \in Nat
BY DEF RowsOf, LogRowsOf, RejectRowsOf, LogRow, RejectRow

(* A file's rows are totally ordered by the order of the INSERTs.          *)
LEMMA RowsAreOrdered ==
  ASSUME NEW name, NEW content, content \in Seq(Lines),
         NEW a \in RowsOf(name, content), NEW b \in RowsOf(name, content), a # b
  PROVE  ComesBefore(a, b) \/ ComesBefore(b, a)
<1>1. CASE a \in LogRowsOf(name, content) /\ b \in LogRowsOf(name, content)
  <2>1. PICK m \in DOMAIN content : a = LogRow(name, m, content[m])
    BY <1>1 DEF LogRowsOf
  <2>2. PICK n \in DOMAIN content : b = LogRow(name, n, content[n])
    BY <1>1 DEF LogRowsOf
  <2>3. m # n /\ m \in Nat /\ n \in Nat
    BY <2>1, <2>2
  <2> QED
    BY <2>1, <2>2, <2>3 DEF LogRow, ComesBefore
<1>2. CASE a \in RejectRowsOf(name, content) /\ b \in RejectRowsOf(name, content)
  <2>1. PICK m \in DOMAIN content : a = RejectRow(name, m, content[m])
    BY <1>2 DEF RejectRowsOf
  <2>2. PICK n \in DOMAIN content : b = RejectRow(name, n, content[n])
    BY <1>2 DEF RejectRowsOf
  <2>3. m # n /\ m \in Nat /\ n \in Nat
    BY <2>1, <2>2
  <2> QED
    BY <2>1, <2>2, <2>3 DEF RejectRow, ComesBefore
<1>3. CASE a \in LogRowsOf(name, content) /\ b \in RejectRowsOf(name, content)
  BY <1>3 DEF LogRowsOf, LogRow, RejectRowsOf, RejectRow, ComesBefore
<1>4. CASE a \in RejectRowsOf(name, content) /\ b \in LogRowsOf(name, content)
  BY <1>4 DEF LogRowsOf, LogRow, RejectRowsOf, RejectRow, ComesBefore
<1> QED
  BY <1>1, <1>2, <1>3, <1>4 DEF RowsOf

LEMMA OrderIsStrict ==
  ASSUME NEW a, NEW b, NEW c,
         a.line_number \in Nat, b.line_number \in Nat, c.line_number \in Nat
  PROVE  /\ ~ComesBefore(a, a)
         /\ ComesBefore(a, b) /\ ComesBefore(b, c) => ComesBefore(a, c)
BY DEF ComesBefore

(* A file being written holds lines.                                       *)
LEMMA PrefixesAreLines ==
  ASSUME NEW content \in Contents, NEW part \in Prefixes(content)
  PROVE  part \in Seq(Lines)
<1>1. content \in Seq(Lines) /\ CutLine \in Lines
  BY IngestionAssumption DEF Lines
<1>2. PICK n \in 0..(Len(content) - 1) :
        \/ part = SubSeq(content, 1, n)
        \/ part = Append(SubSeq(content, 1, n), CutLine)
  BY DEF Prefixes
<1>3. SubSeq(content, 1, n) \in Seq(Lines)
  <2> HIDE DEF Lines
  <2> QED BY <1>1
<1> QED
  BY <1>1, <1>2, <1>3

(* A feed has finitely many rows.                                          *)
LEMMA RowsAreFinite ==
  ASSUME NEW name, NEW content, content \in Seq(Lines)
  PROVE  IsFiniteSet(RowsOf(name, content))
<1> DEFINE good == {m \in DOMAIN content : Accepted(content[m])}
           bad  == {m \in DOMAIN content : Rejected(content[m])}
           logRow    == [n \in good |-> LogRow(name, n, content[n])]
           rejectRow == [n \in bad |-> RejectRow(name, n, content[n])]
<1>1. IsFiniteSet(DOMAIN content)
  BY FS_Interval
<1>2. IsFiniteSet(good) /\ IsFiniteSet(bad)
  BY <1>1, FS_Subset
<1>3. IsFiniteSet(LogRowsOf(name, content))
  <2>1. logRow \in Surjection(good, LogRowsOf(name, content))
    BY DEF LogRowsOf, Surjection
  <2> QED
    BY <1>2, <2>1, FS_Surjection
<1>4. IsFiniteSet(RejectRowsOf(name, content))
  <2>1. rejectRow \in Surjection(bad, RejectRowsOf(name, content))
    BY DEF RejectRowsOf, Surjection
  <2> QED
    BY <1>2, <2>1, FS_Surjection
<1> QED
  BY <1>3, <1>4, FS_Union DEF RowsOf

----------------------------------------------------------------------------
(***************************************************************************)
(* The inductive invariant.                                                *)
(***************************************************************************)

(* An ingester that has opened a feed finds one, whoever rewrites it.      *)
FilesReadable ==
  /\ feeds \in [FeedNames -> Seq(Lines) \cup {None}]
  /\ pointer \in FeedNames \cup {None, Torn}
  /\ pointer \in FeedNames => feeds[pointer] \in Seq(Lines)
  /\ writer.stage \in {"idle", "feed", "manifest", "pointer"}
  /\ writer.stage # "idle" =>
       writer.name \in FeedNames /\ feeds[writer.name] \in Seq(Lines)
  /\ writer.stage = "feed" => writer.content \in Contents
  /\ pc \in [Ingesters -> {"idle", "opened", "loading", "raised"}]
  /\ feed \in [Ingesters -> FeedNames \cup {None}]
  /\ \A r \in Ingesters : pc[r] = "opened" =>
       feed[r] \in FeedNames /\ feeds[feed[r]] \in Seq(Lines)

Shape ==
  /\ DOMAIN lines = Ingesters   /\ lines = [r \in Ingesters |-> lines[r]]
  /\ DOMAIN pending = Ingesters /\ pending = [r \in Ingesters |-> pending[r]]
  /\ DOMAIN mine = Ingesters    /\ mine = [r \in Ingesters |-> mine[r]]

(* A load has dealt with its rows in order, up to those that are pending.  *)
LoadInvariant(r) ==
  IF pc[r] = "loading"
  THEN /\ lines[r] \in Seq(Lines)
       /\ pending[r] \cup mine[r] \subseteq RowsOf(feed[r], lines[r])
       /\ RowsOf(feed[r], lines[r]) \subseteq rows \cup mine[r] \cup pending[r]
       /\ \A a \in mine[r] : \A b \in pending[r] : ComesBefore(a, b)
  ELSE pending[r] = {} /\ mine[r] = {}

IInv ==
  /\ FilesReadable
  /\ Shape
  /\ TablesMatchFeeds
  /\ UniqueHashes
  /\ InsertedAddsUp
  /\ IsFiniteSet(rows)
  /\ \A r \in Ingesters : LoadInvariant(r)

LEMMA InitEstablishes == Init => IInv
BY IngestionAssumption, FS_EmptySet
   DEF Init, IInv, FilesReadable, Shape, TablesMatchFeeds, UniqueHashes, InsertedAddsUp,
       LoadInvariant

----------------------------------------------------------------------------
(***************************************************************************)
(* Steps that touch no table, and files remain readable.                   *)
(***************************************************************************)
LEMMA SimulatorPreserves ==
  ASSUME IInv, WriteFeed \/ FinishFeed \/ StartPointer \/ FinishPointer \/ SimulatorDies
  PROVE  IInv'
<1> USE DEF IInv
<1>1. UNCHANGED <<tableVars, loadVars>>
  BY DEF WriteFeed, FinishFeed, StartPointer, FinishPointer, SimulatorDies
<1>2. /\ Shape' /\ TablesMatchFeeds' /\ UniqueHashes' /\ InsertedAddsUp' /\ IsFiniteSet(rows')
      /\ \A r \in Ingesters : LoadInvariant(r)'
  BY <1>1 DEF tableVars, loadVars, Shape, TablesMatchFeeds, UniqueHashes, InsertedAddsUp,
              LoadInvariant, RowsOf, LogRowsOf, RejectRowsOf
<1>3. FilesReadable'
  <2>1. CASE WriteFeed
    <3>0. PICK name \in FeedNames, content \in Contents :
            /\ writer' = [stage |-> "feed", name |-> name, content |-> content]
            /\ \E part \in Prefixes(content) : feeds' = [feeds EXCEPT ![name] = part]
      BY <2>1 DEF WriteFeed
    <3>1. PICK part \in Prefixes(content) : feeds' = [feeds EXCEPT ![name] = part]
      BY <3>0
    <3>2. part \in Seq(Lines)
      BY PrefixesAreLines
    <3> HIDE DEF Lines
    <3>3. feeds' \in [FeedNames -> Seq(Lines) \cup {None}]
      BY <3>1, <3>2 DEF FilesReadable
    <3>4. \A n \in FeedNames : feeds[n] \in Seq(Lines) => feeds'[n] \in Seq(Lines)
      BY <3>1, <3>2 DEF FilesReadable
    <3>5. feeds'[name] \in Seq(Lines)
      BY <3>1, <3>2 DEF FilesReadable
    <3> QED
      BY <1>1, <2>1, <3>0, <3>3, <3>4, <3>5 DEF FilesReadable, WriteFeed, loadVars
  <2>2. CASE FinishFeed
    <3>1. writer.content \in Seq(Lines) /\ writer.name \in FeedNames
      BY <2>2, IngestionAssumption DEF FinishFeed, FilesReadable
    <3> HIDE DEF Lines
    <3>2. feeds' \in [FeedNames -> Seq(Lines) \cup {None}]
      BY <2>2, <3>1 DEF FilesReadable, FinishFeed
    <3>3. \A n \in FeedNames : feeds[n] \in Seq(Lines) => feeds'[n] \in Seq(Lines)
      BY <2>2, <3>1 DEF FilesReadable, FinishFeed
    <3> QED
      BY <1>1, <2>2, <3>1, <3>2, <3>3 DEF FilesReadable, FinishFeed, loadVars
  <2>3. CASE StartPointer
    BY <1>1, <2>3, IngestionAssumption DEF FilesReadable, StartPointer, loadVars
  <2>4. CASE FinishPointer
    BY <1>1, <2>4 DEF FilesReadable, FinishPointer, loadVars
  <2>5. CASE SimulatorDies
    BY <1>1, <2>5 DEF FilesReadable, SimulatorDies, loadVars
  <2> QED
    BY <2>1, <2>2, <2>3, <2>4, <2>5
<1> QED
  BY <1>2, <1>3

LEMMA OpenPreserves ==
  ASSUME IInv, NEW r \in Ingesters, OpenGiven(r) \/ ResolveLatest(r)
  PROVE  IInv'
<1> HIDE DEF Lines
<1> USE DEF IInv
<1>1. PICK name \in FeedNames : feeds[name] \in Seq(Lines) /\ OpenFeed(r, name)
  BY DEF OpenGiven, ResolveLatest, FilesReadable
<1>2. FilesReadable'
  BY <1>1 DEF FilesReadable, OpenFeed, fileVars
<1>3. /\ Shape' /\ TablesMatchFeeds' /\ UniqueHashes'
      /\ InsertedAddsUp' /\ IsFiniteSet(rows')
  BY <1>1 DEF Shape, TablesMatchFeeds, UniqueHashes, InsertedAddsUp, OpenFeed, tableVars,
              RowsOf, LogRowsOf, RejectRowsOf
<1>4. ASSUME NEW q \in Ingesters PROVE LoadInvariant(q)'
  <2>1. CASE q = r
    BY <1>1, <2>1 DEF LoadInvariant, OpenFeed, tableVars, FilesReadable
  <2>2. CASE q # r
    <3>1. /\ pc'[q] = pc[q] /\ feed'[q] = feed[q] /\ lines' = lines /\ rows' = rows
          /\ pending' = pending /\ mine' = mine
      BY <1>1, <2>2 DEF OpenFeed, tableVars, FilesReadable
    <3> QED
      BY <3>1 DEF LoadInvariant
  <2> QED
    BY <2>1, <2>2
<1> QED
  BY <1>2, <1>3, <1>4

(* Reading the file starts a transaction with all its rows to insert.      *)
LEMMA ReadPreserves ==
  ASSUME IInv, NEW r \in Ingesters, ReadFeed(r) \/ ReadFeedRaises(r)
  PROVE  IInv'
<1> HIDE DEF Lines
<1> USE DEF IInv
<1>1. /\ feed[r] \in FeedNames
      /\ feeds[feed[r]] \in Seq(Lines)
      /\ pending[r] = {}
      /\ mine[r] = {}
  BY DEF ReadFeed, ReadFeedRaises, FilesReadable, LoadInvariant
<1>2. UNCHANGED <<fileVars, tableVars, feed, mine>>
  BY DEF ReadFeed, ReadFeedRaises
<1>3. FilesReadable'
  BY <1>2 DEF FilesReadable, ReadFeed, ReadFeedRaises, fileVars
<1>4. /\ Shape' /\ TablesMatchFeeds' /\ UniqueHashes'
      /\ InsertedAddsUp' /\ IsFiniteSet(rows')
  BY <1>2 DEF Shape, TablesMatchFeeds, UniqueHashes, InsertedAddsUp, ReadFeed, ReadFeedRaises, tableVars,
              RowsOf, LogRowsOf, RejectRowsOf
<1>5. ASSUME NEW q \in Ingesters PROVE LoadInvariant(q)'
  <2>1. CASE q = r /\ ReadFeed(r)
    <3>1. /\ pc'[r] = "loading"
          /\ lines'[r] = feeds[feed[r]]
          /\ pending'[r] = RowsOf(feed[r], feeds[feed[r]])
      BY <2>1 DEF ReadFeed, FilesReadable, Shape
    <3> QED
      BY <1>1, <1>2, <2>1, <3>1 DEF LoadInvariant, RowsOf, LogRowsOf, RejectRowsOf
  <2>2. CASE q = r /\ ReadFeedRaises(r)
    BY <1>1, <1>2, <2>2 DEF LoadInvariant, ReadFeedRaises, FilesReadable
  <2>3. CASE q # r
    <3>1. /\ pc'[q] = pc[q] /\ feed' = feed /\ lines'[q] = lines[q] /\ rows' = rows
          /\ pending'[q] = pending[q] /\ mine' = mine
      BY <1>2, <2>3 DEF ReadFeed, ReadFeedRaises, tableVars, FilesReadable, Shape
    <3> QED
      BY <3>1 DEF LoadInvariant
  <2> QED
    BY <2>1, <2>2, <2>3
<1> QED
  BY <1>3, <1>4, <1>5

----------------------------------------------------------------------------
(***************************************************************************)
(* Steps of an open transaction.                                           *)
(***************************************************************************)
LEMMA InsertPreserves ==
  ASSUME IInv, NEW r \in Ingesters, InsertRow(r)
  PROVE  IInv'
<1> HIDE DEF Lines
<1> USE DEF IInv
<1>1. PICK row \in NextRows(r) :
        /\ ~HeldByOther(r, row)
        /\ pending' = [pending EXCEPT ![r] = @ \ {row}]
        /\ mine' = [mine EXCEPT ![r] = IF row \in rows THEN @ ELSE @ \cup {row}]
  BY DEF InsertRow
<1>2. UNCHANGED <<fileVars, tableVars, pc, feed, lines>> /\ pc[r] = "loading"
  BY DEF InsertRow
<1>3. /\ pending'[r] = pending[r] \ {row}
      /\ mine'[r] = IF row \in rows THEN mine[r] ELSE mine[r] \cup {row}
      /\ \A q \in Ingesters \ {r} : pending'[q] = pending[q] /\ mine'[q] = mine[q]
  BY <1>1 DEF Shape
<1>4. FilesReadable' /\ TablesMatchFeeds' /\ InsertedAddsUp' /\ IsFiniteSet(rows')
  BY <1>2 DEF FilesReadable, TablesMatchFeeds, InsertedAddsUp, fileVars, tableVars,
              RowsOf, LogRowsOf, RejectRowsOf
<1>5. Shape'
  BY <1>1, <1>2 DEF Shape
<1>6. UniqueHashes'
  BY <1>1, <1>2, <1>3 DEF UniqueHashes, HeldByOther, tableVars
<1>7. ASSUME NEW q \in Ingesters PROVE LoadInvariant(q)'
  <2>1. CASE q = r
    <3>1. row \in pending[r] /\ row \in RowsOf(feed[r], lines[r])
      BY <1>2 DEF NextRows, LoadInvariant
    <3>2. ASSUME NEW b \in pending[r], b # row PROVE ComesBefore(row, b)
      BY <1>2, <3>1, <3>2, RowsAreOrdered DEF NextRows, LoadInvariant
    <3>3. \A a \in mine'[r] : \A b \in pending'[r] : ComesBefore(a, b)
      BY <1>2, <1>3, <3>2 DEF LoadInvariant
    <3>4. RowsOf(feed[r], lines[r])' = RowsOf(feed[r], lines[r]) /\ rows' = rows
      BY <1>2 DEF RowsOf, LogRowsOf, RejectRowsOf, tableVars
    <3> QED
      BY <1>2, <1>3, <2>1, <3>1, <3>3, <3>4 DEF LoadInvariant
  <2>2. CASE q # r
    BY <1>2, <1>3, <2>2 DEF LoadInvariant, tableVars, RowsOf, LogRowsOf, RejectRowsOf
  <2> QED
    BY <2>1, <2>2
<1> QED
  BY <1>4, <1>5, <1>6, <1>7

(* A commit adds the rows that are called for and not there yet.           *)
LEMMA CommitPreserves ==
  ASSUME IInv, NEW r \in Ingesters, LogAndCommit(r)
  PROVE  IInv'
<1> HIDE DEF Lines
<1> USE DEF IInv
<1>1. /\ rows' = rows \cup mine[r]
      /\ ingested' = ingested \cup {<<feed[r], lines[r]>>}
      /\ UNCHANGED <<fileVars, feed, pending>>
      /\ pc[r] = "loading" /\ pending[r] = {}
      /\ pc'[r] = "idle" /\ mine'[r] = {}
      /\ \A q \in Ingesters \ {r} :
           pc'[q] = pc[q] /\ lines'[q] = lines[q] /\ mine'[q] = mine[q]
  BY DEF LogAndCommit, Shape, FilesReadable
<1>2. FilesReadable'
  BY <1>1 DEF FilesReadable, LogAndCommit, fileVars
<1>3. Shape'
  BY <1>1 DEF Shape, LogAndCommit
<1>4. rows' = rows \cup RowsOf(feed[r], lines[r])
  <2>1. mine[r] \subseteq RowsOf(feed[r], lines[r])
    BY <1>1 DEF LoadInvariant
  <2>2. RowsOf(feed[r], lines[r]) \subseteq rows \cup mine[r]
    BY <1>1 DEF LoadInvariant
  <2> QED
    BY <1>1, <2>1, <2>2
<1>5. TablesMatchFeeds'
  <2> DEFINE Entered(load) == RowsOf(load[1], load[2])
  <2>1. Entered(<<feed[r], lines[r]>>) = RowsOf(feed[r], lines[r])
    OBVIOUS
  <2> HIDE DEF Entered
  <2>2. UNION {Entered(load) : load \in ingested'}
          = (UNION {Entered(load) : load \in ingested}) \cup RowsOf(feed[r], lines[r])
    BY <1>1, <2>1
  <2> QED
    BY <1>4, <2>2 DEF TablesMatchFeeds, Entered
<1>6. UniqueHashes'
  BY <1>1 DEF UniqueHashes
<1>7. ASSUME NEW q \in Ingesters PROVE LoadInvariant(q)'
  <2>1. CASE q = r
    BY <1>1, <2>1 DEF LoadInvariant
  <2>2. CASE q # r
    <3>1. RowsOf(feed[q], lines[q])' = RowsOf(feed[q], lines[q])
      BY <1>1, <2>2 DEF RowsOf, LogRowsOf, RejectRowsOf
    <3> QED
      BY <1>1, <2>2, <3>1 DEF LoadInvariant
  <2> QED
    BY <2>1, <2>2
<1>8. InsertedAddsUp' /\ IsFiniteSet(rows')
  <2> DEFINE logRows == {row \in rows : row.table = "logs_raw"}
  <2>1. IsFiniteSet(mine[r])
    BY <1>1, RowsAreFinite, FS_Subset DEF LoadInvariant
  <2>2. IsFiniteSet(logRows) /\ IsFiniteSet(NewLogs(r))
    BY <2>1, FS_Subset DEF NewLogs
  <2>3. /\ logRows \cap NewLogs(r) = {}
        /\ {row \in rows' : row.table = "logs_raw"} = logRows \cup NewLogs(r)
    BY <1>1 DEF UniqueHashes, NewLogs
  <2>4. Cardinality(logRows \cup NewLogs(r)) = Cardinality(logRows) + Cardinality(NewLogs(r))
    <3>1. Cardinality(logRows \cap NewLogs(r)) = 0
      BY <2>3, FS_EmptySet
    <3> HIDE DEF logRows
    <3>2. Cardinality(logRows) \in Nat /\ Cardinality(NewLogs(r)) \in Nat
      BY <2>2, FS_CardinalityType
    <3>3. Cardinality(logRows \cup NewLogs(r))
            = Cardinality(logRows) + Cardinality(NewLogs(r))
                - Cardinality(logRows \cap NewLogs(r))
      BY <2>2, FS_Union
    <3> QED
      BY <3>1, <3>2, <3>3
  <2>5. inserted' = Cardinality(logRows) + Cardinality(NewLogs(r))
    BY DEF LogAndCommit, InsertedAddsUp
  <2>6. IsFiniteSet(rows')
    BY <1>1, <2>1, FS_Union
  <2> QED
    BY <2>3, <2>4, <2>5, <2>6 DEF InsertedAddsUp
<1> QED
  BY <1>2, <1>3, <1>5, <1>6, <1>7, <1>8

LEMMA DeathPreserves ==
  ASSUME IInv, NEW r \in Ingesters, IngesterDies(r)
  PROVE  IInv'
<1> HIDE DEF Lines
<1> USE DEF IInv
<1>1. /\ UNCHANGED <<fileVars, tableVars, feed>>
      /\ pc'[r] = "idle" /\ mine'[r] = {} /\ pending'[r] = {}
      /\ \A q \in Ingesters \ {r} : /\ pc'[q] = pc[q] /\ lines'[q] = lines[q]
                                    /\ mine'[q] = mine[q] /\ pending'[q] = pending[q]
  BY DEF IngesterDies, Shape, FilesReadable
<1>2. FilesReadable'
  BY <1>1 DEF FilesReadable, IngesterDies, fileVars
<1>3. Shape'
  BY <1>1 DEF Shape, IngesterDies
<1>4. TablesMatchFeeds' /\ UniqueHashes' /\ InsertedAddsUp' /\ IsFiniteSet(rows')
  BY <1>1 DEF TablesMatchFeeds, UniqueHashes, InsertedAddsUp, tableVars, RowsOf, LogRowsOf, RejectRowsOf
<1>5. ASSUME NEW q \in Ingesters PROVE LoadInvariant(q)'
  BY <1>1 DEF LoadInvariant, tableVars, RowsOf, LogRowsOf, RejectRowsOf
<1> QED
  BY <1>2, <1>3, <1>4, <1>5

LEMMA StutterPreserves ==
  ASSUME IInv, UNCHANGED vars
  PROVE  IInv'
<1>1. FilesReadable' /\ Shape'
  BY DEF vars, fileVars, tableVars, IInv, FilesReadable, Shape
<1>2. TablesMatchFeeds' /\ UniqueHashes' /\ InsertedAddsUp' /\ IsFiniteSet(rows')
  BY DEF vars, tableVars, IInv, TablesMatchFeeds, UniqueHashes, InsertedAddsUp,
         RowsOf, LogRowsOf, RejectRowsOf
<1>3. ASSUME NEW q \in Ingesters PROVE LoadInvariant(q)'
  BY DEF vars, tableVars, IInv, LoadInvariant, RowsOf, LogRowsOf, RejectRowsOf
<1> QED
  BY <1>1, <1>2, <1>3 DEF IInv

(* The invariant holds in every state of every behavior.                   *)
THEOREM LoadsInductive == Spec => []IInv
<1>1. IInv /\ [Next]_vars => IInv'
  <2> SUFFICES ASSUME IInv, [Next]_vars PROVE IInv'
    OBVIOUS
  <2>1. CASE WriteFeed \/ FinishFeed \/ StartPointer \/ FinishPointer \/ SimulatorDies
    BY <2>1, SimulatorPreserves
  <2>2. ASSUME NEW r \in Ingesters,
               OpenGiven(r) \/ ResolveLatest(r) \/ Load(r) \/ IngesterDies(r)
        PROVE  IInv'
    BY <2>2, OpenPreserves, ReadPreserves, InsertPreserves, CommitPreserves, DeathPreserves
       DEF Load
  <2>3. CASE UNCHANGED vars
    BY <2>3, StutterPreserves
  <2> QED
    BY <2>1, <2>2, <2>3 DEF Next
<1> QED
  BY <1>1, InitEstablishes, PTL DEF Spec

----------------------------------------------------------------------------
(***************************************************************************)
(* What follows from it.                                                   *)
(***************************************************************************)

(* Every line of a committed load is in the table it belongs to, none is   *)
(* dropped and nothing else is there (TablesMatchFeeds).                   *)
THEOREM TablesAreExact == Spec => []TablesMatchFeeds
<1>1. IInv => TablesMatchFeeds
  BY DEF IInv
<1> QED
  BY <1>1, LoadsInductive, PTL

(* Each dedup_hash is held or committed once (UniqueHashes).               *)
THEOREM HashesHeldOnce == Spec => []UniqueHashes
<1>1. IInv => UniqueHashes
  BY DEF IInv
<1> QED
  BY <1>1, LoadsInductive, PTL

(* The run log's counts of inserted logs add up to logs_raw                *)
(* (InsertedAddsUp).                                                       *)
THEOREM RunLogCountsInserts == Spec => []InsertedAddsUp
<1>1. IInv => InsertedAddsUp
  BY DEF IInv
<1> QED
  BY <1>1, LoadsInductive, PTL

(* Committing lines that have been loaded before changes neither table and *)
(* reports nothing inserted (ReingestIsNoOp).                              *)
THEOREM ReingestChangesNothing == Spec => ReingestIsNoOp
<1>1. ASSUME IInv, NEW r \in Ingesters, LogAndCommit(r), <<feed[r], lines[r]>> \in ingested
      PROVE  UNCHANGED <<rows, inserted>>
  <2>1. RowsOf(feed[r], lines[r]) \subseteq rows
    BY <1>1 DEF IInv, TablesMatchFeeds
  <2>2. mine[r] \subseteq RowsOf(feed[r], lines[r]) /\ mine[r] \cap rows = {}
    BY <1>1 DEF IInv, LoadInvariant, LogAndCommit, UniqueHashes
  <2>3. mine[r] = {}
    BY <2>1, <2>2
  <2>4. NewLogs(r) = {} /\ Cardinality(NewLogs(r)) = 0
    BY <2>3, FS_EmptySet DEF NewLogs
  <2>5. inserted \in Nat
    BY <1>1, FS_Subset, FS_CardinalityType DEF IInv, InsertedAddsUp
  <2> QED
    BY <1>1, <2>3, <2>4, <2>5 DEF LogAndCommit
<1>2. IInv => [NoOpIfLoaded]_vars
  BY <1>1 DEF NoOpIfLoaded
<1> QED
  BY <1>2, LoadsInductive, PTL DEF ReingestIsNoOp

----------------------------------------------------------------------------
(***************************************************************************)
(* No circle of waits: who waits for another load waits for one that has   *)
(* come further in the order of the rows.                                  *)
(***************************************************************************)

(* In a finite set that is ordered strictly, something has nothing above.  *)
LEMMA SomethingIsHighest ==
  ASSUME NEW S, IsFiniteSet(S), S # {},
         NEW Below, Below \subseteq S \X S,
         \A p \in S : <<p, p>> \notin Below,
         \A p, q, o \in S : <<p, q>> \in Below /\ <<q, o>> \in Below => <<p, o>> \in Below
  PROVE  \E p \in S : \A q \in S : <<p, q>> \notin Below
<1> DEFINE Above(p) == {q \in S : <<p, q>> \in Below}
           Sizes == {Cardinality(Above(p)) : p \in S}
<1>1. \A p \in S : IsFiniteSet(Above(p)) /\ Cardinality(Above(p)) \in Nat
  BY FS_Subset, FS_CardinalityType
<1>2. Sizes \subseteq Nat /\ Sizes # {}
  <2> HIDE DEF Above
  <2> QED BY <1>1
<1>3. PICK least \in Sizes : \A n \in Sizes : ~(n < least)
  <2>1. \E x \in Sizes : \A y \in Sizes : ~(<<y, x>> \in OpToRel(<, Nat))
    <3> HIDE DEF Sizes
    <3> QED
      BY <1>2, NatLessThanWellFounded, WFMin
  <2> QED
    BY <1>2, <2>1 DEF OpToRel
<1>4. PICK p \in S : least = Cardinality(Above(p))
  OBVIOUS
<1>5. ASSUME NEW q \in S, <<p, q>> \in Below PROVE FALSE
  <2>1. Above(q) \subseteq Above(p) /\ q \in Above(p) /\ q \notin Above(q)
    BY <1>5
  <2>2. Cardinality(Above(q)) < Cardinality(Above(p))
    <3> HIDE DEF Above
    <3>1. Cardinality(Above(q)) =< Cardinality(Above(p))
      BY <1>1, <2>1, FS_Subset
    <3>2. Cardinality(Above(q)) # Cardinality(Above(p))
      BY <1>1, <2>1, FS_Subset
    <3> QED
      BY <1>1, <3>1, <3>2
  <2>3. Cardinality(Above(q)) \in Sizes
    OBVIOUS
  <2> HIDE DEF Above, Sizes
  <2> QED
    BY <1>3, <1>4, <2>2, <2>3
<1> QED
  BY <1>5

(* Loads never wait for each other in a circle (NoDeadlock).               *)
THEOREM LoadsNeverDeadlock == Spec => []NoDeadlock
<1>1. ASSUME IInv, NEW S \in SUBSET Ingesters, S # {},
             \A r \in S : \E q \in S : WaitsFor(r, q)
      PROVE  FALSE
  <2> DEFINE head(r) == CHOOSE a : a \in NextRows(r)
             Below == {pair \in S \X S : ComesBefore(head(pair[1]), head(pair[2]))}
  <2> HIDE DEF Lines
  <2>1. \A r \in S : /\ pc[r] = "loading" /\ lines[r] \in Seq(Lines)
                     /\ head(r) \in NextRows(r)
                     /\ head(r) \in RowsOf(feed[r], lines[r])
                     /\ head(r).line_number \in Nat
    <3> SUFFICES ASSUME NEW r \in S
                 PROVE  /\ pc[r] = "loading" /\ lines[r] \in Seq(Lines)
                        /\ head(r) \in NextRows(r)
                        /\ head(r) \in RowsOf(feed[r], lines[r])
                        /\ head(r).line_number \in Nat
      OBVIOUS
    <3>1. head(r) \in NextRows(r) /\ head(r) \in pending[r]
      BY <1>1 DEF WaitsFor, NextRows
    <3>2. /\ pc[r] = "loading" /\ lines[r] \in Seq(Lines)
          /\ head(r) \in RowsOf(feed[r], lines[r])
      BY <1>1, <3>1 DEF IInv, LoadInvariant
    <3> QED
      BY <3>1, <3>2, RowShape
  <2>2. \A r \in S : NextRows(r) = {head(r)}
    <3> SUFFICES ASSUME NEW r \in S, NEW a \in NextRows(r), a # head(r) PROVE FALSE
      BY <2>1
    <3>1. a \in RowsOf(feed[r], lines[r]) /\ a \in pending[r] /\ head(r) \in pending[r]
      BY <1>1, <2>1 DEF IInv, LoadInvariant, NextRows
    <3>2. ComesBefore(a, head(r)) \/ ComesBefore(head(r), a)
      BY <2>1, <3>1, RowsAreOrdered
    <3> QED
      BY <2>1, <3>1, <3>2 DEF NextRows
  <2>3. \A r, q \in S : WaitsFor(r, q) => ComesBefore(head(r), head(q))
    <3> SUFFICES ASSUME NEW r \in S, NEW q \in S, WaitsFor(r, q)
                 PROVE  ComesBefore(head(r), head(q))
      OBVIOUS
    <3>1. head(r) \in mine[q] /\ head(q) \in pending[q]
      BY <2>1, <2>2 DEF WaitsFor, NextRows
    <3> QED
      BY <1>1, <2>1, <3>1 DEF IInv, LoadInvariant
  <2>4. IsFiniteSet(S)
    BY IngestionAssumption, FS_Subset
  <2>5. \A p \in S : <<p, p>> \notin Below
    BY <2>1, OrderIsStrict
  <2>6. \A p, q, o \in S : <<p, q>> \in Below /\ <<q, o>> \in Below => <<p, o>> \in Below
    <3> HIDE DEF head
    <3> QED BY <2>1, OrderIsStrict
  <2>7. PICK p \in S : \A q \in S : <<p, q>> \notin Below
    <3>1. Below \subseteq S \X S
      OBVIOUS
    <3> HIDE DEF Below
    <3> QED
      BY <1>1, <2>4, <2>5, <2>6, <3>1, SomethingIsHighest, ZenonT(30)
  <2>8. PICK q \in S : WaitsFor(p, q)
    BY <1>1
  <2>9. <<p, q>> \in Below
    BY <2>3, <2>8
  <2> HIDE DEF Below
  <2> QED
    BY <2>7, <2>9
<1>2. IInv => NoDeadlock
  BY <1>1 DEF NoDeadlock
<1> QED
  BY <1>2, LoadsInductive, PTL

----------------------------------------------------------------------------
(* What the invariant leaves open of the types.                            *)
LEMMA BoundsInductive == Spec => [](writes \in 0..MaxWrites /\ crashes \in 0..MaxCrashes)
<1> DEFINE Within == writes \in 0..MaxWrites /\ crashes \in 0..MaxCrashes
<1>1. Init => Within
  BY IngestionAssumption DEF Init
<1>2. Within /\ [Next]_vars => Within'
  <2> SUFFICES ASSUME Within, [Next]_vars PROVE Within'
    OBVIOUS
  <2>1. CASE WriteFeed
    <3>1. writes < MaxWrites /\ writes' = writes + 1 /\ UNCHANGED crashes
      BY <2>1 DEF WriteFeed
    <3> QED
      BY <3>1, IngestionAssumption
  <2>2. ASSUME SimulatorDies \/ \E r \in Ingesters : IngesterDies(r)
        PROVE  Within'
    <3>1. crashes < MaxCrashes /\ crashes' = crashes + 1 /\ UNCHANGED writes
      BY <2>2 DEF SimulatorDies, IngesterDies, fileVars
    <3> QED
      BY <3>1, IngestionAssumption
  <2>3. CASE FinishFeed \/ StartPointer \/ FinishPointer \/ UNCHANGED vars
    BY <2>3 DEF FinishFeed, StartPointer, FinishPointer, vars
  <2>4. ASSUME NEW r \in Ingesters, OpenGiven(r) \/ ResolveLatest(r) \/ Load(r)
        PROVE  Within'
    BY <2>4 DEF OpenGiven, ResolveLatest, OpenFeed, Load, ReadFeed, ReadFeedRaises, InsertRow,
                LogAndCommit, fileVars
  <2> QED
    BY <2>1, <2>2, <2>3, <2>4 DEF Next
<1> QED
  BY <1>1, <1>2, PTL DEF Spec

(* The pointer names a feed that exists or is unreadable, and a load works *)
(* on rows of the lines it has read.                                       *)
THEOREM IngestionTyped == Spec => []TypeOK
<1>1. ASSUME IInv, writes \in 0..MaxWrites, crashes \in 0..MaxCrashes
      PROVE  TypeOK
  <2> HIDE DEF Lines
  <2>1. \A name \in FeedNames : feeds[name] = None => pointer # name
    BY <1>1, IngestionAssumption DEF IInv, FilesReadable
  <2>2. ASSUME NEW r \in Ingesters
        PROVE  /\ pending[r] \cup mine[r] \subseteq RowsOf(feed[r], lines[r])
               /\ pc[r] # "loading" => pending[r] \cup mine[r] = {}
    BY <1>1 DEF IInv, LoadInvariant
  <2> QED
    BY <1>1, <2>1, <2>2 DEF IInv, FilesReadable, TypeOK
<1> QED
  BY <1>1, LoadsInductive, BoundsInductive, PTL
============================================================================
