----------------------------- MODULE Ingestion -----------------------------
(***************************************************************************)
(* The feed directory and ingestion/load.py.  The simulator rewrites feed  *)
(* files and the pointer to the newest one; ingesters read them and load   *)
(* logs_raw and rejected_records, side by side on one database.            *)
(*                                                                         *)
(* Files are written in place, so a reader may find a prefix of the new    *)
(* contents, its last line cut.  INSERTs go row by row under the rules of  *)
(* READ COMMITTED described in DetectionCycle.  The code sends them in     *)
(* chunks of 1000 rows, too few to meet the limit on bound parameters.     *)
(***************************************************************************)
EXTENDS FeedParser, Sequences, FiniteSets

CONSTANTS
  Ingesters,       (* Processes that run ingestion.load.                   *)
  FeedNames,       (* Names of feed files.                                 *)
  Contents,        (* Lines the simulator, or who feeds it, may write.     *)
  CutLine,         (* The last line of a file cut off in its middle.       *)
  Torn,            (* An unreadable file.                                  *)
  MaxWrites,       (* Bounds the simulator's runs.                         *)
  MaxCrashes       (* Bounds the processes that die half-way.              *)

Lines == {CutLine} \cup UNION {{content[n] : n \in DOMAIN content} : content \in Contents}

ASSUME IngestionAssumption ==
  /\ None \notin FeedNames /\ None \notin Seq(Lines)
  /\ Torn \notin FeedNames
  /\ IsFiniteSet(Ingesters)
  /\ Contents \subseteq Seq(Lines)
  /\ Rejected(CutLine)
  /\ MaxWrites \in Nat
  /\ MaxCrashes \in Nat

VARIABLES
  feeds,           (* The lines of every feed file; None if there is none. *)
  pointer,         (* The feed _latest.json names.                         *)
  writer,          (* What the simulator is writing.                       *)
  writes,          (* Feeds it has begun.                                  *)
  rows,            (* Rows of logs_raw and rejected_records.               *)
  inserted,        (* Sum of logs_processed over the "ingest" run-log rows.*)
  pc,              (* Where each ingester is.                              *)
  feed,            (* The feed file it has been told to load.              *)
  lines,           (* What it has read from there.                         *)
  pending,         (* The rows it has yet to insert.                       *)
  mine,            (* The rows its open transaction has inserted.          *)
  crashes,
  ingested         (* History: <<name, lines>> of the committed loads.     *)

fileVars == <<feeds, pointer, writer, writes>>
tableVars == <<rows, inserted, ingested>>
loadVars == <<pc, feed, lines, pending, mine>>
vars == <<feeds, pointer, writer, writes, rows, inserted, ingested,
          pc, feed, lines, pending, mine, crashes>>

(* A row is named by what its dedup_hash hashes: for a log, the message.   *)
LogRow(name, n, line) ==
  [table |-> "logs_raw", batch |-> name, line_number |-> n,
   text |-> line.raw_message]

RejectRow(name, n, line) ==
  [table |-> "rejected_records", batch |-> name, line_number |-> n,
   text |-> line]

LogRowsOf(name, content) ==
  {LogRow(name, n, content[n]) : n \in {m \in DOMAIN content : Accepted(content[m])}}

RejectRowsOf(name, content) ==
  {RejectRow(name, n, content[n]) : n \in {m \in DOMAIN content : Rejected(content[m])}}

RowsOf(name, content) == LogRowsOf(name, content) \cup RejectRowsOf(name, content)

Init ==
  /\ feeds = [name \in FeedNames |-> None]
  /\ pointer = None
  /\ writer = [stage |-> "idle"]
  /\ writes = 0
  /\ rows = {}
  /\ inserted = 0
  /\ pc = [r \in Ingesters |-> "idle"]
  /\ feed = [r \in Ingesters |-> None]
  /\ lines = [r \in Ingesters |-> <<>>]
  /\ pending = [r \in Ingesters |-> {}]
  /\ mine = [r \in Ingesters |-> {}]
  /\ crashes = 0
  /\ ingested = {}

----------------------------------------------------------------------------
(***************************************************************************)
(* simulation/dataset.py: write_dataset.  Names have the second of the end *)
(* of the simulated window, so a run may meet a file of an earlier one.    *)
(***************************************************************************)

(* What a reader may find of a file that is being written.                 *)
Prefixes(content) ==
  UNION {{SubSeq(content, 1, n), Append(SubSeq(content, 1, n), CutLine)} :
           n \in 0..(Len(content) - 1)}

WriteFeed ==
  /\ writer.stage = "idle"
  /\ writes < MaxWrites
  /\ writes' = writes + 1
  /\ \E name \in FeedNames : \E content \in Contents :
       /\ writer' = [stage |-> "feed", name |-> name, content |-> content]
       /\ \E part \in Prefixes(content) : feeds' = [feeds EXCEPT ![name] = part]
  /\ UNCHANGED <<pointer, tableVars, loadVars, crashes>>

FinishFeed ==
  /\ writer.stage = "feed"
  /\ feeds' = [feeds EXCEPT ![writer.name] = writer.content]
  /\ writer' = [stage |-> "manifest", name |-> writer.name]
  /\ UNCHANGED <<pointer, writes, tableVars, loadVars, crashes>>

(* The manifest, which no stage reads, is written, and then the pointer.   *)
StartPointer ==
  /\ writer.stage = "manifest"
  /\ pointer' = Torn
  /\ writer' = [writer EXCEPT !.stage = "pointer"]
  /\ UNCHANGED <<feeds, writes, tableVars, loadVars, crashes>>

FinishPointer ==
  /\ writer.stage = "pointer"
  /\ pointer' = writer.name
  /\ writer' = [stage |-> "idle"]
  /\ UNCHANGED <<feeds, writes, tableVars, loadVars, crashes>>

SimulatorDies ==
  /\ writer.stage # "idle"
  /\ crashes < MaxCrashes
  /\ crashes' = crashes + 1
  /\ writer' = [stage |-> "idle"]
  /\ UNCHANGED <<feeds, pointer, writes, tableVars, loadVars>>

----------------------------------------------------------------------------
(***************************************************************************)
(* ingest_feed.                                                            *)
(***************************************************************************)
OpenFeed(r, name) ==
  /\ pc[r] \in {"idle", "raised"}
  /\ pc' = [pc EXCEPT ![r] = "opened"]
  /\ feed' = [feed EXCEPT ![r] = name]
  /\ UNCHANGED <<fileVars, tableVars, lines, pending, mine, crashes>>

(* A feed given on the command line.                                       *)
OpenGiven(r) == \E name \in FeedNames : feeds[name] # None /\ OpenFeed(r, name)

(* _resolve_latest.  Without a readable pointer the program ends here.     *)
ResolveLatest(r) == pointer \notin {None, Torn} /\ OpenFeed(r, pointer)

(* The whole file is read, then parsed before the database is opened.      *)
ReadFeed(r) ==
  /\ pc[r] = "opened"
  /\ \A n \in DOMAIN feeds[feed[r]] : ~Raises(feeds[feed[r]][n])
  /\ lines' = [lines EXCEPT ![r] = feeds[feed[r]]]
  /\ pending' = [pending EXCEPT ![r] = RowsOf(feed[r], feeds[feed[r]])]
  /\ pc' = [pc EXCEPT ![r] = "loading"]
  /\ UNCHANGED <<fileVars, tableVars, feed, mine, crashes>>

(* The parser raises something else than a ParseError.                     *)
ReadFeedRaises(r) ==
  /\ pc[r] = "opened"
  /\ \E n \in DOMAIN feeds[feed[r]] : Raises(feeds[feed[r]][n])
  /\ pc' = [pc EXCEPT ![r] = "raised"]
  /\ UNCHANGED <<fileVars, tableVars, feed, lines, pending, mine, crashes>>

(* Faulty variants, here and below, are never part of Spec: a run with one *)
(* in place of the definition it precedes shows what a property rules out. *)
(* This one has rows in any order, as from a hash table.                   *)
Unordered(a, b) == FALSE

(* The good rows, then the rejected ones, each in the order of the file.   *)
ComesBefore(a, b) ==
  \/ a.table = "logs_raw" /\ b.table = "rejected_records"
  \/ a.table = b.table /\ a.line_number < b.line_number

NextRows(r) == {a \in pending[r] : \A b \in pending[r] : ~ComesBefore(b, a)}

HeldByOther(r, row) == \E q \in Ingesters \ {r} : row \in mine[q]

(* Faulty: the row is looked for, then inserted, without a unique index.   *)
InsertUnchecked(r) ==
  /\ pc[r] = "loading"
  /\ \E row \in NextRows(r) :
       /\ pending' = [pending EXCEPT ![r] = @ \ {row}]
       /\ mine' = [mine EXCEPT ![r] = IF row \in rows THEN @ ELSE @ \cup {row}]
  /\ UNCHANGED <<fileVars, tableVars, pc, feed, lines, crashes>>

(* ON CONFLICT (dedup_hash) DO NOTHING.                                    *)
InsertRow(r) ==
  /\ pc[r] = "loading"
  /\ \E row \in NextRows(r) :
       /\ ~HeldByOther(r, row)
       /\ pending' = [pending EXCEPT ![r] = @ \ {row}]
       /\ mine' = [mine EXCEPT ![r] = IF row \in rows THEN @ ELSE @ \cup {row}]
  /\ UNCHANGED <<fileVars, tableVars, pc, feed, lines, crashes>>

(* Faulty: len(good_rows), the duplicates included.                        *)
GoodRows(r) == LogRowsOf(feed[r], lines[r])

NewLogs(r) == {row \in mine[r] : row.table = "logs_raw"}

(* Faulty: the commit comes between the good rows and the rejected ones.   *)
CommitBeforeRejects(r) ==
  /\ pc[r] = "loading"
  /\ pending[r] \subseteq RejectRowsOf(feed[r], lines[r])
  /\ rows' = rows \cup mine[r]
  /\ inserted' = inserted + Cardinality(NewLogs(r))
  /\ ingested' = ingested \cup {<<feed[r], lines[r]>>}
  /\ pc' = [pc EXCEPT ![r] = "idle"]
  /\ lines' = [lines EXCEPT ![r] = <<>>]
  /\ pending' = [pending EXCEPT ![r] = {}]
  /\ mine' = [mine EXCEPT ![r] = {}]
  /\ UNCHANGED <<fileVars, feed, crashes>>

(* The row of detection_run_log, and COMMIT.                               *)
LogAndCommit(r) ==
  /\ pc[r] = "loading"
  /\ pending[r] = {}
  /\ rows' = rows \cup mine[r]
  /\ inserted' = inserted + Cardinality(NewLogs(r))
  /\ ingested' = ingested \cup {<<feed[r], lines[r]>>}
  /\ pc' = [pc EXCEPT ![r] = "idle"]
  /\ lines' = [lines EXCEPT ![r] = <<>>]
  /\ mine' = [mine EXCEPT ![r] = {}]
  /\ UNCHANGED <<fileVars, feed, pending, crashes>>

(* Faulty: nobody rolls the dead load back.                                *)
DiesHoldingRows(r) ==
  /\ pc[r] \in {"opened", "loading"}
  /\ crashes < MaxCrashes
  /\ crashes' = crashes + 1
  /\ pc' = [pc EXCEPT ![r] = "idle"]
  /\ UNCHANGED <<fileVars, tableVars, feed, lines, pending, mine>>

IngesterDies(r) ==
  /\ pc[r] \in {"opened", "loading"}
  /\ crashes < MaxCrashes
  /\ crashes' = crashes + 1
  /\ pc' = [pc EXCEPT ![r] = "idle"]
  /\ lines' = [lines EXCEPT ![r] = <<>>]
  /\ pending' = [pending EXCEPT ![r] = {}]
  /\ mine' = [mine EXCEPT ![r] = {}]
  /\ UNCHANGED <<fileVars, tableVars, feed>>

Load(r) == ReadFeed(r) \/ ReadFeedRaises(r) \/ InsertRow(r) \/ LogAndCommit(r)

Next ==
  \/ WriteFeed \/ FinishFeed \/ StartPointer \/ FinishPointer \/ SimulatorDies
  \/ \E r \in Ingesters : OpenGiven(r) \/ ResolveLatest(r) \/ Load(r) \/ IngesterDies(r)

(* A load that has been started goes on.  Nobody needs to start one.       *)
Fairness == \A r \in Ingesters : WF_vars(Load(r))

Spec == Init /\ [][Next]_vars /\ Fairness

----------------------------------------------------------------------------
(***************************************************************************)
(* Properties.                                                             *)
(***************************************************************************)

(* A loader works on rows of what it read, and holds rows of that only.    *)
TypeOK ==
  /\ pointer \in FeedNames \cup {None, Torn}
  /\ \A name \in FeedNames : feeds[name] = None => pointer # name
  /\ writer.stage \in {"idle", "feed", "manifest", "pointer"}
  /\ pc \in [Ingesters -> {"idle", "opened", "loading", "raised"}]
  /\ feed \in [Ingesters -> FeedNames \cup {None}]
  /\ \A r \in Ingesters :
       /\ pending[r] \cup mine[r] \subseteq RowsOf(feed[r], lines[r])
       /\ pc[r] # "loading" => pending[r] \cup mine[r] = {}
  /\ writes \in 0..MaxWrites
  /\ crashes \in 0..MaxCrashes

(* The two tables hold exactly the rows of the loads that committed: each  *)
(* line that is not blank is in the one or the other, none is dropped,     *)
(* none is there twice, and an aborted load leaves nothing.                *)
TablesMatchFeeds == rows = UNION {RowsOf(load[1], load[2]) : load \in ingested}

(* Each row of logs_raw is reported as inserted by one run, and only one.  *)
InsertedAddsUp == inserted = Cardinality({row \in rows : row.table = "logs_raw"})

(* A dedup_hash is never in the hands of two open loads, and never in      *)
(* those of a load and already committed.                                  *)
UniqueHashes ==
  /\ \A r \in Ingesters : mine[r] \cap rows = {}
  /\ \A q, r \in Ingesters : q # r => mine[q] \cap mine[r] = {}

(* README.md:94-98, "re-running any stage is a no-op": the commit of lines *)
(* that have been loaded before changes no table and reports no insert.    *)
NoOpIfLoaded ==
  \A r \in Ingesters :
    LogAndCommit(r) /\ <<feed[r], lines[r]>> \in ingested => UNCHANGED <<rows, inserted>>

ReingestIsNoOp == [][NoOpIfLoaded]_vars

(* Loads of overlapping contents wait for each other's rows, but never in  *)
(* a circle: PostgreSQL has no reason to fail one of them.                 *)
WaitsFor(r, q) == q # r /\ NextRows(r) \cap mine[q] # {}

NoDeadlock ==
  \A S \in SUBSET Ingesters : (\A r \in S : \E q \in S : WaitsFor(r, q)) => S = {}

(* A load comes to its end, whatever the simulator writes meanwhile: one   *)
(* that waits for the rows of another load gets them, or gets past them,   *)
(* even if the other one dies, and others are started again and again.     *)
LoadsEnd ==
  \A r \in Ingesters : pc[r] \in {"opened", "loading"} ~> pc[r] \in {"idle", "raised"}

(* load.py:8-9, "writes every unparseable line to rejected_records with    *)
(* the reason - never dropped, never fatal".                               *)
NeverFatal == \A r \in Ingesters : pc[r] # "raised"
============================================================================
