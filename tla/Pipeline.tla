------------------------------ MODULE Pipeline ------------------------------
(***************************************************************************)
(* The core pipeline, simulate -> ingest -> detect, as the workflow        *)
(* .github/workflows/pipeline.yml runs it: a job, one at a time, starts in *)
(* a fresh checkout, simulates a feed, loads it (Ingestion) and runs a     *)
(* detection cycle (DetectionCycle); a stage that fails ends the job, and  *)
(* the schedule starts the next one.  Meanwhile detection cycles are run   *)
(* by hand on the same database, some with --limit.                        *)
(***************************************************************************)
EXTENDS Integers, Sequences, FiniteSets

CONSTANTS
  None, Addresses, CutLine, Torn,
  FeedNames,       (* Ends of simulated windows, which name the feeds.     *)
  FeedOf,          (* The feed the simulator writes for an end, always the *)
                   (* same one, its seed being fixed.                      *)
  LogIds,
  IdOf(_),         (* The log_id of a row of logs_raw.                     *)
  Keys, HighKeys, Detected, Evidence,
  Job,             (* The loader and the runner of the job ...             *)
  Hands,           (* ... and the runners started by hand.                 *)
  Position, LogOrder, Limits, ParamLimit,
  MaxCrashes,      (* Bounds the jobs and cycles that die half-way.        *)
  Subject          (* Subject[k]: whom an alert of key k accuses; brute    *)
                   (* force names rule and address, whatever the day.      *)

VARIABLES
  stage,           (* Where the job is, "off" between jobs.                *)
  newest,          (* The feed in the directory of the last job.           *)
  loadRows, inserted, ingested, loadPc, feed, lines, loadPending, loadMine,
  processed, book, status, totals, entered, pc, batch, pending, mine,
  crashes,
  arrivals,        (* History: logs that were committed by one load.       *)
  limited          (* History: a cycle was run with --limit.               *)

loadVars == <<loadRows, inserted, ingested, loadPc, feed, lines, loadPending, loadMine>>
detectVars == <<processed, book, status, totals, entered, pc, batch, pending, mine>>
vars == <<stage, newest, loadVars, detectVars, crashes, arrivals, limited>>

(* The job's directory has the feed it has simulated and no other.         *)
Loading == INSTANCE Ingestion WITH
  Ingesters <- {Job}, Contents <- {FeedOf[name] : name \in FeedNames}, MaxWrites <- 0,
  feeds <- [name \in FeedNames |-> IF name = newest THEN FeedOf[name] ELSE None],
  pointer <- newest, writer <- [stage |-> "idle"], writes <- 0,
  rows <- loadRows, pc <- loadPc, pending <- loadPending, mine <- loadMine

(* The log_ids of the rows of logs_raw among these.                        *)
LogsIn(rows) == {IdOf(row) : row \in {r \in rows : r.table = "logs_raw"}}

Detection == INSTANCE DetectionCycle WITH
  Runners <- {Job} \cup Hands, logs <- LogsIn(loadRows), rows <- book

LogRows == UNION {Loading!LogRowsOf(name, FeedOf[name]) : name \in FeedNames}

ASSUME PipelineAssumption ==
  /\ Job \notin Hands
  /\ \A row \in LogRows : IdOf(row) \in LogIds
  /\ \A a, b \in LogRows : IdOf(a) = IdOf(b) => a = b
  /\ \A name \in FeedNames : \A n \in DOMAIN FeedOf[name] : ~Loading!Raises(FeedOf[name][n])
  /\ Keys \subseteq DOMAIN Subject

ASSUME CycleAssumption == Detection!DetectionAssumption /\ Detection!RunnerAssumption

(* More logs only make the rules find more: whom they accuse in a part of  *)
(* a batch they accuse in the batch, with that evidence and perhaps more.  *)
(* RulesEngineProofs has the theorem, EngineFillsTables, that the tables   *)
(* of the engine (DetectionTables) are so.                                 *)
ASSUME RulesAssumption ==
  \A B \in SUBSET LogIds : \A A \in SUBSET B : \A k \in Detected[A] :
    \E j \in Detected[B] : Subject[j] = Subject[k] /\ Evidence[A][k] \subseteq Evidence[B][j]

Init ==
  /\ stage = "off"
  /\ newest = None
  /\ Loading!Init
  /\ Detection!Init
  /\ arrivals = {}
  /\ limited = FALSE

----------------------------------------------------------------------------
(***************************************************************************)
(* The job.                                                                *)
(***************************************************************************)

(* Nobody else sees the files of the checkout while they are written, and  *)
(* a job that dies before they are is as good as none.                     *)
Simulate ==
  /\ stage = "off"
  /\ stage' = "ingest"
  /\ newest' \in FeedNames
  /\ UNCHANGED <<loadVars, detectVars, crashes, arrivals, limited>>

ResolveLatest ==
  /\ stage = "ingest"
  /\ loadPc[Job] = "idle"
  /\ UNCHANGED <<stage, newest, detectVars, arrivals, limited>>
  /\ Loading!ResolveLatest(Job)

Ingest ==
  /\ stage = "ingest"
  /\ UNCHANGED <<stage, newest, detectVars, arrivals, limited>>
  /\ Loading!ReadFeed(Job) \/ Loading!InsertRow(Job)

(* New logs arrive with the commit of a load, all of them at once.         *)
CommitLoad ==
  /\ stage' = "detect"
  /\ UNCHANGED <<newest, detectVars, limited>>
  /\ Loading!LogAndCommit(Job)
  /\ arrivals' = arrivals \cup ({LogsIn(Loading!NewLogs(Job))} \ {{}})

(* Faulty variants, here and below, are never part of Spec: a run with one *)
(* in place of the definition it precedes shows what a property rules out. *)
(* This one goes on with the next stage when one has failed.               *)
GoesOn ==
  /\ stage' = "detect"
  /\ UNCHANGED <<newest, detectVars, arrivals, limited>>
  /\ Loading!IngesterDies(Job)

LoadDies ==
  /\ stage' = "off"
  /\ UNCHANGED <<newest, detectVars, arrivals, limited>>
  /\ Loading!IngesterDies(Job)

(* Faulty: a cycle of the job takes one log.                               *)
StartLimited ==
  /\ stage = "detect"
  /\ UNCHANGED <<stage, newest, loadVars, arrivals, limited>>
  /\ Detection!Scan(Job, 1)

(* Faulty: it takes what the job itself has loaded.                        *)
StartOwnFeed ==
  /\ stage = "detect"
  /\ pc[Job] = "idle"
  /\ pc' = [pc EXCEPT ![Job] = "scanned"]
  /\ batch' = [batch EXCEPT
       ![Job] = LogsIn(Loading!RowsOf(newest, FeedOf[newest])) \ processed]
  /\ UNCHANGED <<stage, newest, loadVars, processed, book, status, totals, entered,
                 pending, mine, crashes, arrivals, limited>>

(* A cycle of the job takes all that waits.                                *)
StartCycle ==
  /\ stage = "detect"
  /\ UNCHANGED <<stage, newest, loadVars, arrivals, limited>>
  /\ Detection!Scan(Job, 0)

(* The job's last stage is over when its cycle is, however that ends.      *)
JobCycle ==
  /\ UNCHANGED <<newest, loadVars, arrivals, limited>>
  /\ Detection!Proceed(Job)
  /\ stage' = IF pc'[Job] = "idle" THEN "off" ELSE stage

CycleDies ==
  /\ stage' = "off"
  /\ UNCHANGED <<newest, loadVars, arrivals, limited>>
  /\ Detection!Crash(Job)

----------------------------------------------------------------------------
(***************************************************************************)
(* By hand.                                                                *)
(***************************************************************************)
Scan(r, limit) ==
  /\ UNCHANGED <<stage, newest, loadVars, arrivals>>
  /\ Detection!Scan(r, limit)
  /\ limited' = (limited \/ limit # 0)

Proceed(r) ==
  /\ UNCHANGED <<stage, newest, loadVars, arrivals, limited>>
  /\ Detection!Proceed(r)

RunJob ==
  Simulate \/ ResolveLatest \/ Ingest \/ CommitLoad \/ StartCycle \/ JobCycle

Next ==
  \/ RunJob
  \/ LoadDies
  \/ CycleDies
  \/ \E r \in Hands : Proceed(r) \/ \E limit \in Limits : Scan(r, limit)

(* A job goes on and the schedule starts the next one; a cycle by hand     *)
(* goes on once somebody has started it, which nobody needs to.            *)
Fairness == WF_vars(RunJob) /\ \A r \in Hands : WF_vars(Proceed(r))

Spec == Init /\ [][Next]_vars /\ Fairness

----------------------------------------------------------------------------
(***************************************************************************)
(* Properties.                                                             *)
(***************************************************************************)

(* A load commits its logs together and a cycle without --limit scans all  *)
(* that wait, so the logs that arrived together enter the book together.   *)
WholeArrivals ==
  ~limited => \A A \in arrivals : \A B \in entered : A \subseteq B \/ A \cap B = {}

(* ... and none escapes by the company it arrives in: whatever the rules   *)
(* find in the logs of one load alone, there is an alert about the same    *)
(* subject with a link to each line of the evidence - also if a later      *)
(* burst in the batch has moved the alert to another day, and if the same  *)
(* key had an alert before.                                                *)
AttacksAlerted ==
  ~limited =>
    \A A \in arrivals : A \subseteq processed =>
      \A k \in Detected[A] :
        \E j \in Keys : /\ Subject[j] = Subject[k]
                        /\ Detection!AlertRow(j) \in book
                        /\ \A l \in Evidence[A][k] : Detection!LinkRow(j, l) \in book

(* A job that gets through its three stages leaves no log of its feed      *)
(* unprocessed, whatever died before it and runs beside it.                *)
CompletesJob == Detection!LogAndCommit(Job)

JobsProcessTheirFeed ==
  [][CompletesJob => LogsIn(Loading!RowsOf(newest, FeedOf[newest])) \subseteq processed']_vars

(* What the detection stage promises holds of the pipeline, its logs being *)
(* the rows of logs_raw.                                                   *)
Book == INSTANCE AlertBook WITH logs <- LogsIn(loadRows), rows <- book

ImplementsBook == Book!Spec

(* Nothing that waits is too much for one statement of the cycle that      *)
(* takes it all.  There are no more incidents than alerts.                 *)
Backlog == LogsIn(loadRows) \ processed

BacklogFits ==
  /\ Detection!Fits(7 * Cardinality(Detection!AlertRowsOf(Backlog)))
  /\ Detection!Fits(2 * Cardinality(Detection!LinkRowsOf(Backlog)))
  /\ Detection!Fits(Cardinality(Backlog) + 1)

(* A feed that has been loaded is some day processed, whatever dies and    *)
(* whoever else runs cycles or not: the schedule needs no help, also for   *)
(* feeds of jobs that failed before their cycle, unless there comes to be  *)
(* too much at once for a statement.                                       *)
LogsGetProcessed ==
  \A name \in FeedNames :
    LET new == LogsIn(Loading!RowsOf(name, FeedOf[name]))
    IN  new \subseteq LogsIn(loadRows) ~> (new \subseteq processed \/ ~BacklogFits)
============================================================================
