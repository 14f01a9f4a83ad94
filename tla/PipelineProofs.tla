---------------------------- MODULE PipelineProofs ----------------------------
(***************************************************************************)
(* For any feeds, any rules that find more in more logs, and any number of *)
(* cycles run by hand beside the job: the pipeline keeps the promise of    *)
(* AlertBook, logs that arrive together are scanned together, so that no   *)
(* attack in them goes unalerted, and a job that completes has processed   *)
(* its feed.  The theory of detection cycles is that of                    *)
(* DetectionCycleProofs, whose lemmas are used for the pipeline's runners. *)
(***************************************************************************)
EXTENDS Pipeline, FiniteSetTheorems, TLAPS

(* The job's cycles are started with 0 for a limit, whatever is used by    *)
(* hand.                                                                   *)
Cycles == INSTANCE DetectionCycleProofs WITH
  Runners <- {Job} \cup Hands, Limits <- Limits \cup {0},
  logs <- LogsIn(loadRows), rows <- book

Logs == LogsIn(loadRows)

Runs == {Job} \cup Hands

LEMMA CycleConstants ==
  /\ Cycles!DetectionAssumption
  /\ Cycles!RunnerAssumption
<1>1. Cycles!DetectionAssumption
  BY CycleAssumption DEF Detection!DetectionAssumption, Cycles!DetectionAssumption
<1>2. Cycles!RunnerAssumption
  <2>1. \A S : Detection!IsFiniteSet(S) <=> Cycles!IsFiniteSet(S)
    BY DEF Detection!IsFiniteSet, Cycles!IsFiniteSet
  <2> QED
    BY <2>1, CycleAssumption DEF Detection!RunnerAssumption, Cycles!RunnerAssumption
<1> QED
  BY <1>1, <1>2

LEMMA SameSizes == \A S : Detection!Cardinality(S) = Cycles!Cardinality(S)
BY DEF Detection!Cardinality, Cycles!Cardinality, Detection!IsFiniteSet, Cycles!IsFiniteSet

(* The statements of the pipeline's cycles are those of the theory.        *)
LEMMA SameStatements ==
  ASSUME NEW r
  PROVE  /\ Detection!StartAlerts(r) = Cycles!StartAlerts(r)
         /\ Detection!InsertAlert(r) = Cycles!InsertAlert(r)
         /\ Detection!StartLinks(r) = Cycles!StartLinks(r)
         /\ Detection!InsertLink(r) = Cycles!InsertLink(r)
         /\ Detection!StartIncidents(r) = Cycles!StartIncidents(r)
         /\ Detection!InsertIncident(r) = Cycles!InsertIncident(r)
         /\ Detection!MarkProcessed(r) = Cycles!MarkProcessed(r)
         /\ Detection!LogAndCommit(r) = Cycles!LogAndCommit(r)
         /\ Detection!Overflow(r) = Cycles!Overflow(r)
         /\ Detection!DeadlockVictim(r) = Cycles!DeadlockVictim(r)
         /\ Detection!Crash(r) = Cycles!Crash(r)
<1>1. Detection!StartAlerts(r) = Cycles!StartAlerts(r)
  BY SameSizes DEF Detection!StartAlerts, Cycles!StartAlerts, Detection!StartInsert,
     Cycles!StartInsert, Detection!Fits, Cycles!Fits, Detection!tableVars,
     Cycles!tableVars, Detection!AlertRow, Cycles!AlertRow,
     Detection!AlertRowsOf, Cycles!AlertRowsOf
<1>2. Detection!InsertAlert(r) = Cycles!InsertAlert(r)
  BY DEF Detection!InsertAlert, Cycles!InsertAlert, Detection!InsertRow,
     Cycles!InsertRow, Detection!NextRows, Cycles!NextRows,
     Detection!ComesBefore, Cycles!ComesBefore, Detection!KeyOf,
     Cycles!KeyOf, Detection!HeldByOther, Cycles!HeldByOther,
     Detection!tableVars, Cycles!tableVars
<1>3. Detection!StartLinks(r) = Cycles!StartLinks(r)
  BY SameSizes DEF Detection!StartLinks, Cycles!StartLinks, Detection!StartInsert,
     Cycles!StartInsert, Detection!Fits, Cycles!Fits, Detection!tableVars,
     Cycles!tableVars, Detection!ResolvedLinks, Cycles!ResolvedLinks,
     Detection!LinkRowsOf, Cycles!LinkRowsOf, Detection!LinkRow,
     Cycles!LinkRow, Detection!AlertRow, Cycles!AlertRow, Detection!KeyOf,
     Cycles!KeyOf, Detection!Visible, Cycles!Visible
<1>4. Detection!InsertLink(r) = Cycles!InsertLink(r)
  BY DEF Detection!InsertLink, Cycles!InsertLink, Detection!InsertRow,
     Cycles!InsertRow, Detection!NextRows, Cycles!NextRows,
     Detection!ComesBefore, Cycles!ComesBefore, Detection!KeyOf,
     Cycles!KeyOf, Detection!HeldByOther, Cycles!HeldByOther,
     Detection!tableVars, Cycles!tableVars
<1>5. Detection!StartIncidents(r) = Cycles!StartIncidents(r)
  BY SameSizes DEF Detection!StartIncidents, Cycles!StartIncidents,
     Detection!StartInsert, Cycles!StartInsert, Detection!Fits,
     Cycles!Fits, Detection!tableVars, Cycles!tableVars,
     Detection!Candidates, Cycles!Candidates, Detection!AlertRow,
     Cycles!AlertRow, Detection!IncidentRow, Cycles!IncidentRow,
     Detection!HasAlert, Cycles!HasAlert, Detection!Visible,
     Cycles!Visible
<1>6. Detection!InsertIncident(r) = Cycles!InsertIncident(r)
  BY DEF Detection!InsertIncident, Cycles!InsertIncident, Detection!InsertRow,
     Cycles!InsertRow, Detection!NextRows, Cycles!NextRows,
     Detection!ComesBefore, Cycles!ComesBefore, Detection!KeyOf,
     Cycles!KeyOf, Detection!HeldByOther, Cycles!HeldByOther,
     Detection!tableVars, Cycles!tableVars
<1>7. Detection!MarkProcessed(r) = Cycles!MarkProcessed(r)
  BY SameSizes DEF Detection!MarkProcessed, Cycles!MarkProcessed, Detection!Fits,
     Cycles!Fits, Detection!LogsHeldBy, Cycles!LogsHeldBy,
     Detection!tableVars, Cycles!tableVars
<1>8. Detection!LogAndCommit(r) = Cycles!LogAndCommit(r)
  BY SameSizes DEF Detection!LogAndCommit, Cycles!LogAndCommit, Detection!NewAlerts,
     Cycles!NewAlerts
<1>9. Detection!Overflow(r) = Cycles!Overflow(r)
  BY SameSizes DEF Detection!Overflow, Cycles!Overflow, Detection!Fits, Cycles!Fits,
     Detection!NextParameters, Cycles!NextParameters, Detection!Rollback,
     Cycles!Rollback, Detection!tableVars, Cycles!tableVars,
     Detection!AlertRowsOf, Cycles!AlertRowsOf, Detection!AlertRow,
     Cycles!AlertRow, Detection!ResolvedLinks, Cycles!ResolvedLinks,
     Detection!LinkRowsOf, Cycles!LinkRowsOf, Detection!LinkRow,
     Cycles!LinkRow, Detection!KeyOf, Cycles!KeyOf, Detection!Visible,
     Cycles!Visible, Detection!Candidates, Cycles!Candidates,
     Detection!IncidentRow, Cycles!IncidentRow, Detection!HasAlert,
     Cycles!HasAlert
<1>10. Detection!DeadlockVictim(r) = Cycles!DeadlockVictim(r)
  BY DEF Detection!DeadlockVictim, Cycles!DeadlockVictim,
     Detection!Deadlocked, Cycles!Deadlocked, Detection!WaitsFor,
     Cycles!WaitsFor, Detection!NextRows, Cycles!NextRows,
     Detection!ComesBefore, Cycles!ComesBefore, Detection!KeyOf,
     Cycles!KeyOf, Detection!LogsHeldBy, Cycles!LogsHeldBy,
     Detection!Rollback, Cycles!Rollback, Detection!tableVars,
     Cycles!tableVars
<1>11. Detection!Crash(r) = Cycles!Crash(r)
  BY DEF Detection!Crash, Cycles!Crash, Detection!Rollback, Cycles!Rollback,
     Detection!tableVars, Cycles!tableVars
<1> QED
  BY <1>1, <1>2, <1>3, <1>4, <1>5, <1>6, <1>7, <1>8, <1>9, <1>10, <1>11

LEMMA SameSteps ==
  ASSUME NEW r, NEW limit
  PROVE  /\ Detection!Scan(r, limit) = Cycles!Scan(r, limit)
         /\ Detection!Proceed(r) = Cycles!Proceed(r)
<1>1. Detection!Scan(r, limit) = Cycles!Scan(r, limit)
  BY SameSizes DEF Detection!Scan, Cycles!Scan, Detection!LoadUnprocessed, Cycles!LoadUnprocessed,
         Detection!tableVars, Cycles!tableVars
<1>2. Detection!Proceed(r) = Cycles!Proceed(r)
  BY SameStatements DEF Detection!Proceed, Cycles!Proceed
<1> QED
  BY <1>1, <1>2

(* A runner that goes on has scanned.                                      *)
LEMMA BusyRunner ==
  ASSUME Cycles!IInv, NEW r \in Runs, Cycles!Proceed(r)
  PROVE  pc[r] # "idle"
<1>1. pc[r] = "idle" => pending[r] = {}
  BY DEF Cycles!IInv, Cycles!RunInvariant, Runs
<1>2. ASSUME pc[r] = "idle" PROVE ~Cycles!Overflow(r)
  <2>1. Cycles!NextParameters(r) = 0
    BY <1>2 DEF Cycles!NextParameters
  <2> QED
    BY <2>1, CycleConstants DEF Cycles!Overflow, Cycles!Fits, Cycles!RunnerAssumption
<1>3. ASSUME pc[r] = "idle" PROVE ~Cycles!DeadlockVictim(r)
  <2>1. \A q : ~Cycles!WaitsFor(r, q)
    BY <1>1, <1>3 DEF Cycles!WaitsFor, Cycles!NextRows
  <2> QED
    BY <2>1 DEF Cycles!DeadlockVictim, Cycles!Deadlocked
<1> QED
  BY <1>2, <1>3 DEF Cycles!Proceed, Cycles!StartAlerts, Cycles!InsertAlert, Cycles!StartLinks,
     Cycles!InsertLink, Cycles!StartIncidents, Cycles!InsertIncident, Cycles!MarkProcessed,
     Cycles!LogAndCommit

(* It commits its batch, or keeps it, or forgets it.                       *)
LEMMA ProceedEffect ==
  ASSUME Cycles!IInv, NEW r \in Runs, Cycles!Proceed(r)
  PROVE  /\ \A q \in Runs \ {r} : pc'[q] = pc[q] /\ batch'[q] = batch[q]
         /\ \/ /\ processed' = processed \cup batch[r]
               /\ entered' = entered \cup {batch[r]}
               /\ book' = book \cup Cycles!RowsOf(batch[r])
               /\ pc'[r] = "idle" /\ batch'[r] = {}
            \/ /\ UNCHANGED <<processed, entered, book>>
               /\ \/ pc'[r] # "idle" /\ batch'[r] = batch[r]
                  \/ pc'[r] = "idle" /\ batch'[r] = {}
<1>1. pc = [q \in Runs |-> pc[q]] /\ batch = [q \in Runs |-> batch[q]]
  BY DEF Cycles!IInv, Cycles!CycleTypeOK, Runs
<1>2. CASE Cycles!LogAndCommit(r)
  <2>1. book' = book \cup Cycles!RowsOf(batch[r])
    BY <1>2, CycleConstants, Cycles!CommitEntersBatch DEF Runs
  <2> QED
    BY <1>1, <1>2, <2>1 DEF Cycles!LogAndCommit
<1>3. CASE Cycles!Overflow(r) \/ Cycles!DeadlockVictim(r)
  BY <1>1, <1>3 DEF Cycles!Overflow, Cycles!DeadlockVictim, Cycles!Rollback, Cycles!tableVars
<1>4. CASE Cycles!StartAlerts(r) \/ Cycles!StartLinks(r) \/ Cycles!StartIncidents(r)
  BY <1>1, <1>4 DEF Cycles!StartAlerts, Cycles!StartLinks, Cycles!StartIncidents,
     Cycles!StartInsert, Cycles!tableVars
<1>5. CASE Cycles!InsertAlert(r) \/ Cycles!InsertLink(r) \/ Cycles!InsertIncident(r)
  BY <1>1, <1>5 DEF Cycles!InsertAlert, Cycles!InsertLink, Cycles!InsertIncident,
     Cycles!InsertRow, Cycles!tableVars
<1>6. CASE Cycles!MarkProcessed(r)
  BY <1>1, <1>6 DEF Cycles!MarkProcessed, Cycles!tableVars
<1> QED
  BY <1>2, <1>3, <1>4, <1>5, <1>6, Cycles!Proceed(r) DEF Cycles!Proceed

----------------------------------------------------------------------------
(***************************************************************************)
(* The load.                                                               *)
(***************************************************************************)
FeedRows(name) == Loading!RowsOf(name, FeedOf[name])

LoadInvariant ==
  /\ stage \in {"off", "ingest", "detect"}
  /\ stage # "off" => newest \in FeedNames
  /\ loadPc \in [{Job} -> {"idle", "opened", "loading"}]
  /\ DOMAIN feed = {Job} /\ DOMAIN lines = {Job}
  /\ DOMAIN loadPending = {Job} /\ DOMAIN loadMine = {Job}
  /\ loadPc[Job] # "idle" => stage = "ingest" /\ feed[Job] = newest
  /\ loadPc[Job] # "loading" => loadPending[Job] = {} /\ loadMine[Job] = {}
  /\ loadPc[Job] = "loading" =>
       /\ loadPending[Job] \cup loadMine[Job] \subseteq FeedRows(newest)
       /\ FeedRows(newest) \subseteq loadRows \cup loadPending[Job] \cup loadMine[Job]
       /\ loadMine[Job] \cap loadRows = {}
  /\ loadRows \subseteq UNION {FeedRows(name) : name \in FeedNames}
  /\ stage = "detect" => FeedRows(newest) \subseteq loadRows
  /\ pc[Job] # "idle" => stage = "detect"

LEMMA LoadInit == Init => LoadInvariant
BY DEF Init, LoadInvariant, Loading!Init, Detection!Init

LEMMA LoadNext ==
  ASSUME LoadInvariant, Cycles!IInv, [Next]_vars
  PROVE  LoadInvariant'
<1> USE DEF LoadInvariant, detectVars
<1>1. CASE Simulate
  <2>1. loadPc[Job] = "idle" /\ loadPending[Job] = {} /\ loadMine[Job] = {}
    BY <1>1 DEF Simulate
  <2> QED
    BY <1>1, <2>1 DEF Simulate, loadVars
<1>2. CASE ResolveLatest
  BY <1>2 DEF ResolveLatest, Loading!ResolveLatest, Loading!OpenFeed, Loading!tableVars
<1>3. CASE Ingest
  <2>1. CASE Loading!ReadFeed(Job)
    <3>1. feed[Job] = newest /\ newest \in FeedNames /\ stage = "ingest"
      BY <2>1 DEF Loading!ReadFeed
    <3>2. loadPending'[Job] = FeedRows(newest) /\ loadPc'[Job] = "loading"
      BY <2>1, <3>1 DEF Loading!ReadFeed, FeedRows
    <3> QED
      BY <1>3, <2>1, <3>1, <3>2 DEF Ingest, Loading!ReadFeed, Loading!tableVars, FeedRows
  <2>2. CASE Loading!InsertRow(Job)
    <3>1. PICK row \in loadPending[Job] :
            /\ loadPending' = [loadPending EXCEPT ![Job] = @ \ {row}]
            /\ loadMine' = [loadMine EXCEPT ![Job] = IF row \in loadRows THEN @ ELSE @ \cup {row}]
      BY <2>2 DEF Loading!InsertRow, Loading!NextRows
    <3>2. /\ loadPending'[Job] = loadPending[Job] \ {row}
          /\ loadMine'[Job] = IF row \in loadRows THEN loadMine[Job] ELSE loadMine[Job] \cup {row}
          /\ DOMAIN loadPending' = {Job} /\ DOMAIN loadMine' = {Job}
      BY <3>1
    <3>3. loadPc[Job] = "loading" /\ UNCHANGED <<stage, newest, loadPc, feed, lines, loadRows, pc>>
      BY <1>3, <2>2 DEF Ingest, Loading!InsertRow, Loading!tableVars
    <3> QED
      BY <3>2, <3>3 DEF FeedRows
  <2> QED
    BY <1>3, <2>1, <2>2 DEF Ingest
<1>4. CASE CommitLoad
  <2>1. /\ loadPc[Job] = "loading" /\ loadPending[Job] = {}
        /\ loadRows' = loadRows \cup loadMine[Job] /\ newest' = newest
        /\ loadPc'[Job] = "idle" /\ loadMine'[Job] = {} /\ stage' = "detect"
    BY <1>4 DEF CommitLoad, Loading!LogAndCommit
  <2>2. FeedRows(newest)' = FeedRows(newest) /\ newest \in FeedNames
    BY <2>1 DEF FeedRows
  <2>3. FeedRows(newest) \subseteq loadRows'
    BY <2>1
  <2>4. loadRows' \subseteq UNION {FeedRows(name) : name \in FeedNames}
    BY <2>1, <2>2
  <2>5. /\ loadPc' \in [{Job} -> {"idle", "opened", "loading"}]
        /\ DOMAIN feed' = {Job} /\ DOMAIN lines' = {Job}
        /\ DOMAIN loadPending' = {Job} /\ DOMAIN loadMine' = {Job}
        /\ loadPending'[Job] = {}
    BY <1>4, <2>1 DEF CommitLoad, Loading!LogAndCommit
  <2> QED
    BY <2>1, <2>2, <2>3, <2>4, <2>5 DEF FeedRows
<1>5. CASE LoadDies
  BY <1>5 DEF LoadDies, Loading!IngesterDies, Loading!tableVars, FeedRows
<1>6. CASE StartCycle
  BY <1>6 DEF StartCycle, loadVars, FeedRows
<1>7. CASE JobCycle
  <2>1. pc[Job] # "idle"
    BY <1>7, SameSteps, BusyRunner DEF JobCycle, Runs
  <2> QED
    BY <1>7, <2>1 DEF JobCycle, loadVars, FeedRows
<1>8. CASE CycleDies
  <2>1. pc[Job] # "idle" /\ pc'[Job] = "idle"
    BY <1>8, SameStatements DEF CycleDies, Cycles!Crash, Cycles!Rollback,
       Cycles!IInv, Cycles!CycleTypeOK
  <2> QED
    BY <1>8, <2>1 DEF CycleDies, loadVars, FeedRows
<1>9. ASSUME NEW r \in Hands, Proceed(r) \/ \E limit \in Limits : Scan(r, limit)
      PROVE  LoadInvariant'
  <2>1. r # Job
    BY PipelineAssumption
  <2>2. pc'[Job] = pc[Job]
    <3>1. CASE Proceed(r)
      BY <2>1, <3>1, SameSteps, ProceedEffect DEF Proceed, Runs
    <3>2. CASE \E limit \in Limits : Scan(r, limit)
      BY <2>1, <3>2, SameSteps DEF Scan, Cycles!Scan, Cycles!IInv, Cycles!CycleTypeOK
    <3> QED
      BY <1>9, <3>1, <3>2
  <2> QED
    BY <1>9, <2>2 DEF Proceed, Scan, loadVars, FeedRows
<1>10. CASE UNCHANGED vars
  BY <1>10 DEF vars, loadVars, detectVars, FeedRows
<1> QED
  BY <1>1, <1>2, <1>3, <1>4, <1>5, <1>6, <1>7, <1>8, <1>9, <1>10 DEF Next, RunJob

----------------------------------------------------------------------------
(***************************************************************************)
(* The joint invariant.                                                    *)
(***************************************************************************)
NewLogIds == LogsIn(Loading!NewLogs(Job))

(* What a load commits is new, and there is a log_id for it.               *)
LEMMA NewLogsAreNew ==
  ASSUME LoadInvariant
  PROVE  /\ Logs \subseteq LogIds
         /\ NewLogIds \subseteq LogIds \ Logs
         /\ loadPc[Job] = "idle" => NewLogIds = {}
<1>1. \A name \in FeedNames : \A row \in FeedRows(name) :
        row.table = "logs_raw" => row \in LogRows
  BY DEF FeedRows, Loading!RowsOf, Loading!LogRowsOf, Loading!RejectRowsOf,
         Loading!LogRow, Loading!RejectRow, LogRows
<1>2. \A row \in loadRows : row.table = "logs_raw" => row \in LogRows
  BY <1>1 DEF LoadInvariant
<1>3. \A row \in loadMine[Job] :
        row \notin loadRows /\ (row.table = "logs_raw" => row \in LogRows)
  BY <1>1 DEF LoadInvariant
<1> QED
  BY <1>2, <1>3, PipelineAssumption
     DEF NewLogIds, Logs, LogsIn, Loading!NewLogs, LoadInvariant

(* A commit of a load adds what it has inserted.                           *)
LEMMA LoadAdds ==
  ASSUME Loading!LogAndCommit(Job)
  PROVE  Logs' = Logs \cup NewLogIds
BY DEF Loading!LogAndCommit, Logs, LogsIn, NewLogIds, Loading!NewLogs

(* The steps of the pipeline are those of detection cycles, or loads.      *)
LEMMA StepIsCycle ==
  ASSUME LoadInvariant, [Next]_vars
  PROVE  \/ Cycles!Next
         \/ UNCHANGED <<Logs, processed, book, Cycles!cycleVars, entered>>
<1> USE DEF Cycles!cycleVars, detectVars
<1>1. CASE Simulate \/ ResolveLatest \/ Ingest \/ LoadDies
  BY <1>1 DEF Simulate, ResolveLatest, Ingest, LoadDies, loadVars, Logs,
     Loading!ResolveLatest, Loading!OpenFeed, Loading!ReadFeed, Loading!InsertRow,
     Loading!IngesterDies, Loading!tableVars
<1>2. CASE CommitLoad
  <2>1. Logs' = Logs \cup NewLogIds
    BY <1>2, LoadAdds DEF CommitLoad
  <2>2. UNCHANGED <<processed, book, status, totals, Cycles!cycleVars, crashes, entered>>
    BY <1>2 DEF CommitLoad, Loading!LogAndCommit
  <2>3. CASE NewLogIds = {}
    BY <2>1, <2>2, <2>3
  <2>4. CASE NewLogIds # {}
    BY <2>1, <2>2, <2>4, NewLogsAreNew DEF Cycles!Next, Cycles!Ingest, Logs
  <2> QED
    BY <2>3, <2>4
<1>3. ASSUME NEW r \in Runs, Cycles!Cycle(r) \/ Cycles!Crash(r)
      PROVE  Cycles!Next
  BY <1>3 DEF Cycles!Next, Runs
<1>4. CASE StartCycle
  BY <1>3, <1>4, SameSteps DEF StartCycle, Cycles!Cycle, Runs
<1>5. CASE JobCycle
  BY <1>3, <1>5, SameSteps DEF JobCycle, Cycles!Cycle, Runs
<1>6. CASE CycleDies
  BY <1>3, <1>6, SameStatements DEF CycleDies, Runs
<1>7. ASSUME NEW r \in Hands, Proceed(r) \/ \E limit \in Limits : Scan(r, limit)
      PROVE  Cycles!Next
  BY <1>3, <1>7, SameSteps DEF Proceed, Scan, Cycles!Cycle, Runs
<1>8. CASE UNCHANGED vars
  BY <1>8 DEF vars, loadVars, Logs
<1> QED
  BY <1>1, <1>2, <1>4, <1>5, <1>6, <1>7, <1>8 DEF Next, RunJob

PipelineInvariant == LoadInvariant /\ Cycles!IInv

LEMMA PipelineInit == Init => PipelineInvariant
<1> SUFFICES ASSUME Init PROVE Cycles!IInv
  BY LoadInit DEF PipelineInvariant
<1>1. Cycles!Init
  BY DEF Init, Detection!Init, Loading!Init, Cycles!Init, LogsIn
<1> QED
  BY <1>1, CycleConstants, Cycles!InitEstablishes

LEMMA PipelineNext == PipelineInvariant /\ [Next]_vars => PipelineInvariant'
<1> SUFFICES ASSUME LoadInvariant, Cycles!IInv, [Next]_vars
             PROVE  LoadInvariant' /\ Cycles!IInv'
  BY DEF PipelineInvariant
<1>1. LoadInvariant'
  BY LoadNext
<1>2. CASE Cycles!Next
  BY <1>1, <1>2, CycleConstants, Cycles!NextPreserves
<1>3. CASE UNCHANGED <<Logs, processed, book, Cycles!cycleVars, entered>>
  BY <1>1, <1>3, CycleConstants, Cycles!UnchangedPreserves DEF Logs
<1> QED
  BY <1>1, <1>2, <1>3, StepIsCycle

THEOREM PipelineInductive == Spec => []PipelineInvariant
BY PipelineInit, PipelineNext, PTL DEF Spec

----------------------------------------------------------------------------
(***************************************************************************)
(* What a step does to the logs, the book and the batches, whoever takes   *)
(* it.                                                                     *)
(***************************************************************************)
Undisturbed(q) == pc'[q] = pc[q] /\ batch'[q] = batch[q]

OnlyDisturbs(r) ==
  /\ \A q \in Runs \ {r} : Undisturbed(q)
  /\ UNCHANGED <<newest, Logs, arrivals>>

Loads ==
  /\ \A q \in Runs : Undisturbed(q)
  /\ UNCHANGED <<processed, book, entered, limited>>
  /\ pc[Job] # "idle" => newest' = newest
  /\ \/ UNCHANGED <<Logs, arrivals>>
     \/ /\ Logs' = Logs \cup NewLogIds
        /\ arrivals' = arrivals \cup ({NewLogIds} \ {{}})

Scans(r) ==
  /\ OnlyDisturbs(r)
  /\ UNCHANGED <<processed, book, entered>>
  /\ limited => limited'
  /\ ~limited' \/ r = Job => batch'[r] = Logs \ processed
  /\ r = Job => stage = "detect"

Enters(r) ==
  /\ OnlyDisturbs(r)
  /\ UNCHANGED limited
  /\ processed' = processed \cup batch[r]
  /\ entered' = entered \cup {batch[r]}
  /\ book' = book \cup Cycles!RowsOf(batch[r])
  /\ pc'[r] = "idle" /\ batch'[r] = {}

GoesOnOrGivesUp(r) ==
  /\ OnlyDisturbs(r)
  /\ UNCHANGED <<processed, book, entered, limited>>
  /\ \/ pc[r] # "idle" /\ batch'[r] = batch[r]
     \/ pc'[r] = "idle" /\ batch'[r] = {}

LEMMA ProceedIs ==
  ASSUME Cycles!IInv, NEW r \in Runs, Cycles!Proceed(r),
         UNCHANGED <<newest, Logs, arrivals, limited>>
  PROVE  Enters(r) \/ GoesOnOrGivesUp(r)
BY ProceedEffect, BusyRunner DEF Enters, GoesOnOrGivesUp, OnlyDisturbs, Undisturbed

LEMMA ScanIs ==
  ASSUME Cycles!IInv, NEW r \in Runs, NEW limit, Cycles!Scan(r, limit),
         UNCHANGED <<newest, Logs, arrivals>>,
         limited \/ (limit # 0) => limited', r = Job => limit = 0 /\ stage = "detect"
  PROVE  Scans(r)
<1>1. pc \in [Runs -> {"idle", "scanned", "alerts", "links", "incidents", "marked"}]
      /\ DOMAIN batch = Runs
  BY DEF Cycles!IInv, Cycles!CycleTypeOK, Runs
<1>2. /\ \A q \in Runs \ {r} : Undisturbed(q)
      /\ batch'[r] = Cycles!LoadUnprocessed(limit)
  BY <1>1 DEF Cycles!Scan, Undisturbed
<1>3. Cycles!LoadUnprocessed(0) = Logs \ processed
  BY DEF Cycles!LoadUnprocessed, Logs
<1>4. UNCHANGED <<processed, book, entered>>
  BY DEF Cycles!Scan, Cycles!tableVars
<1> QED
  BY <1>2, <1>3, <1>4 DEF Scans, OnlyDisturbs

LEMMA CrashIs ==
  ASSUME Cycles!IInv, NEW r \in Runs, Cycles!Crash(r),
         UNCHANGED <<newest, Logs, arrivals, limited>>
  PROVE  GoesOnOrGivesUp(r)
<1>1. DOMAIN pc = Runs /\ DOMAIN batch = Runs
  BY DEF Cycles!IInv, Cycles!CycleTypeOK, Runs
<1> QED
  BY <1>1 DEF Cycles!Crash, Cycles!Rollback, Cycles!tableVars, GoesOnOrGivesUp, OnlyDisturbs,
     Undisturbed

LEMMA Effects ==
  ASSUME LoadInvariant, Cycles!IInv, [Next]_vars
  PROVE  Loads \/ \E r \in Runs : Scans(r) \/ Enters(r) \/ GoesOnOrGivesUp(r)
<1> USE DEF detectVars
<1>1. CASE Simulate
  <2>1. pc[Job] = "idle"
    BY <1>1 DEF Simulate, LoadInvariant
  <2> QED
    BY <1>1, <2>1 DEF Simulate, loadVars, Loads, Undisturbed, Logs
<1>2. CASE ResolveLatest \/ Ingest \/ LoadDies
  BY <1>2 DEF ResolveLatest, Ingest, LoadDies, Loads, Undisturbed, Logs,
     Loading!ResolveLatest, Loading!OpenFeed, Loading!ReadFeed, Loading!InsertRow,
     Loading!IngesterDies, Loading!tableVars
<1>3. CASE CommitLoad
  <2>1. Logs' = Logs \cup NewLogIds
    BY <1>3, LoadAdds DEF CommitLoad
  <2> QED
    BY <1>3, <2>1 DEF CommitLoad, Loads, Undisturbed, NewLogIds
<1>4. CASE StartCycle
  <2>1. Cycles!Scan(Job, 0) /\ stage = "detect" /\ UNCHANGED <<newest, Logs, arrivals, limited>>
    BY <1>4, SameSteps DEF StartCycle, loadVars, Logs
  <2> QED
    BY <2>1, ScanIs DEF Runs
<1>5. CASE JobCycle
  <2>1. Cycles!Proceed(Job) /\ UNCHANGED <<newest, Logs, arrivals, limited>>
    BY <1>5, SameSteps DEF JobCycle, loadVars, Logs
  <2> QED
    BY <2>1, ProceedIs DEF Runs
<1>6. CASE CycleDies
  <2>1. Cycles!Crash(Job) /\ UNCHANGED <<newest, Logs, arrivals, limited>>
    BY <1>6, SameStatements DEF CycleDies, loadVars, Logs
  <2> QED
    BY <2>1, CrashIs DEF Runs
<1>7. ASSUME NEW r \in Hands, Proceed(r)
      PROVE  Enters(r) \/ GoesOnOrGivesUp(r)
  <2>1. Cycles!Proceed(r) /\ UNCHANGED <<newest, Logs, arrivals, limited>>
    BY <1>7, SameSteps DEF Proceed, loadVars, Logs
  <2> QED
    BY <2>1, ProceedIs DEF Runs
<1>8. ASSUME NEW r \in Hands, NEW limit \in Limits, Scan(r, limit)
      PROVE  Scans(r)
  <2>1. /\ Cycles!Scan(r, limit) /\ UNCHANGED <<newest, Logs, arrivals>>
        /\ limited \/ (limit # 0) => limited'
    BY <1>8, SameSteps DEF Scan, loadVars, Logs
  <2> QED
    BY <2>1, ScanIs, PipelineAssumption DEF Runs
<1>9. CASE UNCHANGED vars
  BY <1>9 DEF vars, loadVars, Loads, Undisturbed, Logs
<1> QED
  BY <1>1, <1>2, <1>3, <1>4, <1>5, <1>6, <1>7, <1>8, <1>9 DEF Next, RunJob, Runs

----------------------------------------------------------------------------
(***************************************************************************)
(* The results.                                                            *)
(***************************************************************************)

(* What the detection stage promises holds of the pipeline: loads and      *)
(* cycles, however they overlap and fail, are arrivals of logs and entries *)
(* of whole batches.                                                       *)
THEOREM PipelineImplementsBook == Spec => ImplementsBook
<1>1. Init => Book!Init
  BY DEF Init, Book!Init, Detection!Init, Loading!Init, LogsIn
<1>2. ASSUME PipelineInvariant, [Next]_vars
      PROVE  [Book!Next]_<<Logs, processed, book>>
  <2>1. LoadInvariant /\ Cycles!IInv /\ LoadInvariant'
    BY <1>2, PipelineNext DEF PipelineInvariant
  <2>2. CASE Loads
    <3>1. Logs' \in SUBSET LogIds
      BY <2>1, <2>2, NewLogsAreNew DEF Loads
    <3> QED
      BY <2>2, <3>1 DEF Loads, Book!Next, Book!Arrive, Logs
  <2>3. ASSUME NEW r \in Runs, Enters(r)
        PROVE  Book!Next
    <3>1. batch[r] \in SUBSET Logs
      BY <2>1 DEF Cycles!IInv, Cycles!CycleTypeOK, Runs, Logs
    <3>2. Cycles!RowsOf(batch[r]) = Book!RowsOf(batch[r])
      BY DEF Cycles!RowsOf, Cycles!AlertRowsOf, Cycles!LinkRowsOf, Cycles!IncidentRowsOf,
             Cycles!AlertRow, Cycles!LinkRow, Cycles!IncidentRow,
             Book!RowsOf, Book!AlertRowsOf, Book!LinkRowsOf, Book!IncidentRowsOf,
             Book!AlertRow, Book!LinkRow, Book!IncidentRow
    <3>3. Book!Enter(batch[r])
      BY <2>3, <3>2 DEF Enters, OnlyDisturbs, Book!Enter, Logs
    <3> QED
      BY <3>1, <3>3 DEF Book!Next, Logs
  <2>4. ASSUME NEW r \in Runs, Scans(r) \/ GoesOnOrGivesUp(r)
        PROVE  UNCHANGED <<Logs, processed, book>>
    BY <2>4 DEF Scans, GoesOnOrGivesUp, OnlyDisturbs
  <2> QED
    BY <1>2, <2>1, <2>2, <2>3, <2>4, Effects
<1>3. PipelineInvariant /\ [Next]_vars => [Book!Next]_<<LogsIn(loadRows), processed, book>>
  BY <1>2 DEF Logs
<1> QED
  BY <1>1, <1>3, PipelineInductive, PTL DEF Spec, ImplementsBook, Book!Spec

(* While the job's cycle runs, its batch has what is unprocessed of the    *)
(* job's feed ...                                                          *)
JobInvariant ==
  pc[Job] # "idle" => LogsIn(FeedRows(newest)) \subseteq processed \cup batch[Job]

LEMMA JobNext ==
  ASSUME LoadInvariant, Cycles!IInv, JobInvariant, [Next]_vars
  PROVE  JobInvariant'
<1> SUFFICES ASSUME pc'[Job] # "idle"
             PROVE  LogsIn(FeedRows(newest')) \subseteq processed' \cup batch'[Job]
  BY DEF JobInvariant, FeedRows
<1>1. CASE Loads
  BY <1>1 DEF Loads, Undisturbed, JobInvariant, Runs
<1>2. ASSUME NEW r \in Runs, r # Job, Scans(r) \/ Enters(r) \/ GoesOnOrGivesUp(r)
      PROVE  LogsIn(FeedRows(newest')) \subseteq processed' \cup batch'[Job]
  BY <1>2 DEF Scans, Enters, GoesOnOrGivesUp, OnlyDisturbs, Undisturbed, JobInvariant, Runs
<1>3. CASE Scans(Job)
  <2>1. FeedRows(newest) \subseteq loadRows
    BY <1>3 DEF Scans, LoadInvariant
  <2>2. LogsIn(FeedRows(newest)) \subseteq Logs
    BY <2>1 DEF LogsIn, Logs
  <2> QED
    BY <1>3, <2>2 DEF Scans, OnlyDisturbs
<1>4. CASE Enters(Job) \/ GoesOnOrGivesUp(Job)
  BY <1>4 DEF Enters, GoesOnOrGivesUp, OnlyDisturbs, JobInvariant
<1> QED
  BY <1>1, <1>2, <1>3, <1>4, Effects

(* ... so that a job that gets to its end has processed it.                *)
THEOREM CompleteJobs == Spec => JobsProcessTheirFeed
<1>1. Init => JobInvariant
  BY DEF Init, Detection!Init, JobInvariant
<1>2. PipelineInvariant /\ JobInvariant /\ [Next]_vars => JobInvariant'
  BY JobNext DEF PipelineInvariant
<1>3. Spec => []JobInvariant
  BY <1>1, <1>2, PipelineInductive, PTL DEF Spec
<1>4. ASSUME JobInvariant, CompletesJob
      PROVE  LogsIn(Loading!RowsOf(newest, FeedOf[newest])) \subseteq processed'
  BY <1>4 DEF CompletesJob, Detection!LogAndCommit, JobInvariant, FeedRows
<1>5. JobInvariant /\ [Next]_vars =>
        [CompletesJob => LogsIn(Loading!RowsOf(newest, FeedOf[newest])) \subseteq processed']_vars
  BY <1>4
<1> QED
  BY <1>3, <1>5, PTL DEF Spec, JobsProcessTheirFeed

(* Without --limit logs that arrived together are in the same batches.     *)
ArrivalInvariant ==
  /\ \A A \in arrivals : A # {} /\ A \subseteq Logs
  /\ ~limited => \A A \in arrivals :
       /\ \A B \in entered : A \subseteq B \/ A \cap B = {}
       /\ \A r \in Runs : A \subseteq batch[r] \/ A \cap batch[r] = {}

LEMMA ArrivalNext ==
  ASSUME LoadInvariant, Cycles!IInv, ArrivalInvariant, [Next]_vars
  PROVE  ArrivalInvariant'
<1>1. /\ \A B \in entered : B \subseteq Logs
      /\ \A r \in Runs : batch[r] \subseteq Logs
      /\ processed = UNION entered
  BY DEF Cycles!IInv, Cycles!CycleTypeOK, Cycles!BookMatchesRuns, Runs, Logs
<1>2. CASE Loads
  <2>1. CASE UNCHANGED <<Logs, arrivals>>
    BY <1>2, <2>1 DEF Loads, Undisturbed, ArrivalInvariant
  <2>2. CASE /\ Logs' = Logs \cup NewLogIds
             /\ arrivals' = arrivals \cup ({NewLogIds} \ {{}})
    <3>1. NewLogIds \cap Logs = {}
      BY NewLogsAreNew
    <3>2. \A A \in arrivals' : A # {} /\ A \subseteq Logs' /\ (A \in arrivals \/ A = NewLogIds)
      BY <2>2 DEF ArrivalInvariant
    <3>3. UNCHANGED <<entered, limited>> /\ \A r \in Runs : batch'[r] = batch[r]
      BY <1>2 DEF Loads, Undisturbed
    <3>4. ASSUME ~limited, NEW A \in arrivals'
          PROVE  /\ \A B \in entered : A \subseteq B \/ A \cap B = {}
                 /\ \A r \in Runs : A \subseteq batch[r] \/ A \cap batch[r] = {}
      <4>1. CASE A \in arrivals
        BY <3>4, <4>1 DEF ArrivalInvariant
      <4>2. CASE A = NewLogIds
        BY <1>1, <3>1, <4>2
      <4> QED
        BY <3>2, <4>1, <4>2
    <3> QED
      BY <3>2, <3>3, <3>4 DEF ArrivalInvariant
  <2> QED
    BY <1>2, <2>1, <2>2 DEF Loads
<1>3. ASSUME NEW r \in Runs, Scans(r)
      PROVE  ArrivalInvariant'
  <2>1. /\ UNCHANGED <<Logs, arrivals, entered>> /\ (limited => limited')
        /\ \A q \in Runs \ {r} : batch'[q] = batch[q]
        /\ ~limited' => batch'[r] = Logs \ processed
    BY <1>3 DEF Scans, OnlyDisturbs, Undisturbed
  <2>2. ASSUME ~limited, NEW A \in arrivals
        PROVE  A \subseteq Logs \ processed \/ A \cap (Logs \ processed) = {}
    BY <1>1, <2>2 DEF ArrivalInvariant
  <2> QED
    BY <2>1, <2>2 DEF ArrivalInvariant
<1>4. ASSUME NEW r \in Runs, Enters(r) \/ GoesOnOrGivesUp(r)
      PROVE  ArrivalInvariant'
  <2>1. /\ UNCHANGED <<Logs, arrivals, limited>>
        /\ \A q \in Runs : batch'[q] \in {batch[q], {}}
        /\ entered' \subseteq entered \cup {batch[r]}
    BY <1>4 DEF Enters, GoesOnOrGivesUp, OnlyDisturbs, Undisturbed
  <2> QED
    BY <2>1 DEF ArrivalInvariant
<1> QED
  BY <1>2, <1>3, <1>4, Effects

LEMMA ArrivalInductive == Spec => []ArrivalInvariant
<1>1. Init => ArrivalInvariant
  BY DEF Init, ArrivalInvariant
<1>2. PipelineInvariant /\ ArrivalInvariant /\ [Next]_vars => ArrivalInvariant'
  BY ArrivalNext DEF PipelineInvariant
<1> QED
  BY <1>1, <1>2, PipelineInductive, PTL DEF Spec

(* As long as no cycle is run with --limit, the logs of one load are       *)
(* scanned in one batch or not yet.                                        *)
THEOREM ArrivalsStayWhole == Spec => []WholeArrivals
<1>1. ArrivalInvariant => WholeArrivals
  BY DEF ArrivalInvariant, WholeArrivals
<1> QED
  BY <1>1, ArrivalInductive, PTL

(* ... and so, under rules that find more in more logs, what they find in  *)
(* one load alone is alerted, with links to all of its evidence.           *)
THEOREM AttacksNeverMissed == Spec => []AttacksAlerted
<1>1. ASSUME PipelineInvariant, ArrivalInvariant, ~limited,
             NEW A \in arrivals, A \subseteq processed, NEW k \in Detected[A]
      PROVE  \E j \in Keys : /\ Subject[j] = Subject[k]
                            /\ Detection!AlertRow(j) \in book
                            /\ \A l \in Evidence[A][k] : Detection!LinkRow(j, l) \in book
  <2>1. /\ processed = UNION entered /\ entered \subseteq SUBSET Logs
        /\ book = UNION {Cycles!RowsOf(B) : B \in entered}
        /\ Logs \subseteq LogIds
    BY <1>1 DEF PipelineInvariant, Cycles!IInv, Cycles!CycleTypeOK, Cycles!BookMatchesRuns, Logs
  <2>2. PICK B \in entered : A \subseteq B
    <3>1. PICK l \in A : TRUE
      BY <1>1 DEF ArrivalInvariant
    <3>2. PICK B \in entered : l \in B
      BY <1>1, <2>1, <3>1
    <3> QED
      BY <1>1, <3>1, <3>2 DEF ArrivalInvariant
  <2>3. B \in SUBSET LogIds /\ A \in SUBSET B
    BY <2>1, <2>2
  <2>4. PICK j \in Detected[B] : Subject[j] = Subject[k] /\ Evidence[A][k] \subseteq Evidence[B][j]
    BY <1>1, <2>3, RulesAssumption
  <2>5. j \in Keys
    BY <2>3, <2>4, CycleConstants DEF Cycles!DetectionAssumption
  <2>6. Cycles!RowsOf(B) \subseteq book
    BY <2>1, <2>2
  <2>7. /\ Detection!AlertRow(j) \in Cycles!RowsOf(B)
        /\ \A l \in Evidence[B][j] : Detection!LinkRow(j, l) \in Cycles!RowsOf(B)
    BY <2>4 DEF Cycles!RowsOf, Cycles!AlertRowsOf, Cycles!LinkRowsOf, Cycles!AlertRow,
       Cycles!LinkRow, Detection!AlertRow, Detection!LinkRow
  <2> QED
    BY <2>4, <2>5, <2>6, <2>7
<1>2. PipelineInvariant /\ ArrivalInvariant => AttacksAlerted
  BY <1>1 DEF AttacksAlerted
<1> QED
  BY <1>2, PipelineInductive, ArrivalInductive, PTL
=============================================================================
