------------------------ MODULE DetectionCycleProofs ------------------------
(***************************************************************************)
(* For any number of concurrent detection cycles, any logs and any rules:  *)
(* the alert book holds exactly what the committed cycles detected, high   *)
(* alerts are escalated, unique keys are held once, and the detailed       *)
(* cycles implement AlertBook.                                             *)
(***************************************************************************)
EXTENDS DetectionCycle, FiniteSetTheorems, TLAPS

----------------------------------------------------------------------------
(***************************************************************************)
(* Lemmas about rows.                                                      *)
(***************************************************************************)

(* Rows of different tables, or with different keys, differ.               *)
LEMMA RowsDiffer ==
  /\ \A k, m : AlertRow(k) = AlertRow(m) => k = m
  /\ \A k, m : IncidentRow(k) = IncidentRow(m) => k = m
  /\ \A k, m : AlertRow(k) # IncidentRow(m)
  /\ \A k, m, l : AlertRow(k) # LinkRow(m, l)
  /\ \A k, m, l : IncidentRow(k) # LinkRow(m, l)
BY DEF AlertRow, IncidentRow, LinkRow

LEMMA RowsOfBatch ==
  ASSUME NEW B
  PROVE  /\ \A k : AlertRow(k) \in RowsOf(B) <=> k \in Detected[B]
         /\ \A k : IncidentRow(k) \in RowsOf(B) <=> k \in Detected[B] \cap HighKeys
<1>1. \A k : AlertRow(k) \notin LinkRowsOf(B) /\ IncidentRow(k) \notin LinkRowsOf(B)
  BY RowsDiffer DEF LinkRowsOf
<1>2. \A k : AlertRow(k) \notin IncidentRowsOf(B) /\ IncidentRow(k) \notin AlertRowsOf(B)
  BY RowsDiffer DEF AlertRowsOf, IncidentRowsOf
<1>3. \A k : AlertRow(k) \in AlertRowsOf(B) <=> k \in Detected[B]
  BY RowsDiffer DEF AlertRowsOf
<1>4. \A k : IncidentRow(k) \in IncidentRowsOf(B) <=> k \in Detected[B] \cap HighKeys
  BY RowsDiffer DEF IncidentRowsOf
<1> QED
  BY <1>1, <1>2, <1>3, <1>4 DEF RowsOf

(* The key of a link of the batch is a detected one.                       *)
LEMMA LinkKeys ==
  ASSUME NEW B, NEW link \in LinkRowsOf(B)
  PROVE  KeyOf(link) \in Detected[B]
BY DEF LinkRowsOf, LinkRow, KeyOf

----------------------------------------------------------------------------
(***************************************************************************)
(* The inductive invariant.  RunInvariant says what the open transaction   *)
(* of a runner has achieved when it gets to each statement: everything     *)
(* called for by the statements behind it is visible to it, and it has     *)
(* inserted nothing but what its batch calls for.                          *)
(***************************************************************************)
CycleTypeOK ==
  /\ logs \subseteq LogIds
  /\ pc \in [Runners -> {"idle", "scanned", "alerts", "links", "incidents", "marked"}]
  /\ batch \in [Runners -> SUBSET logs]
  /\ DOMAIN pending = Runners /\ pending = [r \in Runners |-> pending[r]]
  /\ DOMAIN mine = Runners /\ mine = [r \in Runners |-> mine[r]]
  /\ entered \subseteq SUBSET logs

RunInvariant(r) ==
  LET B == batch[r]
      V == rows \cup mine[r]
  IN  /\ pc[r] \in {"idle", "scanned"} => mine[r] = {} /\ pending[r] = {}
      /\ pc[r] = "alerts" =>
           /\ pending[r] \subseteq AlertRowsOf(B)
           /\ mine[r] \subseteq AlertRowsOf(B)
           /\ AlertRowsOf(B) \subseteq V \cup pending[r]
      /\ pc[r] = "links" =>
           /\ pending[r] \subseteq LinkRowsOf(B)
           /\ mine[r] \subseteq AlertRowsOf(B) \cup LinkRowsOf(B)
           /\ AlertRowsOf(B) \subseteq V
           /\ LinkRowsOf(B) \subseteq V \cup pending[r]
      /\ pc[r] = "incidents" =>
           /\ pending[r] \subseteq IncidentRowsOf(B)
           /\ mine[r] \subseteq RowsOf(B)
           /\ AlertRowsOf(B) \cup LinkRowsOf(B) \subseteq V
           /\ IncidentRowsOf(B) \subseteq V \cup pending[r]
      /\ pc[r] = "marked" =>
           /\ pending[r] = {}
           /\ mine[r] \subseteq RowsOf(B)
           /\ RowsOf(B) \subseteq V

IInv ==
  /\ CycleTypeOK
  /\ BookMatchesRuns
  /\ UniqueKeys
  /\ \A r \in Runners : RunInvariant(r)

(* In the book an alert of high severity has its incident.                 *)
LEMMA BookEscalated ==
  ASSUME IInv
  PROVE  \A k : IncidentRow(k) \in rows <=> k \in HighKeys /\ AlertRow(k) \in rows
<1>1. rows = UNION {RowsOf(B) : B \in entered}
  BY DEF IInv, BookMatchesRuns
<1>2. \A k : AlertRow(k) \in rows <=> \E B \in entered : k \in Detected[B]
  BY <1>1, RowsOfBatch
<1>3. \A k : IncidentRow(k) \in rows <=> \E B \in entered : k \in Detected[B] \cap HighKeys
  BY <1>1, RowsOfBatch
<1> QED
  BY <1>2, <1>3

LEMMA InitEstablishes == Init => IInv
BY DEF Init, IInv, CycleTypeOK, BookMatchesRuns, UniqueKeys, RunInvariant

(* The invariant of one runner survives steps that leave its transaction   *)
(* alone and lose no row.                                                  *)
LEMMA OthersUndisturbed ==
  ASSUME IInv, NEW r \in Runners, rows \subseteq rows',
         pc'[r] = pc[r], batch'[r] = batch[r], pending'[r] = pending[r],
         mine'[r] = mine[r]
  PROVE  RunInvariant(r)'
<1>1. RunInvariant(r)
  BY DEF IInv
<1> QED
  BY <1>1 DEF RunInvariant

(* A transaction that rolls back leaves nothing behind.                    *)
LEMMA RollbackPreserves ==
  ASSUME IInv, NEW r \in Runners, Rollback(r)
  PROVE  IInv'
<1> USE DEF Rollback, tableVars
<1>1. CycleTypeOK'
  BY DEF IInv, CycleTypeOK
<1>2. BookMatchesRuns'
  BY DEF IInv, BookMatchesRuns
<1>3. mine'[r] = {} /\ \A q \in Runners \ {r} : mine'[q] = mine[q]
  BY DEF IInv, CycleTypeOK
<1>4. UniqueKeys'
  BY <1>3 DEF IInv, UniqueKeys
<1>5. ASSUME NEW q \in Runners PROVE RunInvariant(q)'
  <2>1. CASE q = r
    BY <2>1 DEF IInv, CycleTypeOK, RunInvariant
  <2>2. CASE q # r
    BY <2>2, OthersUndisturbed DEF IInv, CycleTypeOK
  <2> QED
    BY <2>1, <2>2
<1> QED
  BY <1>1, <1>2, <1>4, <1>5 DEF IInv

(* One row of an INSERT.                                                   *)
LEMMA InsertRowPreserves ==
  ASSUME IInv, NEW r \in Runners, InsertRow(r),
         pc[r] \in {"alerts", "links", "incidents"}
  PROVE  IInv'
<1>1. PICK row \in pending[r] :
        /\ ~HeldByOther(r, row)
        /\ pending' = [pending EXCEPT ![r] = @ \ {row}]
        /\ mine' = [mine EXCEPT ![r] = IF row \in rows THEN @ ELSE @ \cup {row}]
  BY DEF InsertRow, NextRows
<1>2. UNCHANGED <<logs, processed, rows, entered, pc, batch>>
  BY DEF InsertRow, tableVars
<1>3. /\ pending'[r] = pending[r] \ {row}
      /\ mine'[r] = IF row \in rows THEN mine[r] ELSE mine[r] \cup {row}
      /\ \A q \in Runners \ {r} : pending'[q] = pending[q] /\ mine'[q] = mine[q]
  BY <1>1 DEF IInv, CycleTypeOK
<1>4. CycleTypeOK'
  BY <1>1, <1>2 DEF IInv, CycleTypeOK
<1>5. BookMatchesRuns'
  BY <1>2 DEF IInv, BookMatchesRuns
<1>6. UniqueKeys'
  <2>1. mine'[r] \cap rows = {}
    BY <1>3 DEF IInv, UniqueKeys
  <2>2. \A q \in Runners \ {r} : row \notin mine[q]
    BY <1>1 DEF HeldByOther
  <2>3. \A q \in Runners \ {r} : mine'[r] \cap mine'[q] = {}
    BY <1>3, <2>2 DEF IInv, UniqueKeys
  <2> QED
    BY <1>2, <1>3, <2>1, <2>3 DEF IInv, UniqueKeys
<1>7. ASSUME NEW q \in Runners PROVE RunInvariant(q)'
  <2>1. CASE q # r
    BY <2>1, <1>2, <1>3, OthersUndisturbed
  <2>2. CASE q = r
    <3>1. RunInvariant(r)
      BY DEF IInv
    <3>2. pending[r] \subseteq rows' \cup mine'[r] \cup pending'[r]
      BY <1>2, <1>3
    <3>3. /\ rows \cup mine[r] \subseteq rows' \cup mine'[r]
          /\ mine'[r] \subseteq mine[r] \cup pending[r]
          /\ pending'[r] \subseteq pending[r]
      BY <1>2, <1>3
    <3>4. CASE pc[r] = "alerts"
      BY <3>1, <3>2, <3>3, <3>4, <2>2, <1>2 DEF RunInvariant
    <3>5. CASE pc[r] = "links"
      BY <3>1, <3>2, <3>3, <3>5, <2>2, <1>2 DEF RunInvariant
    <3>6. CASE pc[r] = "incidents"
      BY <3>1, <3>2, <3>3, <3>6, <2>2, <1>2 DEF RunInvariant, RowsOf
    <3> QED
      BY <3>4, <3>5, <3>6
  <2> QED
    BY <2>1, <2>2
<1> QED
  BY <1>4, <1>5, <1>6, <1>7 DEF IInv

(* A step that only moves one runner to its next statement.                *)
LEMMA StagePreserves ==
  ASSUME IInv, NEW r \in Runners,
         UNCHANGED <<logs, processed, rows, entered, mine>>,
         CycleTypeOK',
         \A q \in Runners \ {r} :
           pc'[q] = pc[q] /\ batch'[q] = batch[q] /\ pending'[q] = pending[q],
         RunInvariant(r)'
  PROVE  IInv'
<1>1. BookMatchesRuns' /\ UniqueKeys'
  BY DEF IInv, BookMatchesRuns, UniqueKeys
<1>2. ASSUME NEW q \in Runners PROVE RunInvariant(q)'
  BY OthersUndisturbed
<1> QED
  BY <1>1, <1>2 DEF IInv

LEMMA ScanPreserves ==
  ASSUME IInv, NEW r \in Runners, NEW limit, Scan(r, limit)
  PROVE  IInv'
<1> USE DEF Scan, tableVars
<1>1. CycleTypeOK'
  BY DEF IInv, CycleTypeOK, LoadUnprocessed
<1>2. RunInvariant(r)'
  BY DEF IInv, CycleTypeOK, RunInvariant
<1> QED
  BY <1>1, <1>2, StagePreserves DEF IInv, CycleTypeOK

LEMMA StartAlertsPreserves ==
  ASSUME IInv, NEW r \in Runners, StartAlerts(r)
  PROVE  IInv'
<1> USE DEF StartAlerts, StartInsert, tableVars
<1>1. CycleTypeOK'
  BY DEF IInv, CycleTypeOK
<1>2. RunInvariant(r)'
  BY DEF IInv, CycleTypeOK, RunInvariant
<1> QED
  BY <1>1, <1>2, StagePreserves DEF IInv, CycleTypeOK

LEMMA StartLinksPreserves ==
  ASSUME IInv, NEW r \in Runners, StartLinks(r)
  PROVE  IInv'
<1> USE DEF StartLinks, StartInsert, tableVars
<1>1. CycleTypeOK'
  BY DEF IInv, CycleTypeOK
<1>2. AlertRowsOf(batch[r]) \subseteq rows \cup mine[r]
  BY DEF IInv, RunInvariant
<1>3. ResolvedLinks(r) = LinkRowsOf(batch[r])
  BY <1>2, LinkKeys DEF ResolvedLinks, Visible, AlertRowsOf
<1>4. RunInvariant(r)'
  BY <1>2, <1>3 DEF IInv, CycleTypeOK, RunInvariant
<1> QED
  BY <1>1, <1>4, StagePreserves DEF IInv, CycleTypeOK

(* The candidates for escalation are the batch's own: what others have     *)
(* committed is escalated already.                                         *)
LEMMA CandidatesAreOwn ==
  ASSUME IInv, NEW r \in Runners, pc[r] = "links", pending[r] = {}
  PROVE  /\ Candidates(r) \subseteq Detected[batch[r]] \cap HighKeys
         /\ \A k \in Detected[batch[r]] \cap HighKeys :
              IncidentRow(k) \in rows \cup mine[r] \/ k \in Candidates(r)
<1>1. /\ mine[r] \subseteq AlertRowsOf(batch[r]) \cup LinkRowsOf(batch[r])
      /\ AlertRowsOf(batch[r]) \subseteq rows \cup mine[r]
  BY DEF IInv, RunInvariant
<1>2. mine[r] \subseteq RowsOf(batch[r])
  BY <1>1 DEF RowsOf
<1>3. ASSUME NEW k \in Candidates(r)
      PROVE  k \in Detected[batch[r]] \cap HighKeys
  <2>1. k \in HighKeys /\ AlertRow(k) \in rows \cup mine[r] /\ IncidentRow(k) \notin rows
    BY DEF Candidates, Visible
  <2>2. AlertRow(k) \in mine[r]
    BY <2>1, BookEscalated
  <2> QED
    BY <2>1, <2>2, <1>2, RowsOfBatch
<1>4. ASSUME NEW k \in Detected[batch[r]] \cap HighKeys,
             IncidentRow(k) \notin rows \cup mine[r]
      PROVE  k \in Candidates(r)
  <2>1. AlertRow(k) \in rows \cup mine[r]
    BY <1>1 DEF AlertRowsOf
  <2>2. ~HasAlert(k)
    BY <1>4, BookEscalated DEF HasAlert
  <2> QED
    BY <2>1, <2>2, <1>4 DEF Candidates, Visible
<1> QED
  BY <1>3, <1>4

LEMMA StartIncidentsPreserves ==
  ASSUME IInv, NEW r \in Runners, StartIncidents(r)
  PROVE  IInv'
<1> USE DEF StartIncidents, StartInsert, tableVars
<1>1. CycleTypeOK'
  BY DEF IInv, CycleTypeOK
<1>2. pending'[r] = {IncidentRow(k) : k \in Candidates(r)}
  BY DEF IInv, CycleTypeOK
<1>3. pending'[r] \subseteq IncidentRowsOf(batch[r])
  BY <1>2, CandidatesAreOwn DEF IncidentRowsOf
<1>4. IncidentRowsOf(batch[r]) \subseteq rows \cup mine[r] \cup pending'[r]
  BY <1>2, CandidatesAreOwn DEF IncidentRowsOf
<1>5. RunInvariant(r)'
  <2>1. /\ mine[r] \subseteq AlertRowsOf(batch[r]) \cup LinkRowsOf(batch[r])
        /\ AlertRowsOf(batch[r]) \subseteq rows \cup mine[r]
        /\ LinkRowsOf(batch[r]) \subseteq rows \cup mine[r]
    BY DEF IInv, RunInvariant
  <2>2. pc'[r] = "incidents" /\ UNCHANGED <<rows, mine, batch>>
    BY DEF IInv, CycleTypeOK
  <2> QED
    BY <2>1, <2>2, <1>3, <1>4 DEF RunInvariant, RowsOf
<1> QED
  BY <1>1, <1>5, StagePreserves DEF IInv, CycleTypeOK

LEMMA MarkProcessedPreserves ==
  ASSUME IInv, NEW r \in Runners, MarkProcessed(r)
  PROVE  IInv'
<1> USE DEF MarkProcessed, tableVars
<1>1. CycleTypeOK'
  BY DEF IInv, CycleTypeOK
<1>2. RunInvariant(r)'
  BY DEF IInv, CycleTypeOK, RunInvariant, RowsOf
<1> QED
  BY <1>1, <1>2, StagePreserves DEF IInv, CycleTypeOK

(* What a COMMIT adds to the book is what its batch calls for.             *)
LEMMA CommitEntersBatch ==
  ASSUME IInv, NEW r \in Runners, LogAndCommit(r)
  PROVE  rows' = rows \cup RowsOf(batch[r])
<1>1. mine[r] \subseteq RowsOf(batch[r]) /\ RowsOf(batch[r]) \subseteq rows \cup mine[r]
  BY DEF IInv, RunInvariant, LogAndCommit
<1> QED
  BY <1>1 DEF LogAndCommit

LEMMA LogAndCommitPreserves ==
  ASSUME IInv, NEW r \in Runners, LogAndCommit(r)
  PROVE  IInv'
<1>1. CycleTypeOK'
  <2> USE DEF LogAndCommit
  <2>1. /\ logs' = logs /\ logs' \subseteq LogIds
        /\ pc' \in [Runners -> {"idle", "scanned", "alerts", "links", "incidents", "marked"}]
        /\ batch' \in [Runners -> SUBSET logs']
    BY DEF IInv, CycleTypeOK
  <2>2. /\ DOMAIN pending' = Runners /\ pending' = [q \in Runners |-> pending'[q]]
        /\ DOMAIN mine' = Runners /\ mine' = [q \in Runners |-> mine'[q]]
    BY DEF IInv, CycleTypeOK
  <2>3. batch[r] \in SUBSET logs /\ entered \subseteq SUBSET logs
    BY DEF IInv, CycleTypeOK
  <2>4. entered' \subseteq SUBSET logs'
    BY <2>1, <2>3
  <2> QED
    BY <2>1, <2>2, <2>4 DEF CycleTypeOK
<1>2. BookMatchesRuns'
  <2>1. entered' = entered \cup {batch[r]} /\ processed' = processed \cup batch[r]
    BY DEF LogAndCommit
  <2>2. rows' = rows \cup RowsOf(batch[r])
    BY CommitEntersBatch
  <2> QED
    BY <2>1, <2>2 DEF IInv, BookMatchesRuns
<1>3. /\ mine'[r] = {} /\ pc'[r] = "idle" /\ pending'[r] = pending[r]
      /\ \A q \in Runners \ {r} :
           /\ mine'[q] = mine[q] /\ pc'[q] = pc[q]
           /\ batch'[q] = batch[q] /\ pending'[q] = pending[q]
      /\ rows' = rows \cup mine[r]
  BY DEF IInv, CycleTypeOK, LogAndCommit
<1>4. UniqueKeys'
  BY <1>3 DEF IInv, UniqueKeys
<1>5. ASSUME NEW q \in Runners PROVE RunInvariant(q)'
  <2>1. CASE q = r
    <3>1. pending[r] = {}
      BY DEF IInv, RunInvariant, LogAndCommit
    <3> QED
      BY <3>1, <2>1, <1>3 DEF RunInvariant
  <2>2. CASE q # r
    BY <2>2, <1>3, OthersUndisturbed
  <2> QED
    BY <2>1, <2>2
<1> QED
  BY <1>1, <1>2, <1>4, <1>5 DEF IInv

LEMMA IngestPreserves == IInv /\ Ingest => IInv'
<1> SUFFICES ASSUME IInv, Ingest PROVE IInv'
  OBVIOUS
<1> USE DEF Ingest, cycleVars
<1>1. CycleTypeOK'
  BY DEF IInv, CycleTypeOK
<1>2. BookMatchesRuns' /\ UniqueKeys'
  BY DEF IInv, BookMatchesRuns, UniqueKeys
<1>3. ASSUME NEW q \in Runners PROVE RunInvariant(q)'
  BY OthersUndisturbed
<1> QED
  BY <1>1, <1>2, <1>3 DEF IInv

(* Steps that touch none of the variables of the invariant.                *)
LEMMA UnchangedPreserves ==
  ASSUME IInv, UNCHANGED <<logs, processed, rows, cycleVars, entered>>
  PROVE  IInv'
<1> USE DEF cycleVars
<1>1. CycleTypeOK' /\ BookMatchesRuns' /\ UniqueKeys'
  BY DEF IInv, CycleTypeOK, BookMatchesRuns, UniqueKeys
<1>2. ASSUME NEW q \in Runners PROVE RunInvariant(q)'
  BY OthersUndisturbed
<1> QED
  BY <1>1, <1>2 DEF IInv

LEMMA NextPreserves == IInv /\ [Next]_vars => IInv'
<1> SUFFICES ASSUME IInv, [Next]_vars PROVE IInv'
  OBVIOUS
<1>1. CASE Ingest
  BY <1>1, IngestPreserves
<1>2. CASE SetAlertStatus
  BY <1>2, UnchangedPreserves DEF SetAlertStatus
<1>3. ASSUME NEW r \in Runners, Cycle(r) \/ Crash(r)
      PROVE  IInv'
  <2>1. CASE \E limit \in Limits : Scan(r, limit)
    BY <2>1, ScanPreserves
  <2>2. CASE StartAlerts(r)
    BY <2>2, StartAlertsPreserves
  <2>3. CASE InsertAlert(r)
    BY <2>3, InsertRowPreserves DEF InsertAlert
  <2>4. CASE StartLinks(r)
    BY <2>4, StartLinksPreserves
  <2>5. CASE InsertLink(r)
    BY <2>5, InsertRowPreserves DEF InsertLink
  <2>6. CASE StartIncidents(r)
    BY <2>6, StartIncidentsPreserves
  <2>7. CASE InsertIncident(r)
    BY <2>7, InsertRowPreserves DEF InsertIncident
  <2>8. CASE MarkProcessed(r)
    BY <2>8, MarkProcessedPreserves
  <2>9. CASE LogAndCommit(r)
    BY <2>9, LogAndCommitPreserves
  <2>10. CASE Overflow(r) \/ DeadlockVictim(r) \/ Crash(r)
    BY <2>10, RollbackPreserves DEF Overflow, DeadlockVictim, Crash
  <2> QED
    BY <1>3, <2>1, <2>2, <2>3, <2>4, <2>5, <2>6, <2>7, <2>8, <2>9, <2>10 DEF Cycle, Proceed
<1>4. CASE UNCHANGED vars
  BY <1>4, UnchangedPreserves DEF vars, cycleVars
<1> QED
  BY <1>1, <1>2, <1>3, <1>4 DEF Next

(* The inductive invariant holds in every execution.                       *)
THEOREM CycleInductive == Spec => []IInv
BY InitEstablishes, NextPreserves, PTL DEF Spec

----------------------------------------------------------------------------
(***************************************************************************)
(* The results.                                                            *)
(***************************************************************************)

(* However many detection cycles overlap, abort or die, the tables hold    *)
(* the alerts, links and incidents of the committed cycles' batches, all   *)
(* of them and nothing else, and the processed logs are those batches.     *)
THEOREM BookIsExact == Spec => []BookMatchesRuns
<1>1. IInv => BookMatchesRuns
  BY DEF IInv
<1> QED
  BY <1>1, CycleInductive, PTL

(* At no moment is there a committed high-severity alert without incident, *)
(* so no analyst can dismiss one before it is escalated.                   *)
THEOREM AlwaysEscalated == Spec => []HighAlertsEscalated
<1>1. IInv => HighAlertsEscalated
  BY BookEscalated DEF HighAlertsEscalated, HasAlert
<1> QED
  BY <1>1, CycleInductive, PTL

(* The waiting of ON CONFLICT DO NOTHING keeps every unique key in one     *)
(* place: in the book or in one open transaction.                          *)
THEOREM KeysHeldOnce == Spec => []UniqueKeys
<1>1. IInv => UniqueKeys
  BY DEF IInv
<1> QED
  BY <1>1, CycleInductive, PTL

(* A step of the detailed system is a step of the book or changes nothing. *)
LEMMA StepSimulation ==
  ASSUME IInv, [Next]_vars
  PROVE  [Book!Next]_<<logs, processed, rows>>
<1>1. CASE Ingest
  <2>1. logs' \in SUBSET LogIds /\ logs \subseteq logs' /\ UNCHANGED <<processed, rows>>
    BY <1>1 DEF Ingest, IInv, CycleTypeOK
  <2> QED
    BY <2>1 DEF Book!Next, Book!Arrive
<1>2. ASSUME NEW r \in Runners, LogAndCommit(r)
      PROVE  Book!Next
  <2>1. batch[r] \in SUBSET logs
    BY DEF IInv, CycleTypeOK
  <2>2. Book!Enter(batch[r])
    <3>1. processed' = processed \cup batch[r] /\ UNCHANGED logs
      BY <1>2 DEF LogAndCommit
    <3>2. rows' = rows \cup RowsOf(batch[r])
      BY <1>2, CommitEntersBatch
    <3>3. RowsOf(batch[r]) = Book!RowsOf(batch[r])
      BY DEF RowsOf, AlertRowsOf, LinkRowsOf, IncidentRowsOf,
             AlertRow, LinkRow, IncidentRow,
             Book!RowsOf, Book!AlertRowsOf, Book!LinkRowsOf, Book!IncidentRowsOf,
             Book!AlertRow, Book!LinkRow, Book!IncidentRow
    <3> QED
      BY <3>1, <3>2, <3>3 DEF Book!Enter
  <2> QED
    BY <2>1, <2>2 DEF Book!Next
<1>3. ASSUME NEW r \in Runners, (Cycle(r) /\ ~LogAndCommit(r)) \/ Crash(r)
      PROVE  UNCHANGED <<logs, processed, rows>>
  BY <1>3 DEF Cycle, Proceed, Crash, Scan, StartAlerts, InsertAlert, StartLinks, InsertLink,
              StartIncidents, InsertIncident, MarkProcessed, Overflow,
              DeadlockVictim, Rollback, InsertRow, StartInsert, tableVars
<1>4. CASE SetAlertStatus \/ UNCHANGED vars
  BY <1>4 DEF SetAlertStatus, vars
<1> QED
  BY <1>1, <1>2, <1>3, <1>4 DEF Next

(* Concurrent, statement-by-statement detection with crashes, deadlocks    *)
(* and rollbacks implements the book in which batches are entered whole.   *)
THEOREM CyclesImplementBook == Spec => ImplementsBook
<1>1. Init => Book!Init
  BY DEF Init, Book!Init
<1>2. IInv /\ [Next]_vars => [Book!Next]_<<logs, processed, rows>>
  BY StepSimulation
<1> QED
  BY <1>1, <1>2, CycleInductive, PTL DEF Spec, Book!Spec, ImplementsBook

----------------------------------------------------------------------------
(***************************************************************************)
(* The run log.  With one runner the batch it has loaded is unprocessed    *)
(* until it commits, which makes the count of logs exact.                  *)
(***************************************************************************)
CountInvariant ==
  /\ totals \in [logs_processed : Nat, alerts_generated : Nat]
  /\ CountsAddUp
  /\ Cardinality(Runners) = 1 => \A r \in Runners : batch[r] \cap processed = {}

KeysWithAlert == {k \in Keys : HasAlert(k)}

LEMMA FiniteTables ==
  ASSUME IInv
  PROVE  /\ IsFiniteSet(KeysWithAlert) /\ Cardinality(KeysWithAlert) \in Nat
         /\ IsFiniteSet(processed) /\ Cardinality(processed) \in Nat
         /\ \A r \in Runners : /\ batch[r] \subseteq LogIds
                               /\ IsFiniteSet(batch[r])
                               /\ Cardinality(batch[r]) \in Nat
<1>1. IsFiniteSet(Keys) /\ IsFiniteSet(LogIds)
  BY RunnerAssumption
<1>2. processed \subseteq LogIds
  BY DEF IInv, CycleTypeOK, BookMatchesRuns
<1>3. \A r \in Runners : batch[r] \subseteq LogIds
  BY DEF IInv, CycleTypeOK
<1> QED
  BY <1>1, <1>2, <1>3, FS_Subset, FS_CardinalityType DEF KeysWithAlert

(* The new alerts of a transaction are counted by their keys.              *)
LEMMA NewAlertsByKey ==
  ASSUME IInv, NEW r \in Runners, mine[r] \subseteq RowsOf(batch[r])
  PROVE  LET M == {k \in Keys : AlertRow(k) \in mine[r]}
         IN  IsFiniteSet(M) /\ Cardinality(NewAlerts(r)) = Cardinality(M)
<1> DEFINE M == {k \in Keys : AlertRow(k) \in mine[r]}
           f == [k \in M |-> AlertRow(k)]
<1>1. IsFiniteSet(M)
  BY RunnerAssumption, FS_Subset
<1>2. NewAlerts(r) = {AlertRow(k) : k \in M}
  <2>1. ASSUME NEW row \in mine[r], row[1] = "alert"
        PROVE  \E k \in M : row = AlertRow(k)
    <3>1. row \in AlertRowsOf(batch[r])
      BY <2>1 DEF RowsOf, AlertRowsOf, LinkRowsOf, IncidentRowsOf, LinkRow, IncidentRow
    <3>2. Detected[batch[r]] \subseteq Keys
      BY FiniteTables, DetectionAssumption
    <3> QED
      BY <3>1, <3>2 DEF AlertRowsOf
  <2>2. \A k \in M : AlertRow(k) \in NewAlerts(r)
    BY DEF NewAlerts, AlertRow
  <2> QED
    BY <2>1, <2>2 DEF NewAlerts
<1>3. f \in Bijection(M, NewAlerts(r))
  BY <1>2, RowsDiffer DEF Bijection, Injection, Surjection, IsInjective
<1> QED
  BY <1>1, <1>3, FS_Bijection DEF ExistsBijection

LEMMA CommitCounts ==
  ASSUME IInv, CountInvariant, NEW r \in Runners, LogAndCommit(r)
  PROVE  CountInvariant'
<1> DEFINE M == {k \in Keys : AlertRow(k) \in mine[r]}
<1>1. mine[r] \subseteq RowsOf(batch[r])
  BY DEF IInv, RunInvariant, LogAndCommit
<1>2. IsFiniteSet(M) /\ Cardinality(NewAlerts(r)) = Cardinality(M) /\ Cardinality(M) \in Nat
  BY <1>1, NewAlertsByKey, FS_CardinalityType
<1>3. /\ totals'.logs_processed = totals.logs_processed + Cardinality(batch[r])
      /\ totals'.alerts_generated = totals.alerts_generated + Cardinality(M)
  BY <1>2 DEF LogAndCommit
<1>4. totals.logs_processed \in Nat /\ totals.alerts_generated \in Nat
  BY DEF CountInvariant
<1>5. totals' \in [logs_processed : Nat, alerts_generated : Nat]
  BY <1>2, <1>4, FiniteTables DEF LogAndCommit
<1>6. totals'.alerts_generated = Cardinality({k \in Keys : HasAlert(k)'})
  <2>1. {k \in Keys : HasAlert(k)'} = KeysWithAlert \cup M
    BY DEF LogAndCommit, HasAlert, KeysWithAlert
  <2>2. KeysWithAlert \cap M = {}
    BY DEF IInv, UniqueKeys, HasAlert, KeysWithAlert
  <2>3. Cardinality(KeysWithAlert \cup M) = Cardinality(KeysWithAlert) + Cardinality(M)
    <3>1. /\ IsFiniteSet(KeysWithAlert) /\ IsFiniteSet(M)
          /\ Cardinality(KeysWithAlert) \in Nat /\ Cardinality(M) \in Nat
      BY <1>2, FiniteTables
    <3>2. Cardinality(KeysWithAlert \cap M) = 0
      BY <2>2, FS_EmptySet
    <3> HIDE DEF M
    <3>3. Cardinality(KeysWithAlert \cup M) = Cardinality(KeysWithAlert)
             + Cardinality(M) - Cardinality(KeysWithAlert \cap M)
      BY <3>1, FS_Union
    <3> QED
      BY <3>1, <3>2, <3>3
  <2>4. totals.alerts_generated = Cardinality(KeysWithAlert)
    BY DEF CountInvariant, CountsAddUp, KeysWithAlert
  <2> QED
    BY <2>1, <2>3, <2>4, <1>3
<1>7. /\ Cardinality(processed') =
           Cardinality(processed) + Cardinality(batch[r]) - Cardinality(processed \cap batch[r])
      /\ Cardinality(processed \cap batch[r]) \in Nat
  <2>1. processed' = processed \cup batch[r]
    BY DEF LogAndCommit
  <2>2. IsFiniteSet(processed) /\ IsFiniteSet(batch[r])
    BY FiniteTables
  <2>3. IsFiniteSet(processed \cap batch[r])
    BY <2>2, FS_Intersection
  <2> QED
    BY <2>1, <2>2, <2>3, FS_Union, FS_CardinalityType
<1>8. totals'.logs_processed >= Cardinality(processed')
  BY <1>3, <1>4, <1>7, FiniteTables DEF CountInvariant, CountsAddUp
<1>9. ASSUME Cardinality(Runners) = 1
      PROVE  /\ totals'.logs_processed = Cardinality(processed')
             /\ \A q \in Runners : batch'[q] \cap processed' = {}
  <2>1. processed \cap batch[r] = {}
    BY <1>9 DEF CountInvariant
  <2>2. totals'.logs_processed = Cardinality(processed')
    <3>1. Cardinality(processed \cap batch[r]) = 0
      BY <2>1, FS_EmptySet
    <3>2. totals.logs_processed = Cardinality(processed)
      BY <1>9 DEF CountInvariant, CountsAddUp
    <3>3. Cardinality(processed) \in Nat /\ Cardinality(batch[r]) \in Nat
      BY FiniteTables
    <3> QED
      BY <3>1, <3>2, <3>3, <1>3, <1>7
  <2>3. \A q \in Runners : q = r
    BY <1>9, RunnerAssumption, FS_Singleton
  <2> QED
    BY <2>2, <2>3 DEF LogAndCommit, IInv, CycleTypeOK
<1> QED
  BY <1>5, <1>6, <1>8, <1>9 DEF CountInvariant, CountsAddUp

(* Every other step leaves the counted tables alone; a loaded batch is     *)
(* unprocessed.                                                            *)
LEMMA OthersCount ==
  ASSUME IInv, CountInvariant, UNCHANGED <<processed, rows, totals>>,
         \A r \in Runners : batch'[r] \subseteq batch[r] \cup (logs \ processed)
  PROVE  CountInvariant'
<1>1. Cardinality(Runners) = 1 => \A r \in Runners : batch'[r] \cap processed' = {}
  BY DEF CountInvariant
<1> QED
  BY <1>1 DEF CountInvariant, CountsAddUp, HasAlert

LEMMA NextCounts == IInv /\ CountInvariant /\ [Next]_vars => CountInvariant'
<1> SUFFICES ASSUME IInv, CountInvariant, [Next]_vars PROVE CountInvariant'
  OBVIOUS
<1>1. CASE Ingest \/ SetAlertStatus \/ UNCHANGED vars
  BY <1>1, OthersCount DEF Ingest, SetAlertStatus, vars, cycleVars
<1>2. ASSUME NEW r \in Runners, LogAndCommit(r)
      PROVE  CountInvariant'
  BY <1>2, CommitCounts
<1>3. ASSUME NEW r \in Runners, NEW limit \in Limits, Scan(r, limit)
      PROVE  CountInvariant'
  <2>1. \A q \in Runners : batch'[q] \subseteq batch[q] \cup (logs \ processed)
    BY <1>3 DEF Scan, LoadUnprocessed, IInv, CycleTypeOK
  <2> QED
    BY <1>3, <2>1, OthersCount DEF Scan, tableVars
<1>4. ASSUME NEW r \in Runners, Overflow(r) \/ DeadlockVictim(r) \/ Crash(r)
      PROVE  CountInvariant'
  <2>1. Rollback(r)
    BY <1>4 DEF Overflow, DeadlockVictim, Crash
  <2>2. \A q \in Runners : batch'[q] \subseteq batch[q] \cup (logs \ processed)
    BY <2>1 DEF Rollback, IInv, CycleTypeOK
  <2> QED
    BY <2>1, <2>2, OthersCount DEF Rollback, tableVars
<1>5. ASSUME NEW r \in Runners,
             \/ StartAlerts(r) \/ InsertAlert(r) \/ StartLinks(r) \/ InsertLink(r)
             \/ StartIncidents(r) \/ InsertIncident(r) \/ MarkProcessed(r)
      PROVE  CountInvariant'
  <2>1. UNCHANGED <<processed, rows, totals, batch>>
    BY <1>5 DEF StartAlerts, InsertAlert, StartLinks, InsertLink, StartIncidents,
                InsertIncident, MarkProcessed, InsertRow, StartInsert, tableVars
  <2> QED
    BY <2>1, OthersCount
<1> QED
  BY <1>1, <1>2, <1>3, <1>4, <1>5 DEF Next, Cycle, Proceed

LEMMA CountInductive == Spec => []CountInvariant
<1>1. Init => CountInvariant
  <2> SUFFICES ASSUME Init PROVE CountInvariant
    OBVIOUS
  <2>1. {k \in Keys : HasAlert(k)} = {} /\ processed = {}
    BY DEF Init, HasAlert
  <2> QED
    BY <2>1, FS_EmptySet DEF Init, CountInvariant, CountsAddUp
<1>2. IInv /\ CountInvariant /\ [Next]_vars => CountInvariant'
  BY NextCounts
<1> QED
  BY <1>1, <1>2, CycleInductive, PTL DEF Spec

(* The sums over the run log: each alert is counted by exactly one cycle,  *)
(* each processed log by at least one and, when cycles do not overlap, by  *)
(* exactly one.                                                            *)
THEOREM RunLogAddsUp == Spec => []CountsAddUp
<1>1. CountInvariant => CountsAddUp
  BY DEF CountInvariant
<1> QED
  BY <1>1, CountInductive, PTL

----------------------------------------------------------------------------
(* What the invariants above leave open of the types.                      *)
StatusInvariant ==
  status \in [Keys -> AlertStatuses] /\ crashes \in 0..MaxCrashes

LEMMA StatusInductive == Spec => []StatusInvariant
<1>1. Init => StatusInvariant
  BY RunnerAssumption DEF Init, StatusInvariant, AlertStatuses
<1>2. StatusInvariant /\ [Next]_vars => StatusInvariant'
  <2> SUFFICES ASSUME StatusInvariant, [Next]_vars PROVE StatusInvariant'
    OBVIOUS
  <2>1. CASE SetAlertStatus
    BY <2>1 DEF SetAlertStatus, StatusInvariant
  <2>2. ASSUME NEW r \in Runners, Crash(r)
        PROVE  StatusInvariant'
    <3>1. crashes \in 0..MaxCrashes /\ crashes < MaxCrashes /\ crashes' = crashes + 1
      BY <2>2 DEF Crash, StatusInvariant
    <3>2. crashes' \in 0..MaxCrashes
      BY <3>1, RunnerAssumption
    <3> QED
      BY <2>2, <3>2 DEF Crash, Rollback, tableVars, StatusInvariant
  <2>3. CASE Ingest \/ UNCHANGED vars
    BY <2>3 DEF Ingest, vars, StatusInvariant
  <2>4. ASSUME NEW r \in Runners, Cycle(r)
        PROVE  StatusInvariant'
    BY <2>4 DEF Cycle, Proceed, Scan, StartAlerts, InsertAlert, StartLinks, InsertLink,
                StartIncidents, InsertIncident, MarkProcessed, LogAndCommit, Overflow,
                DeadlockVictim, Rollback, InsertRow, StartInsert, tableVars, StatusInvariant
  <2> QED
    BY <2>1, <2>2, <2>3, <2>4 DEF Next
<1> QED
  BY <1>1, <1>2, PTL DEF Spec

(* The tables refer to logs and rules there are, a run holds rows of its   *)
(* own batch only, and flags are set on logs that have arrived.            *)
THEOREM CycleTyped == Spec => []TypeOK
<1>1. IInv /\ CountInvariant /\ StatusInvariant => TypeOK
  <2> SUFFICES ASSUME IInv, CountInvariant, StatusInvariant PROVE TypeOK
    OBVIOUS
  <2>1. processed \subseteq logs
    BY DEF IInv, CycleTypeOK, BookMatchesRuns
  <2>2. ASSUME NEW row \in rows
        PROVE  KeyOf(row) \in Keys
    <3>1. PICK B \in entered : row \in RowsOf(B)
      BY DEF IInv, BookMatchesRuns
    <3>2. Detected[B] \subseteq Keys
      BY DetectionAssumption DEF IInv, CycleTypeOK
    <3>3. KeyOf(row) \in Detected[B]
      BY <3>1, LinkKeys DEF RowsOf, AlertRowsOf, IncidentRowsOf, AlertRow, IncidentRow, KeyOf
    <3> QED
      BY <3>2, <3>3
  <2>3. ASSUME NEW r \in Runners
        PROVE  pending[r] \cup mine[r] \subseteq RowsOf(batch[r])
    BY DEF IInv, CycleTypeOK, RunInvariant, RowsOf
  <2> QED
    BY <2>1, <2>2, <2>3 DEF IInv, CycleTypeOK, CountInvariant, StatusInvariant, TypeOK
<1> QED
  BY <1>1, CycleInductive, CountInductive, StatusInductive, PTL
============================================================================
