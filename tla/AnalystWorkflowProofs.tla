----------------------- MODULE AnalystWorkflowProofs -----------------------
(***************************************************************************)
(* What the workflow keeps up for any number of concurrent sessions, and   *)
(* what it keeps up as long as none writes over what it has not seen.      *)
(***************************************************************************)
EXTENDS AnalystWorkflow, TLAPS

LEMMA OverwriteIsRow ==
  ASSUME NEW old \in Rows, NEW new \in Rows, NEW columns
  PROVE  Overwrite(old, columns, new) \in Rows
<1> DEFINE R(r) == /\ r.alert_status \in {"New", "Acknowledged", "Dismissed"}
                   /\ r.status \in {"Open", "In Review", "Closed"}
                   /\ r.assigned_to \in Analysts \cup {None}
                   /\ r.resolution_notes \in Notes \cup {None}
                   /\ r.closed_at \in {"set", None}
<1>1. Columns = {"alert_status", "status", "assigned_to", "resolution_notes", "closed_at"}
  BY DEF Columns, ColumnsOf
<1>2. R(old) /\ R(new)
  BY DEF Rows
<1> DEFINE over == Overwrite(old, columns, new)
<1>3. over = [c \in Columns |-> over[c]]
  BY DEF Overwrite
<1>4. \A c \in Columns : over[c] = new[c] \/ over[c] = old[c]
  BY DEF Overwrite
<1>5. R(over)
  <2> HIDE DEF over
  <2> QED
    BY <1>1, <1>2, <1>4
<1> HIDE DEF over
<1>6. over \in Rows
  BY <1>1, <1>3, <1>5 DEF Rows
<1> QED
  BY <1>6 DEF over

(* The columns of an overwritten row.                                      *)
LEMMA OverwriteColumns ==
  ASSUME NEW old, NEW new, NEW columns, NEW c \in Columns
  PROVE  Overwrite(old, columns, new)[c] = IF c \in columns THEN new[c] ELSE old[c]
BY DEF Overwrite

----------------------------------------------------------------------------
(***************************************************************************)
(* Types.                                                                  *)
(***************************************************************************)
LEMMA InitIsTyped == Init => TypeOK
<1>1. NewRow \in Rows
  BY DEF NewRow, Rows
<1> HIDE DEF Rows, NewRow
<1> QED
  BY <1>1 DEF Init, TypeOK

LEMMA EndIsTyped ==
  ASSUME TypeOK, NEW s \in Sessions, EndSession(s), row' \in Rows, overtaken' \in BOOLEAN
  PROVE  TypeOK'
<1>1. NewRow \in Rows
  BY DEF NewRow, Rows
<1> HIDE DEF Rows, NewRow
<1> QED
  BY <1>1 DEF TypeOK, EndSession

LEMMA StepIsTyped ==
  ASSUME TypeOK, NEW s \in Sessions
  PROVE  /\ \A entity \in {"alert", "incident"} : Get(s, entity) => TypeOK'
         /\ \A new \in {"Acknowledged", "Dismissed"} : SetAlertStatus(s, new) => TypeOK'
         /\ \A notes \in Notes : CloseIncident(s, notes) => TypeOK'
         /\ \A new \in {"Open", "In Review"} : MoveIncident(s, new) => TypeOK'
         /\ \A assignee \in Analysts : AssignIncident(s, assignee) => TypeOK'
         /\ Commit(s) => TypeOK'
         /\ Abandon(s) => TypeOK'
<1>1. ASSUME NEW entity \in {"alert", "incident"}, Get(s, entity) PROVE TypeOK'
  <2>1. /\ Overwrite(read[s], ColumnsOf(entity), row) \in Rows
        /\ Overwrite(held[s], ColumnsOf(entity), row) \in Rows
    BY OverwriteIsRow DEF TypeOK
  <2> QED
    BY <1>1, <2>1 DEF TypeOK, Get
<1>2. ASSUME NEW new \in {"Acknowledged", "Dismissed"}, SetAlertStatus(s, new) PROVE TypeOK'
  <2>1. [held[s] EXCEPT !.alert_status = new] \in Rows
    BY DEF TypeOK, Rows
  <2> QED
    BY <1>2, <2>1 DEF TypeOK, SetAlertStatus
<1>3. ASSUME NEW notes \in Notes, CloseIncident(s, notes) PROVE TypeOK'
  <2>1. [held[s] EXCEPT !.status = "Closed", !.resolution_notes = notes, !.closed_at = "set"]
          \in Rows
    BY DEF TypeOK, Rows
  <2> QED
    BY <1>3, <2>1 DEF TypeOK, CloseIncident
<1>4. ASSUME NEW new \in {"Open", "In Review"}, MoveIncident(s, new) PROVE TypeOK'
  <2>1. [held[s] EXCEPT !.status = new, !.closed_at = None] \in Rows
    BY DEF TypeOK, Rows
  <2> QED
    BY <1>4, <2>1 DEF TypeOK, MoveIncident
<1>5. ASSUME NEW assignee \in Analysts, AssignIncident(s, assignee) PROVE TypeOK'
  <2>1. [held[s] EXCEPT !.assigned_to = assignee] \in Rows
    BY DEF TypeOK, Rows
  <2> QED
    BY <1>5, <2>1 DEF TypeOK, AssignIncident
<1>6. ASSUME Commit(s) PROVE TypeOK'
  <2>1. overtaken' \in BOOLEAN
    BY <1>6, Zenon DEF Commit
  <2> QED
    BY <1>6, <2>1, OverwriteIsRow, EndIsTyped DEF TypeOK, Commit
<1>7. ASSUME Abandon(s) PROVE TypeOK'
  BY <1>7, EndIsTyped DEF TypeOK, Abandon
<1> QED
  BY <1>1, <1>2, <1>3, <1>4, <1>5, <1>6, <1>7

LEMMA NextIsTyped ==
  ASSUME TypeOK, [Next]_vars
  PROVE  TypeOK'
<1>1. CASE UNCHANGED vars
  BY <1>1 DEF vars, TypeOK
<1> QED
  BY <1>1, StepIsTyped DEF Next

(* Rows and the sessions' objects are rows of the tables (TypeOK).         *)
THEOREM WorkflowTyped == Spec => []TypeOK
BY InitIsTyped, NextIsTyped, PTL DEF Spec

----------------------------------------------------------------------------
(***************************************************************************)
(* Resolution notes are never taken away: a session that has read some     *)
(* holds some, and so does the row it read them from.  A session that      *)
(* closes the incident holds some too, and either writes them or has read  *)
(* the same.                                                               *)
(***************************************************************************)
NotesKept(s) ==
  /\ read[s].resolution_notes # None => row.resolution_notes # None
  /\ held[s].resolution_notes = None => read[s].resolution_notes = None
  /\ held[s].status = "Closed" => held[s].resolution_notes # None

NotesInvariant == ClosedHasNotes /\ \A s \in Sessions : NotesKept(s)

LEMMA InitKeepsNotes == Init => NotesInvariant
BY DEF Init, NotesInvariant, ClosedHasNotes, NotesKept, NewRow

LEMMA CommitKeepsNotes ==
  ASSUME TypeOK, NotesInvariant, NEW s \in Sessions, Commit(s)
  PROVE  NotesInvariant'
<1>1. /\ row'.status = IF "status" \in Dirty(s) THEN held[s].status ELSE row.status
      /\ row'.resolution_notes = IF "resolution_notes" \in Dirty(s)
                                 THEN held[s].resolution_notes ELSE row.resolution_notes
  BY OverwriteColumns DEF Commit, Columns, ColumnsOf
<1>2. \A c \in {"status", "resolution_notes"} : c \in Dirty(s) <=> held[s][c] # read[s][c]
  BY DEF Dirty, Columns, ColumnsOf
<1>3. NotesKept(s)
  BY DEF NotesInvariant
<1>4. row.resolution_notes # None => row'.resolution_notes # None
  BY <1>1, <1>2, <1>3 DEF NotesKept
<1>5. ClosedHasNotes'
  BY <1>1, <1>2, <1>3 DEF NotesInvariant, ClosedHasNotes, NotesKept
<1>6. ASSUME NEW t \in Sessions PROVE NotesKept(t)'
  <2>1. \/ read'[t] = NewRow /\ held'[t] = NewRow
        \/ read'[t] = read[t] /\ held'[t] = held[t]
    BY DEF Commit, EndSession, TypeOK
  <2> QED
    BY <1>4, <2>1 DEF NotesInvariant, NotesKept, NewRow
<1> QED
  BY <1>5, <1>6 DEF NotesInvariant

LEMMA GetKeepsNotes ==
  ASSUME TypeOK, NotesInvariant, NEW s \in Sessions,
         NEW entity \in {"alert", "incident"}, Get(s, entity)
  PROVE  NotesInvariant'
<1>1. \A c \in Columns : /\ read'[s][c] = IF c \in ColumnsOf(entity) THEN row[c] ELSE read[s][c]
                         /\ held'[s][c] = IF c \in ColumnsOf(entity) THEN row[c] ELSE held[s][c]
  BY OverwriteColumns DEF Get, TypeOK
<1>2. "status" \in ColumnsOf(entity) <=> "resolution_notes" \in ColumnsOf(entity)
  BY DEF ColumnsOf
<1>3. NotesKept(s)'
  BY <1>1, <1>2 DEF NotesInvariant, NotesKept, ClosedHasNotes, Get, Columns, ColumnsOf
<1>4. \A t \in Sessions \ {s} : read'[t] = read[t] /\ held'[t] = held[t]
  BY DEF Get, TypeOK
<1> QED
  BY <1>3, <1>4 DEF NotesInvariant, NotesKept, ClosedHasNotes, Get

LEMMA HelperKeepsNotes ==
  ASSUME TypeOK, NotesInvariant, NEW s \in Sessions,
         \/ \E new \in {"Acknowledged", "Dismissed"} : SetAlertStatus(s, new)
         \/ \E notes \in Notes : CloseIncident(s, notes)
         \/ \E new \in {"Open", "In Review"} : MoveIncident(s, new)
         \/ \E assignee \in Analysts : AssignIncident(s, assignee)
  PROVE  NotesInvariant'
<1>1. UNCHANGED <<row, read>> /\ \A t \in Sessions \ {s} : held'[t] = held[t]
  BY DEF SetAlertStatus, CloseIncident, MoveIncident, AssignIncident, TypeOK
<1>2. \/ /\ (held'[s].status = held[s].status \/ held'[s].status # "Closed")
         /\ held'[s].resolution_notes = held[s].resolution_notes
      \/ held'[s].resolution_notes \in Notes
  <2>1. held[s] \in Rows
    BY DEF TypeOK
  <2>2. ASSUME NEW new \in {"Acknowledged", "Dismissed"}, SetAlertStatus(s, new)
        PROVE  /\ held'[s].status = held[s].status
               /\ held'[s].resolution_notes = held[s].resolution_notes
    BY <2>1, <2>2 DEF SetAlertStatus, TypeOK, Rows
  <2>3. ASSUME NEW notes \in Notes, CloseIncident(s, notes)
        PROVE  held'[s].resolution_notes \in Notes
    BY <2>1, <2>3 DEF CloseIncident, TypeOK, Rows
  <2>4. ASSUME NEW new \in {"Open", "In Review"}, MoveIncident(s, new)
        PROVE  /\ held'[s].status # "Closed"
               /\ held'[s].resolution_notes = held[s].resolution_notes
    BY <2>1, <2>4 DEF MoveIncident, TypeOK, Rows
  <2>5. ASSUME NEW assignee \in Analysts, AssignIncident(s, assignee)
        PROVE  /\ held'[s].status = held[s].status
               /\ held'[s].resolution_notes = held[s].resolution_notes
    BY <2>1, <2>5 DEF AssignIncident, TypeOK, Rows
  <2> QED
    BY <2>2, <2>3, <2>4, <2>5
<1>3. NotesKept(s)'
  BY <1>1, <1>2, WorkflowAssumption DEF NotesInvariant, NotesKept
<1> QED
  BY <1>1, <1>3 DEF NotesInvariant, NotesKept, ClosedHasNotes

(* A closed incident has resolution notes, whatever the number of sessions *)
(* and whatever they overwrite (ClosedHasNotes).                           *)
THEOREM NotesAlwaysKept == Spec => []ClosedHasNotes
<1>1. TypeOK /\ NotesInvariant /\ [Next]_vars => NotesInvariant'
  <2> SUFFICES ASSUME TypeOK, NotesInvariant, [Next]_vars PROVE NotesInvariant'
    OBVIOUS
  <2>1. CASE UNCHANGED vars
    BY <2>1 DEF vars, NotesInvariant, NotesKept, ClosedHasNotes
  <2>2. ASSUME NEW s \in Sessions, Abandon(s) PROVE NotesInvariant'
    <3>1. \A t \in Sessions : \/ read'[t] = NewRow /\ held'[t] = NewRow
                              \/ read'[t] = read[t] /\ held'[t] = held[t]
      BY <2>2 DEF Abandon, EndSession, TypeOK
    <3> QED
      BY <2>2, <3>1 DEF Abandon, NotesInvariant, NotesKept, ClosedHasNotes, NewRow
  <2> QED
    BY <2>1, <2>2, CommitKeepsNotes, GetKeepsNotes, HelperKeepsNotes DEF Next
<1>2. NotesInvariant => ClosedHasNotes
  BY DEF NotesInvariant
<1> QED
  BY <1>1, <1>2, InitKeepsNotes, WorkflowTyped, PTL DEF Spec

----------------------------------------------------------------------------
(***************************************************************************)
(* As long as no session has written over what it had not seen, a row is   *)
(* in order, in the table and as sessions have read and changed it; and a  *)
(* session holds nothing else than it has read where that was final.       *)
(***************************************************************************)
InOrder(r) == r.closed_at # None <=> r.status = "Closed"

SessionInOrder(s) ==
  /\ InOrder(read[s])
  /\ InOrder(held[s])
  /\ read[s].status = "Closed" => held[s].status = "Closed"
  /\ read[s].alert_status = "Dismissed" => held[s].alert_status = "Dismissed"
  /\ held[s].alert_status # read[s].alert_status => "alert" \in loaded[s]
  /\ "incident" \notin loaded[s] =>
       /\ ~stamped[s]
       /\ held[s].status = read[s].status
       /\ held[s].closed_at = read[s].closed_at

OrderInvariant == ~overtaken => InOrder(row) /\ \A s \in Sessions : SessionInOrder(s)

LEMMA InitInOrder == Init => OrderInvariant
BY WorkflowAssumption DEF Init, OrderInvariant, InOrder, SessionInOrder, NewRow

(* What a commit of a session that has seen the latest makes of the row.   *)
LEMMA CommitInOrder ==
  ASSUME TypeOK, OrderInvariant, NEW s \in Sessions, Commit(s), ~overtaken'
  PROVE  /\ InOrder(row')
         /\ row.status = "Closed" => row'.status = "Closed"
         /\ row.alert_status = "Dismissed" => row'.alert_status = "Dismissed"
<1>1. ~overtaken /\ SessionInOrder(s) /\ InOrder(row)
  BY DEF Commit, OrderInvariant
<1>2. \A entity \in loaded[s] :
        Dirty(s) \cap ColumnsOf(entity) # {} => \A c \in ColumnsOf(entity) : read[s][c] = row[c]
  BY DEF Commit, Outdated
<1>3. \A c \in Columns : row'[c] = IF c \in Dirty(s) THEN held[s][c] ELSE row[c]
  BY OverwriteColumns DEF Commit
<1>4. \A c \in Columns : c \notin Dirty(s) => held[s][c] = read[s][c]
  BY DEF Dirty
<1>5. /\ ColumnsOf("incident") = {"status", "assigned_to", "resolution_notes", "closed_at"}
      /\ ColumnsOf("alert") = {"alert_status"}
      /\ ColumnsOf("incident") \cup ColumnsOf("alert") = Columns
  BY DEF ColumnsOf, Columns
<1>6. CASE "incident" \in loaded[s] /\ Dirty(s) \cap ColumnsOf("incident") # {}
  <2>1. /\ row'.status = held[s].status /\ row.status = read[s].status
        /\ row'.closed_at = held[s].closed_at
    BY <1>2, <1>3, <1>4, <1>5, <1>6
  <2> QED
    <3>1. row.alert_status = "Dismissed" => row'.alert_status = "Dismissed"
      BY <1>1, <1>2, <1>3, <1>4, <1>5 DEF SessionInOrder, Dirty
    <3> QED
      BY <1>1, <2>1, <3>1 DEF SessionInOrder, InOrder
<1>7. CASE ~("incident" \in loaded[s] /\ Dirty(s) \cap ColumnsOf("incident") # {})
  <2>1. "status" \notin Dirty(s) /\ "closed_at" \notin Dirty(s)
    BY <1>1, <1>5, <1>7 DEF SessionInOrder, Dirty
  <2>2. row'.status = row.status /\ row'.closed_at = row.closed_at
    BY <1>3, <1>5, <2>1
  <2>3. row.alert_status = "Dismissed" => row'.alert_status = "Dismissed"
    BY <1>1, <1>2, <1>3, <1>4, <1>5 DEF SessionInOrder, Dirty
  <2> QED
    BY <1>1, <2>2, <2>3 DEF InOrder
<1> QED
  BY <1>6, <1>7

LEMMA EndInOrder ==
  ASSUME TypeOK, NEW s \in Sessions, EndSession(s), OrderInvariant, ~overtaken,
         NEW t \in Sessions
  PROVE  SessionInOrder(t)'
<1>1. CASE t = s
  BY <1>1, WorkflowAssumption DEF EndSession, TypeOK, SessionInOrder, InOrder, NewRow
<1>2. CASE t # s
  BY <1>2 DEF EndSession, TypeOK, OrderInvariant, SessionInOrder, InOrder
<1> QED
  BY <1>1, <1>2

LEMMA GetInOrder ==
  ASSUME TypeOK, OrderInvariant, NEW s \in Sessions,
         NEW entity \in {"alert", "incident"}, Get(s, entity)
  PROVE  OrderInvariant'
<1> SUFFICES ASSUME ~overtaken PROVE InOrder(row) /\ \A t \in Sessions : SessionInOrder(t)'
  BY DEF Get, OrderInvariant, InOrder
<1>1. InOrder(row) /\ SessionInOrder(s)
  BY DEF OrderInvariant
<1>2. \A c \in Columns : /\ read'[s][c] = IF c \in ColumnsOf(entity) THEN row[c] ELSE read[s][c]
                         /\ held'[s][c] = IF c \in ColumnsOf(entity) THEN row[c] ELSE held[s][c]
  BY OverwriteColumns DEF Get, TypeOK
<1>3. loaded'[s] = loaded[s] \cup {entity} /\ stamped'[s] = stamped[s]
  BY DEF Get, TypeOK
<1>4. SessionInOrder(s)'
  <2>1. CASE entity = "alert"
    BY <1>1, <1>2, <1>3, <2>1 DEF SessionInOrder, InOrder, Columns, ColumnsOf
  <2>2. CASE entity = "incident"
    BY <1>1, <1>2, <1>3, <2>2 DEF SessionInOrder, InOrder, Columns, ColumnsOf
  <2> QED
    BY <2>1, <2>2
<1>5. ASSUME NEW t \in Sessions \ {s} PROVE SessionInOrder(t)'
  BY <1>5 DEF Get, TypeOK, OrderInvariant, SessionInOrder, InOrder
<1> QED
  BY <1>1, <1>4, <1>5

LEMMA HelperInOrder ==
  ASSUME TypeOK, OrderInvariant, NEW s \in Sessions,
         \/ \E new \in {"Acknowledged", "Dismissed"} : SetAlertStatus(s, new)
         \/ \E notes \in Notes : CloseIncident(s, notes)
         \/ \E new \in {"Open", "In Review"} : MoveIncident(s, new)
         \/ \E assignee \in Analysts : AssignIncident(s, assignee)
  PROVE  OrderInvariant'
<1>1. /\ UNCHANGED <<row, loaded, read, overtaken>>
      /\ \A t \in Sessions \ {s} : held'[t] = held[t] /\ stamped'[t] = stamped[t]
  BY DEF SetAlertStatus, CloseIncident, MoveIncident, AssignIncident, TypeOK
<1> SUFFICES ASSUME ~overtaken PROVE SessionInOrder(s)'
  BY <1>1, ZenonT(30) DEF OrderInvariant, SessionInOrder, InOrder
<1>2. SessionInOrder(s) /\ held[s] \in Rows
  BY DEF OrderInvariant, TypeOK
<1>3. ASSUME NEW new \in {"Acknowledged", "Dismissed"}, SetAlertStatus(s, new)
      PROVE  SessionInOrder(s)'
  <2>1. /\ held'[s] = [held[s] EXCEPT !.alert_status = new]
        /\ stamped'[s] = stamped[s]
        /\ "alert" \in loaded[s]
        /\ held[s].alert_status # "Dismissed"
    BY <1>3 DEF SetAlertStatus, TypeOK, AlertTransitions
  <2> QED
    BY <1>1, <1>2, <2>1 DEF SessionInOrder, InOrder, Rows
<1>4. ASSUME NEW notes \in Notes, CloseIncident(s, notes) PROVE SessionInOrder(s)'
  <2>1. /\ held'[s] = [held[s] EXCEPT !.status = "Closed", !.resolution_notes = notes,
                                     !.closed_at = "set"]
        /\ "incident" \in loaded[s]
    BY <1>4 DEF CloseIncident, TypeOK
  <2>2. None # "set" => InOrder(held'[s])
    BY <1>2, <2>1 DEF InOrder, Rows
  <2> QED
    BY <1>1, <1>2, <2>1, <2>2, WorkflowAssumption DEF SessionInOrder, InOrder, Rows
<1>5. ASSUME NEW new \in {"Open", "In Review"}, MoveIncident(s, new) PROVE SessionInOrder(s)'
  <2>1. /\ held'[s] = [held[s] EXCEPT !.status = new, !.closed_at = None]
        /\ "incident" \in loaded[s]
        /\ held[s].status # "Closed"
    BY <1>5 DEF MoveIncident, TypeOK, IncidentTransitions
  <2> QED
    BY <1>1, <1>2, <2>1 DEF SessionInOrder, InOrder, Rows
<1>6. ASSUME NEW assignee \in Analysts, AssignIncident(s, assignee) PROVE SessionInOrder(s)'
  <2>1. /\ held'[s] = [held[s] EXCEPT !.assigned_to = assignee]
        /\ stamped'[s] = stamped[s]
    BY <1>6 DEF AssignIncident, TypeOK
  <2> QED
    BY <1>1, <1>2, <2>1 DEF SessionInOrder, InOrder, Rows
<1> QED
  BY <1>3, <1>4, <1>5, <1>6

LEMMA NextInOrder ==
  ASSUME TypeOK, OrderInvariant, [Next]_vars
  PROVE  OrderInvariant'
<1>1. CASE UNCHANGED vars
  BY <1>1 DEF vars, OrderInvariant, SessionInOrder, InOrder
<1>2. ASSUME NEW s \in Sessions, Commit(s) PROVE OrderInvariant'
  <2> SUFFICES ASSUME ~overtaken'
               PROVE  InOrder(row') /\ \A t \in Sessions : SessionInOrder(t)'
    BY DEF OrderInvariant, InOrder
  <2>1. ~overtaken
    BY <1>2 DEF Commit
  <2>2. EndSession(s)
    BY <1>2 DEF Commit
  <2> QED
    BY <1>2, <2>1, <2>2, CommitInOrder, EndInOrder
<1>3. ASSUME NEW s \in Sessions, Abandon(s) PROVE OrderInvariant'
  BY <1>3, EndInOrder DEF Abandon, OrderInvariant, InOrder
<1> QED
  BY <1>1, <1>2, <1>3, GetInOrder, HelperInOrder DEF Next

THEOREM WorkflowInOrder == Spec => []OrderInvariant
BY InitInOrder, NextInOrder, WorkflowTyped, PTL DEF Spec

(* Exactly a closed incident has a closing time, as long as no session has *)
(* written over what it had not seen (StampedIffClosed).                   *)
THEOREM ClosingTimesKept == Spec => []StampedIffClosed
<1>1. OrderInvariant => StampedIffClosed
  BY DEF OrderInvariant, InOrder, StampedIffClosed
<1> QED
  BY <1>1, WorkflowInOrder, PTL

(* Closed and dismissed are final under the same condition                 *)
(* (FinalStaysFinal): test_closed_is_terminal for overlapping sessions.    *)
THEOREM FinalIsFinal == Spec => FinalStaysFinal
<1>1. ASSUME TypeOK, OrderInvariant, [Next]_vars, ~overtaken'
      PROVE  /\ row.status = "Closed" => row'.status = "Closed"
             /\ row.alert_status = "Dismissed" => row'.alert_status = "Dismissed"
  <2>1. CASE row' = row
    BY <2>1
  <2>2. ASSUME NEW s \in Sessions, Commit(s)
        PROVE  /\ row.status = "Closed" => row'.status = "Closed"
               /\ row.alert_status = "Dismissed" => row'.alert_status = "Dismissed"
    BY <1>1, <2>2, CommitInOrder
  <2>3. row' = row \/ \E s \in Sessions : Commit(s)
    BY <1>1 DEF Next, vars, Get, SetAlertStatus, CloseIncident, MoveIncident,
                AssignIncident, Abandon
  <2> QED
    BY <2>1, <2>2, <2>3
<1>2. TypeOK /\ OrderInvariant /\ [Next]_vars =>
        [~overtaken' => /\ row.status = "Closed" => row'.status = "Closed"
                        /\ row.alert_status = "Dismissed" => row'.alert_status = "Dismissed"]_vars
  BY <1>1
<1> QED
  BY <1>2, WorkflowTyped, WorkflowInOrder, PTL DEF Spec, FinalStaysFinal
============================================================================
