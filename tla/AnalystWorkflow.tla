-------------------------- MODULE AnalystWorkflow --------------------------
(***************************************************************************)
(* alerting/incident_manager.py: the workflow helpers on one alert and its *)
(* incident, called in the sessions of several analysts.                   *)
(*                                                                         *)
(* A session reads a row once, without a lock, and keeps it: the helpers   *)
(* validate what it has read.  Its commit UPDATEs the columns whose value  *)
(* is not the one it had read, and PostgreSQL (READ COMMITTED) applies     *)
(* that to whatever the row has become in the meantime.                    *)
(***************************************************************************)
EXTENDS Naturals

CONSTANTS
  Sessions,        (* Sessions that may be open at a time.                 *)
  Notes,           (* Resolution notes that are not blank.                 *)
  Analysts,        (* Values of assigned_to.                               *)
  None

ASSUME WorkflowAssumption == None \notin Notes \cup Analysts \cup {"set"}

VARIABLES
  row,             (* The columns of the alert and of the incident.        *)
  loaded,          (* Which of the two each session has read.              *)
  read,            (* The columns as it has read them.                     *)
  held,            (* The columns of its objects, changed by the helpers.  *)
  stamped,         (* closed_at has been given the time of now.            *)
  overtaken        (* History: a session has changed an alert or incident  *)
                   (* that was no longer what the session had read.        *)

vars == <<row, loaded, read, held, stamped, overtaken>>

ColumnsOf(entity) ==
  CASE entity = "alert"    -> {"alert_status"}
    [] entity = "incident" -> {"status", "assigned_to", "resolution_notes", "closed_at"}

Columns == ColumnsOf("alert") \cup ColumnsOf("incident")

(* Faulty variants, here and below, are never part of Spec: a run with one *)
(* in place of the definition it precedes shows what a property rules out. *)
(* This one lets analysts reopen an incident.                              *)
ReopeningTransitions ==
  {<<"Open", "In Review">>, <<"Open", "Closed">>,
   <<"In Review", "Closed">>, <<"In Review", "Open">>, <<"Closed", "In Review">>}

(* _ALERT_TRANSITIONS and _INCIDENT_TRANSITIONS.                           *)
AlertTransitions ==
  {<<"New", "Acknowledged">>, <<"New", "Dismissed">>, <<"Acknowledged", "Dismissed">>}

IncidentTransitions ==
  {<<"Open", "In Review">>, <<"Open", "Closed">>,
   <<"In Review", "Closed">>, <<"In Review", "Open">>}

(* As create_alerts and escalate_high_severity make them.                  *)
NewRow ==
  [alert_status     |-> "New",
   status           |-> "Open",
   assigned_to      |-> None,
   resolution_notes |-> None,
   closed_at        |-> None]

Init ==
  /\ row = NewRow
  /\ loaded = [s \in Sessions |-> {}]
  /\ read = [s \in Sessions |-> NewRow]
  /\ held = [s \in Sessions |-> NewRow]
  /\ stamped = [s \in Sessions |-> FALSE]
  /\ overtaken = FALSE

----------------------------------------------------------------------------
(* Faulty: what is not among the columns is lost.                          *)
ReplaceBy(old, columns, new) == [c \in columns |-> new[c]]

Overwrite(old, columns, new) ==
  [c \in Columns |-> IF c \in columns THEN new[c] ELSE old[c]]

(* session.get, the first time; later it returns the session's object.     *)
Get(s, entity) ==
  /\ entity \notin loaded[s]
  /\ loaded' = [loaded EXCEPT ![s] = @ \cup {entity}]
  /\ read' = [read EXCEPT ![s] = Overwrite(@, ColumnsOf(entity), row)]
  /\ held' = [held EXCEPT ![s] = Overwrite(@, ColumnsOf(entity), row)]
  /\ UNCHANGED <<row, stamped, overtaken>>

SetAlertStatus(s, new) ==
  /\ "alert" \in loaded[s]
  /\ <<held[s].alert_status, new>> \in AlertTransitions
  /\ held' = [held EXCEPT ![s].alert_status = new]
  /\ UNCHANGED <<row, loaded, read, stamped, overtaken>>

(* Faulty: the notes are not stored; there is no stamp.                    *)
CloseWithoutNotes(s, notes) ==
  /\ "incident" \in loaded[s]
  /\ <<held[s].status, "Closed">> \in IncidentTransitions
  /\ held' = [held EXCEPT ![s].status = "Closed", ![s].closed_at = "set"]
  /\ stamped' = [stamped EXCEPT ![s] = TRUE]
  /\ UNCHANGED <<row, loaded, read, overtaken>>

CloseWithoutStamp(s, notes) ==
  /\ "incident" \in loaded[s]
  /\ <<held[s].status, "Closed">> \in IncidentTransitions
  /\ held' = [held EXCEPT ![s].status = "Closed", ![s].resolution_notes = notes]
  /\ UNCHANGED <<row, loaded, read, stamped, overtaken>>

(* set_incident_status to "Closed"; blank notes raise.                     *)
CloseIncident(s, notes) ==
  /\ "incident" \in loaded[s]
  /\ <<held[s].status, "Closed">> \in IncidentTransitions
  /\ held' = [held EXCEPT ![s] = [@ EXCEPT !.status = "Closed",
                                          !.resolution_notes = notes,
                                          !.closed_at = "set"]]
  /\ stamped' = [stamped EXCEPT ![s] = TRUE]
  /\ UNCHANGED <<row, loaded, read, overtaken>>

(* set_incident_status to another status.                                  *)
MoveIncident(s, new) ==
  /\ "incident" \in loaded[s]
  /\ new # "Closed"
  /\ <<held[s].status, new>> \in IncidentTransitions
  /\ held' = [held EXCEPT ![s] = [@ EXCEPT !.status = new, !.closed_at = None]]
  /\ stamped' = [stamped EXCEPT ![s] = FALSE]
  /\ UNCHANGED <<row, loaded, read, overtaken>>

(* assign_incident, or set_incident_status with an assignee.               *)
AssignIncident(s, assignee) ==
  /\ "incident" \in loaded[s]
  /\ held' = [held EXCEPT ![s].assigned_to = assignee]
  /\ UNCHANGED <<row, loaded, read, stamped, overtaken>>

(* Two stamps are never the same time.                                     *)
Dirty(s) ==
  {c \in Columns : held[s][c] # read[s][c] \/ (c = "closed_at" /\ stamped[s])}

(* Some other session has changed the alert or incident since.             *)
Outdated(s, entity) == \E c \in ColumnsOf(entity) : read[s][c] # row[c]

EndSession(s) ==
  /\ loaded' = [loaded EXCEPT ![s] = {}]
  /\ read' = [read EXCEPT ![s] = NewRow]
  /\ held' = [held EXCEPT ![s] = NewRow]
  /\ stamped' = [stamped EXCEPT ![s] = FALSE]

Commit(s) ==
  /\ loaded[s] # {}
  /\ row' = Overwrite(row, Dirty(s), held[s])
  /\ overtaken' = \/ overtaken
                  \/ \E entity \in loaded[s] : /\ Dirty(s) \cap ColumnsOf(entity) # {}
                                               /\ Outdated(s, entity)
  /\ EndSession(s)

(* A WorkflowError, or any other end of the session.                       *)
Abandon(s) ==
  /\ loaded[s] # {}
  /\ EndSession(s)
  /\ UNCHANGED <<row, overtaken>>

Next ==
  \E s \in Sessions :
    \/ \E entity \in {"alert", "incident"} : Get(s, entity)
    \/ \E new \in {"Acknowledged", "Dismissed"} : SetAlertStatus(s, new)
    \/ \E notes \in Notes : CloseIncident(s, notes)
    \/ \E new \in {"Open", "In Review"} : MoveIncident(s, new)
    \/ \E assignee \in Analysts : AssignIncident(s, assignee)
    \/ Commit(s)
    \/ Abandon(s)

Spec == Init /\ [][Next]_vars

----------------------------------------------------------------------------
(***************************************************************************)
(* Properties.                                                             *)
(***************************************************************************)
Rows ==
  [alert_status     : {"New", "Acknowledged", "Dismissed"},
   status           : {"Open", "In Review", "Closed"},
   assigned_to      : Analysts \cup {None},
   resolution_notes : Notes \cup {None},
   closed_at        : {"set", None}]

TypeOK ==
  /\ row \in Rows
  /\ loaded \in [Sessions -> SUBSET {"alert", "incident"}]
  /\ read \in [Sessions -> Rows]
  /\ held \in [Sessions -> Rows]
  /\ stamped \in [Sessions -> BOOLEAN]
  /\ overtaken \in BOOLEAN

(* A closed incident has resolution notes, however sessions interleave.    *)
ClosedHasNotes == row.status = "Closed" => row.resolution_notes # None

(* As long as no session writes a row that has changed since it read it,   *)
(* which is nearly to say that sessions take turns, exactly a closed       *)
(* incident has a closing time, after any sequence of moves, closes and    *)
(* assignments (incident_manager.py:8, "closing an incident requires       *)
(* resolution notes and stamps closed_at").                                *)
StampedIffClosed ==
  ~overtaken => (row.closed_at # None <=> row.status = "Closed")

(* ... and what is final stays: a closed incident is closed, a dismissed   *)
(* alert dismissed, whatever sessions that read them before still hold.    *)
FinalStaysFinal ==
  [][~overtaken' => /\ row.status = "Closed" => row'.status = "Closed"
                    /\ row.alert_status = "Dismissed" => row'.alert_status = "Dismissed"]_vars

(* test_alerting.py:149, test_closed_is_terminal: closed stays closed.     *)
ClosedIsTerminal == [][row.status = "Closed" => row'.status = "Closed"]_vars
============================================================================
