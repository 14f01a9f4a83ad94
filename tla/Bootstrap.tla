----------------------------- MODULE Bootstrap -----------------------------
(***************************************************************************)
(* sql/bootstrap.py: runs that create the two roles, give them passwords   *)
(* and write these to .env, each ALTER ROLE a transaction of its own and   *)
(* the file truncated before it is written.  Runs may overlap and die at   *)
(* any point, and an operator edits the file.                              *)
(***************************************************************************)
EXTENDS Naturals

CONSTANTS
  Runs,            (* Processes that may run at a time.                    *)
  NOLOGIN,         (* What a role has for a password when it has none;     *)
  CHANGE_ME,       (* the password in a line of the example,               *)
  Missing,         (* and what stands for a line that is not in the file.  *)
  MaxStarts,       (* Bounds the runs started without --schema-only,       *)
  MaxDeaths        (* and the runs that die half-way.                      *)

Roles == {"rw", "ro"}
Modes == {"plain", "--reset-passwords", "--schema-only"}

(* The number of a run stands for the two passwords that it generates.     *)
Passwords == 1..MaxStarts
Unset     == {CHANGE_ME, Missing}

ASSUME BootstrapAssumption ==
  /\ MaxStarts \in Nat
  /\ MaxDeaths \in Nat
  /\ CHANGE_ME # Missing
  /\ (Unset \cup {NOLOGIN}) \cap Passwords = {}
  /\ NOLOGIN \notin Unset
  /\ Missing \notin {"template", "filled in"}

VARIABLES
  roles,           (* What PostgreSQL takes for each role's password.      *)
  env,             (* .env: the lines of the two URLs, and the rest.       *)
  pc, mode,        (* Of each run: where it is, its option,                *)
  loaded,          (* the settings it began with,                          *)
  envText,         (* the file as it has read it,                          *)
  urls,            (* and the passwords it would set, or is to verify.     *)
  starts, deaths,
  alone,           (* History: runs that none has overlapped, and in which *)
                   (* nobody has edited the file.                          *)
  failed,          (* History: some run has raised or died.                *)
  edited,          (* History: the operator has filled in the rest ...     *)
  hurt             (* ... and a run that wrote the file has died in it, or *)
                   (* was not alone.                                       *)

envVars == <<roles, env>>
runVars == <<pc, mode, loaded, envText, urls>>
history == <<alone, failed, edited, hurt>>
vars == <<envVars, runVars, starts, deaths, history>>

(* .env.example, copied, the admin URL filled in; it has more CHANGE_MEs.  *)
Template == [rw |-> CHANGE_ME, ro |-> CHANGE_ME, rest |-> "template"]
Empty    == [rw |-> Missing, ro |-> Missing, rest |-> Missing]

Works(file) == \A role \in Roles : file[role] = roles[role]

Idle(r) == pc[r] = "idle"

Init ==
  /\ roles = [role \in Roles |-> NOLOGIN]
  /\ env \in {Template, [Empty EXCEPT !.rest = "template"]}
  /\ pc = [r \in Runs |-> "idle"]
  /\ mode = [r \in Runs |-> "plain"]
  /\ loaded = [r \in Runs |-> Empty]
  /\ envText = [r \in Runs |-> Empty]
  /\ urls = [r \in Runs |-> Empty]
  /\ starts = 0
  /\ deaths = 0
  /\ alone = {}
  /\ failed = FALSE
  /\ edited = FALSE
  /\ hurt = FALSE

----------------------------------------------------------------------------
(***************************************************************************)
(* The steps of main.                                                      *)
(***************************************************************************)
GoTo(r, place) == pc' = [pc EXCEPT ![r] = place]

(* A run is over, and forgets what it had.                                 *)
End(r) ==
  /\ GoTo(r, "idle")
  /\ mode' = [mode EXCEPT ![r] = "plain"]
  /\ loaded' = [loaded EXCEPT ![r] = Empty]
  /\ envText' = [envText EXCEPT ![r] = Empty]
  /\ urls' = [urls EXCEPT ![r] = Empty]
  /\ alone' = alone \ {r}

Raise(r) ==
  /\ End(r)
  /\ failed' = TRUE
  /\ UNCHANGED <<envVars, starts, deaths, edited, hurt>>

Fresh(number) == [Empty EXCEPT !.rw = number, !.ro = number]

(* Settings are read when the process starts; without an admin URL it      *)
(* ends here.  The passwords may as well be generated now.                 *)
Start(r, option) ==
  /\ Idle(r)
  /\ env.rest # Missing
  /\ IF option = "--schema-only"
     THEN UNCHANGED <<urls, starts>>
     ELSE /\ starts < MaxStarts
          /\ starts' = starts + 1
          /\ urls' = [urls EXCEPT ![r] = Fresh(starts')]
  /\ GoTo(r, "schema")
  /\ mode' = [mode EXCEPT ![r] = option]
  /\ loaded' = [loaded EXCEPT ![r] = env]
  /\ alone' = IF \A other \in Runs : Idle(other) THEN {r} ELSE {}
  /\ UNCHANGED <<envVars, envText, deaths, failed, edited, hurt>>

(* _apply_schema, one transaction; the roles it creates have no password.  *)
ApplySchema(r) ==
  /\ pc[r] = "schema"
  /\ IF mode[r] = "--schema-only"
     THEN End(r)
     ELSE GoTo(r, "read") /\ UNCHANGED <<mode, loaded, envText, urls, alone>>
  /\ UNCHANGED <<envVars, starts, deaths, failed, edited, hurt>>

(* Faulty variants, here and below, are never part of Spec: a run with one *)
(* in place of the definition it precedes shows what a property rules out. *)
(* This one looks at the whole file.                                       *)
AnyPlaceholder(file) == file.rest = "template" \/ \E role \in Roles : file[role] = CHANGE_ME

(* _env_needs_passwords.                                                   *)
NeedsPasswords(file) == \E role \in Roles : file[role] = CHANGE_ME

ReadEnv(r) ==
  /\ pc[r] = "read"
  /\ mode[r] = "--reset-passwords" \/ NeedsPasswords(env)
  /\ envText' = [envText EXCEPT ![r] = env]
  /\ GoTo(r, "alter_rw")
  /\ UNCHANGED <<envVars, mode, loaded, urls, starts, deaths, history>>

(* .env has credentials, to be left alone: those of the settings are tried.*)
LeaveUntouched(r) ==
  /\ pc[r] = "read"
  /\ ~(mode[r] = "--reset-passwords" \/ NeedsPasswords(env))
  /\ IF \E role \in Roles : loaded[r][role] = Missing
     THEN Raise(r)
     ELSE /\ urls' = [urls EXCEPT ![r] = loaded[r]]
          /\ GoTo(r, "verify_rw")
          /\ UNCHANGED <<envVars, mode, loaded, envText, starts, deaths, history>>

(* Faulty: the password that .env had.                                     *)
SetOldPassword(r, role, place, next) ==
  /\ pc[r] = place
  /\ roles' = [roles EXCEPT ![role] = loaded[r][role]]
  /\ GoTo(r, next)
  /\ UNCHANGED <<env, mode, loaded, envText, urls, starts, deaths, history>>

(* _set_role_password, for one role and then for the other.                *)
SetRolePassword(r, role, place, next) ==
  /\ pc[r] = place
  /\ roles' = [roles EXCEPT ![role] = urls[r][role]]
  /\ GoTo(r, next)
  /\ UNCHANGED <<env, mode, loaded, envText, urls, starts, deaths, history>>

AlterRw(r) == SetRolePassword(r, "rw", "alter_rw", "alter_ro")
AlterRo(r) == SetRolePassword(r, "ro", "alter_ro", "truncate")

(* Faulty: the first match is replaced and no other.                       *)
RewriteOne(file, new) == [file EXCEPT !.rw = IF @ = Missing THEN @ ELSE new.rw]

(* Faulty: made from the example.                                          *)
RewriteTemplate(file, new) == [Template EXCEPT !.rw = new.rw, !.ro = new.ro]

(* _rewrite_env replaces lines; it adds none.                              *)
RewriteEnv(file, new) ==
  [file EXCEPT !.rw = IF @ = Missing THEN @ ELSE new.rw,
               !.ro = IF @ = Missing THEN @ ELSE new.ro]

(* write_text opens the file, which empties it, and writes.                *)
TruncateEnv(r) ==
  /\ pc[r] = "truncate"
  /\ env' = Empty
  /\ GoTo(r, "write")
  /\ hurt' = (hurt \/ r \notin alone)
  /\ UNCHANGED <<roles, mode, loaded, envText, urls, starts, deaths, alone, failed, edited>>

WriteEnv(r) ==
  /\ pc[r] = "write"
  /\ env' = RewriteEnv(envText[r], urls[r])
  /\ GoTo(r, "verify_rw")
  /\ hurt' = (hurt \/ r \notin alone)
  /\ UNCHANGED <<roles, mode, loaded, envText, urls, starts, deaths, alone, failed, edited>>

(* Faulty: nobody tries what was written.                                  *)
VerifyNothing(r) ==
  /\ pc[r] = "verify_rw"
  /\ End(r)
  /\ UNCHANGED <<envVars, starts, deaths, failed, edited, hurt>>

(* _verify logs in as one role and as the other.                           *)
VerifyRw(r) ==
  /\ pc[r] = "verify_rw"
  /\ IF roles.rw = urls[r].rw
     THEN /\ GoTo(r, "verify_ro")
          /\ UNCHANGED <<envVars, mode, loaded, envText, urls, starts, deaths, history>>
     ELSE Raise(r)

VerifyRo(r) ==
  /\ pc[r] = "verify_ro"
  /\ IF roles.ro = urls[r].ro
     THEN End(r) /\ UNCHANGED <<envVars, starts, deaths, failed, edited, hurt>>
     ELSE Raise(r)

Die(r) ==
  /\ ~Idle(r)
  /\ deaths < MaxDeaths
  /\ deaths' = deaths + 1
  /\ End(r)
  /\ failed' = TRUE
  /\ hurt' = (hurt \/ pc[r] = "write")
  /\ UNCHANGED <<envVars, starts, edited>>

----------------------------------------------------------------------------
(***************************************************************************)
(* The operator, in an editor.                                             *)
(***************************************************************************)
FillIn ==
  /\ env.rest = "template"
  /\ env' = [env EXCEPT !.rest = "filled in"]
  /\ edited' = TRUE
  /\ alone' = {}
  /\ UNCHANGED <<roles, runVars, starts, deaths, failed, hurt>>

(* When the file is lost, the example is copied once more.                 *)
StartAfresh ==
  /\ env = Empty
  /\ \A r \in Runs : Idle(r)
  /\ env' = Template
  /\ edited' = FALSE
  /\ hurt' = FALSE
  /\ UNCHANGED <<roles, runVars, starts, deaths, alone, failed>>

Step(r) ==
  \/ \E option \in Modes : Start(r, option)
  \/ ApplySchema(r)
  \/ ReadEnv(r)
  \/ LeaveUntouched(r)
  \/ AlterRw(r)
  \/ AlterRo(r)
  \/ TruncateEnv(r)
  \/ WriteEnv(r)
  \/ VerifyRw(r)
  \/ VerifyRo(r)
  \/ Die(r)

Next ==
  \/ \E r \in Runs : Step(r)
  \/ FillIn
  \/ StartAfresh

Spec == Init /\ [][Next]_vars

----------------------------------------------------------------------------
(***************************************************************************)
(* Properties.                                                             *)
(***************************************************************************)
Files ==
  [rw : Passwords \cup Unset, ro : Passwords \cup Unset,
   rest : {"template", "filled in", Missing}]

TypeOK ==
  /\ roles \in [Roles -> Passwords \cup {NOLOGIN}]
  /\ env \in Files
  /\ pc \in [Runs -> {"idle", "schema", "read", "alter_rw", "alter_ro",
                      "truncate", "write", "verify_rw", "verify_ro"}]
  /\ mode \in [Runs -> Modes]
  /\ loaded \in [Runs -> Files]
  /\ envText \in [Runs -> Files]
  /\ urls \in [Runs -> Files]
  /\ starts \in 0..MaxStarts
  /\ deaths \in 0..MaxDeaths
  /\ alone \subseteq Runs
  /\ {failed, edited, hurt} \subseteq BOOLEAN

HasLines(file) == \A role \in Roles : file[role] # Missing

(* "Bootstrap complete", or ".env already has role credentials".           *)
Completes(r) == VerifyRo(r) /\ roles.ro = urls[r].ro

(* A run beside which nothing happens leaves credentials in .env that      *)
(* work, if it ends well, with or without --reset-passwords and whatever   *)
(* earlier runs that overlapped or died have left behind.  After one that  *)
(* died between an ALTER ROLE and the rewrite of a .env with passwords, a  *)
(* run without --reset-passwords does not end well: it raises, and does    *)
(* not repair.                                                             *)
LoneRunSetsUp ==
  [][\A r \in alone : Completes(r) /\ HasLines(env) => Works(env)]_vars

(* However runs overlap, if none has raised or died there are no passwords *)
(* in .env that do not work: a password that goes wrong does not go        *)
(* unnoticed.  (The loss of a whole line does: where it is missing, there  *)
(* is no password.)                                                        *)
NothingBrokenInSilence ==
  (\A r \in Runs : Idle(r)) /\ ~failed =>
    \A role \in Roles : env[role] \in Unset \cup {roles[role]}

(* Without --reset-passwords a run on its own does not replace passwords   *)
(* that work.                                                              *)
WorkingPasswordsStay ==
  [][roles' # roles /\ Works(env) =>
       \E r \in Runs : /\ pc[r] \in {"alter_rw", "alter_ro"} /\ pc'[r] # pc[r]
                       /\ mode[r] = "--reset-passwords" \/ r \notin alone]_vars

(* What the operator has filled in is still there when nobody writes the   *)
(* file, unless a run that wrote it had been overlapped or has died in it. *)
EditsStay ==
  /\ edited
  /\ ~hurt
  /\ \A r \in Runs : pc[r] # "write"
  => env.rest = "filled in"
============================================================================
