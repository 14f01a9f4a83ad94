-------------------------- MODULE BootstrapProofs --------------------------
(***************************************************************************)
(* What bootstrap.py keeps, for any number of runs that overlap and die.   *)
(***************************************************************************)
EXTENDS Bootstrap, TLAPS

(* A run that is to set passwords has generated them.                      *)
Generated(r) ==
  /\ pc[r] \notin {"idle", "schema"} => mode[r] # "--schema-only"
  /\ /\ pc[r] \in {"schema", "read", "alter_rw", "alter_ro", "truncate", "write"}
     /\ mode[r] # "--schema-only"
     => urls[r].rw \in Passwords /\ urls[r].ro \in Passwords

(* It has found that it should.                                            *)
Entitled(r) ==
  pc[r] \in {"alter_rw", "alter_ro"} =>
    mode[r] = "--reset-passwords" \/ NeedsPasswords(envText[r])

(* What a run that is alone has read and written is still so.              *)
Undisturbed(r) ==
  /\ pc[r] # "idle"
  /\ \A other \in Runs \ {r} : pc[other] = "idle"
  /\ pc[r] \in {"schema", "read"} => loaded[r] = env
  /\ pc[r] \in {"alter_rw", "alter_ro", "truncate"} => envText[r] = env
  /\ pc[r] \in {"verify_rw", "verify_ro"} =>
       /\ env.rw \in {Missing, urls[r].rw}
       /\ env.ro \in {Missing, urls[r].ro}
  /\ pc[r] = "verify_ro" => roles.rw = urls[r].rw

(* Some run is about to write the new password of the role into the file,  *)
(* or about to find that the one it has written does not work.             *)
Pending(r, role) ==
  \/ pc[r] \in {"truncate", "write"}
  \/ pc[r] = "alter_ro" /\ role = "rw"
  \/ pc[r] = "verify_rw" /\ urls[r][role] # roles[role]
  \/ pc[r] = "verify_ro" /\ role = "ro" /\ urls[r].ro # roles.ro

NoticedFor(role) ==
  env[role] \in Unset \cup {roles[role]} \/ \E r \in Runs : Pending(r, role)

(* What the operator has filled in is in the file, or on its way there.    *)
EditsInvariant ==
  ~hurt =>
    /\ \A r \in Runs : pc[r] = "write" => r \in alone /\ env.rest = Missing
    /\ edited => /\ (\A r \in Runs : pc[r] # "write") => env.rest = "filled in"
                 /\ \A r \in Runs : pc[r] = "write" => envText[r].rest = "filled in"

IInv ==
  /\ TypeOK
  /\ \A r \in Runs : Generated(r) /\ Entitled(r)
  /\ \A r \in alone : Undisturbed(r)
  /\ ~failed => NoticedFor("rw") /\ NoticedFor("ro")
  /\ EditsInvariant

LEMMA Bounds == MaxStarts \in Nat /\ MaxDeaths \in Nat
  BY BootstrapAssumption

LEMMA InitIInv == Init => IInv
<1> SUFFICES ASSUME Init PROVE IInv
  OBVIOUS
<1>1. env \in Files /\ env.rw \in Unset /\ env.ro \in Unset
  <2>1. env \in {Template, [Empty EXCEPT !.rest = "template"]}
    BY DEF Init
  <2>2. CASE env = Template
    BY <2>2 DEF Template, Files, Unset
  <2>3. CASE env = [Empty EXCEPT !.rest = "template"]
    BY <2>3 DEF Empty, Files, Unset
  <2> QED
    BY <2>1, <2>2, <2>3
<1>2. TypeOK
  <2>1. Empty \in Files
    BY DEF Empty, Files, Unset
  <2>2. 0 \in 0..MaxStarts /\ 0 \in 0..MaxDeaths
    BY Bounds
  <2> QED
    BY <1>1, <2>1, <2>2 DEF Init, TypeOK, Modes
<1>3. \A r \in Runs : Generated(r) /\ Entitled(r)
  BY DEF Init, Generated, Entitled
<1>4. NoticedFor("rw") /\ NoticedFor("ro")
  BY <1>1 DEF NoticedFor
<1>5. EditsInvariant
  BY DEF Init, EditsInvariant
<1> QED
  BY <1>2, <1>3, <1>4, <1>5 DEF Init, IInv

----------------------------------------------------------------------------
(* Types.                                                                  *)
LEMMA EndKeepsTypes ==
  ASSUME TypeOK, NEW r \in Runs, End(r), UNCHANGED <<envVars, starts>>,
         deaths' \in 0..MaxDeaths, {failed', edited', hurt'} \subseteq BOOLEAN
  PROVE  TypeOK'
<1>1. Empty \in Files
  BY DEF Empty, Files, Unset
<1>2. "plain" \in Modes
  BY DEF Modes
<1> QED
  BY <1>1, <1>2 DEF TypeOK, End, GoTo, envVars

LEMMA StepKeepsTypes ==
  ASSUME IInv, NEW r \in Runs, Step(r)
  PROVE  TypeOK'
<1> USE Bounds DEF GoTo
<1>t. TypeOK
  BY DEF IInv
<1>1. ASSUME NEW option \in Modes, Start(r, option)
      PROVE  TypeOK'
  <2>1. urls' \in [Runs -> Files] /\ starts' \in 0..MaxStarts
    <3>1. CASE option = "--schema-only"
      BY <1>t, <1>1, <3>1 DEF Start, TypeOK
    <3>2. CASE option # "--schema-only"
      <4>1. starts' \in Passwords /\ starts' \in 0..MaxStarts
        <5>1. starts \in 0..MaxStarts
          BY <1>t DEF TypeOK
        <5>2. starts < MaxStarts /\ starts' = starts + 1
          BY <1>1, <3>2 DEF Start
        <5> QED
          BY <5>1, <5>2 DEF Passwords
      <4>2. Fresh(starts') \in Files
        BY <4>1 DEF Fresh, Files, Empty, Unset
      <4> QED
        BY <1>t, <1>1, <3>2, <4>1, <4>2 DEF Start, TypeOK
    <3> QED
      BY <3>1, <3>2
  <2> QED
    BY <1>t, <1>1, <2>1 DEF TypeOK, Start, envVars
<1>2. CASE ApplySchema(r)
  <2>1. CASE mode[r] = "--schema-only"
    BY <1>t, <1>2, <2>1, EndKeepsTypes DEF ApplySchema, TypeOK
  <2>2. CASE mode[r] # "--schema-only"
    BY <1>t, <1>2, <2>2 DEF ApplySchema, TypeOK, envVars
  <2> QED
    BY <2>1, <2>2
<1>3. CASE ReadEnv(r)
  BY <1>t, <1>3 DEF ReadEnv, TypeOK, envVars, history
<1>4. CASE Raise(r)
  BY <1>t, <1>4, EndKeepsTypes DEF Raise, TypeOK
<1>5. CASE LeaveUntouched(r) /\ ~Raise(r)
  BY <1>t, <1>5 DEF LeaveUntouched, TypeOK, envVars, history
<1>6. CASE AlterRw(r) \/ AlterRo(r)
  <2>1. urls[r].rw \in Passwords /\ urls[r].ro \in Passwords
    BY <1>6 DEF IInv, Generated, AlterRw, AlterRo, SetRolePassword
  <2> QED
    BY <1>t, <1>6, <2>1 DEF AlterRw, AlterRo, SetRolePassword, TypeOK, history, Roles
<1>7. CASE TruncateEnv(r)
  <2>1. Empty \in Files
    BY DEF Empty, Files, Unset
  <2> QED
    BY <1>t, <1>7, <2>1 DEF TruncateEnv, TypeOK
<1>8. CASE WriteEnv(r)
  <2>1. RewriteEnv(envText[r], urls[r]) \in Files
    BY <1>t DEF RewriteEnv, Files, Unset, TypeOK
  <2> QED
    BY <1>t, <1>8, <2>1 DEF WriteEnv, TypeOK
<1>9. CASE VerifyRw(r) /\ ~Raise(r)
  BY <1>t, <1>9 DEF VerifyRw, TypeOK, envVars, history
<1>10. CASE VerifyRo(r) /\ ~Raise(r)
  BY <1>t, <1>10, EndKeepsTypes DEF VerifyRo, TypeOK
<1>11. CASE Die(r)
  <2>1. deaths' \in 0..MaxDeaths
    <3>1. deaths \in 0..MaxDeaths
      BY <1>t DEF TypeOK
    <3>2. deaths < MaxDeaths /\ deaths' = deaths + 1
      BY <1>11 DEF Die
    <3> QED
      BY <3>1, <3>2
  <2>2. {failed', edited', hurt'} \subseteq BOOLEAN
    BY <1>t, <1>11 DEF Die, TypeOK
  <2> QED
    BY <1>t, <1>11, <2>1, <2>2, EndKeepsTypes DEF Die
<1> QED
  BY <1>1, <1>2, <1>3, <1>4, <1>5, <1>6, <1>7, <1>8, <1>9, <1>10, <1>11 DEF Step

----------------------------------------------------------------------------
(* A step is one run's own: others have their place, option and knowledge  *)
(* still, and of those that are alone it can only be the one.              *)
LEMMA StepIsOwn ==
  ASSUME TypeOK, NEW r \in Runs, Step(r)
  PROVE  \A q \in Runs \ {r} :
           /\ pc'[q] = pc[q] /\ mode'[q] = mode[q] /\ loaded'[q] = loaded[q]
           /\ envText'[q] = envText[q] /\ urls'[q] = urls[q]
<1> USE DEF GoTo
<1>1. ASSUME End(r)
      PROVE  \A q \in Runs \ {r} :
               /\ pc'[q] = pc[q] /\ mode'[q] = mode[q] /\ loaded'[q] = loaded[q]
               /\ envText'[q] = envText[q] /\ urls'[q] = urls[q]
  BY <1>1 DEF End, TypeOK
<1>2. ASSUME NEW option \in Modes, Start(r, option)
      PROVE  \A q \in Runs \ {r} :
               /\ pc'[q] = pc[q] /\ mode'[q] = mode[q] /\ loaded'[q] = loaded[q]
               /\ envText'[q] = envText[q] /\ urls'[q] = urls[q]
  BY <1>2 DEF Start, TypeOK
<1>3. CASE ApplySchema(r)
  BY <1>1, <1>3 DEF ApplySchema, TypeOK
<1>4. CASE ReadEnv(r)
  BY <1>4 DEF ReadEnv, TypeOK
<1>5. CASE LeaveUntouched(r)
  BY <1>1, <1>5 DEF LeaveUntouched, Raise, TypeOK
<1>6. CASE AlterRw(r) \/ AlterRo(r)
  BY <1>6 DEF AlterRw, AlterRo, SetRolePassword, TypeOK
<1>7. CASE TruncateEnv(r) \/ WriteEnv(r)
  BY <1>7 DEF TruncateEnv, WriteEnv, TypeOK
<1>8. CASE VerifyRw(r) \/ VerifyRo(r) \/ Die(r)
  BY <1>1, <1>8 DEF VerifyRw, VerifyRo, Die, Raise, TypeOK
<1> QED
  BY <1>2, <1>3, <1>4, <1>5, <1>6, <1>7, <1>8 DEF Step

(* What its actions make of the run itself.                                *)
LEMMA Effects ==
  ASSUME TypeOK, NEW r \in Runs
  PROVE  /\ End(r) => pc'[r] = "idle" /\ alone' = alone \ {r}
         /\ \A option \in Modes :
              Start(r, option) =>
                /\ pc'[r] = "schema" /\ mode'[r] = option /\ loaded'[r] = env
                /\ option # "--schema-only" => urls'[r] = Fresh(starts')
         /\ ApplySchema(r) /\ ~End(r) =>
              /\ pc'[r] = "read" /\ mode[r] # "--schema-only"
              /\ UNCHANGED <<mode, loaded, envText, urls, alone>>
         /\ ReadEnv(r) => pc'[r] = "alter_rw" /\ envText'[r] = env
         /\ LeaveUntouched(r) /\ ~Raise(r) => pc'[r] = "verify_rw" /\ urls'[r] = loaded[r]
         /\ AlterRw(r) => pc'[r] = "alter_ro" /\ roles'.rw = urls[r].rw /\ roles'.ro = roles.ro
         /\ AlterRo(r) => pc'[r] = "truncate" /\ roles'.ro = urls[r].ro /\ roles'.rw = roles.rw
         /\ TruncateEnv(r) => pc'[r] = "write"
         /\ WriteEnv(r) => pc'[r] = "verify_rw"
         /\ VerifyRw(r) /\ ~Raise(r) => pc'[r] = "verify_ro" /\ roles.rw = urls[r].rw
<1> USE DEF GoTo
<1>1. End(r) => pc'[r] = "idle" /\ alone' = alone \ {r}
  BY DEF End, TypeOK
<1>2. ASSUME NEW option \in Modes, Start(r, option)
      PROVE  /\ pc'[r] = "schema" /\ mode'[r] = option /\ loaded'[r] = env
             /\ option # "--schema-only" => urls'[r] = Fresh(starts')
  BY <1>2 DEF Start, TypeOK
<1>3. ApplySchema(r) /\ ~End(r) =>
        /\ pc'[r] = "read" /\ mode[r] # "--schema-only"
        /\ UNCHANGED <<mode, loaded, envText, urls, alone>>
  BY DEF ApplySchema, TypeOK
<1>4. ReadEnv(r) => pc'[r] = "alter_rw" /\ envText'[r] = env
  BY DEF ReadEnv, TypeOK
<1>5. LeaveUntouched(r) /\ ~Raise(r) => pc'[r] = "verify_rw" /\ urls'[r] = loaded[r]
  BY DEF LeaveUntouched, TypeOK
<1>6. AlterRw(r) => pc'[r] = "alter_ro" /\ roles'.rw = urls[r].rw /\ roles'.ro = roles.ro
  BY DEF AlterRw, SetRolePassword, TypeOK, Roles
<1>7. AlterRo(r) => pc'[r] = "truncate" /\ roles'.ro = urls[r].ro /\ roles'.rw = roles.rw
  BY DEF AlterRo, SetRolePassword, TypeOK, Roles
<1>8. TruncateEnv(r) => pc'[r] = "write"
  BY DEF TruncateEnv, TypeOK
<1>9. WriteEnv(r) => pc'[r] = "verify_rw"
  BY DEF WriteEnv, TypeOK
<1>10. VerifyRw(r) /\ ~Raise(r) => pc'[r] = "verify_ro" /\ roles.rw = urls[r].rw
  BY DEF VerifyRw, TypeOK
<1> QED
  BY <1>1, <1>2, <1>3, <1>4, <1>5, <1>6, <1>7, <1>8, <1>9, <1>10

LEMMA StepKeepsGenerated ==
  ASSUME IInv, NEW r \in Runs, Step(r)
  PROVE  \A q \in Runs : Generated(q)' /\ Entitled(q)'
<1>t. TypeOK /\ Generated(r) /\ Entitled(r)
  BY DEF IInv
<1>o. \A q \in Runs \ {r} : Generated(q)' /\ Entitled(q)'
  BY <1>t, StepIsOwn DEF IInv, Generated, Entitled, NeedsPasswords
<1> SUFFICES Generated(r)' /\ Entitled(r)'
  BY <1>o
<1> USE DEF Generated, Entitled
<1>1. ASSUME NEW option \in Modes, Start(r, option)
      PROVE  Generated(r)' /\ Entitled(r)'
  <2>1. pc'[r] = "schema" /\ mode'[r] = option
    BY <1>t, <1>1, Effects
  <2>2. ASSUME option # "--schema-only"
        PROVE  urls'[r].rw \in Passwords /\ urls'[r].ro \in Passwords
    <3>1. starts' \in Passwords
      <4>1. starts \in 0..MaxStarts
        BY <1>t DEF TypeOK
      <4>2. starts < MaxStarts /\ starts' = starts + 1
        BY <1>1, <2>2 DEF Start
      <4> QED
        BY <4>1, <4>2, Bounds DEF Passwords
    <3>2. urls'[r] = Fresh(starts')
      BY <1>t, <1>1, <2>2, Effects
    <3> QED
      BY <3>1, <3>2 DEF Fresh, Empty
  <2> QED
    BY <2>1, <2>2
<1>2. ASSUME pc'[r] = "idle"
      PROVE  Generated(r)' /\ Entitled(r)'
  BY <1>2
<1>3. CASE End(r)
  BY <1>t, <1>2, <1>3, Effects
<1>4. CASE ApplySchema(r) /\ ~End(r)
  <2>1. pc[r] = "schema"
    BY <1>4 DEF ApplySchema
  <2> QED
    BY <1>t, <1>4, <2>1, Effects
<1>5. CASE ReadEnv(r)
  <2>1. /\ pc[r] = "read" /\ UNCHANGED <<mode, urls>>
        /\ mode[r] = "--reset-passwords" \/ NeedsPasswords(env)
    BY <1>5 DEF ReadEnv
  <2> QED
    BY <1>t, <1>5, <2>1, Effects DEF NeedsPasswords
<1>6. CASE LeaveUntouched(r) /\ ~Raise(r)
  <2>1. pc[r] = "read" /\ UNCHANGED mode
    BY <1>6 DEF LeaveUntouched
  <2> QED
    BY <1>t, <1>6, <2>1, Effects
<1>7. CASE AlterRw(r) \/ AlterRo(r)
  <2>1. pc[r] \in {"alter_rw", "alter_ro"} /\ UNCHANGED <<mode, urls, envText>>
    BY <1>7 DEF AlterRw, AlterRo, SetRolePassword
  <2> QED
    BY <1>t, <1>7, <2>1, Effects DEF NeedsPasswords
<1>8. CASE TruncateEnv(r)
  <2>1. pc[r] = "truncate" /\ UNCHANGED <<mode, urls>>
    BY <1>8 DEF TruncateEnv
  <2> QED
    BY <1>t, <1>8, <2>1, Effects
<1>10. CASE WriteEnv(r)
  <2>1. pc[r] = "write" /\ UNCHANGED <<mode, urls>>
    BY <1>10 DEF WriteEnv
  <2> QED
    BY <1>t, <1>10, <2>1, Effects
<1>11. CASE VerifyRw(r) /\ ~Raise(r)
  <2>1. pc[r] = "verify_rw" /\ UNCHANGED <<mode, urls>>
    BY <1>11 DEF VerifyRw
  <2> QED
    BY <1>t, <1>11, <2>1, Effects
<1>9. CASE Raise(r) \/ VerifyRo(r) \/ Die(r)
  BY <1>3, <1>9 DEF Raise, VerifyRo, Die
<1> QED
  BY <1>1, <1>3, <1>4, <1>5, <1>6, <1>7, <1>8, <1>9, <1>10, <1>11 DEF Step

----------------------------------------------------------------------------
(* A run that is alone after a step was or is alone in making it.          *)
LEMMA AloneIsOwn ==
  ASSUME IInv, NEW r \in Runs, Step(r), NEW q \in alone'
  PROVE  /\ q = r
         /\ \A other \in Runs \ {r} : pc'[other] = "idle"
         /\ (\E option \in Modes : Start(r, option)) \/ Undisturbed(r)
<1>t. TypeOK
  BY DEF IInv
<1>1. ASSUME NEW option \in Modes, Start(r, option)
      PROVE  q = r /\ \A other \in Runs \ {r} : pc[other] = "idle"
  BY <1>1 DEF Start, Idle
<1>2. CASE ~\E option \in Modes : Start(r, option)
  <2>1. alone' \subseteq alone
    BY <1>2 DEF Step, ApplySchema, ReadEnv, LeaveUntouched, Raise, AlterRw, AlterRo,
                SetRolePassword, TruncateEnv, WriteEnv, VerifyRw, VerifyRo, Die, End, history
  <2>2. Undisturbed(q) /\ q \in Runs
    BY <1>t, <2>1 DEF IInv, TypeOK
  <2>3. pc[r] # "idle"
    BY <1>2 DEF Step, ApplySchema, ReadEnv, LeaveUntouched, AlterRw, AlterRo,
                SetRolePassword, TruncateEnv, WriteEnv, VerifyRw, VerifyRo, Die, Idle
  <2> QED
    BY <1>t, <2>2, <2>3, StepIsOwn DEF Undisturbed
<1> QED
  BY <1>t, <1>1, <1>2, StepIsOwn

LEMMA StepKeepsUndisturbed ==
  ASSUME IInv, NEW r \in Runs, Step(r)
  PROVE  \A q \in alone' : Undisturbed(q)'
<1> SUFFICES ASSUME NEW q \in alone'
             PROVE  Undisturbed(q)'
  OBVIOUS
<1>t. TypeOK
  BY DEF IInv
<1>q. q = r /\ \A other \in Runs \ {r} : pc'[other] = "idle"
  BY AloneIsOwn
<1> SUFFICES Undisturbed(r)'
  BY <1>q
<1> USE DEF Undisturbed
<1>1. ASSUME NEW option \in Modes, Start(r, option)
      PROVE  Undisturbed(r)'
  BY <1>t, <1>q, <1>1, Effects DEF Start, envVars
<1>u. ASSUME ~\E option \in Modes : Start(r, option)
      PROVE  Undisturbed(r)
  BY <1>u, AloneIsOwn
<1>2. CASE End(r)
  <2>1. r \notin alone'
    BY <1>t, <1>2, Effects
  <2> QED
    BY <2>1, <1>q
<1>3. CASE ApplySchema(r) /\ ~End(r)
  <2>1. pc[r] = "schema" /\ UNCHANGED env
    BY <1>3 DEF ApplySchema, envVars
  <2>2. Undisturbed(r)
    BY <1>t, <1>3, <1>u, Effects DEF Start, ApplySchema, Idle
  <2> QED
    BY <1>t, <1>q, <1>3, <2>1, <2>2, Effects
<1>4. CASE ReadEnv(r)
  <2>1. pc[r] = "read" /\ UNCHANGED env
    BY <1>4 DEF ReadEnv, envVars
  <2> QED
    BY <1>t, <1>q, <1>4, <2>1, Effects
<1>5. CASE LeaveUntouched(r) /\ ~Raise(r)
  <2>1. pc[r] = "read" /\ UNCHANGED env
    BY <1>5 DEF LeaveUntouched, envVars
  <2>2. Undisturbed(r)
    BY <1>u, <2>1 DEF Start, Idle
  <2> QED
    BY <1>t, <1>q, <1>5, <2>1, <2>2, Effects
<1>6. CASE AlterRw(r) \/ AlterRo(r)
  <2>1. pc[r] \in {"alter_rw", "alter_ro"} /\ UNCHANGED <<env, envText>>
    BY <1>6 DEF AlterRw, AlterRo, SetRolePassword
  <2>2. Undisturbed(r)
    BY <1>u, <2>1 DEF Start, Idle
  <2> QED
    BY <1>t, <1>q, <1>6, <2>1, <2>2, Effects
<1>7. CASE TruncateEnv(r)
  BY <1>t, <1>q, <1>7, Effects
<1>8. CASE WriteEnv(r)
  <2>1. env' = RewriteEnv(envText[r], urls[r]) /\ UNCHANGED urls
    BY <1>8 DEF WriteEnv
  <2>2. env'.rw \in {Missing, urls[r].rw} /\ env'.ro \in {Missing, urls[r].ro}
    BY <1>t, <2>1 DEF RewriteEnv, TypeOK, Files
  <2> QED
    BY <1>t, <1>q, <1>8, <2>1, <2>2, Effects
<1>9. CASE VerifyRw(r) /\ ~Raise(r)
  <2>1. pc[r] = "verify_rw" /\ UNCHANGED <<env, roles, urls>>
    BY <1>9 DEF VerifyRw, envVars
  <2>2. Undisturbed(r)
    BY <1>u, <2>1 DEF Start, Idle
  <2> QED
    BY <1>t, <1>q, <1>9, <2>1, <2>2, Effects
<1>10. CASE Raise(r) \/ VerifyRo(r) \/ Die(r)
  BY <1>2, <1>10 DEF Raise, VerifyRo, Die
<1> QED
  BY <1>1, <1>2, <1>3, <1>4, <1>5, <1>6, <1>7, <1>8, <1>9, <1>10 DEF Step

----------------------------------------------------------------------------
(* Where file and password stay, so does what will be noticed of them.     *)
LEMMA StaysNoticed ==
  ASSUME TypeOK, NEW r \in Runs, Step(r), NEW role \in Roles, NoticedFor(role),
         env'[role] = env[role], roles'[role] = roles[role],
         Pending(r, role) => Pending(r, role)'
  PROVE  NoticedFor(role)'
<1>1. CASE env[role] \in Unset \cup {roles[role]}
  BY <1>1 DEF NoticedFor
<1>2. ASSUME NEW q \in Runs, Pending(q, role)
      PROVE  Pending(q, role)'
  <2>1. CASE q = r
    BY <1>2, <2>1
  <2>2. CASE q # r
    <3>1. pc'[q] = pc[q] /\ urls'[q] = urls[q]
      BY <2>2, StepIsOwn
    <3>2. role \in {"rw", "ro"}
      BY DEF Roles
    <3> QED
      BY <1>2, <3>1, <3>2 DEF Pending
  <2> QED
    BY <2>1, <2>2
<1> QED
  BY <1>1, <1>2 DEF NoticedFor

LEMMA StepIsNoticed ==
  ASSUME IInv, NEW r \in Runs, Step(r), ~failed'
  PROVE  NoticedFor("rw")' /\ NoticedFor("ro")'
<1>t. TypeOK
  BY DEF IInv
<1>r. "rw" \in Roles /\ "ro" \in Roles
  BY DEF Roles
<1>n. ~Raise(r) /\ ~Die(r)
  BY DEF Raise, Die
<1>f. ~failed
  BY <1>n DEF Step, Start, ApplySchema, ReadEnv, LeaveUntouched, AlterRw, AlterRo,
              SetRolePassword, TruncateEnv, WriteEnv, VerifyRw, VerifyRo, history
<1>o. NoticedFor("rw") /\ NoticedFor("ro")
  BY <1>f DEF IInv
<1>1. CASE (\E option \in Modes : Start(r, option)) \/ ApplySchema(r) \/ ReadEnv(r)
           \/ LeaveUntouched(r)
  <2>1. pc[r] \in {"idle", "schema", "read"} /\ UNCHANGED envVars
    BY <1>1, <1>n DEF Start, ApplySchema, ReadEnv, LeaveUntouched, Idle
  <2>2. ~Pending(r, "rw") /\ ~Pending(r, "ro")
    BY <2>1 DEF Pending
  <2> QED
    BY <1>t, <1>r, <1>o, <2>1, <2>2, StaysNoticed DEF envVars
<1>2. CASE AlterRw(r)
  <2>1. pc[r] = "alter_rw" /\ UNCHANGED env
    BY <1>2 DEF AlterRw, SetRolePassword
  <2>2. pc'[r] = "alter_ro" /\ roles'.ro = roles.ro
    BY <1>t, <1>2, Effects
  <2>3. Pending(r, "rw")' /\ ~Pending(r, "ro")
    BY <2>1, <2>2 DEF Pending
  <2>4. NoticedFor("ro")'
    BY <1>t, <1>r, <1>o, <2>1, <2>2, <2>3, StaysNoticed
  <2> QED
    BY <2>3, <2>4 DEF NoticedFor
<1>3. CASE AlterRo(r) \/ TruncateEnv(r)
  <2>1. pc'[r] \in {"truncate", "write"}
    BY <1>t, <1>3, Effects
  <2> QED
    BY <2>1 DEF NoticedFor, Pending
<1>4. CASE WriteEnv(r)
  <2>1. env' = RewriteEnv(envText[r], urls[r]) /\ UNCHANGED <<urls, roles>>
    BY <1>4 DEF WriteEnv
  <2>2. env'.rw \in {Missing, urls[r].rw} /\ env'.ro \in {Missing, urls[r].ro}
    BY <1>t, <2>1 DEF RewriteEnv, TypeOK, Files
  <2>3. pc'[r] = "verify_rw"
    BY <1>t, <1>4, Effects
  <2>4. NoticedFor("rw")'
    BY <2>1, <2>2, <2>3 DEF NoticedFor, Pending, Unset
  <2>5. NoticedFor("ro")'
    BY <2>1, <2>2, <2>3 DEF NoticedFor, Pending, Unset
  <2> QED
    BY <2>4, <2>5
<1>5. CASE VerifyRw(r)
  <2>1. pc[r] = "verify_rw" /\ UNCHANGED <<envVars, urls>>
    BY <1>5, <1>n DEF VerifyRw
  <2>2. pc'[r] = "verify_ro" /\ roles.rw = urls[r].rw
    BY <1>t, <1>n, <1>5, Effects
  <2>3. ~Pending(r, "rw")
    BY <2>1, <2>2 DEF Pending
  <2>4. Pending(r, "ro") => Pending(r, "ro")'
    BY <2>1, <2>2 DEF Pending, envVars
  <2> QED
    BY <1>t, <1>r, <1>o, <2>1, <2>3, <2>4, StaysNoticed DEF envVars
<1>6. CASE VerifyRo(r)
  <2>1. pc[r] = "verify_ro" /\ roles.ro = urls[r].ro /\ UNCHANGED envVars
    BY <1>6, <1>n DEF VerifyRo
  <2>2. ~Pending(r, "rw") /\ ~Pending(r, "ro")
    BY <2>1 DEF Pending
  <2> QED
    BY <1>t, <1>r, <1>o, <2>1, <2>2, StaysNoticed DEF envVars
<1> QED
  BY <1>n, <1>1, <1>2, <1>3, <1>4, <1>5, <1>6 DEF Step

----------------------------------------------------------------------------
(* Only a run that is alone takes the edits out of the file, and it has    *)
(* read them before.                                                       *)
LEMMA StepKeepsEdits ==
  ASSUME IInv, NEW r \in Runs, Step(r)
  PROVE  EditsInvariant'
<1> SUFFICES ASSUME ~hurt'
             PROVE  /\ \A q \in Runs : pc'[q] = "write" => q \in alone' /\ env'.rest = Missing
                    /\ edited' => /\ (\A q \in Runs : pc'[q] # "write") => env'.rest = "filled in"
                                  /\ \A q \in Runs : pc'[q] = "write" => envText'[q].rest = "filled in"
  BY DEF EditsInvariant
<1>t. TypeOK
  BY DEF IInv
<1>h. ~hurt /\ edited' = edited
  <2>1. CASE (\E option \in Modes : Start(r, option)) \/ ApplySchema(r)
    BY <2>1 DEF Start, ApplySchema
  <2>2. CASE ReadEnv(r) \/ LeaveUntouched(r) \/ VerifyRw(r) \/ VerifyRo(r)
    BY <2>2 DEF ReadEnv, LeaveUntouched, VerifyRw, VerifyRo, Raise, history
  <2>3. CASE AlterRw(r) \/ AlterRo(r)
    BY <2>3 DEF AlterRw, AlterRo, SetRolePassword, history
  <2>4. CASE TruncateEnv(r) \/ WriteEnv(r) \/ Die(r)
    BY <2>4 DEF TruncateEnv, WriteEnv, Die
  <2> QED
    BY <2>1, <2>2, <2>3, <2>4 DEF Step
<1>e. /\ \A q \in Runs : pc[q] = "write" => q \in alone /\ env.rest = Missing
      /\ edited => /\ (\A q \in Runs : pc[q] # "write") => env.rest = "filled in"
                   /\ \A q \in Runs : pc[q] = "write" => envText[q].rest = "filled in"
  BY <1>h DEF IInv, EditsInvariant
<1>o. \A q \in Runs \ {r} : pc'[q] = pc[q] /\ envText'[q] = envText[q]
  BY <1>t, StepIsOwn
<1>1. CASE TruncateEnv(r)
  <2>1. pc[r] = "truncate" /\ r \in alone /\ env' = Empty /\ UNCHANGED <<envText, alone>>
    BY <1>1 DEF TruncateEnv
  <2>2. envText[r] = env /\ \A q \in Runs \ {r} : pc[q] = "idle"
    BY <2>1 DEF IInv, Undisturbed
  <2>3. pc'[r] = "write"
    BY <1>t, <1>1, Effects
  <2> QED
    BY <1>e, <1>h, <1>o, <2>1, <2>2, <2>3 DEF Empty
<1>2. CASE WriteEnv(r)
  <2>1. pc[r] = "write" /\ env' = RewriteEnv(envText[r], urls[r]) /\ UNCHANGED <<envText, alone>>
    BY <1>2 DEF WriteEnv
  <2>2. r \in alone
    BY <1>e, <2>1
  <2>3. \A q \in Runs \ {r} : pc[q] = "idle"
    BY <2>2 DEF IInv, Undisturbed
  <2>4. pc'[r] = "verify_rw"
    BY <1>t, <1>2, Effects
  <2>5. env'.rest = envText[r].rest
    BY <1>t, <2>1 DEF RewriteEnv, TypeOK, Files
  <2> QED
    BY <1>e, <1>h, <1>o, <2>1, <2>3, <2>4, <2>5
<1>3. CASE ~TruncateEnv(r) /\ ~WriteEnv(r)
  <2>1. pc[r] # "write" /\ pc'[r] # "write" /\ UNCHANGED env
    <3>1. UNCHANGED env /\ pc[r] # "write"
      BY <1>3, <1>h DEF Step, Start, ApplySchema, ReadEnv, LeaveUntouched, AlterRw, AlterRo,
         SetRolePassword, VerifyRw, VerifyRo, Raise, Die, envVars, Idle
    <3>2. pc'[r] \in {"idle", "schema", "read", "verify_rw", "alter_rw", "alter_ro",
                      "truncate", "verify_ro"}
      BY <1>t, <1>3, Effects DEF Step, ApplySchema, LeaveUntouched, VerifyRw, VerifyRo, Raise, Die
    <3> QED
      BY <3>1, <3>2
  <2>2. ASSUME NEW q \in Runs, pc[q] = "write"
        PROVE  q \in alone'
    <3>1. q \in alone /\ q # r /\ env.rest = Missing
      BY <1>e, <2>1, <2>2
    <3>2. pc[r] = "idle"
      BY <3>1 DEF IInv, Undisturbed
    <3> QED
      BY <3>1, <3>2 DEF Step, Start, ApplySchema, ReadEnv, LeaveUntouched, AlterRw, AlterRo,
         SetRolePassword, TruncateEnv, WriteEnv, VerifyRw, VerifyRo, Die, Idle
  <2> QED
    BY <1>e, <1>h, <1>o, <2>1, <2>2
<1> QED
  BY <1>1, <1>2, <1>3

----------------------------------------------------------------------------
(* The operator.                                                           *)
LEMMA FillInKeepsIInv ==
  ASSUME IInv, FillIn
  PROVE  IInv'
<1> USE DEF FillIn, runVars
<1>1. TypeOK'
  <2>1. TypeOK
    BY DEF IInv
  <2>2. env' \in Files
    BY <2>1 DEF TypeOK, Files
  <2> QED
    BY <2>1, <2>2 DEF TypeOK
<1>2. \A r \in Runs : Generated(r)' /\ Entitled(r)'
  BY DEF IInv, Generated, Entitled, NeedsPasswords
<1>3. \A r \in alone' : Undisturbed(r)'
  OBVIOUS
<1>4. env'.rw = env.rw /\ env'.ro = env.ro /\ env'.rest = "filled in"
  BY DEF IInv, TypeOK, Files
<1>5. ~failed' => NoticedFor("rw")' /\ NoticedFor("ro")'
  BY <1>4 DEF IInv, NoticedFor, Pending
<1>6. EditsInvariant'
  BY <1>4, BootstrapAssumption DEF IInv, EditsInvariant
<1> QED
  BY <1>1, <1>2, <1>3, <1>5, <1>6 DEF IInv

LEMMA StartAfreshKeepsIInv ==
  ASSUME IInv, StartAfresh
  PROVE  IInv'
<1> USE DEF StartAfresh, runVars
<1>0. Template \in Files /\ Template.rw \in Unset /\ Template.ro \in Unset
  BY DEF Template, Files, Unset
<1>1. TypeOK'
  BY <1>0 DEF IInv, TypeOK
<1>2. \A r \in Runs : Generated(r)' /\ Entitled(r)'
  BY DEF IInv, Generated, Entitled, NeedsPasswords
<1>3. \A r \in alone' : Undisturbed(r)'
  BY DEF IInv, TypeOK, Undisturbed, Idle
<1>4. NoticedFor("rw")' /\ NoticedFor("ro")'
  BY <1>0 DEF NoticedFor
<1>5. EditsInvariant'
  BY DEF EditsInvariant, Idle
<1> QED
  BY <1>1, <1>2, <1>3, <1>4, <1>5 DEF IInv

LEMMA NextIInv ==
  ASSUME IInv, [Next]_vars
  PROVE  IInv'
<1>1. ASSUME NEW r \in Runs, Step(r)
      PROVE  IInv'
  BY <1>1, StepKeepsTypes, StepKeepsGenerated, StepKeepsUndisturbed, StepIsNoticed,
     StepKeepsEdits DEF IInv
<1>2. CASE FillIn
  BY <1>2, FillInKeepsIInv
<1>3. CASE StartAfresh
  BY <1>3, StartAfreshKeepsIInv
<1>4. CASE UNCHANGED vars
  BY <1>4 DEF vars, envVars, runVars, history, IInv, TypeOK, Generated, Entitled, NeedsPasswords,
              Undisturbed, NoticedFor, Pending, EditsInvariant
<1> QED
  BY <1>1, <1>2, <1>3, <1>4 DEF Next

THEOREM Inductive == Spec => []IInv
  BY InitIInv, NextIInv, PTL DEF Spec

THEOREM TypeCorrect == Spec => []TypeOK
<1>1. IInv => TypeOK
  BY DEF IInv
<1> QED
  BY <1>1, Inductive, PTL

(* However many runs overlap, in whatever order they change passwords and  *)
(* write the file: when all are over and none has raised or died, no       *)
(* password is left in .env that does not work.                            *)
THEOREM NothingSilent == Spec => []NothingBrokenInSilence
<1>1. IInv => NothingBrokenInSilence
  <2> SUFFICES ASSUME IInv, \A r \in Runs : Idle(r), ~failed, NEW role \in Roles
               PROVE  env[role] \in Unset \cup {roles[role]}
    BY DEF NothingBrokenInSilence
  <2>1. NoticedFor(role)
    BY DEF IInv, Roles
  <2>2. \A r \in Runs : ~Pending(r, role)
    BY DEF Pending, Idle
  <2> QED
    BY <2>1, <2>2 DEF NoticedFor
<1> QED
  BY <1>1, Inductive, PTL

(* What the operator has filled in survives all runs that are alone and do *)
(* not die while they write the file.                                      *)
THEOREM EditsSurvive == Spec => []EditsStay
<1>1. IInv => EditsStay
  BY DEF IInv, EditsInvariant, EditsStay
<1> QED
  BY <1>1, Inductive, PTL

(* A run that nothing overlaps and that completes leaves credentials that  *)
(* work, in the file as it stands then, from any state earlier runs left.  *)
THEOREM LoneRunWorks == Spec => LoneRunSetsUp
<1>1. ASSUME IInv, NEW r \in alone, Completes(r), HasLines(env)
      PROVE  Works(env)
  <2>1. Undisturbed(r) /\ pc[r] = "verify_ro" /\ roles.ro = urls[r].ro
    BY <1>1 DEF IInv, Completes, VerifyRo
  <2>2. env.rw = urls[r].rw /\ env.ro = urls[r].ro /\ roles.rw = urls[r].rw
    BY <1>1, <2>1 DEF Undisturbed, HasLines, Roles
  <2> QED
    BY <2>1, <2>2 DEF Works, Roles
<1>2. IInv => [\A r \in alone : Completes(r) /\ HasLines(env) => Works(env)]_vars
  BY <1>1
<1> QED
  BY <1>2, Inductive, PTL DEF LoneRunSetsUp

(* Without --reset-passwords a lone run does not replace working passwords.*)
THEOREM WorkingStay == Spec => WorkingPasswordsStay
<1> DEFINE Excused(r) == /\ pc[r] \in {"alter_rw", "alter_ro"} /\ pc'[r] # pc[r]
                         /\ mode[r] = "--reset-passwords" \/ r \notin alone
<1>1. ASSUME IInv, Next, roles' # roles, Works(env)
      PROVE  \E r \in Runs : Excused(r)
  <2>1. PICK r \in Runs : AlterRw(r) \/ AlterRo(r)
    BY <1>1 DEF Next, Step, Start, ApplySchema, ReadEnv, LeaveUntouched, TruncateEnv, WriteEnv,
                VerifyRw, VerifyRo, Raise, Die, FillIn, StartAfresh, envVars
  <2>2. pc[r] \in {"alter_rw", "alter_ro"} /\ pc'[r] # pc[r]
    BY <1>1, <2>1, Effects DEF IInv, AlterRw, AlterRo, SetRolePassword
  <2>3. ASSUME r \in alone
        PROVE  mode[r] = "--reset-passwords"
    <3>1. envText[r] = env
      BY <1>1, <2>2, <2>3 DEF IInv, Undisturbed
    <3>2. ~NeedsPasswords(env)
      <4>1. \A role \in Roles : roles[role] # CHANGE_ME
        BY <1>1, BootstrapAssumption DEF IInv, TypeOK, Unset
      <4> QED
        BY <1>1, <4>1 DEF Works, NeedsPasswords
    <3> QED
      BY <1>1, <2>2, <3>1, <3>2 DEF IInv, Entitled
  <2> QED
    BY <2>2, <2>3
<1>2. IInv /\ [Next]_vars => [roles' # roles /\ Works(env) => \E r \in Runs : Excused(r)]_vars
  BY <1>1
<1> QED
  BY <1>2, Inductive, PTL DEF Spec, WorkingPasswordsStay
============================================================================
