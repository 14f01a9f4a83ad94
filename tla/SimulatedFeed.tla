--------------------------- MODULE SimulatedFeed ---------------------------
(***************************************************************************)
(* simulation/dataset.py: build_dataset makes a feed of benign events and  *)
(* seeded attack scenarios, and a manifest of which lines the attacks are  *)
(* on: the ground truth that the rules of detection are tested against.    *)
(*                                                                         *)
(* What the random generator decides is a choice.  Events are truncated to *)
(* the tick, as LogEvent does to the second.                               *)
(***************************************************************************)
EXTENDS RulesEngine, SequencesExt

CONSTANTS
  Start, WindowHours,        (* The window of the run, window_hours.       *)
  BenignEvents,              (* Number of benign events.                   *)
  BenignKinds,               (* Those that generate_auth_events makes.     *)
  FumbleDelays,              (* From a mistyped password to the login.     *)
  Attempts, BurstWidth,      (* The burst's attempts, spread over a time   *)
  Jitter,                    (* that each attempt may miss by a little.    *)
  BreachDelays,              (* From the end of the burst to the breach.   *)
  BurstMargin,               (* Two minutes.                               *)
  OffHoursStart, OffHoursEnd,
  OffHourPreference,         (* The order in which _pick_off_hour looks.   *)
  FallbackHour,
  Keywords,                  (* SIM_PRIVESC_KEYWORDS.                      *)
  SudoSpacing, SudoDelays,   (* A minute, and up to half of one.           *)
  EscalationMargin,          (* Ten minutes.                               *)
  MalformedLines,            (* Number of bad lines that are put in.       *)
  Threshold, RuleWindow      (* Of the rule for brute force.               *)

Day == TicksPerHour * HoursPerDay
End == Start + WindowHours * TicksPerHour

Attacker == "external"
Insider == "internal"

(* What the settings and the rules they are seeded with satisfy: a window  *)
(* of at least a day, in which the burst and the escalation have room; as  *)
(* many attempts as the rule asks for, within the time that it looks at;   *)
(* and an off-hour among the hours that _pick_off_hour prefers.            *)
ASSUME FeedAssumption ==
  /\ Start \in Nat
  /\ WindowHours \in Nat
  /\ WindowHours >= HoursPerDay
  /\ BenignEvents \in Nat
  /\ BenignKinds \subseteq {"login", "fumble", "logout", "sudo"}
  /\ FumbleDelays \subseteq Nat
  /\ \E longest \in FumbleDelays : \A delay \in FumbleDelays : longest >= delay
  /\ {BurstWidth, Jitter, BurstMargin, SudoSpacing, EscalationMargin} \subseteq Nat
  /\ Jitter =< BurstMargin
  /\ BreachDelays \subseteq 0..BurstMargin
  /\ BurstWidth + BurstMargin =< End - Start
  /\ Attempts \in Nat
  /\ Threshold \in 1..Attempts
  /\ RuleWindow \in Nat \ {0}
  /\ BurstWidth + Jitter =< RuleWindow
  /\ OffHourPreference \in Seq(0..(HoursPerDay - 1))
  /\ \E i \in DOMAIN OffHourPreference :
        IsOffHours(OffHourPreference[i], OffHoursStart, OffHoursEnd)
  /\ IsFiniteSet(Keywords)
  /\ SudoDelays \subseteq Nat
  /\ \A delay \in SudoDelays : 2 * SudoSpacing + delay =< EscalationMargin
  /\ EscalationMargin =< End - Start
  /\ None \notin {Attacker, Insider}

VARIABLES
  stage,
  burst_start,
  events,          (* all_events: the benign ones, then the scenarios'.    *)
  items,           (* What is to be rendered: sorted events, bad lines.    *)
  manifest         (* event_line_indexes of each scenario.                 *)

feedVars == <<stage, burst_start, events, items, manifest>>

Scenarios == {"brute_force", "off_hours_login", "privilege_escalation"}

Malformed == [scenario |-> "malformed"]

(* login_event, logout_event and sudo_event; "scenario" stands for the     *)
(* entry of the event in scenario_event_ids.                               *)
Event(scenario, timestamp, kind, ip, ok, phrases) ==
  [scenario      |-> scenario,
   timestamp     |-> timestamp,
   source_system |-> "auth",
   event_type    |-> kind,
   status        |-> IF ok THEN "success" ELSE "failure",
   source_ip     |-> ip,
   username      |-> "user",
   phrases       |-> phrases]

FeedInit ==
  /\ stage = "benign"
  /\ burst_start = Start
  /\ events = <<>>
  /\ items = <<>>
  /\ manifest = [s \in Scenarios |-> {}]

----------------------------------------------------------------------------
(***************************************************************************)
(* Times.                                                                  *)
(***************************************************************************)
RandomTimes(start, end) == start .. end

(* random_business_time: any hour of one of the days, the business hours   *)
(* only more often, moved by a day when that is outside the window.        *)
IntoWindow(candidate) ==
  LET t == IF candidate < Start THEN candidate + Day ELSE candidate
  IN  IF t >= End THEN t - Day ELSE t

BusinessTimes ==
  {IntoWindow(DayOf(Start + k * Day) * Day + h * TicksPerHour + o) :
     k \in 0 .. (End - Start) \div Day - 1,
     h \in 0 .. HoursPerDay - 1,
     o \in 0 .. TicksPerHour - 1}

(* The full hours in the window with this hour of the day.                 *)
FullHours(hour) ==
  {t \in Start .. End - 1 : t % TicksPerHour = 0 /\ HourOf(t) = hour}

(* random_time_at_hour, with its fallback.                                 *)
TimesAtHour(hour) ==
  IF FullHours(hour) = {} THEN RandomTimes(Start, End)
  ELSE {t + o : t \in FullHours(hour), o \in 0 .. TicksPerHour - 1}

(* _pick_off_hour: the first preferred hour that is an off-hour.           *)
OffHour ==
  LET off == {i \in DOMAIN OffHourPreference :
                IsOffHours(OffHourPreference[i], OffHoursStart, OffHoursEnd)}
  IN  IF off = {} THEN FallbackHour ELSE OffHourPreference[Min(off)]

----------------------------------------------------------------------------
(***************************************************************************)
(* The steps of build_dataset.                                             *)
(***************************************************************************)

(* generate_auth_events returns events[:count], so the login after a       *)
(* mistyped password may be cut off.                                       *)
AddBenign ==
  /\ stage = "benign"
  /\ Len(events) < BenignEvents
  /\ \E dt \in BusinessTimes, kind \in BenignKinds, delay \in FumbleDelays :
       LET made == CASE kind = "login"  -> <<Event("benign", dt, "login", Insider, TRUE, {})>>
                     [] kind = "fumble" -> <<Event("benign", dt, "login", Insider, FALSE, {}),
                                             Event("benign", dt + delay, "login", Insider, TRUE, {})>>
                     [] kind = "logout" -> <<Event("benign", dt, "logout", None, TRUE, {})>>
                     [] kind = "sudo"   -> <<Event("benign", dt, "sudo", None, TRUE, {})>>
       IN  events' = SubSeq(events \o made, 1,
                            IF Len(events \o made) < BenignEvents
                            THEN Len(events \o made) ELSE BenignEvents)
  /\ UNCHANGED <<stage, burst_start, items, manifest>>

(* Faulty: no room for the burst at the end of the window.                 *)
StartAnywhere == RandomTimes(Start, End)

BurstStarts == RandomTimes(Start, End - (BurstWidth + BurstMargin))

StartBurst ==
  /\ stage = "benign"
  /\ Len(events) = BenignEvents
  /\ burst_start' \in BurstStarts
  /\ stage' = "burst"
  /\ UNCHANGED <<events, items, manifest>>

(* The place of attempt i (from 0) in the burst, never before its start.   *)
Offsets(i) ==
  LET even == (BurstWidth * i) \div Max({Attempts - 1, 1})
  IN  Max({even - Jitter, 0}) .. even + Jitter

(* brute_force_burst: the failed logins, and then the breach.              *)
AddAttempt ==
  /\ stage = "burst"
  /\ Len(events) < BenignEvents + Attempts
  /\ \E offset \in Offsets(Len(events) - BenignEvents) :
       events' = Append(events, Event("brute_force", burst_start + offset, "login",
                                      Attacker, FALSE, {}))
  /\ UNCHANGED <<stage, burst_start, items, manifest>>

AddBreach ==
  /\ stage = "burst"
  /\ Len(events) = BenignEvents + Attempts
  /\ \E delay \in BreachDelays :
       events' = Append(events, Event("brute_force", burst_start + BurstWidth + delay, "login",
                                      Attacker, TRUE, {}))
  /\ stage' = "login"
  /\ UNCHANGED <<burst_start, items, manifest>>

AddOffHoursLogin ==
  /\ stage = "login"
  /\ \E dt \in TimesAtHour(OffHour) :
       events' = Append(events, Event("off_hours_login", dt, "login", Insider, TRUE, {}))
  /\ stage' = "escalation"
  /\ UNCHANGED <<burst_start, items, manifest>>

Samples ==
  {kw \in [1 .. Min({2, Cardinality(Keywords)}) -> Keywords] : IsInjective(kw)}

(* privilege_escalation: a login and a sudo line for each keyword sampled. *)
AddEscalation ==
  /\ stage = "escalation"
  /\ \E t0 \in RandomTimes(Start, End - EscalationMargin), kw \in Samples :
       \E delays \in [DOMAIN kw -> SudoDelays] :
         events' = events
           \o <<Event("privilege_escalation", t0, "login", Insider, TRUE, {})>>
           \o [i \in DOMAIN kw |-> Event("privilege_escalation",
                                         t0 + i * SudoSpacing + delays[i],
                                         "sudo", None, TRUE, {kw[i]})]
  /\ stage' = "sort"
  /\ UNCHANGED <<burst_start, items, manifest>>

(* A stable sort (the burst's own, before, makes no difference to it): an  *)
(* event comes after those that are earlier, and after those of the same   *)
(* time that were added before it.                                         *)
Before(i, j) ==
  \/ events[i].timestamp < events[j].timestamp
  \/ events[i].timestamp = events[j].timestamp /\ i < j

Place(i) == 1 + Cardinality({j \in DOMAIN events : Before(j, i)})

Sorted == [k \in DOMAIN events |-> events[CHOOSE i \in DOMAIN events : Place(i) = k]]

LinesOf(scenario, lines) == {i \in DOMAIN lines : lines[i].scenario = scenario}

SortEvents ==
  /\ stage = "sort"
  /\ items' = Sorted
  /\ stage' = "splice"
  /\ UNCHANGED <<burst_start, events, manifest>>

BadLines == Cardinality({i \in DOMAIN items : items[i] = Malformed})

InsertMalformed ==
  /\ stage = "splice"
  /\ BadLines < MalformedLines
  /\ \E i \in 1 .. Len(items) + 1 : items' = InsertAt(items, i, Malformed)
  /\ UNCHANGED <<stage, burst_start, events, manifest>>

(* Faulty: every line that is not malformed goes to a next index.          *)
RenderCountingEvents ==
  /\ stage = "splice"
  /\ BadLines = MalformedLines
  /\ manifest' = [s \in Scenarios |-> LinesOf(s, SelectSeq(items, LAMBDA x : x # Malformed))]
  /\ stage' = "done"
  /\ UNCHANGED <<burst_start, events, items>>

(* The lines are rendered, and the indexes of the scenarios recorded.      *)
Render ==
  /\ stage = "splice"
  /\ BadLines = MalformedLines
  /\ manifest' = [s \in Scenarios |-> LinesOf(s, items)]
  /\ stage' = "done"
  /\ UNCHANGED <<burst_start, events, items>>

FeedNext ==
  \/ AddBenign \/ StartBurst \/ AddAttempt \/ AddBreach \/ AddOffHoursLogin \/ AddEscalation
  \/ SortEvents \/ InsertMalformed \/ Render

FeedSpec == FeedInit /\ [][FeedNext]_feedVars

----------------------------------------------------------------------------
(***************************************************************************)
(* Properties.                                                             *)
(***************************************************************************)
SeededRules ==
  {[rule_id |-> 1, rule_type |-> "brute_force", severity |-> "high",
    threshold_value |-> Threshold, time_window |-> RuleWindow],
   [rule_id |-> 2, rule_type |-> "off_hours_login", severity |-> "medium",
    start_hour |-> OffHoursStart, end_hour |-> OffHoursEnd],
   [rule_id |-> 3, rule_type |-> "privilege_escalation", severity |-> "high",
    keywords |-> Keywords]}

(* The logs that ingestion makes of the lines that are not malformed.      *)
LogOf(i) ==
  [log_id        |-> i,
   timestamp     |-> items[i].timestamp,
   source_system |-> items[i].source_system,
   event_type    |-> items[i].event_type,
   status        |-> items[i].status,
   source_ip     |-> items[i].source_ip,
   username      |-> items[i].username,
   phrases       |-> items[i].phrases]

Logs == {LogOf(i) : i \in {j \in DOMAIN items : items[j] # Malformed}}

Evidence(scenario) ==
  UNION {d.log_ids : d \in {e \in RunRules(SeededRules, Logs) : e.rule_type = scenario}}

(* expected_min_matches.                                                   *)
ExpectedMatches ==
  [brute_force          |-> Attempts,
   off_hours_login      |-> 1,
   privilege_escalation |-> Min({2, Cardinality(Keywords)})]

(* The manifest is the ground truth of the rules: of the lines it names    *)
(* for a scenario, wherever malformed lines have been spliced in and       *)
(* whatever benign traffic is around, the rule the scenario is made for    *)
(* takes as many as expected_min_matches says.                             *)
GroundTruthDetected ==
  stage = "done" => \A s \in Scenarios :
                    Cardinality(manifest[s] \cap Evidence(s)) >= ExpectedMatches[s]

(* The window is kept as far as it is: the attacks are in it, both of its  *)
(* ends included; a benign login may be past the end by less than the time *)
(* it takes after a mistyped password (test_simulation.py:121-122); the    *)
(* login at an off-hour is in that hour and not before the window, but if  *)
(* the window ends in that hour it may be past the end, by less than an    *)
(* hour, which random_time_at_hour says it is not (common.py:105, "A       *)
(* timestamp inside [start, end)").                                        *)
WindowRespected ==
  \A i \in DOMAIN events :
    LET t == events[i].timestamp
    IN  CASE events[i].scenario = "off_hours_login" ->
               HourOf(t) = OffHour /\ t \in Start .. End + TicksPerHour - 1
          [] events[i].scenario = "benign" -> t \in Start .. End + Max(FumbleDelays) - 1
          [] OTHER -> t \in Start .. End
============================================================================
