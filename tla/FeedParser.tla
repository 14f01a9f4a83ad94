----------------------------- MODULE FeedParser -----------------------------
(***************************************************************************)
(* ingestion/parse.py: what becomes of a line of a feed.                   *)
(*                                                                         *)
(* A line is described by what the parser finds in it:                     *)
(*   blank          it is empty but for white space,                       *)
(*   json           "invalid", "value" (not an object) or "object",        *)
(*   source_system  the string under that key, None if missing or blank,   *)
(*   raw_message    the message under that key, None if missing or blank.  *)
(* A message is described by the one grammar it matches and the groups:    *)
(*   grammar        a member of Grammars, or "none",                       *)
(*   date           "valid"; "unreadable" when the text does not have the  *)
(*                  form; "impossible" when it does, as 31/Feb or 25 h do, *)
(*   timestamp      the time in UTC, where the date is valid,              *)
(*   ip, user       the words in those places, "-" for CLF's no user,      *)
(*   granted        Accepted, ALLOW or a code below 400,                   *)
(*   phrases        the rules' keywords in it (see RulesEngine).           *)
(***************************************************************************)
EXTENDS Integers

CONSTANTS
  None,            (* Python's None.                                       *)
  Addresses        (* The words that ipaddress.ip_address accepts.         *)

Grammars == {"sshd_password", "sshd_closed", "sudo", "clf", "netfilter"}

SOURCE_SYSTEMS == {"auth", "web", "firewall"}

(* _DISPATCH, and the patterns each parser tries.                          *)
GrammarsOf(source) ==
  CASE source = "auth"     -> {"sshd_password", "sshd_closed", "sudo"}
    [] source = "web"      -> {"clf"}
    [] source = "firewall" -> {"netfilter"}

(* load_feed_line raises ParseError.                                       *)
Unroutable(line) ==
  \/ line.json # "object"
  \/ line.source_system \notin SOURCE_SYSTEMS
  \/ line.raw_message = None

(* The event a message is parsed into.                                     *)
EventType(grammar) ==
  CASE grammar = "sshd_password" -> "login"
    [] grammar = "sshd_closed"   -> "logout"
    [] grammar = "sudo"          -> "sudo"
    [] grammar = "clf"           -> "http_request"
    [] grammar = "netfilter"     -> "connection"

Status(source, message) ==
  IF source = "auth"
  THEN IF message.grammar = "sshd_password" /\ ~message.granted
       THEN "failure" ELSE "success"
  ELSE IF message.granted THEN "allowed" ELSE "blocked"

Event(line) ==
  LET message == line.raw_message
  IN  [timestamp     |-> message.timestamp,
       source_system |-> line.source_system,
       source_ip     |-> IF message.grammar \in {"sshd_closed", "sudo"}
                         THEN None ELSE message.ip,
       username      |-> IF \/ message.grammar = "netfilter"
                            \/ message.grammar = "clf" /\ message.user = "-"
                         THEN None ELSE message.user,
       event_type    |-> EventType(message.grammar),
       status        |-> Status(line.source_system, message),
       phrases       |-> message.phrases]

(* LogEvent.validate; the rest of what it looks at holds by construction.  *)
Valid(event) == event.source_ip = None \/ event.source_ip \in Addresses

(* datetime() raises a ValueError for an impossible date.  _iso_z makes a  *)
(* ParseError of it, _clf_time does not.                                   *)
Raises(line) ==
  /\ ~line.blank
  /\ ~Unroutable(line)
  /\ line.raw_message.grammar \in GrammarsOf(line.source_system)
  /\ line.raw_message.grammar = "clf"
  /\ line.raw_message.date = "impossible"

Accepted(line) ==
  /\ ~line.blank
  /\ ~Unroutable(line)
  /\ line.raw_message.grammar \in GrammarsOf(line.source_system)
  /\ line.raw_message.date = "valid"
  /\ Valid(Event(line))

(* Every other way through parse_feed_line ends in a ParseError.           *)
Rejected(line) == ~line.blank /\ ~Accepted(line) /\ ~Raises(line)
============================================================================
