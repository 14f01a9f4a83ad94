---------------------------- MODULE MCIngestion ----------------------------
(***************************************************************************)
(* Instances of Ingestion.  Lines are taken, rejected and skipped in three *)
(* contents, of which two share their first line, and on one of which the  *)
(* parser raises.                                                          *)
(***************************************************************************)
EXTENDS Ingestion, TLC

Message(grammar, date, ip, user, granted) ==
  [grammar   |-> grammar,
   date      |-> date,
   timestamp |-> 1,
   ip        |-> ip,
   user      |-> user,
   granted   |-> granted,
   phrases   |-> {}]

Line(source, message) ==
  [blank         |-> FALSE,
   json          |-> "object",
   source_system |-> source,
   raw_message   |-> message]

Login       == Line("auth", Message("sshd_password", "valid", "a", "root", FALSE))
BadAddress  == Line("firewall", Message("netfilter", "valid", "300.1.1.1", "-", TRUE))
WrongSource == Line("auth", Message("clf", "valid", "b", "-", TRUE))
NoSuchDay   == Line("auth", Message("sshd_closed", "impossible", "-", "eve", TRUE))
NoSuchCLF   == Line("web", Message("clf", "impossible", "b", "-", TRUE))
Blank       == [Login EXCEPT !.blank = TRUE]
Cut         == [Login EXCEPT !.json = "invalid"]

FeedContents ==
  {<<Login, NoSuchDay, Blank>>, <<Login, BadAddress>>, <<NoSuchCLF, WrongSource>>}

(* TLC computes FeedContents once, what a constant stands for at every use.*)
MCContents == FeedContents
MCCutLine == Cut
============================================================================
