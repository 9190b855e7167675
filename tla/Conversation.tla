---------------------------- MODULE Conversation ----------------------------
(***************************************************************************)
(* What a reasoning session promises to the people who write to it: while  *)
(* it is open it takes every message, once and in the order in which they  *)
(* were posted.  Messages that nobody has taken are given up only when the *)
(* session closes, and a closed session stays closed.                      *)
(***************************************************************************)
EXTENDS Sequences

CONSTANT Messages

VARIABLES
  stage,     \* "unborn", "open" or "closed"
  waiting,   \* messages posted and not yet taken
  heard      \* messages taken

vars == <<stage, waiting, heard>>

Init == stage = "unborn" /\ waiting = <<>> /\ heard = <<>>

Open ==
  /\ stage = "unborn" /\ stage' = "open"
  /\ UNCHANGED <<waiting, heard>>

Post(m) ==
  /\ stage = "open"
  /\ waiting' = Append(waiting, m)
  /\ UNCHANGED <<stage, heard>>

Hear ==
  /\ stage = "open"
  /\ heard' = heard \o waiting
  /\ waiting' = <<>>
  /\ UNCHANGED stage

Close ==
  /\ stage = "open" /\ stage' = "closed"
  /\ waiting' = <<>>
  /\ UNCHANGED heard

Next == Open \/ (\E m \in Messages : Post(m)) \/ Hear \/ Close
=============================================================================
