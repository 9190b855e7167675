---------------------------- MODULE MCParietalLobe ----------------------------
(* Sessions that reason, for TLC.                                          *)
EXTENDS ParietalLobe

(* Heavy extraction, synthesis and free actions, as the fixtures have them.*)
AllTools == {"dig", "save", "update", "read", "search", "pass", "yield"}
Costs   == [t \in AllTools |-> CASE t = "dig" -> -5 [] t \in {"save", "update"} -> 3
                                 [] OTHER -> 0]
Rewards == [t \in AllTools |-> CASE t = "dig" -> 5 [] t \in {"save", "update"} -> 15
                                 [] OTHER -> 1]

LongTalk == {[text |-> "short", calls |-> <<>>],
             [text |-> "", calls |-> <<"dig">>],
             [text |-> "long", calls |-> <<"dig", "ghost", "pass">>]}
Keeping  == {[text |-> "", calls |-> <<"dig", "save">>],
             [text |-> "short", calls |-> <<"update", "search">>],
             [text |-> "short", calls |-> <<"read", "yield">>]}

(* A disc with the handlers, and a disc with the functions and the memory. *)
Playing == [sessions |-> {"s1"}, legacy |-> FALSE, replies |-> LongTalk,
  addons |-> {"IdentityInfo", "Focus", "Telemetry", "Deadline", "RiverOfSix", "Prompt", "YourMove"},
  maxTurns |-> 6, maxMessages |-> 1,
  faults |-> {"crash", "fail", "post", "screen", "model"}, maxFaults |-> 1]
Remembering == [sessions |-> {"s1", "s2"}, legacy |-> TRUE, replies |-> Keeping,
  addons |-> {"Hippocampus_", "NormalChat"}, maxTurns |-> 1, maxMessages |-> 0,
  faults |-> {"operator"}, maxFaults |-> 1]
TwoSettings == {Playing, Remembering}
=============================================================================
