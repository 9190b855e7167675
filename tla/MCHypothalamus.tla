--------------------------- MODULE MCHypothalamus ---------------------------
(* A local model, its sibling in the cloud, a free one at OpenRouter.      *)
EXTENDS Hypothalamus

Three == {"llama", "gpt", "free"}
VendorOf == [p \in Three |-> CASE p = "llama" -> "ollama" [] p = "gpt" -> "openai"
                               [] p = "free" -> "openrouter"]
FamilyOfModel == [p \in Three |-> IF p = "gpt" THEN "gpt" ELSE "llama"]
TaxonOf == [p \in Three |-> IF p = "gpt" THEN {"OpenAI"} ELSE {"Meta", p}]
ParentOf == [p \in Three |-> IF p = "free" THEN {"Llama"} ELSE {}]
RankOf == [p \in Three |-> CASE p = "llama" -> 1 [] p = "gpt" -> 2 [] p = "free" -> 3]

Open == [preferred |-> None, local |-> None, strategy |-> None, banned |-> {}, budget |-> TRUE]
(* The strategies of the tests count from 0, those of the fixtures from 1. *)
Cloud == [Open EXCEPT !.preferred = "free", !.local = "llama", !.budget = FALSE,
   !.strategy = [i \in 0..2 |-> CASE i = 0 -> "local" [] i = 1 -> "vector" [] i = 2 -> "strict"]]
Kin == [Open EXCEPT !.banned = {"openai"}, !.budget = FALSE,
   !.strategy = [i \in 0..1 |-> IF i = 0 THEN "family" ELSE "vector"]]

TurnsMostly == [turns |-> 2, failures |-> 3, edits |-> 1, syncs |-> 0]
SyncMostly  == [turns |-> 1, failures |-> 1, edits |-> 1, syncs |-> 1]
TwoSyncs    == [turns |-> 0, failures |-> 0, edits |-> 0, syncs |-> 2]
SomeLimits  == {TurnsMostly, SyncMostly, TwoSyncs}
SomeFilters == {Open, Cloud, Kin}
=============================================================================
