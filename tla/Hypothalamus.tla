---------------------------- MODULE Hypothalamus ----------------------------
(***************************************************************************)
(* Which model answers a turn, and how the catalog of models is kept       *)
(* (hypothalamus/hypothalamus.py, models.py, api.py; the failover loop of  *)
(* frontal_lobe.py and the client of synapse_client.py).                   *)
(*                                                                         *)
(* A provider is one model at one vendor.  The turns of several sessions   *)
(* pick providers, call them, and trip or reset their breakers through     *)
(* objects they have read earlier.  Meanwhile catalogs are synchronized    *)
(* in steps and an operator pulls, removes and switches models.            *)
(*                                                                         *)
(* Prices are equal or not; distances of vectors are a rank.               *)
(***************************************************************************)
EXTENDS Naturals, FiniteSets

CONSTANTS
  Providers,     \* AIModelProvider rows there are or may come to be
  Vendor, Family, Rank,          \* of a provider: its LLMProvider, family, place in every ordering
  Taxon, Parent,                 \* its taxonomy names, and those of its family's parents
  Callable,      \* those whose model has the function_calling capability
  Affordable,    \* those a budget allows
  Filters,       \* the selection filters a disc may have
  Stock,         \* the providers the fixtures bring
  Sessions, Syncs,
  MaxFailovers,  \* attempts per turn (8 in the code)
  Limits,        \* bounds: the numbers of turns, failing calls, actions of
                 \* operators and syncs that a behaviour may have
  None

ASSUME HypothalamusAssumption ==
  /\ Stock \subseteq Providers /\ Rank \in [Providers -> Nat] /\ MaxFailovers \in Nat
  /\ None \notin Providers \cup Syncs \cup {"RUNNING", "SUCCESS", "FAILED"}
  /\ \A f \in Filters :
       /\ {f.preferred, f.local} \subseteq Providers \cup {None}
       /\ f.strategy # None => \A i \in DOMAIN f.strategy :
            f.strategy[i] \in {"strict", "local", "vector", "family"}

VARIABLES
  filter,                        \* the selection filter of the sessions' disc
  limit,                         \* the bounds of this behaviour
  enabled, modelOn, counter, cooling, scars, active, inactive, installed, taxa,
  turn,                          \* session -> its turn
  sync,                          \* sync -> its progress
  cleared,                       \* history: the breakers reset, and scars healed, since they tripped
  address,                       \* the LLMProvider of Ollama has a base_url
  quiet, edited,                 \* history: the sync that is alone, and what operators have
                                 \* priced, enabled or disabled since it began
  turns, failures, edits

breakers == <<counter, cooling, scars, cleared>>
catalog  == <<enabled, modelOn, active, inactive, installed, taxa, address>>
history  == <<turns, failures, edits>>
watched  == <<quiet, edited>>
vars == <<filter, limit, breakers, catalog, turn, sync, watched, history>>

Local == {p \in Providers : Vendor[p] = "ollama"}

(* The rows of a provider's current price: how many of them are active.    *)
Known(p)  == active[p] + inactive[p] > 0
Active(p) == active[p] > 0

Init ==
  /\ filter \in Filters /\ limit \in Limits
  /\ enabled = [p \in Providers |-> p \in Stock] /\ modelOn = [p \in Providers |-> TRUE]
  /\ counter = [p \in Providers |-> 0] /\ cooling = {} /\ scars = {} /\ cleared = {}
  /\ active = [p \in Providers |-> IF p \in Stock THEN 1 ELSE 0]
  /\ inactive = [p \in Providers |-> 0]
  /\ installed = Stock \cap Local /\ taxa = UNION {Taxon[p] \cup Parent[p] : p \in Stock}
  /\ address = TRUE
  /\ turn = [s \in Sessions |-> [pc |-> "idle", attempt |-> 0, pick |-> None,
                                 copy |-> 0, last |-> None, cache |-> None]]
  /\ sync = [s \in Syncs |-> [pc |-> "idle", log |-> None, allow |-> FALSE,
                              keys |-> {}, routed |-> {}, tags |-> {}, skipped |-> FALSE,
                              report |-> {}]]
  /\ quiet = None /\ edited = {} /\ turns = 0 /\ failures = 0 /\ edits = 0

-----------------------------------------------------------------------------
(* Selection: _build_candidate_queryset and _select_best_from_strategy.    *)
(* Every turn offers tools.                                                *)

(* One exclude() with two conditions: it takes the rows that meet both.    *)
(* Without banned providers the scars alone decide.                        *)
Excluded(p) == p \in scars /\ (filter.banned = {} \/ Vendor[p] \in filter.banned)

Candidates ==
  {p \in Providers :
     /\ Known(p) /\ enabled[p] /\ modelOn[p] /\ p \notin cooling
     /\ p \in Callable /\ ~Excluded(p)
     /\ filter.budget => Active(p) /\ p \in Affordable}

BestOf(S) ==
  IF S = {} THEN None ELSE CHOOSE p \in S : \A q \in S : Rank[p] <= Rank[q]

(* The preferred model is looked at through the object the session read    *)
(* first: its switches may have changed since.                             *)
Cached(s, p) ==
  IF turn[s].cache # None THEN turn[s].cache
  ELSE [counter |-> counter[p], on |-> enabled[p] /\ modelOn[p]]

Preferred(s) == filter.preferred # None /\ Cached(s, filter.preferred).on

StepIndex(attempt) ==
  IF attempt > 0 /\ filter.preferred # None THEN attempt - 1 ELSE attempt

FamilyOf(p) == {q \in Candidates : Family[q] = Family[p]}

ByStep(type) ==
  CASE type = "strict" -> None
    [] type = "local"  -> BestOf(Candidates \cap {filter.local})
    [] type = "vector" -> BestOf(Candidates)
    [] type = "family" ->
         LET near == IF filter.preferred # None THEN filter.preferred
                                                ELSE BestOf(Candidates)
         IN  IF near = None THEN None ELSE BestOf(FamilyOf(near))

ByStrategy(attempt) ==
  LET i == StepIndex(attempt) IN
  IF i \in DOMAIN filter.strategy THEN ByStep(filter.strategy[i]) ELSE None

Selected(s, attempt) ==
  IF attempt = 0 /\ Preferred(s) THEN filter.preferred
  ELSE IF filter.strategy # None THEN ByStrategy(attempt) ELSE BestOf(Candidates)

-----------------------------------------------------------------------------
(* A turn: pick, call, and fail over. *)

(* The call: SynapseClient.chat answers, or fails in one of three ways.    *)
Calling(s) == turn[s].pc = "call"
Failing(s) == Calling(s) /\ failures < limit.failures

TurnUnchanged == UNCHANGED <<filter, limit, catalog, sync, watched, edits>>

StartTurn(s) ==
  /\ turn[s].pc \in {"idle", "COMPLETED"} /\ turns < limit.turns
  /\ turn' = [turn EXCEPT ![s] = [@ EXCEPT !.pc = "pick", !.attempt = 0, !.last = None]]
  /\ turns' = turns + 1
  /\ TurnUnchanged /\ UNCHANGED <<breakers, failures>>

(* No model to be had: the session is MAXED_OUT, the turn an ERROR.        *)
Picked(s, p) ==
  LET old == p = filter.preferred /\ turn[s].attempt = 0 IN
  IF p = None THEN [turn[s] EXCEPT !.pc = "MAXED_OUT"]
  ELSE [turn[s] EXCEPT !.pc = "call", !.pick = p,
                       !.copy = IF old THEN Cached(s, p).counter ELSE counter[p],
                       !.cache = IF old THEN Cached(s, p) ELSE @]

Pick(s) ==
  /\ turn[s].pc = "pick" /\ turn[s].attempt < MaxFailovers
  /\ turn' = [turn EXCEPT ![s] = Picked(s, Selected(s, turn[s].attempt))]
  /\ TurnUnchanged /\ UNCHANGED <<breakers, turns, failures>>

(* The breaker as the caller's object has it: the failure counter of the   *)
(* copy is written back.  The preferred model's object lives on.           *)
Copied(s, n) ==
  LET old == turn[s].pick = filter.preferred /\ turn[s].attempt = 0 IN
  [turn[s] EXCEPT !.cache = IF old /\ @ # None THEN [@ EXCEPT !.counter = n] ELSE @]

Answered(s) ==
  /\ Calling(s)
  /\ IF turn[s].copy > 0
       THEN /\ counter' = [counter EXCEPT ![turn[s].pick] = 0]
            /\ cooling' = cooling \ {turn[s].pick}
            /\ cleared' = cleared \cup {turn[s].pick}
       ELSE UNCHANGED <<counter, cooling, cleared>>
  /\ turn' = [turn EXCEPT ![s] = [Copied(s, 0) EXCEPT !.pc = "COMPLETED"]]
  /\ TurnUnchanged /\ UNCHANGED <<scars, turns, failures>>

Failed(s, n) ==
  [turn EXCEPT ![s] = [Copied(s, n) EXCEPT !.pc = "pick",
                         !.attempt = turn[s].attempt + 1, !.last = turn[s].pick]]

(* mutant: the counter goes up and the reset time is not saved.            *)
BreakerTrippedUnsaved(s) ==
  /\ Failing(s)
  /\ counter' = [counter EXCEPT ![turn[s].pick] = turn[s].copy + 1]
  /\ cleared' = cleared \ {turn[s].pick}
  /\ turn' = Failed(s, turn[s].copy + 1) /\ failures' = failures + 1
  /\ TurnUnchanged /\ UNCHANGED <<cooling, scars, turns>>

(* Any failure trips the breaker.                                          *)
BreakerTripped(s) ==
  /\ Failing(s)
  /\ counter' = [counter EXCEPT ![turn[s].pick] = turn[s].copy + 1]
  /\ cooling' = cooling \cup {turn[s].pick} /\ cleared' = cleared \ {turn[s].pick}
  /\ turn' = Failed(s, turn[s].copy + 1) /\ failures' = failures + 1
  /\ TurnUnchanged /\ UNCHANGED <<scars, turns>>

(* The host is out of memory: a pause that counts nothing.                 *)
ResourceFailure(s) ==
  /\ Failing(s)
  /\ cooling' = cooling \cup {turn[s].pick} /\ cleared' = cleared \ {turn[s].pick}
  /\ turn' = Failed(s, turn[s].copy) /\ failures' = failures + 1
  /\ TurnUnchanged /\ UNCHANGED <<counter, scars, turns>>

(* The endpoint has no tools: it gets none from now on.                    *)
ToolsRejected(s) ==
  /\ Failing(s)
  /\ scars' = scars \cup {turn[s].pick} /\ cleared' = cleared \ {turn[s].pick}
  /\ turn' = Failed(s, turn[s].copy) /\ failures' = failures + 1
  /\ TurnUnchanged /\ UNCHANGED <<counter, cooling, turns>>

(* Every attempt failed: the turn is COMPLETED, without an answer.         *)
Exhausted(s) ==
  /\ turn[s].pc = "pick" /\ turn[s].attempt = MaxFailovers
  /\ turn' = [turn EXCEPT ![s].pc = "COMPLETED"]
  /\ TurnUnchanged /\ UNCHANGED <<breakers, turns, failures>>

(* The pause of a minute or more is over; a failed turn picks again at     *)
(* once, long before.                                                      *)
CoolsDown(p) ==
  /\ p \in cooling /\ \A s \in Sessions : turn[s].pc = "pick" => turn[s].last # p
  /\ cooling' = cooling \ {p}
  /\ UNCHANGED <<filter, limit, counter, scars, cleared, catalog, turn, sync, watched, history>>

-----------------------------------------------------------------------------
(* The operator: AIModelViewSet and AIModelProviderViewSet. *)

Operator ==
  /\ edits < limit.edits /\ edits' = edits + 1
  /\ UNCHANGED <<filter, limit, scars, turn, sync, quiet, turns, failures>>

ResetBreaker(p) ==
  /\ Operator /\ counter[p] > 0
  /\ counter' = [counter EXCEPT ![p] = 0] /\ cooling' = cooling \ {p}
  /\ cleared' = cleared \cup {p} /\ UNCHANGED <<catalog, edited>>

ToggleProvider(p) ==
  /\ Operator /\ Known(p)
  /\ enabled' = [enabled EXCEPT ![p] = ~@] /\ edited' = edited \cup {p}
  /\ UNCHANGED <<counter, cooling, cleared, modelOn, active, inactive, installed, taxa, address>>

ToggleModel(p) ==
  /\ Operator /\ Known(p) /\ modelOn' = [modelOn EXCEPT ![p] = ~@]
  /\ UNCHANGED <<counter, cooling, cleared, enabled, active, inactive, installed, taxa,
                 address, edited>>

(* get_or_create of a price that is current and active.                    *)
PricedAnew(S) == [p \in Providers |-> IF p \in S /\ ~Active(p) THEN 1 ELSE active[p]]

Pull(p) ==
  /\ Operator /\ p \in Local
  /\ installed' = installed \cup {p} /\ enabled' = [enabled EXCEPT ![p] = TRUE]
  /\ active' = PricedAnew({p}) /\ edited' = edited \cup {p}
  /\ UNCHANGED <<counter, cooling, cleared, modelOn, inactive, taxa, address>>

Remove(p) ==
  /\ Operator /\ p \in installed
  /\ installed' = installed \ {p} /\ enabled' = [enabled EXCEPT ![p] = FALSE]
  /\ edited' = edited \cup {p}
  /\ UNCHANGED <<counter, cooling, cleared, modelOn, active, inactive, taxa, address>>

(* LLMProviderViewSet: the address of Ollama is removed, or entered.       *)
EditAddress ==
  /\ Operator /\ address' = ~address
  /\ UNCHANGED <<counter, cooling, cleared, enabled, modelOn, active, inactive, installed, taxa,
                 edited>>

Mirror(tags) == [p \in Providers |-> IF p \in Local THEN p \in tags ELSE enabled[p]]

(* The names of a model and its family's parents; these two endpoints      *)
(* enter a creator or a version only for a model that has none.            *)
Names(S)    == UNION {Taxon[p] : p \in S}
AllNames(S) == UNION {Taxon[p] \cup Parent[p] : p \in S}
Scraped(S)  == {taxa \cup N : N \in SUBSET AllNames(S)}

(* sync_local does nothing when Ollama does not answer.                    *)
SyncLocal ==
  /\ Operator
  /\ enabled' = Mirror(installed) /\ active' = PricedAnew(installed)
  /\ taxa' \in Scraped(installed) /\ edited' = edited \cup Local
  /\ UNCHANGED <<counter, cooling, cleared, modelOn, inactive, installed, address>>

(* fetch_catalog: the library's page brings models without providers.      *)
FetchCatalog ==
  /\ Operator /\ taxa' \in Scraped(Local)
  /\ UNCHANGED <<counter, cooling, cleared, enabled, modelOn, active, inactive, installed,
                 address, edited>>

-----------------------------------------------------------------------------
(* The catalog: sync_catalog and its pipeline. *)

SyncUnchanged == UNCHANGED <<filter, limit, counter, cooling, modelOn, installed, address,
                             turn, history>>
ScarsUnchanged   == UNCHANGED <<scars, cleared>>
CatalogUnchanged == UNCHANGED <<enabled, active, inactive, taxa>>

At(s, pc) == sync[s].pc = pc
To(s, pc) == [sync EXCEPT ![s].pc = pc]

SyncCheck(s) ==
  /\ At(s, "idle") /\ Cardinality({t \in Syncs : ~At(t, "idle")}) < limit.syncs
  /\ sync' = IF \E t \in Syncs : sync[t].log = "RUNNING" THEN To(s, "done") ELSE To(s, "create")
  /\ SyncUnchanged /\ ScarsUnchanged /\ CatalogUnchanged /\ UNCHANGED watched

SyncCreate(s) ==
  /\ At(s, "create")
  /\ \E allow \in BOOLEAN :
       sync' = [sync EXCEPT ![s] = [@ EXCEPT !.pc = "fetch", !.log = "RUNNING", !.allow = allow]]
  /\ quiet' = IF \A t \in Syncs \ {s} : sync[t].pc \in {"idle", "done", "dead"} THEN s ELSE None
  /\ edited' = {}
  /\ SyncUnchanged /\ ScarsUnchanged /\ CatalogUnchanged

Listable == {p \in Providers : Vendor[p] # "openrouter"}

(* The catalog of LiteLLM.                                                 *)
SyncFetch(s) ==
  /\ At(s, "fetch")
  /\ \E keys \in SUBSET Listable :
       sync' = [sync EXCEPT ![s] = [@ EXCEPT !.pc = "process", !.keys = keys]]
  /\ SyncUnchanged /\ ScarsUnchanged /\ CatalogUnchanged /\ UNCHANGED watched

(* _update_pricing: the current price is made active, or replaced by one   *)
(* that is; a provider that is new is enabled.                             *)
PriceActive(S) ==
  [p \in Providers |-> IF p \in S /\ ~Active(p) THEN 1 ELSE active[p]]
PriceInactive(S) ==
  [p \in Providers |-> IF p \in S /\ ~Active(p) /\ inactive[p] > 0 THEN inactive[p] - 1
                                                                  ELSE inactive[p]]
Enabled(S) == [p \in Providers |-> enabled[p] \/ (p \in S /\ ~Known(p))]

(* _get_or_create_enriched_model and its resolvers: with leave to do so    *)
(* names that are missing are created, without it they are reported, but   *)
(* for the parents of families.                                            *)
Created(S, leave)  == IF leave THEN taxa \cup AllNames(S) ELSE taxa
Reported(S, leave) == IF leave THEN {} ELSE Names(S) \ taxa

SyncProcess(s) ==
  /\ At(s, "process")
  /\ LET S == sync[s].keys IN
     /\ active' = PriceActive(S) /\ inactive' = PriceInactive(S) /\ enabled' = Enabled(S)
     /\ taxa' = Created(S, sync[s].allow)
     /\ sync' = [sync EXCEPT ![s] = [@ EXCEPT !.pc = "deactivate",
                                              !.report = Reported(S, sync[s].allow)]]
  /\ SyncUnchanged /\ ScarsUnchanged /\ UNCHANGED watched

(* mutant: the models of the other catalogs are swept when they have been  *)
(* brought in.                                                             *)
SyncBenchAndSweep(s) ==
  /\ At(s, "bench")
  /\ LET T == sync[s].tags IN
     /\ active' = [p \in Providers |-> IF p \in sync[s].keys THEN active[p] ELSE 0]
     /\ inactive' = inactive
     /\ enabled' = Mirror(T) /\ taxa' = Created(T, TRUE)
  /\ sync' = To(s, "vectors")
  /\ SyncUnchanged /\ ScarsUnchanged /\ UNCHANGED watched

(* _deactivate_stale_models: whatever LiteLLM does not list, the models of *)
(* the other two catalogs included; these are brought back below.          *)
SyncDeactivate(s) ==
  /\ At(s, "deactivate")
  /\ LET stale == Providers \ sync[s].keys IN
     /\ active' = [p \in Providers |-> IF p \in stale THEN 0 ELSE active[p]]
     /\ inactive' = [p \in Providers |-> IF p \in stale THEN active[p] + inactive[p]
                                                       ELSE inactive[p]]
  /\ sync' = To(s, "route")
  /\ SyncUnchanged /\ ScarsUnchanged /\ UNCHANGED <<enabled, taxa, watched>>

(* A rebuild heals the scars of OpenRouter's models, whatever becomes of   *)
(* the transaction that follows.                                           *)
Routable == {p \in Providers : Vendor[p] = "openrouter"}

SyncHeal(s) ==
  /\ At(s, "route")
  /\ scars' = scars \ Routable /\ cleared' = cleared \cup (scars \cap Routable)
  /\ sync' = To(s, "enrich")
  /\ SyncUnchanged /\ CatalogUnchanged /\ UNCHANGED watched

(* The catalog of OpenRouter, in one transaction; when it cannot be had or *)
(* fails half-way the sync goes on without, and what it found on its way   *)
(* stays in the report.                                                    *)
Routed(S, leave) ==
  /\ active' = PriceActive(S) /\ inactive' = PriceInactive(S) /\ enabled' = Enabled(S)
  /\ taxa' = Created(S, leave)

SyncRoute(s) ==
  /\ sync[s].pc \in {"route", "enrich"}
  /\ \E S \in SUBSET Routable : \E kept \in {S, {}} :
       /\ Routed(kept, sync[s].allow)
       /\ sync' = [sync EXCEPT ![s] =
            [@ EXCEPT !.pc = "tags", !.routed = kept,
                      !.report = sync[s].report \cup Reported(S, sync[s].allow)]]
  /\ SyncUnchanged /\ ScarsUnchanged /\ UNCHANGED watched

(* _sync_local_ollama: without an address nothing is mirrored; an Ollama   *)
(* that does not answer has nothing.                                       *)
Tags == {installed, {}}

SyncSkipsLocal(s) ==
  /\ At(s, "tags") /\ ~address
  /\ sync' = [sync EXCEPT ![s] = [@ EXCEPT !.pc = "vectors", !.tags = {}, !.skipped = TRUE]]
  /\ SyncUnchanged /\ ScarsUnchanged /\ CatalogUnchanged /\ UNCHANGED watched

SyncTags(s) ==
  /\ At(s, "tags") /\ address
  /\ \E tags \in Tags : sync' = [sync EXCEPT ![s] = [@ EXCEPT !.pc = "bench", !.tags = tags]]
  /\ SyncUnchanged /\ ScarsUnchanged /\ CatalogUnchanged /\ UNCHANGED watched

SyncBench(s) ==
  /\ At(s, "bench")
  /\ LET T == sync[s].tags IN
     /\ active' = PriceActive(T) /\ inactive' = PriceInactive(T)
     /\ enabled' = Mirror(T) /\ taxa' = Created(T, TRUE)
  /\ sync' = To(s, "vectors")
  /\ SyncUnchanged /\ ScarsUnchanged /\ UNCHANGED watched

(* The embeddings of what is new are computed, and the log is saved.       *)
SyncEnd(s) ==
  /\ At(s, "vectors")
  /\ sync' = [sync EXCEPT ![s] = [@ EXCEPT !.pc = "done", !.log = "SUCCESS"]]
  /\ SyncUnchanged /\ ScarsUnchanged /\ CatalogUnchanged /\ UNCHANGED watched

Underway(s) == sync[s].pc \notin {"idle", "create", "done", "dead"}

(* LiteLLM has no catalog, or any step raises.                             *)
SyncFails(s) ==
  /\ Underway(s)
  /\ sync' = [sync EXCEPT ![s] = [@ EXCEPT !.pc = "done", !.log = "FAILED"]]
  /\ SyncUnchanged /\ ScarsUnchanged /\ CatalogUnchanged /\ UNCHANGED watched

(* The process dies: the log says RUNNING for ever.                        *)
SyncDies(s) ==
  /\ Underway(s) \/ At(s, "create")
  /\ sync' = To(s, "dead")
  /\ SyncUnchanged /\ ScarsUnchanged /\ CatalogUnchanged /\ UNCHANGED watched

-----------------------------------------------------------------------------
Turns(s) == StartTurn(s) \/ Pick(s) \/ Answered(s) \/ BreakerTripped(s)
            \/ ResourceFailure(s) \/ ToolsRejected(s) \/ Exhausted(s)
Edits(p) == CoolsDown(p) \/ ResetBreaker(p) \/ ToggleProvider(p) \/ ToggleModel(p)
            \/ Pull(p) \/ Remove(p)
Steps(s) == SyncCheck(s) \/ SyncCreate(s) \/ SyncFetch(s) \/ SyncProcess(s)
            \/ SyncDeactivate(s) \/ SyncHeal(s) \/ SyncRoute(s) \/ SyncSkipsLocal(s)
            \/ SyncTags(s) \/ SyncBench(s) \/ SyncEnd(s) \/ SyncFails(s) \/ SyncDies(s)

Next == \/ \E s \in Sessions : Turns(s)
        \/ \E p \in Providers : Edits(p)
        \/ SyncLocal \/ FetchCatalog \/ EditAddress
        \/ \E s \in Syncs : Steps(s)

Spec == Init /\ [][Next]_vars

-----------------------------------------------------------------------------
Turn == [pc : {"idle", "pick", "call", "COMPLETED", "MAXED_OUT"}, attempt : Nat,
         pick : Providers \cup {None}, copy : Nat, last : Providers \cup {None},
         cache : {None} \cup [counter : Nat, on : BOOLEAN]]
Sync == [pc : {"idle", "create", "fetch", "process", "deactivate", "route", "enrich", "tags",
               "bench", "vectors", "done", "dead"},
         log : {None, "RUNNING", "SUCCESS", "FAILED"}, allow : BOOLEAN,
         keys : SUBSET Providers, routed : SUBSET Providers, tags : SUBSET Providers,
         skipped : BOOLEAN, report : SUBSET Names(Providers)]

(* The tables, the turns and the syncs keep their types.                   *)
TypeOK ==
  /\ filter \in Filters /\ limit \in Limits
  /\ enabled \in [Providers -> BOOLEAN] /\ modelOn \in [Providers -> BOOLEAN]
  /\ counter \in [Providers -> Nat]
  /\ active \in [Providers -> Nat] /\ inactive \in [Providers -> Nat]
  /\ cooling \subseteq Providers /\ scars \subseteq Providers /\ cleared \subseteq Providers
  /\ installed \subseteq Local /\ taxa \subseteq AllNames(Providers)
  /\ turn \in [Sessions -> Turn] /\ sync \in [Syncs -> Sync]
  /\ \A s \in Sessions : turn[s].pc = "call" => turn[s].pick # None
  /\ address \in BOOLEAN /\ quiet \in Syncs \cup {None} /\ edited \subseteq Providers
  /\ turns \in Nat /\ failures \in Nat /\ edits \in Nat

-----------------------------------------------------------------------------
(* The attempt after a failure does not ask the provider that has just     *)
(* failed: it cools down or has lost its tools, unless another turn's      *)
(* success, the operator or a rebuild of the catalog has cleared it in     *)
(* between, or the filter bans other providers and so keeps lost tools     *)
(* from counting.                                                          *)
Unheeded(p) == p \in scars /\ ~Excluded(p)

FailedIsBenched ==
  \A s \in Sessions : turn[s].pc = "pick" /\ turn[s].last # None =>
    \/ Selected(s, turn[s].attempt) # turn[s].last
    \/ turn[s].last \in cleared \/ Unheeded(turn[s].last)

(* Once a sync has succeeded during which no other ran, a price is active  *)
(* if one of the three catalogs has the model, and a local model is        *)
(* enabled if it is on the disk, but for those an operator has changed     *)
(* meanwhile, and for local models that were not looked at for want of an  *)
(* address.  Every name of a model that any sync came across is in the     *)
(* tables, or in the report for a human to look at; parents of families    *)
(* are neither.                                                            *)
SyncMirrors ==
  \A s \in Syncs : sync[s].log = "SUCCESS" =>
    LET have == sync[s].keys \cup sync[s].routed \cup sync[s].tags IN
    /\ quiet = s => \A p \in Providers \ edited : Known(p) => (Active(p) = (p \in have))
    /\ quiet = s /\ ~sync[s].skipped
         => \A p \in Local \ edited : Known(p) => (enabled[p] = (p \in sync[s].tags))
    /\ Names(sync[s].keys \cup sync[s].routed) \subseteq taxa \cup sync[s].report
=============================================================================
