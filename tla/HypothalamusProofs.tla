------------------------- MODULE HypothalamusProofs -------------------------
(***************************************************************************)
(* For every set of providers, sessions and syncs, every filter, strategy  *)
(* and bound: the tables keep their types, a provider that has just failed *)
(* is benched, and a sync nobody interferes with mirrors its sources.      *)
(***************************************************************************)
EXTENDS Hypothalamus, TLAPS, NaturalsInduction, WellFoundedInduction

-----------------------------------------------------------------------------
(* Selection. *)

(* A set of natural numbers that is not empty has a least one.             *)
LEMMA LeastNumber ==
  ASSUME NEW S \in SUBSET Nat, S # {}
  PROVE  \E n \in S : \A m \in S : n <= m
<1>1. PICK n \in S : \A m \in S : <<m, n>> \notin OpToRel(<, Nat)
  BY NatLessThanWellFounded, WFMin, Zenon
<1>2. \A m \in S : ~(m < n)
  BY <1>1 DEF OpToRel
<1> QED BY <1>2

(* The best of a set of providers is one of them.                          *)
LEMMA BestOfFacts ==
  ASSUME NEW S \in SUBSET Providers
  PROVE  BestOf(S) \in S \cup {None}
<1>1. CASE S = {}
  BY <1>1 DEF BestOf
<1>2. CASE S # {}
  <2> DEFINE ranks == {Rank[p] : p \in S}
  <2>1. ranks \in SUBSET Nat /\ ranks # {}
    BY <1>2, HypothalamusAssumption
  <2>2. PICK n \in ranks : \A m \in ranks : n <= m
    BY <2>1, LeastNumber, Zenon
  <2>3. \E p \in S : \A q \in S : Rank[p] <= Rank[q]
    BY <2>2
  <2> QED BY <1>2, <2>3 DEF BestOf
<1> QED BY <1>1, <1>2

(* A selection is a provider or nothing.                                   *)
LEMMA SelectedFacts ==
  ASSUME TypeOK, NEW s \in Sessions, NEW n \in Nat
  PROVE  Selected(s, n) \in Providers \cup {None}
<1>1. Candidates \in SUBSET Providers /\ \A p : FamilyOf(p) \in SUBSET Providers
  BY DEF Candidates, FamilyOf
<1>2. filter \in Filters
  BY DEF TypeOK
<1>3. ASSUME NEW type \in {"strict", "local", "vector", "family"}
      PROVE  ByStep(type) \in Providers \cup {None}
  <2>1. /\ BestOf(Candidates) \in Providers \cup {None}
        /\ BestOf(Candidates \cap {filter.local}) \in Providers \cup {None}
        /\ \A p : BestOf(FamilyOf(p)) \in Providers \cup {None}
    BY <1>1, BestOfFacts
  <2> QED BY <2>1 DEF ByStep
<1>4. ByStrategy(n) \in Providers \cup {None} \/ filter.strategy = None
  BY <1>2, <1>3, HypothalamusAssumption DEF ByStrategy
<1>5. BestOf(Candidates) \in Providers \cup {None}
  BY <1>1, BestOfFacts
<1>6. filter.preferred \in Providers \cup {None}
  BY <1>2, HypothalamusAssumption
<1> QED BY <1>4, <1>5, <1>6 DEF Selected

-----------------------------------------------------------------------------
(* Types. *)

LEMMA InitTypeOK == Init => TypeOK
BY HypothalamusAssumption DEF Init, TypeOK, Turn, Sync, Local, AllNames

LEMMA PickedFacts ==
  ASSUME TypeOK, NEW s \in Sessions, NEW p \in Providers \cup {None}
  PROVE  /\ Picked(s, p) \in Turn
         /\ Picked(s, p).pc = "call" => Picked(s, p).pick # None
<1>1. turn[s] \in Turn /\ turn[s].pick \in Providers \cup {None}
  BY DEF TypeOK, Turn
<1>2. CASE p = None
  BY <1>1, <1>2 DEF Picked, Turn
<1>3. CASE p # None
  <2>1. counter[p] \in Nat /\ Cached(s, p) \in [counter : Nat, on : BOOLEAN]
    BY <1>1, <1>3 DEF TypeOK, Cached, Turn
  <2> DEFINE c == Cached(s, p)
             n == counter[p]
  <2>2. c \in [counter : Nat, on : BOOLEAN] /\ n \in Nat
    BY <2>1
  <2> HIDE DEF c, n
  <2>3. Picked(s, p) = IF p = filter.preferred /\ turn[s].attempt = 0
                       THEN [turn[s] EXCEPT !.pc = "call", !.pick = p, !.copy = c.counter,
                                            !.cache = c]
                       ELSE [turn[s] EXCEPT !.pc = "call", !.pick = p, !.copy = n]
    BY <1>1, <1>3 DEF Picked, Turn, c, n
  <2> DEFINE t == turn[s]
             u == [[[t EXCEPT !.pc = "call"] EXCEPT !.pick = p] EXCEPT !.copy = n]
             v == [[[t EXCEPT !.pc = "call"] EXCEPT !.pick = p] EXCEPT !.copy = c.counter]
             w == [v EXCEPT !.cache = c]
  <2>4. u \in Turn /\ u.pick = p
    BY <1>1, <1>3, <2>2 DEF Turn
  <2>5. v \in Turn /\ v.pick = p
    BY <1>1, <1>3, <2>2 DEF Turn
  <2>6. w \in Turn /\ w.pick = p
    <3> HIDE DEF v
    <3> QED BY <2>2, <2>5 DEF Turn
  <2>7. Picked(s, p) = u \/ Picked(s, p) = w
    BY <2>3
  <2> HIDE DEF u, w
  <2> QED BY <1>3, <2>4, <2>6, <2>7
<1> QED BY <1>2, <1>3

LEMMA TurnsTypeOK ==
  ASSUME TypeOK, NEW s \in Sessions, Turns(s)
  PROVE  TypeOK'
<1> USE DEF TypeOK, TurnUnchanged, catalog, breakers, watched
<1>0. turn[s] \in Turn
  OBVIOUS
<1>1. CASE StartTurn(s)
  <2>1. turn'[s] \in Turn /\ turn'[s].pc = "pick"
    BY <1>0, <1>1 DEF StartTurn, Turn
  <2> QED BY <1>1, <2>1 DEF StartTurn
<1>2. CASE Pick(s)
  <2> DEFINE p == Selected(s, turn[s].attempt)
  <2>1. turn[s].attempt \in Nat
    BY <1>0 DEF Turn
  <2>2. p \in Providers \cup {None}
    BY <2>1, SelectedFacts
  <2>3. Picked(s, p) \in Turn /\ (Picked(s, p).pc = "call" => Picked(s, p).pick # None)
    BY <1>0, <2>2, PickedFacts
  <2>4. turn' = [turn EXCEPT ![s] = Picked(s, p)]
    BY <1>2 DEF Pick
  <2> HIDE DEF p
  <2> QED BY <1>2, <2>3, <2>4 DEF Pick
<1>3. ASSUME Calling(s)
      PROVE  /\ turn[s].pick \in Providers /\ turn[s].copy \in Nat
             /\ \A n \in Nat : Copied(s, n) \in Turn
  BY <1>0, <1>3 DEF Calling, Copied, Turn
<1>4. CASE Answered(s)
  <2>1. Copied(s, 0) \in Turn
    BY <1>3, <1>4 DEF Answered
  <2>2. [Copied(s, 0) EXCEPT !.pc = "COMPLETED"] \in Turn
    BY <2>1 DEF Turn
  <2>3. [Copied(s, 0) EXCEPT !.pc = "COMPLETED"].pc = "COMPLETED"
    BY <2>1 DEF Turn
  <2> QED BY <1>3, <1>4, <2>2, <2>3 DEF Answered
<1>5. ASSUME Calling(s), NEW n \in Nat, turn' = Failed(s, n)
      PROVE  /\ turn' \in [Sessions -> Turn]
             /\ \A t \in Sessions : turn'[t].pc = "call" => turn'[t].pick # None
  <2> DEFINE c == Copied(s, n)
             n1 == turn[s].attempt + 1
             r == [c EXCEPT !.pc = "pick", !.attempt = n1, !.last = turn[s].pick]
  <2>1. r \in Turn /\ r.pc = "pick"
    <3>1. c \in Turn /\ turn[s].pick \in Providers /\ n1 \in Nat
      BY SMTT(30), <1>0, <1>3, <1>5 DEF Turn
    <3> HIDE DEF c, n1
    <3>2. [[c EXCEPT !.pc = "pick"] EXCEPT !.attempt = n1] \in Turn
      BY <3>1 DEF Turn
    <3> QED BY <3>1, <3>2 DEF Turn
  <2>2. turn' = [turn EXCEPT ![s] = r]
    BY <1>5 DEF Failed
  <2> HIDE DEF r
  <2> QED BY <2>1, <2>2
<1>6. CASE BreakerTripped(s)
  <2>1. Calling(s) /\ turn[s].copy + 1 \in Nat
    BY <1>3, <1>6 DEF BreakerTripped, Failing
  <2> QED BY <1>3, <1>5, <1>6, <2>1 DEF BreakerTripped
<1>7. CASE ResourceFailure(s)
  <2>1. Calling(s)
    BY <1>7 DEF ResourceFailure, Failing
  <2> QED BY <1>3, <1>5, <1>7, <2>1 DEF ResourceFailure
<1>8. CASE ToolsRejected(s)
  <2>1. Calling(s)
    BY <1>8 DEF ToolsRejected, Failing
  <2> QED BY <1>3, <1>5, <1>8, <2>1 DEF ToolsRejected
<1>9. CASE Exhausted(s)
  <2>1. turn'[s] \in Turn /\ turn'[s].pc = "COMPLETED"
    BY <1>0, <1>9 DEF Exhausted, Turn
  <2> QED BY <1>9, <2>1 DEF Exhausted
<1> QED BY <1>1, <1>2, <1>4, <1>6, <1>7, <1>8, <1>9 DEF Turns

LEMMA MirrorFacts ==
  ASSUME TypeOK, NEW S
  PROVE  Mirror(S) \in [Providers -> BOOLEAN]
<1>1. \A p \in Providers : enabled[p] \in BOOLEAN
  BY DEF TypeOK
<1>2. ASSUME NEW p \in Providers
      PROVE  (IF p \in Local THEN p \in S ELSE enabled[p]) \in BOOLEAN
  <2>0. (p \in S) \in BOOLEAN
    OBVIOUS
  <2>1. CASE p \in Local
    BY <2>0, <2>1
  <2>2. CASE p \notin Local
    BY <1>1, <2>2, Zenon
  <2> QED BY <2>1, <2>2, Zenon
<1> QED BY <1>2, Zenon DEF Mirror

LEMMA ScrapedFacts ==
  ASSUME TypeOK, NEW S \in SUBSET Providers, NEW T \in Scraped(S)
  PROVE  taxa \subseteq T /\ T \subseteq AllNames(Providers)
<1>1. AllNames(S) \subseteq AllNames(Providers)
  BY DEF AllNames
<1> QED BY <1>1 DEF TypeOK, Scraped

LEMMA OperatorTypeOK ==
  ASSUME TypeOK, (\E p \in Providers : Edits(p)) \/ SyncLocal \/ FetchCatalog \/ EditAddress
  PROVE  TypeOK'
<1> USE DEF TypeOK, catalog, history, watched, Operator
<1>1. ASSUME NEW p \in Providers, CoolsDown(p) PROVE TypeOK'
  BY <1>1 DEF CoolsDown
<1>2. ASSUME NEW p \in Providers, ResetBreaker(p) PROVE TypeOK'
  BY <1>2 DEF ResetBreaker
<1>3. ASSUME NEW p \in Providers, ToggleProvider(p) PROVE TypeOK'
  BY <1>3 DEF ToggleProvider
<1>4. ASSUME NEW p \in Providers, ToggleModel(p) PROVE TypeOK'
  BY <1>4 DEF ToggleModel
<1>5. ASSUME NEW S \in SUBSET Providers PROVE PricedAnew(S) \in [Providers -> Nat]
  BY DEF PricedAnew, Active
<1>6. ASSUME NEW p \in Providers, Pull(p) PROVE TypeOK'
  <2>1. active' \in [Providers -> Nat]
    BY <1>5, <1>6 DEF Pull
  <2>2. installed' \subseteq Local /\ enabled' \in [Providers -> BOOLEAN]
    BY <1>6 DEF Pull
  <2>3. /\ UNCHANGED <<filter, limit, scars, turn, sync, quiet, turns, failures>>
        /\ UNCHANGED <<counter, cooling, cleared, modelOn, inactive, taxa, address>>
        /\ edited' = edited \cup {p} /\ edits' = edits + 1
    BY <1>6 DEF Pull
  <2> HIDE DEF Operator
  <2> QED BY <2>1, <2>2, <2>3
<1>7. ASSUME NEW p \in Providers, Remove(p) PROVE TypeOK'
  BY <1>7 DEF Remove
<1>8. CASE SyncLocal
  <2>1. installed \in SUBSET Providers /\ Local \subseteq Providers
    BY DEF Local
  <2>2. PricedAnew(installed) \in [Providers -> Nat]
    BY <1>5, <2>1
  <2>3. Mirror(installed) \in [Providers -> BOOLEAN]
    BY MirrorFacts
  <2>4. taxa' \subseteq AllNames(Providers)
    BY <1>8, <2>1, ScrapedFacts DEF SyncLocal
  <2> QED BY <1>8, <2>1, <2>2, <2>3, <2>4 DEF SyncLocal
<1>9. CASE FetchCatalog
  <2>1. Local \subseteq Providers
    BY DEF Local
  <2>2. taxa' \subseteq AllNames(Providers)
    BY <1>9, <2>1, ScrapedFacts DEF FetchCatalog
  <2> QED BY <1>9, <2>2 DEF FetchCatalog
<1>10. CASE EditAddress
  BY <1>10 DEF EditAddress
<1> QED BY <1>1, <1>2, <1>3, <1>4, <1>6, <1>7, <1>8, <1>9, <1>10 DEF Edits

(* What the steps of a sync make of prices, switches and names.            *)
LEMMA PricesFacts ==
  ASSUME TypeOK, NEW S \in SUBSET Providers
  PROVE  /\ PriceActive(S) \in [Providers -> Nat] /\ PriceInactive(S) \in [Providers -> Nat]
         /\ Enabled(S) \in [Providers -> BOOLEAN] /\ Mirror(S) \in [Providers -> BOOLEAN]
         /\ \A p \in Providers : PriceActive(S)[p] > 0 <=> Active(p) \/ p \in S
<1> USE DEF TypeOK
<1>1. PriceActive(S) \in [Providers -> Nat]
  BY DEF PriceActive
<1>2. PriceInactive(S) \in [Providers -> Nat]
  BY DEF PriceInactive
<1>3. Enabled(S) \in [Providers -> BOOLEAN]
  BY DEF Enabled
<1>4. Mirror(S) \in [Providers -> BOOLEAN]
  BY MirrorFacts
<1>5. \A p \in Providers : PriceActive(S)[p] > 0 <=> Active(p) \/ p \in S
  BY DEF PriceActive, Active
<1> QED BY <1>1, <1>2, <1>3, <1>4, <1>5

LEMMA NamesFacts ==
  ASSUME TypeOK, NEW S \in SUBSET Providers, NEW leave \in BOOLEAN
  PROVE  /\ Created(S, leave) \subseteq AllNames(Providers)
         /\ Reported(S, leave) \subseteq Names(Providers)
         /\ taxa \subseteq Created(S, leave)
         /\ Names(S) \subseteq Created(S, leave) \cup Reported(S, leave)
<1>1. /\ Names(S) \subseteq Names(Providers) /\ Names(S) \subseteq AllNames(S)
      /\ AllNames(S) \subseteq AllNames(Providers)
  BY DEF Names, AllNames
<1> QED BY <1>1 DEF TypeOK, Created, Reported

(* Setting a field of a sync.                                              *)
LEMMA SyncFields ==
  ASSUME NEW r \in Sync
  PROVE  /\ \A v \in {"idle", "create", "fetch", "process", "deactivate", "route", "enrich",
                      "tags", "bench", "vectors", "done", "dead"} : [r EXCEPT !.pc = v] \in Sync
         /\ \A v \in {None, "RUNNING", "SUCCESS", "FAILED"} : [r EXCEPT !.log = v] \in Sync
         /\ \A v \in BOOLEAN : [r EXCEPT !.allow = v] \in Sync
         /\ \A v \in SUBSET Providers : [r EXCEPT !.keys = v] \in Sync
         /\ \A v \in SUBSET Providers : [r EXCEPT !.routed = v] \in Sync
         /\ \A v \in SUBSET Providers : [r EXCEPT !.tags = v] \in Sync
         /\ \A v \in BOOLEAN : [r EXCEPT !.skipped = v] \in Sync
         /\ \A v \in SUBSET Names(Providers) : [r EXCEPT !.report = v] \in Sync
<1>1. \A v \in {"idle", "create", "fetch", "process", "deactivate", "route", "enrich",
                      "tags", "bench", "vectors", "done", "dead"} : [r EXCEPT !.pc = v] \in Sync
  BY DEF Sync
<1>2. \A v \in {None, "RUNNING", "SUCCESS", "FAILED"} : [r EXCEPT !.log = v] \in Sync
  BY DEF Sync
<1>3. \A v \in BOOLEAN : [r EXCEPT !.allow = v] \in Sync
  BY DEF Sync
<1>4. \A v \in SUBSET Providers : [r EXCEPT !.keys = v] \in Sync
  BY DEF Sync
<1>5. \A v \in SUBSET Providers : [r EXCEPT !.routed = v] \in Sync
  BY DEF Sync
<1>6. \A v \in SUBSET Providers : [r EXCEPT !.tags = v] \in Sync
  BY DEF Sync
<1>7. \A v \in SUBSET Names(Providers) : [r EXCEPT !.report = v] \in Sync
  BY DEF Sync
<1>8. \A v \in BOOLEAN : [r EXCEPT !.skipped = v] \in Sync
  BY DEF Sync
<1> QED BY <1>1, <1>2, <1>3, <1>4, <1>5, <1>6, <1>7, <1>8

(* The one row a step of a sync may change, and its type.                  *)
LEMMA StepsRow ==
  ASSUME TypeOK, NEW s \in Syncs, Steps(s)
  PROVE  /\ sync'[s] \in Sync
         /\ DOMAIN sync' = Syncs /\ \A t \in Syncs \ {s} : sync'[t] = sync[t]
<1> USE DEF At, To
<1>0. sync[s] \in Sync /\ DOMAIN sync = Syncs /\ installed \subseteq Providers
  BY DEF TypeOK, Local
<1>00. \A r : sync' = [sync EXCEPT ![s] = r] /\ r \in Sync =>
         /\ sync'[s] \in Sync
         /\ DOMAIN sync' = Syncs /\ \A t \in Syncs \ {s} : sync'[t] = sync[t]
  BY <1>0
<1>01. \A v \in {"done", "create", "route", "enrich", "vectors", "dead"} :
        [sync[s] EXCEPT !.pc = v] \in Sync
  BY <1>0, SyncFields
<1>1. CASE SyncCheck(s)
  BY <1>00, <1>01, <1>1 DEF SyncCheck
<1>2. CASE SyncCreate(s)
  <2>1. PICK allow \in BOOLEAN :
          sync' = [sync EXCEPT ![s] = [@ EXCEPT !.pc = "fetch", !.log = "RUNNING", !.allow = allow]]
    BY <1>2 DEF SyncCreate
  <2>2. [sync[s] EXCEPT !.pc = "fetch"] \in Sync
    BY <1>0, SyncFields
  <2>3. [sync[s] EXCEPT !.pc = "fetch", !.log = "RUNNING"] \in Sync
    BY <2>2, SyncFields
  <2>4. [sync[s] EXCEPT !.pc = "fetch", !.log = "RUNNING", !.allow = allow] \in Sync
    BY <2>3, SyncFields
  <2> QED BY <1>00, <2>1, <2>4
<1>3. CASE SyncFetch(s)
  <2>1. PICK keys \in SUBSET Listable :
          sync' = [sync EXCEPT ![s] = [@ EXCEPT !.pc = "process", !.keys = keys]]
    BY <1>3 DEF SyncFetch
  <2>2. keys \in SUBSET Providers
    BY DEF Listable
  <2>3. [sync[s] EXCEPT !.pc = "process"] \in Sync
    BY <1>0, SyncFields
  <2>4. [sync[s] EXCEPT !.pc = "process", !.keys = keys] \in Sync
    BY <2>2, <2>3, SyncFields
  <2> QED BY <1>00, <2>1, <2>4
<1>4. CASE SyncProcess(s)
  <2>1. sync[s].keys \in SUBSET Providers /\ sync[s].allow \in BOOLEAN
    BY <1>0 DEF Sync
  <2>2. Reported(sync[s].keys, sync[s].allow) \in SUBSET Names(Providers)
    BY <2>1, NamesFacts
  <2>3. [sync[s] EXCEPT !.pc = "deactivate"] \in Sync
    BY <1>0, SyncFields
  <2>4. [sync[s] EXCEPT !.pc = "deactivate",
                        !.report = Reported(sync[s].keys, sync[s].allow)] \in Sync
    BY <2>2, <2>3, SyncFields
  <2> QED BY <1>00, <1>4, <2>4 DEF SyncProcess
<1>5. CASE SyncDeactivate(s)
  BY <1>00, <1>01, <1>5 DEF SyncDeactivate
<1>6. CASE SyncRoute(s)
  <2>1. PICK S \in SUBSET Routable, kept \in SUBSET Providers :
          sync' = [sync EXCEPT ![s] =
                     [@ EXCEPT !.pc = "tags", !.routed = kept,
                               !.report = sync[s].report \cup Reported(S, sync[s].allow)]]
    BY <1>6 DEF SyncRoute, Routable
  <2>2. S \in SUBSET Providers /\ sync[s].allow \in BOOLEAN
    BY <1>0 DEF Sync, Routable
  <2>3. [sync[s] EXCEPT !.pc = "tags"] \in Sync
    BY <1>0, SyncFields
  <2> DEFINE r == [sync[s] EXCEPT !.pc = "tags", !.routed = kept]
  <2>4. r \in Sync
    BY <2>2, <2>3, SyncFields
  <2>5. sync[s].report \cup Reported(S, sync[s].allow) \in SUBSET Names(Providers)
    <3>1. Reported(S, sync[s].allow) \subseteq Names(Providers)
      BY <2>2, NamesFacts
    <3>2. sync[s].report \subseteq Names(Providers)
      BY <1>0 DEF Sync
    <3> QED BY <3>1, <3>2
  <2>6. [r EXCEPT !.report = sync[s].report \cup Reported(S, sync[s].allow)] \in Sync
    <3> HIDE DEF r
    <3> QED BY <2>4, <2>5, SyncFields
  <2> QED BY <1>00, <2>1, <2>6
<1>7. CASE SyncTags(s)
  <2>1. PICK tags \in Tags : sync' = [sync EXCEPT ![s] = [@ EXCEPT !.pc = "bench", !.tags = tags]]
    BY <1>7 DEF SyncTags
  <2>2. tags \in SUBSET Providers
    BY <1>0 DEF Tags
  <2>3. [sync[s] EXCEPT !.pc = "bench"] \in Sync
    BY <1>0, SyncFields
  <2>4. [sync[s] EXCEPT !.pc = "bench", !.tags = tags] \in Sync
    BY <2>2, <2>3, SyncFields
  <2> QED BY <1>00, <2>1, <2>4
<1>8. CASE SyncBench(s)
  BY <1>00, <1>01, <1>8 DEF SyncBench
<1>9. ASSUME NEW log \in {"SUCCESS", "FAILED"},
             sync' = [sync EXCEPT ![s] = [@ EXCEPT !.pc = "done", !.log = log]]
      PROVE  /\ sync'[s] \in Sync
             /\ DOMAIN sync' = Syncs /\ \A t \in Syncs \ {s} : sync'[t] = sync[t]
  <2>1. [sync[s] EXCEPT !.pc = "done"] \in Sync
    BY <1>0, SyncFields
  <2>2. [sync[s] EXCEPT !.pc = "done", !.log = log] \in Sync
    BY <2>1, SyncFields
  <2> QED BY <1>00, <1>9, <2>2
<1>10. CASE SyncEnd(s) \/ SyncFails(s)
  BY <1>9, <1>10 DEF SyncEnd, SyncFails
<1>11. CASE SyncDies(s) \/ SyncHeal(s)
  BY <1>00, <1>01, <1>11 DEF SyncDies, SyncHeal
<1>12. CASE SyncSkipsLocal(s)
  <2>1. [sync[s] EXCEPT !.pc = "vectors"] \in Sync
    BY <1>0, SyncFields
  <2>2. [sync[s] EXCEPT !.pc = "vectors", !.tags = {}] \in Sync
    BY <2>1, SyncFields
  <2>3. [sync[s] EXCEPT !.pc = "vectors", !.tags = {}, !.skipped = TRUE] \in Sync
    BY <2>2, SyncFields
  <2> QED BY <1>00, <1>12, <2>3 DEF SyncSkipsLocal
<1> QED BY <1>1, <1>2, <1>3, <1>4, <1>5, <1>6, <1>7, <1>8, <1>10, <1>11, <1>12 DEF Steps

LEMMA StepsTypeOK ==
  ASSUME TypeOK, NEW s \in Syncs, Steps(s)
  PROVE  TypeOK'
<1> USE DEF TypeOK, SyncUnchanged, ScarsUnchanged, CatalogUnchanged, history, watched
<1>0. sync' \in [Syncs -> Sync]
  <2>1. \A t \in Syncs : sync[t] \in Sync /\ sync'[t] \in Sync
    BY StepsRow
  <2>2. sync' = [t \in Syncs |-> sync'[t]]
    <3>1. \E r : sync' = [sync EXCEPT ![s] = r]
      BY DEF Steps, SyncCheck, SyncCreate, SyncFetch, SyncProcess, SyncDeactivate, SyncHeal,
             SyncRoute, SyncSkipsLocal, SyncTags, SyncBench, SyncEnd, SyncFails, SyncDies, To
    <3> QED BY <3>1
  <2> QED BY <2>1, <2>2
<1>00. /\ sync[s].keys \in SUBSET Providers /\ sync[s].tags \in SUBSET Providers
       /\ sync[s].allow \in BOOLEAN
  BY DEF Sync
<1>1. CASE SyncCheck(s)
  BY <1>0, <1>1 DEF SyncCheck
<1>2. CASE SyncCreate(s)
  BY <1>0, <1>2 DEF SyncCreate
<1>3. CASE SyncFetch(s)
  BY <1>0, <1>3 DEF SyncFetch
<1>4. CASE SyncProcess(s)
  BY <1>0, <1>00, <1>4, PricesFacts, NamesFacts DEF SyncProcess
<1>5. CASE SyncDeactivate(s)
  BY <1>0, <1>5 DEF SyncDeactivate
<1>6. CASE SyncHeal(s)
  BY <1>0, <1>6 DEF SyncHeal
<1>7. CASE SyncRoute(s)
  <2>1. PICK kept \in SUBSET Providers : Routed(kept, sync[s].allow)
    BY <1>7 DEF SyncRoute, Routable
  <2> QED BY <1>0, <1>00, <1>7, <2>1, PricesFacts, NamesFacts DEF SyncRoute, Routed
<1>8. CASE SyncSkipsLocal(s)
  BY <1>0, <1>8 DEF SyncSkipsLocal
<1>9. CASE SyncTags(s)
  BY <1>0, <1>9 DEF SyncTags
<1>10. CASE SyncBench(s)
  BY <1>0, <1>00, <1>10, PricesFacts, NamesFacts DEF SyncBench
<1>11. CASE SyncEnd(s)
  BY <1>0, <1>11 DEF SyncEnd
<1>12. CASE SyncFails(s)
  BY <1>0, <1>12 DEF SyncFails
<1>13. CASE SyncDies(s)
  BY <1>0, <1>13 DEF SyncDies
<1> QED BY <1>1, <1>2, <1>3, <1>4, <1>5, <1>6, <1>7, <1>8, <1>9, <1>10, <1>11, <1>12, <1>13
        DEF Steps

LEMMA NextTypeOK == TypeOK /\ [Next]_vars => TypeOK'
<1> SUFFICES ASSUME TypeOK, [Next]_vars PROVE TypeOK'
  OBVIOUS
<1>1. CASE Next
  BY <1>1, TurnsTypeOK, OperatorTypeOK, StepsTypeOK DEF Next
<1>2. CASE UNCHANGED vars
  BY <1>2 DEF TypeOK, vars, breakers, catalog, history, watched
<1> QED BY <1>1, <1>2

(* The tables, the turns and the syncs keep their types: in particular a   *)
(* call is only ever made to a provider, whatever filter selects it.       *)
THEOREM TypeCorrect == Spec => []TypeOK
BY InitTypeOK, NextTypeOK, PTL DEF Spec
-----------------------------------------------------------------------------
(* Failing over. *)

(* A turn that picks again is past its first attempt, and the provider    *)
(* that failed is paused, scarred, or cleared since.                       *)
Benched ==
  \A s \in Sessions : turn[s].pc = "pick" /\ turn[s].last # None =>
    turn[s].attempt # 0 /\ turn[s].last \in cooling \cup scars \cup cleared

LEMMA InitBenched == Init => Benched
BY DEF Init, Benched

(* Past the first attempt only candidates are selected.                    *)
LEMMA FallbackFacts ==
  ASSUME TypeOK, NEW s \in Sessions, NEW n \in Nat, n # 0
  PROVE  Selected(s, n) \in Candidates \cup {None}
<1>1. Candidates \in SUBSET Providers /\ \A p : FamilyOf(p) \in SUBSET Candidates
  BY DEF Candidates, FamilyOf
<1>2. filter \in Filters
  BY DEF TypeOK
<1>3. /\ BestOf(Candidates) \in Candidates \cup {None}
      /\ BestOf(Candidates \cap {filter.local}) \in Candidates \cup {None}
      /\ \A p : BestOf(FamilyOf(p)) \in Candidates \cup {None}
  <2>1. \A S \in SUBSET Candidates : BestOf(S) \in Candidates \cup {None}
    BY <1>1, BestOfFacts
  <2> QED BY <1>1, <2>1
<1>4. \A type \in {"strict", "local", "vector", "family"} :
        ByStep(type) \in Candidates \cup {None}
  BY <1>3 DEF ByStep
<1>5. ByStrategy(n) \in Candidates \cup {None} \/ filter.strategy = None
  BY <1>2, <1>4, HypothalamusAssumption DEF ByStrategy
<1> QED BY <1>3, <1>5 DEF Selected

LEMMA BenchedIsNotPicked == TypeOK /\ Benched => FailedIsBenched
<1> SUFFICES ASSUME TypeOK, Benched, NEW s \in Sessions, turn[s].pc = "pick", turn[s].last # None,
                    Selected(s, turn[s].attempt) = turn[s].last
             PROVE  turn[s].last \in cleared \/ Unheeded(turn[s].last)
  BY DEF FailedIsBenched
<1>1. turn[s].attempt \in Nat
  BY DEF TypeOK, Turn
<1>2. turn[s].attempt # 0 /\ turn[s].last \in cooling \cup scars \cup cleared
  BY DEF Benched
<1>3. turn[s].last \in Candidates
  BY <1>1, <1>2, FallbackFacts
<1> QED BY <1>2, <1>3 DEF Candidates, Unheeded

(* The rows a failed attempt leaves: the session's own, with the provider  *)
(* that failed, and those of the others.                                   *)
LEMMA FailedRows ==
  ASSUME TypeOK, NEW s \in Sessions, NEW n \in Nat, turn' = Failed(s, n)
  PROVE  /\ turn'[s].last = turn[s].pick /\ turn'[s].attempt # 0
         /\ \A t \in Sessions \ {s} : turn'[t] = turn[t]
<1> DEFINE c == Copied(s, n)
           n1 == turn[s].attempt + 1
           r == [c EXCEPT !.pc = "pick", !.attempt = n1, !.last = turn[s].pick]
<1>1. turn[s] \in Turn /\ DOMAIN turn = Sessions
  BY DEF TypeOK
<1>2. /\ DOMAIN c = DOMAIN turn[s] /\ {"last", "attempt"} \subseteq DOMAIN turn[s]
      /\ n1 # 0
  BY <1>1 DEF Copied, Turn
<1>3. turn' = [turn EXCEPT ![s] = r]
  BY DEF Failed
<1> HIDE DEF c, n1
<1>4. r.last = turn[s].pick /\ r.attempt = n1
  BY <1>2
<1> HIDE DEF r
<1> QED BY <1>1, <1>2, <1>3, <1>4

LEMMA NextBenched == TypeOK /\ Benched /\ [Next]_vars => Benched'
<1> SUFFICES ASSUME TypeOK, Benched, [Next]_vars,
                    NEW t \in Sessions, turn'[t].pc = "pick", turn'[t].last # None
             PROVE  turn'[t].attempt # 0 /\ turn'[t].last \in cooling' \cup scars' \cup cleared'
  BY DEF Benched
<1> USE DEF TurnUnchanged, breakers, history, catalog, watched
<1>0. /\ turn \in [Sessions -> Turn]
      /\ turn[t].pc = "pick" /\ turn[t].last # None
            => turn[t].attempt # 0 /\ turn[t].last \in cooling \cup scars \cup cleared
  BY DEF TypeOK, Benched
<1>1. ASSUME turn'[t] = turn[t],
             \A p \in cooling \cup scars \cup cleared :
                p = turn[t].last => p \in cooling' \cup scars' \cup cleared'
      PROVE  turn'[t].attempt # 0 /\ turn'[t].last \in cooling' \cup scars' \cup cleared'
  BY <1>0, <1>1
<1>2. ASSUME NEW s \in Sessions, Turns(s)
      PROVE  turn'[t].attempt # 0 /\ turn'[t].last \in cooling' \cup scars' \cup cleared'
  <2>0. turn[s] \in Turn
    BY <1>0
  <2>1. CASE StartTurn(s)
    <3>1. s = t => turn'[t].last = None
      BY <1>0, <2>0, <2>1 DEF StartTurn, Turn
    <3>2. s # t => turn'[t] = turn[t]
      BY <1>0, <2>1 DEF StartTurn
    <3> QED BY <1>1, <2>1, <3>1, <3>2 DEF StartTurn
  <2>2. CASE Pick(s)
    <3>1. s = t => turn'[t].pc # "pick"
      BY <1>0, <2>0, <2>2 DEF Pick, Picked, Turn
    <3>2. s # t => turn'[t] = turn[t]
      BY <1>0, <2>2 DEF Pick
    <3> QED BY <1>1, <2>2, <3>1, <3>2 DEF Pick
  <2>3. CASE Answered(s)
    <3>0. DOMAIN Copied(s, 0) = DOMAIN turn[s]
      BY <2>0 DEF Copied, Turn
    <3>1. s = t => turn'[t].pc # "pick"
      BY <1>0, <2>0, <2>3, <3>0 DEF Answered, Turn
    <3>2. s # t => turn'[t] = turn[t]
      BY <1>0, <2>3 DEF Answered
    <3> QED BY <1>1, <2>3, <3>1, <3>2 DEF Answered
  <2>4. ASSUME NEW n \in Nat, turn' = Failed(s, n),
               cooling \cup scars \cup cleared \subseteq cooling' \cup scars' \cup cleared',
               turn[s].pick \in cooling' \cup scars' \cup cleared'
        PROVE  turn'[t].attempt # 0 /\ turn'[t].last \in cooling' \cup scars' \cup cleared'
    <3>1. turn'[s].last = turn[s].pick /\ turn'[s].attempt # 0 /\ (s # t => turn'[t] = turn[t])
      BY <2>4, FailedRows
    <3> QED BY <1>1, <2>4, <3>1
  <2>5. turn[s].copy \in Nat /\ turn[s].copy + 1 \in Nat
    BY <2>0 DEF Turn
  <2>6. CASE BreakerTripped(s)
    BY <2>4, <2>5, <2>6 DEF BreakerTripped
  <2>7. CASE ResourceFailure(s)
    BY <2>4, <2>5, <2>7 DEF ResourceFailure
  <2>8. CASE ToolsRejected(s)
    BY <2>4, <2>5, <2>8 DEF ToolsRejected
  <2>9. CASE Exhausted(s)
    <3>1. s = t => turn'[t].pc # "pick"
      BY <1>0, <2>0, <2>9 DEF Exhausted, Turn
    <3>2. s # t => turn'[t] = turn[t]
      BY <1>0, <2>9 DEF Exhausted
    <3> QED BY <1>1, <2>9, <3>1, <3>2 DEF Exhausted
  <2> QED BY <1>2, <2>1, <2>2, <2>3, <2>6, <2>7, <2>8, <2>9 DEF Turns
<1>3. ASSUME NEW p \in Providers, Edits(p)
      PROVE  turn'[t].attempt # 0 /\ turn'[t].last \in cooling' \cup scars' \cup cleared'
  <2>1. CASE CoolsDown(p)
    BY <1>0, <1>1, <2>1 DEF CoolsDown
  <2>2. CASE ResetBreaker(p)
    BY <1>1, <2>2 DEF ResetBreaker, Operator
  <2>3. CASE ToggleProvider(p) \/ ToggleModel(p) \/ Pull(p) \/ Remove(p)
    BY <1>1, <2>3 DEF ToggleProvider, ToggleModel, Pull, Remove, Operator
  <2> QED BY <1>3, <2>1, <2>2, <2>3 DEF Edits
<1>4. CASE SyncLocal \/ FetchCatalog \/ EditAddress
  BY <1>1, <1>4 DEF SyncLocal, FetchCatalog, EditAddress, Operator
<1>5. ASSUME NEW s \in Syncs, Steps(s)
      PROVE  turn'[t].attempt # 0 /\ turn'[t].last \in cooling' \cup scars' \cup cleared'
  <2>1. CASE SyncHeal(s)
    <3>1. /\ UNCHANGED <<turn, cooling>>
          /\ scars' = scars \ Routable /\ cleared' = cleared \cup (scars \cap Routable)
      BY <2>1 DEF SyncHeal, SyncUnchanged
    <3> QED BY <1>1, <3>1
  <2>2. CASE ~SyncHeal(s)
    <3>1. UNCHANGED <<turn, cooling, cleared, scars>>
      BY <1>5, <2>2 DEF Steps, SyncCheck, SyncCreate, SyncFetch, SyncProcess, SyncDeactivate,
                        SyncRoute, SyncSkipsLocal, SyncTags, SyncBench, SyncEnd, SyncFails,
                        SyncDies, SyncUnchanged, ScarsUnchanged
    <3> QED BY <1>1, <3>1
  <2> QED BY <2>1, <2>2
<1>6. CASE UNCHANGED vars
  BY <1>1, <1>6 DEF vars
<1> QED BY <1>2, <1>3, <1>4, <1>5, <1>6 DEF Next

(* The attempt after a failure asks another provider than the one that    *)
(* has just failed, whoever trips, resets or heals in between: the objects *)
(* of the failover loop of frontal_lobe.py may be old, but the breaker it  *)
(* wrote is not lost.  What is left are breakers cleared since, and the    *)
(* lost tools that a filter with banned providers does not look at.        *)
THEOREM FailoversBenched == Spec => []FailedIsBenched
BY InitTypeOK, NextTypeOK, InitBenched, NextBenched, BenchedIsNotPicked, PTL DEF Spec

-----------------------------------------------------------------------------
(* A sync nobody interferes with. *)

Resting == {"idle", "create", "done", "dead"}

(* A sync that has succeeded is over.                                      *)
SuccessIsTheEnd == \A s \in Syncs : sync[s].log = "SUCCESS" => sync[s].pc = "done"

(* The sync nobody interferes with has begun, and is alone.                *)
QuietIsAlone ==
  \A s \in Syncs : quiet = s =>
    /\ sync[s].pc \notin {"idle", "create"}
    /\ \A t \in Syncs \ {s} : sync[t].pc \in Resting

(* It works its way through the catalogs: at each step the active prices   *)
(* are those of the catalogs it has been through, but for what operators   *)
(* have changed.                                                           *)
Prices(have) == \A p \in Providers \ edited : Active(p) <=> p \in have

Mirrored(s) ==
  /\ Prices(sync[s].keys \cup sync[s].routed \cup sync[s].tags)
  /\ ~sync[s].skipped => \A p \in Local \ edited : enabled[p] = (p \in sync[s].tags)

QuietMirrors ==
  \A s \in Syncs : quiet = s =>
    /\ sync[s].pc = "deactivate" => \A p \in sync[s].keys \ edited : Active(p)
    /\ sync[s].pc \in {"route", "enrich"} => Prices(sync[s].keys)
    /\ sync[s].pc \in {"tags", "bench"} => Prices(sync[s].keys \cup sync[s].routed)
    /\ sync[s].pc = "vectors" \/ sync[s].log = "SUCCESS" => Mirrored(s)

(* What a sync has come across is in the tables or in its report.          *)
Told(s, S) == Names(S) \subseteq taxa \cup sync[s].report

NamesTold ==
  \A s \in Syncs :
    /\ sync[s].pc \in {"deactivate", "route", "enrich"} => Told(s, sync[s].keys)
    /\ sync[s].pc \in {"tags", "bench", "vectors"} \/ sync[s].log = "SUCCESS"
         => Told(s, sync[s].keys \cup sync[s].routed)

SyncInv == TypeOK /\ SuccessIsTheEnd /\ QuietIsAlone /\ QuietMirrors /\ NamesTold

LEMMA InitSyncInv == Init => SyncInv
<1> SUFFICES ASSUME Init PROVE SyncInv
  OBVIOUS
<1>1. \A s \in Syncs : sync[s].pc = "idle" /\ sync[s].log = None /\ quiet = None
  BY DEF Init
<1>2. \A s \in Syncs : quiet # s /\ sync[s].log # "SUCCESS"
  BY <1>1, HypothalamusAssumption
<1> QED BY <1>1, <1>2, InitTypeOK DEF SyncInv, SuccessIsTheEnd, QuietIsAlone, QuietMirrors, NamesTold

(* What each step makes of the row of its sync.                            *)
LEMMA RowFacts ==
  ASSUME TypeOK, NEW s \in Syncs
  PROVE  /\ SyncCheck(s) => /\ sync'[s].pc \in {"done", "create"}
                            /\ sync'[s].log = sync[s].log
         /\ SyncCreate(s) => sync'[s].pc = "fetch" /\ sync'[s].log = "RUNNING"
         /\ SyncFetch(s) => sync'[s].pc = "process" /\ sync'[s].log = sync[s].log
         /\ SyncProcess(s) =>
              /\ sync'[s].pc = "deactivate" /\ sync'[s].log = sync[s].log
              /\ sync'[s].keys = sync[s].keys
              /\ sync'[s].report = Reported(sync[s].keys, sync[s].allow)
         /\ SyncTags(s) =>
              /\ sync'[s].pc = "bench" /\ sync'[s].log = sync[s].log
              /\ sync'[s].keys = sync[s].keys /\ sync'[s].routed = sync[s].routed
              /\ sync'[s].report = sync[s].report
         /\ SyncSkipsLocal(s) =>
              /\ sync'[s].pc = "vectors" /\ sync'[s].log = sync[s].log
              /\ sync'[s].keys = sync[s].keys /\ sync'[s].routed = sync[s].routed
              /\ sync'[s].tags = {} /\ sync'[s].skipped /\ sync'[s].report = sync[s].report
         /\ SyncEnd(s) =>
              /\ sync'[s].pc = "done" /\ sync'[s].log = "SUCCESS"
              /\ sync'[s].keys = sync[s].keys /\ sync'[s].routed = sync[s].routed
              /\ sync'[s].tags = sync[s].tags /\ sync'[s].skipped = sync[s].skipped
              /\ sync'[s].report = sync[s].report
         /\ SyncFails(s) => sync'[s].pc = "done" /\ sync'[s].log = "FAILED"
<1>0. sync[s] \in Sync /\ DOMAIN sync = Syncs
  BY DEF TypeOK
<1>00. \A r : sync' = [sync EXCEPT ![s] = r] => sync'[s] = r
  BY <1>0
<1>1. SyncCheck(s) => sync'[s].pc \in {"done", "create"} /\ sync'[s].log = sync[s].log
  BY <1>0 DEF SyncCheck, To, Sync
<1>2. SyncCreate(s) => sync'[s].pc = "fetch" /\ sync'[s].log = "RUNNING"
  BY <1>0, <1>00 DEF SyncCreate, Sync
<1>3. SyncFetch(s) => sync'[s].pc = "process" /\ sync'[s].log = sync[s].log
  <2> SUFFICES ASSUME SyncFetch(s) PROVE <1>3!2
    OBVIOUS
  <2>1. PICK keys \in SUBSET Listable :
          sync'[s] = [[sync[s] EXCEPT !.pc = "process"] EXCEPT !.keys = keys]
    BY <1>00 DEF SyncFetch
  <2> QED BY <1>0, <2>1 DEF Sync
<1>4. SyncProcess(s) =>
        /\ sync'[s].pc = "deactivate" /\ sync'[s].log = sync[s].log
        /\ sync'[s].keys = sync[s].keys
        /\ sync'[s].report = Reported(sync[s].keys, sync[s].allow)
  BY <1>0, <1>00 DEF SyncProcess, Sync
<1>7. SyncTags(s) =>
        /\ sync'[s].pc = "bench" /\ sync'[s].log = sync[s].log
        /\ sync'[s].keys = sync[s].keys /\ sync'[s].routed = sync[s].routed
        /\ sync'[s].report = sync[s].report
  <2> SUFFICES ASSUME SyncTags(s) PROVE <1>7!2
    OBVIOUS
  <2>1. PICK tags \in Tags : sync' = [sync EXCEPT ![s] = [@ EXCEPT !.pc = "bench", !.tags = tags]]
    BY DEF SyncTags
  <2>2. sync'[s] = [[sync[s] EXCEPT !.pc = "bench"] EXCEPT !.tags = tags]
    BY <1>00, <2>1
  <2> QED BY <1>0, <2>2 DEF Sync
<1>8. SyncSkipsLocal(s) =>
        /\ sync'[s].pc = "vectors" /\ sync'[s].log = sync[s].log
        /\ sync'[s].keys = sync[s].keys /\ sync'[s].routed = sync[s].routed
        /\ sync'[s].tags = {} /\ sync'[s].skipped /\ sync'[s].report = sync[s].report
  BY <1>0, <1>00 DEF SyncSkipsLocal, Sync
<1>9. SyncEnd(s) =>
        /\ sync'[s].pc = "done" /\ sync'[s].log = "SUCCESS"
        /\ sync'[s].keys = sync[s].keys /\ sync'[s].routed = sync[s].routed
        /\ sync'[s].tags = sync[s].tags /\ sync'[s].skipped = sync[s].skipped
        /\ sync'[s].report = sync[s].report
  BY <1>0, <1>00 DEF SyncEnd, Sync
<1>10. SyncFails(s) => sync'[s].pc = "done" /\ sync'[s].log = "FAILED"
  BY <1>0, <1>00 DEF SyncFails, Sync
<1> QED BY <1>1, <1>2, <1>3, <1>4, <1>7, <1>8, <1>9, <1>10

(* A step that only moves the sync's place on leaves the rest of the row.  *)
LEMMA ToFacts ==
  ASSUME TypeOK, NEW s \in Syncs, NEW pc, sync' = To(s, pc)
  PROVE  /\ sync'[s].pc = pc /\ sync'[s].log = sync[s].log
         /\ sync'[s].keys = sync[s].keys /\ sync'[s].routed = sync[s].routed
         /\ sync'[s].tags = sync[s].tags /\ sync'[s].report = sync[s].report
         /\ sync'[s].skipped = sync[s].skipped
<1>0. sync[s] \in Sync /\ DOMAIN sync = Syncs
  BY DEF TypeOK
<1> QED BY <1>0 DEF To, Sync

(* The catalog of OpenRouter.                                              *)
LEMMA RouteFacts ==
  ASSUME TypeOK, NEW s \in Syncs, SyncRoute(s)
  PROVE  /\ sync'[s].pc = "tags" /\ sync'[s].log = sync[s].log
         /\ sync'[s].keys = sync[s].keys /\ sync'[s].routed \in SUBSET Providers
         /\ Routed(sync'[s].routed, sync[s].allow)
         /\ sync[s].report \subseteq sync'[s].report
         /\ Reported(sync'[s].routed, sync[s].allow) \subseteq sync'[s].report
<1>0. sync[s] \in Sync /\ DOMAIN sync = Syncs
  BY DEF TypeOK
<1>1. PICK S \in SUBSET Routable, kept \in SUBSET Providers :
        /\ kept \in {S, {}} /\ Routed(kept, sync[s].allow)
        /\ sync' = [sync EXCEPT ![s] =
             [@ EXCEPT !.pc = "tags", !.routed = kept,
                       !.report = sync[s].report \cup Reported(S, sync[s].allow)]]
  BY DEF SyncRoute, Routable
<1> DEFINE R == sync[s].report \cup Reported(S, sync[s].allow)
<1>2. sync'[s] = [[[sync[s] EXCEPT !.pc = "tags"] EXCEPT !.routed = kept] EXCEPT !.report = R]
  <2> DEFINE row == [[[sync[s] EXCEPT !.pc = "tags"] EXCEPT !.routed = kept] EXCEPT !.report = R]
  <2>1. sync' = [sync EXCEPT ![s] = row]
    BY <1>1, Zenon
  <2> HIDE DEF row
  <2>2. sync'[s] = row
    BY <1>0, <2>1
  <2> QED BY <2>2 DEF row
<1>3. sync[s].report \subseteq R /\ Reported(kept, sync[s].allow) \subseteq R
  <2>1. Reported({}, sync[s].allow) = {}
    BY DEF Reported, Names
  <2> QED BY <1>1, <2>1
<1> HIDE DEF R
<1>4. /\ sync'[s].pc = "tags" /\ sync'[s].log = sync[s].log
      /\ sync'[s].keys = sync[s].keys /\ sync'[s].routed = kept /\ sync'[s].report = R
  BY <1>0, <1>2 DEF Sync
<1> QED BY <1>1, <1>3, <1>4

LEMMA NamesOfUnion == \A S, T : Names(S \cup T) = Names(S) \cup Names(T)
BY DEF Names

(* Steps that leave the rows of the syncs alone, and of prices and         *)
(* switches what operators have not touched.                               *)
LEMMA RowsUnchanged ==
  ASSUME SyncInv, TypeOK', sync' = sync, taxa \subseteq taxa', quiet' = quiet,
         edited \subseteq edited',
         \A p \in Providers \ edited' : (Active(p)' <=> Active(p)) /\ enabled'[p] = enabled[p]
  PROVE  SyncInv'
<1> USE DEF SyncInv
<1>1. SuccessIsTheEnd'
  BY DEF SuccessIsTheEnd
<1>2. QuietIsAlone'
  BY DEF QuietIsAlone
<1>3. QuietMirrors'
  <2> SUFFICES ASSUME NEW s \in Syncs, quiet' = s PROVE (QuietMirrors!(s)!2)'
    BY DEF QuietMirrors
  <2>1. QuietMirrors!(s)!2
    BY DEF QuietMirrors
  <2>2. /\ sync[s].keys \in SUBSET Providers
        /\ \A p \in Local \ edited' : enabled'[p] = enabled[p] /\ p \notin edited
    BY DEF TypeOK, Sync, Local
  <2>3. \A have : Prices(have) => Prices(have)'
    BY DEF Prices
  <2>4. Mirrored(s) => Mirrored(s)'
    BY <2>2, <2>3 DEF Mirrored
  <2>5. (\A p \in sync[s].keys \ edited : Active(p)) =>
          \A p \in sync[s].keys \ edited' : Active(p)'
    BY <2>2
  <2> QED BY <2>1, <2>3, <2>4, <2>5
<1>4. NamesTold'
  BY DEF NamesTold, Told
<1> QED BY <1>1, <1>2, <1>3, <1>4

LEMMA StepsSuccessIsTheEnd ==
  ASSUME TypeOK, SuccessIsTheEnd, NEW s \in Syncs, Steps(s)
  PROVE  SuccessIsTheEnd'
<1>1. \A t \in Syncs \ {s} : sync'[t] = sync[t]
  BY StepsRow
<1>2. sync'[s].log = "SUCCESS" => sync'[s].pc = "done"
  <2>1. CASE \E pc : sync' = To(s, pc) /\ sync[s].pc # "done"
    BY <2>1, ToFacts DEF SuccessIsTheEnd
  <2>2. CASE SyncCheck(s) \/ SyncCreate(s) \/ SyncFetch(s) \/ SyncProcess(s) \/ SyncTags(s)
             \/ SyncSkipsLocal(s) \/ SyncEnd(s) \/ SyncFails(s)
    BY <2>2, RowFacts DEF SuccessIsTheEnd, SyncCheck, SyncFetch, SyncProcess, SyncTags,
                          SyncSkipsLocal, At
  <2>3. CASE SyncRoute(s)
    BY <2>3, RouteFacts DEF SuccessIsTheEnd, SyncRoute
  <2>4. CASE SyncDeactivate(s) \/ SyncHeal(s) \/ SyncBench(s) \/ SyncDies(s)
    BY <2>1, <2>4 DEF SyncDeactivate, SyncHeal, SyncBench, SyncDies, Underway, At
  <2> QED BY <2>2, <2>3, <2>4 DEF Steps
<1> QED BY <1>1, <1>2 DEF SuccessIsTheEnd

(* A sync that begins while others are in the middle of it is not quiet,   *)
(* and nor is one that has begun before it.                                *)
LEMMA StepsQuiet ==
  ASSUME TypeOK, QuietIsAlone, NEW s \in Syncs, Steps(s), NEW q \in Syncs, quiet' = q
  PROVE  /\ q # s => quiet = q /\ ~SyncCreate(s)
         /\ q = s /\ ~SyncCreate(s) => quiet = s
         /\ SyncCreate(s) => q = s /\ \A t \in Syncs \ {s} : sync[t].pc \in Resting
<1>1. CASE SyncCreate(s)
  BY <1>1, HypothalamusAssumption DEF SyncCreate, Resting
<1>2. CASE ~SyncCreate(s)
  BY <1>2 DEF Steps, SyncCheck, SyncFetch, SyncProcess, SyncDeactivate, SyncHeal, SyncRoute,
              SyncSkipsLocal, SyncTags, SyncBench, SyncEnd, SyncFails, SyncDies, watched
<1> QED BY <1>1, <1>2

(* Another sync than the quiet one can only be turned away, or die before  *)
(* it has begun.                                                           *)
LEMMA OthersRest ==
  ASSUME QuietIsAlone, NEW s \in Syncs, Steps(s), ~SyncCreate(s), sync[s].pc \in Resting
  PROVE  SyncCheck(s) \/ SyncDies(s)
BY DEF Steps, Resting, SyncFetch, SyncProcess, SyncDeactivate, SyncHeal, SyncRoute, SyncSkipsLocal,
       SyncTags, SyncBench, SyncEnd, SyncFails, Underway, At

LEMMA StepsQuietIsAlone ==
  ASSUME TypeOK, QuietIsAlone, NEW s \in Syncs, Steps(s)
  PROVE  QuietIsAlone'
<1> SUFFICES ASSUME NEW q \in Syncs, quiet' = q
             PROVE  /\ sync'[q].pc \notin {"idle", "create"}
                    /\ \A t \in Syncs \ {q} : sync'[t].pc \in Resting
  BY DEF QuietIsAlone
<1>1. \A t \in Syncs \ {s} : sync'[t] = sync[t]
  BY StepsRow
<1>2. CASE SyncCreate(s)
  BY <1>1, <1>2, StepsQuiet, RowFacts
<1>3. CASE ~SyncCreate(s) /\ q = s
  <2>1. quiet = s /\ sync[s].pc \notin {"idle", "create"}
    BY <1>3, StepsQuiet DEF QuietIsAlone
  <2>2. sync'[s].pc \notin {"idle", "create"}
    <3>1. CASE \E pc \in {"route", "enrich", "vectors", "dead"} : sync' = To(s, pc)
      BY <3>1, ToFacts
    <3>2. CASE SyncFetch(s) \/ SyncProcess(s) \/ SyncTags(s) \/ SyncSkipsLocal(s) \/ SyncEnd(s)
               \/ SyncFails(s)
      BY <3>2, RowFacts
    <3>3. CASE SyncRoute(s)
      BY <3>3, RouteFacts
    <3>4. CASE SyncDeactivate(s) \/ SyncHeal(s) \/ SyncBench(s) \/ SyncDies(s)
      BY <3>1, <3>4 DEF SyncDeactivate, SyncHeal, SyncBench, SyncDies
    <3> QED BY <1>3, <2>1, <3>2, <3>3, <3>4 DEF Steps, SyncCheck, At
  <2> QED BY <1>1, <1>3, <2>1, <2>2 DEF QuietIsAlone
<1>4. CASE ~SyncCreate(s) /\ q # s
  <2>1. quiet = q /\ sync[s].pc \in Resting /\ sync'[q] = sync[q]
    BY <1>1, <1>4, StepsQuiet DEF QuietIsAlone
  <2>2. SyncCheck(s) \/ SyncDies(s)
    BY <1>4, <2>1, OthersRest
  <2>3. sync'[s].pc \in Resting
    BY <2>2, RowFacts, ToFacts DEF SyncDies, Resting
  <2> QED BY <1>1, <1>4, <2>1, <2>3 DEF QuietIsAlone
<1> QED BY <1>2, <1>3, <1>4

LEMMA StepsNamesTold ==
  ASSUME TypeOK, SuccessIsTheEnd, NamesTold, NEW s \in Syncs, Steps(s)
  PROVE  NamesTold'
<1>1. \A t \in Syncs \ {s} : sync'[t] = sync[t]
  BY StepsRow
<1>0. /\ sync[s].keys \in SUBSET Providers /\ sync[s].tags \in SUBSET Providers
      /\ sync[s].allow \in BOOLEAN /\ sync[s] \in Sync
  BY DEF TypeOK, Sync
<1>2. taxa \subseteq taxa'
  <2>1. CASE SyncProcess(s)
    BY <1>0, <2>1, NamesFacts DEF SyncProcess
  <2>2. CASE SyncRoute(s)
    <3>1. sync'[s].routed \in SUBSET Providers /\ taxa' = Created(sync'[s].routed, sync[s].allow)
      BY <2>2, RouteFacts DEF Routed
    <3> QED BY <1>0, <3>1, NamesFacts
  <2>3. CASE SyncBench(s)
    BY <1>0, <2>3, NamesFacts DEF SyncBench
  <2> QED BY <2>1, <2>2, <2>3 DEF Steps, SyncCheck, SyncCreate, SyncFetch, SyncDeactivate,
                                  SyncHeal, SyncSkipsLocal, SyncTags, SyncEnd, SyncFails, SyncDies,
                                  CatalogUnchanged
<1> DEFINE Part(t) ==
      /\ sync[t].pc \in {"deactivate", "route", "enrich"} => Told(t, sync[t].keys)
      /\ sync[t].pc \in {"tags", "bench", "vectors"} \/ sync[t].log = "SUCCESS"
           => Told(t, sync[t].keys \cup sync[t].routed)
<1>3. Part(s) /\ (sync[s].log = "SUCCESS" => sync[s].pc = "done")
  BY DEF NamesTold, SuccessIsTheEnd
<1>4. Part(s)'
  <2>1. CASE SyncCheck(s) \/ SyncCreate(s) \/ SyncFetch(s)
    BY <1>3, <2>1, RowFacts DEF SyncCheck, SyncFetch, At
  <2>2. CASE SyncProcess(s)
    BY <1>0, <1>3, <2>2, RowFacts, NamesFacts DEF SyncProcess, At, Told
  <2>3. CASE SyncDeactivate(s) \/ SyncHeal(s) \/ SyncBench(s)
    <3>1. \/ sync[s].pc = "deactivate" /\ sync' = To(s, "route")
          \/ sync[s].pc = "route" /\ sync' = To(s, "enrich")
          \/ sync[s].pc = "bench" /\ sync' = To(s, "vectors")
      BY <2>3 DEF SyncDeactivate, SyncHeal, SyncBench, At
    <3>2. /\ sync'[s].log = sync[s].log /\ sync'[s].keys = sync[s].keys
          /\ sync'[s].routed = sync[s].routed /\ sync'[s].report = sync[s].report
          /\ \/ sync[s].pc = "deactivate" /\ sync'[s].pc = "route"
             \/ sync[s].pc = "route" /\ sync'[s].pc = "enrich"
             \/ sync[s].pc = "bench" /\ sync'[s].pc = "vectors"
      BY <3>1, ToFacts
    <3> QED BY <1>2, <1>3, <3>2 DEF Told
  <2>4. CASE SyncRoute(s)
    <3> DEFINE S == sync'[s].routed
               leave == sync[s].allow
    <3>1. /\ sync'[s].pc = "tags" /\ sync'[s].log = sync[s].log
          /\ sync[s].pc \in {"route", "enrich"}
          /\ sync'[s].keys = sync[s].keys /\ S \in SUBSET Providers /\ taxa' = Created(S, leave)
          /\ sync[s].report \cup Reported(S, leave) \subseteq sync'[s].report
      BY <2>4, RouteFacts DEF Routed, SyncRoute
    <3>2. Names(S) \subseteq Created(S, leave) \cup Reported(S, leave)
      BY <1>0, <3>1, NamesFacts
    <3>3. Names(sync[s].keys) \subseteq taxa \cup sync[s].report
      BY <1>3, <3>1 DEF Told
    <3>4. Names(sync'[s].keys \cup S) \subseteq taxa' \cup sync'[s].report
      BY <1>2, <3>1, <3>2, <3>3, NamesOfUnion
    <3> QED BY <3>1, <3>4 DEF Told
  <2>5. CASE SyncTags(s) \/ SyncSkipsLocal(s) \/ SyncEnd(s) \/ SyncFails(s)
    BY <1>2, <1>3, <2>5, RowFacts DEF SyncTags, SyncSkipsLocal, SyncEnd, At, Told
  <2>6. CASE SyncDies(s)
    <3>1. /\ sync'[s].pc = "dead" /\ sync'[s].log = sync[s].log /\ sync'[s].keys = sync[s].keys
          /\ sync'[s].routed = sync[s].routed /\ sync'[s].report = sync[s].report
      BY <2>6, ToFacts DEF SyncDies
    <3> QED BY <1>2, <1>3, <3>1 DEF Told
  <2> QED BY <2>1, <2>2, <2>3, <2>4, <2>5, <2>6 DEF Steps
<1>5. \A t \in Syncs \ {s} : Part(t)'
  BY <1>1, <1>2 DEF NamesTold, Told
<1> QED BY <1>4, <1>5 DEF NamesTold

LEMMA StepsQuietMirrors ==
  ASSUME TypeOK, SuccessIsTheEnd, QuietIsAlone, QuietMirrors, NEW s \in Syncs, Steps(s)
  PROVE  QuietMirrors'
<1> DEFINE Part(q) ==
      /\ sync[q].pc = "deactivate" => \A p \in sync[q].keys \ edited : Active(p)
      /\ sync[q].pc \in {"route", "enrich"} => Prices(sync[q].keys)
      /\ sync[q].pc \in {"tags", "bench"} => Prices(sync[q].keys \cup sync[q].routed)
      /\ sync[q].pc = "vectors" \/ sync[q].log = "SUCCESS" => Mirrored(q)
<1> SUFFICES ASSUME NEW q \in Syncs, quiet' = q PROVE Part(q)'
  BY DEF QuietMirrors
<1>1. \A t \in Syncs \ {s} : sync'[t] = sync[t]
  BY StepsRow
<1>0. /\ sync[s].keys \in SUBSET Providers /\ sync[s].tags \in SUBSET Providers
      /\ sync[s].routed \in SUBSET Providers /\ sync[s] \in Sync
  BY DEF TypeOK, Sync
<1>2. CASE SyncCreate(s)
  BY <1>2, StepsQuiet, RowFacts
<1>3. CASE ~SyncCreate(s) /\ q # s
  <2>1. quiet = q /\ sync[s].pc \in Resting /\ sync'[q] = sync[q] /\ Part(q)
    BY <1>1, <1>3, StepsQuiet DEF QuietIsAlone, QuietMirrors
  <2>2. SyncCheck(s) \/ SyncDies(s)
    BY <1>3, <2>1, OthersRest
  <2>3. UNCHANGED <<active, enabled, edited>>
    BY <2>2 DEF SyncCheck, SyncDies, CatalogUnchanged, watched
  <2> QED BY <2>1, <2>3 DEF Prices, Mirrored, Active
<1>4. CASE ~SyncCreate(s) /\ q = s
  <2>0. quiet = s /\ Part(s) /\ (sync[s].log = "SUCCESS" => sync[s].pc = "done")
    BY <1>4, StepsQuiet DEF QuietMirrors, SuccessIsTheEnd
  <2>00. edited' = edited
    BY <1>4 DEF Steps, SyncCheck, SyncFetch, SyncProcess, SyncDeactivate, SyncHeal, SyncRoute,
                SyncSkipsLocal, SyncTags, SyncBench, SyncEnd, SyncFails, SyncDies, watched
  <2>1. CASE SyncCheck(s) \/ SyncFetch(s) \/ SyncFails(s)
    BY <1>4, <2>0, <2>1, RowFacts DEF SyncCheck, SyncFetch, At, QuietIsAlone
  <2>2. CASE SyncProcess(s)
    <3>1. /\ sync'[s].pc = "deactivate" /\ sync'[s].keys = sync[s].keys
          /\ sync'[s].log # "SUCCESS" /\ active' = PriceActive(sync[s].keys)
      BY <2>0, <2>2, RowFacts DEF SyncProcess, At
    <3>2. \A p \in sync[s].keys : Active(p)'
      BY <1>0, <3>1, PricesFacts DEF Active
    <3> QED BY <1>4, <3>1, <3>2
  <2>3. CASE SyncDeactivate(s)
    <3>1. sync'[s].pc = "route" /\ sync'[s].keys = sync[s].keys /\ sync'[s].log # "SUCCESS"
      BY <2>0, <2>3, ToFacts DEF SyncDeactivate, At
    <3>2. \A p \in Providers \ edited : Active(p)' <=> p \in sync[s].keys
      BY <2>0, <2>3 DEF SyncDeactivate, At, Active
    <3> QED BY <1>4, <2>00, <3>1, <3>2 DEF Prices
  <2>4. CASE SyncRoute(s)
    <3>1. /\ sync'[s].pc = "tags" /\ sync'[s].keys = sync[s].keys /\ sync'[s].log # "SUCCESS"
          /\ Prices(sync[s].keys) /\ sync'[s].routed \in SUBSET Providers
          /\ active' = PriceActive(sync'[s].routed)
      BY <2>0, <2>4, RouteFacts DEF SyncRoute, Routed
    <3>2. \A p \in Providers \ edited : Active(p)' <=> p \in sync[s].keys \cup sync'[s].routed
      BY <3>1, PricesFacts DEF Active, Prices
    <3> QED BY <1>4, <2>00, <3>1, <3>2 DEF Prices
  <2>5. CASE SyncTags(s)
    <3>1. /\ sync'[s].pc = "bench" /\ sync'[s].keys = sync[s].keys
          /\ sync'[s].routed = sync[s].routed /\ sync'[s].log # "SUCCESS"
          /\ Prices(sync[s].keys \cup sync[s].routed) /\ active' = active
      BY <2>0, <2>5, RowFacts DEF SyncTags, At, CatalogUnchanged
    <3> QED BY <1>4, <2>00, <3>1 DEF Prices, Active
  <2>6. CASE SyncBench(s)
    <3>1. /\ sync'[s].keys = sync[s].keys /\ sync'[s].routed = sync[s].routed
          /\ sync'[s].tags = sync[s].tags /\ sync'[s].pc = "vectors"
          /\ Prices(sync[s].keys \cup sync[s].routed)
          /\ active' = PriceActive(sync[s].tags) /\ enabled' = Mirror(sync[s].tags)
      BY <2>0, <2>6, ToFacts DEF SyncBench, At
    <3>2. \A p \in Providers \ edited :
            Active(p)' <=> p \in sync[s].keys \cup sync[s].routed \cup sync[s].tags
      BY <1>0, <3>1, PricesFacts DEF Active, Prices
    <3>3. \A p \in Local \ edited : enabled'[p] = (p \in sync[s].tags)
      BY <3>1 DEF Mirror, Local
    <3> QED BY <1>4, <2>00, <3>1, <3>2, <3>3 DEF Prices, Mirrored
  <2>7. CASE SyncSkipsLocal(s)
    <3>1. /\ sync'[s].keys = sync[s].keys /\ sync'[s].routed = sync[s].routed
          /\ sync'[s].tags = {} /\ sync'[s].skipped /\ sync'[s].pc = "vectors"
          /\ Prices(sync[s].keys \cup sync[s].routed) /\ active' = active
      BY <2>0, <2>7, RowFacts DEF SyncSkipsLocal, At, CatalogUnchanged
    <3> QED BY <1>4, <2>00, <3>1 DEF Prices, Mirrored, Active
  <2>8. CASE SyncEnd(s)
    <3>1. /\ sync'[s].pc = "done" /\ sync'[s].keys = sync[s].keys
          /\ sync'[s].routed = sync[s].routed /\ sync'[s].tags = sync[s].tags
          /\ sync'[s].skipped = sync[s].skipped
          /\ UNCHANGED <<active, enabled>> /\ Mirrored(s)
      BY <2>0, <2>8, RowFacts DEF SyncEnd, At, CatalogUnchanged
    <3> QED BY <1>4, <2>00, <3>1 DEF Mirrored, Prices, Active
  <2>9. CASE SyncDies(s)
    <3>1. sync'[s].pc = "dead" /\ sync'[s].log # "SUCCESS"
      BY <2>0, <2>9, ToFacts DEF SyncDies, Underway, At
    <3> QED BY <1>4, <3>1
  <2>10. CASE SyncHeal(s)
    <3>1. /\ sync'[s].pc = "enrich" /\ sync'[s].keys = sync[s].keys /\ sync'[s].log # "SUCCESS"
          /\ Prices(sync[s].keys) /\ active' = active
      BY <2>0, <2>10, ToFacts DEF SyncHeal, At, CatalogUnchanged
    <3> QED BY <1>4, <2>00, <3>1 DEF Prices, Active
  <2> QED BY <1>4, <2>1, <2>2, <2>3, <2>4, <2>5, <2>6, <2>7, <2>8, <2>9, <2>10 DEF Steps
<1> QED BY <1>2, <1>3, <1>4

LEMMA NextSyncInv == SyncInv /\ [Next]_vars => SyncInv'
<1> SUFFICES ASSUME SyncInv, [Next]_vars PROVE SyncInv'
  OBVIOUS
<1>0. TypeOK /\ TypeOK'
  BY NextTypeOK DEF SyncInv
<1> USE DEF TurnUnchanged, breakers, history, catalog, watched
<1>1. ASSUME UNCHANGED <<sync, taxa, quiet, active, enabled>>, edited \subseteq edited'
      PROVE  SyncInv'
  BY <1>0, <1>1, RowsUnchanged DEF Active
<1>2. CASE \E s \in Sessions : Turns(s)
  BY <1>1, <1>2 DEF Turns, StartTurn, Pick, Answered, BreakerTripped, ResourceFailure,
                    ToolsRejected, Exhausted
<1>3. CASE (\E p \in Providers : CoolsDown(p) \/ ResetBreaker(p) \/ ToggleModel(p)) \/ EditAddress
  BY <1>1, <1>3 DEF CoolsDown, ResetBreaker, ToggleModel, EditAddress, Operator
<1>4. ASSUME NEW p \in Providers, ToggleProvider(p) \/ Pull(p) \/ Remove(p)
      PROVE  SyncInv'
  <2>1. /\ UNCHANGED <<sync, taxa, quiet>> /\ edited' = edited \cup {p}
        /\ active' = active \/ active' = PricedAnew({p})
        /\ \A q \in Providers \ {p} : enabled'[q] = enabled[q]
    BY <1>0, <1>4 DEF ToggleProvider, Pull, Remove, Operator, TypeOK
  <2>2. \A q \in Providers \ {p} : active'[q] = active[q]
    BY <2>1 DEF PricedAnew
  <2> QED BY <1>0, <2>1, <2>2, RowsUnchanged DEF Active
<1>5. CASE SyncLocal
  <2>1. UNCHANGED <<sync, quiet>> /\ edited' = edited \cup Local /\ installed \subseteq Local
    BY <1>0, <1>5 DEF SyncLocal, Operator, TypeOK
  <2>2. taxa \subseteq taxa'
    BY <1>5 DEF SyncLocal, Scraped
  <2>3. \A p \in Providers \ Local : active'[p] = active[p] /\ enabled'[p] = enabled[p]
    BY <1>5, <2>1 DEF SyncLocal, PricedAnew, Mirror
  <2> QED BY <1>0, <2>1, <2>2, <2>3, RowsUnchanged DEF Active
<1>6. CASE FetchCatalog
  <2>1. UNCHANGED <<sync, quiet, active, enabled, edited>> /\ taxa \subseteq taxa'
    BY <1>6 DEF FetchCatalog, Operator, Scraped
  <2> QED BY <1>0, <2>1, RowsUnchanged DEF Active
<1>7. CASE \E s \in Syncs : Steps(s)
  BY <1>0, <1>7, StepsSuccessIsTheEnd, StepsQuietIsAlone, StepsQuietMirrors, StepsNamesTold
     DEF SyncInv
<1>8. CASE UNCHANGED vars
  BY <1>1, <1>8 DEF vars
<1> QED BY <1>2, <1>3, <1>4, <1>5, <1>6, <1>7, <1>8 DEF Next, Edits

LEMMA SyncInvMirrors == SyncInv => SyncMirrors
<1> SUFFICES ASSUME SyncInv, NEW s \in Syncs, sync[s].log = "SUCCESS"
             PROVE  SyncMirrors!(s)!2
  BY DEF SyncMirrors
<1>1. Names(sync[s].keys \cup sync[s].routed) \subseteq taxa \cup sync[s].report
  BY DEF SyncInv, NamesTold, Told
<1> DEFINE have == sync[s].keys \cup sync[s].routed \cup sync[s].tags
<1>2. ASSUME quiet = s
      PROVE  /\ \A p \in Providers \ edited : Active(p) <=> p \in have
             /\ ~sync[s].skipped =>
                  \A p \in Local \ edited : enabled[p] = (p \in sync[s].tags)
  BY <1>2 DEF SyncInv, QuietMirrors, Mirrored, Prices
<1>3. ASSUME NEW p \in Providers, Active(p) <=> p \in have
      PROVE  Active(p) = (p \in have)
  BY <1>3 DEF Active
<1> QED BY <1>1, <1>2, <1>3

(* A sync of the catalogs that has succeeded, and that no other sync       *)
(* overlapped, leaves the tables as its sources are, but for the providers *)
(* an operator has changed meanwhile and for local models it did not look  *)
(* at for want of an address: the sweep of _deactivate_stale_models takes  *)
(* nothing that a later catalog does not bring back.  And no name of a     *)
(* model is lost between tables and report, whatever else runs.            *)
THEOREM SyncsMirror == Spec => []SyncMirrors
<1>1. Spec => []SyncInv
  BY InitSyncInv, NextSyncInv, PTL DEF Spec
<1> QED BY <1>1, SyncInvMirrors, PTL

=============================================================================
