------------------------ MODULE CentralNervousSystem ------------------------
(***************************************************************************)
(* The job manager of central_nervous_system/: spike trains, their spikes, *)
(* and the Celery tasks that drive them.                                   *)
(*                                                                         *)
(* A train is one traversal of a pathway, a graph of neurons joined by     *)
(* axons.  Nothing owns a train: the API thread that starts it, every      *)
(* fire_spike task that ends, every child train that ends and the temporal *)
(* lobe's garbage collector each ask for one dispatch_next_wave, which     *)
(* reads the spike table, creates the spikes the finished ones lead to and *)
(* then decides whether the train is over.  A dispatch is a READ COMMITTED *)
(* transaction, so it is two steps here: what it reads and locks, and what *)
(* it decides at the end and commits.  Everything else commits between.    *)
(***************************************************************************)
EXTENDS Integers, FiniteSets, Functions

CONSTANTS
  Neurons,      \* the nodes of every pathway
  Pathways,     \* the graphs
  PathwayOf,    \* PathwayOf[n]: the pathway neuron n belongs to
  Roots,        \* the Begin Play neurons (is_root)
  Axons,        \* the wires: records [source, target, type]
  Invokes,      \* Invokes[n]: the pathway a container neuron runs, or None
  Mode,         \* Mode[n]: how a neuron's spike is distributed
  Agents,       \* the registered nerve terminals
  Pinned,       \* Pinned[n]: the agents of a "pinned" effector
  MainPathway,  \* the pathway that is launched
  Workers,      \* bound: dispatch transactions open at the same time
  MaxSpikes,    \* bound: spikes ever created
  Ops,          \* the interventions of this instance
  OpTrains,     \* the trains they are aimed at
  MaxOps,       \* bound: interventions in one behaviour
  MaxChecks,    \* bound: dispatch requests a poll lets pile up
  None

SpikeIds == 1 .. MaxSpikes

(* Train 0 is the launched one.  Any other train is the child of exactly   *)
(* one DELEGATED spike (_spawn_subgraph), and has the number of that spike *)
(* (parent_spike).                                                         *)
TrainIds == 0 .. MaxSpikes

AxonTypes == {"FLOW", "SUCCESS", "FAILURE"}
Modes     == {"local", "fleet", "pinned", "first"}
Status    == {"CREATED", "PENDING", "RUNNING", "SUCCESS", "FAILED",
              "ABORTED", "DELEGATED", "STOPPING", "STOPPED"}
Alive     == {"CREATED", "PENDING", "RUNNING", "DELEGATED", "STOPPING"}
Terminal  == Status \ Alive

ASSUME ConstantsAssumption ==
  /\ MaxSpikes \in Nat /\ MaxOps \in Nat /\ MaxChecks \in Nat
  /\ None \notin SpikeIds /\ None \notin Status /\ None \notin Agents
  /\ None \notin Pathways
  /\ PathwayOf \in [Neurons -> Pathways]
  /\ Roots \subseteq Neurons
  /\ Axons \subseteq [source : Neurons, target : Neurons, type : AxonTypes]
  /\ Invokes \in [Neurons -> Pathways \cup {None}]
  /\ Mode \in [Neurons -> Modes]
  /\ Pinned \in [Neurons -> SUBSET Agents]
  /\ MainPathway \in Pathways
  /\ Ops \subseteq {"terminate", "stop", "poll", "crash", "vanish",
              "rerun", "race"}
  /\ OpTrains \subseteq TrainIds

(* Axon.Meta.unique_together, and the editor wires neurons of one pathway. *)
ASSUME AxonsAssumption ==
  /\ \A a, b \in Axons : a.source = b.source /\ a.target = b.target => a = b
  /\ \A a \in Axons : PathwayOf[a.source] = PathwayOf[a.target]

VARIABLES
  train,        \* train[t]: the status of a train, None before it exists
  spike,        \* spike[s]: the columns of a spike that never change, or None
  spikeStatus,  \* spikeStatus[s]: its status column
  task,         \* task[s]: the fire_spike task of the spike
  checks,       \* checks[t]: dispatch_next_wave calls on their way
  starting,     \* trains whose start() is on its way
  tx,           \* tx[w]: the dispatch transaction worker w has open, or None
  ops           \* interventions so far

vars == <<train, spike, spikeStatus, task, checks, starting, tx, ops>>

(* A row of the spike table: target None is a spike that runs locally.     *)
SpikeRow == [train : TrainIds, neuron : Neurons,
             provenance : SpikeIds \cup {None}, target : Agents \cup {None}]

(* "queued": in the broker; "running": execute() is under way; "written":  *)
(* the result is saved and the finally block is still to come; "lost" and  *)
(* "failed": the worker died, unnoticed or with a FAILURE result recorded. *)
Task == {"idle", "queued", "running", "written", "done", "lost", "failed"}

Tx == [train : TrainIds, kind : {"halt", "roots", "wave"},
       seen : Status, locked : SUBSET SpikeIds, picks : SUBSET SpikeIds]

ASSUME NoneAssumption == None \notin SpikeRow /\ None \notin Tx

-----------------------------------------------------------------------------
(* Reading the tables. *)

Exists(t) == train[t] # None
Born(s)   == spike[s] # None

(* mutant: only the spikes that are still active count. *)
AliveSpikesOf(t) ==
  {s \in SpikeIds : Born(s) /\ spike[s].train = t /\ spikeStatus[s] \in Alive}

SpikesOf(t) == {s \in SpikeIds : Born(s) /\ spike[s].train = t}
(* mutant: a failed spike is not followed. *)
Succeeded(t) == {s \in SpikesOf(t) : spikeStatus[s] = "SUCCESS"}

Finished(t) == {s \in SpikesOf(t) : spikeStatus[s] \in {"SUCCESS", "FAILED"}}
Children(s) == {c \in SpikeIds : Born(c) /\ spike[c].provenance = s}

(* mutant: every finished spike is followed at every dispatch. *)
AllFinished(t) == Finished(t)

(* The finished spikes a dispatch still has to follow the wires of.        *)
Unprocessed(t) == {s \in Finished(t) : Children(s) = {}}

(* mutant: the rows are read without FOR UPDATE. *)
NeverLocked(s) == FALSE

(* The rows a select_for_update of an open dispatch holds. *)
Locked(s) == \E w \in Workers : tx[w] # None /\ s \in tx[w].locked

PathwayRun(t) == IF t = 0 THEN MainPathway ELSE Invokes[spike[t].neuron]

-----------------------------------------------------------------------------
(* What a dispatch creates. *)

(* What becomes of the seed spike of a visit that is not cloned: it sleeps *)
(* on a child train, it runs locally, or no agent is there and it is over. *)
SeedStatus(n, online) ==
  {st \in {"DELEGATED", "PENDING", "SUCCESS"} :
     \/ st = "DELEGATED" /\ Invokes[n] # None
     \/ st = "PENDING" /\ Invokes[n] = None /\ Mode[n] = "local"
     \/ st = "SUCCESS" /\ Invokes[n] = None /\ Mode[n] \in {"fleet", "first"}
                      /\ online = {}}

(* The agents that get a clone of it; the seed itself is then deleted.     *)
CloneTargets(n, online) ==
  {a \in Agents :
     /\ Invokes[n] = None
     /\ \/ Mode[n] = "fleet" /\ a \in online
        \/ Mode[n] = "pinned" /\ a \in Pinned[n]
        \/ Mode[n] = "first" /\ online # {} /\ a = CHOOSE x \in online : TRUE}

(* _create_spike_from_node: the spikes one visit to neuron n leaves.       *)
Birth(n, from, agent, st) ==
  [neuron |-> n, provenance |-> from, target |-> agent, status |-> st]

Births(n, from, online) ==
  {Birth(n, from, None, st) : st \in SeedStatus(n, online)}
    \cup {Birth(n, from, a, "PENDING") : a \in CloneTargets(n, online)}

(* _dispatch_graph_roots *)
RootBirths(t, online) ==
  UNION {Births(n, None, online) :
           n \in {m \in Roots : PathwayOf[m] = PathwayRun(t)}}

(* The wires a finished spike fires, by type: FLOW whatever the result.    *)
Fires(type, st) ==
  \/ type = "FLOW"
  \/ type = "SUCCESS" /\ st = "SUCCESS"
  \/ type = "FAILURE" /\ st = "FAILED"

(* _process_graph_triggers: the axons spike s fires. *)
Triggered(s) ==
  {a \in Axons : a.source = spike[s].neuron /\ Fires(a.type, spikeStatus[s])}

(* mutant: the type of the wire is not asked. *)
WaveBirthsOfAnyType(picks, online) ==
  UNION {UNION {Births(a.target, s, online) :
                  a \in {x \in Axons : x.source = spike[s].neuron}} : s \in picks}

WaveBirths(picks, online) ==
  UNION {UNION {Births(a.target, s, online) : a \in Triggered(s)} : s \in picks}

NewBirths(d, online) ==
  IF d.kind = "roots" THEN RootBirths(d.train, online)
                      ELSE WaveBirths(d.picks, online)

(* _finalize_spawn_unsafe: the status it gives, from the status the        *)
(* dispatch saw when it began, and whether it gives one.                   *)
FinalStatus(d) == IF d.seen = "STOPPING" THEN "STOPPED" ELSE "SUCCESS"

(* mutant: a halted traversal is not finalized. *)
FinalizesWavesOnly(d, new) ==
  /\ d.kind = "wave"
  /\ \A s \in SpikesOf(d.train) : spikeStatus[s] \notin Alive
  /\ \A b \in new : b.status \notin Alive
  /\ d.seen # FinalStatus(d)

Finalizes(d, new) ==
  /\ d.kind # "roots"
  /\ \A s \in SpikesOf(d.train) : spikeStatus[s] \notin Alive
  /\ \A b \in new : b.status \notin Alive
  /\ d.seen # FinalStatus(d)

(* signals.on_spawn_update: saving a child train SUCCESS or FAILED gives   *)
(* its status to the parent spike and asks for a dispatch of its train.    *)
WakesParentOnFailure(t, st) == t # 0 /\ st = "FAILED"  \* mutant

WakesParent(t, st) == t # 0 /\ st \in {"SUCCESS", "FAILED"}

-----------------------------------------------------------------------------
(* CNS(pathway_id) has created the train; start() comes next. *)
Init ==
  /\ train = [t \in TrainIds |-> IF t = 0 THEN "CREATED" ELSE None]
  /\ spike = [s \in SpikeIds |-> None]
  /\ spikeStatus = [s \in SpikeIds |-> None]
  /\ task = [s \in SpikeIds |-> "idle"]
  /\ checks = [t \in TrainIds |-> 0]
  /\ starting = {0}
  /\ tx = [w \in Workers |-> None]
  /\ ops = 0

(* start(): only a CREATED train is started, under its row lock; the       *)
(* dispatch that follows is a transaction of its own.                      *)
StartTrain(t) ==
  /\ t \in starting
  /\ starting' = starting \ {t}
  /\ \/ /\ train[t] = "CREATED"
        /\ train' = [train EXCEPT ![t] = "RUNNING"]
        /\ checks' = [checks EXCEPT ![t] = @ + 1]
     \/ /\ train[t] # "CREATED"
        /\ UNCHANGED <<train, checks>>
  /\ UNCHANGED <<spike, spikeStatus, task, tx, ops>>

(* dispatch_next_wave, what it reads.  The finished spikes are read FOR    *)
(* UPDATE, so it waits while another dispatch holds one of them, and only  *)
(* then reads which of them have children.                                 *)
DispatchBegin(w, t) ==
  /\ tx[w] = None
  /\ checks[t] > 0
  /\ LET open(kind, locked, picks) ==
           tx' = [tx EXCEPT ![w] =
                    [train |-> t, kind |-> kind, seen |-> train[t],
                     locked |-> locked, picks |-> picks]]
     IN \/ /\ train[t] = "STOPPING"
           /\ open("halt", {}, {})
        \/ /\ train[t] # "STOPPING"
           /\ SpikesOf(t) = {}
           /\ open("roots", {}, {})
        \/ /\ train[t] # "STOPPING"
           /\ SpikesOf(t) # {}
           /\ \A s \in Finished(t) : ~Locked(s)
           /\ open("wave", Finished(t), Unprocessed(t))
  /\ checks' = [checks EXCEPT ![t] = @ - 1]
  /\ UNCHANGED <<train, spike, spikeStatus, task, starting, ops>>

(* The births get the lowest free numbers; which gets which is immaterial. *)
Fresh(ids) ==
  /\ \A s \in ids : ~Born(s)
  /\ \A s \in ids, r \in SpikeIds \ ids : Born(r) \/ s < r

Numbering(ids, new) == CHOOSE f \in Bijection(ids, new) : TRUE

(* What a dispatch d commits: the births under their numbers, the status   *)
(* of a train it finalizes and, for a child train, the parent spike; then  *)
(* the on_commit callbacks, which queue the tasks, start the child trains  *)
(* and ask for a dispatch of the parent train.                             *)
Commit(d, ids, born, final) ==
  LET wakes     == final /\ WakesParent(d.train, FinalStatus(d))
      delegated == {s \in ids : born[s].status = "DELEGATED"}
      pending   == {s \in ids : born[s].status = "PENDING"}
  IN /\ wakes => ~Locked(d.train)
     /\ spike' = [s \in SpikeIds |->
          IF s \in ids
          THEN [train |-> d.train, neuron |-> born[s].neuron,
                provenance |-> born[s].provenance, target |-> born[s].target]
          ELSE spike[s]]
     /\ spikeStatus' = [s \in SpikeIds |->
          IF s \in ids THEN born[s].status
          ELSE IF wakes /\ s = d.train THEN FinalStatus(d)
          ELSE spikeStatus[s]]
     /\ train' = [t \in TrainIds |->
          IF t \in delegated THEN "CREATED"
          ELSE IF final /\ t = d.train THEN FinalStatus(d)
          ELSE train[t]]
     /\ task' = [s \in SpikeIds |-> IF s \in pending THEN "queued" ELSE task[s]]
     /\ starting' = starting \cup delegated
     /\ checks' = [t \in TrainIds |->
          IF wakes /\ t = spike[d.train].train THEN checks[t] + 1 ELSE checks[t]]

(* dispatch_next_wave, the rest.  _finalize_spawn_unsafe looks at what is  *)
(* committed by now, and the dispatch at the train status it saw before.   *)
DispatchCommit(w) ==
  /\ tx[w] # None
  /\ \E online \in SUBSET Agents, ids \in SUBSET SpikeIds :
       LET new == NewBirths(tx[w], online)
       IN /\ Fresh(ids)
          /\ Bijection(ids, new) # {}
          /\ Commit(tx[w], ids, Numbering(ids, new), Finalizes(tx[w], new))
  /\ tx' = [tx EXCEPT ![w] = None]
  /\ UNCHANGED ops

-----------------------------------------------------------------------------
(* fire_spike.  What a NeuroMuscularJunction does between its first and    *)
(* its last status write is in module NeuroMuscularJunction.               *)

(* The first write is RUNNING, whatever the status has become since.       *)
FireStart(s) ==
  /\ task[s] = "queued"
  /\ ~Locked(s)
  /\ task' = [task EXCEPT ![s] = "running"]
  /\ spikeStatus' = [spikeStatus EXCEPT ![s] = "RUNNING"]
  /\ UNCHANGED <<train, spike, checks, starting, tx, ops>>

(* An aborted execution leaves the status alone, a pipeline that sees the  *)
(* stop writes STOPPED, and everything else writes SUCCESS or FAILED over  *)
(* whatever is there.                                                      *)
FinishWrite(s) ==
  /\ task[s] = "running"
  /\ ~Locked(s)
  /\ task' = [task EXCEPT ![s] = "written"]
  /\ \/ \E st \in {"SUCCESS", "FAILED"} :
          spikeStatus' = [spikeStatus EXCEPT ![s] = st]
     \/ /\ spikeStatus[s] = "STOPPING"
        /\ spikeStatus' = [spikeStatus EXCEPT ![s] = "STOPPED"]
     \/ /\ spikeStatus[s] = "ABORTED"
        /\ UNCHANGED spikeStatus
  /\ UNCHANGED <<train, spike, checks, starting, tx, ops>>

(* The status a junction is about to write is overwritten in memory by     *)
(* what its monitor has just read, and that is written instead.            *)
StaleWrite(s) ==
  /\ "race" \in Ops
  /\ task[s] = "running"
  /\ ~Locked(s)
  /\ spikeStatus[s] \in {"RUNNING", "STOPPING", "ABORTED"}
  /\ \E st \in {"RUNNING", spikeStatus[s]} :
       spikeStatus' = [spikeStatus EXCEPT ![s] = st]
  /\ \E tk \in {"running", "written"} : task' = [task EXCEPT ![s] = tk]
  /\ UNCHANGED <<train, spike, checks, starting, tx, ops>>

(* mutant: the next wave is left to somebody else. *)
FinishTaskSilently(s) ==
  /\ task[s] = "written"
  /\ task' = [task EXCEPT ![s] = "done"]
  /\ UNCHANGED <<train, spike, spikeStatus, checks, starting, tx, ops>>

(* The finally block: check_next_wave.delay(spike_train_id). *)
FinishTask(s) ==
  /\ task[s] = "written"
  /\ task' = [task EXCEPT ![s] = "done"]
  /\ checks' = [checks EXCEPT ![spike[s].train] = @ + 1]
  /\ UNCHANGED <<train, spike, spikeStatus, starting, tx, ops>>

-----------------------------------------------------------------------------
(* Interventions. *)

Intervene(op) == op \in Ops /\ ops < MaxOps /\ ops' = ops + 1

NoGhost(s) == FALSE \* mutant

(* The task of a spike died and its result says so (FAILURE, REVOKED).     *)
Ghost(s) == spikeStatus[s] = "RUNNING" /\ task[s] = "failed"

Heads(t) == {s \in SpikesOf(t) : spikeStatus[s] \in {"RUNNING", "PENDING"}}

(* terminate().  celery_task_id is set by the task itself once it runs, so *)
(* the revoke calls reach no queued task and (terminate=False) stop no     *)
(* running one.                                                            *)
Terminate(t) ==
  /\ Intervene("terminate")
  /\ t \in OpTrains /\ Exists(t)
  /\ train[t] \notin {"SUCCESS", "FAILED"}
  /\ WakesParent(t, "FAILED") => ~Locked(t)
  /\ train' = [train EXCEPT ![t] = "FAILED"]
  /\ spikeStatus' = [s \in SpikeIds |->
       IF s \in Heads(t) THEN "ABORTED"
       ELSE IF WakesParent(t, "FAILED") /\ s = t THEN "FAILED"
       ELSE spikeStatus[s]]
  /\ checks' = IF WakesParent(t, "FAILED")
               THEN [checks EXCEPT ![spike[t].train] = @ + 1] ELSE checks
  /\ UNCHANGED <<spike, task, starting, tx>>

(* stop_gracefully(): the train's own status is not asked. *)
StopGracefully(t) ==
  /\ Intervene("stop")
  /\ t \in OpTrains /\ Exists(t)
  /\ Heads(t) # {}
  /\ train' = [train EXCEPT ![t] = "STOPPING"]
  /\ spikeStatus' = [s \in SpikeIds |->
       IF s \in Heads(t) THEN "STOPPING" ELSE spikeStatus[s]]
  /\ UNCHANGED <<spike, task, checks, starting, tx>>

(* lobe_garbage_collection() and poll(): a CREATED or RUNNING train none   *)
(* of whose spikes has a task at work.  A RUNNING spike whose task is      *)
(* recorded as failed fails, and so do the PENDING ones that are too old.  *)
Poll(stale) ==
  /\ "poll" \in Ops
  /\ train[0] \in {"CREATED", "RUNNING"}
  /\ checks[0] < MaxChecks
  /\ \A s \in Heads(0) : task[s] \notin {"running", "written"}
  /\ spikeStatus' = [s \in SpikeIds |->
       IF s \in Heads(0) /\ (s \in stale \/ Ghost(s)) THEN "FAILED"
       ELSE spikeStatus[s]]
  /\ checks' = [checks EXCEPT ![0] = @ + 1]
  /\ UNCHANGED <<train, spike, task, starting, tx, ops>>

Pending(t) == {s \in SpikesOf(t) : spikeStatus[s] = "PENDING"}

(* There is no clock: any of the PENDING spikes may be five minutes old.   *)
PollSome == \E stale \in SUBSET Pending(0) : Poll(stale)

(* frontal_lobe.api rerun: a spike whose task has ended is queued again.   *)
Rerun(s) ==
  /\ Intervene("rerun")
  /\ task[s] \in {"done", "lost", "failed"}
  /\ ~Locked(s)
  /\ spikeStatus' = [spikeStatus EXCEPT ![s] = "PENDING"]
  /\ task' = [task EXCEPT ![s] = "queued"]
  /\ UNCHANGED <<train, spike, checks, starting, tx>>

(* The process of a fire_spike task dies: its parent records FAILURE.      *)
CrashTask(s) ==
  /\ Intervene("crash")
  /\ task[s] \in {"queued", "running", "written"}
  /\ task' = [task EXCEPT ![s] = "failed"]
  /\ UNCHANGED <<train, spike, spikeStatus, checks, starting, tx>>

(* The machine goes with it: the result stays at STARTED.                  *)
LoseWorker(s) ==
  /\ Intervene("vanish")
  /\ task[s] \in {"queued", "running", "written"}
  /\ task' = [task EXCEPT ![s] = "lost"]
  /\ UNCHANGED <<train, spike, spikeStatus, checks, starting, tx>>

(* It dies inside a dispatch: the transaction is rolled back. *)
CrashDispatch(w) ==
  /\ Intervene("crash")
  /\ tx[w] # None
  /\ tx' = [tx EXCEPT ![w] = None]
  /\ UNCHANGED <<train, spike, spikeStatus, task, checks, starting>>

(* Or between the commit and the start_child callback. *)
CrashStart(t) ==
  /\ Intervene("crash")
  /\ t \in starting
  /\ starting' = starting \ {t}
  /\ UNCHANGED <<train, spike, spikeStatus, task, checks, tx>>

-----------------------------------------------------------------------------
Engine ==
  \/ \E t \in TrainIds : StartTrain(t)
  \/ \E w \in Workers, t \in TrainIds : DispatchBegin(w, t)
  \/ \E w \in Workers : DispatchCommit(w)
  \/ \E s \in SpikeIds : FireStart(s)
  \/ \E s \in SpikeIds : FinishWrite(s)
  \/ \E s \in SpikeIds : FinishTask(s)

Intervention ==
  \/ \E t \in TrainIds : Terminate(t)
  \/ \E t \in TrainIds : StopGracefully(t)
  \/ PollSome
  \/ \E s \in SpikeIds : StaleWrite(s)
  \/ \E s \in SpikeIds : Rerun(s)
  \/ \E s \in SpikeIds : CrashTask(s)
  \/ \E s \in SpikeIds : LoseWorker(s)
  \/ \E w \in Workers : CrashDispatch(w)
  \/ \E t \in TrainIds : CrashStart(t)

(* Nothing is queued and nobody is at work. *)
Idle ==
  /\ starting = {}
  /\ \A t \in TrainIds : checks[t] = 0
  /\ \A w \in Workers : tx[w] = None
  /\ \A s \in SpikeIds : task[s] \notin {"queued", "running", "written"}
  /\ UNCHANGED vars

Next == Engine \/ Intervention \/ Idle

Spec == Init /\ [][Next]_vars

(* Celery keeps taking tasks and a task, once taken, ends: the step limits *)
(* of the effectors themselves are not modelled.  The beat keeps polling,  *)
(* and what stays PENDING grows old.                                       *)
EngineFairness ==
  /\ \A t \in TrainIds : WF_vars(StartTrain(t))
  /\ \A t \in TrainIds : WF_vars(\E w \in Workers : DispatchBegin(w, t))
  /\ \A w \in Workers : WF_vars(DispatchCommit(w))
  /\ \A s \in SpikeIds :
       WF_vars(FireStart(s)) /\ WF_vars(FinishWrite(s)) /\ WF_vars(FinishTask(s))

FairSpec == Spec /\ EngineFairness

PolledSpec == FairSpec /\ SF_vars(Poll(Pending(0)))

-----------------------------------------------------------------------------
(* Properties. *)

(* Every row holds values of its type, and a spike has a status exactly    *)
(* when it exists.                                                         *)
TypeOK ==
  /\ train \in [TrainIds -> Status \cup {None}]
  /\ spike \in [SpikeIds -> SpikeRow \cup {None}]
  /\ spikeStatus \in [SpikeIds -> Status \cup {None}]
  /\ task \in [SpikeIds -> Task]
  /\ checks \in [TrainIds -> Nat]
  /\ starting \subseteq TrainIds
  /\ tx \in [Workers -> Tx \cup {None}]
  /\ ops \in 0 .. MaxOps
  /\ \A s \in SpikeIds : Born(s) <=> spikeStatus[s] # None

(* What refers to a row finds it: a spike its train, a child train its     *)
(* parent spike, a task its spike, a requested or open dispatch its train. *)
ReferencesHold ==
  /\ \A s \in SpikeIds : Born(s) => Exists(spike[s].train)
  /\ \A t \in SpikeIds : Exists(t) => Born(t)
  /\ \A s \in SpikeIds : task[s] # "idle" => Born(s)
  /\ \A t \in TrainIds : checks[t] > 0 => Exists(t)
  /\ \A w \in Workers : tx[w] # None => Exists(tx[w].train)

(* Two open dispatches never hold the same spike, and nobody gives a child *)
(* to a spike an open dispatch has picked: what it read before it decided  *)
(* is still so when it commits.                                            *)
DispatchesApart ==
  /\ \A w \in Workers : tx[w] # None =>
       /\ tx[w].picks \subseteq tx[w].locked
       /\ \A s \in tx[w].picks : Born(s) /\ Children(s) = {}
  /\ \A w1, w2 \in Workers :
       w1 # w2 /\ tx[w1] # None /\ tx[w2] # None
         => tx[w1].locked \cap tx[w2].locked = {}

(* A finished spike's wire is followed once: whatever dispatches overlap,  *)
(* whatever is stopped, terminated, polled, crashed or run again, no two   *)
(* spikes have the same provenance, neuron and target.                     *)
FollowedOnce ==
  \A s1, s2 \in SpikeIds :
    Born(s1) /\ Born(s2) /\ s1 # s2 /\ spike[s1].provenance # None
      => spike[s1] # spike[s2]

(* A train visits each Begin Play neuron once.                             *)
RootsOnce ==
  \A s1, s2 \in SpikeIds :
    Born(s1) /\ Born(s2) /\ s1 # s2 /\ spike[s1].provenance = None
      => spike[s1] # spike[s2]

(* Unless somebody intervenes, the spikes downstream of a spike are those  *)
(* its status calls for: no SUCCESS branch hangs below a spike that reads  *)
(* FAILED, nor the reverse.                                                *)
WiresMatchStatus ==
  \A s \in SpikeIds :
    ops = 0 /\ Born(s) /\ spike[s].provenance # None =>
      LET p == spike[s].provenance
      IN /\ spike[p].train = spike[s].train
         /\ \E a \in Triggered(p) : a.target = spike[s].neuron

(* A finished spike with wires to follow is never forgotten: its task has  *)
(* not come to the finally block yet, or a dispatch of its train is on its *)
(* way, or an open dispatch has picked it.  A stop ends the traversal.     *)
NoLostWakeUp ==
  \A s \in SpikeIds :
    /\ Born(s)
    /\ spikeStatus[s] \in {"SUCCESS", "FAILED"}
    /\ Triggered(s) # {}
    /\ Children(s) = {}
    /\ train[spike[s].train] \notin {"STOPPING", "STOPPED"}
    => \/ task[s] = "written"
       \/ checks[spike[s].train] > 0
       \/ \E w \in Workers : tx[w] # None /\ s \in tx[w].picks

(* A container spike sleeps exactly as long as its child train lives.      *)
DelegationInStep ==
  \A s \in SpikeIds :
    Born(s) => (spikeStatus[s] = "DELEGATED" <=> train[s] \in Alive)

(* A launched train nobody intervenes in comes to rest: every train a      *)
(* SUCCESS, no spike alive, every wire that had to be followed followed.   *)
AtRest ==
  /\ \A t \in TrainIds : Exists(t) => train[t] = "SUCCESS"
  /\ \A s \in SpikeIds : Born(s) =>
       /\ spikeStatus[s] \in Terminal
       /\ Triggered(s) = {} \/ Children(s) # {}

TraversalCompletes == [](ops = 0) => <>[]AtRest

(* A stop that signalled a spike ends the train: it does not wait forever. *)
StopSettles == train[0] = "STOPPING" ~> train[0] \in Terminal

(* Whatever tasks and dispatches die, polling ends the train, so that the  *)
(* next metronome of its environment can be spawned.                       *)
PollFreesTrain == <>(train[0] \in Terminal)
=============================================================================
