# Are-Self, specified in TLA+

Are-Self runs swarms of language-model agents.  Everything it does is a *spike*:
one visit of a node (*neuron*) of a workflow graph (*pathway*), executed by a
Celery task.  This directory holds TLA+ models of the parts of it whose
correctness depends on order and failure, the TLC runs that check them on small
instances, and TLAPS proofs of what matters most.

## 1. Inventory

| Part | State | Operations | Hard behaviour | Module |
|---|---|---|---|---|
| **Central nervous system**: `central_nervous_system.py`, `tasks.py`, `signals.py` | tables `SpikeTrain`, `Spike`, Celery's queue | `start`, `dispatch_next_wave`, finalize, `_spawn_subgraph`, `terminate`, `stop_gracefully`, `poll`, `fire_spike`, `on_spawn_update` | nobody owns a train: every task that ends dispatches; row locks; callbacks on commit; nested trains; workers that die | `CentralNervousSystem` |
| **Neuromuscular junction**: `effectors/effector_casters/neuromuscular_junction.py` | one `Spike` object shared by two coroutines, its row, the logs | `execute`, `_monitor_abort_signal`, the native and the process route | one database thread; refresh and save race; cancellation | `NeuroMuscularJunction` |
| **Pathway logic node**: `pathway_logic_node.py` | the axoplasm | retry, gate, wait | off by one; counts carried into child trains; stale copies | `PathwayLogicNode` |
| **Frontal lobe**: `frontal_lobe.py`, `synapse_client.py`, `digest_builder.py` | `ReasoningSession`, `ReasoningTurn`, digests | `run`, `_execute_turn`, failover | stale session object, two loops of one session, budgets | `ReasoningSession`, `ParietalLobe`, `Hypothalamus` |
| **Thalamus**: `thalamus.py`, `api.py`, `signals.py` | the session's message queue | `inject_swarm_chatter`, standing train, `clear`, broadcasts | a reply races with the end of a turn | `ReasoningSession` |
| **Parietal lobe**: `parietal_lobe.py`, `parietal_mcp/` | `ToolCall` | `process_tool_calls`, `handle_tool_execution`, the tools | a tool that ran and is recorded as failed | `ParietalLobe` |
| **Identity addons**: `identity/addons/` | nothing of their own; they write focus and experience | what goes into the prompt, vetoes, charges | evicting and warning by age; pairs of calls and results | `ParietalLobe`, `TemporalLobe` |
| **Temporal lobe**: `temporal_lobe.py`, `api.py`, `inception.py` | `Iteration`, `IterationShift`, participants | metronomes, `tick`, `_advance_shift`, ghost cleanup, inception | check-then-create by concurrent beats; stale shift; ghosts | `TemporalLobe` |
| **Prefrontal cortex**: `prefrontal_cortex.py`, ticket tools | tickets and their `owning_disc` | `_assign_work`, `_garbage_collect_locks` | look-up, then lock; stale full saves | `TemporalLobe` |
| **Hippocampus**: `hippocampus.py` | `Engram` | save, update, read, search | a text and its vector are written apart; text read, written later | `Hippocampus` |
| **Hypothalamus**: `hypothalamus.py`, `models.py`, `api.py` | providers, circuit breakers, catalog | `pick_optimal_model`, breaker, `sync_catalog`, pull and remove | stale counters; three sources; a lock that is a row | `Hypothalamus` |
| **Nerve terminal**: `nerve_terminal.py` | a process, its output and log file | pipeline, drain, agent service | order of exit, output and log; stop, kill, lost clients | `NerveTerminal` |
| **Peripheral nervous system**: `peripheral_nervous_system.py`, `api.py` | the registry of terminals | `scan_and_register`, listing | two processes scan; broadcasts before commit; refetch storms | `PeripheralNervousSystem` |
| **Autonomic nervous system**: `autonomic_nervous_system.py` | a file with a process id | start and stop of the Beat, restart, shutdown | process ids that are used again; half-done requests | `AutonomicNervousSystem` |
| **Neuroplasticity**: `loader.py`, `api.py`, `boot.py` | genomes: archives, trees, rows | install, upgrade, uninstall, save, save-as, boot | rows roll back, files do not; crashes at any step; `save()` that changes other rows | `Neuroplasticity` |
| Others | environments, occipital lobe, MCP server, API views, name parser | parsing, request handling | little state of their own | |

How they interact.  The API, the beat (through the temporal lobe) or an MCP tool
starts a train.  `dispatch_next_wave` creates spikes and, when it has committed,
queues one `fire_spike` task for each.  The task runs a neuromuscular junction,
which runs a native handler (a reasoning loop is one, the temporal lobe's tick and
the logic node are others) or a process on a nerve terminal, writes the outcome to the spike's
row, and asks for the next dispatch.  A spike whose neuron invokes another
pathway sleeps as DELEGATED until its child train's signal writes its status.  A tick sends
a worker out with a ticket: a reasoning session, whose turns ask the hypothalamus for a
model, build a prompt with the addons and play the tools of the parietal lobe.  Users
intervene through the tables: `terminate` and `stop_gracefully` write statuses,
which a junction's monitor polls for.

What makes each part correct:

* *job manager*: each wire of a finished spike is followed exactly once however
  dispatches overlap; no finished spike is forgotten; a container spike sleeps
  exactly as long as its child train lives; a stop ends; what dies is found.
* *junction*: whatever the two coroutines and the thread do, the status column goes
  through what the job manager counts on; a process told to stop is stopped.
* *logic node*: a loop goes round as often as its limit says, however it is disturbed.
* *reasoning session*: no message lost; budgets kept; every loop ends.
* *turns*: the model is given a conversation that providers accept and is warned before it
  forgets; what a tool did is on record; the screen shows it.
* *temporal lobe, prefrontal cortex*: a worker sees the ticket it was sent out for; iterations
  succeed each other one by one and keep coming.
* *hippocampus*: the vector of a card, by which new facts are rejected, is of the text in it; nothing told
  is lost.  *Hypothalamus*: a model that has just failed is not asked again; the catalog mirrors its sources.
* *nerve terminal*: output complete and in order; stops and lost clients end the process.
* *peripheral, autonomic*: the registry is the network, pages are the registry and come to rest;
  the Beat that runs is the one in the file.
* *neuroplasticity*: trees and rows agree after failures; a boot finds the tree a crash has torn; no archive of an
  installed genome is lost; an operation touches nobody else's rows.

## 2. How the project is built

One module per component, parameterised by CONSTANTS; an `MC...` module with the small instances
and one cfg per run.

* `CentralNervousSystem` is the base.  `NeuroMuscularJunction` refines it (one execution),
  `PathwayLogicNode` extends it (the axoplasm), `CentralNervousSystemProofs` proves about both.
* `Conversation` is the abstract specification of a session, `ReasoningSession` the detailed one:
  requests and loops of one session at the same time.  `ParietalLobe` extends `Hippocampus` and looks
  into the turns, one loop per session at a time, two sessions over one memory.
* `TemporalLobe` holds the temporal lobe, the prefrontal cortex and the ticket tools: they share
  the board and the participants.
* `Hypothalamus`, `NerveTerminal` and `Neuroplasticity` stand alone.
* `PeripheralNervousSystem` extends `AutonomicNervousSystem`: a shutdown or restart takes scans and
  requests with it.

Each `...Proofs` module extends its component's module and holds the theorems about it (section 6).
`NeuroMuscularJunctionProofs` and `ReasoningSessionProofs` prove the two refinements;
`PeripheralNervousSystemProofs` is also about `NerveTerminal`, the agent on the machines it registers.

## 3. The modules

### CentralNervousSystem

| Specification | Code |
|---|---|
| `train[t]`, `spike[s]`, `spikeStatus[s]` | rows of `SpikeTrain` and `Spike`; a child train has the number of its parent spike (`parent_spike`) |
| `task[s]` | the `fire_spike` task: queued, running, result written, finally block done, dead |
| `checks[t]` | `check_next_wave` messages and direct `dispatch_next_wave` calls under way |
| `starting` | the `start()` calls of `on_commit` callbacks and of the API |
| `tx[w]` | an open dispatch: what it has read and the rows it has locked |
| `DispatchBegin`, `DispatchCommit` | `dispatch_next_wave` up to its reads, and the rest with `_finalize_spawn_unsafe`, `_spawn_subgraph`, the signal and the callbacks |
| `FireStart`, `FinishWrite`, `FinishTask`, `StaleWrite` | a task as the tables see it; detail in `NeuroMuscularJunction` |
| `Terminate`, `StopGracefully`, `Poll`, `Rerun` | the interventions of users and of the garbage collector |
| `CrashTask`, `LoseWorker`, `CrashDispatch`, `CrashStart` | a process or a machine that dies |

PostgreSQL is used at READ COMMITTED and there is no transaction per request, so a
dispatch is two steps: it decides in the second one on what it read in the first
(train status, finished spikes, which of them have children), except for the
look at active spikes in `_finalize_spawn_unsafe`, which reads what is committed by
then.  `select_for_update` on the finished spikes is the only lock: a second dispatch
waits while one of them is held, and the query that asks for children runs after the
locks.  A dispatch that finds no spike at all (the roots) locks nothing.  A row that a
dispatch has locked is not written by a task or a signal until it commits.
Celery acknowledges early, so a task runs at most once.  The revoke calls of `terminate`
are no step: `celery_task_id` is set by the task itself when it runs, and a running
task is not killed by a revoke without `terminate=True`.  Which agents are online is
open at every dispatch.

Not in it: the axoplasm (`PathwayLogicNode`), `view()` and broadcasts (no state), the hash check of
`celery_task_id`, effectors pinned to an empty list of agents, and pathways without a Begin
Play neuron (both in the list of hazards).  `Rerun` is only taken when no execution of
the spike is under way.

### NeuroMuscularJunction

The execution of one spike: `at` is where the executing coroutine stands,
`monitor` where the monitor does; `memory` is the status in the `Spike` object they
share and `status` the column.  `thread` is the queue of the single thread in which
`sync_to_async` runs every database call and every synchronous handler; a
`save` writes what `memory` holds when its turn comes, a refresh reads the row and
then assigns.  Log writes are refreshes here, for they look for an abort; several in a row
are one.  `kind` is what the effector is: a `sync` or `async` native handler, or a
`pipeline` run by a nerve terminal.  `FatalError` stands for every way `_executable_router`
raises before the effector starts.

`ImplementsCNS` is the refinement: `CNS` is an INSTANCE of `CentralNervousSystem` with one
spike and no wires, `spikeStatus` is the column and `task` is `TaskOf`, and every step must be
one of the job manager's steps or a stutter.  The job manager's model thus rests on what the
junction does, the `StaleWrite` it admits included.

### ReasoningSession and Conversation

The standing conversation: the requests of its users, and the loops of the frontal lobe
that the tasks of its spikes run.

| Specification | Code |
|---|---|
| `session[s]`, `turns[t]` | rows of `ReasoningSession` and `ReasoningTurn` by creation; `heard` is a history of what the prompts contained |
| `loop[l]` | a `fire_spike` task and its `FrontalLobe` object: where it stands, its session, its copy of the queue, its turn |
| `reply[m]` | the request that delivers message `m`, and the session object it holds |
| `halted` | spikes with status STOPPING |
| `Start` to `WriteOutcome` | `FrontalLobe.run`, in its order, from RUNNING to the outcome, which the junction writes |
| `Done`, `AskUser` / `Yield` | `mcp_done`; `mcp_ask_user` and `mcp_respond_to_user`, which look and then write |
| `Interact`, `Genesis`, `SeedTurn`, `Resume`, `Inject`, `FireSpike` | `interact`, `resume` and `inject_swarm_chatter` |
| `Clear`, `Pause`, `Stop`, `Rerun`, `Crash` | the endpoints that intervene; a worker that dies or a coroutine that is cancelled |

Each database call is a step, as loops and requests live in different processes.  Three
places take fewer steps than the code: the two status reads after a tool turn are one (either of
them ends the loop, and `EndRun` reads again), the turn query and the count that follows it
are one, and `clear` writes without the look that precedes it, because every session was standing
and awake when it was created and a request may take its time.  A turn that gets no
answer from eight models is recorded like an answer without tool calls, as in the code.  What
the loop sends to a model, its tools and the digest of a turn are in `ParietalLobe`, the sessions of shift workers in
`TemporalLobe`.

`Conversation` is what a session owes its users: messages are taken once and in order, are given up only
when the session closes, and nothing reopens.  The refinement maps `waiting` to the queue of
a session that is awake and `heard` to the history.  It holds as long as users write,
clear and rerun at rest; the history variable `disturbed` says when that has ended.

### PathwayLogicNode

Every action of the job manager, with the axoplasm added: a key for the loop count and one
that gates look at.

| Specification | Code |
|---|---|
| `axoplasm[s]` | `Spike.axoplasm`; `Inherited` at birth, with what the context of a container gives its child train |
| `object[s]` | the axoplasm in the `Spike` object of the execution, read by `Look`, saved whole by `Decide` and by a process's `::axoplasm_set` lines |
| `Decide` | `pathway_logic_node`: retry, gate or wait; the count is saved before the status |
| `Finish...` | the outcome that follows from the verdict |
| `UpdateRead`, `UpdateWrite` | an agent's `mcp_update_axoplasm`: it reads the whole axoplasm and writes it back |

`recounted` is a history variable: the spikes whose count an agent has set back by writing an
older copy.  Not in it: other keys, the layers of a `NeuronContext` (the key that is absent
there falls back to the axoplasm in the code, which matters for `max_retries` only if
somebody names a key so), an agent that writes `loop_count` itself, and the length of a wait.

### ParietalLobe and Hippocampus

| Specification | Code |
|---|---|
| `row`, `mem` | the `ReasoningSession` row and the object of the run: focus, xp, queue, status |
| `run`, `turns` | where `FrontalLobe.run` stands; `ReasoningTurn` with its request, answer, `ToolCall`s and digest |
| `BuildPrompt` and its parts | `_build_turn_payload` and every addon: river of six with eviction and warnings, focus, deadlines, telemetry, prompts; the legacy slugs too |
| `BuildAssistant`, tool steps | the messages a turn leaves; `process_tool_calls`, pre-handlers and their vetoes, the gateway, `on_tool_post`, the ledger |
| `screen` | a page that follows the session: digests that are pushed, the catch-up by `graph_data`, a lost connection |
| `engram`, `op` | the table, and the save, update or read each session is in, statement by statement; an embedding is a wait during which others go on |

A tool is what its use type and its effect make it; tools that touch files, repositories or the
web return or fail, by choice.  `Settings` are the instances: which addons, what
the model may answer, which faults.

### TemporalLobe

| Specification | Code |
|---|---|
| `iter`, `worker`, `sess` | `Iteration` and its shifts, participants and their statuses, sessions of participants |
| `TriggerLooks`, `TriggerCreates` | `trigger_temporal_metronomes` and the operator's button: look for a running train, then create one |
| `GetIteration` to `AdvanceShift` | `tick` and `run_temporal_lobe` in order: iteration, ghosts, capacity, lock a worker, prefrontal cortex, session, stand down or complete, advance |
| `CollectLocks`, `AssignWork`, `LockTicket` | `_garbage_collect_locks`, `_assign_work` by shift and kind, the ticket's `owning_disc` |
| `UseTicket` | the ticket tools of a session, in the shifts in which the agile addon tells it to; a child's status bubbles to its parent |
| `Edit`, `OpenTicket`, `SaveTicket` | the operators: initiate, incept, slot and remove discs of iterations and blueprints, and the full save of a ticket form that was opened earlier |
| `Crash`, `Reap` | a tick or its machine dies; the garbage collector frees the train |

One environment.  `trampled` holds the tickets over which somebody has written an older copy: both the
form of an operator and the full-row saves of the cortex do that.  Comments, tags and
estimates decide nothing and are left out; `graph_data` and `shift_details` only read.

### Hypothalamus

| Specification | Code |
|---|---|
| `counter`, `cooling`, `scars` | `rate_limit_counter`, `rate_limit_reset_time` in the future, a function-calling capability taken away |
| `turn[s]` | the loop over `MaxFailovers` attempts of `_execute_turn`: pick, call, trip or reset, with the provider object it read |
| `Candidates`, `Preferred`, `ByStrategy` | `pick_optimal_model`: filter, preferred model, the failover strategies and their order |
| `Excluded` | the one `exclude()` of `_build_candidate_queryset` (`hypothalamus.py:112-128`): with banned providers it takes the rows that are scarred *and* banned, without them the scarred ones |
| `SyncCheck` to `SyncEnd` | `sync_catalog` in its steps, from the look for a running sync to the log row that ends it |
| `SyncHeal`, `SyncRoute` | the models of OpenRouter that are built anew lose their scars before the transaction that prices them (`hypothalamus.py:946-948`), which may roll back |
| `SyncSkipsLocal` | `_sync_local_ollama` without a `base_url` (`hypothalamus.py:1143-1147`), by `address` |
| `Created`, `Reported` | the resolvers of names, with leave to create and without; parents of families are never reported (lines 750-759) |
| `Edits` | pull, remove, switch on and off, reset |

Prices are equal or not, distances of vectors are a rank, and a taxonomy is a set of
names: the parser that finds them in the name of a model is a constant.  `cleared` is a history: whom
a success, an operator or a sync that builds a model anew has healed since the failure.  `FailedIsBenched` says that
the attempt after a failure asks somebody else, unless the one that failed has been cleared, or has lost its tools
only and the filter bans providers (`Unheeded`): then the code offers it again (section 5).  `Picked` is what a turn
holds after its pick, the cached object of the preferred model included.  `FetchCatalog` and `SyncLocal` are the
smaller endpoints.

### NerveTerminal

One `execute_remote`, from the caller's generator through the connection and `_handle_execute`
to the pipeline and the process.  A step is what a task does between two awaits:
`piper` reads the pipe, `watcher` and `tail` are `AsyncLogMonitor` and its queue, `stopper` waits for the
stop event, `main` waits for the process and drains.  `Break`, `SendStop`, `Update`,
`StartFails` and all the process does (`PrintLine`, `WriteLog`, `ProcessExits`, being deaf to signals) are the environment.
So are a line longer than the limit of the stream, whose ValueError ends `piper` and not the process (`LineTooLong`), and
a log file that goes between `exists()` and `getmtime()` (`nerve_terminal.py:414`; `Vanishes`): `stop()` then
meets the exception and the pipeline ends without cleaning up (`StopMonitorFails`).
Left out: launching and killing by image name on Windows, the download of an update, execution without
a connection.

### PeripheralNervousSystem and AutonomicNervousSystem

`AutonomicNervousSystem` is the Beat, the worker and the web server as
`autonomic_nervous_system.py` starts and ends them: `pidfile`, what runs under each process
id, and the requests, each a sequence of system calls that dies with the web server.  Processes die, process
ids are used again (by a process that is nobody's: a "foreign" one), a zombie keeps its id until it is
waited for.  The file is cleared also when the signal could not be sent (`stop_failed`, lines 221-228), and it may not be
written after the Beat was launched (lines 189-198): `WritePid` then leaves a Beat that nobody knows of.

`PeripheralNervousSystem` adds `scan_and_register` in each of the two processes that can run it (probes,
then one agent after another: `Register` looks for the row, updates it or leaves it, and `Create` makes one that was not
there; when the other process has made it since, the IntegrityError ends the scan; `_mark_unreachable_offline` in its
transaction, with broadcasts before it commits), `registry`, and pages that list the registry, which starts a
scan, on every broadcast.  `Misfits` are agents whose UUID does not parse.

### Neuroplasticity

| Specification | Code |
|---|---|
| `zips`, `grafts`, `mods`, `rows` | the archives, the trees, the `NeuralModifier` rows and the rows genomes own; `refs` of a row are its hard keys, `loose` its SET_NULL keys and links |
| `op` | the request being served and its next step; `Serve` are the requests that come, `Proceed` the next step of the one in hand, which may fail; `Restart` ends the process at any step |
| `Install...`, `Upgrade...`, `Save...`, `Uninstall`, `CreateEmpty` | `loader.py` in its order: files staged and moved, one transaction for rows, its undo branch |
| `Users` | rows created, given other keys (`Reparent`, `Relink`) and moved between genomes (`MoveRow`, `MoveMedia`), the genome selected for edit, files of trees edited, archives put into `genomes/` by hand (`PlaceArchive`) |
| `Moved`, `Parts` | the fan-out of `save()`: a pathway takes its neurons, axons and contexts along, an effector and an executable what belongs to them, whoever owned it (`central_nervous_system/models.py:194-207, 325-339`, `environments/models.py:85-100`); an avatar its file (`identity/models.py:182-220`) |
| `Doomed`, `Without` | what Django's collector deletes along hard keys; a row with a loose key to it survives with the key cleared |
| `Torn` | what a process that dies in the middle of a copy, a removal or a merge leaves of a tree: nothing, or any part of manifest, code and media |
| `BootGraft`, `BootSweep`, `BootLoad`, `BootMutex` | `boot.py` and what of the loader runs at boot: graft the Incubator, sweep trees, compare and mark BROKEN, import, one genome selected for edit |

A manifest stands for its hash.  One request at a time, as the API is used by one operator; what two
installs of one slug do to each other is in section 5.  A bundle gives every key its fields or None, what a
manifest requires is a set of slugs and versions, and names and media are told apart by where they come
from.  `Own` is `GenomeMixin`'s ownership.  `Guards` are rows whose hard keys are PROTECT.  No table of this
commit that genomes own has a PROTECT key to another one; the loader provides for them (`_owned_delete_order`), and
the instance has one such key so that the order is needed.  A restart may come at any time, which covers the one
that a PATCH of a genome asks for, and tears at most one tree.  Users delete no single rows.  Validation of a manifest's
fields, previews and the graph walker change no state and are left out.

### MC modules

`MCReasoningSession` and `MCNerveTerminal` add nothing to the constants of their cfg.
`MCCentralNervousSystem` names the graphs, their drawing at its head,
`MCPathwayLogicNode` the graph with two loops, and the others the discs, boards, providers,
genomes, tools and answers of their instances.

## 4. Runs

| Run | Instance | Checks |
|---|---|---|
| `CNS_Delegation` | `Nested`: a failing branch and a container whose child has two neurons; 6 spikes (all the graph can create), two dispatches at a time, up to two `terminate` calls on any train | `RootsOnce`, `WiresMatchStatus`, `NoLostWakeUp`, `DelegationInStep`, and `TraversalCompletes` for behaviours without intervention |
| `CNS_Interventions` | `Box` with fleet, pinned and first-agent neurons and two agents; 5 spikes, two dispatches at a time, one intervention of every kind on any train or spike, and racing status writes without bound | `DispatchesApart`, `FollowedOnce` |
| `CNS_Settles` | `Fork`, an agent that comes and goes, a stop or a crash, and polls for ever | `StopSettles`, `PollFreesTrain` |
| `Retries` | a loop through a retry node (two rounds) whose body delegates to a child train with a loop of its own (one round), a gate behind it; 10 spikes, two interventions or updates by agents | `RetriesCounted` |
| `NMJ_Execution` | all three kinds of effectors, two interventions | `ImplementsCNS`, `SignalEndsRun` |
| `Session_Talk` | two messages, two loops, two turns, one intervention of any kind | `TurnBudget`, `NothingLeftBehind`, `KeepsConversation`, `LoopsEnd` |
| `Turns` | six turns of one session with a human message and one fault of any kind; two sessions that write to one memory, with an Ollama that answers or not at each request | `CallsAnswered`, `EvictionAnnounced`, `EffectsOnRecord`, `ScreenCurrent`, `VectorOfText`, `ToldIsKept` |
| `Routing` | three providers, two of them in stock at first, two sessions, two syncs, three attempts per turn, filters of three kinds (one bans a vendor), an Ollama with and without an address | `FailedIsBenched`, `SyncMirrors` |
| `Iterations` | a PM and a developer, planning and executing blueprints, an epic with a story and a task, one train at a time | `WorksOnItsTicket`, `Succession`, `IterationsTurn` |
| `Terminal` | two lines of output and two of the log file, any of them too long, a file that vanishes, a connection that takes one event, one poll before the kill | `OutputComplete`, `StopKills`, `LeashKills`, `DeathIsReported` |
| `Genomes` | three slugs, two requests, three edits or restarts, archives that are sound, newer, of another genome, or without their code, uploaded or placed | `InstalledIsThere`, `BootLeavesSound`, `ArchivesKept`, `OthersUntouched`, `ClonesApart` |
| `Fleet` | three agents, one of them with a bad UUID, two addresses, one page, two process ids, one request, two things from outside | `BeatAccounted`, `Reconciled`, `PageTrue`, `StormEnds` |

Bounds.  `MaxSpikes` is large enough for every spike the graph can create in
`CNS_Delegation` and `CNS_Settles`; in `CNS_Interventions` and `Retries` a dispatch whose spikes do not fit does
not commit, which bounds the fleet, or a loop that agents have set back, and loses only longer
behaviours.  `Workers` is the number of dispatches open at a time: the interference of dispatches is
pairwise (locks and reads of one against the commit of another).  `MaxOps` counts interventions;
`MaxChecks` keeps polls from piling up.  There is no clock, so any PENDING spike may
be stale at any poll.  Deadlock is checked in the first three runs and in
`NMJ_Execution` and `Session_Talk`; in the others the system really stops when its users do, and in `Retries`
also when `MaxSpikes` holds a loop up.

In `Session_Talk` two loops are what one late message produces, two turns make a loop go round and
meet its budget, and a second message is what it takes to lose one.  Messages are numbered in the order
of their requests.  Every request under way has room for its task, so `MaxLoops` stops
no request half way.  In `Turns` six turns are what an eviction takes (results are evicted by the age of
their turn, and announced one turn before).  In `Routing` three attempts
exhaust three providers, where the code has eight.  `Terminal` needs one poll only to have the two cases,
a process that ends by itself and one that is killed, and a buffer of one event to
make `drain` wait.  In `Genomes` two requests are an install and something that meets it; three events are
an edit or an archive that comes between them, a crash and another boot, or a row that is given to another
genome after it was created.  The rows are a pathway and a neuron each of the core, of a bundle and of users, with
hard and loose keys between genomes, and an avatar with its file.  `Retries` has interventions in the outer train and one
child train only (`OpTrains`); the theorem `RetriesStayCounted` covers all.
`Fleet` takes one request at a time: two concurrent starts lose a Beat (section 5), which
`crowded` would excuse anyway.

Fairness.  `EngineFairness`: Celery keeps taking tasks, a task once taken ends, a
transaction once open commits; per train, per spike and per worker.  `PolledSpec` adds that the beat
keeps polling and that what stays PENDING grows old; it is strong fairness because a poll is
disabled while a task is at work.  In the junction the event loop and the thread go
on; a process need not end by itself, but one that has been told to stop does, for
`AsyncProcessRunner.terminate` asks, waits ten seconds and kills; strong fairness because
each flush of the log leaves the state in which it can end.  In `ReasoningSession` a queued task is
taken and a loop goes on; strong fairness of `ToolsDone` says that the list of tool calls is
finite.  In `TemporalLobe` the beat recurs and a tick that has begun goes on.  In `NerveTerminal`
the tasks of both event loops go on and the kernel kills what it is told to kill.  In
`PeripheralNervousSystem` scans and pages go on, since their sockets and requests have
timeouts.  Nothing is assumed of users, networks, processes that are run, or models.

## 5. Where the code and its comments part

What the models show of the code that its comments, tests or documents say otherwise, or
that a reader would not expect.  The properties of section 4 are stated so that they hold of the code as it
is: where they exclude something, it is here.

**Job manager.**

* A STOPPED train is not over (`central_nervous_system.py:516`): the check queued by the next task
  that ends turns it into SUCCESS, for `_finalize_spawn_unsafe` only compares the status it would give.
  `models.py:93` lists STOPPED as terminal, and `central_nervous_system.py:274` says "we treat STOPPED as a
  terminal state that halts flow".  The check after a `terminate` does the same to a FAILED train.
* A stopped child train wakes nobody (`signals.py:28`): its parent spike stays DELEGATED for ever.
  `signals.py:22`: "Wakes up the Parent Node to continue the Master Graph."
* A root spike that is born SUCCESS, no agent being online, is followed by no dispatch
  (`central_nervous_system.py:441`).  `tests/test_routing.py:270`: "After zero-agent SUCCESS,
  downstream axons still fire."
* A dispatch that finalizes does not see the spikes another one is about to commit: a
  child train is finalized and its parent spike woken too early.
* The garbage collector finds a spike dead whose task result stays STARTED, and `poll` does not fail it;
  a train left STOPPING by a crash is never polled.
* A PENDING spike that is aborted or stopped runs all the same when its task is taken.  A dispatch that
  began before a stop creates its spikes after it.
* Two polls of a train whose root dispatch has not committed start the roots twice, and so do
  `start()` and a poll: `RootsOnce` is checked without polls.
* A terminated child train that a later check turns into SUCCESS rewrites the status of its parent spike.

**Junction.**  The monitor's refresh puts RUNNING back into the shared object before
`save()` has its turn (`neuromuscular_junction.py:627`): a failed execution leaves its spike RUNNING
and its train waiting.  The `::axoplasm_set` values of a process whose stream breaks are lost.

**Logic node.**  All retry nodes on a way share `loop_count`, though the docstring counts "visits to this neuron";
a child train takes its parent's count along and gives nothing back.  A crash between the save of
the count and that of the status, and a rerun, count a round twice: fewer rounds, never more.  A late
write of the whole axoplasm by `mcp_update_axoplasm` undoes a count: one round more.  A FLOW wire out of
a retry node goes round for ever after LIMIT REACHED (`TASKS.md:1479`).

**Reasoning sessions.**

* A message queued after the loop has read its session is overwritten by the empty queue with the
  next prompt (`frontal_lobe.py:271`).  `thalamus.py:187`: "If it's already running, just save the queue. It
  will catch it next turn."
* A turn that ends without a tool call writes ATTENTION_REQUIRED over the STOPPED of a clear
  (`frontal_lobe.py:449`), and the next message goes into the cleared session, contrary to `thalamus/api.py:211-213`.
* A reply between the last two status reads of a loop is followed by COMPLETED and never heard.
  Two requests that both find no standing session create two; two that both read a sleeping
  one queue two tasks, and the second save drops the message of the first.
* A worker that dies, or an abort that cancels the coroutine, leaves its session ACTIVE; messages are then
  queued without a task.  One that dies while the model thinks takes the queue's messages with it.

**Turns and tools.**

* What humans said is replayed with every turn, and again from that turn's request
  (`river_of_six.py:82`; `frontal_lobe.py:214` warns of "Double Vision").
* The focus that `mcp_pass` restores is written over by the stale save of the handler that follows.  The efficiency
  bonus is always awarded, while telemetry says INEFFICIENT.
* The gateway hands on `str(result)`, so a tool's request to yield is not seen.  A tool that crashed is recorded COMPLETED;
  one whose post handler fails (`parietal_lobe.py:334`) is recorded as an error though it ran.
* `graph_data?since_turn_number` misses what happened to the last turn a screen has seen.
* An update that fails to get an embedding wipes the vector, and a fact without a vector is never compared; a deactivated
  engram still blocks its title; one that is deleted stays in digests.  A text read before another update is written over it.
* Two calls that overlap in one card leave it with the vector of a text that is no longer there, and so does a worker that dies
  between `save()` and `update_vector`: later facts are rejected, or not, by what the card said once.  Two sessions that save the same
  fact at once under two titles, or the MCP server beside one, make two cards of it.

**Temporal lobe.**

* The shift advances as soon as the first pending worker stands down, though others are pending.
* A worker whose session waits for a human is sent out again when its tick has died (`temporal_lobe.py:389`); one
  whose disc is removed meanwhile fails the tick.
* Two trains advance an iteration together, though `temporal_lobe.py:163` says "Lock the row": `Succession` fails with
  two slots.  A lost machine leaves the iteration standing, contrary to the comment on ghosts at lines 546-552.
* The full-row saves of the cortex and of ticket forms write over owners; a task set to WILL_NOT_DO keeps its story from review.

**Hypothalamus.**

* The failover strategy is off by one: attempts count from 0, the fixtures' steps from 1 (`hypothalamus.py:170`,
  `models.py:488`).  Eight failures end as a COMPLETED turn without an answer.
* The exclusions of a filter are one `exclude()` with two conditions (`hypothalamus.py:112-128`), which takes only the rows
  that meet both.  A filter that bans a provider therefore offers that provider's models as long as they have their tools, though the help
  text says "Never route to these providers, even as a fallback." (`models.py:574`), and offers models of the others that have just lost theirs.
* The failure counter is written back from objects read earlier; the preferred model is cached for the session.
* When the Ollama provider has no `base_url` (`hypothalamus.py:1143-1147`) a sync ends in SUCCESS with the local models not
  mirrored and their prices swept.  A parent family that is missing is left out of the report (lines 750-759).  The scars of
  a model that is built anew heal although the transaction around it rolls back (lines 946-948).
* When Ollama cannot be reached, `sync_catalog` benches every local model, where `sync_local` answers 503.  A
  local model an operator switched off is enabled by the next sync.  Remove, sync and pull
  give a model two current prices.  A sync that dies stays RUNNING, and two started together both go on.

**Nerve terminal.**  Log lines between the last read and the watch, or of the last moment, are lost.  A
process that prints nothing outlives a client that is gone.  An UPDATE cancels all runs.  An event stream
that ends before EXIT tells the caller no exit code.  A line of output beyond the limit of the stream ends the piping, and the
execution is reported as a crash whatever the process returned.

**Peripheral and autonomic nervous system.**  The OFFLINE broadcasts leave before their transaction commits
(`peripheral_nervous_system.py:150`): a page that lists at once stays behind.  A terminal that is not on Windows
answers 'UNKNOWN_UUID' (`nerve_terminal.py:1095`), which ends every scan that meets it; so does a row that the other process
has made between the look and the creation.  An agent that answers at two addresses with one UUID would have each scan save
one after the other, and the pages list and scan again for ever; the model has one address per agent, so no run shows this.  Two concurrent starts
leave a Beat nobody knows of, a stop after its id was used again kills a stranger, and two quick
restarts leave two workers.  A stop that cannot send its signal forgets the Beat all the same
(`autonomic_nervous_system.py:221-228`), and a start that cannot write the file answers 500 while its Beat runs (lines 189-198).

**Neuroplasticity.**

* A second install of the same slug at the same time removes the tree of the first, and an upgrade
  that fails late leaves the new tree with the old rows.  A boot in another process may sweep a tree that is being installed.
* An edit of the metadata changes the manifest but not its recorded hash, so that the genome is BROKEN at the next boot, and
  swept at the one after (`loader.py:1522`).
* A crash between the `rmtree` and the `rename` of an upgrade (`loader.py:772-774`) leaves INSTALLED without a tree, which no
  boot flags; one between the copy of a tree and the load of its rows leaves INSTALLED with a sound tree and no rows.
* A save looks for the presence of the entry modules, so that code that is there and broken is packed over the only
  archive that can be installed.  An upload is not looked at (`api.py:61-101`): an archive without its code enters the catalog and fails when
  it is installed.  A pack that fails leaves the row's version and manifest ahead of the archive.
* `genome_mixin.py:12-14` says that canonical rows are "never mutated at runtime".  A PATCH of the genome is refused for them
  (`serializer_mixins.py:104-114`), their other fields are not: a neuron of the core that is put under a user's pathway leaves the core when
  the pathway changes hands, for `save()` gives a pathway's parts to its owner without asking whose they were.

## 6. Proofs

Every theorem is about `Spec` of its module (`LogicSpec` and `TerminalSpec` where it says so), for all values of the constants that satisfy the
assumptions the module names: the types of the constants, that `None` is nothing else, and three facts of
the code and its data.  A pathway has at most one wire between two neurons and none that leaves it (`unique_together`, the
editor); a blueprint has at most as many shifts as the model numbers; archives that come from outside were not forged here.
None is about what is in those archives, or about what people do to rows and trees.  All
follow one scheme: an inductive invariant, one lemma per action or group of actions that
can disturb it, and lemmas about the operators in between.  The invariants were model-checked
on the instances of section 4 before they were proved.

**`CentralNervousSystemProofs`.**  The invariant under everything is
`IInv == TypeOK /\ ReferencesHold /\ DispatchesApart /\ FollowedOnce`.

| Theorem | States | Hypothesis |
|---|---|---|
| `TypeCorrect` | `TypeOK` | |
| `DispatchIsolation` | `DispatchesApart` | |
| `WiresFollowedOnce` | `FollowedOnce` | |
| `RootsVisitedOnce` | `RootsOnce` | nobody polls |
| `DelegationsInStep` | `DelegationInStep` | nobody stops a train |
| `WiresFollowStatus` | `WiresMatchStatus` | nobody polls |
| `WakeUpsNotLost` | `NoLostWakeUp` | no stop, no crash, no lost worker, and every neuron `KeepsGoing` |
| `RetriesStayCounted` (`LogicSpec`) | `RetriesCounted` | nobody polls, and retry nodes run in tasks of their own (`RetriesRunThemselves`) |

`FollowedOnce` is not inductive alone: a dispatch may give a spike children only
because nobody else has done so since it looked, which is `DispatchesApart` (its picks are
locked, locks are disjoint, and a picked spike has no children).  That in turn
needs `ReferencesHold`: a new row must not be the provenance, the train or the
task's spike of something that is there already.  `RootsInv` says that at most one call that may
still find a train empty exists at a time, which a poll breaks (section 5).  `DelegationInv` ties the
status of a container to its child train and to the dispatch that has it locked; a stopped child breaks it
(section 5).  `CalmInv`: until somebody intervenes the status of a spike is in step with its task, so that SUCCESS and FAILED are
final; a poll can fail a spike whose task is still queued and will write it again.  `WakeInv` needs
`KeepsGoing`: a visit leaves a spike behind, and a spike born finished ends its branch; the code does not
guarantee it (a fleet neuron with nobody online, section 5).  A stop forgets on purpose, also
when the train is terminated after it, which is a behaviour the proof attempt found.

`RetriesStayCounted` is about `PathwayLogicNode`, with agents that write the axoplasm.  `RetriesRunThemselves`
excludes retry nodes that are containers or sent to a fleet, which may be born SUCCESS without having
counted; a poll can fail a node that has counted and that a rerun then lets through again.
The steps of `LogicNext` are those of the job manager or leave its state alone, so that `IInv` and `CalmInv` hold
as they are (`ManagerInv`).  `Way` is a recursive function: `OrderInv` says that a spike comes from one with a smaller number, and
by least counterexamples there is a set for each spike that `Way` describes (`PathsExist`), and ways change only
by new spikes at their ends (`WayKept`).  `VerdictInv` relates status, verdict, object and row of a retry
node.  `FloorInv`: no copy of a spike's count, in its row, its execution or the hands of an agent, is below the
number of retry nodes on its way that have let the train go round or still may (`MayCount`), a set that only
shrinks.  `ExactInv`: until somebody intervenes the count is that number.

**`HypothalamusProofs`.**  `TypeCorrect`; `FailoversBenched` (`FailedIsBenched`), from: the one that failed is
cooling down, scarred, or cleared since; that a scarred one is not selected needs the `exclude()` as it is, and is said for
filters without a ban only.  `SyncsMirror` (`SyncMirrors`) from `SyncInv`: a sync that nobody interferes with is alone, and at
each of its steps the active prices are those of the catalogs it has been through; of local models only if Ollama
has an address; names are in the tables or the report for every sync, parents of families excepted.  That a
strategy's pick is always a candidate rests on the existence of a least rank (well-foundedness of `<`).
The proof showed that a sync heals a scar when it builds a model anew, which the instance had been too
small for; `cleared` records it, and the instance has such a model since.

**`NeuroplasticityProofs`.**  `Base == IInv /\ EditHolds` is the common invariant: types
(`TypeCorrect`), what the request in hand relies on (`OperationHolds`: its row is still there, its archive is the one of
the catalog), that the workspace has its row and archive (`ShelvesHold`), and that what is selected for edit has its row.

| Theorem | States | From |
|---|---|---|
| `SavesKeepArchives` | `ArchivesKept` | the check of the staged archive before the swap, whatever has been done to the tree since the first check; no hypothesis on uploads |
| `InstalledHaveTrees` | `InstalledIsThere` | `TreesHold`: the tree precedes INSTALLED and outlives it |
| `BootsLeaveSound` | `BootLeavesSound` | `BootHolds`: what each phase of a boot leaves to the next, whatever tree a crash has torn; genomes whose tree is gone, and rows, are not in it (section 5) |
| `OthersKeepTheirRows` | `OthersUntouched` | `CommitHolds`: the collision check of an upgrade still holds when it commits; what cascades from a genome's rows is monotonic in them; rows that `save()` takes along are those of `Moved` |
| `ClonesStandAlone` | `ClonesApart` | `ForgedHolds`: what has been forged has its archive as long as its row; the renaming of keys is a bijection to unused ones |

What goes with a deleted row is a least closed set (`Doomed`), not a recursion, for it is needed in proofs.

**`NeuroMuscularJunctionProofs`.**  `TypeCorrect`, and `ExecutionsImplementCNS` (`ImplementsCNS`): every step of an
execution is a step of the job manager's model or a stutter, so that what is proved there of tasks
rests on what the junction does.  The step lemmas (`Fires`, `Finishes`, `Races`, `Terminates`,
`StopsGracefully`) say what the row of the spike must show for a step to be one of the job manager's.  They need to
know what a `save` or a refresh that waits for the database thread will write or assign: before the first
write nobody has read (`LaunchHolds`); afterwards what the `Spike` object holds is what the row
holds, what the row held before a signal, or the outcome being written (`MemoryHolds`);
`ThreadHolds` says that the coroutine waits for one call at a time and where it goes on after it.

**`ReasoningSessionProofs`.**

| Theorem | States | From |
|---|---|---|
| `TypeCorrect` | `TypeOK`, `ReferencesHold` | |
| `BudgetKept` | `TurnBudget` | `BudgetHolds`: once a session's budget is spent, its turns, the loops that have looked at the budget and have yet to add theirs, and the request that has yet to seed the first turn are at most `MaxTurns` and one for each loop |
| `NothingIsLeft` | `NothingLeftBehind` | `TalkHolds` |
| `SessionsConverse` | `KeepsConversation` | `TalkHolds`, step by step |

`TalkHolds` is about sessions that nobody has disturbed: one request or loop is at work at a time
(`Alone`), no spike has two sessions that are awake (`OneAwake`), a session is being served or is not ACTIVE
and, if it sleeps, has an empty queue (`Served`, `Calm`), and what a loop or a request holds is what the row says (`LoopHolds`, `ReplyHolds`).  The refinement
is proved one action of `Conversation` at a time: a request is a message, a read of the queue is what is
heard, and the last write of a run closes.

**`ParietalLobeProofs`** (`ParietalLobe` and `Hippocampus`).  One invariant: `MemoryHolds` for the cards, and for each session what its run
relies on (`RunHolds`), what its turns record (`TurnHolds`, `ExecutedHold`), which prompts it has sent
(`PromptHolds`) and what its screen shows (`ScreenHolds`).

| Theorem | States | Because |
|---|---|---|
| `PromptsAnswered` | `CallsAnswered` | a turn in the river of six brings its calls with all their results, and what is evicted brings neither |
| `EvictionsWarned` | `EvictionAnnounced` | prompts are sent for consecutive turns, so that an age is never skipped |
| `EffectsRecorded` | `EffectsOnRecord` | the row is created before the tool is called |
| `ScreensCurrent` | `ScreenCurrent` | a digest is built and pushed after the last write of its turn; a screen that is off misses nothing before the last turn it saw, and its catch-up brings what comes after |
| `VectorsFollowTexts` | `VectorOfText` | `save()` makes the vector again whenever it has changed the text, and a call that has still to do so is in the card; a second one that enters the card meanwhile excuses it (`shared`) |
| `FactsKept` | `ToldIsKept` | a text that is written back was read since, or the card is excused |

A prompt is a sequence flattened from those of its turns.  That each of its parts has answered calls is carried over to the whole
by a least counterexample instead of an induction, since none of the provers can instantiate an induction theorem.  `Linking` says what a
step does to the turns that cards point to, so that a step of one session is known to leave the screens of the others alone.

**`TemporalLobeProofs`.**  `TypeCorrect`; `WorkersSeeTheirTicket` (`WorksOnItsTicket`) and `IterationsSucceed` (`Succession`)
as long as trains come one at a time (`Serial`, the instance of `Iterations`), which `trigger_temporal_metronomes`
intends and two overlapping triggers do not guarantee (section 5).  `Found`: where a tick stands tells what it has
found, for any number of trains.  With one train the iteration of a tick is not over before it says so (`OfLive`), and
the tickets of its disc are the one it was sent out for, or were written over by an operator (`OwnsOnly`);
operators may do anything meanwhile.

**`PeripheralNervousSystemProofs`** (with `AutonomicNervousSystem`).

| Theorem | States | From |
|---|---|---|
| `TypeCorrect` | `TypeOK` | |
| `BeatsAccounted` | `BeatAccounted` | `BeatHolds`: until requests meet, die half done or cannot write the file, at most one is in hand, and where it stands tells which Beats there can be |
| `ScansReconcile` | `Reconciled` | `ScansHold`: what a fresh scan has written stays, for a scan that is stale and writes over it takes that freshness away |
| `PagesShowTheRegistry` | `PageTrue` | `PagesHold`: a page that rests, wants nothing and did not list early shows the registry, and then no scan has anything broadcast that it has not committed; the row a scan is about to make is of an agent it has found whose UUID parses (`MakingHolds`) |
| `CallerGetsOutput` (`TerminalSpec`) | `OutputComplete` | `TerminalIInv` |

`CallerGetsOutput` needs no hypothesis, whoever stops, updates or disconnects.  `TasksInv` says where each task of the
terminal can stand when another has got so far; `ExitsLast`, that nothing but the end follows an exit on its way to the
caller, by `Return` or by the crash of the pipeline; `PrintedInv`, that what the caller has, what is under way and what is queued are three stretches of
the printed lines without a gap, as long as the connection stands; `LogInv`, that the
log lines along the same way, and those that are yet to be read, increase.  The properties speak of positions in these
sequences and not of filtered sequences, since a filter is a recursion.

Only model-checked:

* Everything that depends on fairness (`TraversalCompletes`, `StopSettles`, `PollFreesTrain`, `SignalEndsRun`,
  `LoopsEnd`, `IterationsTurn`, `StopKills`, `LeashKills`, `DeathIsReported`, `StormEnds`), which TLAPS cannot prove.

Every invariant and every action property that a run checks, and each refinement, is stated by a theorem.

## 7. Not modelled

* Native effectors other than those with a module, and the rendering of commands: functions whose result the
  junction takes as a choice.
* The API, serializers and graph editor of the central nervous system around the calls that are modelled; environments,
  dashboard, config: rows and views without behaviour of their own.  `view()`, websocket broadcasts without a
  follower, narrative dumps, histories and reading endpoints change no state.
* The hash check of `celery_task_id`, effectors pinned to an empty list of agents, and pathways without a Begin
  Play neuron.
* The parser of model names, the occipital lobe's log parser and the genome graph walker: text or rows in, text out.
* Tools of the parietal lobe that read and write files, repositories, the web or records: I/O.
* Forging discs and avatars, and the wording of prompts.
* Of the nerve terminal: launching and killing by image name on Windows, the download of an update, and local execution.
* Cards of workers and vitals of the infrastructure.
* One UUID at two addresses in a scan; deletion of single rows of genomes; edits of a card's text through the REST API; Pythons whose `Process.wait()`
  waits for the pipes, which may hang after a line that was too long.
