------------------------ MODULE NeuroMuscularJunction ------------------------
(***************************************************************************)
(* One execution of a spike: NeuroMuscularJunction.execute(), between the  *)
(* task's start and its finally block.                                     *)
(*                                                                         *)
(* The event loop runs two coroutines, the one that executes the spike and *)
(* the monitor that watches for an abort or a stop.  They share one Spike  *)
(* object, and every database call of either goes through the single       *)
(* thread of sync_to_async: save() writes the status the object has when   *)
(* the thread comes to it, refresh_from_db() overwrites the status the     *)
(* object has.                                                             *)
(***************************************************************************)
EXTENDS Integers, Sequences

CONSTANTS
  Kinds,     \* the effectors of this instance: "sync" and "async" are native
             \* handlers, "pipeline" is a process run by a nerve terminal
  MaxOps,    \* bound: terminate() and stop_gracefully() calls
  None

Status == {"PENDING", "RUNNING", "SUCCESS", "FAILED", "ABORTED", "STOPPING",
           "STOPPED"}

(* Outcomes that are not followed by another SUCCESS (STATUSES_WHICH_HALT). *)
Halting == {"FAILED", "ABORTED", "STOPPING", "STOPPED"}

ASSUME KindsAssumption ==
  /\ Kinds \subseteq {"sync", "async", "pipeline"} /\ MaxOps \in Nat
  /\ None \notin Status

VARIABLES
  kind,     \* what the effector is
  status,   \* the status column
  memory,   \* the status the Spike object holds
  own,      \* self.status
  at,       \* where the executing coroutine is; "waiting" for the thread
  monitor,  \* where the monitor is
  thread,   \* the calls handed to the thread, first the one it works on
  read,     \* the status the call it works on has read
  stop,     \* stop_event
  train,    \* the status of the spike's train
  ops       \* interventions so far

vars == <<kind, status, memory, own, at, monitor, thread, read, stop, train, ops>>

Init ==
  /\ kind \in Kinds
  /\ status = "PENDING" /\ memory = "PENDING" /\ own = "CREATED"
  /\ at = "launch" /\ monitor = "sleep"
  /\ thread = <<>> /\ read = None /\ stop = FALSE
  /\ train = "RUNNING" /\ ops = 0

-----------------------------------------------------------------------------
(* The executing coroutine. *)

Ask(what, place) ==
  /\ at' = "waiting"
  /\ thread' = Append(thread, [does |-> what, by |-> "task", next |-> place])

(* _update_status and its like: the object first, the database later.      *)
Update(st, place) ==
  /\ memory' = st
  /\ Ask("save", place)

Goto(place) == at' = place /\ UNCHANGED thread

Launch ==
  /\ at = "launch"
  /\ Update("RUNNING", "route")
  /\ UNCHANGED <<kind, status, own, monitor, read, stop, train, ops>>

(* A sync handler occupies the thread; the pipeline first logs its route,  *)
(* and a log write looks for an abort.                                     *)
Route ==
  /\ at = "route"
  /\ own' = "RUNNING"
  /\ \/ kind = "sync" /\ Ask("handle", "handled")
     \/ kind = "async" /\ Goto("handler")
     \/ kind = "pipeline" /\ Ask("refresh", "routed")
  /\ UNCHANGED <<kind, status, memory, monitor, read, stop, train, ops>>

(* No such handler, or a command that cannot be rendered: the monitor is   *)
(* cancelled, the error is logged, abort or not, and the spike fails.      *)
FatalError ==
  /\ at = "route"
  /\ own' = "RUNNING"
  /\ monitor' = "done"
  /\ Ask("refresh", "fatal")
  /\ UNCHANGED <<kind, status, memory, read, stop, train, ops>>

HandleFatalError ==
  /\ at = "fatal"
  /\ Update("FAILED", "halt")
  /\ UNCHANGED <<kind, status, own, monitor, read, stop, train, ops>>

AsyncHandler ==
  /\ at = "handler"
  /\ Goto("handled")
  /\ UNCHANGED <<kind, status, memory, own, monitor, read, stop, train, ops>>

(* The handler has raised, or returned with something to log, or nothing.  *)
Handled ==
  /\ at = "handled"
  /\ \/ Update("FAILED", "halt")
     \/ Ask("refresh", "result") /\ UNCHANGED memory
     \/ Goto("silent") /\ UNCHANGED memory
  /\ UNCHANGED <<kind, status, own, monitor, read, stop, train, ops>>

(* A log write that finds the spike aborted raises ConnectionAbortedError. *)
LogSeesAbort ==
  /\ at \in {"result", "routed", "failing", "draining", "closing"}
  /\ memory = "ABORTED"
  /\ Goto("end")
  /\ UNCHANGED <<kind, status, memory, own, monitor, read, stop, train, ops>>

(* The return code of the handler is 200, or it is not; where nothing was  *)
(* logged nothing has looked for an abort.                                 *)
Result ==
  /\ at \in {"result", "silent"}
  /\ at = "result" => memory # "ABORTED"
  /\ \E st \in {"SUCCESS", "FAILED"} : own' = st /\ Update(st, "updated")
  /\ UNCHANGED <<kind, status, monitor, read, stop, train, ops>>

Flushed ==
  /\ at \in {"routed", "flushed"}
  /\ memory # "ABORTED"
  /\ Goto("streaming")
  /\ UNCHANGED <<kind, status, memory, own, monitor, read, stop, train, ops>>

(* The process prints a line, and now and then the buffer is flushed.      *)
Stream ==
  /\ at = "streaming"
  /\ Ask("refresh", "flushed")
  /\ UNCHANGED <<kind, status, memory, own, monitor, read, stop, train, ops>>

(* The process ends by itself or, when asked to stop, is made to.          *)
ProcessExits ==
  /\ at = "streaming"
  /\ Ask("refresh", "outcome")
  /\ UNCHANGED <<kind, status, memory, own, monitor, read, stop, train, ops>>

StopProcess == stop /\ ProcessExits

(* Reading the stream has failed, or a flush has seen the abort: that is   *)
(* logged, and so looked for again, before the spike fails.                *)
StreamError ==
  /\ at = "streaming"
  /\ Ask("refresh", "failing")
  /\ UNCHANGED <<kind, status, memory, own, monitor, read, stop, train, ops>>

FlushSeesAbort ==
  /\ at = "flushed"
  /\ memory = "ABORTED"
  /\ Ask("refresh", "failing")
  /\ UNCHANGED <<kind, status, memory, own, monitor, read, stop, train, ops>>

StreamFails ==
  /\ at = "failing"
  /\ memory # "ABORTED"
  /\ own' = "FAILED"
  /\ Update("FAILED", "halt")
  /\ UNCHANGED <<kind, status, monitor, read, stop, train, ops>>

(* Graceful stop or normal completion, by the status just read.            *)
Outcome ==
  /\ at = "outcome"
  /\ Ask("refresh", IF memory = "STOPPING" THEN "draining" ELSE "closing")
  /\ UNCHANGED <<kind, status, memory, own, monitor, read, stop, train, ops>>

(* What is left of the log is written, which looks for an abort once more; *)
(* then the axoplasm is saved.                                             *)
Close ==
  /\ at \in {"draining", "closing"}
  /\ memory # "ABORTED"
  /\ own' \in IF at = "draining" THEN {"STOPPED"} ELSE {"SUCCESS", "FAILED"}
  /\ Ask("other", "save")
  /\ UNCHANGED <<kind, status, memory, monitor, read, stop, train, ops>>

SaveOutcome ==
  /\ at = "save"
  /\ Update(own, "updated")
  /\ UNCHANGED <<kind, status, own, monitor, read, stop, train, ops>>

(* mutant: a failure is taken for a success. *)
ExecutedAnyway ==
  /\ at = "updated"
  /\ own' = "SUCCESS"
  /\ Update("SUCCESS", "end")
  /\ UNCHANGED <<kind, status, monitor, read, stop, train, ops>>

(* _execute_spike, once the router is back.                                *)
Executed ==
  /\ at = "updated"
  /\ \/ /\ own \in Halting
        /\ Goto("end")
        /\ UNCHANGED <<memory, own>>
     \/ /\ own \notin Halting
        /\ own' = "SUCCESS"
        /\ Update("SUCCESS", "end")
  /\ UNCHANGED <<kind, status, monitor, read, stop, train, ops>>

(* self.status follows the write of a handler that raised.                 *)
Halt ==
  /\ at = "halt"
  /\ own' = "FAILED"
  /\ Goto("end")
  /\ UNCHANGED <<kind, status, memory, monitor, read, stop, train, ops>>

-----------------------------------------------------------------------------
(* The monitor, which is cancelled when the spike's coroutine has ended.   *)

AskMonitor(place) ==
  /\ monitor' = "waiting"
  /\ thread' = Append(thread,
                 [does |-> "refresh", by |-> "monitor", next |-> place])

MonitorWakes ==
  /\ at \notin {"launch", "end"}
  /\ monitor = "sleep"
  /\ AskMonitor("look")
  /\ UNCHANGED <<kind, status, memory, own, at, read, stop, train, ops>>

(* mutant: the stop signal is not passed on. *)
MonitorSeesAbortsOnly ==
  /\ at # "end"
  /\ monitor = "look"
  /\ \/ /\ memory = "ABORTED"
        /\ AskMonitor("raise")
     \/ /\ memory # "ABORTED"
        /\ monitor' = "sleep"
        /\ UNCHANGED thread
  /\ UNCHANGED <<kind, status, memory, own, at, read, stop, train, ops>>

MonitorLooks ==
  /\ at # "end"
  /\ monitor = "look"
  /\ \/ /\ memory = "ABORTED"
        /\ AskMonitor("raise")
        /\ UNCHANGED stop
     \/ /\ memory # "ABORTED"
        /\ monitor' = "sleep"
        /\ stop' = (stop \/ memory = "STOPPING")
        /\ UNCHANGED thread
  /\ UNCHANGED <<kind, status, memory, own, at, read, train, ops>>

(* It raises; the other coroutine is cancelled where it stands.  A call it *)
(* is waiting for may be withdrawn, or be too far gone.                    *)
MonitorRaises ==
  /\ at # "end"
  /\ monitor = "raise"
  /\ monitor' = "done"
  /\ at' = "end"
  /\ \/ UNCHANGED thread
     \/ read = None /\ thread' = <<>>
  /\ UNCHANGED <<kind, status, memory, own, read, stop, train, ops>>

-----------------------------------------------------------------------------
(* The thread. *)

Resume(call) ==
  IF call.by = "task"
  THEN /\ at' = IF at = "waiting" THEN call.next ELSE at
       /\ UNCHANGED monitor
  ELSE /\ monitor' = IF monitor = "waiting" THEN call.next ELSE monitor
       /\ UNCHANGED at

Save ==
  /\ thread # <<>> /\ Head(thread).does = "save"
  /\ status' = memory
  /\ thread' = Tail(thread)
  /\ Resume(Head(thread))
  /\ UNCHANGED <<kind, memory, own, read, stop, train, ops>>

RefreshReads ==
  /\ thread # <<>> /\ Head(thread).does = "refresh" /\ read = None
  /\ read' = status
  /\ UNCHANGED <<kind, status, memory, own, at, monitor, thread, stop, train, ops>>

RefreshAssigns ==
  /\ thread # <<>> /\ Head(thread).does = "refresh" /\ read # None
  /\ memory' = read
  /\ read' = None
  /\ thread' = Tail(thread)
  /\ Resume(Head(thread))
  /\ UNCHANGED <<kind, status, own, stop, train, ops>>

(* A native handler, or a save that leaves the status alone. *)
Works ==
  /\ thread # <<>> /\ Head(thread).does \in {"handle", "other"}
  /\ thread' = Tail(thread)
  /\ Resume(Head(thread))
  /\ UNCHANGED <<kind, status, memory, own, read, stop, train, ops>>

-----------------------------------------------------------------------------
(* What CNS.terminate and CNS.stop_gracefully do to the row.               *)

IsHead == status \in {"RUNNING", "PENDING"}

Terminate ==
  /\ ops < MaxOps /\ ops' = ops + 1
  /\ train # "FAILED"
  /\ train' = "FAILED"
  /\ status' = IF IsHead THEN "ABORTED" ELSE status
  /\ UNCHANGED <<kind, memory, own, at, monitor, thread, read, stop>>

StopGracefully ==
  /\ ops < MaxOps /\ ops' = ops + 1
  /\ IsHead
  /\ train' = "STOPPING"
  /\ status' = "STOPPING"
  /\ UNCHANGED <<kind, memory, own, at, monitor, thread, read, stop>>

-----------------------------------------------------------------------------
Task ==
  \/ Launch \/ Route \/ AsyncHandler \/ Handled \/ LogSeesAbort \/ Result
  \/ HandleFatalError \/ Flushed \/ FlushSeesAbort \/ StreamFails
  \/ Outcome \/ Close \/ SaveOutcome \/ Executed \/ Halt

Monitor == MonitorWakes \/ MonitorLooks \/ MonitorRaises

Thread == Save \/ RefreshReads \/ RefreshAssigns \/ Works

Ended == at = "end" /\ thread = <<>> /\ UNCHANGED vars

Next == \/ Task \/ Monitor \/ Thread
        \/ Stream \/ ProcessExits \/ StreamError \/ FatalError
        \/ Terminate \/ StopGracefully \/ Ended

Spec == Init /\ [][Next]_vars

(* The loop and the thread go on; only a process that was asked to stop    *)
(* must end: the nerve terminal terminates it, and then kills it.          *)
FairSpec ==
  /\ Spec
  /\ WF_vars(Task) /\ WF_vars(Monitor) /\ WF_vars(Thread) /\ SF_vars(StopProcess)

-----------------------------------------------------------------------------

(* Where the executing coroutine can be, or come to.                       *)
Places == {"launch", "route", "fatal", "handler", "handled", "result", "silent", "routed", "failing",
           "draining", "closing", "streaming", "flushed", "outcome", "save", "updated", "halt", "end"}
Looks  == {"sleep", "look", "raise", "done"}
Call   == [does : {"save", "refresh", "handle", "other"}, by : {"task", "monitor"},
           next : Places \cup Looks]

TypeOK ==
  /\ kind \in {"sync", "async", "pipeline"} /\ status \in Status /\ memory \in Status
  /\ own \in Status \cup {"CREATED"} /\ at \in Places \cup {"waiting"}
  /\ monitor \in Looks \cup {"waiting"} /\ thread \in Seq(Call) /\ read \in Status \cup {None}
  /\ stop \in BOOLEAN /\ train \in {"RUNNING", "STOPPING", "FAILED"} /\ ops \in Nat


(* Where the execution stands for the job manager.                         *)
TaskOf ==
  IF at = "launch" \/ (at = "waiting" /\ own = "CREATED") THEN "queued"
  ELSE IF \/ status \in {"SUCCESS", "FAILED", "STOPPED"}
          \/ at = "end" /\ \A i \in DOMAIN thread : thread[i].by # "task"
       THEN "written" ELSE "running"

(* The job manager with this one spike, of a train without wires.          *)
CNS == INSTANCE CentralNervousSystem WITH
  Neurons <- {"n"}, Pathways <- {"p"}, PathwayOf <- [n \in {"n"} |-> "p"],
  Roots <- {"n"}, Axons <- {}, Invokes <- [n \in {"n"} |-> None],
  Mode <- [n \in {"n"} |-> "local"], Agents <- {},
  Pinned <- [n \in {"n"} |-> {}], MainPathway <- "p", Workers <- {},
  MaxSpikes <- 1, Ops <- {"terminate", "stop", "race"}, OpTrains <- {0},
  MaxChecks <- 0,
  train <- [t \in 0 .. 1 |-> IF t = 0 THEN train ELSE None],
  spike <- [s \in 1 .. 1 |-> [train |-> 0, neuron |-> "n",
                              provenance |-> None, target |-> None]],
  spikeStatus <- [s \in 1 .. 1 |-> status],
  task <- [s \in 1 .. 1 |-> TaskOf],
  checks <- [t \in 0 .. 1 |-> 0], starting <- {},
  tx <- [w \in {} |-> None]

ASSUME SpikeAssumption == None \notin CNS!SpikeRow

(* Seen from the status column, an execution is what the job manager's     *)
(* model takes it for: RUNNING once, one outcome at the end, STOPPED only  *)
(* after STOPPING, and nothing else but the races StaleWrite admits.       *)
ImplementsCNS == [][CNS!Next]_(CNS!vars)

(* A running process that is told to stop, or aborted, does not go on      *)
(* forever: some pass of the monitor or some log write sees the signal.    *)
SignalEndsRun ==
  (/\ kind = "pipeline" /\ TaskOf = "running"
   /\ status \in {"STOPPING", "ABORTED"}) ~> at = "end"

=============================================================================
