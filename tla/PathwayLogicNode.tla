-------------------------- MODULE PathwayLogicNode --------------------------
(***************************************************************************)
(* The axoplasm of spikes, and the logic nodes that steer a train by it.   *)
(*                                                                         *)
(* A spike starts with a copy of the axoplasm of the spike it comes from.  *)
(* Processes add keys to it, a gate looks at one, and a retry node counts  *)
(* in it how often it has let the train go round.  The job manager is      *)
(* CentralNervousSystem, action by action; here its choice of SUCCESS or   *)
(* FAILED is made by the logic node.                                       *)
(***************************************************************************)
EXTENDS CentralNervousSystem

CONSTANTS
  Logic,   \* Logic[n]: its NeuronContext, [mode, max, op, value]; mode "none" is any other effector
  Prints,  \* Prints[n]: what the process of n sets the gate key to; None if n runs no process
  Given,   \* Given[n]: what the NeuronContext of a container sets the key to, or None
  Fluid,   \* cerebrospinal_fluid: the axoplasm the roots of the launched train start with
  Values   \* what agents may set the gate key to (the tool mcp_update_axoplasm)

(* The loop count, 0 where there is none, and the key a gate looks at.     *)
Axoplasm == [loop_count : Nat, key : Int \cup {None}]

ASSUME LogicAssumption ==
  /\ Logic \in [Neurons -> [mode : {"none", "retry", "gate", "wait"}, max : Int,
                            op : {"exists", "equals", "not_equals", "gt", "lt"}, value : Int]]
  /\ Prints \in [Neurons -> Int \cup {None}] /\ Given \in [Neurons -> Int \cup {None}]
  /\ Fluid \in Axoplasm /\ Values \subseteq Int
  /\ None \notin Int /\ None \notin Axoplasm

VARIABLES
  axoplasm,  \* axoplasm[s]: the column of spike s
  object,    \* object[s]: the axoplasm of the Spike object that an execution holds
  verdict,   \* verdict[s]: what the logic node has returned, None before
  update,    \* the tool call of an agent: its spike and the axoplasm it has read
  recounted  \* history: spikes over whose count an agent has written an older one

agent     == <<update, recounted>>
logicVars == <<vars, axoplasm, object, verdict, agent>>

LogicInit ==
  /\ Init
  /\ axoplasm = [s \in SpikeIds |-> Fluid]
  /\ object = [s \in SpikeIds |-> None] /\ verdict = [s \in SpikeIds |-> None]
  /\ update = None /\ recounted = {}

-----------------------------------------------------------------------------
(* The node. *)

IsLogic(n) == Logic[n].mode # "none"
Retries(n) == Logic[n].mode = "retry" /\ Logic[n].max > 0

(* Without the key every operator fails; max_retries <= 0 lets all pass.   *)
GatePasses(gate, value) ==
  /\ value # None
  /\ \/ gate.op = "exists"
     \/ gate.op = "equals" /\ value = gate.value
     \/ gate.op = "not_equals" /\ value # gate.value
     \/ gate.op = "gt" /\ value > gate.value
     \/ gate.op = "lt" /\ value < gate.value

(* mutant: the limit itself still lets the train go round.                 *)
PassesOneMore(n, a) ==
  /\ Retries(n) => a.loop_count <= Logic[n].max
  /\ Logic[n].mode = "gate" => GatePasses(Logic[n], a.key)
Passes(n, a) ==
  /\ Retries(n) => a.loop_count < Logic[n].max
  /\ Logic[n].mode = "gate" => GatePasses(Logic[n], a.key)

(* pathway_logic_node reads the spike, and may sleep before it decides.    *)
Look(s) ==
  /\ task[s] = "running" /\ object[s] = None
  /\ IsLogic(spike[s].neuron)
  /\ object' = [object EXCEPT ![s] = axoplasm[s]]
  /\ UNCHANGED <<vars, axoplasm, verdict, agent>>

(* A retry that passes saves its count before it returns, and the task may *)
(* die between that and the status.                                        *)
Decide(s) ==
  /\ task[s] = "running" /\ verdict[s] = None
  /\ IsLogic(spike[s].neuron) /\ object[s] # None /\ ~Locked(s)
  /\ LET n == spike[s].neuron
         passes == Passes(n, object[s])
     IN /\ verdict' = [verdict EXCEPT ![s] = IF passes THEN 200 ELSE 500]
        /\ axoplasm' = IF passes /\ Retries(n)
                       THEN [axoplasm EXCEPT ![s] = [object[s] EXCEPT !.loop_count = @ + 1]]
                       ELSE axoplasm
  /\ UNCHANGED <<vars, object, agent>>

-----------------------------------------------------------------------------
(* The axoplasm on its way. *)

(* _create_spike_from_node: a copy of the axoplasm of the spike whose wire *)
(* was followed; the roots of a child train have the one of the container  *)
(* and what its context says.  What a child train adds stays in it.        *)
Starting(r) ==
  IF r.provenance # None THEN axoplasm[r.provenance]
  ELSE IF r.train = 0 THEN Fluid
  ELSE LET given == Given[spike[r.train].neuron]
       IN IF given = None THEN axoplasm[r.train]
          ELSE [axoplasm[r.train] EXCEPT !.key = given]

Dispatch(w) ==
  /\ DispatchCommit(w)
  /\ axoplasm' = [s \in SpikeIds |->
       IF Born(s) \/ spike'[s] = None THEN axoplasm[s] ELSE Starting(spike'[s])]
  /\ UNCHANGED <<object, verdict, agent>>

(* A junction loads the spike; a logic node will read it for itself.       *)
Fire(s) ==
  /\ FireStart(s)
  /\ verdict' = [verdict EXCEPT ![s] = None]
  /\ object' = [object EXCEPT ![s] = IF IsLogic(spike[s].neuron) THEN None ELSE axoplasm[s]]
  /\ UNCHANGED <<axoplasm, agent>>

(* 200 is SUCCESS and any other code FAILED, unless the execution was      *)
(* stopped or aborted.                                                     *)
FinishLogic(s) ==
  /\ task[s] = "running" /\ verdict[s] # None
  /\ FinishWrite(s)
  /\ spikeStatus'[s] = "SUCCESS" => verdict[s] = 200
  /\ spikeStatus'[s] = "FAILED" => verdict[s] # 200
  /\ UNCHANGED <<axoplasm, object, verdict, agent>>

(* A process saves the axoplasm it was started with and what it has        *)
(* printed before its status; one that is aborted, or whose stream breaks, *)
(* loses it.                                                               *)
FinishOther(s) ==
  /\ task[s] = "running"
  /\ ~IsLogic(spike[s].neuron)
  /\ FinishWrite(s)
  /\ \E saved \in BOOLEAN :
       LET n == spike[s].neuron
       IN /\ Prints[n] = None => ~saved
          /\ Prints[n] # None /\ spikeStatus'[s] \in {"SUCCESS", "STOPPED"} => saved
          /\ spikeStatus'[s] = "ABORTED" => ~saved
          /\ axoplasm' = IF saved THEN [axoplasm EXCEPT ![s] = [object[s] EXCEPT !.key = Prints[n]]]
                         ELSE axoplasm
  /\ UNCHANGED <<object, verdict, agent>>

(* mcp_update_axoplasm of a reasoning session, for any spike: it reads the *)
(* axoplasm, and writes it back as a whole.                                *)
UpdateRead(s) ==
  /\ Values # {} /\ update = None /\ Born(s)
  /\ ops < MaxOps /\ ops' = ops + 1
  /\ update' = [spike |-> s, copy |-> axoplasm[s]]
  /\ UNCHANGED <<train, spike, spikeStatus, task, checks, starting, tx,
                 axoplasm, object, verdict, recounted>>

UpdateWrite ==
  /\ update # None /\ ~Locked(update.spike)
  /\ \E v \in Values :
       axoplasm' = [axoplasm EXCEPT ![update.spike] = [update.copy EXCEPT !.key = v]]
  /\ recounted' = IF axoplasm[update.spike].loop_count = update.copy.loop_count
                  THEN recounted ELSE recounted \cup {update.spike}
  /\ update' = None
  /\ UNCHANGED <<vars, object, verdict>>

-----------------------------------------------------------------------------
(* What touches no axoplasm. *)
Elsewhere ==
  /\ \/ \E t \in TrainIds : StartTrain(t)
     \/ \E w \in Workers, t \in TrainIds : DispatchBegin(w, t)
     \/ \E s \in SpikeIds : FinishTask(s)
     \/ Intervention
     \/ Idle
  /\ UNCHANGED <<axoplasm, object, verdict, agent>>

LogicNext ==
  \/ \E s \in SpikeIds : Look(s)
  \/ \E s \in SpikeIds : Decide(s)
  \/ \E w \in Workers : Dispatch(w)
  \/ \E s \in SpikeIds : Fire(s)
  \/ \E s \in SpikeIds : FinishLogic(s)
  \/ \E s \in SpikeIds : FinishOther(s)
  \/ \E s \in SpikeIds : UpdateRead(s)
  \/ UpdateWrite
  \/ Elsewhere

LogicSpec == LogicInit /\ [][LogicNext]_logicVars

-----------------------------------------------------------------------------
(* Where a spike comes from, and the spikes on its way there.              *)
From(s) == IF ~Born(s) THEN None
           ELSE IF spike[s].provenance # None THEN spike[s].provenance
           ELSE IF spike[s].train # 0 THEN spike[s].train ELSE None
Way[s \in SpikeIds] == IF From(s) = None THEN {} ELSE {From(s)} \cup Way[From(s)]

Rounds(s) == {a \in Way[s] : Retries(spike[a].neuron) /\ spikeStatus[a] = "SUCCESS"}

(* A retry node lets a train go round at most max_retries times, whatever  *)
(* is crashed, stopped or run again on the way, unless an agent has        *)
(* written an older count over its; undisturbed it does so exactly that    *)
(* often before it takes its FAILURE wire.  All retry nodes of a way share *)
(* the count, also those of the trains it delegates to.                    *)
RetriesCounted ==
  \A s \in SpikeIds : Born(s) /\ Retries(spike[s].neuron) =>
    LET n == spike[s].neuron
    IN /\ spikeStatus[s] = "SUCCESS" /\ Way[s] \cap recounted = {}
            => Fluid.loop_count + Cardinality(Rounds(s)) < Logic[n].max
       /\ ops = 0 /\ spikeStatus[s] = "FAILED" => Fluid.loop_count + Cardinality(Rounds(s)) >= Logic[n].max
=============================================================================
