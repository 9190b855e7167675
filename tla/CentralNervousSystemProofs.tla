--------------------- MODULE CentralNervousSystemProofs ---------------------
(***************************************************************************)
(* For every graph, number of workers and pattern of interventions: the    *)
(* tables keep their types, open dispatches do not get into each other's   *)
(* way and no wire is followed twice (IInv).  On top of IInv, and under a  *)
(* hypothesis on the interventions each: the Begin Plays are visited once, *)
(* containers sleep as long as their child trains live, wires match        *)
(* status, and no finished spike is forgotten.  With the logic nodes and   *)
(* agents that write the axoplasm (LogicSpec): no train goes round a retry *)
(* node more often than its limit.                                         *)
(***************************************************************************)
EXTENDS PathwayLogicNode, TLAPS, NaturalsInduction, WellFoundedInduction,
        FiniteSetTheorems

IInv == TypeOK /\ ReferencesHold /\ DispatchesApart /\ FollowedOnce

(* The constants, as facts a proof can use without opening the assumption. *)
LEMMA Constants ==
  /\ None \notin SpikeIds /\ None \notin Status
  /\ SpikeIds \subseteq TrainIds /\ 0 \in TrainIds /\ 0 \notin SpikeIds
  /\ TrainIds = SpikeIds \cup {0}
  /\ None # 0 => None \notin TrainIds
BY ConstantsAssumption DEF SpikeIds, TrainIds

(* What one visit to a neuron creates: rows of the right type, and a row   *)
(* is told from the others of the visit by its target alone.               *)
LEMMA BirthsFacts ==
  ASSUME NEW n \in Neurons, NEW from \in SpikeIds \cup {None},
         NEW online \in SUBSET Agents, NEW b \in Births(n, from, online)
  PROVE  /\ b \in [neuron : Neurons, provenance : SpikeIds \cup {None},
                   target : Agents \cup {None}, status : Status]
         /\ b.neuron = n /\ b.provenance = from
         /\ \A c \in Births(n, from, online) : b.target = c.target => b = c
<1>1. \A st1, st2 \in SeedStatus(n, online) : st1 = st2
  BY DEF SeedStatus
<1>2. SeedStatus(n, online) \subseteq Status /\ "PENDING" \in Status
  BY DEF SeedStatus, Status
<1>3. CloneTargets(n, online) \subseteq Agents
  BY DEF CloneTargets
<1>4. None \notin Agents
  BY ConstantsAssumption
<1>5. PICK st, a :
        \/ st \in SeedStatus(n, online) /\ b = Birth(n, from, None, st)
        \/ a \in CloneTargets(n, online) /\ b = Birth(n, from, a, "PENDING")
  BY DEF Births
<1>6. ASSUME NEW c \in Births(n, from, online), b.target = c.target
      PROVE  b = c
  <2>1. PICK st2, a2 :
          \/ st2 \in SeedStatus(n, online) /\ c = Birth(n, from, None, st2)
          \/ a2 \in CloneTargets(n, online) /\ c = Birth(n, from, a2, "PENDING")
    BY DEF Births
  <2> QED BY <1>1, <1>3, <1>4, <1>5, <1>6, <2>1 DEF Birth
<1> QED BY <1>2, <1>3, <1>5, <1>6 DEF Birth

BirthRow == [neuron : Neurons, provenance : SpikeIds \cup {None},
             target : Agents \cup {None}, status : Status]

(* What a dispatch creates: no two births look alike, and one that has a   *)
(* provenance hangs below a spike the dispatch picked.                     *)
LEMMA NewBirthsFacts ==
  ASSUME NEW d \in Tx, NEW online \in SUBSET Agents,
         NEW b \in NewBirths(d, online)
  PROVE  /\ b \in BirthRow
         /\ b.provenance # None => b.provenance \in d.picks
         /\ \A c \in NewBirths(d, online) :
              /\ b.neuron = c.neuron
              /\ b.provenance = c.provenance
              /\ b.target = c.target
              => b = c
<1>1. ASSUME NEW c \in NewBirths(d, online)
      PROVE  \E n \in Neurons, from \in SpikeIds \cup {None} :
               /\ c \in Births(n, from, online)
               /\ from # None => from \in d.picks
  <2>1. CASE d.kind = "roots"
    BY <1>1, <2>1, ConstantsAssumption DEF NewBirths, RootBirths
  <2>2. CASE d.kind # "roots"
    <3>1. PICK s \in d.picks : \E a \in Triggered(s) : c \in Births(a.target, s, online)
      BY <1>1, <2>2 DEF NewBirths, WaveBirths
    <3>2. PICK a \in Axons : c \in Births(a.target, s, online)
      BY <3>1 DEF Triggered
    <3>3. a.target \in Neurons /\ s \in SpikeIds
      BY <3>1, ConstantsAssumption DEF Tx
    <3> QED BY <3>2, <3>3, <3>1
  <2> QED BY <2>1, <2>2
<1>2. PICK n \in Neurons, from \in SpikeIds \cup {None} :
        b \in Births(n, from, online) /\ (from # None => from \in d.picks)
  BY <1>1
<1>3. /\ b \in BirthRow
      /\ b.neuron = n /\ b.provenance = from
      /\ \A c \in Births(n, from, online) : b.target = c.target => b = c
  BY <1>2, BirthsFacts DEF BirthRow
<1>4. ASSUME NEW c \in NewBirths(d, online), b.neuron = c.neuron,
             b.provenance = c.provenance, b.target = c.target
      PROVE  b = c
  <2>1. PICK n2 \in Neurons, from2 \in SpikeIds \cup {None} :
          c \in Births(n2, from2, online)
    BY <1>1, <1>4
  <2>2. c.neuron = n2 /\ c.provenance = from2
    BY <2>1, BirthsFacts
  <2> QED BY <1>3, <1>4, <2>1, <2>2
<1> QED BY <1>2, <1>3, <1>4

(* A numbering gives each birth one number of its own.                     *)
LEMMA NumberingFacts ==
  ASSUME NEW ids, NEW new, Bijection(ids, new) # {}
  PROVE  /\ Numbering(ids, new) \in [ids -> new]
         /\ \A b \in new : \E i \in ids : Numbering(ids, new)[i] = b
         /\ \A i, j \in ids :
              Numbering(ids, new)[i] = Numbering(ids, new)[j] => i = j
<1>1. Numbering(ids, new) \in Bijection(ids, new)
  BY DEF Numbering
<1> QED BY <1>1 DEF Bijection, Injection, Surjection, IsInjective

LEMMA InitIInv == Init => IInv
<1> SUFFICES ASSUME Init PROVE IInv
  OBVIOUS
<1>1. TypeOK
  BY Constants, ConstantsAssumption DEF Init, TypeOK, Status, Task, Born
<1>2. ReferencesHold /\ DispatchesApart /\ FollowedOnce
  BY Constants DEF Init, ReferencesHold, DispatchesApart, FollowedOnce, Born, Exists
<1> QED BY <1>1, <1>2 DEF IInv

-----------------------------------------------------------------------------
(* An action that leaves the rows and the open dispatches alone keeps what *)
(* IInv says of them.                                                      *)
LEMMA RowsKept ==
  ASSUME DispatchesApart, FollowedOnce, spike' = spike, tx' = tx
  PROVE  DispatchesApart' /\ FollowedOnce'
BY DEF DispatchesApart, FollowedOnce, Children, Born

LEMMA StartTrainIInv ==
  ASSUME IInv, NEW t \in TrainIds, StartTrain(t) PROVE IInv'
<1> USE DEF IInv
<1>1. TypeOK'
  BY DEF StartTrain, TypeOK, Status, Born
<1>2. "RUNNING" # None /\ "CREATED" # None
  BY ConstantsAssumption DEF Status
<1>3. ReferencesHold'
  <2>1. \A u \in TrainIds : Exists(u)' = Exists(u)
    BY <1>2 DEF StartTrain, TypeOK, Exists
  <2>2. \A u \in TrainIds : checks'[u] > 0 => checks[u] > 0 \/ Exists(u)
    BY <1>2 DEF StartTrain, TypeOK, Exists
  <2>3. UNCHANGED <<spike, task, tx>>
    BY DEF StartTrain
  <2>4. /\ \A s \in SpikeIds : Born(s) => spike[s].train \in TrainIds
        /\ \A w \in Workers : tx[w] # None => tx[w].train \in TrainIds
        /\ SpikeIds \subseteq TrainIds
    BY Constants DEF TypeOK, Born, SpikeRow, Tx
  <2> QED BY <2>1, <2>2, <2>3, <2>4 DEF ReferencesHold, Born
<1> QED BY <1>1, <1>3, RowsKept DEF StartTrain

LEMMA DispatchBeginIInv ==
  ASSUME IInv, NEW w \in Workers, NEW t \in TrainIds, DispatchBegin(w, t)
  PROVE  IInv'
<1> USE DEF IInv
<1>1. PICK kind \in {"halt", "roots", "wave"}, locked \in SUBSET SpikeIds,
           picks \in SUBSET SpikeIds :
        /\ tx' = [tx EXCEPT ![w] = [train |-> t, kind |-> kind, seen |-> train[t],
                                   locked |-> locked, picks |-> picks]]
        /\ picks \subseteq locked
        /\ \A s \in locked : ~Locked(s)
        /\ \A s \in picks : Born(s) /\ Children(s) = {}
  <2>1. /\ Finished(t) \in SUBSET SpikeIds /\ Unprocessed(t) \in SUBSET SpikeIds
        /\ Unprocessed(t) \subseteq Finished(t)
        /\ \A s \in Unprocessed(t) : Born(s) /\ Children(s) = {}
    BY DEF Finished, Unprocessed, SpikesOf
  <2> QED BY <2>1 DEF DispatchBegin
<1>2. /\ UNCHANGED <<train, spike, spikeStatus, task, starting, ops>>
      /\ checks' = [checks EXCEPT ![t] = @ - 1] /\ checks[t] > 0
  BY DEF DispatchBegin
<1>3. train[t] \in Status /\ Exists(t)
  BY <1>2 DEF TypeOK, ReferencesHold, Exists
<1>4. TypeOK'
  BY <1>1, <1>2, <1>3 DEF TypeOK, Tx, Born
<1>5. ReferencesHold'
  BY <1>1, <1>2, <1>3 DEF TypeOK, ReferencesHold, Exists, Born
<1>6. FollowedOnce'
  BY <1>2 DEF FollowedOnce, Born
<1>7. DispatchesApart'
  <2>1. \A v \in Workers : v # w => tx'[v] = tx[v]
    BY <1>1 DEF TypeOK
  <2>2. /\ tx'[w].locked = locked /\ tx'[w].picks = picks
        /\ \A s \in SpikeIds : Born(s)' = Born(s) /\ Children(s)' = Children(s)
    BY <1>1, <1>2 DEF TypeOK, Born, Children
  <2>3. \A v \in Workers : v # w /\ tx[v] # None => tx[v].locked \cap locked = {}
    BY <1>1 DEF Locked
  <2> HIDE DEF IInv
  <2>4. ASSUME NEW v \in Workers, tx'[v] # None
        PROVE  /\ tx'[v].picks \subseteq tx'[v].locked
               /\ \A s \in tx'[v].picks : Born(s)' /\ Children(s)' = {}
    <3>1. CASE v = w
      BY <1>1, <2>2, <3>1
    <3>2. CASE v # w
      BY <2>1, <2>2, <2>4, <3>2 DEF IInv, DispatchesApart, TypeOK, Tx
    <3> QED BY <3>1, <3>2
  <2>5. ASSUME NEW v \in Workers, NEW u \in Workers, v # u,
               tx'[v] # None, tx'[u] # None
        PROVE  tx'[v].locked \cap tx'[u].locked = {}
    BY <2>1, <2>2, <2>3, <2>5 DEF IInv, DispatchesApart
  <2> QED BY <2>4, <2>5 DEF DispatchesApart
<1> QED BY <1>4, <1>5, <1>6, <1>7

LEMMA FireStartIInv ==
  ASSUME IInv, NEW s \in SpikeIds, FireStart(s) PROVE IInv'
<1> USE DEF IInv
<1>1. TypeOK'
  BY ConstantsAssumption DEF FireStart, TypeOK, ReferencesHold, Status, Task, Born
<1>2. ReferencesHold'
  BY DEF FireStart, TypeOK, ReferencesHold, Exists, Born
<1> QED BY <1>1, <1>2, RowsKept DEF FireStart

LEMMA FinishWriteIInv ==
  ASSUME IInv, NEW s \in SpikeIds, FinishWrite(s) PROVE IInv'
<1> USE DEF IInv
<1>1. TypeOK'
  BY ConstantsAssumption DEF FinishWrite, TypeOK, ReferencesHold, Status, Task, Born
<1>2. ReferencesHold'
  BY DEF FinishWrite, TypeOK, ReferencesHold, Exists, Born
<1> QED BY <1>1, <1>2, RowsKept DEF FinishWrite

LEMMA StaleWriteIInv ==
  ASSUME IInv, NEW s \in SpikeIds, StaleWrite(s) PROVE IInv'
<1> USE DEF IInv
<1>1. PICK st \in {"RUNNING", spikeStatus[s]}, tk \in {"running", "written"} :
        /\ spikeStatus' = [spikeStatus EXCEPT ![s] = st]
        /\ task' = [task EXCEPT ![s] = tk]
  BY DEF StaleWrite
<1>2. st \in Status \ {None} /\ tk \in Task /\ Born(s)
  BY ConstantsAssumption DEF StaleWrite, TypeOK, Born, Status, Task
<1>3. TypeOK'
  BY <1>1, <1>2 DEF StaleWrite, TypeOK, Born
<1>4. ReferencesHold'
  BY <1>1, <1>2 DEF StaleWrite, TypeOK, ReferencesHold, Exists, Born
<1> QED BY <1>3, <1>4, RowsKept DEF StaleWrite

LEMMA FinishTaskIInv ==
  ASSUME IInv, NEW s \in SpikeIds, FinishTask(s) PROVE IInv'
<1> USE DEF IInv
<1>1. spike[s].train \in TrainIds /\ Exists(spike[s].train)
  BY DEF FinishTask, TypeOK, ReferencesHold, SpikeRow, Born
<1>2. TypeOK'
  BY <1>1 DEF FinishTask, TypeOK, Task, Born
<1>3. ReferencesHold'
  BY <1>1 DEF FinishTask, TypeOK, ReferencesHold, Exists, Born
<1> QED BY <1>2, <1>3, RowsKept DEF FinishTask

LEMMA TerminateIInv ==
  ASSUME IInv, NEW t \in TrainIds, Terminate(t) PROVE IInv'
<1> USE DEF IInv
<1>1. Heads(t) \subseteq SpikeIds /\ (\A s \in Heads(t) : Born(s))
  BY DEF Heads, SpikesOf
<1>2. WakesParent(t, "FAILED") =>
        /\ t \in SpikeIds /\ Born(t)
        /\ spike[t].train \in TrainIds /\ Exists(spike[t].train)
  BY Constants DEF Terminate, WakesParent, TypeOK, ReferencesHold, SpikeRow, Born
<1>3. {"FAILED", "ABORTED"} \subseteq Status \ {None}
  BY ConstantsAssumption DEF Status
<1>4. /\ train' = [train EXCEPT ![t] = "FAILED"] /\ Exists(t)
      /\ UNCHANGED <<spike, task, starting, tx>>
      /\ \/ checks' = checks
         \/ /\ WakesParent(t, "FAILED")
            /\ checks' = [checks EXCEPT ![spike[t].train] = @ + 1]
  BY DEF Terminate
<1>5. /\ spikeStatus' \in [SpikeIds -> Status \cup {None}]
      /\ \A s \in SpikeIds : Born(s) <=> spikeStatus'[s] # None
  BY <1>1, <1>2, <1>3 DEF Terminate, TypeOK, Born
<1>6. ops' \in 0 .. MaxOps
  BY ConstantsAssumption DEF Terminate, Intervene, TypeOK
<1>7. TypeOK'
  BY <1>2, <1>3, <1>4, <1>5, <1>6 DEF TypeOK, Born
<1>8. ReferencesHold'
  BY <1>2, <1>3, <1>4 DEF TypeOK, ReferencesHold, Exists, Born
<1> QED BY <1>4, <1>7, <1>8, RowsKept

LEMMA StopGracefullyIInv ==
  ASSUME IInv, NEW t \in TrainIds, StopGracefully(t) PROVE IInv'
<1> USE DEF IInv
<1>1. Heads(t) \subseteq SpikeIds /\ (\A s \in Heads(t) : Born(s))
  BY DEF Heads, SpikesOf
<1>2. "STOPPING" \in Status \ {None}
  BY ConstantsAssumption DEF Status
<1>3. ops' \in 0 .. MaxOps
  BY ConstantsAssumption DEF StopGracefully, Intervene, TypeOK
<1>4. TypeOK'
  BY <1>1, <1>2, <1>3 DEF StopGracefully, TypeOK, Born
<1>5. ReferencesHold'
  BY <1>2 DEF StopGracefully, TypeOK, ReferencesHold, Exists, Born
<1> QED BY <1>4, <1>5, RowsKept DEF StopGracefully

LEMMA PollIInv ==
  ASSUME IInv, NEW stale \in SUBSET Pending(0), Poll(stale) PROVE IInv'
<1> USE DEF IInv
<1>1. Heads(0) \subseteq SpikeIds /\ (\A s \in Heads(0) : Born(s))
  BY DEF Heads, SpikesOf
<1>2. "FAILED" \in Status \ {None} /\ Exists(0) /\ 0 \in TrainIds
  BY Constants, ConstantsAssumption DEF Status, Exists, Poll
<1>3. TypeOK'
  BY <1>1, <1>2 DEF Poll, TypeOK, Born
<1>4. ReferencesHold'
  BY <1>2 DEF Poll, TypeOK, ReferencesHold, Exists, Born
<1> QED BY <1>3, <1>4, RowsKept DEF Poll

LEMMA RerunIInv ==
  ASSUME IInv, NEW s \in SpikeIds, Rerun(s) PROVE IInv'
<1> USE DEF IInv
<1>1. Born(s) /\ "PENDING" \in Status \ {None} /\ "queued" \in Task
  BY ConstantsAssumption DEF Rerun, ReferencesHold, Status, Task
<1>2. ops' \in 0 .. MaxOps
  BY ConstantsAssumption DEF Rerun, Intervene, TypeOK
<1>3. TypeOK'
  BY <1>1, <1>2 DEF Rerun, TypeOK, Born
<1>4. ReferencesHold'
  BY <1>1 DEF Rerun, TypeOK, ReferencesHold, Exists, Born
<1> QED BY <1>3, <1>4, RowsKept DEF Rerun

(* The death of a task, noticed or not, of a dispatch, of a callback.      *)
LEMMA CrashIInv ==
  ASSUME IInv, Intervene("crash") \/ Intervene("vanish"),
         UNCHANGED <<train, spike, spikeStatus, checks>>,
         starting' \subseteq starting,
         \A s \in SpikeIds : task'[s] # task[s] => Born(s),
         task' \in [SpikeIds -> Task],
         tx' \in [Workers -> Tx \cup {None}],
         \A w \in Workers : tx'[w] \in {tx[w], None}
  PROVE  IInv'
<1> USE DEF IInv
<1>1. ops' \in 0 .. MaxOps
  BY ConstantsAssumption DEF Intervene, TypeOK
<1>2. TypeOK'
  BY <1>1 DEF TypeOK, Born
<1>3. ReferencesHold'
  BY DEF TypeOK, ReferencesHold, Exists, Born
<1>4. DispatchesApart'
  BY DEF TypeOK, DispatchesApart, Children, Born
<1>5. FollowedOnce'
  BY DEF FollowedOnce, Born
<1> QED BY <1>2, <1>3, <1>4, <1>5

-----------------------------------------------------------------------------
(* What a dispatch commits, row by row. *)

(* The births a dispatch d commits, born[i] under number i, and the status *)
(* it gives: to its train if final, to the parent spike if wakes.          *)
Committed(d, ids, born, final, wakes) ==
  /\ spike' = [s \in SpikeIds |->
       IF s \in ids
       THEN [train |-> d.train, neuron |-> born[s].neuron,
             provenance |-> born[s].provenance, target |-> born[s].target]
       ELSE spike[s]]
  /\ spikeStatus' = [s \in SpikeIds |->
       IF s \in ids THEN born[s].status
       ELSE IF wakes /\ s = d.train THEN FinalStatus(d)
       ELSE spikeStatus[s]]
  /\ train' = [t \in TrainIds |->
       IF t \in {s \in ids : born[s].status = "DELEGATED"} THEN "CREATED"
       ELSE IF final /\ t = d.train THEN FinalStatus(d)
       ELSE train[t]]
  /\ task' = [s \in SpikeIds |->
       IF s \in {r \in ids : born[r].status = "PENDING"} THEN "queued"
       ELSE task[s]]
  /\ starting' = starting \cup {s \in ids : born[s].status = "DELEGATED"}
  /\ checks' = [t \in TrainIds |->
       IF wakes /\ t = spike[d.train].train THEN checks[t] + 1 ELSE checks[t]]

(* The numbers are free, and each birth has exactly one.                   *)
Numbers(ids, born, new) ==
  /\ \A i \in ids : i \in SpikeIds /\ ~Born(i) /\ born[i] \in new
  /\ \A i, j \in ids : born[i] = born[j] => i = j
  /\ \A b \in new : \E i \in ids : born[i] = b

LEMMA CommitFacts ==
  ASSUME IInv, NEW w \in Workers, DispatchCommit(w)
  PROVE  \E online, ids, born, final, wakes :
           /\ online \in SUBSET Agents /\ ids \in SUBSET SpikeIds
           /\ Fresh(ids) /\ Numbers(ids, born, NewBirths(tx[w], online))
           /\ final <=> Finalizes(tx[w], NewBirths(tx[w], online))
           /\ wakes <=> final /\ WakesParent(tx[w].train, FinalStatus(tx[w]))
           /\ wakes => ~Locked(tx[w].train)
           /\ Committed(tx[w], ids, born, final, wakes)
<1> DEFINE d == tx[w]
<1>1. PICK online \in SUBSET Agents, ids \in SUBSET SpikeIds :
        /\ Fresh(ids)
        /\ Bijection(ids, NewBirths(d, online)) # {}
        /\ Commit(d, ids, Numbering(ids, NewBirths(d, online)),
                  Finalizes(d, NewBirths(d, online)))
  BY DEF DispatchCommit
<1> DEFINE new   == NewBirths(d, online)
           born  == Numbering(ids, new)
           final == Finalizes(d, new)
           wakes == final /\ WakesParent(d.train, FinalStatus(d))
<1>2. Numbers(ids, born, new)
  <2>1. /\ born \in [ids -> new] /\ \A i, j \in ids : born[i] = born[j] => i = j
        /\ \A b \in new : \E i \in ids : born[i] = b
    BY <1>1, NumberingFacts
  <2>2. \A i \in ids : i \in SpikeIds /\ ~Born(i)
    BY <1>1 DEF Fresh
  <2> HIDE DEF born, new
  <2> QED BY <2>1, <2>2 DEF Numbers
<1>4. Committed(d, ids, born, final, wakes) /\ (wakes => ~Locked(d.train))
  <2> HIDE DEF born, new
  <2> QED BY <1>1 DEF Commit, Committed, born, new
<1> HIDE DEF d, new, born, final, wakes
<1>5. /\ final <=> Finalizes(d, new)
      /\ wakes <=> final /\ WakesParent(d.train, FinalStatus(d))
  BY DEF final, wakes
<1> QED BY <1>1, <1>2, <1>4, <1>5, Zenon DEF d, new

(* A dispatch and the train it wakes are in the tables.                    *)
LEMMA DispatchFacts ==
  ASSUME IInv, NEW w \in Workers, tx[w] # None
  PROVE  /\ tx[w] \in Tx /\ tx[w].train \in TrainIds /\ Exists(tx[w].train)
         /\ FinalStatus(tx[w]) \in {"SUCCESS", "STOPPED"}
         /\ WakesParent(tx[w].train, FinalStatus(tx[w])) =>
              /\ tx[w].train \in SpikeIds /\ Born(tx[w].train)
              /\ spike[tx[w].train].train \in TrainIds
              /\ Exists(spike[tx[w].train].train)
BY Constants
   DEF WakesParent, FinalStatus, Status, Tx, IInv, TypeOK, ReferencesHold, SpikeRow, Born

LEMMA DispatchCommitIInv ==
  ASSUME IInv, NEW w \in Workers, DispatchCommit(w) PROVE IInv'
<1> DEFINE d == tx[w]
<1>1. PICK online, ids, born, final, wakes :
        /\ online \in SUBSET Agents /\ ids \in SUBSET SpikeIds
        /\ Numbers(ids, born, NewBirths(d, online))
        /\ wakes <=> final /\ WakesParent(d.train, FinalStatus(d))
        /\ Committed(d, ids, born, final, wakes)
  BY CommitFacts
<1>2. /\ d \in Tx /\ d # None /\ Exists(d.train)
      /\ tx' = [tx EXCEPT ![w] = None] /\ ops' = ops
  BY DEF DispatchCommit, IInv, TypeOK, ReferencesHold
<1>3. \A i \in ids :
        /\ born[i] \in BirthRow
        /\ born[i].provenance # None => born[i].provenance \in d.picks
        /\ \A j \in ids :
             /\ born[i].neuron = born[j].neuron
             /\ born[i].provenance = born[j].provenance
             /\ born[i].target = born[j].target
             => i = j
  <2> HIDE DEF d
  <2>1. \A b \in NewBirths(d, online) :
          /\ b \in BirthRow
          /\ b.provenance # None => b.provenance \in d.picks
          /\ \A c \in NewBirths(d, online) :
               /\ b.neuron = c.neuron
               /\ b.provenance = c.provenance
               /\ b.target = c.target
               => b = c
    BY <1>1, <1>2, NewBirthsFacts
  <2> QED BY <1>1, <2>1 DEF Numbers
<1>4. \A i \in ids : i \in SpikeIds /\ ~Born(i)
  BY <1>1 DEF Numbers
<1>5. /\ wakes => d.train \in SpikeIds /\ Born(d.train)
                 /\ spike[d.train].train \in TrainIds
                 /\ Exists(spike[d.train].train)
      /\ FinalStatus(d) \in Status
      /\ d.train \in TrainIds
  BY <1>1, <1>2, DispatchFacts DEF Status
<1>6. Committed(d, ids, born, final, wakes)
  BY <1>1
<1> USE DEF Committed
<1> HIDE DEF d
<1>7. /\ \A i \in ids : spike'[i] \in SpikeRow
      /\ \A s \in SpikeIds \ ids : spike'[s] = spike[s]
      /\ \A s \in SpikeIds : Born(s)' <=> Born(s) \/ s \in ids
  BY <1>3, <1>4, <1>5, <1>6, NoneAssumption DEF BirthRow, SpikeRow, Born
<1>8. /\ None \notin Status /\ "CREATED" \in Status /\ "queued" \in Task
      /\ SpikeIds \subseteq TrainIds
  BY Constants, ConstantsAssumption DEF Status, Task
<1>9. TypeOK'
  <2>1. /\ spike' \in [SpikeIds -> SpikeRow \cup {None}]
        /\ task' \in [SpikeIds -> Task]
        /\ starting' \subseteq TrainIds
    BY <1>4, <1>6, <1>7, <1>8 DEF IInv, TypeOK
  <2>2. /\ spikeStatus' \in [SpikeIds -> Status \cup {None}]
        /\ \A s \in SpikeIds : Born(s)' <=> spikeStatus'[s] # None
    BY <1>3, <1>4, <1>5, <1>6, <1>7, <1>8 DEF IInv, TypeOK, BirthRow
  <2>3. /\ train' \in [TrainIds -> Status \cup {None}]
        /\ checks' \in [TrainIds -> Nat]
    BY <1>5, <1>6, <1>8 DEF IInv, TypeOK
  <2>4. tx' \in [Workers -> Tx \cup {None}] /\ ops' \in 0 .. MaxOps
    BY <1>2 DEF IInv, TypeOK
  <2> QED BY <2>1, <2>2, <2>3, <2>4 DEF TypeOK, Born
<1>10. ReferencesHold'
  <2>1. \A t \in TrainIds : Exists(t) => train'[t] # None
    BY <1>5, <1>6, <1>8 DEF Exists
  <2>2. \A s \in SpikeIds : Born(s)' => train'[spike'[s].train] # None
    <3>1. \A i \in ids : spike'[i].train = d.train
      BY <1>4, <1>6
    <3>2. \A s \in SpikeIds : Born(s) => spike[s].train \in TrainIds /\ Exists(spike[s].train)
      BY DEF IInv, TypeOK, ReferencesHold, SpikeRow, Born
    <3> QED BY <1>2, <1>5, <1>7, <2>1, <3>1, <3>2 DEF d
  <2>3. \A t \in SpikeIds : Exists(t)' => Born(t)'
    BY <1>2, <1>6, <1>7, <1>8 DEF IInv, ReferencesHold, Exists, d
  <2>4. \A s \in SpikeIds : task'[s] # "idle" => Born(s)'
    BY <1>6, <1>7 DEF IInv, ReferencesHold
  <2>5. \A t \in TrainIds : checks'[t] > 0 => Exists(t)'
    BY <1>5, <1>6, <2>1 DEF IInv, ReferencesHold, Exists
  <2>6. \A v \in Workers : tx'[v] # None => train'[tx'[v].train] # None
    BY <1>2, <2>1 DEF IInv, TypeOK, ReferencesHold, Tx
  <2> QED BY <2>2, <2>3, <2>4, <2>5, <2>6 DEF ReferencesHold, Exists, Born
<1>11. DispatchesApart'
  <2>1. \A v \in Workers : tx'[v] # None => v # w /\ tx'[v] = tx[v]
    BY <1>2 DEF IInv, TypeOK
  <2>2. ASSUME NEW v \in Workers, v # w, tx[v] # None, NEW s \in tx[v].picks
        PROVE  Born(s)' /\ Children(s)' = {}
    <3>1. s \in SpikeIds /\ Born(s) /\ Children(s) = {} /\ s \notin d.picks
      BY <1>2, <2>2 DEF IInv, TypeOK, DispatchesApart, Tx, d
    <3>2. s # None
      BY <3>1, Constants
    <3>3. ASSUME NEW c \in SpikeIds, Born(c)', spike'[c].provenance = s
          PROVE  FALSE
      <4>1. CASE c \in ids
        BY <1>3, <1>6, <3>1, <3>2, <3>3, <4>1
      <4>2. CASE c \notin ids
        BY <1>7, <3>1, <3>3, <4>2 DEF Children
      <4> QED BY <4>1, <4>2
    <3> QED BY <1>7, <3>1, <3>3 DEF Children, Born
  <2> QED BY <2>1, <2>2 DEF IInv, DispatchesApart, Children, Born
<1>12. FollowedOnce'
  <2> SUFFICES ASSUME NEW s1 \in SpikeIds, NEW s2 \in SpikeIds, Born(s1)', Born(s2)',
                      s1 # s2, spike'[s1].provenance # None, spike'[s1] = spike'[s2]
               PROVE  FALSE
    BY DEF FollowedOnce, Born
  <2>1. \A i \in ids : /\ spike'[i].neuron = born[i].neuron
                       /\ spike'[i].provenance = born[i].provenance
                       /\ spike'[i].target = born[i].target
    BY <1>4, <1>6
  <2>2. \A p \in d.picks : Children(p) = {}
    BY <1>2 DEF IInv, DispatchesApart, d
  <2>3. ASSUME NEW i \in ids, NEW j \in SpikeIds \ ids, Born(j)',
               spike'[i] = spike'[j], spike'[i].provenance # None
        PROVE  FALSE
    <3>1. Born(j) /\ spike[j].provenance = born[i].provenance
      BY <1>7, <2>1, <2>3
    <3> QED BY <1>3, <2>1, <2>2, <2>3, <3>1 DEF Children
  <2>4. CASE s1 \in ids /\ s2 \in ids
    BY <1>3, <2>1, <2>4
  <2>5. CASE s1 \notin ids /\ s2 \notin ids
    BY <1>7, <2>5 DEF IInv, FollowedOnce
  <2> QED BY <2>3, <2>4, <2>5
<1> QED BY <1>9, <1>10, <1>11, <1>12 DEF IInv

-----------------------------------------------------------------------------
LEMMA NextIInv == IInv /\ [Next]_vars => IInv'
<1> SUFFICES ASSUME IInv, [Next]_vars PROVE IInv'
  OBVIOUS
<1>1. ASSUME NEW t \in TrainIds, StartTrain(t) PROVE IInv'
  BY <1>1, StartTrainIInv
<1>2. ASSUME NEW w \in Workers, NEW t \in TrainIds, DispatchBegin(w, t) PROVE IInv'
  BY <1>2, DispatchBeginIInv
<1>3. ASSUME NEW w \in Workers, DispatchCommit(w) PROVE IInv'
  BY <1>3, DispatchCommitIInv
<1>4. ASSUME NEW s \in SpikeIds, FireStart(s) PROVE IInv'
  BY <1>4, FireStartIInv
<1>5. ASSUME NEW s \in SpikeIds, FinishWrite(s) PROVE IInv'
  BY <1>5, FinishWriteIInv
<1>6. ASSUME NEW s \in SpikeIds, FinishTask(s) PROVE IInv'
  BY <1>6, FinishTaskIInv
<1>7. ASSUME NEW t \in TrainIds, Terminate(t) PROVE IInv'
  BY <1>7, TerminateIInv
<1>8. ASSUME NEW t \in TrainIds, StopGracefully(t) PROVE IInv'
  BY <1>8, StopGracefullyIInv
<1>9. ASSUME PollSome PROVE IInv'
  BY <1>9, PollIInv DEF PollSome
<1>10. ASSUME NEW s \in SpikeIds, Rerun(s) PROVE IInv'
  BY <1>10, RerunIInv
<1>11. ASSUME NEW s \in SpikeIds, CrashTask(s) \/ LoseWorker(s) PROVE IInv'
  <2>1. task[s] # "idle" /\ {"failed", "lost"} \subseteq Task
    BY <1>11 DEF CrashTask, LoseWorker, Task
  <2>2. Born(s) /\ task' \in [SpikeIds -> Task]
    BY <1>11, <2>1 DEF CrashTask, LoseWorker, IInv, TypeOK, ReferencesHold
  <2>3. \A r \in SpikeIds : task'[r] # task[r] => Born(r)
    BY <1>11, <2>2 DEF CrashTask, LoseWorker, IInv, TypeOK
  <2>4. /\ Intervene("crash") \/ Intervene("vanish")
        /\ UNCHANGED <<train, spike, spikeStatus, checks, starting, tx>>
        /\ tx \in [Workers -> Tx \cup {None}]
    BY <1>11 DEF CrashTask, LoseWorker, IInv, TypeOK
  <2> QED BY <2>2, <2>3, <2>4, CrashIInv
<1>12. ASSUME NEW w \in Workers, CrashDispatch(w) PROVE IInv'
  <2>1. /\ Intervene("crash")
        /\ UNCHANGED <<train, spike, spikeStatus, task, checks, starting>>
        /\ task \in [SpikeIds -> Task]
        /\ tx' \in [Workers -> Tx \cup {None}]
        /\ \A v \in Workers : tx'[v] \in {tx[v], None}
    BY <1>12 DEF CrashDispatch, IInv, TypeOK
  <2> QED BY <2>1, CrashIInv
<1>13. ASSUME NEW t \in TrainIds, CrashStart(t) PROVE IInv'
  <2>1. /\ Intervene("crash") /\ starting' \subseteq starting
        /\ UNCHANGED <<train, spike, spikeStatus, task, checks, tx>>
        /\ task \in [SpikeIds -> Task] /\ tx \in [Workers -> Tx \cup {None}]
    BY <1>13 DEF CrashStart, IInv, TypeOK
  <2> QED BY <2>1, CrashIInv
<1>14. ASSUME NEW s \in SpikeIds, StaleWrite(s) PROVE IInv'
  BY <1>14, StaleWriteIInv
<1>15. ASSUME UNCHANGED vars PROVE IInv'
  BY <1>15 DEF vars, IInv, TypeOK, ReferencesHold, DispatchesApart, FollowedOnce,
               Exists, Born, Children
<1> QED
  BY <1>1, <1>2, <1>3, <1>4, <1>5, <1>6, <1>7, <1>8, <1>9, <1>10, <1>11,
     <1>12, <1>13, <1>14, <1>15 DEF Next, Engine, Intervention, Idle

LEMMA IInvHolds == Spec => []IInv
BY InitIInv, NextIInv, PTL DEF Spec

(* For every graph, number of workers and sequence of interventions, the   *)
(* tables keep their types: a status column is never left empty or given   *)
(* to a spike that is not there.                                           *)
THEOREM TypeCorrect == Spec => []TypeOK
BY IInvHolds, PTL DEF IInv

(* Two dispatches of one train never decide about the same finished spike, *)
(* and what a dispatch read under its locks still holds when it commits.   *)
THEOREM DispatchIsolation == Spec => []DispatchesApart
BY IInvHolds, PTL DEF IInv

(* No wire of a finished spike is followed twice, whatever overlaps, stops,*)
(* terminates, polls, crashes or runs again.                               *)
THEOREM WiresFollowedOnce == Spec => []FollowedOnce
BY IInvHolds, PTL DEF IInv

-----------------------------------------------------------------------------
(* The Begin Plays.  Polling asks for dispatches of a train that may not   *)
(* have been started yet; whoever else does so has a spike of the train.   *)

Open(w, t) == tx[w] # None /\ tx[w].train = t

(* A train that has not been started is empty and nobody dispatches it.    *)
CreatedIsEmpty(t) ==
  train[t] = "CREATED" =>
    SpikesOf(t) = {} /\ checks[t] = 0 /\ \A w \in Workers : ~Open(w, t)

(* As long as it is empty, it is dispatched once.                          *)
EmptyIsDispatchedOnce(t) ==
  SpikesOf(t) = {} =>
    /\ checks[t] <= 1
    /\ \A w \in Workers : Open(w, t) =>
         checks[t] = 0 /\ \A v \in Workers : Open(v, t) => v = w

RootsMeanEmpty(t) ==
  \A w \in Workers : Open(w, t) /\ tx[w].kind = "roots" => SpikesOf(t) = {}

RootsInv ==
  \A t \in TrainIds : CreatedIsEmpty(t) /\ EmptyIsDispatchedOnce(t) /\ RootsMeanEmpty(t)

LEMMA InitRootsInv == Init => RootsInv /\ RootsOnce
BY Constants, ConstantsAssumption
   DEF Init, RootsInv, CreatedIsEmpty, EmptyIsDispatchedOnce, RootsMeanEmpty, Open, SpikesOf,
       Born, RootsOnce

LEMMA RootsKept ==
  ASSUME RootsInv, RootsOnce, UNCHANGED <<train, spike, checks, tx>>
  PROVE  RootsInv' /\ RootsOnce'
BY DEF RootsInv, CreatedIsEmpty, EmptyIsDispatchedOnce, RootsMeanEmpty, Open, SpikesOf, Born,
       RootsOnce

(* A dispatch more for a train that has spikes.                            *)
LEMMA RootsKeptByCheck ==
  ASSUME IInv, RootsInv, RootsOnce, NEW t \in TrainIds, SpikesOf(t) # {},
         UNCHANGED <<spike, tx>>, checks' = [checks EXCEPT ![t] = @ + 1],
         \A u \in TrainIds : train'[u] = "CREATED" => train[u] = "CREATED"
  PROVE  RootsInv' /\ RootsOnce'
<1>1. \A u \in TrainIds : SpikesOf(u) = {} => checks'[u] = checks[u]
  BY DEF IInv, TypeOK
<1>2. RootsInv'
  BY <1>1
     DEF RootsInv, CreatedIsEmpty, EmptyIsDispatchedOnce, RootsMeanEmpty, Open, SpikesOf, Born
<1> QED BY <1>2 DEF RootsOnce, Born

LEMMA DispatchBeginRoots ==
  ASSUME IInv, RootsInv, RootsOnce, NEW w \in Workers, NEW t \in TrainIds, DispatchBegin(w, t)
  PROVE  RootsInv' /\ RootsOnce'
<1>1. /\ UNCHANGED <<train, spike>> /\ checks[t] > 0 /\ checks[t] \in Nat
      /\ checks' = [checks EXCEPT ![t] = checks[t] - 1] /\ tx[w] = None
  BY DEF DispatchBegin, IInv, TypeOK
<1>2. PICK kind, locked, picks :
        /\ tx' = [tx EXCEPT ![w] = [train |-> t, kind |-> kind, seen |-> train[t],
                                   locked |-> locked, picks |-> picks]]
        /\ kind = "roots" => SpikesOf(t) = {}
  BY DEF DispatchBegin
<1> DEFINE r == [train |-> t, kind |-> kind, seen |-> train[t],
                 locked |-> locked, picks |-> picks]
<1>3. r.train = t /\ r.kind = kind
  OBVIOUS
<1> HIDE DEF r
<1>4. /\ tx'[w] = r /\ \A v \in Workers \ {w} : tx'[v] = tx[v]
      /\ checks'[t] = checks[t] - 1 /\ \A u \in TrainIds \ {t} : checks'[u] = checks[u]
  BY <1>1, <1>2 DEF IInv, TypeOK, r
<1>5. \A u \in TrainIds : SpikesOf(u)' = SpikesOf(u)
  BY <1>1 DEF SpikesOf, Born
<1>6. ASSUME NEW u \in TrainIds, u # t
      PROVE  (CreatedIsEmpty(u) /\ EmptyIsDispatchedOnce(u) /\ RootsMeanEmpty(u))'
  <2>1. /\ \A v \in Workers : Open(v, u)' <=> Open(v, u)
        /\ \A v \in Workers : Open(v, u) => tx'[v] = tx[v]
    BY <1>1, <1>3, <1>4, <1>6 DEF Open
  <2> QED BY <1>1, <1>4, <1>5, <1>6, <2>1
          DEF RootsInv, CreatedIsEmpty, EmptyIsDispatchedOnce, RootsMeanEmpty
<1>7. (CreatedIsEmpty(t) /\ EmptyIsDispatchedOnce(t) /\ RootsMeanEmpty(t))'
  <2>1. train'[t] # "CREATED"
    BY <1>1 DEF RootsInv, CreatedIsEmpty
  <2>2. ASSUME SpikesOf(t) = {}
        PROVE  checks'[t] = 0 /\ \A v \in Workers : Open(v, t)' => v = w
    BY <1>1, <1>4, <2>2 DEF RootsInv, EmptyIsDispatchedOnce, Open
  <2>3. \A v \in Workers : Open(v, t)' /\ tx'[v].kind = "roots" => SpikesOf(t) = {}
    BY <1>2, <1>3, <1>4 DEF RootsInv, RootsMeanEmpty, Open
  <2> QED BY <1>5, <2>1, <2>2, <2>3 DEF CreatedIsEmpty, EmptyIsDispatchedOnce, RootsMeanEmpty
<1>8. RootsInv'
  BY <1>6, <1>7 DEF RootsInv
<1> QED BY <1>1, <1>8 DEF RootsOnce, Born

LEMMA DispatchCommitRoots ==
  ASSUME IInv, IInv', RootsInv, RootsOnce, NEW w \in Workers, DispatchCommit(w)
  PROVE  RootsInv' /\ RootsOnce'
<1> DEFINE d == tx[w]
<1>1. PICK online, ids, born, final, wakes :
        /\ online \in SUBSET Agents /\ ids \in SUBSET SpikeIds
        /\ Numbers(ids, born, NewBirths(d, online))
        /\ wakes <=> final /\ WakesParent(d.train, FinalStatus(d))
        /\ Committed(d, ids, born, final, wakes)
  BY CommitFacts
<1>2. /\ d \in Tx /\ d # None /\ d.train \in TrainIds /\ Exists(d.train)
      /\ FinalStatus(d) \in {"SUCCESS", "STOPPED"}
      /\ wakes => d.train \in SpikeIds /\ Born(d.train) /\ spike[d.train].train \in TrainIds
      /\ tx' = [tx EXCEPT ![w] = None]
  BY <1>1, DispatchFacts DEF DispatchCommit
<1>3. /\ tx'[w] = None /\ \A v \in Workers \ {w} : tx'[v] = tx[v]
      /\ \A u \in TrainIds, v \in Workers : Open(v, u)' => Open(v, u) /\ tx'[v] = tx[v] /\ v # w
  BY <1>2 DEF IInv, TypeOK, Open
<1>4. \A b \in NewBirths(d, online) :
        /\ b \in BirthRow
        /\ d.kind # "roots" => b.provenance # None
        /\ \A c \in NewBirths(d, online) :
             b.neuron = c.neuron /\ b.provenance = c.provenance /\ b.target = c.target => b = c
  <2>1. ASSUME d.kind # "roots", NEW b \in NewBirths(d, online) PROVE b.provenance # None
    <3>1. PICK s \in d.picks : \E a \in Triggered(s) : b \in Births(a.target, s, online)
      BY <2>1 DEF NewBirths, WaveBirths
    <3>2. PICK a \in Axons : b \in Births(a.target, s, online)
      BY <3>1 DEF Triggered
    <3>3. a.target \in Neurons /\ s \in SpikeIds /\ s # None
      BY <1>2, <3>1, ConstantsAssumption DEF Tx
    <3>4. b.provenance = s
      BY <1>1, <3>2, <3>3, BirthsFacts
    <3> QED BY <3>3, <3>4
  <2> HIDE DEF d
  <2> QED BY <1>1, <1>2, <2>1, NewBirthsFacts
<1>5. /\ \A i \in ids : i \in SpikeIds /\ ~Born(i) /\ born[i] \in NewBirths(d, online)
      /\ \A i, j \in ids : born[i] = born[j] => i = j
  BY <1>1 DEF Numbers
<1> HIDE DEF d
<1>6. /\ \A i \in ids : /\ spike'[i].train = d.train /\ spike'[i].neuron = born[i].neuron
                        /\ spike'[i].provenance = born[i].provenance
                        /\ spike'[i].target = born[i].target
      /\ \A s \in SpikeIds \ ids : spike'[s] = spike[s]
      /\ \A s \in SpikeIds : Born(s)' => Born(s) \/ s \in ids
  BY <1>1, <1>5 DEF Committed, Born
<1>7. \A s \in SpikeIds : Born(s) => Born(s)' /\ spike'[s] = spike[s]
  BY <1>5, <1>6 DEF Born
<1>8. /\ \A u \in TrainIds : SpikesOf(u)' = {} => SpikesOf(u) = {}
      /\ \A u \in TrainIds \ {d.train} : SpikesOf(u)' = SpikesOf(u)
  BY <1>6, <1>7 DEF SpikesOf
<1>9. /\ \A u \in TrainIds : train'[u] = "CREATED" => train[u] = "CREATED" \/ u \in ids
      /\ \A u \in TrainIds : SpikesOf(u) = {} => checks'[u] = checks[u]
  <2>1. wakes => SpikesOf(spike[d.train].train) # {}
    BY <1>2 DEF SpikesOf
  <2> QED BY <1>1, <1>2, <2>1 DEF Committed, IInv, TypeOK
<1>10. \A u \in ids : /\ SpikesOf(u) = {} /\ checks[u] = 0 /\ u # d.train
                       /\ u \in TrainIds /\ \A v \in Workers : ~Open(v, u)
  <2>1. \A u \in ids : ~Exists(u) /\ u \in TrainIds
    BY <1>5, Constants DEF IInv, ReferencesHold
  <2> QED BY <1>2, <2>1 DEF IInv, TypeOK, ReferencesHold, SpikesOf, Open
<1>11. ASSUME NEW u \in TrainIds
       PROVE  (CreatedIsEmpty(u) /\ EmptyIsDispatchedOnce(u) /\ RootsMeanEmpty(u))'
  <2>1. CreatedIsEmpty(u) /\ EmptyIsDispatchedOnce(u) /\ RootsMeanEmpty(u)
    BY DEF RootsInv
  <2>2. CreatedIsEmpty(u)'
    <3>1. CASE u \in ids
      BY <1>3, <1>8, <1>9, <1>10, <3>1 DEF CreatedIsEmpty
    <3>2. CASE u \notin ids
      <4>1. train'[u] = "CREATED" => u # d.train
        BY <1>2, <1>9, <2>1, <3>2 DEF CreatedIsEmpty, Open, d
      <4> QED BY <1>3, <1>8, <1>9, <2>1, <3>2, <4>1 DEF CreatedIsEmpty
    <3> QED BY <3>1, <3>2
  <2>3. EmptyIsDispatchedOnce(u)'
    BY <1>3, <1>8, <1>9, <2>1 DEF EmptyIsDispatchedOnce
  <2>4. RootsMeanEmpty(u)'
    <3>1. CASE u = d.train
      <4>1. ASSUME NEW v \in Workers, Open(v, u)', tx'[v].kind = "roots" PROVE FALSE
        BY <1>2, <1>3, <2>1, <3>1, <4>1 DEF EmptyIsDispatchedOnce, RootsMeanEmpty, Open, d
      <4> QED BY <4>1 DEF RootsMeanEmpty
    <3>2. CASE u # d.train
      BY <1>3, <1>8, <2>1, <3>2 DEF RootsMeanEmpty
    <3> QED BY <3>1, <3>2
  <2> QED BY <2>2, <2>3, <2>4
<1>12. ASSUME NEW s1 \in SpikeIds, NEW s2 \in SpikeIds, Born(s1)', Born(s2)',
              s1 # s2, spike'[s1].provenance = None, spike'[s1] = spike'[s2]
       PROVE  FALSE
  <2>1. CASE s1 \in ids /\ s2 \in ids
    <3>1. born[s1] = born[s2]
      BY <1>4, <1>5, <1>6, <1>12, <2>1
    <3> QED BY <1>5, <1>12, <2>1, <3>1
  <2>2. CASE s1 \notin ids /\ s2 \notin ids
    BY <1>6, <1>12, <2>2 DEF RootsOnce
  <2>3. ASSUME NEW i \in ids, NEW j \in SpikeIds \ ids, Born(j)',
               spike'[i] = spike'[j], spike'[i].provenance = None
        PROVE  FALSE
    <3>1. d.kind = "roots"
      BY <1>4, <1>5, <1>6, <2>3
    <3>2. SpikesOf(d.train) = {}
      BY <1>2, <3>1 DEF RootsInv, RootsMeanEmpty, Open, d
    <3>3. j \in SpikesOf(d.train)
      BY <1>6, <2>3 DEF SpikesOf
    <3> QED BY <3>2, <3>3
  <2> QED BY <1>12, <2>1, <2>2, <2>3
<1> QED BY <1>11, <1>12 DEF RootsInv, RootsOnce, Born

LEMMA NextRootsInv ==
  ASSUME "poll" \notin Ops
  PROVE  IInv /\ RootsInv /\ RootsOnce /\ [Next]_vars => RootsInv' /\ RootsOnce'
<1> SUFFICES ASSUME IInv, RootsInv, RootsOnce, [Next]_vars PROVE RootsInv' /\ RootsOnce'
  OBVIOUS
<1>0. IInv'
  BY NextIInv
<1>1. ASSUME NEW t \in TrainIds, StartTrain(t) PROVE RootsInv' /\ RootsOnce'
  <2>1. CASE UNCHANGED <<train, checks>>
    BY <1>1, <2>1, RootsKept DEF StartTrain
  <2>2. CASE train[t] = "CREATED" /\ train' = [train EXCEPT ![t] = "RUNNING"]
             /\ checks' = [checks EXCEPT ![t] = checks[t] + 1]
    <3>1. UNCHANGED <<spike, tx>> /\ train'[t] # "CREATED" /\ checks'[t] = checks[t] + 1
      BY <1>1, <2>2 DEF StartTrain, IInv, TypeOK
    <3>2. \A u \in TrainIds \ {t} : train'[u] = train[u] /\ checks'[u] = checks[u]
      BY <2>2 DEF IInv, TypeOK
    <3>3. checks[t] = 0 /\ \A w \in Workers : ~Open(w, t)
      BY <2>2 DEF RootsInv, CreatedIsEmpty
    <3>4. RootsInv'
      BY <3>1, <3>2, <3>3
         DEF RootsInv, CreatedIsEmpty, EmptyIsDispatchedOnce, RootsMeanEmpty, Open, SpikesOf, Born
    <3> QED BY <3>1, <3>4 DEF RootsOnce, Born
  <2> QED BY <1>1, <2>1, <2>2 DEF StartTrain
<1>2. ASSUME NEW w \in Workers, NEW t \in TrainIds, DispatchBegin(w, t)
      PROVE  RootsInv' /\ RootsOnce'
  BY <1>2, DispatchBeginRoots
<1>3. ASSUME NEW w \in Workers, DispatchCommit(w) PROVE RootsInv' /\ RootsOnce'
  BY <1>0, <1>3, DispatchCommitRoots
<1>4. ASSUME NEW s \in SpikeIds, FinishTask(s) PROVE RootsInv' /\ RootsOnce'
  <2>1. s \in SpikesOf(spike[s].train) /\ spike[s].train \in TrainIds
    BY <1>4 DEF FinishTask, IInv, TypeOK, ReferencesHold, SpikesOf, SpikeRow, Born
  <2> QED BY <1>4, <2>1, RootsKeptByCheck DEF FinishTask
<1>5. ASSUME NEW t \in TrainIds, Terminate(t) PROVE RootsInv' /\ RootsOnce'
  <2>1. /\ UNCHANGED <<spike, tx>> /\ train' = [train EXCEPT ![t] = "FAILED"]
        /\ \A u \in TrainIds : train'[u] = "CREATED" => train[u] = "CREATED"
    BY <1>5 DEF Terminate, IInv, TypeOK
  <2>2. CASE WakesParent(t, "FAILED")
    <3>1. t \in SpikesOf(spike[t].train) /\ spike[t].train \in TrainIds
      BY <1>5, <2>2, Constants
         DEF Terminate, WakesParent, IInv, TypeOK, ReferencesHold, SpikesOf, SpikeRow, Born
    <3>2. checks' = [checks EXCEPT ![spike[t].train] = @ + 1]
      BY <1>5, <2>2 DEF Terminate
    <3> QED BY <2>1, <3>1, <3>2, RootsKeptByCheck
  <2>3. CASE ~WakesParent(t, "FAILED")
    <3>1. checks' = checks
      BY <1>5, <2>3 DEF Terminate
    <3> QED BY <2>1, <3>1
            DEF RootsInv, CreatedIsEmpty, EmptyIsDispatchedOnce, RootsMeanEmpty, Open, SpikesOf,
                Born, RootsOnce
  <2> QED BY <2>2, <2>3
<1>6. ASSUME NEW t \in TrainIds, StopGracefully(t) PROVE RootsInv' /\ RootsOnce'
  <2>1. /\ UNCHANGED <<spike, tx, checks>>
        /\ \A u \in TrainIds : train'[u] = "CREATED" => train[u] = "CREATED"
    BY <1>6 DEF StopGracefully, IInv, TypeOK
  <2> QED BY <2>1
          DEF RootsInv, CreatedIsEmpty, EmptyIsDispatchedOnce, RootsMeanEmpty, Open, SpikesOf,
              Born, RootsOnce
<1>7. ASSUME NEW w \in Workers, CrashDispatch(w) PROVE RootsInv' /\ RootsOnce'
  <2>1. /\ UNCHANGED <<train, spike, checks>>
        /\ \A u \in TrainIds, v \in Workers : Open(v, u)' => Open(v, u) /\ tx'[v] = tx[v]
    BY <1>7 DEF CrashDispatch, IInv, TypeOK, Open
  <2>2. RootsInv'
    BY <2>1 DEF RootsInv, CreatedIsEmpty, EmptyIsDispatchedOnce, RootsMeanEmpty, SpikesOf, Born
  <2> QED BY <2>1, <2>2 DEF RootsOnce, Born
<1>8. ASSUME NEW s \in SpikeIds,
             \/ FireStart(s) \/ FinishWrite(s) \/ StaleWrite(s) \/ Rerun(s) \/ CrashTask(s)
             \/ LoseWorker(s)
      PROVE  RootsInv' /\ RootsOnce'
  <2>1. UNCHANGED <<train, spike, checks, tx>>
    BY <1>8 DEF FireStart, FinishWrite, StaleWrite, Rerun, CrashTask, LoseWorker
  <2> QED BY <2>1, RootsKept
<1>9. ASSUME (\E t \in TrainIds : CrashStart(t)) \/ UNCHANGED vars
      PROVE  RootsInv' /\ RootsOnce'
  <2>1. UNCHANGED <<train, spike, checks, tx>>
    BY <1>9 DEF CrashStart, vars
  <2> QED BY <2>1, RootsKept
<1>10. ~PollSome
  BY DEF PollSome, Poll
<1> QED BY <1>1, <1>2, <1>3, <1>4, <1>5, <1>6, <1>7, <1>8, <1>9, <1>10
        DEF Next, Engine, Intervention, Idle

(* Unless it is polled, a train visits each of its Begin Plays once: two   *)
(* dispatches that both find it empty do not come about, however many      *)
(* workers there are.  (A poll of a train that start() is about to         *)
(* dispatch can bring them about.)                                         *)
THEOREM RootsVisitedOnce ==
  ASSUME "poll" \notin Ops
  PROVE  Spec => []RootsOnce
<1>1. Init => IInv /\ RootsInv /\ RootsOnce
  BY InitIInv, InitRootsInv
<1>2. (IInv /\ RootsInv /\ RootsOnce) /\ [Next]_vars => (IInv /\ RootsInv /\ RootsOnce)'
  BY NextIInv, NextRootsInv
<1> QED BY <1>1, <1>2, PTL DEF Spec

-----------------------------------------------------------------------------
(* What a dispatch has read under its locks stays true until it commits.   *)

HoldsFinished(w) ==
  tx[w] # None =>
    /\ tx[w].kind # "wave" => tx[w].picks = {}
    /\ \A s \in tx[w].locked : /\ Born(s) /\ spike[s].train = tx[w].train
                               /\ spikeStatus[s] \in {"SUCCESS", "FAILED"}

LocksInv == \A w \in Workers : HoldsFinished(w)

LEMMA InitLocksInv == Init => LocksInv
BY DEF Init, LocksInv, HoldsFinished

(* An action that opens no dispatch, and writes no status of a locked row. *)
LEMMA LocksKept ==
  ASSUME IInv, LocksInv, spike' = spike, \A w \in Workers : tx'[w] \in {tx[w], None},
         \A s \in SpikeIds : Locked(s) => spikeStatus'[s] = spikeStatus[s]
  PROVE  LocksInv'
<1> SUFFICES ASSUME NEW w \in Workers, tx'[w] # None PROVE HoldsFinished(w)'
  BY DEF LocksInv, HoldsFinished
<1>1. tx'[w] = tx[w] /\ tx[w] # None /\ HoldsFinished(w) /\ tx[w].locked \subseteq SpikeIds
  BY DEF LocksInv, IInv, TypeOK, Tx
<1>2. \A s \in tx[w].locked : spikeStatus'[s] = spikeStatus[s]
  BY <1>1 DEF Locked
<1> QED BY <1>1, <1>2 DEF HoldsFinished, Born

LEMMA LockedFinished ==
  ASSUME IInv, LocksInv, NEW s \in SpikeIds, Locked(s)
  PROVE  Born(s) /\ spikeStatus[s] \in {"SUCCESS", "FAILED"}
BY DEF LocksInv, HoldsFinished, Locked

LEMMA DispatchBeginLocks ==
  ASSUME IInv, LocksInv, NEW w \in Workers, NEW t \in TrainIds, DispatchBegin(w, t)
  PROVE  LocksInv'
<1>1. UNCHANGED <<spike, spikeStatus>>
  BY DEF DispatchBegin
<1>2. PICK kind, locked, picks :
        /\ tx' = [tx EXCEPT ![w] = [train |-> t, kind |-> kind, seen |-> train[t],
                                   locked |-> locked, picks |-> picks]]
        /\ kind # "wave" => picks = {} /\ locked = {}
        /\ kind = "wave" => locked = Finished(t)
  BY DEF DispatchBegin
<1> DEFINE r == [train |-> t, kind |-> kind, seen |-> train[t],
                 locked |-> locked, picks |-> picks]
<1>3. r.train = t /\ r.kind = kind /\ r.locked = locked /\ r.picks = picks
  OBVIOUS
<1> HIDE DEF r
<1>4. tx'[w] = r /\ \A v \in Workers \ {w} : tx'[v] = tx[v]
  BY <1>2 DEF IInv, TypeOK, r
<1>5. \A s \in Finished(t) : /\ Born(s) /\ spike[s].train = t
                             /\ spikeStatus[s] \in {"SUCCESS", "FAILED"}
  BY DEF Finished, SpikesOf
<1>6. HoldsFinished(w)'
  BY <1>1, <1>2, <1>3, <1>4, <1>5 DEF HoldsFinished, Born
<1>7. \A v \in Workers \ {w} : HoldsFinished(v)'
  BY <1>1, <1>4 DEF LocksInv, HoldsFinished, Born
<1> QED BY <1>6, <1>7 DEF LocksInv

LEMMA DispatchCommitLocks ==
  ASSUME IInv, LocksInv, NEW w \in Workers, DispatchCommit(w)
  PROVE  LocksInv'
<1> DEFINE d == tx[w]
<1>1. PICK online, ids, born, final, wakes :
        /\ online \in SUBSET Agents /\ ids \in SUBSET SpikeIds
        /\ Numbers(ids, born, NewBirths(d, online))
        /\ wakes => ~Locked(d.train)
        /\ Committed(d, ids, born, final, wakes)
  BY CommitFacts
<1>2. \A s \in SpikeIds : Born(s) => spike'[s] = spike[s]
  BY <1>1 DEF Numbers, Committed
<1>3. \A s \in SpikeIds : Locked(s) /\ Born(s) => spikeStatus'[s] = spikeStatus[s]
  BY <1>1 DEF Numbers, Committed
<1>4. ASSUME NEW v \in Workers, tx'[v] # None PROVE HoldsFinished(v)'
  <2>1. tx'[v] = tx[v] /\ HoldsFinished(v) /\ tx[v].locked \subseteq SpikeIds
    BY <1>4 DEF DispatchCommit, LocksInv, IInv, TypeOK, Tx
  <2>2. \A s \in tx[v].locked : Born(s) /\ Locked(s)
    BY <1>4, <2>1 DEF HoldsFinished, Locked
  <2>3. \A s \in tx[v].locked : spike'[s] = spike[s] /\ spikeStatus'[s] = spikeStatus[s]
    BY <1>2, <1>3, <2>1, <2>2
  <2> QED BY <1>4, <2>1, <2>3 DEF HoldsFinished, Born
<1> QED BY <1>4 DEF LocksInv, HoldsFinished

LEMMA NextLocksInv == IInv /\ LocksInv /\ [Next]_vars => LocksInv'
<1> SUFFICES ASSUME IInv, LocksInv, [Next]_vars PROVE LocksInv'
  OBVIOUS
<1>1. ASSUME NEW w \in Workers, NEW t \in TrainIds, DispatchBegin(w, t) PROVE LocksInv'
  BY <1>1, DispatchBeginLocks
<1>2. ASSUME NEW w \in Workers, DispatchCommit(w) PROVE LocksInv'
  BY <1>2, DispatchCommitLocks
<1>3. ASSUME NEW s \in SpikeIds, FireStart(s) \/ FinishWrite(s) \/ StaleWrite(s) \/ Rerun(s)
      PROVE  LocksInv'
  <2>1. /\ UNCHANGED <<spike, tx>> /\ ~Locked(s)
        /\ \A r \in SpikeIds \ {s} : spikeStatus'[r] = spikeStatus[r]
    BY <1>3 DEF FireStart, FinishWrite, StaleWrite, Rerun, IInv, TypeOK
  <2> QED BY <2>1, LocksKept
<1>4. ASSUME NEW t \in TrainIds, Terminate(t) PROVE LocksInv'
  <2>1. \A s \in SpikeIds : Locked(s) => s \notin Heads(t)
    BY LockedFinished DEF Heads
  <2>2. /\ UNCHANGED <<spike, tx>>
        /\ \A s \in SpikeIds : Locked(s) => spikeStatus'[s] = spikeStatus[s]
    BY <1>4, <2>1 DEF Terminate
  <2> QED BY <2>2, LocksKept
<1>5. ASSUME NEW t \in TrainIds, StopGracefully(t) PROVE LocksInv'
  <2>1. \A s \in SpikeIds : Locked(s) => s \notin Heads(t)
    BY LockedFinished DEF Heads
  <2>2. /\ UNCHANGED <<spike, tx>>
        /\ \A s \in SpikeIds : Locked(s) => spikeStatus'[s] = spikeStatus[s]
    BY <1>5, <2>1 DEF StopGracefully
  <2> QED BY <2>2, LocksKept
<1>6. ASSUME PollSome PROVE LocksInv'
  <2>1. \A s \in SpikeIds : Locked(s) => s \notin Heads(0)
    BY LockedFinished DEF Heads
  <2>2. /\ UNCHANGED <<spike, tx>>
        /\ \A s \in SpikeIds : Locked(s) => spikeStatus'[s] = spikeStatus[s]
    BY <1>6, <2>1 DEF PollSome, Poll
  <2> QED BY <2>2, LocksKept
<1>7. ASSUME NEW w \in Workers, CrashDispatch(w) PROVE LocksInv'
  <2>1. /\ UNCHANGED <<spike, spikeStatus>>
        /\ \A v \in Workers : tx'[v] \in {tx[v], None}
    BY <1>7 DEF CrashDispatch, IInv, TypeOK
  <2> QED BY <2>1, LocksKept
<1>8. ASSUME \/ \E t \in TrainIds : StartTrain(t) \/ CrashStart(t)
             \/ \E s \in SpikeIds : FinishTask(s) \/ CrashTask(s) \/ LoseWorker(s)
             \/ UNCHANGED vars
      PROVE  LocksInv'
  <2>1. UNCHANGED <<spike, spikeStatus, tx>>
    BY <1>8 DEF StartTrain, CrashStart, FinishTask, CrashTask, LoseWorker, vars
  <2> QED BY <2>1, LocksKept
<1> QED BY <1>1, <1>2, <1>3, <1>4, <1>5, <1>6, <1>7, <1>8
        DEF Next, Engine, Intervention, Idle

-----------------------------------------------------------------------------
(* Delegation.  The spike and its child train are written by one statement *)
(* after the other in every transaction but one: stop_gracefully leaves    *)
(* the parent spike of the train it stops as it is, and a STOPPED train    *)
(* wakes nobody.                                                           *)

(* A container spike never has a task, and nothing is being stopped.       *)
DelegatesSleep ==
  \A s \in SpikeIds : Exists(s) =>
    task[s] = "idle" /\ spikeStatus[s] \in {"DELEGATED", "SUCCESS", "FAILED"}

NothingStops ==
  /\ \A t \in TrainIds : train[t] \notin {"STOPPING", "STOPPED"}
  /\ \A w \in Workers : tx[w] # None => tx[w].seen # "STOPPING"

DelegationInv == DelegatesSleep /\ NothingStops /\ DelegationInStep

LEMMA InitDelegation == Init => DelegationInv
<1> SUFFICES ASSUME Init PROVE DelegationInv
  OBVIOUS
<1>1. \A s \in SpikeIds : ~Exists(s) /\ ~Born(s)
  BY Constants DEF Init, Exists, Born
<1>2. NothingStops
  BY ConstantsAssumption DEF Init, NothingStops, Status
<1> QED BY <1>1, <1>2 DEF DelegationInv, DelegatesSleep, DelegationInStep

(* A status written for a spike that has a task.                           *)
LEMMA DelegationKept ==
  ASSUME IInv, DelegationInv, UNCHANGED <<train, spike, tx>>,
         \A s \in SpikeIds : task[s] = "idle" =>
           task'[s] = "idle" /\ spikeStatus'[s] = spikeStatus[s],
         \A s \in SpikeIds : ~Exists(s) =>
           spikeStatus'[s] = spikeStatus[s] \/ spikeStatus'[s] # "DELEGATED"
  PROVE  DelegationInv'
<1>1. DelegatesSleep' /\ NothingStops'
  BY DEF DelegationInv, DelegatesSleep, NothingStops, Exists
<1>2. ASSUME NEW s \in SpikeIds, Born(s)
      PROVE  spikeStatus'[s] = "DELEGATED" <=> train[s] \in Alive
  <2>1. CASE Exists(s)
    BY <1>2, <2>1 DEF DelegationInv, DelegatesSleep, DelegationInStep
  <2>2. CASE ~Exists(s)
    <3>1. train[s] \notin Alive
      BY <2>2, ConstantsAssumption DEF Exists, Alive, Status
    <3> QED BY <1>2, <2>2, <3>1 DEF DelegationInv, DelegationInStep
  <2> QED BY <2>1, <2>2
<1> QED BY <1>1, <1>2 DEF DelegationInv, DelegationInStep, Born

LEMMA DispatchCommitDelegation ==
  ASSUME IInv, IInv', DelegationInv, NEW w \in Workers, DispatchCommit(w)
  PROVE  DelegationInv'
<1> DEFINE d == tx[w]
<1>1. PICK online, ids, born, final, wakes :
        /\ online \in SUBSET Agents /\ ids \in SUBSET SpikeIds
        /\ Numbers(ids, born, NewBirths(d, online))
        /\ wakes <=> final /\ WakesParent(d.train, FinalStatus(d))
        /\ Committed(d, ids, born, final, wakes)
  BY CommitFacts
<1>2. /\ d.train \in TrainIds /\ Exists(d.train) /\ FinalStatus(d) = "SUCCESS"
      /\ tx' = [tx EXCEPT ![w] = None]
  BY DispatchFacts DEF DispatchCommit, DelegationInv, NothingStops, FinalStatus
<1>3. wakes <=> final /\ d.train # 0
  BY <1>1, <1>2 DEF WakesParent
<1>4. \A i \in ids : /\ i \in SpikeIds /\ ~Born(i) /\ ~Exists(i) /\ i # d.train
                     /\ i \in TrainIds /\ task[i] = "idle"
  BY <1>1, <1>2, Constants DEF Numbers, IInv, ReferencesHold
<1> HIDE DEF d
<1>5. /\ \A s \in SpikeIds : spikeStatus'[s] =
           IF s \in ids THEN born[s].status
           ELSE IF wakes /\ s = d.train THEN "SUCCESS" ELSE spikeStatus[s]
      /\ \A t \in TrainIds : train'[t] =
           IF t \in ids /\ born[t].status = "DELEGATED" THEN "CREATED"
           ELSE IF final /\ t = d.train THEN "SUCCESS" ELSE train[t]
      /\ \A s \in SpikeIds : task'[s] =
           IF s \in ids /\ born[s].status = "PENDING" THEN "queued" ELSE task[s]
      /\ \A s \in SpikeIds \ ids : spike'[s] = spike[s]
  BY <1>1, <1>2 DEF Committed
<1>6. NothingStops'
  <2>1. \A v \in Workers : tx'[v] \in {tx[v], None}
    BY <1>2 DEF IInv, TypeOK
  <2> QED BY <1>5, <2>1 DEF DelegationInv, NothingStops
<1>7. ASSUME NEW s \in SpikeIds
      PROVE  /\ Exists(s)' => /\ task'[s] = "idle"
                              /\ spikeStatus'[s] \in {"DELEGATED", "SUCCESS", "FAILED"}
             /\ Born(s)' => (spikeStatus'[s] = "DELEGATED" <=> train'[s] \in Alive)
  <2>0. s \in TrainIds /\ s # 0 /\ None \notin Alive /\ "CREATED" \in Alive /\ "SUCCESS" \notin Alive
    BY Constants, ConstantsAssumption DEF Alive, Status
  <2>1. CASE s \in ids
    <3>1. train[s] = None /\ train'[s] \in {"CREATED", None}
      BY <1>4, <1>5, <2>0, <2>1 DEF Exists
    <3>2. train'[s] = "CREATED" <=> spikeStatus'[s] = "DELEGATED"
      BY <1>4, <1>5, <2>0, <2>1, <3>1
    <3>3. spikeStatus'[s] = "DELEGATED" => task'[s] = "idle"
      BY <1>4, <1>5, <2>1
    <3> QED BY <2>0, <3>1, <3>2, <3>3 DEF Exists
  <2>2. CASE s \notin ids /\ s = d.train /\ final
    <3>1. spikeStatus'[s] = "SUCCESS" /\ train'[s] = "SUCCESS" /\ task'[s] = task[s]
      BY <1>3, <1>5, <2>0, <2>2
    <3> QED BY <1>2, <2>0, <2>2, <3>1 DEF DelegationInv, DelegatesSleep
  <2>3. CASE s \notin ids /\ ~(s = d.train /\ final)
    <3>1. spikeStatus'[s] = spikeStatus[s] /\ train'[s] = train[s] /\ task'[s] = task[s]
          /\ spike'[s] = spike[s]
      BY <1>3, <1>5, <2>0, <2>3
    <3> QED BY <3>1 DEF DelegationInv, DelegatesSleep, DelegationInStep, Exists, Born
  <2> QED BY <2>1, <2>2, <2>3
<1> QED BY <1>6, <1>7 DEF DelegationInv, DelegatesSleep, DelegationInStep, Exists, Born

LEMMA NextDelegation ==
  ASSUME "stop" \notin Ops
  PROVE  IInv /\ DelegationInv /\ [Next]_vars => DelegationInv'
<1> SUFFICES ASSUME IInv, DelegationInv, [Next]_vars PROVE DelegationInv'
  OBVIOUS
<1>0. IInv'
  BY NextIInv
<1>a. \A s \in SpikeIds : ~Exists(s) => train[s] \notin Alive
  BY ConstantsAssumption DEF Exists, Alive, Status
<1>1. ASSUME NEW t \in TrainIds, StartTrain(t) PROVE DelegationInv'
  <2>1. UNCHANGED <<spike, spikeStatus, task, tx>>
    BY <1>1 DEF StartTrain
  <2>2. /\ \A u \in TrainIds : train'[u] = train[u]
             \/ (train[u] = "CREATED" /\ train'[u] = "RUNNING")
        /\ SpikeIds \subseteq TrainIds
    BY <1>1, Constants DEF StartTrain, IInv, TypeOK
  <2>3. \A s \in SpikeIds : /\ train'[s] \in Alive <=> train[s] \in Alive
                            /\ train'[s] # None => train[s] # None
    BY <2>2, ConstantsAssumption DEF Alive, Status
  <2> QED BY <2>1, <2>2, <2>3
          DEF DelegationInv, DelegatesSleep, NothingStops, DelegationInStep, Exists, Born
<1>2. ASSUME NEW w \in Workers, NEW t \in TrainIds, DispatchBegin(w, t) PROVE DelegationInv'
  <2>1. UNCHANGED <<train, spike, spikeStatus, task>>
    BY <1>2 DEF DispatchBegin
  <2>2. \A v \in Workers : tx'[v] # None => tx'[v].seen = train[t] \/ tx'[v] = tx[v]
    BY <1>2 DEF DispatchBegin, IInv, TypeOK
  <2> QED BY <2>1, <2>2
          DEF DelegationInv, DelegatesSleep, NothingStops, DelegationInStep, Exists, Born
<1>3. ASSUME NEW w \in Workers, DispatchCommit(w) PROVE DelegationInv'
  BY <1>0, <1>3, DispatchCommitDelegation
<1>4. ASSUME NEW s \in SpikeIds, FireStart(s) \/ FinishWrite(s) \/ StaleWrite(s) \/ Rerun(s)
      PROVE  DelegationInv'
  <2>1. /\ UNCHANGED <<train, spike, tx>> /\ task[s] # "idle"
        /\ \A r \in SpikeIds \ {s} : spikeStatus'[r] = spikeStatus[r] /\ task'[r] = task[r]
        /\ spikeStatus'[s] # "DELEGATED" \/ spikeStatus'[s] = spikeStatus[s]
    BY <1>4 DEF FireStart, FinishWrite, StaleWrite, Rerun, IInv, TypeOK
  <2> QED BY <2>1, DelegationKept
<1>5. ASSUME NEW t \in TrainIds, Terminate(t) PROVE DelegationInv'
  <2>1. /\ UNCHANGED <<spike, task, tx>> /\ train' = [train EXCEPT ![t] = "FAILED"] /\ Exists(t)
        /\ \A s \in SpikeIds : spikeStatus'[s] =
             IF s \in Heads(t) THEN "ABORTED" ELSE IF s = t THEN "FAILED" ELSE spikeStatus[s]
        /\ SpikeIds \subseteq TrainIds
    BY <1>5, Constants DEF Terminate, WakesParent
  <2>2. \A s \in SpikeIds : Exists(s) => s \notin Heads(t)
    BY DEF Heads, DelegationInv, DelegatesSleep
  <2>3. ASSUME NEW s \in SpikeIds
        PROVE  /\ Exists(s)' => /\ task[s] = "idle"
                                /\ spikeStatus'[s] \in {"DELEGATED", "SUCCESS", "FAILED"}
               /\ Born(s) => (spikeStatus'[s] = "DELEGATED" <=> train'[s] \in Alive)
    <3>1. CASE s = t
      <4>1. train'[s] = "FAILED" /\ spikeStatus'[s] = "FAILED"
        BY <2>1, <2>2, <3>1 DEF IInv, TypeOK
      <4> QED BY <2>1, <3>1, <4>1 DEF DelegationInv, DelegatesSleep, Alive
    <3>2. CASE s # t
      <4>1. train'[s] = train[s]
        BY <2>1, <3>2 DEF IInv, TypeOK
      <4>2. CASE s \in Heads(t)
        BY <1>a, <2>1, <2>2, <4>1, <4>2 DEF Exists
      <4>3. CASE s \notin Heads(t)
        BY <2>1, <3>2, <4>1, <4>3 DEF DelegationInv, DelegatesSleep, DelegationInStep, Exists
      <4> QED BY <4>2, <4>3
    <3> QED BY <3>1, <3>2
  <2>4. NothingStops'
    BY <2>1 DEF DelegationInv, NothingStops, IInv, TypeOK
  <2> QED BY <2>1, <2>3, <2>4 DEF DelegationInv, DelegatesSleep, DelegationInStep, Exists, Born
<1>6. ASSUME PollSome PROVE DelegationInv'
  <2>1. \A s \in Heads(0) : ~Exists(s)
    BY DEF Heads, SpikesOf, DelegationInv, DelegatesSleep
  <2>2. /\ UNCHANGED <<train, spike, task, tx>>
        /\ \A s \in SpikeIds : spikeStatus'[s] = spikeStatus[s]
             \/ (spikeStatus'[s] = "FAILED" /\ s \in Heads(0))
    BY <1>6 DEF PollSome, Poll
  <2>3. \A s \in SpikeIds : Exists(s) => spikeStatus'[s] = spikeStatus[s]
    BY <2>1, <2>2
  <2>4. DelegatesSleep' /\ NothingStops'
    BY <2>2, <2>3 DEF DelegationInv, DelegatesSleep, NothingStops, Exists
  <2>5. \A s \in SpikeIds : Born(s) /\ ~Exists(s) => spikeStatus'[s] # "DELEGATED"
    BY <1>a, <2>2 DEF DelegationInv, DelegationInStep
  <2>6. DelegationInStep'
    BY <1>a, <2>2, <2>3, <2>5 DEF DelegationInv, DelegationInStep, Born
  <2> QED BY <2>4, <2>6 DEF DelegationInv
<1>7. ASSUME NEW w \in Workers, CrashDispatch(w) PROVE DelegationInv'
  <2>1. /\ UNCHANGED <<train, spike, spikeStatus, task>>
        /\ \A v \in Workers : tx'[v] \in {tx[v], None}
    BY <1>7 DEF CrashDispatch, IInv, TypeOK
  <2> QED BY <2>1
          DEF DelegationInv, DelegatesSleep, NothingStops, DelegationInStep, Exists, Born
<1>8. ASSUME NEW s \in SpikeIds, FinishTask(s) \/ CrashTask(s) \/ LoseWorker(s)
      PROVE  DelegationInv'
  <2>1. /\ UNCHANGED <<train, spike, spikeStatus, tx>> /\ task[s] # "idle"
        /\ \A r \in SpikeIds \ {s} : task'[r] = task[r]
    BY <1>8 DEF FinishTask, CrashTask, LoseWorker, IInv, TypeOK
  <2> QED BY <2>1, DelegationKept
<1>9. ASSUME (\E t \in TrainIds : CrashStart(t)) \/ UNCHANGED vars PROVE DelegationInv'
  <2>1. UNCHANGED <<train, spike, spikeStatus, task, tx>>
    BY <1>9 DEF CrashStart, vars
  <2> QED BY <2>1, DelegationKept
<1>10. \A t \in TrainIds : ~StopGracefully(t)
  BY DEF StopGracefully, Intervene
<1> QED BY <1>1, <1>2, <1>3, <1>4, <1>5, <1>6, <1>7, <1>8, <1>9, <1>10
        DEF Next, Engine, Intervention, Idle

(* Unless trains are stopped, a container spike sleeps exactly as long as  *)
(* its child train lives, however deep the containers are nested, whatever *)
(* is terminated, polled, crashed or run again.                            *)
THEOREM DelegationsInStep ==
  ASSUME "stop" \notin Ops
  PROVE  Spec => []DelegationInStep
<1>1. Init => IInv /\ DelegationInv
  BY InitIInv, InitDelegation
<1>2. (IInv /\ DelegationInv) /\ [Next]_vars => (IInv /\ DelegationInv)'
  BY NextIInv, NextDelegation
<1>3. DelegationInv => DelegationInStep
  BY DEF DelegationInv
<1> QED BY <1>1, <1>2, <1>3, PTL DEF Spec

-----------------------------------------------------------------------------
(* The wires.  As long as nobody intervenes a status that is SUCCESS or    *)
(* FAILED is final, and a spike is followed only when its status is one.   *)

CalmTasks ==
  \A s \in SpikeIds : Born(s) =>
    /\ task[s] = "queued" <=> spikeStatus[s] = "PENDING"
    /\ task[s] = "running" => spikeStatus[s] = "RUNNING"
    /\ Exists(s) => task[s] = "idle" /\ spikeStatus[s] \in {"DELEGATED", "SUCCESS"}

HasParent(s) == Born(s) /\ spike[s].provenance # None

(* The parent of a spike is over, in its train, and fired a wire to it.    *)
FiredBy(s, p) ==
  /\ spikeStatus[p] \in {"SUCCESS", "FAILED"}
  /\ spike[p].train = spike[s].train
  /\ \E a \in Triggered(p) : a.target = spike[s].neuron

WiresFired == \A s \in SpikeIds : HasParent(s) => FiredBy(s, spike[s].provenance)

CalmInv == ops = 0 => CalmTasks /\ NothingStops /\ WiresFired

LEMMA InitCalm == Init => CalmInv
<1> SUFFICES ASSUME Init PROVE CalmInv
  OBVIOUS
<1>1. \A s \in SpikeIds : ~Born(s)
  BY Constants DEF Init, Born
<1>2. NothingStops
  BY ConstantsAssumption DEF Init, NothingStops, Status
<1> QED BY <1>1, <1>2 DEF CalmInv, CalmTasks, WiresFired, HasParent

(* The rows stay, and so does the status of what is over.                  *)
LEMMA WiresKept ==
  ASSUME IInv, WiresFired, spike' = spike,
         \A s \in SpikeIds : spikeStatus[s] \in {"SUCCESS", "FAILED"}
           => spikeStatus'[s] = spikeStatus[s]
  PROVE  WiresFired'
<1> SUFFICES ASSUME NEW s \in SpikeIds, HasParent(s)
             PROVE  FiredBy(s, spike[s].provenance)'
  BY DEF WiresFired, HasParent, Born
<1> DEFINE p == spike[s].provenance
<1>1. FiredBy(s, p) /\ p \in SpikeIds
  BY DEF WiresFired, HasParent, IInv, TypeOK, SpikeRow, Born
<1>2. spikeStatus'[p] = spikeStatus[p]
  BY <1>1 DEF FiredBy
<1> QED BY <1>1, <1>2 DEF FiredBy, Triggered

LEMMA DispatchCommitCalm ==
  ASSUME IInv, LocksInv, ops = 0, CalmInv, NEW w \in Workers, DispatchCommit(w)
  PROVE  CalmInv'
<1> DEFINE d == tx[w]
<1>1. PICK online, ids, born, final, wakes :
        /\ online \in SUBSET Agents /\ ids \in SUBSET SpikeIds
        /\ Numbers(ids, born, NewBirths(d, online))
        /\ wakes <=> final /\ WakesParent(d.train, FinalStatus(d))
        /\ wakes => ~Locked(d.train)
        /\ Committed(d, ids, born, final, wakes)
  BY CommitFacts
<1>0. CalmTasks /\ NothingStops /\ WiresFired
  BY DEF CalmInv
<1>2. /\ d \in Tx /\ d # None /\ d.train \in TrainIds /\ Exists(d.train)
      /\ FinalStatus(d) = "SUCCESS" /\ tx' = [tx EXCEPT ![w] = None]
  BY <1>0, DispatchFacts DEF DispatchCommit, NothingStops, FinalStatus
<1>3. wakes => d.train \in SpikeIds /\ Born(d.train)
  BY <1>1, DispatchFacts DEF DispatchCommit
<1>4. \A i \in ids : /\ i \in SpikeIds /\ ~Born(i) /\ ~Exists(i) /\ i # d.train
                     /\ i \in TrainIds /\ task[i] = "idle" /\ born[i] \in NewBirths(d, online)
  BY <1>1, <1>2, Constants DEF Numbers, IInv, ReferencesHold
<1>5. HoldsFinished(w) /\ d.picks \subseteq d.locked /\ d.picks \subseteq SpikeIds
  BY <1>2 DEF LocksInv, IInv, DispatchesApart, Tx
<1> HIDE DEF d
<1>6. /\ \A s \in SpikeIds : spikeStatus'[s] =
           IF s \in ids THEN born[s].status
           ELSE IF wakes /\ s = d.train THEN "SUCCESS" ELSE spikeStatus[s]
      /\ \A t \in TrainIds : train'[t] =
           IF t \in ids /\ born[t].status = "DELEGATED" THEN "CREATED"
           ELSE IF final /\ t = d.train THEN "SUCCESS" ELSE train[t]
      /\ \A s \in SpikeIds : task'[s] =
           IF s \in ids /\ born[s].status = "PENDING" THEN "queued" ELSE task[s]
      /\ \A s \in SpikeIds \ ids : spike'[s] = spike[s]
      /\ \A i \in ids : /\ spike'[i].train = d.train /\ spike'[i].neuron = born[i].neuron
                        /\ spike'[i].provenance = born[i].provenance
  BY <1>1, <1>2 DEF Committed
<1>7. NothingStops'
  <2>1. \A v \in Workers : tx'[v] \in {tx[v], None}
    BY <1>2 DEF IInv, TypeOK
  <2> QED BY <1>0, <1>6, <2>1 DEF NothingStops
<1>8. \A s \in SpikeIds : Born(s) => /\ s \notin ids /\ spike'[s] = spike[s]
                                    /\ task'[s] = task[s]
  BY <1>4, <1>6
<1>9. \A s \in SpikeIds : Born(s) /\ s # d.train =>
        spikeStatus'[s] = spikeStatus[s] /\ train'[s] = train[s]
  BY <1>6, <1>8, Constants
<1>10. ASSUME NEW s \in SpikeIds, Born(s)'
       PROVE  /\ task'[s] = "queued" <=> spikeStatus'[s] = "PENDING"
              /\ task'[s] = "running" => spikeStatus'[s] = "RUNNING"
              /\ Exists(s)' => /\ task'[s] = "idle"
                               /\ spikeStatus'[s] \in {"DELEGATED", "SUCCESS"}
  <2>0. s \in TrainIds
    BY Constants
  <2>1. CASE s \in ids
    <3>1. train[s] = None /\ task[s] = "idle" /\ s # d.train
      BY <1>4, <2>1 DEF Exists
    <3>2. /\ task'[s] = (IF born[s].status = "PENDING" THEN "queued" ELSE "idle")
          /\ train'[s] = (IF born[s].status = "DELEGATED" THEN "CREATED" ELSE None)
          /\ spikeStatus'[s] = born[s].status
      BY <1>6, <2>0, <2>1, <3>1
    <3> QED BY <3>2 DEF Exists
  <2>2. CASE s \notin ids /\ s = d.train
    <3>1. Born(s) /\ Exists(s) /\ task'[s] = task[s]
          /\ spikeStatus'[s] \in {spikeStatus[s], "SUCCESS"}
      BY <1>2, <1>6, <1>10, <2>2 DEF IInv, ReferencesHold
    <3> QED BY <1>0, <3>1 DEF CalmTasks
  <2>3. CASE s \notin ids /\ s # d.train
    <3>1. Born(s) /\ task'[s] = task[s] /\ spikeStatus'[s] = spikeStatus[s]
          /\ train'[s] = train[s]
      BY <1>6, <1>8, <1>9, <1>10, <2>0, <2>3 DEF Born
    <3> QED BY <1>0, <3>1 DEF CalmTasks, Exists
  <2> QED BY <2>1, <2>2, <2>3
<1>11. ASSUME NEW s \in SpikeIds, Born(s), spikeStatus[s] \in {"SUCCESS", "FAILED"}
       PROVE  spikeStatus'[s] = spikeStatus[s] /\ spike'[s] = spike[s]
  <2>1. CASE s = d.train
    <3>1. spikeStatus[s] = "SUCCESS"
      BY <1>0, <1>2, <1>11, <2>1 DEF CalmTasks
    <3> QED BY <1>6, <1>8, <1>11, <3>1
  <2>2. CASE s # d.train
    BY <1>8, <1>9, <1>11, <2>2
  <2> QED BY <2>1, <2>2
<1>12. ASSUME NEW s \in SpikeIds, HasParent(s)' PROVE FiredBy(s, spike[s].provenance)'
  <2>1. CASE s \in ids
    <3>1. born[s].provenance # None /\ born[s] \in NewBirths(d, online)
      BY <1>4, <1>6, <1>12, <2>1 DEF HasParent
    <3>2. \E p \in d.picks, a \in Axons :
            /\ a \in Triggered(p) /\ born[s] \in Births(a.target, p, online)
      <4>1. CASE d.kind = "roots"
        <5>1. PICK n \in Roots : born[s] \in Births(n, None, online)
          BY <3>1, <4>1 DEF NewBirths, RootBirths
        <5>2. n \in Neurons
          BY ConstantsAssumption
        <5> QED BY <1>1, <3>1, <5>1, <5>2, BirthsFacts
      <4>2. CASE d.kind # "roots"
        BY <3>1, <4>2 DEF NewBirths, WaveBirths, Triggered
      <4> QED BY <4>1, <4>2
    <3>3. PICK p \in d.picks, a \in Axons :
            a \in Triggered(p) /\ born[s] \in Births(a.target, p, online)
      BY <3>2
    <3>4. p \in SpikeIds /\ a.target \in Neurons
      BY <1>5, ConstantsAssumption
    <3>5. born[s].neuron = a.target /\ born[s].provenance = p
      BY <1>1, <3>3, <3>4, BirthsFacts
    <3>6. /\ Born(p) /\ spike[p].train = d.train
          /\ spikeStatus[p] \in {"SUCCESS", "FAILED"}
      BY <1>2, <1>5, <3>3 DEF HoldsFinished, d
    <3>7. spikeStatus'[p] = spikeStatus[p] /\ spike'[p] = spike[p]
      BY <1>11, <3>4, <3>6
    <3> QED BY <1>6, <2>1, <3>3, <3>5, <3>6, <3>7 DEF FiredBy, Triggered
  <2>2. CASE s \notin ids
    <3> DEFINE p == spike[s].provenance
    <3>1. spike'[s] = spike[s] /\ HasParent(s)
      BY <1>6, <1>12, <2>2 DEF HasParent, Born
    <3>2. FiredBy(s, p) /\ p \in SpikeIds
      BY <1>0, <3>1 DEF WiresFired, HasParent, IInv, TypeOK, SpikeRow, Born
    <3>3. Born(p)
      BY <3>2, Constants, ConstantsAssumption DEF FiredBy, IInv, TypeOK, Status
    <3>4. spikeStatus'[p] = spikeStatus[p] /\ spike'[p] = spike[p]
      BY <1>11, <3>2, <3>3 DEF FiredBy
    <3> QED BY <3>1, <3>2, <3>4 DEF FiredBy, Triggered
  <2> QED BY <2>1, <2>2
<1> QED BY <1>7, <1>10, <1>12 DEF CalmInv, CalmTasks, WiresFired

LEMMA NextCalm ==
  ASSUME "poll" \notin Ops
  PROVE  IInv /\ LocksInv /\ CalmInv /\ [Next]_vars => CalmInv'
<1> SUFFICES ASSUME IInv, LocksInv, CalmInv, [Next]_vars, ops' = 0 PROVE CalmInv'
  BY DEF CalmInv
<1>1. \A op : ~Intervene(op)
  BY DEF Intervene, IInv, TypeOK
<1>2. /\ \A t \in TrainIds : ~Terminate(t) /\ ~StopGracefully(t) /\ ~CrashStart(t)
      /\ \A s \in SpikeIds : ~Rerun(s) /\ ~CrashTask(s) /\ ~LoseWorker(s)
      /\ \A w \in Workers : ~CrashDispatch(w)
      /\ ~PollSome
  BY <1>1 DEF Terminate, StopGracefully, CrashStart, Rerun, CrashTask, LoseWorker, CrashDispatch,
              PollSome, Poll
<1>3. ops = 0
  BY <1>2 DEF Next, Engine, Intervention, Idle, vars, StartTrain, DispatchBegin, DispatchCommit,
              FireStart, FinishWrite, FinishTask, StaleWrite
<1>4. CalmTasks /\ NothingStops /\ WiresFired
  BY <1>3 DEF CalmInv
<1>5. ASSUME NEW t \in TrainIds, StartTrain(t) PROVE CalmInv'
  <2>1. UNCHANGED <<spike, spikeStatus, task, tx>>
    BY <1>5 DEF StartTrain
  <2>2. /\ \A u \in TrainIds : \/ train'[u] = train[u]
                               \/ train[u] = "CREATED" /\ train'[u] = "RUNNING"
        /\ SpikeIds \subseteq TrainIds
    BY <1>5, Constants DEF StartTrain, IInv, TypeOK
  <2>3. \A u \in TrainIds : /\ train'[u] \notin {"STOPPING", "STOPPED"}
                            /\ train'[u] # None => train[u] # None
    BY <1>4, <2>2, ConstantsAssumption DEF NothingStops, Status
  <2>4. CalmTasks' /\ NothingStops'
    BY <1>4, <2>1, <2>2, <2>3 DEF CalmTasks, NothingStops, Exists, Born
  <2> QED BY <1>4, <2>1, <2>4, WiresKept DEF CalmInv
<1>6. ASSUME NEW w \in Workers, NEW t \in TrainIds, DispatchBegin(w, t) PROVE CalmInv'
  <2>1. UNCHANGED <<train, spike, spikeStatus, task>>
    BY <1>6 DEF DispatchBegin
  <2>2. \A v \in Workers : tx'[v] # None => tx'[v].seen = train[t] \/ tx'[v] = tx[v]
    BY <1>6 DEF DispatchBegin, IInv, TypeOK
  <2>3. CalmTasks' /\ NothingStops'
    BY <1>4, <2>1, <2>2 DEF CalmTasks, NothingStops, Exists, Born
  <2> QED BY <1>4, <2>1, <2>3, WiresKept DEF CalmInv
<1>7. ASSUME NEW w \in Workers, DispatchCommit(w) PROVE CalmInv'
  BY <1>3, <1>7, DispatchCommitCalm
<1>8. ASSUME NEW s \in SpikeIds, FireStart(s) \/ FinishWrite(s) \/ StaleWrite(s) PROVE CalmInv'
  <2>1. /\ UNCHANGED <<train, spike, tx>> /\ task[s] \in {"queued", "running"}
        /\ \A r \in SpikeIds \ {s} : spikeStatus'[r] = spikeStatus[r] /\ task'[r] = task[r]
    BY <1>8 DEF FireStart, FinishWrite, StaleWrite, IInv, TypeOK
  <2>2. Born(s) /\ ~Exists(s) /\ spikeStatus[s] \in {"PENDING", "RUNNING"}
    BY <1>4, <2>1 DEF CalmTasks, IInv, ReferencesHold
  <2>3. /\ task'[s] \in {"running", "written"} /\ spikeStatus'[s] # "PENDING"
        /\ task'[s] = "running" => spikeStatus'[s] = "RUNNING"
    BY <1>4, <1>8, <2>2 DEF FireStart, FinishWrite, StaleWrite, IInv, TypeOK, CalmTasks
  <2>4. CalmTasks' /\ NothingStops'
    BY <1>4, <2>1, <2>2, <2>3 DEF CalmTasks, NothingStops, Exists, Born
  <2>5. WiresFired'
    BY <1>4, <2>1, <2>2, WiresKept
  <2> QED BY <2>4, <2>5 DEF CalmInv
<1>9. ASSUME NEW s \in SpikeIds, FinishTask(s) PROVE CalmInv'
  <2>1. UNCHANGED <<train, spike, spikeStatus, tx>>
        /\ task' = [task EXCEPT ![s] = "done"] /\ task[s] = "written"
    BY <1>9 DEF FinishTask
  <2>2. CalmTasks' /\ NothingStops'
    BY <1>4, <2>1 DEF CalmTasks, NothingStops, Exists, Born, IInv, TypeOK
  <2> QED BY <1>4, <2>1, <2>2, WiresKept DEF CalmInv
<1>10. ASSUME UNCHANGED vars PROVE CalmInv'
  <2>1. UNCHANGED <<train, spike, spikeStatus, task, tx>>
    BY <1>10 DEF vars
  <2>2. CalmTasks' /\ NothingStops'
    BY <1>4, <2>1 DEF CalmTasks, NothingStops, Exists, Born
  <2> QED BY <1>4, <2>1, <2>2, WiresKept DEF CalmInv
<1> QED BY <1>2, <1>5, <1>6, <1>7, <1>8, <1>9, <1>10
        DEF Next, Engine, Intervention, Idle

(* As long as nobody intervenes, what hangs below a spike is what its      *)
(* status calls for: a wire is followed after the status it asks for has   *)
(* been written for the last time, and only then.                          *)
THEOREM WiresFollowStatus ==
  ASSUME "poll" \notin Ops
  PROVE  Spec => []WiresMatchStatus
<1>1. Init => IInv /\ LocksInv /\ CalmInv
  BY InitIInv, InitLocksInv, InitCalm
<1>2. (IInv /\ LocksInv /\ CalmInv) /\ [Next]_vars => (IInv /\ LocksInv /\ CalmInv)'
  BY NextIInv, NextLocksInv, NextCalm
<1>3. CalmInv => WiresMatchStatus
  BY DEF CalmInv, WiresFired, FiredBy, HasParent, WiresMatchStatus
<1> QED BY <1>1, <1>2, <1>3, PTL DEF Spec

-----------------------------------------------------------------------------
(* Wake-ups.  A spike that is born finished has no task to ask for the     *)
(* next wave, and a visit that leaves no spike leaves nobody to follow.    *)

(* A visit to neuron n leaves a spike, and one that is born finished has   *)
(* nothing to follow: what goes to whoever is online ends its branch.      *)
KeepsGoing(n) ==
  \/ Invokes[n] # None
  \/ Mode[n] = "local"
  \/ Mode[n] = "pinned" /\ Pinned[n] # {}
  \/ Mode[n] \in {"fleet", "first"} /\ \A a \in Axons : a.source = n => a.type = "FAILURE"

LEMMA VisitsLeaveSpikes ==
  ASSUME NEW n \in Neurons, NEW from \in SpikeIds \cup {None}, NEW online \in SUBSET Agents,
         KeepsGoing(n)
  PROVE  /\ \E b \in Births(n, from, online) : TRUE
         /\ \A b \in Births(n, from, online) : b.status \in {"SUCCESS", "FAILED"} =>
              b.status = "SUCCESS" /\ \A a \in Axons : a.source = b.neuron => a.type = "FAILURE"
<1>1. Mode[n] \in Modes /\ Pinned[n] \subseteq Agents
  BY ConstantsAssumption
<1>2. \A st \in SeedStatus(n, online) : Birth(n, from, None, st) \in Births(n, from, online)
  BY DEF Births
<1>3. \A a \in CloneTargets(n, online) : Birth(n, from, a, "PENDING") \in Births(n, from, online)
  BY DEF Births
<1>4. (\E st \in SeedStatus(n, online) : TRUE) \/ (\E a \in CloneTargets(n, online) : TRUE)
  <2>1. CASE Invokes[n] # None
    <3>1. "DELEGATED" \in SeedStatus(n, online)
      BY <2>1 DEF SeedStatus
    <3> QED BY <3>1
  <2>2. CASE Invokes[n] = None /\ Mode[n] = "local"
    <3>1. "PENDING" \in SeedStatus(n, online)
      BY <2>2 DEF SeedStatus
    <3> QED BY <3>1
  <2>3. CASE Invokes[n] = None /\ Mode[n] = "pinned" /\ Pinned[n] # {}
    <3>1. PICK a \in Pinned[n] : TRUE
      BY <2>3
    <3>2. a \in CloneTargets(n, online)
      BY <1>1, <2>3, <3>1 DEF CloneTargets
    <3> QED BY <3>2
  <2>4. CASE Invokes[n] = None /\ Mode[n] \in {"fleet", "first"} /\ online = {}
    <3>1. "SUCCESS" \in SeedStatus(n, online)
      BY <2>4 DEF SeedStatus
    <3> QED BY <3>1
  <2>5. CASE Invokes[n] = None /\ Mode[n] = "fleet" /\ online # {}
    <3>1. PICK a \in online : TRUE
      BY <2>5
    <3>2. a \in CloneTargets(n, online)
      BY <2>5, <3>1 DEF CloneTargets
    <3> QED BY <3>2
  <2>6. CASE Invokes[n] = None /\ Mode[n] = "first" /\ online # {}
    <3> DEFINE a == CHOOSE x \in online : TRUE
    <3>1. a \in online
      BY <2>6
    <3> HIDE DEF a
    <3>2. a \in CloneTargets(n, online)
      BY <2>6, <3>1 DEF CloneTargets, a
    <3> QED BY <3>2
  <2> QED BY <2>1, <2>2, <2>3, <2>4, <2>5, <2>6 DEF KeepsGoing
<1>5. ASSUME NEW b \in Births(n, from, online), b.status \in {"SUCCESS", "FAILED"}
      PROVE  b.status = "SUCCESS" /\ \A a \in Axons : a.source = b.neuron => a.type = "FAILURE"
  <2>1. PICK st \in SeedStatus(n, online) : b = Birth(n, from, None, st)
    BY <1>5 DEF Births, Birth
  <2>2. b.status = st /\ b.neuron = n /\ st = "SUCCESS"
    BY <1>5, <2>1 DEF Birth, SeedStatus
  <2>3. Invokes[n] = None /\ Mode[n] \in {"fleet", "first"}
    BY <2>2 DEF SeedStatus
  <2> QED BY <2>2, <2>3 DEF KeepsGoing
<1> QED BY <1>2, <1>3, <1>4, <1>5

(* A finished spike with a wire to follow, and who will follow it.         *)
Due(s) ==
  /\ Born(s)
  /\ spikeStatus[s] \in {"SUCCESS", "FAILED"}
  /\ Triggered(s) # {}
  /\ Children(s) = {}

Awaited(s) ==
  \/ task[s] = "written"
  \/ checks[spike[s].train] > 0
  \/ \E w \in Workers : tx[w] # None /\ s \in tx[w].picks

WakeInv == \A s \in SpikeIds : Due(s) => Awaited(s)

LEMMA InitWake == Init => WakeInv
BY DEF Init, WakeInv, Due, Born

(* Who was to follow it still is, if it was due already.                   *)
LEMMA WakeKept ==
  ASSUME IInv, WakeInv, UNCHANGED <<spike, tx>>,
         \A t \in TrainIds : checks'[t] \in {checks[t], checks[t] + 1},
         \A s \in SpikeIds : Due(s)' =>
           \/ Awaited(s)'
           \/ spikeStatus'[s] = spikeStatus[s] /\ (task[s] = "written" => task'[s] = "written")
  PROVE  WakeInv'
<1> SUFFICES ASSUME NEW s \in SpikeIds, Due(s)', ~Awaited(s)' PROVE FALSE
  BY DEF WakeInv
<1>1. spikeStatus'[s] = spikeStatus[s] /\ (task[s] = "written" => task'[s] = "written")
  OBVIOUS
<1>2. Due(s)
  BY <1>1 DEF Due, Born, Triggered, Children
<1>3. Awaited(s) /\ spike[s].train \in TrainIds
  BY <1>2 DEF WakeInv, Due, Born, IInv, TypeOK, SpikeRow
<1>4. checks[spike[s].train] > 0 => checks'[spike[s].train] > 0
  BY <1>3 DEF IInv, TypeOK
<1> QED BY <1>1, <1>3, <1>4 DEF Awaited

LEMMA DispatchBeginWake ==
  ASSUME IInv, DelegationInv, WakeInv, NEW w \in Workers, NEW t \in TrainIds,
         DispatchBegin(w, t)
  PROVE  WakeInv'
<1>0. /\ Finished(t) \subseteq SpikeIds /\ Unprocessed(t) \subseteq SpikeIds
      /\ train[t] \in Status
  BY DEF DispatchBegin, Finished, Unprocessed, SpikesOf, IInv, TypeOK, ReferencesHold, Exists
<1>1. /\ UNCHANGED <<train, spike, spikeStatus, task>> /\ checks[t] \in Nat
      /\ checks' = [checks EXCEPT ![t] = checks[t] - 1] /\ tx[w] = None
      /\ train[t] # "STOPPING"
  BY DEF DispatchBegin, IInv, TypeOK, DelegationInv, NothingStops
<1>2. PICK kind, locked, picks :
        /\ tx' = [tx EXCEPT ![w] = [train |-> t, kind |-> kind, seen |-> train[t],
                                   locked |-> locked, picks |-> picks]]
        /\ SpikesOf(t) # {} => picks = Unprocessed(t)
        /\ kind \in {"roots", "wave"} /\ locked \subseteq SpikeIds /\ picks \subseteq SpikeIds
  BY <1>0, <1>1 DEF DispatchBegin
<1> DEFINE r == [train |-> t, kind |-> kind, seen |-> train[t],
                 locked |-> locked, picks |-> picks]
<1>3. r.picks = picks
  OBVIOUS
<1>4. r # None
  BY <1>0, <1>2, NoneAssumption DEF Tx
<1> HIDE DEF r
<1>5. tx'[w] = r /\ \A v \in Workers \ {w} : tx'[v] = tx[v]
  BY <1>2 DEF IInv, TypeOK, r
<1> SUFFICES ASSUME NEW s \in SpikeIds, Due(s) PROVE Awaited(s)'
  BY <1>1 DEF WakeInv, Due, Born, Triggered, Children
<1>6. spike[s].train \in TrainIds
  BY DEF Due, Born, IInv, TypeOK, SpikeRow
<1>7. CASE spike[s].train = t
  <2>1. s \in Unprocessed(t) /\ s \in SpikesOf(t)
    BY <1>7 DEF Due, Unprocessed, Finished, SpikesOf
  <2> QED BY <1>2, <1>3, <1>4, <1>5, <2>1 DEF Awaited
<1>8. CASE spike[s].train # t
  <2>1. Awaited(s)
    BY DEF WakeInv
  <2>2. checks'[spike[s].train] = checks[spike[s].train]
    BY <1>1, <1>6, <1>8 DEF IInv, TypeOK
  <2> QED BY <1>1, <1>5, <2>1, <2>2 DEF Awaited
<1> QED BY <1>7, <1>8

LEMMA DispatchCommitWake ==
  ASSUME \A n \in Neurons : KeepsGoing(n),
         IInv, IInv', LocksInv, WakeInv, NEW w \in Workers, DispatchCommit(w)
  PROVE  WakeInv'
<1> DEFINE d == tx[w]
<1>1. PICK online, ids, born, final, wakes :
        /\ online \in SUBSET Agents /\ ids \in SUBSET SpikeIds
        /\ Numbers(ids, born, NewBirths(d, online))
        /\ wakes <=> final /\ WakesParent(d.train, FinalStatus(d))
        /\ Committed(d, ids, born, final, wakes)
  BY CommitFacts
<1>2. /\ d \in Tx /\ d # None /\ tx' = [tx EXCEPT ![w] = None]
      /\ wakes => d.train \in SpikeIds /\ Born(d.train) /\ spike[d.train].train \in TrainIds
  BY <1>1, DispatchFacts DEF DispatchCommit
<1>3. HoldsFinished(w) /\ d.picks \subseteq d.locked /\ d.picks \subseteq SpikeIds
  BY <1>2 DEF LocksInv, IInv, DispatchesApart, Tx
<1>4. \A v \in Workers \ {w} : tx'[v] = tx[v]
  BY <1>2 DEF IInv, TypeOK
<1> SUFFICES ASSUME NEW s \in SpikeIds, Due(s)' PROVE Awaited(s)'
  BY DEF WakeInv
<1>5. CASE s \in ids
  <2>1. /\ spike'[s].neuron = born[s].neuron /\ spikeStatus'[s] = born[s].status
        /\ born[s] \in NewBirths(d, online)
    BY <1>1, <1>5 DEF Committed, Numbers
  <2>2. \E n \in Neurons, from \in SpikeIds \cup {None} : born[s] \in Births(n, from, online)
    <3>1. CASE d.kind = "roots"
      BY <2>1, <3>1, ConstantsAssumption DEF NewBirths, RootBirths
    <3>2. CASE d.kind # "roots"
      <4>1. PICK p \in d.picks : \E a \in Triggered(p) : born[s] \in Births(a.target, p, online)
        BY <2>1, <3>2 DEF NewBirths, WaveBirths
      <4>2. PICK a \in Axons : born[s] \in Births(a.target, p, online)
        BY <4>1 DEF Triggered
      <4> QED BY <1>3, <4>1, <4>2, ConstantsAssumption
    <3> QED BY <3>1, <3>2
  <2>3. /\ born[s].status = "SUCCESS"
        /\ \A a \in Axons : a.source = born[s].neuron => a.type = "FAILURE"
    BY <1>1, <2>1, <2>2, VisitsLeaveSpikes DEF Due
  <2> QED BY <2>1, <2>3 DEF Due, Triggered, Fires
<1>6. CASE s \notin ids /\ wakes /\ s = d.train
  <2>1. checks'[spike[s].train] = checks[spike[s].train] + 1 /\ spike'[s] = spike[s]
        /\ checks[spike[s].train] \in Nat
    BY <1>1, <1>2, <1>6 DEF Committed, IInv, TypeOK
  <2> QED BY <2>1 DEF Awaited
<1>7. CASE s \notin ids /\ ~(wakes /\ s = d.train)
  <2>1. /\ spike'[s] = spike[s] /\ spikeStatus'[s] = spikeStatus[s] /\ task'[s] = task[s]
        /\ \A i \in ids : spike'[i].provenance = born[i].provenance
    BY <1>1, <1>7 DEF Committed
  <2>2. \A c \in Children(s) : c \in Children(s)'
    BY <1>1 DEF Children, Born, Committed, Numbers
  <2>3. Due(s)
    BY <2>1, <2>2 DEF Due, Born, Triggered
  <2>4. Awaited(s) /\ spike[s].train \in TrainIds
    BY <2>3 DEF WakeInv, Due, Born, IInv, TypeOK, SpikeRow
  <2>5. s \notin d.picks
    <3> SUFFICES ASSUME s \in d.picks PROVE FALSE
      OBVIOUS
    <3>1. d.kind = "wave"
      BY <1>2, <1>3 DEF HoldsFinished, d
    <3>2. PICK a \in Axons : a \in Triggered(s)
      BY <2>3 DEF Due, Triggered
    <3>3. PICK b \in Births(a.target, s, online) : TRUE
      <4>1. a.target \in Neurons
        BY ConstantsAssumption
      <4> QED BY <1>1, <4>1, VisitsLeaveSpikes
    <3>4. b \in NewBirths(d, online) /\ b.provenance = s
      <4>1. a.target \in Neurons
        BY ConstantsAssumption
      <4>2. b \in NewBirths(d, online)
        BY <3>1, <3>2, <3>3 DEF NewBirths, WaveBirths
      <4>3. b.provenance = s
        BY <1>1, <3>3, <4>1, BirthsFacts
      <4> QED BY <4>2, <4>3
    <3>5. PICK i \in ids : born[i] = b
      BY <1>1, <3>4 DEF Numbers
    <3>6. i \in SpikeIds /\ spike'[i].provenance = s /\ i \in ids
      BY <1>1, <2>1, <3>4, <3>5
    <3>7. Born(i)'
      <4>1. spikeStatus'[i] = b.status /\ a.target \in Neurons
        BY <1>1, <3>5, <3>6, ConstantsAssumption DEF Committed
      <4>2. b.status \in Status
        BY <1>1, <3>3, <4>1, BirthsFacts
      <4> QED BY <3>6, <4>1, <4>2, Constants DEF IInv, TypeOK
    <3> QED BY <3>6, <3>7 DEF Due, Children
  <2>6. checks[spike[s].train] > 0 => checks'[spike[s].train] > 0
    BY <1>1, <2>4 DEF Committed, IInv, TypeOK
  <2> QED BY <1>2, <1>4, <2>1, <2>4, <2>5, <2>6 DEF Awaited, d
<1> QED BY <1>5, <1>6, <1>7

LEMMA NextWake ==
  ASSUME {"stop", "crash", "vanish"} \cap Ops = {}, \A n \in Neurons : KeepsGoing(n)
  PROVE  IInv /\ LocksInv /\ DelegationInv /\ WakeInv /\ [Next]_vars => WakeInv'
<1> SUFFICES ASSUME IInv, LocksInv, DelegationInv, WakeInv, [Next]_vars PROVE WakeInv'
  OBVIOUS
<1>0. IInv'
  BY NextIInv
<1>1. ASSUME NEW t \in TrainIds, StartTrain(t) PROVE WakeInv'
  <2>1. /\ UNCHANGED <<spike, spikeStatus, task, tx>>
        /\ \A u \in TrainIds : checks'[u] \in {checks[u], checks[u] + 1}
    BY <1>1 DEF StartTrain, IInv, TypeOK
  <2> QED BY <2>1, WakeKept
<1>2. ASSUME NEW w \in Workers, NEW t \in TrainIds, DispatchBegin(w, t) PROVE WakeInv'
  BY <1>2, DispatchBeginWake
<1>3. ASSUME NEW w \in Workers, DispatchCommit(w) PROVE WakeInv'
  BY <1>0, <1>3, DispatchCommitWake
<1>4. ASSUME NEW s \in SpikeIds, FireStart(s) \/ FinishWrite(s) \/ StaleWrite(s) \/ Rerun(s)
      PROVE  WakeInv'
  <2>1. /\ UNCHANGED <<spike, checks, tx>>
        /\ \A r \in SpikeIds \ {s} : spikeStatus'[r] = spikeStatus[r] /\ task'[r] = task[r]
        /\ spikeStatus'[s] \in {"SUCCESS", "FAILED"} => task'[s] = "written"
    BY <1>4 DEF FireStart, FinishWrite, StaleWrite, Rerun, IInv, TypeOK
  <2>2. \A r \in SpikeIds : Due(r)' =>
          \/ Awaited(r)'
          \/ spikeStatus'[r] = spikeStatus[r] /\ (task[r] = "written" => task'[r] = "written")
    BY <2>1 DEF Due, Awaited
  <2> QED BY <2>1, <2>2, WakeKept
<1>5. ASSUME NEW s \in SpikeIds, FinishTask(s) PROVE WakeInv'
  <2>1. spike[s].train \in TrainIds
    BY <1>5 DEF FinishTask, IInv, TypeOK, ReferencesHold, SpikeRow, Born
  <2>2. /\ UNCHANGED <<spike, spikeStatus, tx>>
        /\ \A r \in SpikeIds \ {s} : task'[r] = task[r]
        /\ \A t \in TrainIds : checks'[t] \in {checks[t], checks[t] + 1}
        /\ checks'[spike[s].train] > 0
    BY <1>5, <2>1 DEF FinishTask, IInv, TypeOK
  <2>3. \A r \in SpikeIds : Due(r)' =>
          \/ Awaited(r)'
          \/ spikeStatus'[r] = spikeStatus[r] /\ (task[r] = "written" => task'[r] = "written")
    BY <2>2 DEF Awaited
  <2> QED BY <2>2, <2>3, WakeKept
<1>6. ASSUME NEW t \in TrainIds, Terminate(t) PROVE WakeInv'
  <2>1. /\ UNCHANGED <<spike, task, tx>>
        /\ \A s \in SpikeIds : \/ spikeStatus'[s] \in {spikeStatus[s], "ABORTED"}
                               \/ WakesParent(t, "FAILED") /\ s = t
    BY <1>6 DEF Terminate
  <2>2. WakesParent(t, "FAILED") => spike[t].train \in TrainIds
    BY <1>6, Constants DEF Terminate, WakesParent, IInv, TypeOK, ReferencesHold, SpikeRow, Born
  <2>3. /\ \A u \in TrainIds : checks'[u] \in {checks[u], checks[u] + 1}
        /\ WakesParent(t, "FAILED") => checks'[spike[t].train] > 0
    BY <1>6, <2>2 DEF Terminate, IInv, TypeOK
  <2>4. \A r \in SpikeIds : Due(r)' =>
          \/ Awaited(r)'
          \/ spikeStatus'[r] = spikeStatus[r] /\ (task[r] = "written" => task'[r] = "written")
    BY <2>1, <2>3 DEF Due, Awaited
  <2> QED BY <2>1, <2>3, <2>4, WakeKept
<1>7. ASSUME PollSome PROVE WakeInv'
  <2>1. /\ UNCHANGED <<spike, task, tx>>
        /\ checks' = [checks EXCEPT ![0] = @ + 1]
        /\ \A s \in SpikeIds : spikeStatus'[s] = spikeStatus[s] \/ s \in Heads(0)
    BY <1>7 DEF PollSome, Poll
  <2>2. /\ \A u \in TrainIds : checks'[u] \in {checks[u], checks[u] + 1}
        /\ checks'[0] > 0
    BY <2>1, Constants DEF IInv, TypeOK
  <2>3. \A s \in Heads(0) : spike[s].train = 0
    BY DEF Heads, SpikesOf
  <2>4. \A r \in SpikeIds : Due(r)' =>
          \/ Awaited(r)'
          \/ spikeStatus'[r] = spikeStatus[r] /\ (task[r] = "written" => task'[r] = "written")
    BY <2>1, <2>2, <2>3 DEF Awaited
  <2> QED BY <2>1, <2>2, <2>4, WakeKept
<1>8. ASSUME (\E t \in TrainIds : CrashStart(t)) \/ UNCHANGED vars PROVE WakeInv'
  <2>1. UNCHANGED <<spike, spikeStatus, task, checks, tx>>
    BY <1>8 DEF CrashStart, vars
  <2> QED BY <2>1, WakeKept
<1>9. /\ \A t \in TrainIds : ~StopGracefully(t)
      /\ \A s \in SpikeIds : ~CrashTask(s) /\ ~LoseWorker(s)
      /\ \A w \in Workers : ~CrashDispatch(w)
  BY DEF StopGracefully, CrashTask, LoseWorker, CrashDispatch, Intervene
<1> QED BY <1>1, <1>2, <1>3, <1>4, <1>5, <1>6, <1>7, <1>8, <1>9
        DEF Next, Engine, Intervention, Idle

(* Unless a worker dies, a finished spike with wires to follow is never    *)
(* forgotten, whatever is terminated, polled, run again or overwritten, as *)
(* long as the effectors that go to whoever is online end their branch:    *)
(* such a spike can be born finished, and then nobody asks for its wave.   *)
(* (A stop forgets them on purpose, also when the train is terminated      *)
(* after it.)                                                              *)
THEOREM WakeUpsNotLost ==
  ASSUME {"stop", "crash", "vanish"} \cap Ops = {}, \A n \in Neurons : KeepsGoing(n)
  PROVE  Spec => []NoLostWakeUp
<1>1. Init => IInv /\ LocksInv /\ DelegationInv /\ WakeInv
  BY InitIInv, InitLocksInv, InitDelegation, InitWake
<1>2. (IInv /\ LocksInv /\ DelegationInv /\ WakeInv) /\ [Next]_vars
        => (IInv /\ LocksInv /\ DelegationInv /\ WakeInv)'
  BY NextIInv, NextLocksInv, NextDelegation, NextWake
<1>3. WakeInv => NoLostWakeUp
  BY DEF WakeInv, Due, Awaited, NoLostWakeUp
<1> QED BY <1>1, <1>2, <1>3, PTL DEF Spec


-----------------------------------------------------------------------------
(* The spikes on the way to a spike. *)

(* A set of natural numbers that is not empty has a least one.             *)
LEMMA LeastNumber ==
  ASSUME NEW S \in SUBSET Nat, S # {}
  PROVE  \E n \in S : \A m \in S : n <= m
<1>1. PICK n \in S : \A m \in S : <<m, n>> \notin OpToRel(<, Nat)
  BY NatLessThanWellFounded, WFMin, Zenon
<1>2. \A m \in S : ~(m < n)
  BY <1>1 DEF OpToRel
<1> QED BY <1>2

(* If each number below n points at a smaller one or at none, the sets of  *)
(* the numbers on the way from each are defined.                           *)
Paths(f, n, F) ==
  f = [s \in 1 .. n |-> IF F[s] = None THEN {} ELSE {F[s]} \cup f[F[s]]]

LEMMA PathsExist ==
  ASSUME NEW N \in Nat, NEW F, \A s \in 1 .. N : F[s] # None => F[s] \in 1 .. (s - 1)
  PROVE  \E f : Paths(f, N, F)
<1> DEFINE Bad == {n \in 0 .. N : ~ \E f : Paths(f, n, F)}
<1> SUFFICES ASSUME Bad # {} PROVE FALSE
  OBVIOUS
<1>1. Bad \subseteq Nat
  OBVIOUS
<1>2. PICK n \in Bad : \A m \in Bad : n <= m
  BY <1>1, LeastNumber
<1>3. CASE n = 0
  <2> DEFINE f == [s \in 1 .. 0 |-> {}]
  <2>1. f = [s \in 1 .. 0 |-> IF F[s] = None THEN {} ELSE {F[s]} \cup f[F[s]]]
    OBVIOUS
  <2> QED BY <1>2, <1>3, <2>1 DEF Paths
<1>4. CASE n # 0
  <2>1. PICK k \in 0 .. N : k = n - 1 /\ k \notin Bad
    BY <1>2, <1>4
  <2>2. PICK g : Paths(g, k, F)
    BY <2>1
  <2> DEFINE f == [s \in 1 .. n |-> IF F[s] = None THEN {} ELSE {F[s]} \cup g[F[s]]]
  <2>3. ASSUME NEW x \in 1 .. k PROVE g[x] = f[x]
    <3>1. g[x] = IF F[x] = None THEN {} ELSE {F[x]} \cup g[F[x]]
      BY <2>2 DEF Paths
    <3>2. x \in 1 .. n
      BY <2>1
    <3> QED BY <3>1, <3>2
  <2>4. ASSUME NEW s \in 1 .. n
        PROVE  f[s] = IF F[s] = None THEN {} ELSE {F[s]} \cup f[F[s]]
    <3>1. s \in 1 .. N
      BY <1>2
    <3>2. F[s] # None => F[s] \in 1 .. k
      BY <2>1, <3>1
    <3>3. F[s] # None => g[F[s]] = f[F[s]]
      BY <3>2, <2>3
    <3> HIDE DEF f
    <3>4. f[s] = IF F[s] = None THEN {} ELSE {F[s]} \cup g[F[s]]
      BY DEF f
    <3> QED BY <3>3, <3>4
  <2>5. Paths(f, n, F)
    BY <2>4 DEF Paths
  <2> QED BY <1>2, <2>5
<1> QED BY <1>3, <1>4

(* A spike is older than those that come from it. *)
OlderFirst ==
  \A s \in SpikeIds : From(s) # None => Born(From(s)) /\ From(s) \in 1 .. (s - 1)

WaySteps ==
  \A s \in SpikeIds :
    Way[s] = IF From(s) = None THEN {} ELSE {From(s)} \cup Way[From(s)]

LEMMA WayStep == OlderFirst => WaySteps
<1> SUFFICES ASSUME OlderFirst
             PROVE  Way = [s \in SpikeIds |->
                             IF From(s) = None THEN {} ELSE {From(s)} \cup Way[From(s)]]
  BY DEF WaySteps
<1> DEFINE F == [s \in SpikeIds |-> From(s)]
<1>1. PICK f : Paths(f, MaxSpikes, F)
  <2>1. \A s \in 1 .. MaxSpikes : F[s] # None => F[s] \in 1 .. (s - 1)
    BY DEF OlderFirst, SpikeIds
  <2> HIDE DEF F
  <2> QED BY <2>1, PathsExist, ConstantsAssumption
<1>2. f = [s \in SpikeIds |-> IF From(s) = None THEN {} ELSE {From(s)} \cup f[From(s)]]
  BY <1>1 DEF Paths, SpikeIds
<1> QED BY <1>2, Zenon DEF Way

(* They are older, and in the table.                                       *)
LEMMA WayOlder ==
  ASSUME OlderFirst, NEW s \in SpikeIds
  PROVE  /\ Way[s] \subseteq SpikeIds /\ IsFiniteSet(Way[s])
         /\ \A a \in Way[s] : a < s /\ Born(a)
<1> DEFINE Bad == {r \in SpikeIds : ~ \A a \in Way[r] : a \in SpikeIds /\ a < r /\ Born(a)}
<1>1. Bad = {}
  <2> SUFFICES ASSUME Bad # {} PROVE FALSE
    OBVIOUS
  <2>1. Bad \subseteq Nat /\ SpikeIds \subseteq Nat
    BY DEF SpikeIds
  <2>2. PICK r \in Bad : \A m \in Bad : r <= m
    BY <2>1, LeastNumber
  <2>3. From(r) # None => /\ From(r) \in SpikeIds /\ From(r) < r /\ Born(From(r))
                          /\ From(r) \notin Bad
    BY <2>1, <2>2, ConstantsAssumption DEF OlderFirst, SpikeIds
  <2>4. Way[r] = IF From(r) = None THEN {} ELSE {From(r)} \cup Way[From(r)]
    BY <2>2, WayStep DEF WaySteps
  <2>5. \A a \in Way[r] : a \in SpikeIds /\ a < r /\ Born(a)
    <3>1. \A q \in SpikeIds : q \notin Bad =>
            \A a \in Way[q] : a \in SpikeIds /\ a < q /\ Born(a)
      OBVIOUS
    <3>2. From(r) # None => \A a \in Way[From(r)] : a \in SpikeIds /\ a < r /\ Born(a)
      <4>1. r \in SpikeIds
        BY <2>2
      <4> HIDE DEF Bad
      <4> SUFFICES ASSUME From(r) # None, NEW a \in Way[From(r)]
                   PROVE  a \in SpikeIds /\ a < r /\ Born(a)
        OBVIOUS
      <4>2. From(r) \in SpikeIds /\ From(r) \notin Bad /\ From(r) < r
        BY <2>3
      <4>3. a \in SpikeIds /\ a < From(r) /\ Born(a)
        BY <3>1, <4>2
      <4>4. a \in Int /\ From(r) \in Int /\ r \in Int
        BY <4>1, <4>2, <4>3 DEF SpikeIds
      <4> QED BY <4>2, <4>3, <4>4
    <3> QED BY <2>2, <2>3, <2>4, <3>2
  <2> QED BY <2>2, <2>5
<1>2. \A a \in Way[s] : a \in SpikeIds /\ a < s /\ Born(a)
  BY <1>1
<1>3. IsFiniteSet(SpikeIds)
  BY ConstantsAssumption, FS_Interval DEF SpikeIds
<1> QED BY <1>2, <1>3, FS_Subset

(* The way to a spike is settled when it is born.                          *)
LEMMA WayKept ==
  ASSUME OlderFirst, OlderFirst', \A s \in SpikeIds : Born(s) => spike'[s] = spike[s],
         NEW s0 \in SpikeIds, Born(s0)
  PROVE  Way'[s0] = Way[s0]
<1> DEFINE Bad == {r \in SpikeIds : Born(r) /\ Way'[r] # Way[r]}
<1> SUFFICES ASSUME Bad # {} PROVE FALSE
  OBVIOUS
<1>1. Bad \subseteq Nat /\ SpikeIds \subseteq Nat
  BY DEF SpikeIds
<1>2. PICK r \in Bad : \A m \in Bad : r <= m
  BY <1>1, LeastNumber
<1>3. From(r)' = From(r)
  BY <1>2 DEF From, Born
<1>4. WaySteps /\ WaySteps'
  BY WayStep, PTL
<1>5. /\ Way[r] = IF From(r) = None THEN {} ELSE {From(r)} \cup Way[From(r)]
      /\ Way'[r] = IF From(r)' = None THEN {} ELSE {From(r)'} \cup Way'[From(r)']
  BY <1>2, <1>4 DEF WaySteps
<1>6. From(r) # None => /\ From(r) \in SpikeIds /\ From(r) < r /\ Born(From(r))
  BY <1>1, <1>2, ConstantsAssumption DEF OlderFirst, SpikeIds
<1>7. From(r) # None => Way'[From(r)] = Way[From(r)]
  BY <1>1, <1>2, <1>6
<1> QED BY <1>2, <1>3, <1>5, <1>7

-----------------------------------------------------------------------------
(* Spikes have the numbers of their age. *)

LEMMA NewBirthsStatus ==
  ASSUME NEW d \in Tx, NEW online \in SUBSET Agents, NEW b \in NewBirths(d, online)
  PROVE  /\ b.status \in {"DELEGATED", "PENDING", "SUCCESS"}
         /\ b.status = "DELEGATED" => Invokes[b.neuron] # None
         /\ b.status = "SUCCESS" =>
              Invokes[b.neuron] = None /\ Mode[b.neuron] \in {"fleet", "first"}
<1>1. \E n \in Neurons : \E from : b \in Births(n, from, online)
  <2>1. CASE d.kind = "roots"
    BY <2>1, ConstantsAssumption DEF NewBirths, RootBirths
  <2>2. CASE d.kind # "roots"
    <3>1. PICK s \in d.picks : \E a \in Triggered(s) : b \in Births(a.target, s, online)
      BY <2>2 DEF NewBirths, WaveBirths
    <3>2. PICK a \in Axons : b \in Births(a.target, s, online)
      BY <3>1 DEF Triggered
    <3> QED BY <3>2, ConstantsAssumption
  <2> QED BY <2>1, <2>2
<1>2. PICK n \in Neurons : \E from : b \in Births(n, from, online)
  BY <1>1
<1>3. PICK from : b \in Births(n, from, online)
  BY <1>2
<1>4. PICK st, a : \/ st \in SeedStatus(n, online) /\ b = Birth(n, from, None, st)
                   \/ b = Birth(n, from, a, "PENDING")
  BY <1>3 DEF Births
<1> QED BY <1>4 DEF Birth, SeedStatus

(* What a commit does to the rows: what is new comes from a picked spike   *)
(* or is a root, and gets a child train if it is DELEGATED; of the others  *)
(* only a container may get another status.                                *)
NewRow(d, i) ==
  /\ ~Born(i) /\ spike'[i] \in SpikeRow /\ spike'[i].train = d.train
  /\ spike'[i].provenance # None => spike'[i].provenance \in d.picks
  /\ task[i] = "idle" /\ task'[i] \in {"idle", "queued"}
  /\ spikeStatus'[i] \in {"DELEGATED", "PENDING", "SUCCESS"}
  /\ spikeStatus'[i] = "DELEGATED" => Invokes[spike'[i].neuron] # None
  /\ spikeStatus'[i] = "SUCCESS" => /\ Invokes[spike'[i].neuron] = None
                                    /\ Mode[spike'[i].neuron] \in {"fleet", "first"}

OldRow(s) ==
  /\ spike'[s] = spike[s] /\ task'[s] = task[s]
  /\ Exists(s)' => Exists(s)
  /\ ~Exists(s) => spikeStatus'[s] = spikeStatus[s]

LEMMA CommitRows ==
  ASSUME IInv, NEW w \in Workers, DispatchCommit(w)
  PROVE  \E ids \in SUBSET SpikeIds :
           /\ Fresh(ids)
           /\ \A i \in ids : /\ NewRow(tx[w], i)
                             /\ Exists(i)' => spikeStatus'[i] = "DELEGATED"
           /\ \A s \in SpikeIds \ ids : OldRow(s)
<1> DEFINE d == tx[w]
<1>1. PICK online, ids, born, final, wakes :
        /\ online \in SUBSET Agents /\ ids \in SUBSET SpikeIds
        /\ Fresh(ids) /\ Numbers(ids, born, NewBirths(d, online))
        /\ wakes <=> final /\ WakesParent(d.train, FinalStatus(d))
        /\ Committed(d, ids, born, final, wakes)
  BY CommitFacts
<1>2. /\ d \in Tx /\ d.train \in TrainIds /\ Exists(d.train)
  BY DispatchFacts DEF DispatchCommit
<1> HIDE DEF d
<1>3. ASSUME NEW i \in ids
      PROVE  NewRow(d, i) /\ (Exists(i)' => spikeStatus'[i] = "DELEGATED")
  <2>1. i \in SpikeIds /\ i \in TrainIds /\ ~Born(i) /\ born[i] \in NewBirths(d, online)
    BY <1>1, <1>3, Constants DEF Numbers
  <2>2. /\ born[i] \in BirthRow
        /\ born[i].provenance # None => born[i].provenance \in d.picks
    BY <1>1, <1>2, <2>1, NewBirthsFacts
  <2>3. /\ born[i].status \in {"DELEGATED", "PENDING", "SUCCESS"}
        /\ born[i].status = "DELEGATED" => Invokes[born[i].neuron] # None
        /\ born[i].status = "SUCCESS" =>
             Invokes[born[i].neuron] = None /\ Mode[born[i].neuron] \in {"fleet", "first"}
    BY <1>1, <1>2, <2>1, NewBirthsStatus
  <2>4. task[i] = "idle" /\ ~Exists(i) /\ i # d.train
    BY <1>2, <2>1 DEF IInv, ReferencesHold
  <2>5. /\ spike'[i] = [train |-> d.train, neuron |-> born[i].neuron,
                        provenance |-> born[i].provenance, target |-> born[i].target]
        /\ spikeStatus'[i] = born[i].status
        /\ task'[i] = IF born[i].status = "PENDING" THEN "queued" ELSE task[i]
        /\ train'[i] = IF born[i].status = "DELEGATED" THEN "CREATED" ELSE train[i]
    BY <1>1, <1>3, <2>1, <2>4 DEF Committed
  <2>6. spike'[i] \in SpikeRow
    BY <1>2, <2>2, <2>5 DEF BirthRow, SpikeRow
  <2>7. Exists(i)' => spikeStatus'[i] = "DELEGATED"
    BY <2>4, <2>5 DEF Exists
  <2> QED BY <2>1, <2>2, <2>3, <2>4, <2>5, <2>6, <2>7 DEF NewRow
<1>4. ASSUME NEW s \in SpikeIds \ ids PROVE OldRow(s)
  <2>0. s \in TrainIds
    BY Constants
  <2>1. /\ spike'[s] = spike[s] /\ task'[s] = task[s]
        /\ spikeStatus'[s] = spikeStatus[s] \/ s = d.train
        /\ train'[s] = train[s] \/ s = d.train
    BY <1>1, <1>4, <2>0 DEF Committed
  <2> QED BY <1>2, <2>1 DEF OldRow, Exists
<1> QED BY <1>1, <1>3, <1>4 DEF d

(* The lowest numbers are taken first, a spike is older than those that    *)
(* come from it, and only a container has a child train.                   *)
LowestFirst == \A s, r \in SpikeIds : Born(r) /\ s < r => Born(s)

ContainersDelegate == \A t \in SpikeIds : Exists(t) => Invokes[spike[t].neuron] # None

OrderInv == LowestFirst /\ OlderFirst /\ ContainersDelegate

LEMMA InitOrder == Init => OrderInv
<1> SUFFICES ASSUME Init PROVE OrderInv
  OBVIOUS
<1>1. \A s \in SpikeIds : ~Born(s) /\ ~Exists(s)
  BY Constants DEF Init, Born, Exists
<1> QED BY <1>1 DEF OrderInv, LowestFirst, OlderFirst, ContainersDelegate, From

LEMMA DispatchCommitOrder ==
  ASSUME IInv, OrderInv, NEW w \in Workers, DispatchCommit(w)
  PROVE  OrderInv'
<1> DEFINE d == tx[w]
<1>1. PICK ids \in SUBSET SpikeIds :
        /\ Fresh(ids)
        /\ \A i \in ids : NewRow(d, i) /\ (Exists(i)' => spikeStatus'[i] = "DELEGATED")
        /\ \A s \in SpikeIds \ ids : OldRow(s)
  BY CommitRows
<1>2. /\ Exists(d.train) /\ d.train \in TrainIds /\ d \in Tx
      /\ \A p \in d.picks : p \in SpikeIds /\ Born(p)
  <2>1. d \in Tx /\ d # None /\ d.train \in TrainIds /\ Exists(d.train)
    BY DispatchFacts DEF DispatchCommit
  <2> QED BY <2>1 DEF IInv, DispatchesApart, Tx
<1> HIDE DEF d
<1>3. None \notin SpikeRow /\ SpikeIds \subseteq Nat
  BY NoneAssumption DEF SpikeIds
<1>4. \A s \in SpikeIds : Born(s)' <=> Born(s) \/ s \in ids
  BY <1>1, <1>3 DEF NewRow, OldRow, Born
<1>5. \A i \in ids, s \in SpikeIds : Born(s) => s < i
  BY <1>1, <1>3 DEF Fresh, OrderInv, LowestFirst
<1>6. LowestFirst'
  BY <1>1, <1>3, <1>4 DEF Fresh, OrderInv, LowestFirst
<1>7. OlderFirst'
  <2> SUFFICES ASSUME NEW s \in SpikeIds, From(s)' # None
               PROVE  Born(From(s))' /\ From(s)' \in 1 .. (s - 1)
    BY DEF OlderFirst
  <2>1. CASE s \in ids
    <3>1. spike'[s].provenance # None => From(s)' = spike'[s].provenance /\ From(s)' \in d.picks
      BY <1>1, <2>1 DEF From, NewRow
    <3>2. spike'[s].provenance = None =>
            From(s)' = d.train /\ d.train # 0 /\ d.train \in SpikeIds
      BY <1>1, <1>2, <2>1, Constants DEF From, NewRow
    <3>3. From(s)' \in SpikeIds /\ Born(From(s)')
      BY <1>2, <3>1, <3>2 DEF IInv, ReferencesHold
    <3> QED BY <1>3, <1>4, <1>5, <2>1, <3>3 DEF SpikeIds, Born
  <2>2. CASE s \notin ids
    <3>1. From(s)' = From(s)
      BY <1>1, <2>2 DEF OldRow, From, Born
    <3>2. Born(From(s)) /\ From(s) \in 1 .. (s - 1)
      BY <3>1 DEF OrderInv, OlderFirst
    <3>3. From(s) \in SpikeIds
      BY <3>2, ConstantsAssumption DEF SpikeIds
    <3> QED BY <1>4, <3>1, <3>2, <3>3 DEF Born
  <2> QED BY <2>1, <2>2
<1>8. ContainersDelegate'
  <2> SUFFICES ASSUME NEW t \in SpikeIds, Exists(t)' PROVE Invokes[spike'[t].neuron] # None
    BY DEF ContainersDelegate
  <2> QED BY <1>1 DEF OldRow, NewRow, OrderInv, ContainersDelegate
<1> QED BY <1>6, <1>7, <1>8 DEF OrderInv

LEMMA OrderKept ==
  ASSUME OrderInv, spike' = spike, \A t \in SpikeIds : Exists(t)' => Exists(t)
  PROVE  OrderInv'
<1>1. LowestFirst' /\ OlderFirst'
  BY DEF OrderInv, LowestFirst, OlderFirst, From, Born
<1>2. ContainersDelegate'
  BY DEF OrderInv, ContainersDelegate
<1> QED BY <1>1, <1>2 DEF OrderInv

(* Every step but the commit of a dispatch leaves the rows as they are.    *)
LEMMA RowsStay ==
  ASSUME IInv, [Next]_vars, \A w \in Workers : ~DispatchCommit(w)
  PROVE  spike' = spike /\ \A t \in SpikeIds : Exists(t)' => Exists(t)
<1>1. ASSUME NEW t \in TrainIds, StartTrain(t) \/ Terminate(t) \/ StopGracefully(t)
      PROVE  spike' = spike /\ \A u \in SpikeIds : Exists(u)' => Exists(u)
  <2>1. CASE StartTrain(t)
    BY <2>1, ConstantsAssumption, Constants DEF StartTrain, Exists, Status, IInv, TypeOK
  <2>2. CASE Terminate(t) \/ StopGracefully(t)
    BY <2>2, Constants DEF Terminate, StopGracefully, Exists, IInv, TypeOK
  <2> QED BY <1>1, <2>1, <2>2
<1>2. ASSUME \/ \E w \in Workers, t \in TrainIds : DispatchBegin(w, t)
             \/ \E s \in SpikeIds : \/ FireStart(s) \/ FinishWrite(s) \/ FinishTask(s)
                                    \/ StaleWrite(s) \/ Rerun(s) \/ CrashTask(s) \/ LoseWorker(s)
             \/ \E w \in Workers : CrashDispatch(w)
             \/ \E t \in TrainIds : CrashStart(t)
             \/ PollSome \/ UNCHANGED vars
      PROVE  spike' = spike /\ train' = train
  BY <1>2 DEF DispatchBegin, FireStart, FinishWrite, FinishTask, StaleWrite, Rerun, CrashTask,
              LoseWorker, CrashDispatch, CrashStart, PollSome, Poll, vars
<1>3. spike' = spike /\ train' = train => \A t \in SpikeIds : Exists(t)' => Exists(t)
  BY DEF Exists
<1> QED BY <1>1, <1>2, <1>3 DEF Next, Engine, Intervention, Idle

LEMMA NextOrder == IInv /\ OrderInv /\ [Next]_vars => OrderInv'
<1> SUFFICES ASSUME IInv, OrderInv, [Next]_vars PROVE OrderInv'
  OBVIOUS
<1>1. CASE \E w \in Workers : DispatchCommit(w)
  BY <1>1, DispatchCommitOrder
<1>2. CASE \A w \in Workers : ~DispatchCommit(w)
  BY <1>2, RowsStay, OrderKept
<1> QED BY <1>1, <1>2
-----------------------------------------------------------------------------
(* The logic nodes take the steps of the job manager, and an agent steps   *)
(* beside it.                                                              *)

LEMMA LogicSteps ==
  ASSUME [LogicNext]_logicVars
  PROVE  \/ [Next]_vars
         \/ /\ ops < MaxOps /\ ops' = ops + 1
            /\ UNCHANGED <<train, spike, spikeStatus, task, checks, starting, tx>>
<1>1. ASSUME NEW s \in SpikeIds, Look(s) \/ Decide(s) PROVE UNCHANGED vars
  BY <1>1 DEF Look, Decide
<1>2. ASSUME NEW w \in Workers, Dispatch(w) PROVE Next
  BY <1>2 DEF Dispatch, Next, Engine
<1>3. ASSUME NEW s \in SpikeIds, Fire(s) \/ FinishLogic(s) \/ FinishOther(s) PROVE Next
  BY <1>3 DEF Fire, FinishLogic, FinishOther, Next, Engine
<1>4. ASSUME UpdateWrite \/ UNCHANGED logicVars PROVE UNCHANGED vars
  BY <1>4 DEF UpdateWrite, logicVars
<1>5. ASSUME Elsewhere PROVE Next
  BY <1>5 DEF Elsewhere, Next, Engine
<1>6. ASSUME NEW s \in SpikeIds, UpdateRead(s)
      PROVE  /\ ops < MaxOps /\ ops' = ops + 1
             /\ UNCHANGED <<train, spike, spikeStatus, task, checks, starting, tx>>
  BY <1>6 DEF UpdateRead
<1> QED BY <1>1, <1>2, <1>3, <1>4, <1>5, <1>6 DEF LogicNext

(* What is proved of the job manager holds with its logic nodes.           *)
ManagerInv == IInv /\ LocksInv /\ OrderInv /\ CalmInv

LEMMA InitManager == Init => ManagerInv
BY InitIInv, InitLocksInv, InitOrder, InitCalm DEF ManagerInv

LEMMA NextManager ==
  ASSUME "poll" \notin Ops
  PROVE  ManagerInv /\ [LogicNext]_logicVars => ManagerInv'
<1> SUFFICES ASSUME ManagerInv, [LogicNext]_logicVars PROVE ManagerInv'
  OBVIOUS
<1>1. CASE [Next]_vars
  BY <1>1, NextIInv, NextLocksInv, NextOrder, NextCalm DEF ManagerInv
<1>2. CASE /\ ops < MaxOps /\ ops' = ops + 1
           /\ UNCHANGED <<train, spike, spikeStatus, task, checks, starting, tx>>
  <2>1. ops' \in 0 .. MaxOps /\ ops' # 0
    BY <1>2, ConstantsAssumption DEF ManagerInv, IInv, TypeOK
  <2>2. TypeOK' /\ ReferencesHold'
    BY <1>2, <2>1 DEF ManagerInv, IInv, TypeOK, ReferencesHold, Born, Exists
  <2>3. DispatchesApart' /\ FollowedOnce'
    BY <1>2, RowsKept DEF ManagerInv, IInv
  <2>4. LocksInv' /\ OrderInv'
    BY <1>2, LocksKept, OrderKept DEF ManagerInv, Exists
  <2>5. CalmInv'
    BY <2>1 DEF CalmInv
  <2> QED BY <2>2, <2>3, <2>4, <2>5 DEF ManagerInv, IInv
<1> QED BY <1>1, <1>2, LogicSteps

(* What the job manager does elsewhere: no task begins or is forgotten,    *)
(* and of a spike without a child train no status becomes SUCCESS or       *)
(* FAILED.                                                                 *)
LEMMA ElsewhereRows ==
  ASSUME "poll" \notin Ops, IInv, Elsewhere
  PROVE  /\ spike' = spike
         /\ \A s \in SpikeIds :
              /\ task'[s] = "idle" => task[s] = "idle"
              /\ task'[s] = "running" => task[s] = "running"
              /\ ~Exists(s) /\ spikeStatus'[s] \in {"SUCCESS", "FAILED"}
                   => spikeStatus'[s] = spikeStatus[s]
<1>1. ASSUME NEW t \in TrainIds,
             StartTrain(t) \/ CrashStart(t) \/ (\E w \in Workers : DispatchBegin(w, t))
      PROVE  UNCHANGED <<spike, spikeStatus, task>>
  BY <1>1 DEF StartTrain, CrashStart, DispatchBegin
<1>2. ASSUME NEW t \in TrainIds, Terminate(t) \/ StopGracefully(t)
      PROVE  /\ UNCHANGED <<spike, task>>
             /\ \A s \in SpikeIds :
                  ~Exists(s) /\ spikeStatus'[s] \in {"SUCCESS", "FAILED"}
                    => spikeStatus'[s] = spikeStatus[s]
  <2>1. UNCHANGED <<spike, task>> /\ Exists(t)
    BY <1>2 DEF Terminate, StopGracefully
  <2>2. ASSUME NEW s \in SpikeIds, ~Exists(s)
        PROVE  spikeStatus'[s] \in {"ABORTED", "STOPPING", spikeStatus[s]}
    BY <1>2, <2>1, <2>2 DEF Terminate, StopGracefully
  <2> QED BY <2>1, <2>2
<1>3. ~PollSome
  BY DEF PollSome, Poll
<1>4. ASSUME NEW s \in SpikeIds,
             FinishTask(s) \/ StaleWrite(s) \/ Rerun(s) \/ CrashTask(s) \/ LoseWorker(s)
      PROVE  /\ spike' = spike
             /\ \A r \in SpikeIds : r # s =>
                  task'[r] = task[r] /\ spikeStatus'[r] = spikeStatus[r]
             /\ task'[s] # "idle" /\ (task'[s] = "running" => task[s] = "running")
             /\ spikeStatus'[s] \in {"SUCCESS", "FAILED"} => spikeStatus'[s] = spikeStatus[s]
  <2>1. task \in [SpikeIds -> Task] /\ spikeStatus \in [SpikeIds -> Status \cup {None}]
    BY DEF IInv, TypeOK
  <2>2. CASE FinishTask(s) \/ CrashTask(s) \/ LoseWorker(s)
    BY <2>1, <2>2 DEF FinishTask, CrashTask, LoseWorker
  <2>3. CASE StaleWrite(s)
    BY <2>1, <2>3 DEF StaleWrite
  <2>4. CASE Rerun(s)
    BY <2>1, <2>4 DEF Rerun
  <2> QED BY <1>4, <2>2, <2>3, <2>4
<1>5. ASSUME \/ \E w \in Workers : CrashDispatch(w)
             \/ Idle
      PROVE  UNCHANGED <<spike, spikeStatus, task>>
  BY <1>5 DEF CrashDispatch, Idle, vars
<1> QED BY <1>1, <1>2, <1>3, <1>4, <1>5 DEF Elsewhere, Intervention
-----------------------------------------------------------------------------
(* What the tables of the logic nodes hold. *)

LogicTypeOK ==
  /\ axoplasm \in [SpikeIds -> Axoplasm]
  /\ object \in [SpikeIds -> Axoplasm \cup {None}]
  /\ verdict \in [SpikeIds -> {200, 500, None}]
  /\ recounted \subseteq SpikeIds
  /\ update # None => /\ update \in [spike : SpikeIds, copy : Axoplasm]
                      /\ Born(update.spike)

(* A spike without a task has seen no execution, and an effector that is   *)
(* no logic node runs with an object.                                      *)
Executions ==
  \A s \in SpikeIds :
    /\ task[s] = "idle" => object[s] = None /\ verdict[s] = None
    /\ task[s] = "running" /\ ~IsLogic(spike[s].neuron) => object[s] # None

LogicTables == LogicTypeOK /\ Executions

LEMMA LogicConstants ==
  /\ None \notin Int /\ None \notin Axoplasm /\ None \notin {200, 500}
  /\ Fluid \in Axoplasm /\ Fluid.loop_count \in Nat
  /\ \A a \in Axoplasm : /\ a.loop_count \in Nat
                         /\ [a EXCEPT !.loop_count = @ + 1] \in Axoplasm
                         /\ \A v \in Int : [a EXCEPT !.key = v] \in Axoplasm
  /\ \A n \in Neurons : Logic[n].max \in Int
BY LogicAssumption DEF Axoplasm

LEMMA InitTables == LogicInit => LogicTables
BY LogicConstants, Constants
   DEF LogicInit, Init, LogicTables, LogicTypeOK, Executions

(* The axoplasm a new spike starts with.                                   *)
LEMMA StartingType ==
  ASSUME LogicTypeOK, NEW r \in SpikeRow, r.train # 0 => spike[r.train] \in SpikeRow
  PROVE  Starting(r) \in Axoplasm
<1>1. /\ r.provenance \in SpikeIds \cup {None} /\ r.train \in TrainIds
      /\ r.train # 0 => r.train \in SpikeIds /\ spike[r.train].neuron \in Neurons
  BY Constants DEF SpikeRow
<1>2. r.train # 0 => Given[spike[r.train].neuron] \in Int \cup {None}
  BY <1>1, LogicAssumption
<1>3. ASSUME r.provenance = None, r.train # 0
      PROVE  Starting(r) \in Axoplasm
  <2>1. axoplasm[r.train] \in Axoplasm
    BY <1>1, <1>3 DEF LogicTypeOK
  <2>2. \A v \in Int : [axoplasm[r.train] EXCEPT !.key = v] \in Axoplasm
    BY <2>1, LogicConstants
  <2> QED BY <1>2, <1>3, <2>1, <2>2 DEF Starting
<1> QED BY <1>1, <1>3, LogicConstants DEF Starting, LogicTypeOK

LEMMA DispatchAxoplasm ==
  ASSUME IInv, LogicTables, NEW w \in Workers, Dispatch(w)
  PROVE  LogicTables'
<1> USE DEF LogicTables
<1>1. PICK ids \in SUBSET SpikeIds :
        /\ \A i \in ids : NewRow(tx[w], i)
        /\ \A s \in SpikeIds \ ids : OldRow(s)
  BY CommitRows DEF Dispatch
<1>2. tx[w].train \in TrainIds /\ Exists(tx[w].train)
  BY DispatchFacts DEF Dispatch, DispatchCommit
<1>3. ASSUME NEW i \in SpikeIds, ~Born(i), spike'[i] # None
      PROVE  Starting(spike'[i]) \in Axoplasm
  <2>1. NewRow(tx[w], i)
    BY <1>1, <1>3 DEF OldRow, Born
  <2>2. spike'[i] \in SpikeRow /\ spike'[i].train = tx[w].train
    BY <2>1 DEF NewRow
  <2>3. tx[w].train # 0 => spike[tx[w].train] \in SpikeRow
    BY <1>2, Constants DEF IInv, TypeOK, ReferencesHold, Born
  <2> QED BY <2>2, <2>3, StartingType
<1>4. axoplasm' \in [SpikeIds -> Axoplasm]
  BY <1>3 DEF Dispatch, LogicTypeOK, Born
<1>5. \A s \in SpikeIds : Born(s) => Born(s)' /\ spike'[s] = spike[s] /\ task'[s] = task[s]
  BY <1>1 DEF NewRow, OldRow, Born
<1>6. \A s \in SpikeIds : /\ task'[s] = "idle" => task[s] = "idle"
                          /\ task'[s] = "running" => task[s] = "running" /\ Born(s)
  BY <1>1 DEF NewRow, OldRow, IInv, ReferencesHold
<1>7. LogicTypeOK'
  <2>1. update' = update /\ recounted' = recounted /\ object' = object /\ verdict' = verdict
    BY DEF Dispatch, agent
  <2>2. update # None => update.spike \in SpikeIds /\ Born(update.spike)
    BY DEF LogicTypeOK
  <2> QED BY <1>4, <1>5, <2>1, <2>2 DEF LogicTypeOK, Born
<1>8. Executions'
  BY <1>5, <1>6 DEF Executions, Dispatch
<1> QED BY <1>7, <1>8

LEMMA NextTables ==
  ASSUME "poll" \notin Ops
  PROVE  IInv /\ LogicTables /\ [LogicNext]_logicVars => LogicTables'
<1> SUFFICES ASSUME IInv, LogicTables, [LogicNext]_logicVars PROVE LogicTables'
  OBVIOUS
<1> USE DEF LogicTables
<1>0. \A s \in SpikeIds : Born(s) => spike[s].neuron \in Neurons
  BY DEF IInv, TypeOK, SpikeRow, Born
<1>1. ASSUME NEW s \in SpikeIds, Look(s) PROVE LogicTables'
  <2>1. /\ UNCHANGED <<spike, task, axoplasm, verdict, update, recounted>>
        /\ object' = [object EXCEPT ![s] = axoplasm[s]] /\ task[s] = "running"
    BY <1>1 DEF Look, vars, agent
  <2>2. axoplasm[s] \in Axoplasm /\ axoplasm[s] # None
    BY LogicConstants DEF LogicTypeOK
  <2> QED BY <2>1, <2>2 DEF LogicTypeOK, Executions, Born
<1>2. ASSUME NEW s \in SpikeIds, Decide(s) PROVE LogicTables'
  <2>1. /\ UNCHANGED <<spike, task, object, update, recounted>> /\ object[s] # None
        /\ task[s] = "running"
        /\ \E v \in {200, 500} : verdict' = [verdict EXCEPT ![s] = v]
        /\ axoplasm' \in {axoplasm, [axoplasm EXCEPT ![s] = [object[s] EXCEPT !.loop_count = @ + 1]]}
    BY <1>2 DEF Decide, vars, agent
  <2>2. object[s] \in Axoplasm
    BY <2>1 DEF LogicTypeOK
  <2>3. [object[s] EXCEPT !.loop_count = @ + 1] \in Axoplasm
    BY <2>2, LogicConstants
  <2>4. verdict' \in [SpikeIds -> {200, 500, None}] /\ axoplasm' \in [SpikeIds -> Axoplasm]
    BY <2>1, <2>3 DEF LogicTypeOK
  <2> QED BY <2>1, <2>4 DEF LogicTypeOK, Executions, Born
<1>3. ASSUME NEW w \in Workers, Dispatch(w) PROVE LogicTables'
  BY <1>3, DispatchAxoplasm
<1>4. ASSUME NEW s \in SpikeIds, Fire(s) PROVE LogicTables'
  <2>1. /\ UNCHANGED <<spike, axoplasm, update, recounted>>
        /\ task' = [task EXCEPT ![s] = "running"]
        /\ verdict' = [verdict EXCEPT ![s] = None]
        /\ object' = [object EXCEPT ![s] = IF IsLogic(spike[s].neuron) THEN None
                                           ELSE axoplasm[s]]
    BY <1>4 DEF Fire, FireStart, agent
  <2>2. axoplasm[s] \in Axoplasm /\ axoplasm[s] # None
    BY LogicConstants DEF LogicTypeOK
  <2> QED BY <2>1, <2>2 DEF LogicTypeOK, Executions, Born, IInv, TypeOK
<1>5. ASSUME NEW s \in SpikeIds, FinishLogic(s) PROVE LogicTables'
  BY <1>5 DEF FinishLogic, FinishWrite, agent, LogicTypeOK, Executions, Born, IInv, TypeOK
<1>6. ASSUME NEW s \in SpikeIds, FinishOther(s) PROVE LogicTables'
  <2>1. /\ UNCHANGED <<spike, object, verdict, update, recounted>>
        /\ task' = [task EXCEPT ![s] = "written"] /\ task[s] = "running"
        /\ ~IsLogic(spike[s].neuron)
        /\ \/ axoplasm' = axoplasm
           \/ /\ Prints[spike[s].neuron] # None
              /\ axoplasm' = [axoplasm EXCEPT ![s] =
                                [object[s] EXCEPT !.key = Prints[spike[s].neuron]]]
    BY <1>6 DEF FinishOther, FinishWrite, agent
  <2>2. object[s] \in Axoplasm /\ Born(s)
    BY <2>1 DEF LogicTypeOK, Executions, IInv, ReferencesHold
  <2>3. axoplasm' \in [SpikeIds -> Axoplasm]
    <3>1. Prints[spike[s].neuron] \in Int \cup {None}
      BY <1>0, <2>2, LogicAssumption
    <3>2. Prints[spike[s].neuron] # None =>
            [object[s] EXCEPT !.key = Prints[spike[s].neuron]] \in Axoplasm
      BY <2>2, <3>1, LogicConstants
    <3> QED BY <2>1, <3>2 DEF LogicTypeOK
  <2> QED BY <2>1, <2>3 DEF LogicTypeOK, Executions, Born, IInv, TypeOK
<1>7. ASSUME NEW s \in SpikeIds, UpdateRead(s) PROVE LogicTables'
  BY <1>7 DEF UpdateRead, LogicTypeOK, Executions, Born
<1>8. CASE UpdateWrite
  <2>1. /\ UNCHANGED <<spike, task, object, verdict>> /\ update' = None /\ update # None
        /\ recounted' \in {recounted, recounted \cup {update.spike}}
    BY <1>8 DEF UpdateWrite, vars
  <2>2. PICK v \in Values :
          axoplasm' = [axoplasm EXCEPT ![update.spike] = [update.copy EXCEPT !.key = v]]
    BY <1>8 DEF UpdateWrite
  <2>3. update.spike \in SpikeIds /\ update.copy \in Axoplasm /\ v \in Int
    BY <2>1, LogicAssumption DEF LogicTypeOK
  <2>4. axoplasm' \in [SpikeIds -> Axoplasm]
    BY <2>2, <2>3, LogicConstants DEF LogicTypeOK
  <2> QED BY <2>1, <2>3, <2>4 DEF LogicTypeOK, Executions, Born
<1>9. CASE Elsewhere
  BY <1>9, ElsewhereRows DEF Elsewhere, agent, LogicTypeOK, Executions, Born
<1>10. CASE UNCHANGED logicVars
  BY <1>10 DEF logicVars, vars, agent, LogicTypeOK, Executions, Born
<1> QED BY <1>1, <1>2, <1>3, <1>4, <1>5, <1>6, <1>7, <1>8, <1>9, <1>10 DEF LogicNext
-----------------------------------------------------------------------------
(* What a retry node has said, and what its spike shows. *)

(* A retry node runs in a task of its own: it is no container, and no      *)
(* effector that is over at birth because nobody is online.                *)
RetriesRunThemselves ==
  \A n \in Neurons : Retries(n) => Invokes[n] = None /\ Mode[n] \in {"local", "pinned"}

IsRetry(s) == Born(s) /\ Retries(spike[s].neuron)
Most(s)    == Logic[spike[s].neuron].max

(* The status is the verdict, the verdict is about the object, and the row *)
(* has the count of the object, plus one if the train goes round again.    *)
VerdictOf(s) ==
  /\ spikeStatus[s] = "SUCCESS" => verdict[s] = 200
  /\ spikeStatus[s] = "FAILED" => verdict[s] = 500
  /\ verdict[s] = 200 => object[s] # None /\ object[s].loop_count < Most(s)
  /\ verdict[s] = 500 => object[s] # None /\ object[s].loop_count >= Most(s)
  /\ s \notin recounted /\ object[s] # None =>
       axoplasm[s].loop_count = object[s].loop_count + (IF verdict[s] = 200 THEN 1 ELSE 0)

VerdictInv == \A s \in SpikeIds : IsRetry(s) => VerdictOf(s)

LEMMA InitVerdict == LogicInit => VerdictInv
BY Constants DEF LogicInit, Init, VerdictInv, IsRetry, Born

LEMMA RetryAlone ==
  ASSUME RetriesRunThemselves, IInv, OrderInv, NEW s \in SpikeIds, IsRetry(s)
  PROVE  /\ spike[s] \in SpikeRow /\ spike[s].neuron \in Neurons
         /\ ~Exists(s) /\ IsLogic(spike[s].neuron) /\ Most(s) \in Int
<1>1. spike[s] \in SpikeRow /\ spike[s].neuron \in Neurons
  BY DEF IInv, TypeOK, IsRetry, Born, SpikeRow
<1> QED BY <1>1, LogicConstants
        DEF RetriesRunThemselves, OrderInv, ContainersDelegate, IsRetry, IsLogic, Retries, Most

LEMMA VerdictKept ==
  ASSUME VerdictInv, UNCHANGED <<spike, object, verdict>>,
         recounted \subseteq recounted',
         \A s \in SpikeIds : IsRetry(s) =>
           /\ spikeStatus'[s] \in {"SUCCESS", "FAILED"} => spikeStatus'[s] = spikeStatus[s]
           /\ s \notin recounted' => axoplasm'[s].loop_count = axoplasm[s].loop_count
  PROVE  VerdictInv'
<1> SUFFICES ASSUME NEW s \in SpikeIds, IsRetry(s)' PROVE VerdictOf(s)'
  BY DEF VerdictInv
<1>1. IsRetry(s) /\ VerdictOf(s)
  BY DEF VerdictInv, IsRetry, Born
<1> QED BY <1>1 DEF VerdictOf, Most

LEMMA DispatchVerdict ==
  ASSUME RetriesRunThemselves, ManagerInv, LogicTables, VerdictInv,
         NEW w \in Workers, Dispatch(w)
  PROVE  VerdictInv'
<1> SUFFICES ASSUME NEW s \in SpikeIds, IsRetry(s)' PROVE VerdictOf(s)'
  BY DEF VerdictInv
<1>1. PICK ids \in SUBSET SpikeIds :
        /\ \A i \in ids : NewRow(tx[w], i)
        /\ \A r \in SpikeIds \ ids : OldRow(r)
  BY CommitRows DEF Dispatch, ManagerInv
<1>2. UNCHANGED <<object, verdict, update, recounted>>
  BY DEF Dispatch, agent
<1>3. CASE s \in ids
  <2>1. verdict[s] = None /\ object[s] = None /\ None \notin {200, 500}
    BY <1>1, <1>3, LogicConstants DEF NewRow, LogicTables, Executions
  <2>2. spikeStatus'[s] \notin {"SUCCESS", "FAILED"}
    BY <1>1, <1>3 DEF NewRow, RetriesRunThemselves, IsRetry, SpikeRow
  <2> QED BY <1>2, <2>1, <2>2 DEF VerdictOf
<1>4. CASE s \notin ids
  <2>1. OldRow(s) /\ IsRetry(s)
    BY <1>1, <1>4 DEF OldRow, IsRetry, Born
  <2>2. ~Exists(s) /\ VerdictOf(s)
    BY <2>1, RetryAlone DEF ManagerInv, VerdictInv
  <2>3. axoplasm'[s] = axoplasm[s] /\ spikeStatus'[s] = spikeStatus[s] /\ spike'[s] = spike[s]
    BY <2>1, <2>2 DEF OldRow, Dispatch, IsRetry
  <2> QED BY <1>2, <2>2, <2>3 DEF VerdictOf, Most
<1> QED BY <1>3, <1>4

LEMMA NextVerdict ==
  ASSUME "poll" \notin Ops, RetriesRunThemselves
  PROVE  ManagerInv /\ LogicTables /\ VerdictInv /\ [LogicNext]_logicVars => VerdictInv'
<1> SUFFICES ASSUME ManagerInv, LogicTables, VerdictInv, [LogicNext]_logicVars
             PROVE  VerdictInv'
  OBVIOUS
<1> USE DEF LogicTables
<1>0. /\ IInv /\ OrderInv /\ spikeStatus \in [SpikeIds -> Status \cup {None}]
      /\ axoplasm \in [SpikeIds -> Axoplasm] /\ object \in [SpikeIds -> Axoplasm \cup {None}]
      /\ verdict \in [SpikeIds -> {200, 500, None}] /\ None \notin {200, 500}
  BY LogicConstants DEF ManagerInv, IInv, TypeOK, LogicTypeOK
<1>1. ASSUME NEW s \in SpikeIds, Look(s) PROVE VerdictInv'
  <2>1. /\ UNCHANGED <<spike, spikeStatus, axoplasm, verdict, recounted>>
        /\ object' = [object EXCEPT ![s] = axoplasm[s]] /\ object[s] = None
    BY <1>1 DEF Look, vars, agent
  <2>2. ASSUME IsRetry(s) PROVE VerdictOf(s)'
    <3>1. VerdictOf(s)
      BY <2>2 DEF VerdictInv
    <3>2. verdict[s] \notin {200, 500}
      BY <2>1, <3>1 DEF VerdictOf
    <3>4. object'[s] = axoplasm[s]
      BY <1>0, <2>1
    <3>3. axoplasm[s].loop_count \in Nat
      BY <1>0 DEF Axoplasm
    <3> QED BY <2>1, <3>1, <3>2, <3>3, <3>4 DEF VerdictOf
  <2>3. ASSUME NEW r \in SpikeIds, r # s, IsRetry(r) PROVE VerdictOf(r)'
    <3>1. VerdictOf(r) /\ object'[r] = object[r]
      BY <1>0, <2>1, <2>3 DEF VerdictInv
    <3> QED BY <2>1, <3>1 DEF VerdictOf, Most
  <2> QED BY <2>1, <2>2, <2>3 DEF VerdictInv, IsRetry, Born
<1>2. ASSUME NEW s \in SpikeIds, Decide(s) PROVE VerdictInv'
  <2> DEFINE passes == Passes(spike[s].neuron, object[s])
  <2>1. /\ UNCHANGED <<spike, spikeStatus, object, recounted>> /\ object[s] # None
        /\ verdict[s] = None
        /\ verdict' = [verdict EXCEPT ![s] = IF passes THEN 200 ELSE 500]
        /\ axoplasm' = IF passes /\ Retries(spike[s].neuron)
                       THEN [axoplasm EXCEPT ![s] = [object[s] EXCEPT !.loop_count = @ + 1]]
                       ELSE axoplasm
    BY <1>2 DEF Decide, vars, agent
  <2>2. ASSUME IsRetry(s) PROVE VerdictOf(s)'
    <3>0. Most(s) \in Int /\ VerdictOf(s)
      BY <1>0, <2>2, RetryAlone DEF VerdictInv
    <3>1. VerdictOf(s) /\ Most(s) \in Int /\ Retries(spike[s].neuron)
      BY <2>2, <3>0 DEF IsRetry
    <3>2. object[s] \in Axoplasm /\ object[s].loop_count \in Nat
      BY <1>0, <2>1 DEF Axoplasm
    <3>3. passes <=> object[s].loop_count < Most(s)
      BY <3>1 DEF Passes, Retries, Most
    <3>4. spikeStatus[s] \notin {"SUCCESS", "FAILED"}
      BY <1>0, <2>1, <3>1 DEF VerdictOf
    <3>5. CASE passes
      <4>1. verdict'[s] = 200 /\ axoplasm'[s].loop_count = object[s].loop_count + 1
        BY <1>0, <2>1, <3>1, <3>2, <3>5 DEF Axoplasm
      <4> QED BY <2>1, <3>1, <3>2, <3>3, <3>4, <3>5, <4>1 DEF VerdictOf, Most
    <3>6. CASE ~passes
      <4>1. verdict'[s] = 500 /\ axoplasm' = axoplasm
        BY <1>0, <2>1, <3>6
      <4>2. Most(s)' = Most(s)
        BY <2>1 DEF Most
      <4> QED BY <2>1, <3>1, <3>2, <3>3, <3>4, <3>6, <4>1, <4>2, <1>0 DEF VerdictOf
    <3> QED BY <3>5, <3>6
  <2>3. ASSUME NEW r \in SpikeIds, r # s, IsRetry(r) PROVE VerdictOf(r)'
    <3>1. VerdictOf(r)
      BY <2>3 DEF VerdictInv
    <3>2. verdict'[r] = verdict[r]
      BY <1>0, <2>1, <2>3
    <3>3. axoplasm'[r] = axoplasm[r]
      BY <1>0, <2>1, <2>3
    <3>4. UNCHANGED <<spike, spikeStatus, object, recounted>>
      BY <2>1
    <3> QED BY <3>1, <3>2, <3>3, <3>4 DEF VerdictOf, Most
  <2> QED BY <2>1, <2>2, <2>3 DEF VerdictInv, IsRetry, Born
<1>3. ASSUME NEW w \in Workers, Dispatch(w) PROVE VerdictInv'
  BY <1>3, DispatchVerdict
<1>4. ASSUME NEW s \in SpikeIds, Fire(s) PROVE VerdictInv'
  <2>1. /\ UNCHANGED <<spike, axoplasm, recounted>>
        /\ spikeStatus' = [spikeStatus EXCEPT ![s] = "RUNNING"]
        /\ verdict' = [verdict EXCEPT ![s] = None]
        /\ object' = [object EXCEPT ![s] = IF IsLogic(spike[s].neuron) THEN None
                                           ELSE axoplasm[s]]
    BY <1>4 DEF Fire, FireStart, agent
  <2>2. ASSUME IsRetry(s) PROVE VerdictOf(s)'
    <3>1. spikeStatus'[s] = "RUNNING" /\ verdict'[s] = None /\ object'[s] = None
      BY <1>0, <2>1, <2>2, RetryAlone
    <3> QED BY <1>0, <3>1 DEF VerdictOf
  <2>3. ASSUME NEW r \in SpikeIds, r # s, IsRetry(r) PROVE VerdictOf(r)'
    <3>1. /\ VerdictOf(r) /\ verdict'[r] = verdict[r] /\ object'[r] = object[r]
          /\ spikeStatus'[r] = spikeStatus[r]
      BY <1>0, <2>1, <2>3 DEF VerdictInv
    <3> QED BY <2>1, <3>1 DEF VerdictOf, Most
  <2> QED BY <2>1, <2>2, <2>3 DEF VerdictInv, IsRetry, Born
<1>5. ASSUME NEW s \in SpikeIds, FinishLogic(s) PROVE VerdictInv'
  <2>1. /\ UNCHANGED <<spike, axoplasm, object, verdict, recounted>>
        /\ verdict[s] # None
        /\ spikeStatus'[s] = "SUCCESS" => verdict[s] = 200
        /\ spikeStatus'[s] = "FAILED" => verdict[s] # 200
        /\ \A r \in SpikeIds : r # s => spikeStatus'[r] = spikeStatus[r]
    BY <1>0, <1>5 DEF FinishLogic, FinishWrite, agent
  <2>2. verdict[s] \in {200, 500}
    BY <1>0, <2>1
  <2> QED BY <2>1, <2>2 DEF VerdictInv, VerdictOf, IsRetry, Born, Most
<1>6. ASSUME NEW s \in SpikeIds, FinishOther(s) PROVE VerdictInv'
  <2>1. /\ UNCHANGED <<spike, object, verdict, recounted>>
        /\ ~IsLogic(spike[s].neuron)
        /\ \A r \in SpikeIds : r # s =>
             spikeStatus'[r] = spikeStatus[r] /\ axoplasm'[r] = axoplasm[r]
    BY <1>0, <1>6 DEF FinishOther, FinishWrite, agent
  <2>2. \A r \in SpikeIds : IsRetry(r) => r # s
    BY <1>0, <2>1, RetryAlone
  <2> QED BY <2>1, <2>2, VerdictKept
<1>7. ASSUME NEW s \in SpikeIds, UpdateRead(s) PROVE VerdictInv'
  BY <1>7, VerdictKept DEF UpdateRead
<1>8. CASE UpdateWrite
  <2>1. /\ UNCHANGED <<spike, spikeStatus, object, verdict>> /\ update # None
        /\ recounted' = IF axoplasm[update.spike].loop_count = update.copy.loop_count
                        THEN recounted ELSE recounted \cup {update.spike}
    BY <1>8 DEF UpdateWrite, vars
  <2>2. PICK v \in Values :
          axoplasm' = [axoplasm EXCEPT ![update.spike] = [update.copy EXCEPT !.key = v]]
    BY <1>8 DEF UpdateWrite
  <2>3. update.spike \in SpikeIds /\ update.copy \in Axoplasm
    BY <2>1 DEF LogicTypeOK
  <2>4. axoplasm'[update.spike].loop_count = update.copy.loop_count
        /\ \A r \in SpikeIds : r # update.spike => axoplasm'[r] = axoplasm[r]
    BY <1>0, <2>2, <2>3 DEF Axoplasm
  <2>5. \A r \in SpikeIds : r \notin recounted' =>
          axoplasm'[r].loop_count = axoplasm[r].loop_count
    BY <2>1, <2>3, <2>4
  <2>6. recounted \subseteq recounted'
    BY <2>1
  <2> QED BY <2>1, <2>5, <2>6, VerdictKept
<1>9. CASE Elsewhere
  <2>1. /\ UNCHANGED <<spike, axoplasm, object, verdict, recounted>>
        /\ \A s \in SpikeIds : ~Exists(s) /\ spikeStatus'[s] \in {"SUCCESS", "FAILED"}
             => spikeStatus'[s] = spikeStatus[s]
    BY <1>0, <1>9, ElsewhereRows DEF Elsewhere, agent
  <2>2. \A s \in SpikeIds : IsRetry(s) => ~Exists(s)
    BY <1>0, RetryAlone
  <2> QED BY <2>1, <2>2, VerdictKept
<1>10. CASE UNCHANGED logicVars
  BY <1>10, VerdictKept DEF logicVars, vars, agent
<1> QED BY <1>1, <1>2, <1>3, <1>4, <1>5, <1>6, <1>7, <1>8, <1>9, <1>10 DEF LogicNext
-----------------------------------------------------------------------------
(* The counts on the way. *)

(* A retry node that has used up its rounds does not become one that has   *)
(* let the train go round, unless an agent writes an older count.          *)
Spent(a)    == axoplasm[a].loop_count >= Most(a) /\ verdict[a] # 200
MayCount(s) == {a \in Way[s] : IsRetry(a) /\ ~Spent(a)}
Floor(s)    == Fluid.loop_count + Cardinality(MayCount(s))
Clean(s)    == Way[s] \cap recounted = {}

(* No copy of the count of a spike is below the rounds on its way.         *)
Above(s, m) ==
  /\ axoplasm[s].loop_count >= m
  /\ object[s] # None => object[s].loop_count >= m
  /\ update # None /\ update.spike = s => update.copy.loop_count >= m

FloorInv == \A s \in SpikeIds : Born(s) /\ Clean(s) => Above(s, Floor(s))

CountsInv == ManagerInv /\ LogicTables /\ VerdictInv

(* A decision is about its own spike.                                      *)
LEMMA DecidesAlone ==
  ASSUME NEW s \in SpikeIds, Decide(s)
  PROVE  /\ task[s] = "running"
         /\ \E v : verdict' = [verdict EXCEPT ![s] = v]
         /\ \E x : axoplasm' \in {axoplasm, [axoplasm EXCEPT ![s] = x]}
<1> DEFINE passes == Passes(spike[s].neuron, object[s])
           code   == IF passes THEN 200 ELSE 500
           more   == [object[s] EXCEPT !.loop_count = @ + 1]
<1>1. task[s] = "running" /\ verdict' = [verdict EXCEPT ![s] = code]
  BY DEF Decide
<1>2. axoplasm' = IF passes /\ Retries(spike[s].neuron) THEN [axoplasm EXCEPT ![s] = more]
                                                        ELSE axoplasm
  BY DEF Decide
<1> HIDE DEF passes, code, more
<1>3. axoplasm' \in {axoplasm, [axoplasm EXCEPT ![s] = more]}
  BY <1>2
<1> QED BY <1>1, <1>3, Zenon

(* What a step does to the count and the verdict of a retry node: only the *)
(* node itself goes on counting.                                           *)
LEMMA RetrySteps ==
  ASSUME "poll" \notin Ops, RetriesRunThemselves, CountsInv, [LogicNext]_logicVars,
         NEW a \in SpikeIds, IsRetry(a), a \notin recounted', ~Decide(a)
  PROVE  /\ axoplasm'[a].loop_count = axoplasm[a].loop_count
         /\ verdict'[a] \in {verdict[a], None}
<1>0. /\ axoplasm \in [SpikeIds -> Axoplasm] /\ verdict \in [SpikeIds -> {200, 500, None}]
      /\ IsLogic(spike[a].neuron)
  BY RetryAlone DEF CountsInv, ManagerInv, LogicTables, LogicTypeOK
<1>1. ASSUME NEW s \in SpikeIds, Decide(s) PROVE UNCHANGED <<axoplasm[a], verdict[a]>>
  <2>1. s # a
    BY <1>1
  <2>2. /\ \E v : verdict' = [verdict EXCEPT ![s] = v]
        /\ \E x : axoplasm' \in {axoplasm, [axoplasm EXCEPT ![s] = x]}
    BY <1>1, DecidesAlone
  <2> QED BY <1>0, <2>1, <2>2
<1>2. ASSUME NEW s \in SpikeIds, Fire(s)
      PROVE  axoplasm'[a] = axoplasm[a] /\ verdict'[a] \in {verdict[a], None}
  BY <1>0, <1>2 DEF Fire, agent
<1>3. ASSUME NEW s \in SpikeIds, FinishOther(s) PROVE UNCHANGED <<axoplasm[a], verdict[a]>>
  BY <1>0, <1>3 DEF FinishOther, agent
<1>4. ASSUME UpdateWrite
      PROVE  axoplasm'[a].loop_count = axoplasm[a].loop_count /\ verdict'[a] = verdict[a]
  <2>1. /\ verdict' = verdict /\ update # None
        /\ recounted' = IF axoplasm[update.spike].loop_count = update.copy.loop_count
                        THEN recounted ELSE recounted \cup {update.spike}
    BY <1>4 DEF UpdateWrite
  <2>2. PICK v \in Values :
          axoplasm' = [axoplasm EXCEPT ![update.spike] = [update.copy EXCEPT !.key = v]]
    BY <1>4 DEF UpdateWrite
  <2>3. update.copy \in Axoplasm
    BY <2>1 DEF LogicTypeOK, LogicTables, CountsInv
  <2>4. CASE update.spike = a
    BY <1>0, <2>1, <2>2, <2>3, <2>4 DEF Axoplasm
  <2>5. CASE update.spike # a
    BY <1>0, <2>1, <2>2, <2>5
  <2> QED BY <2>4, <2>5
<1>5. ASSUME \/ \E s \in SpikeIds : Look(s) \/ FinishLogic(s) \/ UpdateRead(s)
             \/ Elsewhere \/ UNCHANGED logicVars
      PROVE  axoplasm' = axoplasm /\ verdict' = verdict
  BY <1>5 DEF Look, FinishLogic, UpdateRead, Elsewhere, logicVars, agent
<1>6. ASSUME NEW w \in Workers, Dispatch(w) PROVE UNCHANGED <<axoplasm[a], verdict[a]>>
  BY <1>0, <1>6 DEF Dispatch, IsRetry
<1> QED BY <1>1, <1>2, <1>3, <1>4, <1>5, <1>6 DEF LogicNext

LEMMA SpentStays ==
  ASSUME "poll" \notin Ops, RetriesRunThemselves, CountsInv, [LogicNext]_logicVars,
         NEW a \in SpikeIds, IsRetry(a), spike'[a] = spike[a],
         a \notin recounted, a \notin recounted', Spent(a)
  PROVE  Spent(a)'
<1>1. Most(a)' = Most(a) /\ None # 200
  BY LogicConstants DEF Most
<1>2. CASE Decide(a)
  <2>1. VerdictOf(a) /\ axoplasm[a] \in Axoplasm /\ object[a] \in Axoplasm \cup {None}
    BY DEF CountsInv, VerdictInv, LogicTables, LogicTypeOK
  <2>2. object[a] # None /\ verdict[a] = None
    BY <1>2 DEF Decide
  <2>3. axoplasm[a].loop_count = object[a].loop_count /\ axoplasm[a].loop_count \in Nat
    BY <1>1, <2>1, <2>2 DEF VerdictOf, Axoplasm
  <2>4. ~Passes(spike[a].neuron, object[a])
    <3>1. object[a].loop_count >= Most(a) /\ Most(a) \in Int /\ object[a].loop_count \in Nat
      BY <2>3, RetryAlone DEF Spent, CountsInv, ManagerInv
    <3>2. Retries(spike[a].neuron)
      BY DEF IsRetry
    <3> QED BY <3>1, <3>2 DEF Passes, Most
  <2>5. axoplasm' = axoplasm /\ verdict'[a] = 500
    BY <1>2, <2>4 DEF Decide, CountsInv, LogicTables, LogicTypeOK
  <2> QED BY <1>1, <2>5 DEF Spent
<1>3. CASE ~Decide(a)
  BY <1>1, <1>3, RetrySteps DEF Spent
<1> QED BY <1>2, <1>3

(* The rows that are there stay, and so does the history.                  *)
LEMMA HistoryGrows ==
  ASSUME IInv, [LogicNext]_logicVars
  PROVE  /\ recounted \subseteq recounted'
         /\ \A s \in SpikeIds : Born(s) => spike'[s] = spike[s]
<1>1. ASSUME NEW w \in Workers, DispatchCommit(w)
      PROVE  \A s \in SpikeIds : Born(s) => spike'[s] = spike[s]
  BY <1>1, CommitRows DEF NewRow, OldRow
<1>2. ASSUME \A w \in Workers : ~DispatchCommit(w) PROVE spike' = spike
  <2>1. CASE [Next]_vars
    BY <1>2, <2>1, RowsStay
  <2>2. CASE spike' = spike
    BY <2>2
  <2> QED BY <2>1, <2>2, LogicSteps
<1>3. recounted \subseteq recounted'
  BY DEF LogicNext, Look, Decide, Dispatch, Fire, FinishLogic, FinishOther, UpdateRead,
         UpdateWrite, Elsewhere, agent, logicVars
<1> QED BY <1>1, <1>2, <1>3
FloorTypes ==
  \A s \in SpikeIds : /\ Floor(s) \in Nat /\ IsFiniteSet(MayCount(s))
                      /\ Cardinality(MayCount(s)) \in Nat

LEMMA FloorType == OlderFirst => FloorTypes
<1> SUFFICES ASSUME OlderFirst, NEW s \in SpikeIds
             PROVE  /\ Floor(s) \in Nat /\ IsFiniteSet(MayCount(s))
                    /\ Cardinality(MayCount(s)) \in Nat
  BY DEF FloorTypes
<1>1. MayCount(s) \subseteq Way[s] /\ IsFiniteSet(Way[s])
  BY WayOlder DEF MayCount
<1>2. IsFiniteSet(MayCount(s)) /\ Cardinality(MayCount(s)) \in Nat
  BY <1>1, FS_Subset, FS_CardinalityType
<1> QED BY <1>2, LogicConstants DEF Floor

(* As long as no count on the way is written back, the floor only falls.   *)
LEMMA FloorFalls ==
  ASSUME "poll" \notin Ops, RetriesRunThemselves, CountsInv, OrderInv', [LogicNext]_logicVars,
         NEW s \in SpikeIds, Born(s), Clean(s)'
  PROVE  Clean(s) /\ Floor(s)' <= Floor(s) /\ Floor(s)' \in Nat /\ Floor(s) \in Nat
<1>1. /\ OlderFirst /\ OlderFirst' /\ IInv /\ recounted \subseteq recounted'
      /\ \A r \in SpikeIds : Born(r) => spike'[r] = spike[r]
  BY HistoryGrows DEF CountsInv, ManagerInv, OrderInv
<1>2. Way'[s] = Way[s]
  BY <1>1, WayKept
<1>3. Clean(s)
  BY <1>1, <1>2 DEF Clean
<1>4. ASSUME NEW a \in MayCount(s)' PROVE a \in MayCount(s)
  <2>1. a \in Way[s] /\ IsRetry(a)' /\ ~Spent(a)' /\ a \notin recounted'
    BY <1>2, <1>4 DEF MayCount, Clean
  <2>2. a \in SpikeIds /\ Born(a)
    BY <1>1, <2>1, WayOlder
  <2>3. spike'[a] = spike[a] /\ IsRetry(a) /\ a \notin recounted
    BY <1>1, <2>1, <2>2 DEF IsRetry, Born
  <2>4. ~Spent(a)
    BY <2>1, <2>2, <2>3, SpentStays
  <2> QED BY <2>1, <2>3, <2>4 DEF MayCount
<1>5. IsFiniteSet(MayCount(s)) /\ Cardinality(MayCount(s)) \in Nat /\ Floor(s) \in Nat
  BY <1>1, FloorType DEF FloorTypes
<1>6. Cardinality(MayCount(s)') \in Nat /\ Cardinality(MayCount(s)') <= Cardinality(MayCount(s))
  BY <1>4, <1>5, FS_Subset, FS_CardinalityType
<1>7. Floor(s)' = Fluid.loop_count + Cardinality(MayCount(s)')
  BY DEF Floor
<1> QED BY <1>3, <1>5, <1>6, <1>7, LogicConstants DEF Floor

(* No step puts a smaller count in the place of a copy.                    *)
LEMMA CopiesStayAbove ==
  ASSUME IInv, LogicTables, [LogicNext]_logicVars,
         NEW s \in SpikeIds, Born(s), NEW m \in Nat, Above(s, m)
  PROVE  Above(s, m)'
<1>0. /\ axoplasm \in [SpikeIds -> Axoplasm] /\ object \in [SpikeIds -> Axoplasm \cup {None}]
      /\ axoplasm[s] \in Axoplasm /\ axoplasm[s].loop_count \in Nat
      /\ object[s] # None => object[s] \in Axoplasm /\ object[s].loop_count \in Nat
      /\ update # None => update.copy \in Axoplasm
  BY DEF LogicTables, LogicTypeOK, Axoplasm
<1>1. ASSUME NEW r \in SpikeIds, Look(r) PROVE Above(s, m)'
  <2>1. /\ UNCHANGED <<axoplasm, update>>
        /\ object' = [object EXCEPT ![r] = axoplasm[r]]
    BY <1>1 DEF Look, agent
  <2>2. object'[s] \in {object[s], axoplasm[s]}
    BY <1>0, <2>1
  <2> QED BY <2>1, <2>2 DEF Above
<1>2. ASSUME NEW r \in SpikeIds, Decide(r) PROVE Above(s, m)'
  <2>1. /\ UNCHANGED <<object, update>> /\ object[r] # None
        /\ axoplasm' \in {axoplasm, [axoplasm EXCEPT ![r] = [object[r] EXCEPT !.loop_count = @ + 1]]}
    BY <1>2 DEF Decide, agent
  <2>2. \/ axoplasm'[s] = axoplasm[s]
        \/ r = s /\ axoplasm'[s] = [object[s] EXCEPT !.loop_count = @ + 1]
    BY <1>0, <2>1
  <2>3. axoplasm'[s].loop_count >= m
    BY <1>0, <2>1, <2>2 DEF Above, Axoplasm
  <2> QED BY <2>1, <2>3 DEF Above
<1>3. ASSUME NEW w \in Workers, Dispatch(w) PROVE Above(s, m)'
  BY <1>3 DEF Dispatch, agent, Above
<1>4. ASSUME NEW r \in SpikeIds, Fire(r) PROVE Above(s, m)'
  <2>1. /\ UNCHANGED <<axoplasm, update>>
        /\ object' = [object EXCEPT ![r] = IF IsLogic(spike[r].neuron) THEN None
                                           ELSE axoplasm[r]]
    BY <1>4 DEF Fire, agent
  <2>2. object'[s] \in {object[s], axoplasm[s], None}
    BY <1>0, <2>1
  <2> QED BY <2>1, <2>2 DEF Above
<1>5. ASSUME \/ \E r \in SpikeIds : FinishLogic(r)
             \/ Elsewhere \/ UNCHANGED logicVars
      PROVE  Above(s, m)'
  BY <1>5 DEF FinishLogic, Elsewhere, logicVars, agent, Above
<1>6. ASSUME NEW r \in SpikeIds, FinishOther(r) PROVE Above(s, m)'
  <2>1. /\ UNCHANGED <<object, update>> /\ task[r] = "running" /\ ~IsLogic(spike[r].neuron)
        /\ \E v : axoplasm' \in {axoplasm, [axoplasm EXCEPT ![r] = [object[r] EXCEPT !.key = v]]}
    BY <1>6 DEF FinishOther, agent
  <2>2. object[r] # None
    BY <2>1 DEF LogicTables, Executions
  <2>3. \/ axoplasm'[s] = axoplasm[s]
        \/ r = s /\ \E v : axoplasm'[s] = [object[s] EXCEPT !.key = v]
    BY <1>0, <2>1
  <2>4. axoplasm'[s].loop_count >= m
    BY <1>0, <2>2, <2>3 DEF Above, Axoplasm
  <2> QED BY <2>1, <2>4 DEF Above
<1>7. ASSUME NEW r \in SpikeIds, UpdateRead(r) PROVE Above(s, m)'
  BY <1>7 DEF UpdateRead, Above
<1>8. CASE UpdateWrite
  <2>1. UNCHANGED object /\ update' = None /\ update # None
    BY <1>8 DEF UpdateWrite
  <2>2. PICK v \in Values :
          axoplasm' = [axoplasm EXCEPT ![update.spike] = [update.copy EXCEPT !.key = v]]
    BY <1>8 DEF UpdateWrite
  <2>3. axoplasm'[s].loop_count >= m
    BY <1>0, <2>1, <2>2 DEF Above, Axoplasm
  <2> QED BY <2>1, <2>3 DEF Above
<1> QED BY <1>1, <1>2, <1>3, <1>4, <1>5, <1>6, <1>7, <1>8 DEF LogicNext
(* What a new spike starts from: nothing, or a spike that is there and, if *)
(* it is a retry node, has finished.                                       *)
ComesFrom(s, a) ==
  /\ Born(a) /\ Way'[s] = {a} \cup Way[a] /\ a \notin Way[a]
  /\ axoplasm'[s].loop_count = axoplasm[a].loop_count
  /\ IsRetry(a) => spikeStatus[a] \in {"SUCCESS", "FAILED"}

LEMMA NewSpike ==
  ASSUME RetriesRunThemselves, ManagerInv, OrderInv', LogicTables,
         NEW w \in Workers, Dispatch(w), NEW s \in SpikeIds, ~Born(s), Born(s)'
  PROVE  /\ object'[s] = None /\ verdict'[s] = None
         /\ ~(update' # None /\ update'.spike = s)
         /\ \/ axoplasm'[s] = Fluid /\ Way'[s] = {}
            \/ \E a \in SpikeIds : ComesFrom(s, a)
<1> DEFINE d == tx[w]
           r == spike'[s]
<1>0. IInv /\ LocksInv /\ OrderInv
  BY DEF ManagerInv
<1>1. NewRow(d, s)
  <2>1. PICK ids \in SUBSET SpikeIds :
          /\ \A i \in ids : NewRow(d, i)
          /\ \A q \in SpikeIds \ ids : OldRow(q)
    BY <1>0, CommitRows DEF Dispatch
  <2> QED BY <2>1 DEF OldRow, Born
<1>2. object'[s] = None /\ verdict'[s] = None
  BY <1>1 DEF NewRow, LogicTables, Executions, Dispatch
<1>3. ~(update' # None /\ update'.spike = s)
  BY DEF LogicTables, LogicTypeOK, Dispatch, agent
<1>4. axoplasm'[s] = Starting(r)
  BY DEF Dispatch, Born
<1>5. WaySteps'
  <2>1. OlderFirst'
    BY DEF OrderInv
  <2> QED BY <2>1, WayStep, PTL
<1>6. /\ OlderFirst /\ OlderFirst'
      /\ \A q \in SpikeIds : Born(q) => spike'[q] = spike[q]
  <2>1. [LogicNext]_logicVars
    BY DEF LogicNext
  <2> QED BY <1>0, <2>1, HistoryGrows DEF OrderInv
<1>7. d \in Tx /\ d # None /\ d.train \in TrainIds /\ Exists(d.train) /\ r.train = d.train
  BY <1>0, <1>1, DispatchFacts DEF Dispatch, DispatchCommit, NewRow
<1>8. CASE r.provenance = None /\ r.train = 0
  <2>1. From(s)' = None
    BY <1>8 DEF From
  <2> QED BY <1>2, <1>3, <1>4, <1>5, <1>8, <2>1 DEF WaySteps, Starting
<1>9. ASSUME NEW a \in SpikeIds, From(s)' = a, Born(a),
             axoplasm'[s].loop_count = axoplasm[a].loop_count,
             IsRetry(a) => spikeStatus[a] \in {"SUCCESS", "FAILED"}
      PROVE  ComesFrom(s, a)
  <2>1. a # None
    BY Constants
  <2>2. Way'[s] = {a} \cup Way'[a]
    BY <1>5, <1>9, <2>1 DEF WaySteps
  <2>3. Way'[a] = Way[a] /\ a \notin Way[a]
    <3>1. \A q \in Way[a] : q < a
      BY <1>6, WayOlder
    <3>2. a \notin Way[a]
      BY <3>1 DEF SpikeIds
    <3> QED BY <1>6, <1>9, <3>2, WayKept
  <2> QED BY <1>9, <2>2, <2>3 DEF ComesFrom
<1>10. CASE r.provenance # None
  <2>1. PICK a : a = r.provenance
    OBVIOUS
  <2>2. a \in d.picks
    BY <1>1, <1>10, <2>1 DEF NewRow
  <2>3. /\ a \in SpikeIds /\ Born(a) /\ a \in d.locked
        /\ spikeStatus[a] \in {"SUCCESS", "FAILED"}
    BY <1>0, <1>7, <2>2 DEF IInv, DispatchesApart, LocksInv, HoldsFinished, Tx
  <2>4. From(s)' = a /\ axoplasm'[s] = axoplasm[a]
    BY <1>4, <1>10, <2>1 DEF From, Starting
  <2> QED BY <1>2, <1>3, <1>9, <2>3, <2>4
<1>11. CASE r.provenance = None /\ r.train # 0
  <2>1. PICK a : a = r.train
    OBVIOUS
  <2>2. a \in SpikeIds /\ Exists(a) /\ Born(a)
    BY <1>0, <1>7, <1>11, <2>1, Constants DEF IInv, ReferencesHold
  <2>3. From(s)' = a
    BY <1>11, <2>1 DEF From
  <2>4. axoplasm'[s].loop_count = axoplasm[a].loop_count
    <3>1. axoplasm[a] \in Axoplasm
      BY <2>2 DEF LogicTables, LogicTypeOK
    <3> QED BY <1>4, <1>11, <2>1, <3>1 DEF Starting, Axoplasm
  <2>5. ~IsRetry(a)
    BY <1>0, <2>2, RetryAlone
  <2> QED BY <1>2, <1>3, <1>9, <2>2, <2>3, <2>4, <2>5
<1> QED BY <1>8, <1>10, <1>11

LEMMA NewSpikeFloor ==
  ASSUME "poll" \notin Ops, RetriesRunThemselves, CountsInv, OrderInv', FloorInv,
         NEW w \in Workers, Dispatch(w), NEW s \in SpikeIds, ~Born(s), Born(s)', Clean(s)'
  PROVE  Above(s, Floor(s))'
<1>0. /\ ManagerInv /\ LogicTables /\ VerdictInv /\ OrderInv /\ OlderFirst'
      /\ [LogicNext]_logicVars /\ IInv
  BY DEF CountsInv, ManagerInv, OrderInv, LogicNext
<1>1. Floor(s)' = Fluid.loop_count + Cardinality(MayCount(s)')
  BY DEF Floor
<1>2. SUFFICES axoplasm'[s].loop_count >= Floor(s)'
  BY <1>0, NewSpike DEF Above
<1>3. CASE axoplasm'[s] = Fluid /\ Way'[s] = {}
  <2>1. MayCount(s)' = {}
    BY <1>3 DEF MayCount
  <2> QED BY <1>1, <1>3, <2>1, FS_EmptySet, LogicConstants
<1>4. ASSUME NEW a \in SpikeIds, ComesFrom(s, a)
      PROVE  axoplasm'[s].loop_count >= Floor(s)'
  <2>1. Born(a) /\ spike'[a] = spike[a] /\ Way'[a] = Way[a]
    BY <1>0, <1>4, HistoryGrows, WayKept DEF ComesFrom, OrderInv
  <2>2. Clean(a)' /\ a \notin recounted /\ recounted' = recounted
    BY <1>4, <2>1 DEF Clean, ComesFrom, Dispatch, agent
  <2>3. /\ Clean(a) /\ Floor(a)' <= Floor(a) /\ Floor(a)' \in Nat /\ Floor(a) \in Nat
    BY <1>0, <2>1, <2>2, FloorFalls
  <2>4. Above(a, Floor(a)) /\ axoplasm[a].loop_count \in Nat
    BY <1>0, <2>1, <2>3 DEF FloorInv, LogicTables, LogicTypeOK, Axoplasm
  <2>5. IsFiniteSet(MayCount(a)') /\ Cardinality(MayCount(a)') \in Nat
        /\ Floor(a)' = Fluid.loop_count + Cardinality(MayCount(a)')
    <3>1. FloorTypes'
      BY <1>0, FloorType, PTL
    <3> QED BY <3>1 DEF FloorTypes, Floor
  <2>6. CASE ~(IsRetry(a) /\ ~Spent(a)')
    <3>1. MayCount(s)' = MayCount(a)'
      BY <1>4, <2>1, <2>6 DEF MayCount, ComesFrom, IsRetry, Born
    <3> QED BY <1>1, <1>4, <2>3, <2>4, <2>5, <3>1 DEF Above, ComesFrom
  <2>7. CASE IsRetry(a) /\ ~Spent(a)'
    <3>1. MayCount(s)' = MayCount(a)' \cup {a}
      BY <1>4, <2>1, <2>7 DEF MayCount, ComesFrom, IsRetry, Born
    <3>2. Cardinality(MayCount(s)') <= Cardinality(MayCount(a)') + 1
          /\ Cardinality(MayCount(s)') \in Nat
      <4>1. Cardinality(MayCount(a)' \cup {a}) \in
              {Cardinality(MayCount(a)'), Cardinality(MayCount(a)') + 1}
        BY <2>5, FS_AddElement
      <4> QED BY <2>5, <3>1, <4>1
    <3>3. ~Spent(a) /\ VerdictOf(a) /\ spikeStatus[a] \in {"SUCCESS", "FAILED"}
      <4>1. UNCHANGED <<axoplasm[a], verdict[a], spike[a]>>
        BY <2>1 DEF Dispatch
      <4> QED BY <1>0, <1>4, <2>7, <4>1 DEF Spent, Most, ComesFrom, VerdictInv
    <3>4. object[a] # None => object[a].loop_count \in Nat
      BY <1>0 DEF LogicTables, LogicTypeOK, Axoplasm
    <3>5. verdict[a] = 200
      BY <2>2, <3>3, <3>4 DEF VerdictOf, Spent
    <3>6. /\ axoplasm[a].loop_count = object[a].loop_count + 1
          /\ object[a].loop_count >= Floor(a) /\ object[a].loop_count \in Nat
      BY <2>2, <2>4, <3>3, <3>4, <3>5 DEF VerdictOf, Above
    <3> QED BY <1>1, <1>4, <2>3, <2>5, <3>2, <3>6, LogicConstants DEF ComesFrom
  <2> QED BY <2>6, <2>7
<1> QED BY <1>0, <1>3, <1>4, NewSpike

LEMMA NewlyBorn ==
  ASSUME "poll" \notin Ops, IInv, [LogicNext]_logicVars,
         NEW s \in SpikeIds, ~Born(s), Born(s)'
  PROVE  \E w \in Workers : Dispatch(w)
<1>1. spike' # spike
  BY DEF Born
<1>2. ASSUME \/ \E r \in SpikeIds : \/ Look(r) \/ Decide(r) \/ Fire(r) \/ FinishLogic(r)
                                    \/ FinishOther(r) \/ UpdateRead(r)
             \/ UpdateWrite \/ UNCHANGED logicVars
      PROVE  spike' = spike
  BY <1>2 DEF Look, Decide, Fire, FireStart, FinishLogic, FinishOther, FinishWrite,
              UpdateRead, UpdateWrite, logicVars, vars
<1>3. Elsewhere => spike' = spike
  BY ElsewhereRows
<1> QED BY <1>1, <1>2, <1>3 DEF LogicNext

LEMMA NextFloor ==
  ASSUME "poll" \notin Ops, RetriesRunThemselves
  PROVE  CountsInv /\ OrderInv' /\ LogicTables' /\ FloorInv /\ [LogicNext]_logicVars
           => FloorInv'
<1> SUFFICES ASSUME CountsInv, OrderInv', LogicTables', FloorInv, [LogicNext]_logicVars,
                    NEW s \in SpikeIds, Born(s)', Clean(s)'
             PROVE  Above(s, Floor(s))'
  BY DEF FloorInv
<1>1. CASE Born(s)
  <2>1. Clean(s) /\ Floor(s)' <= Floor(s) /\ Floor(s)' \in Nat /\ Floor(s) \in Nat
    BY <1>1, FloorFalls
  <2>2. PICK m \in Nat : m = Floor(s)
    BY <2>1
  <2>3. Above(s, m)
    BY <1>1, <2>1, <2>2 DEF FloorInv
  <2>4. Above(s, m)'
    BY <1>1, <2>3, CopiesStayAbove DEF CountsInv, ManagerInv
  <2>5. /\ axoplasm'[s].loop_count \in Nat
        /\ object'[s] # None => object'[s].loop_count \in Nat
        /\ update' # None => update'.copy.loop_count \in Nat
    BY DEF LogicTables, LogicTypeOK, Axoplasm
  <2>6. Floor(s)' <= m /\ Floor(s)' \in Nat
    BY <2>1, <2>2
  <2> QED BY <2>4, <2>5, <2>6 DEF Above
<1>2. CASE ~Born(s)
  <2>1. PICK w \in Workers : Dispatch(w)
    BY <1>2, NewlyBorn DEF CountsInv, ManagerInv
  <2> QED BY <1>2, <2>1, NewSpikeFloor
<1> QED BY <1>1, <1>2
-----------------------------------------------------------------------------
(* Undisturbed, the counts are exact. *)

Count(s) == Fluid.loop_count + Cardinality(Rounds(s))

HasCount(s, k) ==
  /\ axoplasm[s].loop_count = k + (IF IsRetry(s) /\ verdict[s] = 200 THEN 1 ELSE 0)
  /\ object[s] # None => object[s].loop_count = k

(* The retry nodes on the way have finished, and the copies of the count   *)
(* say how many of them have let the train go round.                       *)
Exact(s) ==
  /\ \A a \in Way[s] : IsRetry(a) => spikeStatus[a] \in {"SUCCESS", "FAILED"}
  /\ HasCount(s, Count(s))

ExactInv ==
  ops = 0 =>
    /\ update = None /\ recounted = {}
    /\ \A s \in SpikeIds : task[s] = "queued" => verdict[s] = None
    /\ \A s \in SpikeIds : Born(s) => Exact(s)

LEMMA InitExact == LogicInit => ExactInv
BY Constants DEF LogicInit, Init, ExactInv, Born

(* As long as nobody intervenes the status of a retry node is final.       *)
LEMMA FinishedStays ==
  ASSUME "poll" \notin Ops, RetriesRunThemselves, ManagerInv, [LogicNext]_logicVars, ops' = 0
  PROVE  /\ ops = 0
         /\ \A a \in SpikeIds :
              IsRetry(a) /\ spikeStatus[a] \in {"SUCCESS", "FAILED"}
                => spikeStatus'[a] = spikeStatus[a]
         /\ \A s \in SpikeIds : task'[s] = "queued" => task[s] \in {"queued", "idle"}
<1>0. IInv /\ OrderInv /\ CalmInv /\ ops \in Nat
  BY DEF ManagerInv, IInv, TypeOK
<1>1. [Next]_vars
  BY <1>0, LogicSteps
<1>2. /\ \A t \in TrainIds : ~Terminate(t) /\ ~StopGracefully(t) /\ ~CrashStart(t)
      /\ \A s \in SpikeIds : ~Rerun(s) /\ ~CrashTask(s) /\ ~LoseWorker(s)
      /\ \A w \in Workers : ~CrashDispatch(w)
      /\ ~PollSome
  <2>1. \A op : ~Intervene(op)
    BY <1>0 DEF Intervene
  <2> QED BY <2>1 DEF Terminate, StopGracefully, CrashStart, Rerun, CrashTask, LoseWorker,
                      CrashDispatch, PollSome, Poll
<1>3. ops = 0
  BY <1>1, <1>2 DEF Next, Engine, Intervention, Idle, vars, StartTrain, DispatchBegin,
       DispatchCommit, FireStart, FinishWrite, FinishTask, StaleWrite
<1>4. CalmTasks
  BY <1>0, <1>3 DEF CalmInv
<1>5. ASSUME NEW a \in SpikeIds, IsRetry(a), spikeStatus[a] \in {"SUCCESS", "FAILED"}
      PROVE  spikeStatus'[a] = spikeStatus[a]
  <2>1. ASSUME NEW w \in Workers, DispatchCommit(w) PROVE spikeStatus'[a] = spikeStatus[a]
    <3>1. ~Exists(a)
      BY <1>0, <1>5, RetryAlone
    <3>2. Born(a)
      BY <1>5 DEF IsRetry
    <3> QED BY <1>0, <2>1, <3>1, <3>2, CommitRows DEF NewRow, OldRow
  <2>2. ASSUME NEW s \in SpikeIds, FireStart(s) \/ FinishWrite(s) \/ StaleWrite(s)
        PROVE  spikeStatus'[a] = spikeStatus[a]
    <3>1. task[s] \in {"queued", "running"} /\ Born(s)
      BY <1>0, <2>2 DEF FireStart, FinishWrite, StaleWrite, IInv, ReferencesHold
    <3>2. s # a
      BY <1>4, <1>5, <3>1 DEF CalmTasks
    <3> QED BY <1>0, <2>2, <3>2 DEF FireStart, FinishWrite, StaleWrite, IInv, TypeOK
  <2>3. ASSUME \/ \E t \in TrainIds : \/ StartTrain(t)
                                      \/ \E w \in Workers : DispatchBegin(w, t)
               \/ \E s \in SpikeIds : FinishTask(s)
               \/ UNCHANGED vars
        PROVE  spikeStatus' = spikeStatus
    BY <2>3 DEF StartTrain, DispatchBegin, FinishTask, vars
  <2> QED BY <1>1, <1>2, <2>1, <2>2, <2>3 DEF Next, Engine, Intervention, Idle
<1>6. ASSUME NEW s \in SpikeIds, task'[s] = "queued" PROVE task[s] \in {"queued", "idle"}
  <2>1. ASSUME NEW w \in Workers, DispatchCommit(w) PROVE task[s] \in {"queued", "idle"}
    BY <1>0, <1>6, <2>1, CommitRows DEF NewRow, OldRow
  <2>2. ASSUME NEW r \in SpikeIds,
               FireStart(r) \/ FinishWrite(r) \/ StaleWrite(r) \/ FinishTask(r)
        PROVE  task[s] = "queued"
    <3>1. \E tk \in {"running", "written", "done"} : task' = [task EXCEPT ![r] = tk]
      BY <2>2 DEF FireStart, FinishWrite, StaleWrite, FinishTask
    <3> QED BY <1>0, <1>6, <3>1 DEF IInv, TypeOK
  <2>3. ASSUME \/ \E t \in TrainIds : \/ StartTrain(t)
                                      \/ \E w \in Workers : DispatchBegin(w, t)
               \/ UNCHANGED vars
        PROVE  task' = task
    BY <2>3 DEF StartTrain, DispatchBegin, vars
  <2> QED BY <1>1, <1>2, <1>6, <2>1, <2>2, <2>3 DEF Next, Engine, Intervention, Idle
<1> QED BY <1>3, <1>5, <1>6

RoundsTypes ==
  \A s \in SpikeIds : /\ Rounds(s) \subseteq Way[s] /\ IsFiniteSet(Rounds(s))
                      /\ Cardinality(Rounds(s)) \in Nat /\ Count(s) \in Nat

LEMMA RoundsType == OlderFirst => RoundsTypes
<1> SUFFICES ASSUME OlderFirst, NEW s \in SpikeIds
             PROVE  /\ Rounds(s) \subseteq Way[s] /\ IsFiniteSet(Rounds(s))
                    /\ Cardinality(Rounds(s)) \in Nat /\ Count(s) \in Nat
  BY DEF RoundsTypes
<1>1. Rounds(s) \subseteq Way[s] /\ IsFiniteSet(Way[s])
  BY WayOlder DEF Rounds
<1>2. IsFiniteSet(Rounds(s)) /\ Cardinality(Rounds(s)) \in Nat
  BY <1>1, FS_Subset, FS_CardinalityType
<1> QED BY <1>1, <1>2, LogicConstants DEF Count

(* So the rounds on the way to a spike are settled when it is born.        *)
LEMMA RoundsStay ==
  ASSUME "poll" \notin Ops, RetriesRunThemselves, ManagerInv, OrderInv',
         [LogicNext]_logicVars, ops' = 0, NEW s \in SpikeIds, Born(s), Exact(s)
  PROVE  /\ Way'[s] = Way[s] /\ Rounds(s)' = Rounds(s) /\ Count(s)' = Count(s)
         /\ IsRetry(s)' <=> IsRetry(s)
         /\ \A a \in Way[s] : IsRetry(a)' => spikeStatus'[a] \in {"SUCCESS", "FAILED"}
<1>1. /\ OlderFirst /\ OlderFirst' /\ IInv
      /\ \A r \in SpikeIds : Born(r) => spike'[r] = spike[r]
  BY HistoryGrows DEF ManagerInv, OrderInv
<1>2. Way'[s] = Way[s] /\ \A a \in Way[s] : a \in SpikeIds /\ Born(a)
  BY <1>1, WayKept, WayOlder
<1>3. ASSUME NEW a \in Way[s]
      PROVE  /\ spike'[a] = spike[a] /\ (IsRetry(a)' <=> IsRetry(a))
             /\ IsRetry(a) => /\ spikeStatus[a] \in {"SUCCESS", "FAILED"}
                              /\ spikeStatus'[a] = spikeStatus[a]
  BY <1>1, <1>2, FinishedStays DEF Exact, IsRetry, Born
<1>4. Rounds(s)' = Rounds(s)
  BY <1>2, <1>3 DEF Rounds, IsRetry
<1>5. Count(s)' = Count(s)
  <2>1. Count(s)' = Fluid.loop_count + Cardinality(Rounds(s)')
    BY DEF Count
  <2> QED BY <1>4, <2>1 DEF Count
<1> QED BY <1>1, <1>2, <1>3, <1>4, <1>5 DEF IsRetry, Born
LEMMA CountStays ==
  ASSUME "poll" \notin Ops, RetriesRunThemselves, CountsInv, ExactInv, [LogicNext]_logicVars,
         ops = 0, ops' = 0, NEW s \in SpikeIds, Born(s), spike'[s] = spike[s],
         NEW k \in Nat, HasCount(s, k)
  PROVE  HasCount(s, k)'
<1>0. /\ axoplasm \in [SpikeIds -> Axoplasm] /\ object \in [SpikeIds -> Axoplasm \cup {None}]
      /\ verdict \in [SpikeIds -> {200, 500, None}] /\ None \notin {200, 500}
      /\ IsRetry(s)' <=> IsRetry(s)
      /\ IsRetry(s) <=> Retries(spike[s].neuron)
      /\ IsRetry(s) => IsLogic(spike[s].neuron) /\ VerdictOf(s)
  <2>1. IsRetry(s) <=> Retries(spike[s].neuron)
    BY DEF IsRetry
  <2>2. IsRetry(s)' <=> IsRetry(s)
    BY DEF IsRetry, Born
  <2>3. IsRetry(s) => IsLogic(spike[s].neuron) /\ VerdictOf(s)
    BY RetryAlone DEF CountsInv, ManagerInv, VerdictInv
  <2> QED BY <2>1, <2>2, <2>3, LogicConstants DEF CountsInv, LogicTables, LogicTypeOK
<1>1. ASSUME NEW r \in SpikeIds, Look(r) PROVE HasCount(s, k)'
  <2>1. /\ UNCHANGED <<axoplasm, verdict>> /\ object[r] = None
        /\ object' = [object EXCEPT ![r] = axoplasm[r]]
    BY <1>1 DEF Look
  <2>2. CASE r = s
    <3>1. object'[s] = axoplasm[s] /\ ~(IsRetry(s) /\ verdict[s] = 200)
      BY <1>0, <2>1, <2>2 DEF VerdictOf
    <3>2. axoplasm[s].loop_count = k
      BY <3>1 DEF HasCount
    <3>3. ~(IsRetry(s)' /\ verdict'[s] = 200)
      BY <1>0, <2>1, <3>1
    <3> QED BY <2>1, <3>1, <3>2, <3>3 DEF HasCount
  <2>3. CASE r # s
    <3>1. object'[s] = object[s]
      BY <1>0, <2>1, <2>3
    <3> QED BY <1>0, <2>1, <3>1 DEF HasCount
  <2> QED BY <2>2, <2>3
<1>2. ASSUME NEW r \in SpikeIds, Decide(r) PROVE HasCount(s, k)'
  <2> DEFINE again == Passes(spike[r].neuron, object[r]) /\ Retries(spike[r].neuron)
  <2>1. /\ object' = object /\ object[r] # None /\ verdict[r] = None
        /\ verdict' = [verdict EXCEPT ![r] = IF Passes(spike[r].neuron, object[r])
                                             THEN 200 ELSE 500]
        /\ axoplasm' = IF again
                       THEN [axoplasm EXCEPT ![r] = [object[r] EXCEPT !.loop_count = @ + 1]]
                       ELSE axoplasm
    BY <1>2 DEF Decide
  <2>2. CASE r = s
    <3>1. object[s] \in Axoplasm /\ object[s].loop_count = k /\ axoplasm[s].loop_count = k
      BY <1>0, <2>1, <2>2 DEF HasCount
    <3>2. CASE again
      <4>1. axoplasm'[s] = [object[s] EXCEPT !.loop_count = @ + 1] /\ verdict'[s] = 200
        BY <1>0, <2>1, <2>2, <3>2
      <4>2. axoplasm'[s].loop_count = k + 1
        BY <3>1, <4>1 DEF Axoplasm
      <4>3. IsRetry(s)'
        BY <1>0, <2>2, <3>2
      <4> QED BY <2>1, <3>1, <4>1, <4>2, <4>3 DEF HasCount
    <3>3. CASE ~again
      <4>1. axoplasm' = axoplasm /\ verdict'[s] = IF Passes(spike[s].neuron, object[s])
                                                  THEN 200 ELSE 500
        BY <1>0, <2>1, <2>2, <3>3
      <4>2. ~(IsRetry(s)' /\ verdict'[s] = 200)
        BY <1>0, <2>2, <3>3, <4>1
      <4>3. object' = object
        BY <2>1
      <4> QED BY <3>1, <4>1, <4>2, <4>3 DEF HasCount
    <3> QED BY <3>2, <3>3
  <2>3. CASE r # s
    <3>1. axoplasm'[s] = axoplasm[s]
      BY <1>0, <2>1, <2>3
    <3>2. verdict'[s] = verdict[s]
      BY <1>0, <2>1, <2>3
    <3> QED BY <1>0, <2>1, <3>1, <3>2 DEF HasCount
  <2> QED BY <2>2, <2>3
<1>3. ASSUME NEW w \in Workers, Dispatch(w) PROVE HasCount(s, k)'
  <2>1. axoplasm'[s] = axoplasm[s] /\ UNCHANGED <<object, verdict>>
    BY <1>3 DEF Dispatch
  <2> QED BY <1>0, <2>1 DEF HasCount
<1>4. ASSUME NEW r \in SpikeIds, Fire(r) PROVE HasCount(s, k)'
  <2>1. /\ axoplasm' = axoplasm /\ task[r] = "queued"
        /\ verdict' = [verdict EXCEPT ![r] = None]
        /\ object' = [object EXCEPT ![r] = IF IsLogic(spike[r].neuron) THEN None
                                           ELSE axoplasm[r]]
    BY <1>4 DEF Fire, FireStart
  <2>2. verdict[r] = None
    BY <2>1 DEF ExactInv
  <2>3. verdict'[s] = verdict[s]
    BY <1>0, <2>1, <2>2
  <2>4. \/ object'[s] \in {object[s], None}
        \/ object'[s] = axoplasm[s] /\ ~IsRetry(s)
    <3>1. CASE r = s
      BY <1>0, <2>1, <3>1
    <3>2. CASE r # s
      <4>1. object'[s] = object[s]
        BY <1>0, <2>1, <3>2
      <4> QED BY <4>1
    <3> QED BY <3>1, <3>2
  <2> QED BY <1>0, <2>1, <2>3, <2>4 DEF HasCount
<1>5. ASSUME \/ \E r \in SpikeIds : FinishLogic(r)
             \/ Elsewhere \/ UNCHANGED logicVars
      PROVE  HasCount(s, k)'
  <2>1. UNCHANGED <<axoplasm, object, verdict>>
    BY <1>5 DEF FinishLogic, Elsewhere, logicVars
  <2> QED BY <1>0, <2>1 DEF HasCount
<1>6. ASSUME NEW r \in SpikeIds, FinishOther(r) PROVE HasCount(s, k)'
  <2>1. /\ UNCHANGED <<object, verdict>> /\ task[r] = "running" /\ ~IsLogic(spike[r].neuron)
        /\ \E v : axoplasm' \in {axoplasm, [axoplasm EXCEPT ![r] = [object[r] EXCEPT !.key = v]]}
    BY <1>6 DEF FinishOther
  <2>2. object[r] # None
    BY <2>1 DEF CountsInv, LogicTables, Executions
  <2>3. \/ axoplasm'[s] = axoplasm[s]
        \/ r = s /\ \E v : axoplasm'[s] = [object[s] EXCEPT !.key = v]
    <3>1. PICK v :
            axoplasm' \in {axoplasm, [axoplasm EXCEPT ![r] = [object[r] EXCEPT !.key = v]]}
      BY <2>1
    <3>2. CASE r # s
      BY <1>0, <3>1, <3>2
    <3>3. CASE r = s
      <4>1. axoplasm'[s] \in {axoplasm[s], [object[s] EXCEPT !.key = v]}
        BY <1>0, <3>1, <3>3
      <4> QED BY <3>3, <4>1
    <3> QED BY <3>2, <3>3
  <2>4. \/ axoplasm'[s] = axoplasm[s]
        \/ ~IsRetry(s) /\ object[s] # None /\ axoplasm'[s].loop_count = object[s].loop_count
    BY <1>0, <2>1, <2>2, <2>3 DEF Axoplasm
  <2> QED BY <1>0, <2>1, <2>4 DEF HasCount
<1>7. ASSUME NEW r \in SpikeIds, UpdateRead(r) PROVE FALSE
  BY <1>7 DEF UpdateRead
<1>8. ~UpdateWrite
  BY DEF UpdateWrite, ExactInv
<1> QED BY <1>1, <1>2, <1>3, <1>4, <1>5, <1>6, <1>7, <1>8 DEF LogicNext

LEMMA NewSpikeExact ==
  ASSUME "poll" \notin Ops, RetriesRunThemselves, CountsInv, OrderInv', ExactInv, ops' = 0,
         NEW w \in Workers, Dispatch(w), NEW s \in SpikeIds, ~Born(s), Born(s)'
  PROVE  Exact(s)'
<1>0. /\ ManagerInv /\ LogicTables /\ VerdictInv /\ OrderInv /\ OlderFirst /\ OlderFirst'
      /\ [LogicNext]_logicVars /\ IInv
  BY DEF CountsInv, ManagerInv, OrderInv, LogicNext
<1>1. ops = 0
  BY <1>0, FinishedStays
<1>2. Count(s)' = Fluid.loop_count + Cardinality(Rounds(s)')
  BY DEF Count
<1>3. object'[s] = None /\ verdict'[s] # 200
  BY <1>0, NewSpike, LogicConstants
<1>4. CASE axoplasm'[s] = Fluid /\ Way'[s] = {}
  <2>1. Rounds(s)' = {}
    BY <1>4 DEF Rounds
  <2> QED BY <1>2, <1>3, <1>4, <2>1, FS_EmptySet, LogicConstants DEF Exact, HasCount
<1>5. ASSUME NEW a \in SpikeIds, ComesFrom(s, a) PROVE Exact(s)'
  <2>1. Born(a) /\ spike'[a] = spike[a] /\ Exact(a)
    BY <1>0, <1>1, <1>5, HistoryGrows DEF ComesFrom, ExactInv
  <2>2. /\ Way'[a] = Way[a] /\ Rounds(a)' = Rounds(a)
        /\ \A b \in Way[a] : IsRetry(b)' => spikeStatus'[b] \in {"SUCCESS", "FAILED"}
    BY <1>0, <2>1, RoundsStay
  <2>3. IsRetry(a) => /\ spikeStatus'[a] = spikeStatus[a]
                      /\ spikeStatus[a] \in {"SUCCESS", "FAILED"}
                      /\ spikeStatus[a] = "SUCCESS" <=> verdict[a] = 200
    BY <1>0, <1>5, FinishedStays DEF ComesFrom, VerdictInv, VerdictOf
  <2>4. IsRetry(a)' <=> IsRetry(a)
    BY <2>1 DEF IsRetry, Born
  <2>5. IsFiniteSet(Rounds(a)) /\ Cardinality(Rounds(a)) \in Nat /\ a \notin Rounds(a)
    BY <1>0, <1>5, RoundsType DEF RoundsTypes, Rounds, ComesFrom
  <2>6. Cardinality(Rounds(s)') = Cardinality(Rounds(a))
          + (IF IsRetry(a) /\ verdict[a] = 200 THEN 1 ELSE 0)
    <3>1. CASE IsRetry(a) /\ verdict[a] = 200
      <4>1. Rounds(s)' = Rounds(a) \cup {a}
        BY <1>5, <2>1, <2>2, <2>3, <2>4, <3>1 DEF Rounds, ComesFrom, IsRetry
      <4> QED BY <2>5, <3>1, <4>1, FS_AddElement
    <3>2. CASE ~(IsRetry(a) /\ verdict[a] = 200)
      <4>1. Rounds(s)' = Rounds(a)
        BY <1>5, <2>1, <2>2, <2>3, <2>4, <3>2 DEF Rounds, ComesFrom, IsRetry
      <4> QED BY <2>5, <3>2, <4>1
    <3> QED BY <3>1, <3>2
  <2>7. axoplasm'[s].loop_count = Count(s)'
    BY <1>2, <1>5, <2>1, <2>5, <2>6, LogicConstants DEF ComesFrom, Exact, HasCount, Count
  <2>8. \A b \in Way'[s] : IsRetry(b)' => spikeStatus'[b] \in {"SUCCESS", "FAILED"}
    BY <1>5, <2>2, <2>3, <2>4 DEF ComesFrom
  <2>9. Count(s)' \in Nat
    <3>1. RoundsTypes'
      BY <1>0, RoundsType, PTL
    <3> QED BY <3>1 DEF RoundsTypes
  <2>10. HasCount(s, Count(s))'
    BY <1>3, <2>7, <2>9 DEF HasCount
  <2> QED BY <2>8, <2>10 DEF Exact
<1> QED BY <1>0, <1>4, <1>5, NewSpike
LEMMA NextExact ==
  ASSUME "poll" \notin Ops, RetriesRunThemselves
  PROVE  CountsInv /\ OrderInv' /\ ExactInv /\ [LogicNext]_logicVars => ExactInv'
<1> SUFFICES ASSUME CountsInv, OrderInv', ExactInv, [LogicNext]_logicVars, ops' = 0
             PROVE  /\ update' = None /\ recounted' = {}
                    /\ \A s \in SpikeIds : task'[s] = "queued" => verdict'[s] = None
                    /\ \A s \in SpikeIds : Born(s)' => Exact(s)'
  BY DEF ExactInv
<1>0. /\ ManagerInv /\ LogicTables /\ IInv /\ OrderInv /\ OlderFirst /\ ops = 0
      /\ update = None /\ recounted = {} /\ verdict \in [SpikeIds -> {200, 500, None}]
      /\ \A s \in SpikeIds : task[s] = "queued" => verdict[s] = None
      /\ \A s \in SpikeIds : task'[s] = "queued" => task[s] \in {"queued", "idle"}
  BY FinishedStays DEF CountsInv, ManagerInv, OrderInv, LogicTables, LogicTypeOK, ExactInv
<1>1. update' = None /\ recounted' = {}
  <2>1. /\ \A s \in SpikeIds : ~UpdateRead(s)
        /\ ~UpdateWrite
    BY <1>0 DEF UpdateRead, UpdateWrite
  <2> QED BY <1>0, <2>1 DEF LogicNext, Look, Decide, Dispatch, Fire, FinishLogic, FinishOther,
                            Elsewhere, agent, logicVars
<1>2. ASSUME NEW s \in SpikeIds, task'[s] = "queued" PROVE verdict'[s] = None
  <2>1. task[s] \in {"queued", "idle"} /\ verdict[s] = None
    BY <1>0, <1>2 DEF LogicTables, Executions
  <2>2. ASSUME NEW r \in SpikeIds, Decide(r) PROVE verdict'[s] = verdict[s]
    <3>1. task[r] = "running" /\ \E v : verdict' = [verdict EXCEPT ![r] = v]
      BY <2>2, DecidesAlone
    <3> QED BY <1>0, <2>1, <3>1
  <2>3. ASSUME NEW r \in SpikeIds, Fire(r) PROVE verdict'[s] = None
    BY <1>0, <2>1, <2>3 DEF Fire
  <2> QED BY <2>1, <2>2, <2>3 DEF LogicNext, Look, Dispatch, FinishLogic, FinishOther,
                                  UpdateRead, UpdateWrite, Elsewhere, logicVars
<1>3. ASSUME NEW s \in SpikeIds, Born(s) PROVE Exact(s)'
  <2>1. Exact(s) /\ spike'[s] = spike[s]
    BY <1>0, <1>3, HistoryGrows DEF ExactInv
  <2>2. /\ Way'[s] = Way[s] /\ Count(s)' = Count(s)
        /\ \A a \in Way[s] : IsRetry(a)' => spikeStatus'[a] \in {"SUCCESS", "FAILED"}
    BY <1>0, <1>3, <2>1, RoundsStay
  <2>3. PICK k \in Nat : k = Count(s)
    BY <1>0, RoundsType DEF RoundsTypes
  <2>4. HasCount(s, k)
    BY <2>1, <2>3 DEF Exact
  <2>5. HasCount(s, k)'
    BY <1>0, <1>3, <2>1, <2>4, CountStays
  <2>6. HasCount(s, Count(s))'
    BY <2>2, <2>3, <2>5 DEF HasCount
  <2> QED BY <2>2, <2>6 DEF Exact
<1>4. ASSUME NEW s \in SpikeIds, ~Born(s), Born(s)' PROVE Exact(s)'
  <2>1. PICK w \in Workers : Dispatch(w)
    BY <1>4, NewlyBorn DEF CountsInv, ManagerInv
  <2> QED BY <1>4, <2>1, NewSpikeExact
<1> QED BY <1>1, <1>2, <1>3, <1>4

LEMMA CountedRounds ==
  ASSUME CountsInv, FloorInv, ExactInv PROVE RetriesCounted
<1>0. OlderFirst /\ VerdictInv /\ LogicTables /\ IInv
  BY DEF CountsInv, ManagerInv, OrderInv
<1> SUFFICES ASSUME NEW s \in SpikeIds, IsRetry(s)
             PROVE  /\ spikeStatus[s] = "SUCCESS" /\ Clean(s) => Count(s) < Most(s)
                    /\ ops = 0 /\ spikeStatus[s] = "FAILED" => Count(s) >= Most(s)
  BY DEF RetriesCounted, IsRetry, Clean, Count, Most
<1>1. Born(s) /\ VerdictOf(s)
  BY <1>0 DEF IsRetry, VerdictInv
<1>2. ASSUME spikeStatus[s] = "SUCCESS", Clean(s) PROVE Count(s) < Most(s)
  <2>1. object[s] # None /\ object[s].loop_count < Most(s)
    BY <1>1, <1>2 DEF VerdictOf
  <2>2. object[s].loop_count >= Floor(s)
    BY <1>1, <1>2, <2>1 DEF FloorInv, Above
  <2>3. Rounds(s) \subseteq MayCount(s)
    <3> SUFFICES ASSUME NEW a \in Rounds(s) PROVE a \in MayCount(s)
      OBVIOUS
    <3>1. a \in Way[s] /\ Retries(spike[a].neuron) /\ spikeStatus[a] = "SUCCESS"
      BY DEF Rounds
    <3>2. a \in SpikeIds /\ IsRetry(a)
      BY <1>0, <3>1, WayOlder DEF IsRetry
    <3>3. verdict[a] = 200
      BY <1>0, <3>1, <3>2 DEF VerdictInv, VerdictOf
    <3> QED BY <3>1, <3>2, <3>3 DEF MayCount, Spent
  <2>4. Count(s) <= Floor(s) /\ Count(s) \in Nat /\ Floor(s) \in Nat
    <3>1. IsFiniteSet(MayCount(s)) /\ Cardinality(MayCount(s)) \in Nat /\ Floor(s) \in Nat
      BY <1>0, FloorType DEF FloorTypes
    <3>2. Cardinality(Rounds(s)) \in Nat /\ Count(s) \in Nat
      BY <1>0, RoundsType DEF RoundsTypes
    <3>3. Cardinality(Rounds(s)) <= Cardinality(MayCount(s))
      BY <2>3, <3>1, FS_Subset
    <3> QED BY <3>1, <3>2, <3>3, LogicConstants DEF Count, Floor
  <2>5. object[s].loop_count \in Nat /\ Most(s) \in Int
    <3>1. object[s].loop_count \in Nat
      BY <1>0, <2>1 DEF LogicTables, LogicTypeOK, Axoplasm
    <3>2. spike[s].neuron \in Neurons
      BY <1>0, <1>1 DEF IInv, TypeOK, SpikeRow, Born
    <3> QED BY <3>1, <3>2, LogicConstants DEF Most
  <2> QED BY <2>1, <2>2, <2>4, <2>5
<1>3. ASSUME ops = 0, spikeStatus[s] = "FAILED" PROVE Count(s) >= Most(s)
  <2>1. object[s] # None /\ object[s].loop_count >= Most(s)
    BY <1>1, <1>3 DEF VerdictOf
  <2>2. object[s].loop_count = Count(s)
    BY <1>1, <1>3, <2>1 DEF ExactInv, Exact, HasCount
  <2> QED BY <2>1, <2>2
<1> QED BY <1>2, <1>3

(* However the graph loops and nests, whatever is crashed, stopped, run    *)
(* again or written by agents: no retry node lets a train go round once    *)
(* more than its limit, unless an agent has written an older count over    *)
(* one on the way; and undisturbed it fails only when the limit is         *)
(* reached.  (A poll can fail a retry node that then succeeds in a rerun.) *)
THEOREM RetriesStayCounted ==
  ASSUME "poll" \notin Ops, RetriesRunThemselves
  PROVE  LogicSpec => []RetriesCounted
<1> DEFINE AllInv == CountsInv /\ FloorInv /\ ExactInv
<1>1. LogicInit => AllInv
  <2>1. LogicInit => ManagerInv
    BY InitManager DEF LogicInit
  <2>2. LogicInit => FloorInv
    BY Constants DEF LogicInit, Init, FloorInv, Born
  <2> QED BY <2>1, <2>2, InitTables, InitVerdict, InitExact DEF CountsInv
<1>2. AllInv /\ [LogicNext]_logicVars => AllInv'
  <2> SUFFICES ASSUME AllInv, [LogicNext]_logicVars PROVE AllInv'
    OBVIOUS
  <2>1. ManagerInv'
    BY NextManager DEF CountsInv
  <2>2. LogicTables' /\ VerdictInv'
    BY NextTables, NextVerdict DEF CountsInv, ManagerInv
  <2>3. OrderInv'
    BY <2>1 DEF ManagerInv
  <2>4. FloorInv' /\ ExactInv'
    BY <2>2, <2>3, NextFloor, NextExact
  <2> QED BY <2>1, <2>2, <2>4 DEF CountsInv
<1>3. AllInv => RetriesCounted
  BY CountedRounds
<1> QED BY <1>1, <1>2, <1>3, PTL DEF LogicSpec
=============================================================================
