---------------------- MODULE NeuroMuscularJunctionProofs ----------------------
(***************************************************************************)
(* Theorems about the execution of a spike: what its status column and its *)
(* task go through is what the model of the job manager takes it for.      *)
(***************************************************************************)
EXTENDS NeuroMuscularJunction, TLAPS

Final == {"SUCCESS", "FAILED", "STOPPED"}

Mine(i) == i \in DOMAIN thread /\ thread[i].by = "task"

(* The coroutine is at p, or the thread works on the call after which it   *)
(* comes to p.                                                             *)
Toward(p) == at = p \/ \E i \in DOMAIN thread : Mine(i) /\ thread[i].next = p

(* The first write is on its way.                                          *)
Launching == at = "waiting" /\ own = "CREATED"

ThreadHolds ==
  /\ \A i, j \in DOMAIN thread : Mine(i) /\ Mine(j) => i = j
  /\ at \notin {"waiting", "end"} => \A i \in DOMAIN thread : ~Mine(i)
  /\ \A i \in DOMAIN thread :
       /\ thread[i].does = "save" => Mine(i) /\ thread[i].next \in {"route", "updated", "halt", "end"}
       /\ Mine(i) => /\ thread[i].next \in Places \ {"launch"}
                     /\ thread[i].next = "route" => Launching
       /\ ~Mine(i) => thread[i].next \in Looks
  /\ read # None => thread # <<>> /\ Head(thread).does = "refresh"

LaunchHolds ==
  /\ at = "launch" => /\ own = "CREATED" /\ thread = <<>> /\ memory = "PENDING"
                      /\ monitor = "sleep"
  /\ Launching => /\ thread # <<>> /\ memory = "RUNNING" /\ monitor \in {"sleep", "waiting"}
                  /\ Head(thread) = [does |-> "save", by |-> "task", next |-> "route"]
  /\ at = "launch" \/ Launching => status \in {"PENDING", "ABORTED", "STOPPING"}
  /\ own = "CREATED" => at \in {"launch", "waiting", "route", "end"}

(* A status that was read, now or some time ago.                           *)
WasRead(st) ==
  /\ st # "PENDING" /\ (st = "RUNNING" => status \notin Final)
  /\ st \in {"STOPPING", "ABORTED"} => status = st

MemoryHolds ==
  /\ status # "PENDING" /\ WasRead(memory)
  /\ read # None => WasRead(read) /\ (read \in Final => status = read)
  /\ memory = "STOPPED" => status \in {"STOPPING", "STOPPED"}
  /\ status \in Final => /\ memory = status
                         /\ \A p \in Places : Toward(p) => p \in {"updated", "halt", "end"}
  /\ Toward("updated") => own \in Final /\ (memory \in Final => memory = own)
  /\ Toward("draining") => status = "STOPPING"
  /\ Toward("save") => own \in Final /\ (own = "STOPPED" => status = "STOPPING")

IInv == /\ TypeOK /\ ThreadHolds /\ LaunchHolds
        /\ at # "launch" /\ ~Launching => MemoryHolds

-----------------------------------------------------------------------------
(* The steps of the job manager, as its status column and task show them.  *)

LEMMA Stays ==
  ASSUME UNCHANGED <<status, TaskOf, train, ops>>
  PROVE  UNCHANGED CNS!vars
BY DEF CNS!vars

LEMMA Fires ==
  ASSUME TaskOf = "queued", TaskOf' = "running", status' = "RUNNING", UNCHANGED <<train, ops>>
  PROVE  CNS!Next
<1>1. ~CNS!Locked(1) /\ 1 \in CNS!SpikeIds
  BY DEF CNS!Locked, CNS!SpikeIds
<1>2. [s \in 1 .. 1 |-> TaskOf][1] = "queued"
  OBVIOUS
<1>3. [s \in 1 .. 1 |-> TaskOf]' = [[s \in 1 .. 1 |-> TaskOf] EXCEPT ![1] = "running"]
  OBVIOUS
<1>4. [s \in 1 .. 1 |-> status]' = [[s \in 1 .. 1 |-> status] EXCEPT ![1] = "RUNNING"]
  OBVIOUS
<1>5. CNS!FireStart(1)
  BY <1>1, <1>2, <1>3, <1>4 DEF CNS!FireStart
<1> QED BY <1>1, <1>5 DEF CNS!Next, CNS!Engine

LEMMA Finishes ==
  ASSUME TaskOf = "running", TaskOf' = "written", UNCHANGED <<train, ops>>,
         \/ status' \in {"SUCCESS", "FAILED"}
         \/ status = "STOPPING" /\ status' = "STOPPED"
         \/ status = "ABORTED" /\ status' = status
  PROVE  CNS!Next
<1>1. ~CNS!Locked(1) /\ 1 \in CNS!SpikeIds
  BY DEF CNS!Locked, CNS!SpikeIds
<1>2. [s \in 1 .. 1 |-> TaskOf][1] = "running" /\ [s \in 1 .. 1 |-> status][1] = status
  OBVIOUS
<1>3. [s \in 1 .. 1 |-> TaskOf]' = [[s \in 1 .. 1 |-> TaskOf] EXCEPT ![1] = "written"]
  OBVIOUS
<1>4. [s \in 1 .. 1 |-> status]' = [[s \in 1 .. 1 |-> status] EXCEPT ![1] = status']
  OBVIOUS
<1>5. CASE status' \in {"SUCCESS", "FAILED"}
  <2>1. CNS!FinishWrite(1)
    BY <1>1, <1>2, <1>3, <1>4, <1>5 DEF CNS!FinishWrite
  <2> QED BY <1>1, <2>1 DEF CNS!Next, CNS!Engine
<1>6. CASE status = "STOPPING" /\ status' = "STOPPED"
  <2>1. CNS!FinishWrite(1)
    BY <1>1, <1>2, <1>3, <1>4, <1>6 DEF CNS!FinishWrite
  <2> QED BY <1>1, <2>1 DEF CNS!Next, CNS!Engine
<1>7. CASE status = "ABORTED" /\ status' = status
  <2>1. CNS!FinishWrite(1)
    BY <1>1, <1>2, <1>3, <1>4, <1>7 DEF CNS!FinishWrite
  <2> QED BY <1>1, <2>1 DEF CNS!Next, CNS!Engine
<1> QED BY <1>5, <1>6, <1>7

LEMMA Races ==
  ASSUME TaskOf = "running", TaskOf' \in {"running", "written"}, UNCHANGED <<train, ops>>,
         status \in {"RUNNING", "STOPPING", "ABORTED"}, status' \in {"RUNNING", status}
  PROVE  CNS!Next
<1>1. ~CNS!Locked(1) /\ 1 \in CNS!SpikeIds
  BY DEF CNS!Locked, CNS!SpikeIds
<1>2. [s \in 1 .. 1 |-> TaskOf][1] = "running" /\ [s \in 1 .. 1 |-> status][1] = status
  OBVIOUS
<1>3. [s \in 1 .. 1 |-> TaskOf]' = [[s \in 1 .. 1 |-> TaskOf] EXCEPT ![1] = TaskOf']
  OBVIOUS
<1>4. [s \in 1 .. 1 |-> status]' = [[s \in 1 .. 1 |-> status] EXCEPT ![1] = status']
  OBVIOUS
<1>5. \E st \in {"RUNNING", [s \in 1 .. 1 |-> status][1]} :
        [s \in 1 .. 1 |-> status]' = [[s \in 1 .. 1 |-> status] EXCEPT ![1] = st]
  BY <1>2, <1>4
<1>6. \E tk \in {"running", "written"} :
        [s \in 1 .. 1 |-> TaskOf]' = [[s \in 1 .. 1 |-> TaskOf] EXCEPT ![1] = tk]
  BY <1>3
<1>7. CNS!StaleWrite(1)
  BY <1>1, <1>2, <1>5, <1>6 DEF CNS!StaleWrite
<1> QED BY <1>1, <1>7 DEF CNS!Next, CNS!Intervention

(* Of the train's one spike the heads are that spike, or none.             *)
LEMMA OneHead ==
  CNS!Heads(0) = IF IsHead THEN {1} ELSE {}
<1>1. PICK row : row = [train |-> 0, neuron |-> "n", provenance |-> None, target |-> None]
  OBVIOUS
<1>2. row \in CNS!SpikeRow
  BY <1>1 DEF CNS!SpikeRow, CNS!TrainIds
<1>3. row # None /\ row.train = 0
  BY <1>1, <1>2, SpikeAssumption
<1>4. CNS!SpikeIds = {1}
  BY DEF CNS!SpikeIds
<1>5. CNS!SpikesOf(0) = {1}
  BY <1>1, <1>3, <1>4 DEF CNS!SpikesOf, CNS!Born
<1> QED BY <1>5 DEF CNS!Heads, IsHead

LEMMA Terminates ==
  ASSUME ops \in Nat, train \in {"RUNNING", "STOPPING", "FAILED"}, Terminate, TaskOf' = TaskOf
  PROVE  CNS!Next
<1>1. ~CNS!WakesParent(0, "FAILED") /\ 0 \in CNS!TrainIds
  BY DEF CNS!WakesParent, CNS!TrainIds
<1>2. CNS!Intervene("terminate")
  BY DEF CNS!Intervene, Terminate
<1>3. [t \in 0 .. 1 |-> IF t = 0 THEN train ELSE None][0] = train
  OBVIOUS
<1>4. CNS!Exists(0)
  BY <1>3, KindsAssumption DEF CNS!Exists, Status
<1>5. [t \in 0 .. 1 |-> IF t = 0 THEN train ELSE None]'
        = [[t \in 0 .. 1 |-> IF t = 0 THEN train ELSE None] EXCEPT ![0] = "FAILED"]
  BY DEF Terminate
<1>6. CNS!SpikeIds = 1 .. 1
  BY DEF CNS!SpikeIds
<1>7. [s \in 1 .. 1 |-> status]'
        = [s \in CNS!SpikeIds |-> IF s \in CNS!Heads(0) THEN "ABORTED"
             ELSE IF CNS!WakesParent(0, "FAILED") /\ s = 0 THEN "FAILED"
             ELSE [r \in 1 .. 1 |-> status][s]]
  BY <1>1, <1>6, OneHead DEF Terminate
<1>8. CNS!Terminate(0)
  BY <1>1, <1>2, <1>3, <1>4, <1>5, <1>7 DEF CNS!Terminate, Terminate
<1> QED BY <1>1, <1>8 DEF CNS!Next, CNS!Intervention

LEMMA StopsGracefully ==
  ASSUME train \in {"RUNNING", "STOPPING", "FAILED"}, StopGracefully, TaskOf' = TaskOf
  PROVE  CNS!Next
<1>1. 0 \in CNS!TrainIds
  BY DEF CNS!TrainIds
<1>2. CNS!Intervene("stop")
  BY DEF CNS!Intervene, StopGracefully
<1>3. CNS!Exists(0)
  BY KindsAssumption DEF CNS!Exists, Status
<1>4. [t \in 0 .. 1 |-> IF t = 0 THEN train ELSE None]'
        = [[t \in 0 .. 1 |-> IF t = 0 THEN train ELSE None] EXCEPT ![0] = "STOPPING"]
  BY DEF StopGracefully
<1>5. CNS!SpikeIds = 1 .. 1 /\ CNS!Heads(0) = {1}
  BY OneHead DEF CNS!SpikeIds, StopGracefully
<1>6. [s \in 1 .. 1 |-> status]'
        = [s \in CNS!SpikeIds |-> IF s \in CNS!Heads(0) THEN "STOPPING"
             ELSE [r \in 1 .. 1 |-> status][s]]
  BY <1>5 DEF StopGracefully
<1>7. CNS!StopGracefully(0)
  BY <1>1, <1>2, <1>3, <1>4, <1>5, <1>6 DEF CNS!StopGracefully, StopGracefully
<1> QED BY <1>1, <1>7 DEF CNS!Next, CNS!Intervention

-----------------------------------------------------------------------------
(* The thread. *)

(* The coroutine hands the thread a call and waits for it.                 *)
LEMMA AskFacts ==
  ASSUME TypeOK, ThreadHolds, at \notin {"waiting", "end"}, read' = read,
         NEW what \in {"save", "refresh", "handle", "other"}, NEW place \in Places \ {"launch"},
         Ask(what, place), what = "save" => place \in {"route", "updated", "halt", "end"},
         place = "route" => Launching'
  PROVE  /\ thread' \in Seq(Call) /\ ThreadHolds' /\ thread' # <<>>
         /\ thread # <<>> => Head(thread') = Head(thread)
         /\ \A p \in Places : Toward(p)' => p = place
<1>1. PICK c : c = [does |-> what, by |-> "task", next |-> place]
  OBVIOUS
<1>2. c \in Call /\ c.does = what /\ c.by = "task" /\ c.next = place
  BY <1>1 DEF Call
<1>3. /\ thread \in Seq(Call) /\ thread' = Append(thread, c) /\ at' = "waiting"
      /\ Len(thread) \in Nat /\ DOMAIN thread = 1 .. Len(thread)
  BY <1>1 DEF Ask, TypeOK
<1> PICK n \in Nat : n = Len(thread) + 1
  BY <1>3
<1>4. /\ thread' \in Seq(Call) /\ DOMAIN thread' = 1 .. n
      /\ thread'[n] = c /\ \A i \in DOMAIN thread : thread'[i] = thread[i]
  BY <1>2, <1>3
<1>5. n \in DOMAIN thread' /\ \A i \in DOMAIN thread' : i \in DOMAIN thread \/ i = n
  BY <1>3, <1>4
<1>6. \A i \in DOMAIN thread : ~Mine(i) /\ ~(Mine(i)')
  <2>1. \A i \in DOMAIN thread : ~Mine(i)
    BY DEF ThreadHolds
  <2> QED BY <1>4, <2>1 DEF Mine
<1>7. Mine(n)' /\ \A i \in DOMAIN thread' : Mine(i)' => i = n
  BY <1>2, <1>4, <1>5, <1>6 DEF Mine
<1>8. thread # <<>> => thread'[1] = thread[1]
  BY <1>3, <1>4
<1>9. thread' # <<>> /\ (thread # <<>> => Head(thread') = Head(thread))
  BY <1>3, <1>4, <1>8
<1>10. ThreadHolds'
  <2>1. \A i \in DOMAIN thread' :
          /\ thread'[i].does = "save" =>
               Mine(i)' /\ thread'[i].next \in {"route", "updated", "halt", "end"}
          /\ Mine(i)' => thread'[i].next \in Places \ {"launch"} /\ (thread'[i].next = "route" => Launching')
          /\ ~(Mine(i)') => thread'[i].next \in Looks
    BY <1>2, <1>4, <1>5, <1>6, <1>7 DEF ThreadHolds
  <2>2. read' # None => thread' # <<>> /\ Head(thread').does = "refresh"
    BY <1>9 DEF ThreadHolds
  <2>3. \A i, j \in DOMAIN thread' : Mine(i)' /\ Mine(j)' => i = j
    BY <1>7
  <2> QED BY <1>3, <2>1, <2>2, <2>3 DEF ThreadHolds
<1>11. \A p \in Places : Toward(p)' => p = place
  BY <1>2, <1>3, <1>4, <1>7 DEF Toward, Places
<1> QED BY <1>4, <1>9, <1>10, <1>11

(* The coroutine goes on without the thread.                               *)
LEMMA GotoFacts ==
  ASSUME TypeOK, ThreadHolds, at \notin {"waiting", "end"}, read' = read,
         NEW place \in Places, Goto(place)
  PROVE  /\ thread' \in Seq(Call) /\ ThreadHolds'
         /\ \A i \in DOMAIN thread' : ~(Mine(i)')
         /\ \A p \in Places : Toward(p)' => p = place
<1>1. thread' = thread /\ at' = place /\ thread \in Seq(Call)
  BY DEF Goto, TypeOK
<1>2. \A i \in DOMAIN thread : ~Mine(i) /\ (Mine(i)' <=> Mine(i))
  BY <1>1 DEF ThreadHolds, Mine
<1> QED BY <1>1, <1>2 DEF ThreadHolds, Toward

(* A call is done: whoever asked for it goes on, if it still waits.        *)
LEMMA TakeFacts ==
  ASSUME TypeOK, ThreadHolds, thread # <<>>, thread' = Tail(thread), Resume(Head(thread)),
         read' = None, Launching => Mine(1)
  PROVE  /\ thread' \in Seq(Call) /\ ThreadHolds'
         /\ at' \in Places \cup {"waiting"} /\ monitor' \in Looks \cup {"waiting"}
         /\ at' = at \/ (Mine(1) /\ at = "waiting" /\ at' = thread[1].next)
         /\ \A p \in Places : Toward(p)' => Toward(p)
         /\ Mine(1) => \A i \in DOMAIN thread' : ~(Mine(i)')
         /\ ~Mine(1) => at' = at /\ \A i \in DOMAIN thread : Mine(i) => Mine(i - 1)'
<1>1. /\ thread \in Seq(Call) /\ Len(thread) \in Nat /\ 1 \in DOMAIN thread
      /\ DOMAIN thread = 1 .. Len(thread) /\ Head(thread) = thread[1]
  BY DEF TypeOK
<1>2. /\ thread' \in Seq(Call) /\ DOMAIN thread' = 1 .. (Len(thread) - 1)
      /\ \A i \in DOMAIN thread' : i + 1 \in DOMAIN thread /\ thread'[i] = thread[i + 1]
  BY <1>1
<1>3. \A i \in DOMAIN thread' : Mine(i)' => Mine(i + 1)
  BY <1>2 DEF Mine
<1>4. \A i, j \in DOMAIN thread : Mine(i) /\ Mine(j) => i = j
  BY DEF ThreadHolds
<1>5. Mine(1) => \A i \in DOMAIN thread' : ~(Mine(i)')
  <2> SUFFICES ASSUME Mine(1), NEW i \in DOMAIN thread', Mine(i)' PROVE FALSE
    OBVIOUS
  <2>1. i + 1 = 1 /\ i \in 1 .. (Len(thread) - 1)
    BY <1>1, <1>2, <1>3, <1>4
  <2> QED BY <2>1
<1>6. Mine(1) <=> thread[1].by = "task"
  BY <1>1 DEF Mine
<1>7. /\ at' = at \/ (Mine(1) /\ at = "waiting" /\ at' = thread[1].next)
      /\ ~Mine(1) => at' = at
  BY <1>1, <1>6 DEF Resume
<1>8. at' \in Places \cup {"waiting"} /\ monitor' \in Looks \cup {"waiting"}
  BY <1>1, <1>6, <1>7 DEF Resume, ThreadHolds, TypeOK
<1>9. ~Mine(1) => \A i \in DOMAIN thread : Mine(i) => Mine(i - 1)'
  <2> SUFFICES ASSUME ~Mine(1), NEW i \in DOMAIN thread, Mine(i) PROVE Mine(i - 1)'
    OBVIOUS
  <2>1. i # 1 /\ i \in 1 .. Len(thread)
    BY <1>1
  <2>2. i - 1 \in DOMAIN thread' /\ thread'[i - 1] = thread[i]
    BY <1>1, <1>2, <2>1
  <2> QED BY <2>2 DEF Mine
<1>10. ASSUME NEW p \in Places, Toward(p)' PROVE Toward(p)
  <2>1. CASE at' = p
    BY <1>1, <1>7, <2>1 DEF Toward
  <2>2. CASE \E i \in DOMAIN thread' : Mine(i)' /\ thread'[i].next = p
    BY <1>2, <1>3, <2>2 DEF Toward
  <2> QED BY <1>10, <2>1, <2>2 DEF Toward
<1>11. ThreadHolds'
  <2>1. \A i, j \in DOMAIN thread' : Mine(i)' /\ Mine(j)' => i = j
    <3> SUFFICES ASSUME NEW i \in DOMAIN thread', NEW j \in DOMAIN thread', Mine(i)', Mine(j)'
                 PROVE  i = j
      OBVIOUS
    <3>1. i + 1 = j + 1 /\ i \in Nat /\ j \in Nat
      BY <1>1, <1>2, <1>3, <1>4
    <3> QED BY <3>1
  <2>2. at' \notin {"waiting", "end"} => \A i \in DOMAIN thread' : ~(Mine(i)')
    <3>1. CASE Mine(1)
      BY <1>5, <3>1
    <3>2. CASE ~Mine(1)
      BY <1>2, <1>3, <1>7, <3>2 DEF ThreadHolds
    <3> QED BY <3>1, <3>2
  <2>3. ASSUME NEW i \in DOMAIN thread'
        PROVE  /\ thread'[i].does = "save" =>
                    Mine(i)' /\ thread'[i].next \in {"route", "updated", "halt", "end"}
               /\ Mine(i)' => thread'[i].next \in Places \ {"launch"} /\ thread'[i].next # "route"
               /\ ~(Mine(i)') => thread'[i].next \in Looks
    <3>1. i + 1 \in DOMAIN thread /\ thread'[i] = thread[i + 1] /\ (Mine(i)' <=> Mine(i + 1))
      BY <1>2 DEF Mine
    <3>2. Mine(i + 1) => thread[i + 1].next # "route"
      BY <1>5, <3>1 DEF ThreadHolds
    <3> QED BY <3>1, <3>2 DEF ThreadHolds
  <2> QED BY <2>1, <2>2, <2>3 DEF ThreadHolds
<1> QED BY <1>2, <1>5, <1>7, <1>8, <1>9, <1>10, <1>11

-----------------------------------------------------------------------------
(* Nothing is to be written any more, or nothing that would change it.     *)
Over == status \in Final \/ (at = "end" /\ \A i \in DOMAIN thread : ~Mine(i))

LEMMA TaskCases ==
  /\ at = "launch" \/ Launching => TaskOf = "queued"
  /\ at # "launch" /\ ~Launching => TaskOf = IF Over THEN "written" ELSE "running"
  /\ (at = "launch" \/ Launching)' => TaskOf' = "queued"
  /\ (at # "launch" /\ ~Launching)' => TaskOf' = IF Over' THEN "written" ELSE "running"
BY DEF TaskOf, Over, Launching, Mine, Final

(* A step that leaves the status alone is none, or ends the task.          *)
LEMMA QuietStep ==
  ASSUME TypeOK, at # "launch", ~Launching, (at # "launch" /\ ~Launching)', status # "PENDING",
         UNCHANGED <<status, train, ops>>, Over => Over'
  PROVE  [CNS!Next]_(CNS!vars)
<1>1. CASE Over <=> Over'
  <2>1. TaskOf' = TaskOf
    BY <1>1, TaskCases
  <2> QED BY <2>1, Stays
<1>2. CASE ~Over /\ Over'
  <2>1. TaskOf = "running" /\ TaskOf' = "written"
    BY <1>2, TaskCases
  <2>2. status \in {"RUNNING", "STOPPING", "ABORTED"}
    BY <1>2 DEF TypeOK, Over, Status, Final
  <2> QED BY <2>1, <2>2, Races
<1> QED BY <1>1, <1>2

(* A step of the executing coroutine, but the first.                       *)
LEMMA TaskStep ==
  ASSUME IInv, at \notin {"launch", "waiting", "end"},
         UNCHANGED <<kind, status, read, stop, train, ops>>, monitor' \in Looks \cup {"waiting"},
         NEW place \in Places \ {"launch", "route"},
         \/ Goto(place)
         \/ \E what \in {"save", "refresh", "handle", "other"} :
              Ask(what, place) /\ (what = "save" => place \in {"updated", "halt", "end"}),
         own' \in Status, memory' \in Status,
         \/ memory' = memory
         \/ memory' \in {"SUCCESS", "FAILED"}
         \/ memory' = "STOPPED" /\ status = "STOPPING",
         status \in Final => memory' = status /\ place \in {"updated", "halt", "end"},
         place = "updated" => own' \in Final /\ (memory' \in Final => memory' = own'),
         place = "draining" => status = "STOPPING",
         place = "save" => own' \in Final /\ (own' = "STOPPED" => status = "STOPPING")
  PROVE  IInv' /\ [CNS!Next]_(CNS!vars)
<1>1. TypeOK /\ ThreadHolds /\ LaunchHolds /\ MemoryHolds /\ ~Launching
  BY DEF IInv, Launching
<1>2. /\ thread' \in Seq(Call) /\ ThreadHolds' /\ at' \in {"waiting", place}
      /\ \A p \in Places : Toward(p)' => p = place
  BY <1>1, AskFacts, GotoFacts DEF Ask, Goto
<1>3. (at # "launch" /\ ~Launching)' /\ own' # "CREATED"
  BY <1>2 DEF Launching, Places, Status
<1>4. TypeOK'
  BY <1>1, <1>2 DEF TypeOK
<1>5. LaunchHolds'
  BY <1>3 DEF LaunchHolds
<1>6. MemoryHolds'
  <2>1. status' # "PENDING" /\ WasRead(memory)'
    BY <1>1 DEF MemoryHolds, WasRead, Final
  <2>2. read' # None => WasRead(read)' /\ (read' \in Final => status' = read')
    BY <1>1 DEF MemoryHolds, WasRead
  <2>3. memory' = "STOPPED" => status' \in {"STOPPING", "STOPPED"}
    BY <1>1 DEF MemoryHolds
  <2>4. status' \in Final => /\ memory' = status'
                             /\ \A p \in Places : Toward(p)' => p \in {"updated", "halt", "end"}
    BY <1>2
  <2>5. Toward("updated")' => own' \in Final /\ (memory' \in Final => memory' = own')
    BY <1>2 DEF Places
  <2>6. Toward("draining")' => status' = "STOPPING"
    BY <1>2 DEF Places
  <2>7. Toward("save")' => own' \in Final /\ (own' = "STOPPED" => status' = "STOPPING")
    BY <1>2 DEF Places
  <2> QED BY <2>1, <2>2, <2>3, <2>4, <2>5, <2>6, <2>7 DEF MemoryHolds
<1>7. Over => Over'
  BY DEF Over
<1>8. [CNS!Next]_(CNS!vars)
  BY <1>1, <1>3, <1>7, QuietStep DEF MemoryHolds
<1> QED BY <1>4, <1>5, <1>6, <1>2, <1>8 DEF IInv

(* Where the coroutine stands tells what it has done.                      *)
LEMMA PlaceFacts ==
  ASSUME IInv, at \notin {"launch", "waiting", "end"}
  PROVE  /\ TypeOK /\ MemoryHolds /\ own \in Status \cup {"CREATED"} /\ memory \in Status
         /\ monitor \in Looks \cup {"waiting"} /\ (at # "route" => own \in Status)
         /\ status \in Final => memory = status /\ at \in {"updated", "halt"}
         /\ at = "updated" => own \in Final /\ (memory \in Final => memory = own)
         /\ at = "draining" => status = "STOPPING"
         /\ at = "save" => own \in Final /\ (own = "STOPPED" => status = "STOPPING")
         /\ memory = "STOPPING" => status = "STOPPING"
<1>1. TypeOK /\ LaunchHolds /\ MemoryHolds
  BY DEF IInv, Launching
<1>2. at \in Places /\ Toward(at)
  BY <1>1 DEF TypeOK, Toward
<1> QED BY <1>1, <1>2 DEF TypeOK, LaunchHolds, MemoryHolds, WasRead

LEMMA RouteStep ==
  ASSUME IInv, Route \/ FatalError
  PROVE  IInv' /\ [CNS!Next]_(CNS!vars)
<1>1. at = "route" /\ own' = "RUNNING" /\ UNCHANGED <<kind, status, memory, read, stop, train, ops>>
      /\ monitor' \in {monitor, "done"}
  BY DEF Route, FatalError
<1>2. /\ TypeOK /\ memory \in Status /\ status \notin Final /\ own' \in Status
      /\ monitor' \in Looks \cup {"waiting"}
  BY <1>1, PlaceFacts DEF Status, Looks
<1>3. \/ Ask("handle", "handled") \/ Goto("handler") \/ Ask("refresh", "routed")
      \/ Ask("refresh", "fatal")
  BY DEF Route, FatalError
<1>4. CASE Ask("handle", "handled")
  BY <1>1, <1>2, <1>4, TaskStep DEF Places
<1>5. CASE Goto("handler")
  BY <1>1, <1>2, <1>5, TaskStep DEF Places
<1>6. CASE Ask("refresh", "routed")
  BY <1>1, <1>2, <1>6, TaskStep DEF Places
<1>7. CASE Ask("refresh", "fatal")
  BY <1>1, <1>2, <1>7, TaskStep DEF Places
<1> QED BY <1>3, <1>4, <1>5, <1>6, <1>7

(* A step to another place, with all else as it was.                       *)
LEMMA MoveStep ==
  ASSUME IInv, at \notin {"launch", "waiting", "end", "route"},
         UNCHANGED <<kind, status, memory, own, monitor, read, stop, train, ops>>,
         NEW place \in Places \ {"launch", "route", "updated", "draining", "save"},
         Goto(place) \/ \E what \in {"refresh", "handle", "other"} : Ask(what, place),
         status \in Final => place = "end"
  PROVE  IInv' /\ [CNS!Next]_(CNS!vars)
<1>1. /\ TypeOK /\ own' \in Status /\ memory' \in Status /\ monitor' \in Looks \cup {"waiting"}
      /\ status \in Final => memory = status
  BY PlaceFacts
<1> QED BY <1>1, TaskStep

(* A step that has the thread write a status.                              *)
LEMMA WriteStep ==
  ASSUME IInv, at \notin {"launch", "waiting", "end", "route"},
         UNCHANGED <<kind, status, monitor, read, stop, train, ops>>,
         NEW st \in Final, NEW place \in {"updated", "halt", "end"}, Update(st, place),
         own' \in Status, place = "updated" => own' = st,
         st = "STOPPED" => status = "STOPPING", status \in Final => status = st
  PROVE  IInv' /\ [CNS!Next]_(CNS!vars)
<1>1. TypeOK /\ monitor' \in Looks \cup {"waiting"}
  BY PlaceFacts
<1>2. memory' = st /\ memory' \in Status /\ Ask("save", place) /\ own' \in Status
  BY DEF Update, Final, Status
<1>3. place \in Places \ {"launch", "route", "draining", "save"}
  BY DEF Places
<1> QED BY <1>1, <1>2, <1>3, TaskStep DEF Final

LEMMA NativeSteps ==
  ASSUME IInv, AsyncHandler \/ Handled \/ Result \/ HandleFatalError
  PROVE  IInv' /\ [CNS!Next]_(CNS!vars)
<1>1. /\ at \in {"handler", "handled", "result", "silent", "fatal"}
      /\ UNCHANGED <<kind, status, monitor, read, stop, train, ops>>
  BY DEF AsyncHandler, Handled, Result, HandleFatalError
<1>2. own \in Status /\ status \notin Final
  BY <1>1, PlaceFacts
<1>3. CASE AsyncHandler
  BY <1>1, <1>2, <1>3, MoveStep DEF AsyncHandler, Places
<1>4. CASE Handled
  <2>1. CASE Update("FAILED", "halt")
    BY <1>1, <1>2, <1>4, <2>1, WriteStep DEF Handled, Final
  <2>2. CASE Ask("refresh", "result") /\ UNCHANGED memory
    BY <1>1, <1>2, <1>4, <2>2, MoveStep DEF Handled, Places
  <2>3. CASE Goto("silent") /\ UNCHANGED memory
    BY <1>1, <1>2, <1>4, <2>3, MoveStep DEF Handled, Places
  <2> QED BY <1>4, <2>1, <2>2, <2>3 DEF Handled
<1>5. CASE Result
  <2>1. PICK st \in {"SUCCESS", "FAILED"} : own' = st /\ Update(st, "updated")
    BY <1>5 DEF Result
  <2> QED BY <1>1, <1>2, <2>1, WriteStep DEF Final, Status
<1>6. CASE HandleFatalError
  BY <1>1, <1>2, <1>6, WriteStep DEF HandleFatalError, Final
<1> QED BY <1>3, <1>4, <1>5, <1>6

LEMMA PipelineSteps ==
  ASSUME IInv, \/ Flushed \/ Stream \/ ProcessExits \/ StreamError \/ FlushSeesAbort \/ StreamFails
               \/ Outcome \/ Close \/ SaveOutcome
  PROVE  IInv' /\ [CNS!Next]_(CNS!vars)
<1>1. /\ at \in {"routed", "flushed", "streaming", "failing", "outcome", "draining", "closing", "save"}
      /\ UNCHANGED <<kind, status, monitor, read, stop, train, ops>>
  BY DEF Flushed, Stream, ProcessExits, StreamError, FlushSeesAbort, StreamFails, Outcome, Close,
         SaveOutcome
<1>2. /\ own \in Status /\ memory \in Status /\ monitor \in Looks \cup {"waiting"}
      /\ status \notin Final /\ TypeOK
  BY <1>1, PlaceFacts
<1>3. CASE Flushed
  BY <1>1, <1>2, <1>3, MoveStep DEF Flushed, Places
<1>4. CASE Stream
  BY <1>1, <1>2, <1>4, MoveStep DEF Stream, Places
<1>5. CASE ProcessExits
  BY <1>1, <1>2, <1>5, MoveStep DEF ProcessExits, Places
<1>6. CASE StreamError
  BY <1>1, <1>2, <1>6, MoveStep DEF StreamError, Places
<1>7. CASE FlushSeesAbort
  BY <1>1, <1>2, <1>7, MoveStep DEF FlushSeesAbort, Places
<1>8. CASE StreamFails
  BY <1>1, <1>2, <1>8, WriteStep DEF StreamFails, Final, Status
<1>9. CASE Outcome
  <2>1. CASE memory = "STOPPING"
    BY <1>1, <1>2, <1>9, <2>1, PlaceFacts, TaskStep DEF Outcome, Places
  <2>2. CASE memory # "STOPPING"
    BY <1>1, <1>2, <1>9, <2>2, MoveStep DEF Outcome, Places
  <2> QED BY <2>1, <2>2
<1>10. CASE Close
  <2>1. /\ Ask("other", "save") /\ UNCHANGED memory
        /\ own' \in IF at = "draining" THEN {"STOPPED"} ELSE {"SUCCESS", "FAILED"}
    BY <1>10 DEF Close
  <2>2. own' \in Final /\ own' \in Status /\ (own' = "STOPPED" => status = "STOPPING")
    BY <1>1, <2>1, PlaceFacts DEF Final, Status
  <2> QED BY <1>1, <1>2, <2>1, <2>2, TaskStep DEF Places
<1>11. CASE SaveOutcome
  <2>1. own \in Final /\ (own = "STOPPED" => status = "STOPPING") /\ at = "save"
    BY <1>11, PlaceFacts DEF SaveOutcome
  <2> QED BY <1>1, <1>2, <1>11, <2>1, WriteStep DEF SaveOutcome
<1> QED BY <1>3, <1>4, <1>5, <1>6, <1>7, <1>8, <1>9, <1>10, <1>11

LEMMA EndingSteps ==
  ASSUME IInv, LogSeesAbort \/ Executed \/ Halt
  PROVE  IInv' /\ [CNS!Next]_(CNS!vars)
<1>1. /\ at \in {"result", "routed", "failing", "draining", "closing", "updated", "halt"}
      /\ UNCHANGED <<kind, status, monitor, read, stop, train, ops>>
  BY DEF LogSeesAbort, Executed, Halt
<1>2. /\ own \in Status /\ memory \in Status /\ monitor \in Looks \cup {"waiting"} /\ TypeOK
      /\ status \in Final => memory = status
  BY <1>1, PlaceFacts
<1>3. CASE LogSeesAbort
  BY <1>1, <1>2, <1>3, MoveStep DEF LogSeesAbort, Places
<1>4. CASE Executed
  <2>1. CASE own \in Halting /\ Goto("end") /\ UNCHANGED <<memory, own>>
    BY <1>1, <1>2, <2>1, MoveStep DEF Places
  <2>2. CASE own \notin Halting /\ own' = "SUCCESS" /\ Update("SUCCESS", "end")
    <3>1. at = "updated" /\ own = "SUCCESS" /\ (status \in Final => status = "SUCCESS")
      BY <1>4, <2>2, PlaceFacts DEF Executed, Halting, Final
    <3> QED BY <1>1, <1>2, <2>2, <3>1, WriteStep DEF Final, Status
  <2> QED BY <1>4, <2>1, <2>2 DEF Executed
<1>5. CASE Halt
  BY <1>1, <1>2, <1>5, TaskStep DEF Halt, Places, Status
<1> QED BY <1>3, <1>4, <1>5

LEMMA LaunchStep ==
  ASSUME IInv, Launch
  PROVE  IInv' /\ [CNS!Next]_(CNS!vars)
<1>1. /\ at = "launch" /\ memory' = "RUNNING" /\ Ask("save", "route")
      /\ UNCHANGED <<kind, status, own, monitor, read, stop, train, ops>>
  BY DEF Launch, Update
<1>2. TypeOK /\ ThreadHolds /\ LaunchHolds /\ own = "CREATED" /\ thread = <<>> /\ monitor = "sleep"
  BY <1>1 DEF IInv, LaunchHolds
<1>3. PICK c : c = [does |-> "save", by |-> "task", next |-> "route"]
  OBVIOUS
<1>4. at' = "waiting" /\ thread' = <<c>> /\ Launching'
  BY <1>1, <1>2, <1>3 DEF Ask, Launching
<1>5. thread' \in Seq(Call) /\ ThreadHolds'
  BY <1>1, <1>2, <1>4, AskFacts DEF Places
<1>6. TypeOK'
  BY <1>1, <1>2, <1>4, <1>5 DEF TypeOK, Status
<1>7. thread' # <<>> /\ Head(thread') = c
  BY <1>4
<1>8. LaunchHolds'
  BY <1>1, <1>2, <1>3, <1>4, <1>7 DEF LaunchHolds
<1>9. TaskOf' = TaskOf
  BY <1>1, <1>4, TaskCases
<1> QED BY <1>1, <1>4, <1>5, <1>6, <1>8, <1>9, Stays DEF IInv

-----------------------------------------------------------------------------
(* The monitor. *)

(* What was read stays read while nobody writes or reads.                  *)
LEMMA MemoryFrame ==
  ASSUME MemoryHolds, UNCHANGED <<status, memory, read, own>>,
         \A p \in Places : Toward(p)' => Toward(p) \/ p = "end"
  PROVE  MemoryHolds'
<1>1. /\ Toward("updated")' => Toward("updated")
      /\ Toward("draining")' => Toward("draining")
      /\ Toward("save")' => Toward("save")
  BY DEF Places
<1>2. /\ status' # "PENDING" /\ WasRead(memory)'
      /\ read' # None => WasRead(read)' /\ (read' \in Final => status' = read')
      /\ memory' = "STOPPED" => status' \in {"STOPPING", "STOPPED"}
  BY DEF MemoryHolds, WasRead
<1>3. status' \in Final => /\ memory' = status'
                           /\ \A p \in Places : Toward(p)' => p \in {"updated", "halt", "end"}
  BY DEF MemoryHolds
<1> QED BY <1>1, <1>2, <1>3 DEF MemoryHolds

LEMMA AskMonitorFacts ==
  ASSUME TypeOK, ThreadHolds, NEW place \in Looks, AskMonitor(place),
         UNCHANGED <<at, own, read>>
  PROVE  /\ thread' \in Seq(Call) /\ ThreadHolds' /\ thread' # <<>> /\ monitor' = "waiting"
         /\ thread # <<>> => Head(thread') = Head(thread)
         /\ \A i \in DOMAIN thread' : Mine(i)' => Mine(i)
         /\ \A i \in DOMAIN thread : Mine(i) => Mine(i)'
         /\ \A p \in Places : Toward(p)' => Toward(p)
<1>1. PICK c : c = [does |-> "refresh", by |-> "monitor", next |-> place]
  OBVIOUS
<1>2. c \in Call /\ c.does = "refresh" /\ c.by = "monitor" /\ c.next = place
  BY <1>1 DEF Call
<1>3. /\ thread \in Seq(Call) /\ thread' = Append(thread, c)
      /\ Len(thread) \in Nat /\ DOMAIN thread = 1 .. Len(thread)
  BY <1>1 DEF AskMonitor, TypeOK
<1> PICK n \in Nat : n = Len(thread) + 1
  BY <1>3
<1>4. /\ thread' \in Seq(Call) /\ DOMAIN thread' = 1 .. n
      /\ thread'[n] = c /\ \A i \in DOMAIN thread : thread'[i] = thread[i]
  BY <1>2, <1>3
<1>5. n \in DOMAIN thread' /\ \A i \in DOMAIN thread' : i \in DOMAIN thread \/ i = n
  BY <1>3, <1>4
<1>6. DOMAIN thread \subseteq DOMAIN thread'
  BY <1>3, <1>4
<1>7. ~(Mine(n)') /\ \A i \in DOMAIN thread' : Mine(i)' => Mine(i)
  BY <1>2, <1>4, <1>5 DEF Mine
<1>8. \A i \in DOMAIN thread : Mine(i) => Mine(i)'
  BY <1>4, <1>6 DEF Mine
<1>9. thread # <<>> => thread'[1] = thread[1]
  BY <1>3, <1>4
<1>10. thread' # <<>> /\ (thread # <<>> => Head(thread') = Head(thread))
  BY <1>3, <1>4, <1>9
<1>11. \A p \in Places : Toward(p)' => Toward(p)
  <2> SUFFICES ASSUME NEW p \in Places, Toward(p)' PROVE Toward(p)
    OBVIOUS
  <2>1. CASE \E i \in DOMAIN thread' : Mine(i)' /\ thread'[i].next = p
    <3>1. PICK i \in DOMAIN thread' : Mine(i)' /\ thread'[i].next = p
      BY <2>1
    <3>2. i \in DOMAIN thread /\ Mine(i) /\ thread[i].next = p
      BY <1>4, <1>5, <1>7, <3>1
    <3> QED BY <3>2 DEF Toward
  <2> QED BY <2>1 DEF Toward
<1>12. Launching' = Launching
  BY DEF Launching
<1>13. ThreadHolds'
  <2>1. \A i, j \in DOMAIN thread' : Mine(i)' /\ Mine(j)' => i = j
    BY <1>5, <1>7 DEF ThreadHolds
  <2>2. at' \notin {"waiting", "end"} => \A i \in DOMAIN thread' : ~(Mine(i)')
    BY <1>5, <1>7 DEF ThreadHolds
  <2>3. ASSUME NEW i \in DOMAIN thread'
        PROVE  /\ thread'[i].does = "save" =>
                    Mine(i)' /\ thread'[i].next \in {"route", "updated", "halt", "end"}
               /\ Mine(i)' => thread'[i].next \in Places \ {"launch"} /\ (thread'[i].next = "route" => Launching')
               /\ ~(Mine(i)') => thread'[i].next \in Looks
    <3>1. CASE i = n
      BY <1>2, <1>4, <1>7, <3>1
    <3>2. CASE i \in DOMAIN thread
      BY <1>4, <1>7, <1>8, <1>12, <3>2 DEF ThreadHolds
    <3> QED BY <1>5, <3>1, <3>2
  <2>4. read' # None => thread' # <<>> /\ Head(thread').does = "refresh"
    BY <1>10 DEF ThreadHolds
  <2> QED BY <2>1, <2>2, <2>3, <2>4 DEF ThreadHolds
<1> QED BY <1>4, <1>7, <1>8, <1>10, <1>11, <1>13 DEF AskMonitor

LEMMA MonitorStep ==
  ASSUME IInv, MonitorWakes \/ MonitorLooks
  PROVE  IInv' /\ [CNS!Next]_(CNS!vars)
<1>1. /\ UNCHANGED <<kind, status, memory, own, at, read, train, ops>> /\ stop' \in {stop, memory = "STOPPING", TRUE}
      /\ at # "end" /\ monitor \in {"sleep", "look"} /\ (at = "launch" => monitor = "look")
  BY DEF MonitorWakes, MonitorLooks
<1>2. TypeOK /\ ThreadHolds /\ LaunchHolds /\ at # "launch" /\ (Launching => monitor # "look")
  BY <1>1 DEF IInv, LaunchHolds
<1>3. /\ thread' \in Seq(Call) /\ ThreadHolds' /\ monitor' \in {"waiting", "sleep"}
      /\ thread # <<>> => thread' # <<>> /\ Head(thread') = Head(thread)
      /\ \A p \in Places : Toward(p)' => Toward(p)
  <2>1. CASE \E place \in {"look", "raise"} : AskMonitor(place)
    BY <1>1, <1>2, <2>1, AskMonitorFacts DEF Looks
  <2>2. CASE UNCHANGED thread /\ monitor' = "sleep"
    BY <1>1, <1>2, <2>2 DEF ThreadHolds, Toward, Mine, Launching, TypeOK
  <2> QED BY <2>1, <2>2 DEF MonitorWakes, MonitorLooks
<1>4. (Launching' <=> Launching) /\ at' # "launch"
  BY <1>1, <1>2 DEF Launching
<1>5. stop' \in BOOLEAN /\ TypeOK'
  BY <1>1, <1>2, <1>3 DEF TypeOK, Looks, MonitorWakes, MonitorLooks
<1>6. LaunchHolds'
  BY <1>1, <1>2, <1>3, <1>4 DEF LaunchHolds
<1>7. ~Launching => MemoryHolds'
  BY <1>1, <1>2, <1>3, MemoryFrame DEF IInv
<1>8. CASE Launching
  <2>1. TaskOf' = TaskOf
    BY <1>4, <1>8, TaskCases
  <2> QED BY <1>1, <1>3, <1>4, <1>5, <1>6, <1>8, <2>1, Stays DEF IInv
<1>9. CASE ~Launching
  <2>1. Over => Over'
    BY <1>1 DEF Over
  <2>2. status # "PENDING"
    BY <1>2, <1>9 DEF IInv, MemoryHolds
  <2>3. [CNS!Next]_(CNS!vars)
    BY <1>1, <1>2, <1>4, <1>9, <2>1, <2>2, QuietStep
  <2> QED BY <1>3, <1>5, <1>6, <1>7, <1>9, <2>3 DEF IInv
<1> QED BY <1>8, <1>9

LEMMA RaiseStep ==
  ASSUME IInv, MonitorRaises
  PROVE  IInv' /\ [CNS!Next]_(CNS!vars)
<1>1. /\ UNCHANGED <<kind, status, memory, own, read, stop, train, ops>> /\ monitor' = "done"
      /\ at # "end" /\ monitor = "raise" /\ at' = "end"
  BY DEF MonitorRaises
<1>2. TypeOK /\ ThreadHolds /\ LaunchHolds /\ at # "launch" /\ ~Launching /\ MemoryHolds
  BY <1>1 DEF IInv, LaunchHolds
<1>3. thread' = thread \/ (thread' = <<>> /\ read = None)
  BY DEF MonitorRaises
<1>4. ~(Launching') /\ at' # "launch"
  BY <1>1 DEF Launching
<1>5. thread' \in Seq(Call) /\ ThreadHolds' /\ \A p \in Places : Toward(p)' => Toward(p) \/ p = "end"
  <2>1. CASE thread' = thread
    BY <1>1, <1>2, <2>1 DEF ThreadHolds, Toward, Mine, TypeOK
  <2>2. CASE thread' = <<>> /\ read = None
    BY <1>1, <2>2 DEF ThreadHolds, Toward, Mine
  <2> QED BY <1>3, <2>1, <2>2
<1>6. TypeOK' /\ LaunchHolds'
  BY <1>1, <1>2, <1>4, <1>5 DEF TypeOK, LaunchHolds, Places, Looks
<1>7. MemoryHolds'
  BY <1>1, <1>2, <1>5, MemoryFrame
<1>8. Over => Over'
  BY <1>1 DEF Over
<1>9. [CNS!Next]_(CNS!vars)
  BY <1>1, <1>2, <1>4, <1>8, QuietStep DEF MemoryHolds
<1> QED BY <1>5, <1>6, <1>7, <1>9 DEF IInv

-----------------------------------------------------------------------------
(* What the thread does with the first call. *)

(* The first call of the thread, while the first write is not done.        *)
LEMMA FirstCall ==
  ASSUME IInv, thread # <<>>
  PROVE  /\ TypeOK /\ ThreadHolds /\ LaunchHolds /\ at # "launch" /\ 1 \in DOMAIN thread
         /\ Head(thread) = thread[1] /\ thread[1] \in Call
         /\ Launching => /\ Mine(1) /\ thread[1].does = "save" /\ thread[1].next = "route"
                         /\ read = None
         /\ ~Launching => MemoryHolds
<1>1. /\ TypeOK /\ ThreadHolds /\ LaunchHolds /\ at # "launch"
      /\ thread \in Seq(Call) /\ Len(thread) \in Nat
  BY DEF IInv, LaunchHolds, TypeOK
<1>2. 1 \in DOMAIN thread /\ Head(thread) = thread[1] /\ thread[1] \in Call
  BY <1>1
<1>3. Launching => thread[1] = [does |-> "save", by |-> "task", next |-> "route"]
  BY <1>1, <1>2 DEF LaunchHolds
<1>4. Launching => /\ Mine(1) /\ thread[1].does = "save" /\ thread[1].next = "route"
                   /\ read = None
  BY <1>1, <1>2, <1>3 DEF Mine, ThreadHolds
<1> QED BY <1>1, <1>2, <1>4 DEF IInv

LEMMA SaveStep ==
  ASSUME IInv, Save
  PROVE  IInv' /\ [CNS!Next]_(CNS!vars)
<1>1. /\ thread # <<>> /\ thread[1].does = "save" /\ thread' = Tail(thread) /\ Resume(Head(thread))
      /\ status' = memory /\ UNCHANGED <<kind, memory, own, read, stop, train, ops>>
  BY FirstCall DEF Save
<1>2. TypeOK /\ ThreadHolds /\ LaunchHolds /\ at # "launch" /\ (~Launching => MemoryHolds)
      /\ 1 \in DOMAIN thread
  BY <1>1, FirstCall
<1>3. Mine(1) /\ thread[1].next \in {"route", "updated", "halt", "end"}
      /\ (thread[1].next = "route" => Launching) /\ read = None
  BY <1>1, <1>2, FirstCall DEF ThreadHolds
<1>4. /\ thread' \in Seq(Call) /\ ThreadHolds' /\ monitor' \in Looks \cup {"waiting"}
      /\ \A p \in Places : Toward(p)' => Toward(p)
      /\ \A i \in DOMAIN thread' : ~(Mine(i)')
  BY <1>1, <1>2, <1>3, TakeFacts
<1>5. at \in {"waiting", "end"} /\ at' = IF at = "waiting" THEN thread[1].next ELSE at
  <2>1. thread[1].by = "task"
    BY <1>3 DEF Mine
  <2> QED BY <1>1, <1>2, <1>3, <2>1, FirstCall DEF Resume, ThreadHolds
<1>6. \A p \in Places : Toward(p)' => p = at'
  BY <1>4 DEF Toward
<1>7. at' \in {"route", "updated", "halt", "end"} /\ (at' = "route" => Launching)
      /\ (Launching => at' = "route")
  BY <1>1, <1>3, <1>5, FirstCall DEF Launching
<1>8. TypeOK' /\ LaunchHolds' /\ ~(Launching') /\ at' # "launch"
  <2>1. ~(Launching') /\ at' # "launch" /\ at' \in Places
    BY <1>7 DEF Launching, Places
  <2>2. TypeOK'
    BY <1>1, <1>2, <1>4, <2>1 DEF TypeOK
  <2>3. own = "CREATED" => at' \in {"route", "end"}
    BY <1>5, <1>7 DEF Launching
  <2>4. LaunchHolds'
    BY <1>1, <2>1, <2>3 DEF LaunchHolds
  <2> QED BY <2>1, <2>2, <2>4
<1>9. CASE Launching
  <2>1. status' = "RUNNING" /\ memory = "RUNNING"
    BY <1>1, <1>2, <1>9 DEF LaunchHolds
  <2>2. MemoryHolds'
    BY <1>1, <1>3, <1>6, <1>7, <1>9, <2>1 DEF MemoryHolds, WasRead, Final, Places
  <2>3. ~(Over')
    BY <1>7, <1>9, <2>1 DEF Over, Final
  <2>4. TaskOf = "queued" /\ TaskOf' = "running"
    BY <1>8, <1>9, <2>3, TaskCases
  <2> QED BY <1>1, <1>4, <1>8, <2>1, <2>2, <2>4, Fires DEF IInv
<1>10. CASE ~Launching
  <2>1. MemoryHolds /\ at' \in {"updated", "halt", "end"}
    BY <1>2, <1>7, <1>10
  <2>2. Toward("updated")' => Toward("updated")
    BY <1>4 DEF Places
  <2>3. ~(Toward("draining")') /\ ~(Toward("save")')
    BY <1>6, <2>1 DEF Places
  <2>4. status' # "PENDING" /\ WasRead(memory)'
    BY <1>1, <2>1 DEF MemoryHolds, WasRead, Final
  <2>5. MemoryHolds'
    BY <1>1, <1>3, <1>6, <2>1, <2>2, <2>3, <2>4 DEF MemoryHolds
  <2>6. CASE status' = status
    <3>1. Over => Over'
      BY <1>2, <1>3, <2>6 DEF Over
    <3>2. [CNS!Next]_(CNS!vars)
      BY <1>1, <1>2, <1>8, <1>10, <2>1, <2>6, <3>1, QuietStep DEF MemoryHolds
    <3> QED BY <1>4, <1>8, <2>5, <3>2 DEF IInv
  <2>7. CASE status' # status
    <3>1. status \notin Final /\ ~Over /\ status \in {"RUNNING", "STOPPING", "ABORTED"}
      BY <1>1, <1>2, <1>3, <2>1, <2>7 DEF MemoryHolds, Over, TypeOK, Status, Final
    <3>2. TaskOf = "running" /\ TaskOf' = IF Over' THEN "written" ELSE "running"
      BY <1>2, <1>8, <1>10, <3>1, TaskCases
    <3>3. memory \in Final \/ memory = "RUNNING"
      BY <1>1, <1>2, <2>1, <2>7 DEF MemoryHolds, WasRead, TypeOK, Status, Final
    <3>4. CASE memory \in Final
      <4>1. Over' /\ (status' = "STOPPED" => status = "STOPPING")
        BY <1>1, <2>1, <3>1, <3>4 DEF Over, MemoryHolds, Final
      <4>2. CNS!Next
        BY <1>1, <3>2, <3>4, <4>1, Finishes DEF Final
      <4> QED BY <1>4, <1>8, <2>5, <4>2 DEF IInv
    <3>5. CASE memory = "RUNNING"
      <4>1. CNS!Next
        BY <1>1, <3>1, <3>2, <3>5, Races
      <4> QED BY <1>4, <1>8, <2>5, <4>1 DEF IInv
    <3> QED BY <3>3, <3>4, <3>5
  <2> QED BY <2>6, <2>7
<1> QED BY <1>9, <1>10

LEMMA TailNotMine ==
  ASSUME thread \in Seq(Call), thread # <<>>, thread' = Tail(thread),
         \A i \in DOMAIN thread : ~Mine(i)
  PROVE  \A i \in DOMAIN thread' : ~(Mine(i)')
<1>1. \A i \in DOMAIN thread' : i + 1 \in DOMAIN thread /\ thread'[i] = thread[i + 1]
  OBVIOUS
<1> QED BY <1>1 DEF Mine

(* A call that writes nothing is done: the object may have been refreshed. *)
LEMMA CallStep ==
  ASSUME IInv, RefreshAssigns \/ Works
  PROVE  IInv' /\ [CNS!Next]_(CNS!vars)
<1>1. /\ thread # <<>> /\ thread[1].does # "save" /\ thread' = Tail(thread) /\ Resume(Head(thread))
      /\ UNCHANGED <<kind, status, own, stop, train, ops>>
      /\ \/ memory' = memory /\ read = None
         \/ memory' = read /\ read # None
      /\ read' = None
  <2>1. thread # <<>> /\ Head(thread).does # "save"
    BY DEF RefreshAssigns, Works
  <2>2. Head(thread) = thread[1] /\ ThreadHolds
    BY <2>1, FirstCall
  <2> QED BY <2>1, <2>2 DEF RefreshAssigns, Works, ThreadHolds
<1>2. TypeOK /\ ThreadHolds /\ LaunchHolds /\ at # "launch" /\ ~Launching /\ MemoryHolds
      /\ thread[1] \in Call /\ 1 \in DOMAIN thread
  BY <1>1, FirstCall
<1>3. /\ thread' \in Seq(Call) /\ ThreadHolds' /\ monitor' \in Looks \cup {"waiting"}
      /\ at' \in Places \cup {"waiting"}
      /\ at' = at \/ (Mine(1) /\ at = "waiting" /\ at' = thread[1].next)
      /\ \A p \in Places : Toward(p)' => Toward(p)
      /\ Mine(1) => \A i \in DOMAIN thread' : ~(Mine(i)')
  BY <1>1, <1>2, TakeFacts
<1>4. Mine(1) => thread[1].next \in Places /\ thread[1].next # "route"
  BY <1>2 DEF ThreadHolds
<1>5. at' # "launch" /\ ~(Launching') /\ (own = "CREATED" => at' = at)
  <2>1. CASE at' = at
    BY <1>1, <1>2, <2>1 DEF Launching
  <2>2. CASE Mine(1) /\ at = "waiting" /\ at' = thread[1].next
    <3>1. own # "CREATED" /\ own' = own
      BY <1>1, <1>2, <2>2 DEF Launching
    <3>2. thread[1].next # "launch"
      BY <1>2, <2>2 DEF ThreadHolds
    <3> QED BY <2>2, <3>1, <3>2 DEF Launching
  <2> QED BY <1>3, <2>1, <2>2
<1>6. memory' \in Status /\ TypeOK'
  BY <1>1, <1>2, <1>3 DEF TypeOK
<1>7. LaunchHolds'
  BY <1>1, <1>2, <1>5 DEF LaunchHolds
<1>8. MemoryHolds'
  <2>1. /\ Toward("updated")' => Toward("updated")
        /\ Toward("draining")' => Toward("draining")
        /\ Toward("save")' => Toward("save")
    BY <1>3 DEF Places
  <2>2. WasRead(memory)' /\ status' # "PENDING"
    BY <1>1, <1>2 DEF MemoryHolds, WasRead
  <2>3. memory' = "STOPPED" => status' \in {"STOPPING", "STOPPED"}
    BY <1>1, <1>2 DEF MemoryHolds, Final
  <2>4. status \in Final => memory' = status
    BY <1>1, <1>2, <1>6 DEF MemoryHolds, WasRead, Status, Final
  <2>5. status' \in Final => \A p \in Places : Toward(p)' => p \in {"updated", "halt", "end"}
    BY <1>1, <1>2, <1>3 DEF MemoryHolds
  <2>6. Toward("updated")' => own' \in Final /\ (memory' \in Final => memory' = own')
    BY <1>1, <1>2, <2>1 DEF MemoryHolds
  <2> QED BY <1>1, <1>2, <2>1, <2>2, <2>3, <2>4, <2>5, <2>6 DEF MemoryHolds
<1>9. Over => Over'
  <2>1. CASE at = "end" /\ \A i \in DOMAIN thread : ~Mine(i)
    <3>1. at' = "end" /\ \A i \in DOMAIN thread' : ~(Mine(i)')
      BY <1>1, <1>2, <1>3, <2>1, TailNotMine DEF TypeOK
    <3> QED BY <3>1 DEF Over
  <2> QED BY <1>1, <2>1 DEF Over
<1>10. [CNS!Next]_(CNS!vars)
  BY <1>1, <1>2, <1>5, <1>9, QuietStep DEF MemoryHolds
<1> QED BY <1>3, <1>6, <1>7, <1>8, <1>10 DEF IInv

LEMMA ReadStep ==
  ASSUME IInv, RefreshReads
  PROVE  IInv' /\ [CNS!Next]_(CNS!vars)
<1>1. /\ thread # <<>> /\ Head(thread).does = "refresh" /\ read' = status
      /\ UNCHANGED <<kind, status, memory, own, at, monitor, thread, stop, train, ops>>
  BY DEF RefreshReads
<1>2. TypeOK /\ ThreadHolds /\ LaunchHolds /\ at # "launch" /\ ~Launching /\ MemoryHolds
  BY <1>1, FirstCall
<1>3. TypeOK' /\ ThreadHolds' /\ LaunchHolds'
  BY <1>1, <1>2 DEF TypeOK, ThreadHolds, LaunchHolds, Launching, Mine
<1>4. \A p \in Places : Toward(p)' <=> Toward(p)
  BY <1>1 DEF Toward, Mine
<1>5. MemoryHolds'
  <2>1. status' # "PENDING" /\ WasRead(memory)' /\ WasRead(read)'
        /\ (memory' = "STOPPED" => status' \in {"STOPPING", "STOPPED"})
    BY <1>1, <1>2 DEF MemoryHolds, WasRead, Final
  <2>2. status' \in Final => /\ memory' = status'
                             /\ \A p \in Places : Toward(p)' => p \in {"updated", "halt", "end"}
    BY <1>1, <1>2, <1>4 DEF MemoryHolds
  <2>3. /\ Toward("updated")' => Toward("updated")
        /\ Toward("draining")' => Toward("draining")
        /\ Toward("save")' => Toward("save")
    BY <1>4 DEF Places
  <2> QED BY <1>1, <1>2, <2>1, <2>2, <2>3 DEF MemoryHolds
<1>6. TaskOf' = TaskOf
  BY <1>1 DEF TaskOf
<1> QED BY <1>1, <1>3, <1>5, <1>6, Stays DEF IInv

-----------------------------------------------------------------------------
(* Interventions. *)

(* A signal is set in the status column and nowhere else.                  *)
LEMMA SignalFacts ==
  ASSUME IInv, IsHead, status' \in {"ABORTED", "STOPPING"},
         train' \in {"STOPPING", "FAILED"}, ops' \in Nat,
         UNCHANGED <<kind, memory, own, at, monitor, thread, read, stop>>
  PROVE  IInv' /\ TaskOf' = TaskOf
<1>1. TypeOK /\ ThreadHolds /\ LaunchHolds /\ status \in {"RUNNING", "PENDING"}
      /\ (at # "launch" /\ ~Launching => MemoryHolds)
  BY DEF IInv, IsHead
<1>2. TypeOK' /\ ThreadHolds' /\ LaunchHolds' /\ (Launching' <=> Launching)
  BY <1>1 DEF TypeOK, Status, ThreadHolds, LaunchHolds, Launching, Mine
<1>3. ASSUME MemoryHolds PROVE MemoryHolds'
  <2>1. status = "RUNNING" /\ memory \notin {"STOPPING", "ABORTED", "PENDING", "STOPPED"}
        /\ read \notin {"STOPPING", "ABORTED", "PENDING"} /\ read \notin Final
        /\ ~Toward("draining") /\ (Toward("save") => own \in Final /\ own # "STOPPED")
    BY <1>1, <1>3, KindsAssumption DEF MemoryHolds, WasRead, Final, Status
  <2>2. WasRead(memory)' /\ (read' # None => WasRead(read)')
    BY <2>1 DEF WasRead, Final
  <2>3. (Toward("updated")' <=> Toward("updated")) /\ ~(Toward("draining")')
        /\ (Toward("save")' <=> Toward("save"))
    BY <2>1 DEF Toward, Mine
  <2> QED BY <1>3, <2>1, <2>2, <2>3 DEF MemoryHolds, Final
<1>4. IInv'
  BY <1>1, <1>2, <1>3 DEF IInv
<1>5. status \notin {"SUCCESS", "FAILED", "STOPPED"} /\ status' \notin {"SUCCESS", "FAILED", "STOPPED"}
  BY <1>1
<1> QED BY <1>4, <1>5 DEF TaskOf

LEMMA InterventionStep ==
  ASSUME IInv, Terminate \/ StopGracefully
  PROVE  IInv' /\ [CNS!Next]_(CNS!vars)
<1>1. /\ UNCHANGED <<kind, memory, own, at, monitor, thread, read, stop>> /\ ops' = ops + 1
      /\ ops \in Nat /\ train \in {"RUNNING", "STOPPING", "FAILED"}
  BY DEF Terminate, StopGracefully, IInv, TypeOK
<1>2. CASE StopGracefully
  BY <1>1, <1>2, SignalFacts, StopsGracefully DEF StopGracefully
<1>3. CASE Terminate /\ IsHead
  BY <1>1, <1>3, SignalFacts, Terminates DEF Terminate
<1>4. CASE Terminate /\ ~IsHead
  <2>1. status' = status /\ train' = "FAILED" /\ TaskOf' = TaskOf
    BY <1>1, <1>4 DEF Terminate, TaskOf
  <2>2. TypeOK' /\ ThreadHolds' /\ LaunchHolds' /\ (Launching' <=> Launching)
    BY <1>1, <2>1 DEF IInv, TypeOK, ThreadHolds, LaunchHolds, Launching, Mine
  <2>3. at # "launch" /\ ~Launching => MemoryHolds'
    BY <1>1, <2>1, MemoryFrame DEF IInv, Toward, Mine
  <2> QED BY <1>1, <1>4, <2>1, <2>2, <2>3, Terminates DEF IInv
<1> QED BY <1>2, <1>3, <1>4

-----------------------------------------------------------------------------
(* The execution. *)

LEMMA InvBegins == Init => IInv
<1> SUFFICES ASSUME Init PROVE IInv
  OBVIOUS
<1>1. TypeOK
  <2>1. kind \in {"sync", "async", "pipeline"}
    BY KindsAssumption DEF Init
  <2>2. thread \in Seq(Call)
    BY DEF Init
  <2>3. /\ status \in Status /\ memory \in Status /\ own \in Status \cup {"CREATED"}
        /\ at \in Places \cup {"waiting"} /\ monitor \in Looks \cup {"waiting"}
    BY DEF Init, Status, Places, Looks
  <2>4. /\ read \in Status \cup {None} /\ stop \in BOOLEAN
        /\ train \in {"RUNNING", "STOPPING", "FAILED"} /\ ops \in Nat
    BY DEF Init
  <2> QED BY <2>1, <2>2, <2>3, <2>4 DEF TypeOK
<1>2. ThreadHolds /\ LaunchHolds
  BY DEF Init, ThreadHolds, LaunchHolds, Launching, Mine
<1> QED BY <1>1, <1>2 DEF Init, IInv

LEMMA StutterStep ==
  ASSUME IInv, UNCHANGED vars
  PROVE  IInv' /\ [CNS!Next]_(CNS!vars)
<1>1. TypeOK' /\ ThreadHolds' /\ LaunchHolds' /\ (Launching' <=> Launching)
  BY DEF IInv, TypeOK, ThreadHolds, LaunchHolds, Launching, Mine, vars
<1>2. at # "launch" /\ ~Launching => MemoryHolds'
  BY MemoryFrame DEF IInv, Toward, Mine, vars
<1>3. TaskOf' = TaskOf
  BY DEF TaskOf, vars
<1> QED BY <1>1, <1>2, <1>3, Stays DEF IInv, vars

LEMMA StepHolds ==
  ASSUME IInv, [Next]_vars
  PROVE  IInv' /\ [CNS!Next]_(CNS!vars)
<1>1. CASE Task
  BY <1>1, LaunchStep, RouteStep, NativeSteps, PipelineSteps, EndingSteps DEF Task
<1>2. CASE Monitor
  BY <1>2, MonitorStep, RaiseStep DEF Monitor
<1>3. CASE Thread
  BY <1>3, SaveStep, ReadStep, CallStep DEF Thread
<1>4. CASE Stream \/ ProcessExits \/ StreamError \/ FatalError
  BY <1>4, PipelineSteps, RouteStep
<1>5. CASE Terminate \/ StopGracefully
  BY <1>5, InterventionStep
<1>6. CASE Ended \/ UNCHANGED vars
  BY <1>6, StutterStep DEF Ended
<1> QED BY <1>1, <1>2, <1>3, <1>4, <1>5, <1>6 DEF Next

(* The invariant the refinement rests on: before the first write nobody    *)
(* has read; afterwards what the Spike object holds is what the row holds, *)
(* what it held before a signal, or the outcome that is being written.     *)
THEOREM InvariantHolds == Spec => []IInv
<1>1. IInv /\ [Next]_vars => IInv'
  BY StepHolds
<1> QED BY <1>1, InvBegins, PTL DEF Spec

(* The junction's own state, the row, the Spike object and the calls that  *)
(* wait for the thread of sync_to_async keep their types.                  *)
THEOREM TypeCorrect == Spec => []TypeOK
<1>1. IInv => TypeOK
  BY DEF IInv
<1> QED BY <1>1, InvariantHolds, PTL

(* An execution of a spike, its two coroutines, the stale copies they save *)
(* and whatever is terminated or stopped meanwhile, does to the row of the *)
(* spike what the model of the job manager has its tasks do: every step is *)
(* one of FireStart, FinishWrite, StaleWrite, Terminate and StopGracefully,*)
(* or none.                                                                *)
THEOREM ExecutionsImplementCNS == Spec => ImplementsCNS
<1>1. IInv /\ [Next]_vars => [CNS!Next]_(CNS!vars)
  BY StepHolds
<1> QED BY <1>1, InvariantHolds, PTL DEF Spec, ImplementsCNS
=============================================================================
