-------------------- MODULE PeripheralNervousSystemProofs --------------------
(***************************************************************************)
(* For every number of agents, addresses, pages, process ids and requests: *)
(* the Beat that runs is the one in the file, the registry is the network  *)
(* after a scan of it, and a page that has come to rest shows the registry.*)
(* For every bound on lines, buffers and polls of a terminal: its caller   *)
(* gets the output of a process as the process printed it.                 *)
(***************************************************************************)
EXTENDS PeripheralNervousSystem, NerveTerminal, TLAPS, NaturalsInduction, WellFoundedInduction, SequenceTheorems

-----------------------------------------------------------------------------
(* The processes. *)

(* What the API, the processes and the operating system do, and the rest.  *)
AutonomicStep ==
  \/ \E r \in Requests : RequestStep(r)
  \/ \E r \in Requests, verb \in Verbs : Begin(r, verb)
  \/ WebEnds \/ Launch \/ WorkerStep
  \/ \E p \in Pids : BeatEnds(p) \/ Reuse(p)
  \/ UNCHANGED autonomic

LEMMA StepsOfBoth ==
  ASSUME [Next]_vars
  PROVE  AutonomicStep
BY DEF Next, AutonomicStep, vars

LEMMA InitAutonomicTypeOK == InitAutonomic => AutonomicTypeOK
<1>1. (CHOOSE p \in Pids : TRUE) \in Pids
  BY AutonomicAssumption
<1>2. NoRequest \in Request
  BY DEF NoRequest, Request
<1> QED BY <1>1, <1>2 DEF InitAutonomic, AutonomicTypeOK

LEMMA RequestStepTypeOK ==
  ASSUME AutonomicTypeOK, NEW r \in Requests, RequestStep(r)
  PROVE  AutonomicTypeOK'
<1> USE DEF AutonomicTypeOK, Request, Verbs
<1>1. Terminated(request[r].pid) \in [Pids -> {"free", "beat", "ending", "zombie", "other", "foreign"}]
  BY DEF Terminated
<1>2. Reaped \in [Pids -> {"free", "beat", "ending", "zombie", "other", "foreign"}]
  BY DEF Reaped
<1>3. ShutDownWorkers \in [Workers -> {"none", "booting", "on", "leaving"}]
  BY DEF ShutDownWorkers
<1>4. NoRequest \in Request
  BY DEF NoRequest
<1>5. CASE Start(r) BY <1>4, <1>5 DEF Start, To, Ends
<1>6. CASE Spawn(r) BY <1>2, <1>4, <1>6 DEF Spawn, To, Ends
<1>7. CASE WritePid(r)
  <2>1. pidfile' \in Pids \cup {None}
    BY <1>7 DEF WritePid
  <2>2. crowded' \in BOOLEAN
    BY <1>7, Zenon DEF WritePid
  <2>3. request' \in [Requests -> Request]
    BY <1>4, <1>7 DEF WritePid, To, Ends
  <2> QED BY <1>7, <2>1, <2>2, <2>3 DEF WritePid
<1>8. CASE Stop(r) BY <1>4, <1>8 DEF Stop, Ends
<1>9. CASE Kill(r) BY <1>1, <1>9 DEF Kill, To
<1>10. CASE ClearPid(r) BY <1>4, <1>10 DEF ClearPid, To, Ends
<1>11. CASE Status(r) BY <1>4, <1>11 DEF Status, To, Ends
<1>12. CASE Restart(r) BY <1>3, <1>12 DEF Restart, To
<1>13. CASE Respawn(r) BY <1>2, <1>13 DEF Respawn, To
<1>14. CASE LookForBeat(r) BY <1>14 DEF LookForBeat, To
<1>15. CASE Reload(r) BY <1>4, <1>15 DEF Reload, Ends
<1>16. CASE Shutdown(r) BY <1>3, <1>4, <1>16 DEF Shutdown, Ends
<1> QED BY <1>5, <1>6, <1>7, <1>8, <1>9, <1>10, <1>11, <1>12, <1>13, <1>14, <1>15, <1>16
        DEF RequestStep

LEMMA NextAutonomicTypeOK == ASSUME AutonomicTypeOK, AutonomicStep PROVE AutonomicTypeOK'
<1>1. ASSUME NEW r \in Requests, NEW verb \in Verbs, Begin(r, verb) PROVE AutonomicTypeOK'
  BY <1>1 DEF Begin, AutonomicTypeOK, NoRequest, Request
<1>2. CASE WebEnds BY <1>2 DEF WebEnds, AutonomicTypeOK, NoRequest, Request
<1>3. CASE Launch BY <1>3 DEF Launch, AutonomicTypeOK
<1>4. CASE WorkerStep BY <1>4 DEF WorkerStep, AutonomicTypeOK
<1>5. ASSUME NEW p \in Pids, BeatEnds(p) \/ Reuse(p) PROVE AutonomicTypeOK'
  BY <1>5 DEF BeatEnds, Reuse, AutonomicTypeOK
<1>6. CASE UNCHANGED autonomic BY <1>6 DEF autonomic, AutonomicTypeOK
<1> QED BY RequestStepTypeOK, <1>1, <1>2, <1>3, <1>4, <1>5, <1>6 DEF AutonomicStep

(* Of a request in hand that has met no other, the step it is at tells     *)
(* which Beats there can be.                                               *)
Beats == {p \in Pids : proc[p] = "beat"}

BeatsAt(r) ==
  CASE request[r].pc \in {"spawn", "clear"} -> Beats = {}
    [] request[r].pc = "write" -> Beats \subseteq {request[r].pid}
    [] request[r].pc = "kill"  -> Beats \subseteq {pidfile} /\ request[r].pid = pidfile
    [] OTHER -> Beats \subseteq {pidfile}

BeatHolds ==
  ~crowded =>
    /\ \A r, q \in InHand : r = q
    /\ InHand = {} => Beats \subseteq {pidfile}
    /\ \A r \in InHand : BeatsAt(r)

LEMMA InitBeatHolds == Init => BeatHolds
BY AutonomicAssumption DEF Init, InitAutonomic, BeatHolds, InHand, NoRequest, Beats

(* A step of the only request in hand.                                     *)
LEMMA StepInHand ==
  ASSUME NEW r \in Requests, RequestStep(r)
  PROVE  request[r].pc # "idle" /\ (~crowded' => ~crowded)
BY DEF RequestStep, Start, Spawn, WritePid, Stop, Kill, ClearPid, Status, Restart, Respawn,
       LookForBeat, Reload, Shutdown

LEMMA OnlyRequest ==
  ASSUME AutonomicTypeOK, BeatHolds, NEW r \in Requests, RequestStep(r), ~crowded
  PROVE  /\ InHand = {r} /\ BeatsAt(r)
         /\ \A q \in Requests \ {r} : request'[q] = request[q] /\ request[q].pc = "idle"
<1>1. request[r].pc # "idle"
  BY StepInHand
<1>2. InHand = {r} /\ BeatsAt(r)
  BY <1>1 DEF BeatHolds, InHand
<1>3. \A q \in Requests \ {r} : request'[q] = request[q]
  BY DEF RequestStep, Start, Spawn, WritePid, Stop, Kill, ClearPid, Status, Restart, Respawn,
         LookForBeat, Reload, Shutdown, To, Ends, AutonomicTypeOK
<1> QED BY <1>1, <1>2, <1>3 DEF InHand

LEMMA RequestStepBeatHolds ==
  ASSUME AutonomicTypeOK, BeatHolds, NEW r \in Requests, RequestStep(r)
  PROVE  BeatHolds'
<1> SUFFICES ASSUME ~crowded' PROVE BeatHolds'
  BY DEF BeatHolds
<1>0. ~crowded /\ BeatsAt(r)
  BY StepInHand, OnlyRequest
<1>00. /\ \A q \in Requests \ {r} : request'[q].pc = "idle"
       /\ IF request'[r].pc = "idle" THEN Beats' \subseteq {pidfile'} ELSE BeatsAt(r)'
       => BeatHolds'
  BY DEF BeatHolds, InHand
<1>01. \A q \in Requests \ {r} : request'[q].pc = "idle"
  BY StepInHand, OnlyRequest
<1> SUFFICES IF request'[r].pc = "idle" THEN Beats' \subseteq {pidfile'} ELSE BeatsAt(r)'
  BY <1>00, <1>01
<1> USE AutonomicAssumption DEF AutonomicTypeOK, BeatsAt, Beats, To, Ends, IsProcessRunning, NoRequest,
        Request
<1>1. CASE Start(r) BY <1>0, <1>1 DEF Start
<1>2. CASE Spawn(r)
  <2>1. Beats = {} /\ Reaped \in [Pids -> {"free", "beat", "ending", "zombie", "other", "foreign"}]
    BY <1>0, <1>2 DEF Spawn, Reaped
  <2>2. \A q \in Pids : Reaped[q] # "beat"
    BY <2>1 DEF Reaped
  <2>3. CASE proc' = proc
    BY <1>2, <2>1, <2>3 DEF Spawn
  <2>4. CASE proc' # proc
    <3>1. PICK p \in Pids : proc' = [Reaped EXCEPT ![p] = "beat"] /\
                            request' = [request EXCEPT ![r].pc = "write", ![r].pid = p]
      BY <1>2, <2>4 DEF Spawn
    <3>2. request'[r].pc = "write" /\ request'[r].pid = p
      BY <3>1
    <3>3. Beats' \subseteq {p}
      BY <2>1, <2>2, <3>1
    <3> QED BY <3>2, <3>3
  <2> QED BY <2>3, <2>4
<1>3. CASE WritePid(r) BY <1>0, <1>3 DEF WritePid
<1>4. CASE Stop(r) BY <1>0, <1>4 DEF Stop
<1>5. CASE Kill(r) BY <1>0, <1>5 DEF Kill, Terminated
<1>6. CASE ClearPid(r) BY <1>0, <1>6 DEF ClearPid
<1>7. CASE Status(r) BY <1>0, <1>7 DEF Status
<1>8. CASE Restart(r) BY <1>0, <1>8 DEF Restart
<1>9. CASE Respawn(r) BY <1>0, <1>9 DEF Respawn, Reaped
<1>10. CASE LookForBeat(r) BY <1>0, <1>10 DEF LookForBeat
<1>11. CASE Reload(r) BY <1>0, <1>11 DEF Reload
<1>12. CASE Shutdown(r) BY <1>0, <1>12 DEF Shutdown
<1> QED BY <1>1, <1>2, <1>3, <1>4, <1>5, <1>6, <1>7, <1>8, <1>9, <1>10, <1>11, <1>12
        DEF RequestStep

LEMMA NextBeatHolds == ASSUME AutonomicTypeOK, BeatHolds, AutonomicStep PROVE BeatHolds'
<1>1. ASSUME NEW r \in Requests, NEW verb \in Verbs, Begin(r, verb) PROVE BeatHolds'
  <2> SUFFICES ASSUME ~crowded' PROVE BeatHolds'
    BY DEF BeatHolds
  <2>1. ~crowded /\ InHand = {} /\ Beats \subseteq {pidfile}
    BY <1>1 DEF Begin, BeatHolds
  <2>2. InHand' = {r} /\ request'[r].pc = verb /\ Beats' = Beats /\ pidfile' = pidfile
    BY <1>1, <2>1 DEF Begin, InHand, Beats, AutonomicTypeOK, NoRequest, Verbs
  <2> QED BY <2>1, <2>2 DEF BeatHolds, BeatsAt, Verbs
<1>2. CASE WebEnds
  <2> SUFFICES ASSUME ~crowded' PROVE BeatHolds'
    BY DEF BeatHolds
  <2>1. ~crowded /\ InHand = {} /\ Beats \subseteq {pidfile}
    BY <1>2 DEF WebEnds, BeatHolds
  <2>2. InHand' = {} /\ Beats' \subseteq Beats /\ pidfile' = pidfile
    BY <1>2 DEF WebEnds, InHand, Beats, NoRequest, AutonomicTypeOK
  <2> QED BY <2>1, <2>2 DEF BeatHolds
<1>3. CASE Launch \/ WorkerStep \/ UNCHANGED autonomic
  BY <1>3 DEF Launch, WorkerStep, autonomic, BeatHolds, BeatsAt, Beats, InHand
<1>4. ASSUME NEW p \in Pids, BeatEnds(p) \/ Reuse(p) PROVE BeatHolds'
  <2>1. Beats' \subseteq Beats /\ UNCHANGED <<pidfile, request, crowded>>
    BY <1>4 DEF BeatEnds, Reuse, Beats, AutonomicTypeOK
  <2>2. InHand' = InHand
    BY <2>1 DEF InHand
  <2>3. \A r \in InHand : BeatsAt(r) => BeatsAt(r)'
    BY <2>1 DEF BeatsAt
  <2> QED BY <2>1, <2>2, <2>3 DEF BeatHolds
<1> QED BY RequestStepBeatHolds, <1>1, <1>2, <1>3, <1>4 DEF AutonomicStep

-----------------------------------------------------------------------------
(* The registry. *)

(* A set of natural numbers that is not empty has a least one.             *)
LEMMA LeastNumber ==
  ASSUME NEW S \in SUBSET Nat, S # {}
  PROVE  \E n \in S : \A m \in S : n <= m
<1>1. PICK n \in S : \A m \in S : <<m, n>> \notin OpToRel(<, Nat)
  BY NatLessThanWellFounded, WFMin, Zenon
<1>2. \A m \in S : ~(m < n)
  BY <1>1 DEF OpToRel
<1> QED BY <1>2

LEMMA FirstFound ==
  ASSUME TypeOK, NEW p \in Processes, scan[p].left # {}
  PROVE  FirstOf(p) \in scan[p].left /\ FirstOf(p)[1] \in Agents /\ FirstOf(p)[2] \in Ips
<1> DEFINE L == scan[p].left
           S == {y[2] : y \in L}
<1>1. L \subseteq Agents \X Ips /\ Ips \subseteq Nat
  BY PeripheralAssumption DEF TypeOK, Scan
<1>2. S \subseteq Nat /\ S # {}
  BY <1>1
<1> HIDE DEF S
<1>3. PICK n \in S : \A m \in S : n <= m
  BY <1>2, LeastNumber
<1>4. \E y \in L : \A z \in L : y[2] <= z[2]
  BY <1>3 DEF S
<1>5. FirstOf(p) \in L
  BY <1>4 DEF FirstOf
<1> QED BY <1>1, <1>5

LEMMA InitPeripheralTypeOK == Init => TypeOK
<1> SUFFICES ASSUME Init PROVE TypeOK
  OBVIOUS
<1>1. NoScan \in Scan
  BY DEF NoScan, Scan
<1>2. registry \in [Agents -> Row]
  BY DEF Init, InitPeripheral, NoRow, Row
<1> QED BY <1>1, <1>2, InitAutonomicTypeOK DEF Init, InitPeripheral, TypeOK, Page

(* What changes the registry, and who does not.                            *)
ScanOrPage ==
  \/ \E p \in Processes : ScanStep(p)
  \/ \E g \in Pages : PageLists(g) \/ PageShows(g)
  \/ Disconnected
  \/ \E a \in Agents : Moves(a)
  \/ \E p \in Processes : ScanAsked(p)
  \/ UNCHANGED peripheral

LEMMA PeripheralSteps == ASSUME [Next]_vars PROVE ScanOrPage
BY DEF Next, ScanOrPage, vars

LEMMA OpsCounted == ASSUME ops \in Nat, [Next]_vars PROVE ops' \in Nat
<1>1. ASSUME NEW p \in Processes, ScanStep(p) PROVE ops' \in Nat
  <2>1. Probe(p) => ops' \in {ops, ops + 1}
    BY DEF Probe
  <2>2. Register(p) \/ Create(p) \/ MarkUnreachable(p) \/ Commit(p) => ops' = ops
    BY DEF Register, Create, MarkUnreachable, Commit
  <2> QED BY <1>1, <2>1, <2>2 DEF ScanStep
<1>2. ASSUME NEW g \in Pages, PageLists(g) \/ PageShows(g) PROVE ops' \in Nat
  BY <1>2 DEF PageLists, PageShows
<1>3. \A kind : Outside(kind) => ops' \in Nat
  BY DEF Outside
<1> QED BY <1>1, <1>2, <1>3 DEF Next, vars

LEMMA ScanTypes ==
  ASSUME TypeOK, NEW p \in Processes, NEW by \in Pages \cup {None}
  PROVE  /\ Released(p) \in [Processes -> Scan]
         /\ [scan EXCEPT ![p] = [NoScan EXCEPT !.pc = "probe", !.by = by]] \in [Processes -> Scan]
         /\ \A scans \in [Processes -> Scan] : Spoiled(scans, p) \in [Processes -> Scan]
<1>1. NoScan \in Scan /\ [NoScan EXCEPT !.pc = "probe", !.by = by] \in Scan
  BY DEF NoScan, Scan
<1>2. ASSUME NEW x \in Scan, NEW b \in BOOLEAN PROVE [x EXCEPT !.fresh = b] \in Scan
  BY DEF Scan
<1>3. ASSUME NEW scans \in [Processes -> Scan] PROVE Spoiled(scans, p) \in [Processes -> Scan]
  <2>1. ASSUME NEW q \in Processes
        PROVE  [scans[q] EXCEPT !.fresh = (@ /\ scans[q].pc \in {"idle", "probe"})] \in Scan
    BY <1>2 DEF Scan
  <2> QED BY <2>1 DEF Spoiled
<1> QED BY <1>1, <1>3 DEF TypeOK, Released

LEMMA BroadcastTypes == ASSUME TypeOK, Broadcast PROVE page' \in [Pages -> Page]
BY DEF TypeOK, Broadcast, Page

(* The steps by which a scan registers one agent: it ends, goes on with    *)
(* nothing written, or writes what the agent has answered.                 *)
Known(x) == registry[x[1]] = [status |-> "ONLINE", ip |-> x[2]]

LEMMA RegisterFacts ==
  ASSUME TypeOK, NEW p \in Processes, Register(p) \/ Create(p),
         scan[p].pc = "create" => scan[p].left # {} /\ FirstOf(p)[1] \notin Misfits
  PROVE  /\ scan[p].pc \in {"register", "create"} /\ net' = net
         /\ FirstOf(p) \in scan[p].left /\ FirstOf(p)[1] \in Agents /\ FirstOf(p)[2] \in Ips
         /\ \/ scan' = Released(p) /\ UNCHANGED <<registry, page, trusted>>
            \/ /\ scan' = Making(p) /\ UNCHANGED <<registry, page, trusted>>
               /\ scan[p].pc = "register" /\ FirstOf(p)[1] \notin Misfits
            \/ /\ scan' = Past(p) /\ UNCHANGED <<registry, page, trusted>>
               /\ scan[p].pc = "register" /\ FirstOf(p)[1] \notin Misfits /\ Known(FirstOf(p))
            \/ /\ scan' = Spoiled(Past(p), p) /\ Broadcast /\ FirstOf(p)[1] \notin Misfits
               /\ registry' = [registry EXCEPT ![FirstOf(p)[1]] =
                                 [status |-> "ONLINE", ip |-> FirstOf(p)[2]]]
               /\ trusted' = (trusted /\ scan[p].fresh)
<1>1. scan[p].pc \in {"register", "create"} /\ net' = net /\ scan[p].left # {}
  BY DEF Register, Create
<1>2. FirstOf(p) \in scan[p].left /\ FirstOf(p)[1] \in Agents /\ FirstOf(p)[2] \in Ips
  BY <1>1, FirstFound
<1>3. CASE Register(p)
  BY <1>1, <1>2, <1>3 DEF Register, Registered, Known, Unchanged
<1>4. CASE Create(p)
  BY <1>1, <1>2, <1>4 DEF Create, Registered
<1> QED BY <1>1, <1>2, <1>3, <1>4

LEMMA AtFacts ==
  ASSUME TypeOK, NEW p \in Processes, NEW pc \in {"register", "create"},
         NEW left \in SUBSET (Agents \X Ips)
  PROVE  /\ At(p, pc, left) \in [Processes -> Scan]
         /\ At(p, pc, left)[p].pc = pc /\ At(p, pc, left)[p].left = left
         /\ At(p, pc, left)[p].gone = scan[p].gone /\ At(p, pc, left)[p].found = scan[p].found
         /\ At(p, pc, left)[p].fresh = scan[p].fresh
         /\ \A q \in Processes \ {p} : At(p, pc, left)[q] = scan[q]
<1>1. scan \in [Processes -> Scan] /\ scan[p] \in Scan
  BY DEF TypeOK
<1>2. PICK x : x = [scan[p] EXCEPT !.pc = pc, !.left = left]
  OBVIOUS
<1>3. x \in Scan
  BY ZenonT(40), <1>1, <1>2 DEF Scan
<1>4. /\ x.pc = pc /\ x.left = left /\ x.gone = scan[p].gone /\ x.found = scan[p].found
      /\ x.fresh = scan[p].fresh
  BY <1>1, <1>2 DEF Scan
<1>5. At(p, pc, left) = [scan EXCEPT ![p] = x]
  BY <1>2 DEF At
<1> HIDE DEF At
<1> QED BY <1>1, <1>3, <1>4, <1>5

LEMMA RegisterScans ==
  ASSUME TypeOK, NEW p \in Processes
  PROVE  /\ \A scans \in {Past(p), Making(p)} :
              /\ scans \in [Processes -> Scan]
              /\ \A q \in Processes : scans[q].gone = scan[q].gone
              /\ \A q \in Processes \ {p} : scans[q] = scan[q]
              /\ scans[p].found = scan[p].found /\ scans[p].fresh = scan[p].fresh
         /\ Past(p)[p].left = scan[p].left \ {FirstOf(p)} /\ Past(p)[p].pc = "register"
         /\ Making(p)[p].left = scan[p].left /\ Making(p)[p].pc = "create"
<1>1. scan[p].left \in SUBSET (Agents \X Ips) /\ scan[p].left \ {FirstOf(p)} \in SUBSET (Agents \X Ips)
  BY DEF TypeOK, Scan
<1>2. /\ Past(p) \in [Processes -> Scan]
      /\ Past(p)[p].pc = "register" /\ Past(p)[p].left = scan[p].left \ {FirstOf(p)}
      /\ Past(p)[p].gone = scan[p].gone /\ Past(p)[p].found = scan[p].found
      /\ Past(p)[p].fresh = scan[p].fresh
      /\ \A q \in Processes \ {p} : Past(p)[q] = scan[q]
  BY <1>1, AtFacts DEF Past
<1>3. /\ Making(p) \in [Processes -> Scan]
      /\ Making(p)[p].pc = "create" /\ Making(p)[p].left = scan[p].left
      /\ Making(p)[p].gone = scan[p].gone /\ Making(p)[p].found = scan[p].found
      /\ Making(p)[p].fresh = scan[p].fresh
      /\ \A q \in Processes \ {p} : Making(p)[q] = scan[q]
  BY <1>1, AtFacts DEF Making
<1> QED BY <1>2, <1>3

(* A row that is to be made is of the first agent that is left.            *)
MakingHolds ==
  \A p \in Processes :
    scan[p].pc = "create" => scan[p].left # {} /\ FirstOf(p)[1] \notin Misfits

LEMMA RegisterTypeOK ==
  ASSUME TypeOK, MakingHolds, NEW p \in Processes, Register(p) \/ Create(p)
  PROVE  /\ registry' \in [Agents -> Row] /\ scan' \in [Processes -> Scan]
         /\ page' \in [Pages -> Page] /\ trusted' \in BOOLEAN
<1> DEFINE x == FirstOf(p)
<1>0. scan[p].pc = "create" => scan[p].left # {} /\ FirstOf(p)[1] \notin Misfits
  BY DEF MakingHolds
<1>1. x[1] \in Agents /\ x[2] \in Ips
  BY <1>0, RegisterFacts
<1>2. /\ Released(p) \in [Processes -> Scan] /\ Spoiled(Past(p), p) \in [Processes -> Scan]
      /\ Past(p) \in [Processes -> Scan] /\ Making(p) \in [Processes -> Scan]
  BY RegisterScans, ScanTypes
<1>3. \/ /\ scan' \in {Released(p), Past(p), Making(p)}
         /\ UNCHANGED <<registry, page, trusted>>
      \/ /\ scan' = Spoiled(Past(p), p) /\ Broadcast
         /\ registry' = [registry EXCEPT ![x[1]] = [status |-> "ONLINE", ip |-> x[2]]]
         /\ trusted' = (trusted /\ scan[p].fresh)
  BY <1>0, RegisterFacts
<1> HIDE DEF x
<1>4. CASE scan' \in {Released(p), Past(p), Making(p)} /\ UNCHANGED <<registry, page, trusted>>
  BY <1>2, <1>4 DEF TypeOK
<1>5. CASE /\ scan' = Spoiled(Past(p), p) /\ Broadcast
           /\ registry' = [registry EXCEPT ![x[1]] = [status |-> "ONLINE", ip |-> x[2]]]
           /\ trusted' = (trusted /\ scan[p].fresh)
  <2>1. registry' \in [Agents -> Row]
    BY <1>1, <1>5 DEF TypeOK, Row
  <2>2. trusted' \in BOOLEAN
    BY <1>5 DEF TypeOK, Scan
  <2> QED BY <1>2, <1>5, <2>1, <2>2, BroadcastTypes
<1> QED BY <1>3, <1>4, <1>5

LEMMA NextTypeOK == ASSUME TypeOK, MakingHolds, [Next]_vars PROVE TypeOK'
<1>1. AutonomicTypeOK' /\ ops' \in Nat
  BY StepsOfBoth, NextAutonomicTypeOK, OpsCounted DEF TypeOK
<1> SUFFICES /\ net' \in [Agents -> {Down} \cup Ips] /\ registry' \in [Agents -> Row]
             /\ scan' \in [Processes -> Scan] /\ page' \in [Pages -> Page] /\ trusted' \in BOOLEAN
  BY <1>1 DEF TypeOK
<1>2. ASSUME NEW p \in Processes, Probe(p)
      PROVE  /\ UNCHANGED <<net, registry, page, trusted>> /\ scan' \in [Processes -> Scan]
  <2>1. PICK late \in SUBSET Agents :
          LET found == {<<a, net[a]>> : a \in {b \in Agents \ late : net[b] # Down}} IN
          scan' = [scan EXCEPT ![p] = [@ EXCEPT !.pc = "register", !.found = found,
                                                !.left = found, !.fresh = (late = {})]]
    BY <1>2 DEF Probe
  <2> DEFINE found == {<<a, net[a]>> : a \in {b \in Agents \ late : net[b] # Down}}
  <2>2. found \subseteq Agents \X Ips
    BY DEF TypeOK
  <2> HIDE DEF found
  <2>3. scan' = [scan EXCEPT ![p] = [@ EXCEPT !.pc = "register", !.found = found,
                                              !.left = found, !.fresh = (late = {})]]
    BY <2>1 DEF found
  <2>4. [scan[p] EXCEPT !.pc = "register", !.found = found,
                        !.left = found, !.fresh = (late = {})] \in Scan
    BY ZenonT(40), <2>2 DEF TypeOK, Scan
  <2> QED BY <1>2, <2>3, <2>4 DEF TypeOK, Probe
<1>3. ASSUME NEW p \in Processes, MarkUnreachable(p)
      PROVE  /\ UNCHANGED <<net, registry, trusted>> /\ scan' \in [Processes -> Scan]
             /\ page' \in [Pages -> Page]
  <2>1. page' \in [Pages -> Page]
    BY <1>3, BroadcastTypes DEF MarkUnreachable, TypeOK
  <2>2. PICK stale \in SUBSET Agents :
          scan' = [scan EXCEPT ![p] = [@ EXCEPT !.pc = "commit", !.gone = stale]]
    BY <1>3 DEF MarkUnreachable, Rows
  <2>3. [scan[p] EXCEPT !.pc = "commit", !.gone = stale] \in Scan
    BY ZenonT(40), <2>2 DEF TypeOK, Scan
  <2> QED BY <1>3, <2>1, <2>2, <2>3 DEF MarkUnreachable, TypeOK
<1>4. ASSUME NEW p \in Processes, Commit(p)
      PROVE  /\ UNCHANGED <<net, page>> /\ scan' \in [Processes -> Scan] /\ trusted' \in BOOLEAN
             /\ registry' \in [Agents -> Row]
  <2>1. Offline(p) \in [Agents -> Row]
    BY DEF Offline, TypeOK, Row
  <2>2. scan' \in [Processes -> Scan]
    BY <1>4, ScanTypes DEF Commit
  <2> QED BY <1>4, <2>1, <2>2 DEF Commit, TypeOK, Scan
<1>5. ASSUME NEW g \in Pages, PageLists(g) \/ PageShows(g)
      PROVE  /\ UNCHANGED <<net, registry, trusted>> /\ scan' \in [Processes -> Scan]
             /\ page' \in [Pages -> Page]
  <2>1. scan' \in [Processes -> Scan]
    <3>1. "web" \in Processes /\ g \in Pages \cup {None} /\ scan \in [Processes -> Scan]
      BY DEF Processes, TypeOK
    <3>2. scan' = scan \/ ScanBegins("web", g)
      BY <1>5 DEF PageLists, PageShows
    <3>3. [scan EXCEPT !["web"] = [NoScan EXCEPT !.pc = "probe", !.by = g]] \in [Processes -> Scan]
      BY <3>1, ScanTypes
    <3> QED BY <3>1, <3>2, <3>3 DEF ScanBegins
  <2>2. ASSUME NEW early \in BOOLEAN
        PROVE  /\ [page[g] EXCEPT !.pc = "rest", !.shown = registry, !.early = early] \in Page
               /\ [page[g] EXCEPT !.want = FALSE, !.pc = "listing"] \in Page
    BY DEF TypeOK, Page
  <2>3. page' \in [Pages -> Page]
    BY <1>5, <2>2 DEF PageLists, PageShows, TypeOK
  <2> QED BY <1>5, <2>1, <2>3 DEF PageLists, PageShows
<1>6. CASE Disconnected
  BY ZenonT(40), <1>6, ScanTypes DEF Disconnected, TypeOK, Page, Processes
<1>7. ASSUME NEW a \in Agents, Moves(a)
      PROVE  /\ UNCHANGED <<registry, page>> /\ scan' \in [Processes -> Scan] /\ trusted' \in BOOLEAN
             /\ net' \in [Agents -> {Down} \cup Ips]
  <2>1. ASSUME NEW p \in Processes
        PROVE  [scan[p] EXCEPT !.fresh = (@ /\ scan[p].pc \in {"idle", "probe"})] \in Scan
    BY ZenonT(40) DEF TypeOK, Scan
  <2>2. scan' \in [Processes -> Scan]
    BY <1>7, <2>1 DEF Moves
  <2> QED BY <1>7, <2>2 DEF Moves, TypeOK
<1>8. ASSUME NEW p \in Processes, ScanAsked(p)
      PROVE  /\ UNCHANGED <<net, registry, page, trusted>> /\ scan' \in [Processes -> Scan]
  BY <1>8, ScanTypes DEF ScanAsked, ScanBegins
<1>9. ASSUME NEW p \in Processes, Register(p) \/ Create(p) PROVE net' = net
  BY <1>9 DEF Register, Create
<1>10. CASE UNCHANGED peripheral
  BY <1>10 DEF peripheral, TypeOK
<1>11. net \in [Agents -> {Down} \cup Ips] /\ registry \in [Agents -> Row]
       /\ scan \in [Processes -> Scan] /\ page \in [Pages -> Page] /\ trusted \in BOOLEAN
  BY DEF TypeOK
<1> QED BY PeripheralSteps, RegisterTypeOK, <1>2, <1>3, <1>4, <1>5, <1>6, <1>7, <1>8, <1>9, <1>10, <1>11
        DEF ScanOrPage, ScanStep

LEMMA SpoiledScans ==
  ASSUME TypeOK, NEW p \in Processes, NEW scans \in [Processes -> Scan], NEW q \in Processes
  PROVE  /\ Spoiled(scans, p)[q].gone = scans[q].gone /\ Spoiled(scans, p)[q].pc = scans[q].pc
         /\ Spoiled(scans, p)[q].left = scans[q].left
BY DEF Spoiled, Scan

(* A scan that is about to make a row either was before the step, or has   *)
(* just looked for the row.                                                *)
LEMMA NextMakingHolds == ASSUME TypeOK, MakingHolds, [Next]_vars PROVE MakingHolds'
<1>0. scan \in [Processes -> Scan] /\ "web" \in Processes
  BY DEF TypeOK, Processes
<1> SUFFICES ASSUME NEW p \in Processes, scan'[p].pc = "create"
             PROVE  scan'[p].left # {} /\ FirstOf(p)'[1] \notin Misfits
  BY DEF MakingHolds
<1> DEFINE Same  == scan'[p].left = scan[p].left
           First == scan[p].left # {} /\ FirstOf(p)[1] \notin Misfits
<1>1. scan[p].pc = "create" => First
  BY DEF MakingHolds
<1>2. ASSUME NEW q \in Processes, Probe(q) \/ MarkUnreachable(q) PROVE Same /\ scan[p].pc = "create"
  <2>1. CASE Probe(q)
    <3>1. scan'[q].pc # "create" /\ \A o \in Processes \ {q} : scan'[o] = scan[o]
      BY <1>0, <2>1 DEF Probe, Scan
    <3> QED BY <3>1
  <2>2. CASE MarkUnreachable(q)
    <3>1. scan'[q].pc # "create" /\ \A o \in Processes \ {q} : scan'[o] = scan[o]
      BY <1>0, <2>2 DEF MarkUnreachable, Scan
    <3> QED BY <3>1
  <2> QED BY <1>2, <2>1, <2>2
<1>3. ASSUME NEW q \in Processes, Commit(q) PROVE Same /\ scan[p].pc = "create"
  <2>1. scan' = Spoiled(Released(q), q) /\ Released(q) \in [Processes -> Scan]
    BY <1>3, ScanTypes DEF Commit
  <2>2. scan'[p].pc = Released(q)[p].pc /\ scan'[p].left = Released(q)[p].left
    BY <2>1, SpoiledScans
  <2> QED BY <1>0, <2>2 DEF Released, NoScan
<1>4. ASSUME NEW q \in Processes, Register(q) \/ Create(q) PROVE Same /\ First
  <2>0. scan[q].pc = "create" => scan[q].left # {} /\ FirstOf(q)[1] \notin Misfits
    BY DEF MakingHolds
  <2>1. /\ FirstOf(q) \in scan[q].left
        /\ \/ scan' = Released(q)
           \/ scan' = Making(q) /\ FirstOf(q)[1] \notin Misfits
           \/ scan' = Past(q)
           \/ scan' = Spoiled(Past(q), q)
    <3>1. FirstOf(q) \in scan[q].left
      BY <1>4, <2>0, RegisterFacts
    <3>2. \/ scan' = Released(q)
          \/ scan' = Making(q) /\ FirstOf(q)[1] \notin Misfits
          \/ scan' = Past(q)
          \/ scan' = Spoiled(Past(q), q)
      BY <1>4, <2>0, RegisterFacts
    <3> QED BY <3>1, <3>2
  <2> HIDE DEF Same, First
  <2>2. CASE scan' = Released(q)
    BY <1>0, <1>1, <2>2 DEF Released, NoScan, Same
  <2>3. CASE scan' = Making(q) /\ FirstOf(q)[1] \notin Misfits
    <3>1. CASE p = q
      BY <2>1, <2>3, <3>1, RegisterScans DEF Same, First
    <3>2. CASE p # q
      BY <1>1, <2>3, <3>2, RegisterScans DEF Same
    <3> QED BY <3>1, <3>2
  <2>4. ASSUME scan'[p].pc = Past(q)[p].pc, scan'[p].left = Past(q)[p].left PROVE Same /\ First
    <3>1. p # q
      BY <2>4, RegisterScans
    <3> QED BY <1>1, <2>4, <3>1, RegisterScans DEF Same
  <2>5. CASE scan' = Past(q)
    BY <2>4, <2>5
  <2>6. CASE scan' = Spoiled(Past(q), q)
    <3>1. Past(q) \in [Processes -> Scan]
      BY RegisterScans
    <3> QED BY <2>4, <2>6, <3>1, SpoiledScans
  <2> QED BY <2>1, <2>2, <2>3, <2>5, <2>6
<1>5. ASSUME NEW g \in Pages, PageLists(g) \/ PageShows(g) PROVE Same /\ scan[p].pc = "create"
  BY <1>0, <1>5 DEF PageLists, PageShows, ScanBegins, NoScan
<1>6. ASSUME NEW q \in Processes, ScanAsked(q) PROVE Same /\ scan[p].pc = "create"
  BY <1>0, <1>6 DEF ScanAsked, ScanBegins, NoScan
<1>7. ASSUME Disconnected PROVE Same /\ scan[p].pc = "create"
  BY <1>0, <1>7 DEF Disconnected, Released, NoScan
<1>8. ASSUME NEW a \in Agents, Moves(a) PROVE Same /\ scan[p].pc = "create"
  <2>1. scan'[p] = [scan[p] EXCEPT !.fresh = (@ /\ scan[p].pc \in {"idle", "probe"})]
    BY <1>8 DEF Moves
  <2> QED BY <1>0, <2>1 DEF Scan
<1>9. ASSUME UNCHANGED peripheral PROVE Same /\ scan[p].pc = "create"
  BY <1>9 DEF peripheral
<1>10. Same /\ First
  <2> HIDE DEF Same, First
  <2> QED BY PeripheralSteps, <1>1, <1>2, <1>3, <1>4, <1>5, <1>6, <1>7, <1>8, <1>9 DEF ScanOrPage, ScanStep
<1>11. FirstOf(p)' = FirstOf(p)
  BY <1>10 DEF FirstOf
<1> QED BY <1>10, <1>11

(* What a scan of the network as it still is has found and written.  No    *)
(* other scan has written anything else meanwhile: if it had, this one     *)
(* would not be fresh.                                                     *)
Answers == {<<a, net[a]>> : a \in {b \in Agents : net[b] # Down}}

FreshScan(p) ==
  /\ scan[p].found = Answers
  /\ \A x \in Answers \ scan[p].left : Known(x) /\ x[1] \notin Misfits
  /\ scan[p].left \subseteq Answers
  /\ scan[p].pc = "commit" =>
       /\ scan[p].left = {}
       /\ \A a \in Agents : net[a] = Down => registry[a].status # "ONLINE" \/ a \in scan[p].gone
       /\ \A x \in Answers : x[1] \notin scan[p].gone

Informed(p) == scan[p].fresh /\ scan[p].pc \in {"register", "create", "commit"}

ScansHold == \A p \in Processes : Informed(p) => FreshScan(p)

LEMMA InitScansHold == Init => ScansHold /\ Reconciled
BY DEF Init, InitPeripheral, NoScan, ScansHold, Informed, Reconciled

LEMMA AnswersKept == ASSUME net' = net PROVE Answers' = Answers
BY DEF Answers

LEMMA AnswersFacts ==
  ASSUME TypeOK
  PROVE  /\ \A x \in Answers : x[1] \in Agents /\ x[2] = net[x[1]] /\ net[x[1]] # Down
         /\ \A a \in Agents : net[a] # Down => <<a, net[a]>> \in Answers
BY DEF Answers

(* What leaves a fresh scan's work in place: nothing that is so is unsaid. *)
Respects ==
  /\ \A x \in Answers : Known(x) => Known(x)'
  /\ \A a \in Agents : net[a] = Down /\ registry'[a].status = "ONLINE" => registry[a].status = "ONLINE"

LEMMA FreshScanKept ==
  ASSUME TypeOK, ScansHold, NEW p \in Processes, Informed(p)',
         net' = net, scan'[p] = scan[p], Respects
  PROVE  FreshScan(p)'
<1>1. Answers' = Answers
  BY AnswersKept
<1>2. FreshScan(p)
  BY DEF ScansHold, Informed
<1> QED BY <1>1, <1>2 DEF FreshScan, Respects

LEMMA ReconciledKept ==
  ASSUME TypeOK, Reconciled, trusted' => trusted, net' = net, registry' = registry
  PROVE  Reconciled'
BY DEF Reconciled

LEMMA NothingWritten == ASSUME registry' = registry PROVE Respects
BY DEF Respects, Known

LEMMA ProbeHolds ==
  ASSUME TypeOK, ScansHold, Reconciled, NEW p \in Processes, Probe(p)
  PROVE  ScansHold' /\ Reconciled'
<1>1. UNCHANGED <<net, registry, trusted>> /\ scan \in [Processes -> Scan] /\ scan[p] \in Scan
  BY DEF Probe, TypeOK
<1>2. PICK late \in SUBSET {a \in Agents : net[a] # Down} :
        LET found == {<<a, net[a]>> : a \in {b \in Agents \ late : net[b] # Down}} IN
        scan' = [scan EXCEPT ![p] = [@ EXCEPT !.pc = "register", !.found = found,
                                              !.left = found, !.fresh = (late = {})]]
  BY DEF Probe
<1>3. Informed(p)' => FreshScan(p)'
  <2> DEFINE found == {<<a, net[a]>> : a \in {b \in Agents \ late : net[b] # Down}}
  <2>1. late = {} => found = Answers
    BY DEF Answers
  <2> HIDE DEF found
  <2>2. scan' = [scan EXCEPT ![p] = [@ EXCEPT !.pc = "register", !.found = found,
                                              !.left = found, !.fresh = (late = {})]]
    BY <1>2 DEF found
  <2>3. /\ scan'[p].pc = "register" /\ scan'[p].found = found /\ scan'[p].left = found
        /\ scan'[p].fresh <=> late = {}
    BY <1>1, <2>2 DEF Scan
  <2>4. Answers' = Answers
    BY <1>1, AnswersKept
  <2> QED BY <2>1, <2>3, <2>4 DEF Informed, FreshScan
<1>4. ASSUME NEW q \in Processes \ {p}, Informed(q)' PROVE FreshScan(q)'
  BY <1>1, <1>2, <1>4, FreshScanKept, NothingWritten
<1> QED BY <1>1, <1>3, <1>4, ReconciledKept DEF ScansHold

LEMMA MarkHolds ==
  ASSUME TypeOK, ScansHold, Reconciled, NEW p \in Processes, MarkUnreachable(p)
  PROVE  ScansHold' /\ Reconciled'
<1> DEFINE stale == {a \in Rows : registry[a].status # "OFFLINE"} \ {x[1] : x \in scan[p].found}
<1>1. /\ UNCHANGED <<net, registry, trusted>> /\ scan[p].pc = "register" /\ scan[p].left = {}
      /\ scan' = [scan EXCEPT ![p] = [@ EXCEPT !.pc = "commit", !.gone = stale]]
      /\ scan \in [Processes -> Scan] /\ scan[p] \in Scan
  BY DEF MarkUnreachable, TypeOK
<1>2. ASSUME Informed(p)' PROVE FreshScan(p)'
  <2>1. /\ scan'[p].pc = "commit" /\ scan'[p].gone = stale /\ scan'[p].left = {}
        /\ scan'[p].found = scan[p].found /\ scan'[p].fresh = scan[p].fresh
    BY <1>1 DEF Scan
  <2>2. FreshScan(p) /\ Answers' = Answers
    BY <1>1, <1>2, <2>1, AnswersKept DEF Informed, ScansHold
  <2>3. scan[p].found = Answers
    BY <2>2 DEF FreshScan
  <2>4. \A x \in Answers : x[1] \notin stale
    BY <2>3
  <2>5. ASSUME NEW a \in Agents, net[a] = Down, registry[a].status = "ONLINE" PROVE a \in stale
    <3>1. a \in Rows
      BY <2>5 DEF Rows
    <3>2. \A x \in scan[p].found : x[1] # a
      BY <2>3, <2>5, AnswersFacts
    <3> QED BY <2>5, <3>1, <3>2
  <2> HIDE DEF stale
  <2>6. \A x \in Answers : Known(x)' /\ x[1] \notin Misfits
    BY <1>1, <2>2 DEF FreshScan, Known
  <2> QED BY <1>1, <2>1, <2>2, <2>3, <2>4, <2>5, <2>6 DEF FreshScan
<1>3. ASSUME NEW q \in Processes \ {p}, Informed(q)' PROVE FreshScan(q)'
  BY <1>1, <1>3, FreshScanKept, NothingWritten
<1> QED BY <1>1, <1>2, <1>3, ReconciledKept DEF ScansHold

(* What is written of old answers takes the freshness from all the others. *)
LEMMA SpoiledFacts ==
  ASSUME TypeOK, NEW p \in Processes, NEW scans \in [Processes -> Scan],
         scan' = Spoiled(scans, p), NEW q \in Processes, Informed(q)'
  PROVE  scan[p].fresh /\ scan'[q] = scans[q]
<1>1. CASE scan[p].fresh
  BY <1>1 DEF Spoiled
<1>2. CASE ~scan[p].fresh
  <2>1. scan'[q] = [scans[q] EXCEPT !.fresh = (@ /\ scans[q].pc \in {"idle", "probe"})]
    BY <1>2 DEF Spoiled
  <2>2. scan'[q].pc = scans[q].pc /\ (scan'[q].fresh => scans[q].pc \in {"idle", "probe"})
    BY ZenonT(40), <2>1 DEF Scan
  <2> QED BY <2>2 DEF Informed
<1> QED BY <1>1, <1>2

LEMMA RegisterHolds ==
  ASSUME TypeOK, MakingHolds, ScansHold, Reconciled, NEW p \in Processes, Register(p) \/ Create(p)
  PROVE  ScansHold' /\ Reconciled'
<1>0. PICK x : x = FirstOf(p)
  OBVIOUS
<1>1. scan[p].pc = "create" => scan[p].left # {} /\ FirstOf(p)[1] \notin Misfits
  BY DEF MakingHolds
<1>2. scan \in [Processes -> Scan] /\ scan[p] \in Scan
  BY DEF TypeOK
<1>3. /\ x \in scan[p].left /\ x[1] \in Agents /\ x[2] \in Ips
      /\ scan[p].pc \in {"register", "create"} /\ net' = net
  BY <1>0, <1>1, RegisterFacts
<1>4. \/ scan' = Released(p) /\ UNCHANGED <<registry, trusted>>
      \/ scan' = Making(p) /\ UNCHANGED <<registry, trusted>>
      \/ /\ scan' = Past(p) /\ UNCHANGED <<registry, trusted>>
         /\ scan[p].pc = "register" /\ x[1] \notin Misfits /\ Known(x)
      \/ /\ scan' = Spoiled(Past(p), p) /\ x[1] \notin Misfits
         /\ registry' = [registry EXCEPT ![x[1]] = [status |-> "ONLINE", ip |-> x[2]]]
         /\ trusted' = (trusted /\ scan[p].fresh)
  <2>1. \/ scan' = Released(p) /\ UNCHANGED <<registry, page, trusted>>
        \/ scan' = Making(p) /\ UNCHANGED <<registry, page, trusted>>
        \/ /\ scan' = Past(p) /\ UNCHANGED <<registry, page, trusted>>
           /\ scan[p].pc = "register" /\ FirstOf(p)[1] \notin Misfits /\ Known(FirstOf(p))
        \/ /\ scan' = Spoiled(Past(p), p) /\ Broadcast /\ FirstOf(p)[1] \notin Misfits
           /\ registry' = [registry EXCEPT ![FirstOf(p)[1]] =
                             [status |-> "ONLINE", ip |-> FirstOf(p)[2]]]
           /\ trusted' = (trusted /\ scan[p].fresh)
    BY <1>1, RegisterFacts
  <2> QED BY <1>0, <2>1
<1>5. /\ \A scans \in {Past(p), Making(p)} :
           /\ scans \in [Processes -> Scan]
           /\ \A q \in Processes \ {p} : scans[q] = scan[q]
           /\ scans[p].found = scan[p].found /\ scans[p].fresh = scan[p].fresh
      /\ Past(p)[p].left = scan[p].left \ {x} /\ Past(p)[p].pc = "register"
      /\ Making(p)[p].left = scan[p].left /\ Making(p)[p].pc = "create"
  BY <1>0, RegisterScans
<1>6. Answers' = Answers
  BY <1>3, AnswersKept
<1>7. CASE scan' = Released(p) /\ UNCHANGED <<registry, trusted>>
  <2>1. ~Informed(p)'
    BY <1>2, <1>7 DEF Released, Informed, NoScan
  <2>2. ASSUME NEW q \in Processes \ {p}, Informed(q)' PROVE FreshScan(q)'
    BY <1>2, <1>3, <1>7, <2>2, FreshScanKept, NothingWritten DEF Released
  <2> QED BY <1>3, <1>7, <2>1, <2>2, ReconciledKept DEF ScansHold
<1>8. CASE scan' = Making(p) /\ UNCHANGED <<registry, trusted>>
  <2>1. ASSUME Informed(p)' PROVE FreshScan(p)'
    <3>1. FreshScan(p)
      BY <1>3, <1>5, <1>8, <2>1 DEF Informed, ScansHold
    <3>2. \A y \in Answers : Known(y)' = Known(y)
      BY <1>8 DEF Known
    <3> QED BY <1>5, <1>6, <1>8, <3>1, <3>2 DEF FreshScan
  <2>2. ASSUME NEW q \in Processes \ {p}, Informed(q)' PROVE FreshScan(q)'
    BY <1>3, <1>5, <1>8, <2>2, FreshScanKept, NothingWritten
  <2> QED BY <1>3, <1>8, <2>1, <2>2, ReconciledKept DEF ScansHold
<1>9. CASE /\ scan' = Past(p) /\ UNCHANGED <<registry, trusted>>
           /\ scan[p].pc = "register" /\ x[1] \notin Misfits /\ Known(x)
  <2>1. ASSUME Informed(p)' PROVE FreshScan(p)'
    <3>1. FreshScan(p) /\ scan[p].fresh
      BY <1>5, <1>9, <2>1 DEF Informed, ScansHold
    <3>2. \A y \in Answers : Known(y)' = Known(y)
      BY <1>9 DEF Known
    <3> QED BY <1>5, <1>6, <1>9, <3>1, <3>2 DEF FreshScan
  <2>2. ASSUME NEW q \in Processes \ {p}, Informed(q)' PROVE FreshScan(q)'
    BY <1>3, <1>5, <1>9, <2>2, FreshScanKept, NothingWritten
  <2> QED BY <1>3, <1>9, <2>1, <2>2, ReconciledKept DEF ScansHold
<1>10. CASE /\ scan' = Spoiled(Past(p), p) /\ x[1] \notin Misfits
            /\ registry' = [registry EXCEPT ![x[1]] = [status |-> "ONLINE", ip |-> x[2]]]
            /\ trusted' = (trusted /\ scan[p].fresh)
  <2>1. ASSUME scan[p].fresh PROVE x \in Answers /\ Respects /\ Known(x)' /\ FreshScan(p)
    <3>1. FreshScan(p)
      BY <1>3, <2>1 DEF Informed, ScansHold
    <3>2. x \in Answers
      BY <1>3, <3>1 DEF FreshScan
    <3>3. x[2] = net[x[1]] /\ net[x[1]] # Down
      BY <3>2, AnswersFacts
    <3>4. registry'[x[1]] = [status |-> "ONLINE", ip |-> x[2]]
      BY <1>3, <1>10 DEF TypeOK
    <3>5. \A a \in Agents \ {x[1]} : registry'[a] = registry[a]
      BY <1>10 DEF TypeOK
    <3>6. \A y \in Answers : Known(y) => Known(y)'
      BY <3>3, <3>4, <3>5, AnswersFacts DEF Known
    <3>7. Respects
      BY <3>3, <3>5, <3>6 DEF Respects
    <3> QED BY <3>1, <3>2, <3>4, <3>7 DEF Known
  <2>2. ASSUME Informed(p)' PROVE FreshScan(p)'
    <3>1. scan[p].fresh /\ scan'[p] = Past(p)[p]
      BY <1>5, <1>10, <2>2, SpoiledFacts
    <3>2. x \in Answers /\ Respects /\ Known(x)' /\ FreshScan(p)
      BY <2>1, <3>1
    <3> QED BY <1>5, <1>6, <1>10, <3>1, <3>2 DEF FreshScan, Respects
  <2>3. ASSUME NEW q \in Processes \ {p}, Informed(q)' PROVE FreshScan(q)'
    <3>1. scan[p].fresh /\ scan'[q] = Past(p)[q]
      BY <1>5, <1>10, <2>3, SpoiledFacts
    <3> QED BY <1>3, <1>5, <2>1, <2>3, <3>1, FreshScanKept
  <2>4. Reconciled'
    <3> SUFFICES ASSUME trusted', NEW a \in Agents \ Misfits
                 PROVE  IF net[a] = Down THEN registry'[a].status # "ONLINE"
                        ELSE registry'[a] = [status |-> "ONLINE", ip |-> net[a]]
      BY <1>3 DEF Reconciled
    <3>1. trusted /\ x \in Answers
      BY <1>10, <2>1
    <3>2. x[2] = net[x[1]] /\ net[x[1]] # Down
      BY <3>1, AnswersFacts
    <3> QED BY <1>3, <1>10, <3>1, <3>2 DEF Reconciled, TypeOK
  <2> QED BY <2>2, <2>3, <2>4 DEF ScansHold
<1> QED BY <1>4, <1>7, <1>8, <1>9, <1>10

LEMMA CommitHolds ==
  ASSUME TypeOK, ScansHold, Reconciled, NEW p \in Processes, Commit(p)
  PROVE  ScansHold' /\ Reconciled'
<1>1. /\ net' = net /\ registry' = Offline(p) /\ trusted' = scan[p].fresh
      /\ scan' = Spoiled(Released(p), p) /\ scan[p].pc = "commit"
  BY DEF Commit
<1>2. Released(p) \in [Processes -> Scan] /\ scan \in [Processes -> Scan]
  BY ScanTypes DEF TypeOK
<1>3. \A a \in Agents : registry'[a] = IF a \in scan[p].gone
                                       THEN [registry[a] EXCEPT !.status = "OFFLINE"]
                                       ELSE registry[a]
  BY <1>1 DEF Offline
<1>4. \A a \in Agents : a \in scan[p].gone => registry'[a].status = "OFFLINE"
  BY <1>3 DEF TypeOK, Row
<1>5. ASSUME scan[p].fresh PROVE Respects /\ FreshScan(p)
  <2>1. FreshScan(p)
    BY <1>1, <1>5 DEF Informed, ScansHold
  <2>2. \A y \in Answers : registry'[y[1]] = registry[y[1]]
    BY <1>1, <1>3, <2>1, AnswersFacts DEF FreshScan
  <2> QED BY <1>3, <1>4, <2>1, <2>2 DEF Respects, Known
<1>6. ASSUME NEW q \in Processes, Informed(q)' PROVE FreshScan(q)'
  <2>1. scan[p].fresh /\ scan'[q] = Released(p)[q]
    BY <1>1, <1>2, <1>6, SpoiledFacts
  <2>2. q # p
    BY <1>2, <1>6, <2>1 DEF Released, Informed, NoScan
  <2>3. scan'[q] = scan[q]
    BY <1>2, <2>1, <2>2 DEF Released
  <2> QED BY <1>1, <1>5, <1>6, <2>1, <2>3, FreshScanKept
<1>7. Reconciled'
  <2> SUFFICES ASSUME scan[p].fresh, NEW a \in Agents \ Misfits
               PROVE  IF net[a] = Down THEN registry'[a].status # "ONLINE"
                      ELSE registry'[a] = [status |-> "ONLINE", ip |-> net[a]]
    BY <1>1 DEF Reconciled
  <2>1. FreshScan(p)
    BY <1>5
  <2>2. CASE net[a] = Down
    BY <1>1, <1>3, <1>4, <2>1, <2>2 DEF FreshScan
  <2>3. CASE net[a] # Down
    <3>1. <<a, net[a]>> \in Answers
      BY <2>3, AnswersFacts
    <3>2. Known(<<a, net[a]>>) /\ a \notin scan[p].gone
      BY <1>1, <2>1, <3>1 DEF FreshScan
    <3> QED BY <1>3, <2>3, <3>2 DEF Known
  <2> QED BY <2>2, <2>3
<1> QED BY <1>6, <1>7 DEF ScansHold

LEMMA NextScansHold ==
  ASSUME TypeOK, MakingHolds, ScansHold, Reconciled, [Next]_vars
  PROVE  ScansHold' /\ Reconciled'
<1>1. ASSUME NEW p \in Processes, ScanStep(p) PROVE ScansHold' /\ Reconciled'
  BY <1>1, ProbeHolds, RegisterHolds, MarkHolds, CommitHolds DEF ScanStep
<1>2. ASSUME UNCHANGED <<net, registry, trusted>>,
             \A p \in Processes : scan'[p] = scan[p] \/ scan'[p].pc \in {"idle", "probe"}
      PROVE  ScansHold' /\ Reconciled'
  <2>1. ASSUME NEW p \in Processes, Informed(p)' PROVE FreshScan(p)'
    <3>1. scan'[p] = scan[p]
      BY <1>2, <2>1 DEF Informed
    <3> QED BY <1>2, <2>1, <3>1, FreshScanKept, NothingWritten
  <2> QED BY <1>2, <2>1, ReconciledKept DEF ScansHold
<1>3. ASSUME NEW by \in Pages \cup {None}, NEW p \in Processes, ScanBegins(p, by)
      PROVE  \A q \in Processes : scan'[q] = scan[q] \/ scan'[q].pc \in {"idle", "probe"}
  BY <1>3 DEF ScanBegins, TypeOK, NoScan
<1>4. ASSUME NEW g \in Pages, PageLists(g) \/ PageShows(g) PROVE ScansHold' /\ Reconciled'
  <2>1. UNCHANGED <<net, registry, trusted>> /\ (scan' = scan \/ ScanBegins("web", g))
    BY <1>4 DEF PageLists, PageShows
  <2>2. "web" \in Processes
    BY DEF Processes
  <2> QED BY <1>2, <1>3, <2>1, <2>2
<1>5. CASE Disconnected
  <2>1. UNCHANGED <<net, registry, trusted>> /\ scan' = Released("web")
    BY <1>5 DEF Disconnected
  <2> QED BY <1>2, <2>1 DEF Released, TypeOK, NoScan, Processes
<1>6. ASSUME NEW a \in Agents, Moves(a) PROVE ScansHold' /\ Reconciled'
  <2>1. ~trusted'
    BY <1>6 DEF Moves
  <2>2. ASSUME NEW p \in Processes PROVE ~Informed(p)'
    <3>1. scan'[p] = [scan[p] EXCEPT !.fresh = (@ /\ scan[p].pc \in {"idle", "probe"})]
      BY <1>6 DEF Moves
    <3>2. scan'[p].pc = scan[p].pc /\ (scan'[p].fresh => scan[p].pc \in {"idle", "probe"})
      BY <3>1 DEF TypeOK, Scan
    <3> QED BY <3>2 DEF Informed
  <2> QED BY <2>1, <2>2 DEF ScansHold, Reconciled
<1>7. ASSUME NEW p \in Processes, ScanAsked(p) PROVE ScansHold' /\ Reconciled'
  BY <1>2, <1>3, <1>7 DEF ScanAsked
<1>8. CASE UNCHANGED peripheral
  BY <1>2, <1>8 DEF peripheral
<1> QED BY PeripheralSteps, <1>1, <1>4, <1>5, <1>6, <1>7, <1>8 DEF ScanOrPage

-----------------------------------------------------------------------------
(* The pages. *)

(* What is broadcast before it is committed is in the commit of a scan.    *)
PagesHold ==
  /\ \A p \in Processes : scan[p].pc # "commit" => scan[p].gone = {}
  /\ \A g \in Pages : page[g].pc = "rest" /\ ~page[g].want /\ ~page[g].early =>
       page[g].shown = registry /\ \A p \in Processes : scan[p].gone = {}

LEMMA InitPagesHold == Init => PagesHold
BY DEF Init, InitPeripheral, NoScan, PagesHold

(* Whoever writes and broadcasts has every page list again.                *)
LEMMA BroadcastFacts ==
  ASSUME TypeOK, Broadcast
  PROVE  \A g \in Pages : page'[g].want
BY DEF TypeOK, Broadcast, Page

LEMMA ReleasedGone ==
  ASSUME TypeOK, PagesHold, NEW p \in Processes, scan[p].pc # "commit", NEW q \in Processes
  PROVE  /\ Released(p)[q].gone = scan[q].gone
         /\ Released(p)[q].pc = "commit" <=> scan[q].pc = "commit"
<1>1. scan \in [Processes -> Scan] /\ scan[p].gone = {}
  BY DEF TypeOK, PagesHold
<1>2. Released(p)[q] = IF q = p THEN NoScan ELSE scan[q]
  BY <1>1 DEF Released
<1> QED BY <1>1, <1>2 DEF NoScan

LEMMA BegunGone ==
  ASSUME TypeOK, PagesHold, NEW p \in Processes, NEW by, scan[p].pc = "idle", ScanBegins(p, by),
         NEW q \in Processes
  PROVE  scan'[q].gone = scan[q].gone /\ (scan'[q].pc = "commit" <=> scan[q].pc = "commit")
<1>1. scan \in [Processes -> Scan] /\ scan[p].gone = {}
  BY DEF TypeOK, PagesHold
<1>2. scan'[q] = IF q = p THEN [NoScan EXCEPT !.pc = "probe", !.by = by] ELSE scan[q]
  BY <1>1 DEF ScanBegins
<1> QED BY <1>1, <1>2 DEF NoScan

LEMMA ScanStepPages ==
  ASSUME TypeOK, MakingHolds, PagesHold, NEW p \in Processes, ScanStep(p)
  PROVE  PagesHold'
<1> USE DEF PagesHold
<1>0. scan \in [Processes -> Scan] /\ page \in [Pages -> Page] /\ registry \in [Agents -> Row]
  BY DEF TypeOK
<1>1. CASE Probe(p)
  <2>1. \A q \in Processes : scan'[q].gone = scan[q].gone
    BY <1>0, <1>1 DEF Probe, Scan
  <2>2. \A q \in Processes : scan[q].pc = "commit" <=> scan'[q].pc = "commit"
    BY <1>0, <1>1 DEF Probe, Scan
  <2> QED BY <1>1, <2>1, <2>2 DEF Probe
<1>2. CASE Register(p) \/ Create(p)
  <2>1. scan[p].pc = "create" => scan[p].left # {} /\ FirstOf(p)[1] \notin Misfits
    BY DEF MakingHolds
  <2>2. /\ scan[p].pc \in {"register", "create"}
        /\ \/ scan' = Released(p) /\ UNCHANGED <<registry, page>>
           \/ scan' = Making(p) /\ UNCHANGED <<registry, page>>
           \/ scan' = Past(p) /\ UNCHANGED <<registry, page>>
           \/ scan' = Spoiled(Past(p), p) /\ Broadcast
    BY <1>2, <2>1, RegisterFacts
  <2>3. \A scans \in {Past(p), Making(p)} : \A q \in Processes :
          /\ scans \in [Processes -> Scan] /\ scans[q].gone = scan[q].gone
          /\ scans[q].pc = "commit" <=> scan[q].pc = "commit"
    <3>1. \A q \in Processes \ {p} : Past(p)[q] = scan[q] /\ Making(p)[q] = scan[q]
      BY RegisterScans
    <3>2. /\ Past(p)[p].pc = "register" /\ Making(p)[p].pc = "create"
          /\ \A scans \in {Past(p), Making(p)} : \A q \in Processes :
                scans \in [Processes -> Scan] /\ scans[q].gone = scan[q].gone
      BY RegisterScans
    <3> QED BY <2>2, <3>1, <3>2
  <2>4. \A q \in Processes : /\ Spoiled(Past(p), p)[q].gone = scan[q].gone
                             /\ Spoiled(Past(p), p)[q].pc = "commit" <=> scan[q].pc = "commit"
    BY <2>3, SpoiledScans
  <2>5. \A q \in Processes : scan'[q].gone = scan[q].gone
    BY <2>2, <2>3, <2>4, ReleasedGone
  <2>6. \A q \in Processes : scan'[q].pc = "commit" <=> scan[q].pc = "commit"
    BY <2>2, <2>3, <2>4, ReleasedGone
  <2>7. CASE UNCHANGED <<registry, page>>
    BY <2>5, <2>6, <2>7
  <2>8. CASE Broadcast
    BY <2>5, <2>6, <2>8, BroadcastFacts
  <2> QED BY <2>2, <2>7, <2>8
<1>3. CASE MarkUnreachable(p)
  <2>1. PICK stale : /\ scan' = [scan EXCEPT ![p] = [@ EXCEPT !.pc = "commit", !.gone = stale]]
                     /\ IF stale = {} THEN page' = page ELSE Broadcast
                     /\ registry' = registry /\ scan[p].pc = "register"
    BY <1>3 DEF MarkUnreachable
  <2>2. scan'[p].pc = "commit" /\ scan'[p].gone = stale /\ \A q \in Processes \ {p} : scan'[q] = scan[q]
    BY <1>0, <2>1 DEF Scan
  <2>3. CASE stale = {}
    BY <2>1, <2>2, <2>3
  <2>4. CASE stale # {}
    BY <2>1, <2>2, <2>4, BroadcastFacts
  <2> QED BY <2>3, <2>4
<1>4. CASE Commit(p)
  <2>1. /\ registry' = Offline(p) /\ scan' = Spoiled(Released(p), p) /\ page' = page
        /\ Released(p) \in [Processes -> Scan]
    BY <1>4, ScanTypes DEF Commit
  <2>2. \A q \in Processes : /\ Released(p)[q] = IF q = p THEN NoScan ELSE scan[q]
    BY <1>0 DEF Released
  <2>3. \A q \in Processes : /\ scan'[q].gone = IF q = p THEN {} ELSE scan[q].gone
                             /\ scan'[q].pc = IF q = p THEN "idle" ELSE scan[q].pc
    <3> SUFFICES ASSUME NEW q \in Processes
                 PROVE  /\ scan'[q].gone = IF q = p THEN {} ELSE scan[q].gone
                        /\ scan'[q].pc = IF q = p THEN "idle" ELSE scan[q].pc
      OBVIOUS
    <3>1. scan'[q].gone = Released(p)[q].gone /\ scan'[q].pc = Released(p)[q].pc
      BY <2>1, SpoiledScans
    <3>2. NoScan.gone = {} /\ NoScan.pc = "idle"
      BY DEF NoScan
    <3>3. Released(p)[q] = IF q = p THEN NoScan ELSE scan[q]
      BY <2>2
    <3> QED BY <3>1, <3>2, <3>3
  <2>4. scan[p].gone = {} => registry' = registry
    BY <1>0, <2>1 DEF Offline
  <2> QED BY <2>1, <2>3, <2>4
<1> QED BY <1>1, <1>2, <1>3, <1>4 DEF ScanStep

LEMMA NextPagesHold == ASSUME TypeOK, MakingHolds, PagesHold, [Next]_vars PROVE PagesHold'
<1> USE DEF PagesHold
<1>0. scan \in [Processes -> Scan] /\ page \in [Pages -> Page] /\ "web" \in Processes
  BY DEF TypeOK, Processes
<1>1. ASSUME NEW g \in Pages, PageLists(g) PROVE PagesHold'
  <2>1. \A q \in Processes : scan'[q].gone = scan[q].gone /\ (scan'[q].pc = "commit" <=> scan[q].pc = "commit")
    BY <1>0, <1>1, BegunGone DEF PageLists
  <2>2. page'[g].pc = "listing" /\ (\A h \in Pages \ {g} : page'[h] = page[h]) /\ registry' = registry
    BY <1>0, <1>1 DEF PageLists, Page
  <2> QED BY <2>1, <2>2
<1>2. ASSUME NEW g \in Pages, PageShows(g) PROVE PagesHold'
  <2>1. PICK early : /\ early <=> \E p \in Processes : scan[p].gone # {}
                     /\ page' = [page EXCEPT ![g] = [@ EXCEPT !.pc = "rest", !.shown = registry,
                                                              !.early = early]]
    BY <1>2 DEF PageShows
  <2>2. page'[g].shown = registry /\ page'[g].early = early /\ \A h \in Pages \ {g} : page'[h] = page[h]
    BY <1>0, <2>1 DEF Page
  <2>3. UNCHANGED <<scan, registry>>
    BY <1>2 DEF PageShows
  <2> QED BY <2>1, <2>2, <2>3
<1>3. CASE Disconnected
  <2>1. \A g \in Pages : page'[g].want
    BY <1>0, <1>3 DEF Disconnected, Page
  <2>2. \A q \in Processes : scan'[q] = scan[q] \/ scan'[q].gone = {}
    BY <1>0, <1>3 DEF Disconnected, Released, NoScan
  <2> QED BY <2>1, <2>2
<1>4. ASSUME NEW a \in Agents, Moves(a) PROVE PagesHold'
  <2>1. \A q \in Processes : scan'[q].gone = scan[q].gone /\ scan'[q].pc = scan[q].pc
    BY <1>0, <1>4 DEF Moves, Scan
  <2> QED BY <1>4, <2>1 DEF Moves
<1>5. ASSUME NEW p \in Processes, ScanAsked(p) PROVE PagesHold'
  <2>1. \A q \in Processes : scan'[q].gone = scan[q].gone /\ (scan'[q].pc = "commit" <=> scan[q].pc = "commit")
    BY <1>5, BegunGone DEF ScanAsked
  <2> QED BY <1>5, <2>1 DEF ScanAsked
<1>6. CASE UNCHANGED peripheral
  BY <1>6 DEF peripheral
<1> QED BY PeripheralSteps, ScanStepPages, <1>1, <1>2, <1>3, <1>4, <1>5, <1>6 DEF ScanOrPage

-----------------------------------------------------------------------------
(* Types, and what is to be made.                                          *)
LEMMA RegistryInvariant == Spec => [](TypeOK /\ MakingHolds)
<1>1. Init => TypeOK /\ MakingHolds
  BY InitPeripheralTypeOK DEF Init, InitPeripheral, NoScan, MakingHolds
<1>2. (TypeOK /\ MakingHolds) /\ [Next]_vars => (TypeOK /\ MakingHolds)'
  BY NextTypeOK, NextMakingHolds
<1> QED BY <1>1, <1>2, PTL DEF Spec

(* For every fleet, network and number of pages: the registry, the pages,  *)
(* the processes and the requests keep their types.                        *)
THEOREM TypeCorrect == Spec => []TypeOK
<1> QED BY RegistryInvariant, PTL

(* For every number of requests and process ids: as long as requests do    *)
(* not meet or die half done, the Beat that runs is the one in the file,   *)
(* whatever crashes and whichever process ids are used again.              *)
THEOREM BeatsAccounted == Spec => []BeatAccounted
<1>1. Init => BeatHolds
  BY InitBeatHolds
<1>2. TypeOK /\ BeatHolds /\ [Next]_vars => BeatHolds'
  BY StepsOfBoth, NextBeatHolds DEF TypeOK
<1>3. BeatHolds => BeatAccounted
  BY DEF BeatHolds, BeatAccounted, Beats
<1> QED BY <1>1, <1>2, <1>3, TypeCorrect, PTL DEF Spec

(* For every fleet and network: after a scan of the network as it still is *)
(* the registry shows it, whatever was known before and whatever the scan  *)
(* of the other process writes at the same time.                           *)
THEOREM ScansReconcile == Spec => []Reconciled
<1>1. Init => ScansHold /\ Reconciled
  BY InitScansHold
<1>2. TypeOK /\ MakingHolds /\ (ScansHold /\ Reconciled) /\ [Next]_vars => (ScansHold /\ Reconciled)'
  BY NextScansHold
<1> QED BY <1>1, <1>2, RegistryInvariant, PTL DEF Spec

(* For every number of pages: one that has come to rest shows the registry *)
(* unless it listed between a broadcast and its commit.                    *)
THEOREM PagesShowTheRegistry == Spec => []PageTrue
<1>1. Init => PagesHold
  BY InitPagesHold
<1>2. TypeOK /\ MakingHolds /\ PagesHold /\ [Next]_vars => PagesHold'
  BY NextPagesHold
<1>3. PagesHold => PageTrue
  BY DEF PagesHold, PageTrue
<1> QED BY <1>1, <1>2, <1>3, RegistryInvariant, PTL DEF Spec

-----------------------------------------------------------------------------
(* Lines in a queue. *)

Of(e, source) == e.type = "log" /\ e.source = source

(* The lines of a source are in order, after m and up to n.                *)
Sorted(q, source, m, n) ==
  /\ \A i \in 1..Len(q) : Of(q[i], source) => q[i].line \in (m + 1)..n
  /\ \A i, j \in 1..Len(q) :
       i < j /\ Of(q[i], source) /\ Of(q[j], source) => q[i].line < q[j].line

(* The output that is in the queue is all of it, after m and up to n.      *)
Whole(q, m, n) ==
  /\ m <= n /\ Sorted(q, "stdout", m, n)
  /\ \A l \in (m + 1)..n : \E i \in 1..Len(q) : Of(q[i], "stdout") /\ q[i].line = l

(* What an event is a line of.                                             *)
LEMMA EventKinds ==
  /\ \A n \in Nat : /\ Out(n) \in Events /\ Of(Out(n), "stdout") /\ Out(n).line = n
                    /\ ~Of(Out(n), "file") /\ Out(n) # End /\ Out(n).type # "exit"
  /\ \A n \in Nat : /\ File(n) \in Events /\ Of(File(n), "file") /\ File(n).line = n
                    /\ ~Of(File(n), "stdout") /\ File(n) # End /\ File(n).type # "exit"
  /\ \A c \in {-1, 0, 1} : /\ Exit(c) \in Events /\ Exit(c).type = "exit" /\ Exit(c).code = c
                           /\ ~Of(Exit(c), "stdout") /\ ~Of(Exit(c), "file") /\ Exit(c) # End
  /\ Said \in Events /\ ~Of(Said, "stdout") /\ ~Of(Said, "file") /\ Said # End
  /\ Said.type # "exit"
  /\ End \in Events /\ ~Of(End, "stdout") /\ ~Of(End, "file") /\ End.type # "exit"
  /\ \A e \in Events : Of(e, "stdout") \/ Of(e, "file") => e.line \in Nat
<1>1. \A n \in Nat : Out(n) \in Events /\ File(n) \in Events
  BY DEF Events
<1>2. \A c \in {-1, 0, 1} : Exit(c) \in Events
  BY DEF Events
<1>3. Said \in Events /\ End \in Events
  BY DEF Events
<1>4. \A n : /\ Of(Out(n), "stdout") /\ Out(n).line = n /\ ~Of(Out(n), "file")
             /\ Out(n) # End /\ Out(n).type # "exit"
  BY DEF Out, Of, End
<1>5. \A n : /\ Of(File(n), "file") /\ File(n).line = n /\ ~Of(File(n), "stdout")
             /\ File(n) # End /\ File(n).type # "exit"
  BY DEF File, Of, End
<1>6. \A c : /\ Exit(c).type = "exit" /\ Exit(c).code = c
             /\ ~Of(Exit(c), "stdout") /\ ~Of(Exit(c), "file") /\ Exit(c) # End
  BY DEF Exit, Of, End
<1>7. /\ ~Of(Said, "stdout") /\ ~Of(Said, "file") /\ Said # End /\ Said.type # "exit"
      /\ ~Of(End, "stdout") /\ ~Of(End, "file") /\ End.type # "exit"
  BY DEF Said, End, Of
<1>8. ASSUME NEW e \in Events, Of(e, "stdout") \/ Of(e, "file")
      PROVE  e.line \in Nat
  <2>1. \/ \E n \in Nat : e = Out(n)
        \/ \E n \in Nat : e = File(n)
        \/ e = Said \/ e = End \/ \E c \in {-1, 0, 1} : e = Exit(c)
    BY DEF Events
  <2>2. CASE \E n \in Nat : e = Out(n)
    BY <2>2, <1>4
  <2>3. CASE \E n \in Nat : e = File(n)
    BY <2>3, <1>5
  <2> QED BY <2>1, <2>2, <2>3, <1>6, <1>7, <1>8
<1> QED BY <1>1, <1>2, <1>3, <1>4, <1>5, <1>6, <1>7, <1>8

(* What a worker puts into the queue that has failed.                      *)
LEMMA CrashedFacts ==
  /\ Crashed \in Seq(Events)
  /\ \A i \in 1..Len(Crashed) :
       /\ ~Of(Crashed[i], "stdout") /\ ~Of(Crashed[i], "file")
       /\ Crashed[i].type = "exit" =>
            /\ gen = "open" /\ Crashed[i].code = -1
            /\ \A j \in 1..Len(Crashed) : j > i => Crashed[j] = End
<1>1. /\ Said \in Events /\ Exit(-1) \in Events /\ End \in Events
      /\ Said.type # "exit" /\ End.type # "exit" /\ Exit(-1).code = -1
      /\ \A e \in {Said, Exit(-1), End} : ~Of(e, "stdout") /\ ~Of(e, "file")
  BY EventKinds
<1>2. CASE gen = "open"
  <2>1. Crashed = <<Said, Exit(-1), End>>
    BY <1>2 DEF Crashed
  <2>2. /\ Crashed \in Seq(Events) /\ Len(Crashed) = 3
        /\ Crashed[1] = Said /\ Crashed[2] = Exit(-1) /\ Crashed[3] = End
    BY <1>1, <2>1
  <2> QED BY <1>1, <1>2, <2>2
<1>3. CASE gen # "open"
  <2>1. Crashed = <<End>>
    BY <1>3 DEF Crashed
  <2>2. Crashed \in Seq(Events) /\ Len(Crashed) = 1 /\ Crashed[1] = End
    BY <1>1, <2>1
  <2> QED BY <1>1, <2>2
<1> QED BY <1>2, <1>3

(* An empty queue, and the bounds.                                         *)
LEMMA SortedEmpty ==
  ASSUME NEW source, NEW m \in Int, NEW n \in Int
  PROVE  Sorted(<<>>, source, m, n)
BY DEF Sorted

LEMMA SortedWider ==
  ASSUME NEW q \in Seq(Events), NEW source \in {"stdout", "file"},
         NEW m \in Int, NEW n \in Int, NEW k \in Int, NEW l \in Int,
         Sorted(q, source, m, n), k <= m, n <= l
  PROVE  Sorted(q, source, k, l)
<1>1. \A i \in 1..Len(q) : Of(q[i], source) => q[i].line \in Int
  BY ElementOfSeq, EventKinds
<1> QED BY <1>1 DEF Sorted

(* What is taken from the front.                                           *)
LEMMA SortedTail ==
  ASSUME NEW q \in Seq(Events), q # <<>>, NEW source \in {"stdout", "file"},
         NEW m \in Int, NEW n \in Int, Sorted(q, source, m, n)
  PROVE  /\ Sorted(Tail(q), source, m, n)
         /\ Of(Head(q), source) =>
              /\ Head(q).line \in (m + 1)..n
              /\ Sorted(Tail(q), source, Head(q).line, n)
<1>1. /\ Len(q) \in Nat /\ Len(q) >= 1 /\ Head(q) = q[1] /\ Len(Tail(q)) = Len(q) - 1
      /\ \A i \in 1..Len(Tail(q)) : Tail(q)[i] = q[i + 1]
  BY HeadTailProperties, EmptySeq, LenProperties
<1>2. \A i \in 1..Len(q) : Of(q[i], source) => q[i].line \in Int
  BY ElementOfSeq, EventKinds
<1>3. Sorted(Tail(q), source, m, n)
  BY SMTT(30), <1>1, <1>2 DEF Sorted
<1>4. ASSUME Of(Head(q), source)
      PROVE  /\ Head(q).line \in (m + 1)..n
             /\ Sorted(Tail(q), source, Head(q).line, n)
  <2>1. Head(q).line \in (m + 1)..n /\ Of(q[1], source) /\ 1 \in 1..Len(q)
    BY <1>1, <1>4 DEF Sorted
  <2>2. ASSUME NEW i \in 1..Len(Tail(q)), Of(Tail(q)[i], source)
        PROVE  Tail(q)[i].line \in (Head(q).line + 1)..n
    <3>1. i + 1 \in 1..Len(q) /\ Of(q[i + 1], source) /\ 1 < i + 1
      BY <1>1, <2>2
    <3>2. q[1].line < q[i + 1].line /\ q[i + 1].line \in (m + 1)..n
      BY <2>1, <3>1 DEF Sorted
    <3> QED BY <3>1, <3>2, <1>1, <2>1
  <2> QED BY <2>1, <2>2, <1>3 DEF Sorted
<1> QED BY <1>3, <1>4

(* What is lost from the end.                                              *)
LEMMA SortedPrefix ==
  ASSUME NEW q \in Seq(Events), NEW k \in 0..Len(q), NEW source,
         NEW m \in Int, NEW n \in Int, Sorted(q, source, m, n)
  PROVE  Sorted(SubSeq(q, 1, k), source, m, n)
<1>1. Len(q) \in Nat /\ \A i \in 1..Len(q) : q[i] \in Events
  BY ElementOfSeq, LenProperties
<1>2. Len(SubSeq(q, 1, k)) = k /\ \A i \in 1..k : SubSeq(q, 1, k)[i] = q[i] /\ i \in 1..Len(q)
  BY <1>1, SubSeqProperties
<1>3. \A i \in 1..k : Of(q[i], source) => q[i].line \in (m + 1)..n
  BY <1>2 DEF Sorted
<1>4. \A i, j \in 1..k : i < j /\ Of(q[i], source) /\ Of(q[j], source) => q[i].line < q[j].line
  BY <1>2 DEF Sorted
<1>5. \A i \in 1..k : Of(SubSeq(q, 1, k)[i], source) => SubSeq(q, 1, k)[i].line \in (m + 1)..n
  BY <1>2, <1>3
<1>6. \A i, j \in 1..k :
        i < j /\ Of(SubSeq(q, 1, k)[i], source) /\ Of(SubSeq(q, 1, k)[j], source)
          => SubSeq(q, 1, k)[i].line < SubSeq(q, 1, k)[j].line
  BY <1>2, <1>4
<1> HIDE DEF Of
<1> QED BY <1>2, <1>5, <1>6 DEF Sorted

(* What is put behind.                                                     *)
LEMMA SortedConcat ==
  ASSUME NEW p \in Seq(Events), NEW q \in Seq(Events), NEW source \in {"stdout", "file"},
         NEW m \in Int, NEW n \in Int, NEW k \in Int, m <= n, n <= k,
         Sorted(p, source, m, n), Sorted(q, source, n, k)
  PROVE  Sorted(p \o q, source, m, k)
<1>1. /\ Len(p) \in Nat /\ Len(q) \in Nat /\ Len(p \o q) = Len(p) + Len(q)
      /\ \A i \in 1..Len(p) : (p \o q)[i] = p[i]
      /\ \A i \in 1..Len(p \o q) : i > Len(p) => i - Len(p) \in 1..Len(q) /\ (p \o q)[i] = q[i - Len(p)]
  BY ConcatProperties, LenProperties
<1>2. /\ \A i \in 1..Len(p) : Of(p[i], source) => p[i].line \in Int
      /\ \A i \in 1..Len(q) : Of(q[i], source) => q[i].line \in Int
  BY ElementOfSeq, EventKinds
<1>3. ASSUME NEW i \in 1..Len(p \o q), Of((p \o q)[i], source)
      PROVE  /\ (p \o q)[i].line \in (m + 1)..k
             /\ i <= Len(p) => (p \o q)[i].line <= n
             /\ i > Len(p) => (p \o q)[i].line > n
  <2>1. CASE i <= Len(p)
    BY <1>1, <1>2, <1>3, <2>1 DEF Sorted
  <2>2. CASE i > Len(p)
    BY <1>1, <1>2, <1>3, <2>2 DEF Sorted
  <2> QED BY <2>1, <2>2, <1>1
<1>4. ASSUME NEW i \in 1..Len(p \o q), NEW j \in 1..Len(p \o q), i < j,
             Of((p \o q)[i], source), Of((p \o q)[j], source)
      PROVE  (p \o q)[i].line < (p \o q)[j].line
  <2>1. CASE j <= Len(p)
    BY <1>1, <1>4, <2>1 DEF Sorted
  <2>2. CASE i > Len(p)
    <3>1. /\ i - Len(p) \in 1..Len(q) /\ j - Len(p) \in 1..Len(q) /\ i - Len(p) < j - Len(p)
          /\ (p \o q)[i] = q[i - Len(p)] /\ (p \o q)[j] = q[j - Len(p)]
      BY <1>1, <1>4, <2>2
    <3> QED BY <1>4, <3>1 DEF Sorted
  <2>3. CASE i <= Len(p) /\ j > Len(p)
    BY SMTT(30), <1>3, <1>4, <2>3
  <2> QED BY <2>1, <2>2, <2>3, <1>1
<1> QED BY <1>3, <1>4 DEF Sorted

LEMMA WholeEmpty ==
  \A m \in Int : /\ Whole(<<>>, m, m)
                 /\ \A n \in Int : Whole(<<>>, m, n) => n = m
BY SortedEmpty DEF Whole

(* Other events than output, put behind or taken away.                     *)
LEMMA WholeOther ==
  ASSUME NEW p \in Seq(Events), NEW q \in Seq(Events), NEW m \in Int, NEW n \in Int,
         Whole(p, m, n), \A i \in 1..Len(q) : ~Of(q[i], "stdout")
  PROVE  Whole(p \o q, m, n)
<1>1. Sorted(q, "stdout", n, n)
  BY DEF Sorted
<1>2. Sorted(p \o q, "stdout", m, n)
  BY <1>1, SortedConcat DEF Whole
<1>3. /\ Len(p) \in Nat /\ Len(q) \in Nat /\ Len(p \o q) = Len(p) + Len(q)
      /\ \A i \in 1..Len(p) : (p \o q)[i] = p[i]
  BY ConcatProperties, LenProperties
<1> QED BY <1>2, <1>3 DEF Whole

(* The next line, put behind.                                              *)
LEMMA WholeNext ==
  ASSUME NEW q \in Seq(Events), NEW e \in Events, NEW m \in Int, NEW n \in Int,
         Whole(q, m, n), Of(e, "stdout"), e.line = n + 1
  PROVE  Whole(Append(q, e), m, n + 1)
<1>1. <<e>> \in Seq(Events) /\ Append(q, e) = q \o <<e>>
  BY AppendIsConcat
<1>2. Sorted(<<e>>, "stdout", n, n + 1)
  BY DEF Sorted
<1>3. Sorted(Append(q, e), "stdout", m, n + 1)
  <2>1. Sorted(q, "stdout", m, n) /\ m <= n /\ n <= n + 1 /\ n + 1 \in Int
    BY DEF Whole
  <2> QED BY <1>1, <1>2, <2>1, SortedConcat
<1>4. /\ Len(q) \in Nat /\ Len(Append(q, e)) = Len(q) + 1 /\ Append(q, e)[Len(q) + 1] = e
      /\ \A i \in 1..Len(q) : Append(q, e)[i] = q[i]
  BY AppendProperties, LenProperties
<1>5. ASSUME NEW l \in (m + 1)..(n + 1)
      PROVE  \E i \in 1..Len(Append(q, e)) : Of(Append(q, e)[i], "stdout") /\ Append(q, e)[i].line = l
  <2>1. CASE l = n + 1
    BY <1>4, <2>1
  <2>2. CASE l \in (m + 1)..n
    <3>1. PICK i \in 1..Len(q) : Of(q[i], "stdout") /\ q[i].line = l
      BY <2>2 DEF Whole
    <3>2. i \in 1..Len(Append(q, e)) /\ Append(q, e)[i] = q[i]
      BY <1>4
    <3> QED BY <3>1, <3>2
  <2> QED BY <2>1, <2>2
<1> QED BY SMTT(30), <1>3, <1>5 DEF Whole

(* The first event, taken away.                                            *)
LEMMA WholeTail ==
  ASSUME NEW q \in Seq(Events), q # <<>>, NEW m \in Int, NEW n \in Int, Whole(q, m, n)
  PROVE  /\ ~Of(Head(q), "stdout") => Whole(Tail(q), m, n)
         /\ Of(Head(q), "stdout") => /\ Head(q).line = m + 1 /\ m < n
                                     /\ Whole(Tail(q), m + 1, n)
<1>1. /\ Len(q) \in Nat /\ Len(q) >= 1 /\ Head(q) = q[1] /\ Len(Tail(q)) = Len(q) - 1
      /\ \A i \in 1..Len(Tail(q)) : Tail(q)[i] = q[i + 1]
  BY HeadTailProperties, EmptySeq, LenProperties
<1>2. \A i \in 1..Len(q) : i # 1 => i - 1 \in 1..Len(Tail(q)) /\ Tail(q)[i - 1] = q[i]
  BY <1>1
<1>3. CASE ~Of(Head(q), "stdout")
  <2>1. Sorted(Tail(q), "stdout", m, n)
    BY SortedTail DEF Whole
  <2>2. ASSUME NEW l \in (m + 1)..n
        PROVE  \E i \in 1..Len(Tail(q)) : Of(Tail(q)[i], "stdout") /\ Tail(q)[i].line = l
    <3>1. PICK i \in 1..Len(q) : Of(q[i], "stdout") /\ q[i].line = l
      BY DEF Whole
    <3> QED BY <3>1, <1>1, <1>2, <1>3
  <2> QED BY <1>3, <2>1, <2>2 DEF Whole
<1>4. CASE Of(Head(q), "stdout")
  <2>1. Head(q).line \in (m + 1)..n /\ Sorted(Tail(q), "stdout", Head(q).line, n)
    BY <1>4, SortedTail DEF Whole
  <2>2. PICK i \in 1..Len(q) : Of(q[i], "stdout") /\ q[i].line = m + 1
    BY <2>1 DEF Whole
  <2>3. i = 1
    <3>1. SUFFICES ASSUME i # 1 PROVE FALSE
      OBVIOUS
    <3>2. 1 \in 1..Len(q) /\ 1 < i /\ q[1].line < q[i].line
      BY <1>1, <1>4, <2>2, <3>1 DEF Whole, Sorted
    <3> QED BY <3>2, <2>1, <2>2, <1>1
  <2>4. Head(q).line = m + 1 /\ m < n /\ Sorted(Tail(q), "stdout", m + 1, n)
    BY <2>1, <2>2, <2>3, <1>1
  <2>5. ASSUME NEW l \in (m + 1 + 1)..n
        PROVE  \E j \in 1..Len(Tail(q)) : Of(Tail(q)[j], "stdout") /\ Tail(q)[j].line = l
    <3>1. l \in (m + 1)..n
      BY <2>4
    <3>2. PICK j \in 1..Len(q) : Of(q[j], "stdout") /\ q[j].line = l
      BY <3>1 DEF Whole
    <3>3. j # 1
      BY <3>2, <1>1, <2>4
    <3> QED BY <3>2, <3>3, <1>2
  <2>6. m + 1 <= n
    BY <2>4
  <2>7. Whole(Tail(q), m + 1, n)
    BY <2>4, <2>5, <2>6 DEF Whole
  <2> QED BY <1>4, <2>4, <2>7
<1> QED BY <1>3, <1>4

(* The end lost, from some point on.                                       *)
LEMMA WholePrefix ==
  ASSUME NEW q \in Seq(Events), NEW k \in 0..Len(q), NEW m \in Nat, NEW n \in Nat,
         Whole(q, m, n)
  PROVE  \E l \in m..n : Whole(SubSeq(q, 1, k), m, l)
<1> DEFINE p == SubSeq(q, 1, k)
           Lost == {l \in (m + 1)..n : \A i \in 1..k : ~(Of(q[i], "stdout") /\ q[i].line = l)}
<1>1. Len(q) \in Nat /\ \A i \in 1..Len(q) : q[i] \in Events
  BY ElementOfSeq, LenProperties
<1>2. Len(p) = k /\ \A i \in 1..k : p[i] = q[i]
  BY <1>1, SubSeqProperties
<1>3. Sorted(p, "stdout", m, n)
  BY SortedPrefix DEF Whole
<1>4. CASE Lost = {}
  <2>1. \A l \in (m + 1)..n : \E i \in 1..Len(p) : Of(p[i], "stdout") /\ p[i].line = l
    BY <1>2, <1>4
  <2> QED BY SMTT(30), <1>3, <2>1 DEF Whole
<1>5. CASE Lost # {}
  <2>1. PICK l \in Lost : \A j \in Lost : l <= j
    <3>1. Lost \in SUBSET Nat
      OBVIOUS
    <3> QED BY <1>5, <3>1, LeastNumber
  <2>2. l \in (m + 1)..n /\ l - 1 \in m..n
    BY <2>1
  <2>3. PICK i \in 1..Len(q) : Of(q[i], "stdout") /\ q[i].line = l
    BY <2>2 DEF Whole
  <2>4. i > k
    BY <2>1, <2>3
  <2>5. ASSUME NEW j \in 1..Len(p), Of(p[j], "stdout")
        PROVE  p[j].line \in (m + 1)..(l - 1)
    <3>1. j \in 1..Len(q) /\ j < i /\ p[j] = q[j]
      BY SMTT(30), <1>1, <1>2, <2>4
    <3>2. q[j].line < q[i].line /\ q[j].line \in (m + 1)..n
      BY <3>1, <2>3, <2>5 DEF Whole, Sorted
    <3> QED BY <3>1, <3>2, <2>2, <2>3
  <2>6. ASSUME NEW j \in (m + 1)..(l - 1)
        PROVE  \E x \in 1..Len(p) : Of(p[x], "stdout") /\ p[x].line = j
    <3>1. j \in (m + 1)..n /\ ~(l <= j)
      BY <2>2
    <3>2. j \notin Lost
      BY <2>1, <3>1
    <3>3. PICK x \in 1..k : Of(q[x], "stdout") /\ q[x].line = j
      BY <3>1, <3>2
    <3> QED BY <3>3, <1>2
  <2>7. Sorted(p, "stdout", m, l - 1)
    BY <1>3, <2>5 DEF Sorted
  <2>8. m <= l - 1
    BY <2>2
  <2>9. Whole(p, m, l - 1)
    <3> HIDE DEF p, Lost
    <3> QED BY <2>6, <2>7, <2>8 DEF Whole
  <2> QED BY <2>2, <2>9
<1> QED BY <1>4, <1>5

-----------------------------------------------------------------------------
(* The types. *)

LEMMA TerminalInitTypeOK ==
  ASSUME TerminalInit
  PROVE  TerminalTypeOK
<1>1. <<>> \in Seq(Events) /\ <<>> \in Seq({"EXECUTE", "STOP"})
  OBVIOUS
<1>2. <<>> \in Seq(Nat) /\ <<0>> \in Seq(Nat)
  OBVIOUS
<1>3. log \in Seq(Nat)
  BY <1>2 DEF TerminalInit
<1> QED BY <1>1, <1>3 DEF TerminalInit, TerminalTypeOK

LEMMA OutputTypeOK ==
  ASSUME TerminalTypeOK, Output
  PROVE  TerminalTypeOK'
<1> USE DEF TerminalTypeOK
<1>1. CASE PipeLine
  <2>1. Out(read + 1) \in Events
    BY EventKinds
  <2>2. queue' \in Seq(Events)
    BY <1>1, <2>1, AppendProperties DEF PipeLine
  <2> QED BY <1>1, <2>2 DEF PipeLine, caller, network, logfile, monitor, tasks
<1>2. CASE PipeEnds
  BY <1>2 DEF PipeEnds, caller, network, service, logfile, monitor, runner
<1>3. CASE PipeTail
  <2>1. queue' \in Seq(Events) /\ tail' \in Seq(Events)
    BY <1>3, AppendProperties, HeadTailProperties DEF PipeTail
  <2> QED BY <1>3, <2>1 DEF PipeTail, caller, network, logfile, runner, tasks
<1> QED BY <1>1, <1>2, <1>3 DEF Output

LEMMA CallerTypeOK ==
  ASSUME TerminalTypeOK, Caller \/ ConnectFails \/ SendStop \/ Break
  PROVE  TerminalTypeOK'
<1> USE DEF TerminalTypeOK
<1>1. CASE Connect
  BY <1>1 DEF Connect, service, logfile, monitor, runner, tasks
<1>2. CASE Receive
  <2>1. seen' \in Seq(Events) /\ toClient' \in Seq(Events)
    BY <1>2, AppendProperties, HeadTailProperties DEF Receive
  <2> QED BY <1>2, <2>1 DEF Receive, service, logfile, monitor, runner, tasks
<1>3. CASE StreamEnds
  BY <1>3 DEF StreamEnds, network, service, logfile, monitor, runner, tasks
<1>4. CASE ConnectFails
  <2>1. Said \in Events /\ Exit(-1) \in Events
    BY EventKinds
  <2>2. seen' \in Seq(Events)
    BY <1>4, <2>1 DEF ConnectFails
  <2> QED BY <1>4, <2>2 DEF ConnectFails, network, service, logfile, monitor, runner, tasks
<1>5. CASE SendStop
  BY <1>5 DEF SendStop, caller, service, logfile, monitor, runner, tasks
<1>6. CASE Break
  <2>1. toServer' \in Seq({"EXECUTE", "STOP"})
    BY <1>6, SubSeqProperties, ElementOfSeq, LenProperties DEF Break
  <2>2. toClient' \in Seq(Events)
    BY <1>6, SubSeqProperties, ElementOfSeq, LenProperties DEF Break
  <2> QED BY SMTT(30), <1>6, <2>1, <2>2 DEF Break, caller, service, logfile, monitor, runner, tasks
<1> QED BY <1>1, <1>2, <1>3, <1>4, <1>5, <1>6 DEF Caller

LEMMA ServiceTypeOK ==
  ASSUME TerminalTypeOK, Service \/ Update
  PROVE  TerminalTypeOK'
<1> USE DEF TerminalTypeOK
<1>1. CASE Accept
  BY <1>1 DEF Accept, Hangup, caller, logfile, monitor, runner
<1>2. CASE HearStop
  <2>1. toServer' \in Seq({"EXECUTE", "STOP"})
    BY <1>2, HeadTailProperties DEF HearStop
  <2> QED BY <1>2, <2>1 DEF HearStop, caller, logfile, monitor, runner, tasks
<1>3. CASE Send
  <2>1. queue' \in Seq(Events) /\ toClient' \in Seq(Events)
    BY <1>3, AppendProperties, HeadTailProperties DEF Send
  <2> QED BY <1>3, <2>1 DEF Send, caller, logfile, monitor, runner, tasks
<1>4. CASE SendFails
  <2>1. queue' \in Seq(Events)
    BY <1>4, HeadTailProperties DEF SendFails
  <2> QED BY <1>4, <2>1 DEF SendFails, caller, network, logfile, monitor, runner, tasks
<1>5. CASE Finish
  <2>1. queue' \in Seq(Events)
    BY <1>5, HeadTailProperties DEF Finish
  <2> QED BY <1>5, <2>1 DEF Finish, Hangup, caller, logfile, monitor, runner, tasks
<1>6. CASE Update
  BY <1>6 DEF Update, Hangup, caller, logfile, monitor, runner, tasks
<1> QED BY <1>1, <1>2, <1>3, <1>4, <1>5, <1>6 DEF Service

LEMMA PipelineTypeOK ==
  ASSUME TerminalTypeOK, Pipeline \/ StartProcess \/ StartFails
  PROVE  TerminalTypeOK'
<1> USE DEF TerminalTypeOK
<1>0. /\ Said \in Events /\ End \in Events /\ \A c \in {-1, 0, 1} : Exit(c) \in Events
      /\ code \in {-1, 0, 1}
  BY EventKinds
<1>1. CASE WaitReturns
  BY <1>1 DEF WaitReturns, caller, network, service, logfile, monitor, runner
<1>2. CASE Drain
  BY <1>2 DEF Drain, caller, network, service, logfile, monitor, runner
<1>3. CASE Close
  BY <1>3 DEF Close, Killed, caller, network, logfile, monitor
<1>4. CASE KillWaited
  BY <1>4 DEF KillWaited, caller, network, service, logfile, monitor, runner
<1>5. CASE StopMonitor
  <2>1. <<End>> \in Seq(Events) /\ <<Said, End>> \in Seq(Events)
    BY <1>0
  <2>2. tail' \in Seq(Events)
    BY <1>5, <2>1, ConcatProperties DEF StopMonitor
  <2> QED BY <1>5, <2>2 DEF StopMonitor, caller, network, service, logfile, runner
<1>6. CASE Return
  <2>1. Crashed \in Seq(Events) /\ <<Exit(code), End>> \in Seq(Events)
    BY <1>0, CrashedFacts
  <2>2. queue' \in Seq(Events)
    BY <1>6, <2>1, ConcatProperties DEF Return
  <2> QED BY <1>6, <2>2 DEF Return, caller, network, logfile, runner
<1>7. CASE StartProcess
  BY <1>7 DEF StartProcess, caller, network, service, logfile
<1>8. CASE StartFails
  <2>1. <<Said, Exit(-1), End>> \in Seq(Events)
    BY <1>0
  <2>2. queue' \in Seq(Events)
    BY <1>8, <2>1, ConcatProperties DEF StartFails
  <2> QED BY <1>8, <2>2 DEF StartFails, caller, network, logfile, monitor, runner
<1>9. CASE StopMonitorFails
  <2>1. queue' \in Seq(Events)
    BY <1>9, CrashedFacts, ConcatProperties DEF StopMonitorFails
  <2> QED BY <1>9, <2>1 DEF StopMonitorFails, caller, network, logfile, monitor, runner
<1> QED BY <1>1, <1>2, <1>3, <1>4, <1>5, <1>6, <1>7, <1>8, <1>9 DEF Pipeline

(* What _read_file puts into the queue of the monitor.                     *)
ReadLines == [i \in 1..(Len(log) - From) |-> File(log[From + i])]

LEMMA ReadLinesType ==
  ASSUME TerminalTypeOK
  PROVE  /\ From \in 0..Len(log) /\ Len(log) \in Nat /\ ReadLines \in Seq(Events)
         /\ Len(ReadLines) = Len(log) - From
         /\ \A i \in 1..(Len(log) - From) :
              ReadLines[i] = File(log[From + i]) /\ log[From + i] \in Nat
<1>1. Len(log) \in Nat /\ offset \in Nat /\ \A i \in 1..Len(log) : log[i] \in Nat
  BY ElementOfSeq, LenProperties DEF TerminalTypeOK
<1>2. From \in 0..Len(log)
  BY <1>1 DEF From
<1>3. \A i \in 1..(Len(log) - From) : log[From + i] \in Nat
  BY <1>1, <1>2
<1>4. \A i \in 1..(Len(log) - From) : File(log[From + i]) \in Events
  BY <1>3, EventKinds
<1>5. Len(log) - From \in Nat /\ ReadLines \in [1..(Len(log) - From) -> Events]
  <2>1. Len(log) - From \in Nat
    BY <1>1, <1>2
  <2>2. ReadLines \in [1..(Len(log) - From) -> Events]
    BY <1>4, Zenon DEF ReadLines
  <2> QED BY <2>1, <2>2
<1>6. ReadLines \in Seq(Events) /\ Len(ReadLines) = Len(log) - From
  BY <1>5
<1> QED BY <1>1, <1>2, <1>3, <1>6 DEF ReadLines

LEMMA MonitorTypeOK ==
  ASSUME TerminalTypeOK, Monitor \/ WriteLog \/ Vanishes
  PROVE  TerminalTypeOK'
<1> USE DEF TerminalTypeOK
<1>1. ASSUME ReadFile
      PROVE  tail' \in Seq(Events) /\ offset' \in Nat /\ fileFound' \in BOOLEAN
  <2>1. CASE Fresh
    <3>1. fileFound' = TRUE /\ offset' = Len(log) /\ tail' = tail \o ReadLines
      BY <1>1, <2>1 DEF ReadFile, ReadLines
    <3>2. tail \o ReadLines \in Seq(Events)
      BY ReadLinesType, ConcatProperties
    <3> QED BY <3>1, <3>2, ReadLinesType
  <2>2. CASE ~Fresh
    BY <1>1, <2>2 DEF ReadFile
  <2> QED BY <2>1, <2>2
<1>2. CASE Patience
  BY <1>1, <1>2 DEF Patience, caller, network, service, tasks, runner, logfile
<1>3. CASE Watch
  BY <1>3 DEF Watch, caller, network, service, tasks, runner, logfile
<1>4. CASE Changed
  <2>1. tail' \in Seq(Events) /\ offset' \in Nat /\ fileFound' \in BOOLEAN
    BY <1>1, <1>4 DEF Changed
  <2>2. event' \in BOOLEAN
    BY <1>4, Zenon DEF Changed
  <2> QED BY <1>4, <2>1, <2>2 DEF Changed, caller, network, service, tasks, runner, logfile
<1>5. CASE WriteLog
  <2>1. logged + 1 \in Nat /\ <<logged + 1>> \in Seq(Nat)
        /\ Append(log, logged + 1) \in Seq(Nat)
    OBVIOUS
  <2>2. log' \in Seq(Nat)
    BY <1>5, <2>1, Zenon DEF WriteLog
  <2> QED BY <1>5, <2>1, <2>2 DEF WriteLog, caller, network, service, tasks, runner
<1>6. CASE Vanishes
  <2>1. event' \in BOOLEAN
    BY <1>6, Zenon DEF Vanishes
  <2> QED BY <1>6, <2>1 DEF Vanishes, caller, network, service, tasks, runner, logfile
<1> QED BY <1>2, <1>3, <1>4, <1>5, <1>6 DEF Monitor

LEMMA ProcessTypeOK ==
  ASSUME TerminalTypeOK, Stopping \/ KillTakes \/ PrintLine \/ ProcessExits \/ LineTooLong
  PROVE  TerminalTypeOK'
<1> USE DEF TerminalTypeOK
<1>1. CASE StopAsks
  BY <1>1 DEF StopAsks, caller, network, service, logfile, monitor
<1>2. CASE StopPolls
  BY <1>2 DEF StopPolls, Killed, caller, network, service, logfile, monitor
<1>3. CASE KillTakes
  BY <1>3 DEF KillTakes, caller, network, service, tasks, logfile, monitor
<1>4. CASE PrintLine
  BY <1>4 DEF PrintLine, caller, network, service, tasks, logfile, monitor
<1>5. CASE ProcessExits
  BY <1>5 DEF ProcessExits, caller, network, service, tasks, logfile, monitor
<1>6. CASE LineTooLong
  BY <1>6 DEF LineTooLong, caller, network, service, runner, logfile, monitor
<1> QED BY <1>1, <1>2, <1>3, <1>4, <1>5, <1>6 DEF Stopping

(* The types of the terminal hold in every step.                           *)
LEMMA TerminalNextTypeOK ==
  ASSUME TerminalTypeOK, [TerminalNext]_terminalVars
  PROVE  TerminalTypeOK'
<1>1. CASE UNCHANGED terminalVars
  BY <1>1 DEF TerminalTypeOK, terminalVars, caller, network, service, tasks, runner, logfile, monitor
<1> QED BY <1>1, OutputTypeOK, CallerTypeOK, ServiceTypeOK, PipelineTypeOK, MonitorTypeOK,
           ProcessTypeOK DEF TerminalNext, World

-----------------------------------------------------------------------------
(* The tasks, and the events between the process and its caller. *)

(* How far the tasks of a generator that is open have come: the monitor is *)
(* stopped when the output has been read to the end of a dead process, or  *)
(* its reading has failed.                                                 *)
TasksInv ==
  /\ read <= written
  /\ piper = "done" => read = written /\ process = "dead"
  /\ main \in {"none", "starting"} => piper = "none" /\ process = "none"
  /\ gen = "open" /\ main \in {"draining", "cleaning", "joining"} => piper \in {"done", "failed"}
  /\ gen = "open" => main # "killing"
  /\ handler = "executing" => conn # "none" /\ gen = "open"
  /\ handler = "idle" => gen = "none"
  /\ gen = "none" => main = "none"
  /\ conn = "none" => handler = "idle"
  /\ client = "new" => conn = "none" /\ seen = <<>>

LEMMA InitTasksInv ==
  ASSUME TerminalInit
  PROVE  TasksInv
BY DEF TerminalInit, TasksInv

LEMMA NextTasksInv ==
  ASSUME TerminalTypeOK, TasksInv, [TerminalNext]_terminalVars
  PROVE  TasksInv'
<1> USE DEF TerminalTypeOK, TasksInv
<1>1. CASE Caller \/ ConnectFails \/ SendStop \/ Break
  BY SMTT(30), <1>1 DEF Caller, Connect, Receive, StreamEnds, ConnectFails, SendStop, Break,
              caller, network, service, tasks, runner
<1>2. CASE Service \/ Update
  BY <1>2 DEF Service, Accept, HearStop, Send, SendFails, Finish, Update, Hangup,
              caller, network, service, tasks, runner
<1>3. CASE \/ WaitReturns \/ Drain \/ KillWaited \/ StopMonitor \/ StopMonitorFails
           \/ StartProcess \/ StartFails
  BY <1>3 DEF WaitReturns, Drain, KillWaited, StopMonitor, StopMonitorFails, StartProcess, StartFails,
              caller, network, service, tasks, runner
<1>4. CASE Return \/ Close
  BY <1>4 DEF Return, Close, Killed, Running, caller, network, service, tasks, runner
<1>5. CASE Output
  BY SMTT(30), <1>5 DEF Output, PipeLine, PipeEnds, PipeTail, caller, network, service, tasks,
     runner
<1>6. CASE Stopping \/ KillTakes \/ PrintLine \/ ProcessExits \/ LineTooLong
  BY SMTT(30), <1>6 DEF Stopping, StopAsks, StopPolls, KillTakes, PrintLine, ProcessExits,
              LineTooLong, Killed, Running, caller, network, service, tasks, runner
<1>7. CASE Monitor \/ WriteLog \/ Vanishes \/ UNCHANGED terminalVars
  BY <1>7 DEF Monitor, Patience, Watch, Changed, WriteLog, Vanishes, terminalVars,
              caller, network, service, tasks, runner
<1> QED BY <1>1, <1>2, <1>3, <1>4, <1>5, <1>6, <1>7 DEF TerminalNext, World, Pipeline

(* Neither output nor an exit.                                             *)
NotPiped(e) == e.type # "exit" /\ ~Of(e, "stdout")

(* An exit is the last event before the end: nothing else comes behind it, *)
(* and it is of a process that is dead and whose output is read.  None of  *)
(* it comes from the monitor.                                              *)
ExitsLast ==
  /\ \A i \in 1..Len(seen) : seen[i].type = "exit" => client = "ended"
  /\ \A i \in 1..Len(toClient) : toClient[i].type = "exit" =>
       /\ i = Len(toClient)
       /\ main = "done" /\ piper # "on" /\ \A j \in 1..Len(queue) : queue[j] = End
  /\ \A i \in 1..Len(queue) : queue[i].type = "exit" =>
       /\ main = "done" /\ piper # "on"
       /\ \A j \in 1..Len(queue) : j > i => queue[j] = End
       /\ queue[i].code # -1 => read = written /\ process = "dead"
  /\ \A i \in 1..Len(tail) : NotPiped(tail[i])

LEMMA InitExitsLast ==
  ASSUME TerminalInit
  PROVE  ExitsLast
BY DEF TerminalInit, ExitsLast

(* The steps that leave the events alone.                                  *)
LEMMA QuietExitsLast ==
  ASSUME TerminalTypeOK, TasksInv, ExitsLast,
         UNCHANGED <<seen, toClient, queue, tail>>,
         client' = client \/ client' = "ended" \/ seen = <<>>,
         main = "done" => main' = "done",
         piper' = "on" => piper = "on" \/ main = "starting",
         read' = read,
         process = "dead" => process' = "dead" /\ written' = written
  PROVE  ExitsLast'
<1>1. ASSUME NEW i \in 1..Len(seen)', seen'[i].type = "exit"
      PROVE  client' = "ended"
  <2>1. i \in 1..Len(seen) /\ seen[i].type = "exit"
    BY <1>1
  <2>2. client = "ended" /\ seen # <<>>
    BY <2>1 DEF ExitsLast
  <2> QED BY <2>2
<1>2. ASSUME main = "done", piper # "on"
      PROVE  main' = "done" /\ piper' # "on"
  BY <1>2
<1>3. ASSUME NEW i \in 1..Len(toClient)', toClient'[i].type = "exit"
      PROVE  /\ i = Len(toClient)' /\ main' = "done" /\ piper' # "on"
             /\ \A j \in 1..Len(queue)' : queue'[j] = End
  BY <1>2, <1>3 DEF ExitsLast
<1>4. ASSUME NEW i \in 1..Len(queue)', queue'[i].type = "exit"
      PROVE  /\ main' = "done" /\ piper' # "on"
             /\ \A j \in 1..Len(queue)' : j > i => queue'[j] = End
             /\ queue'[i].code # -1 => read' = written' /\ process' = "dead"
  BY <1>2, <1>4 DEF ExitsLast
<1>5. \A i \in 1..Len(tail)' : NotPiped(tail'[i])
  BY DEF ExitsLast
<1> QED BY <1>1, <1>3, <1>4, <1>5 DEF ExitsLast

LEMMA EventsExitsLast ==
  ASSUME TerminalTypeOK, TasksInv, ExitsLast, Receive \/ ConnectFails \/ Break
  PROVE  ExitsLast'
<1>0. /\ Len(toClient) \in Nat /\ Len(seen) \in Nat
      /\ \A i \in 1..Len(toClient) : toClient[i] \in Events
      /\ \A i \in 1..Len(queue) : queue[i] \in Events
  BY ElementOfSeq, LenProperties DEF TerminalTypeOK
<1>1. CASE Receive
  <2>1. /\ toClient \in Seq(Events) /\ toClient # <<>> /\ seen \in Seq(Events)
        /\ client = "reading"
        /\ seen' = Append(seen, Head(toClient)) /\ toClient' = Tail(toClient)
        /\ Head(toClient).type = "exit" => client' = "ended"
        /\ UNCHANGED <<queue, tail, main, piper, read, written, process>>
    BY <1>1 DEF Receive, TerminalTypeOK, service, tasks, runner, monitor
  <2>2. /\ Len(toClient') = Len(toClient) - 1
        /\ \A i \in 1..Len(toClient') : toClient'[i] = toClient[i + 1] /\ i + 1 \in 1..Len(toClient)
        /\ Head(toClient) \in Events
    BY <2>1, <1>0, HeadTailProperties
  <2>3. /\ Len(seen') = Len(seen) + 1 /\ seen'[Len(seen) + 1] = Head(toClient)
        /\ \A i \in 1..Len(seen) : seen'[i] = seen[i]
    BY <2>1, <2>2, AppendProperties
  <2>4. \A i \in 1..Len(seen') : seen'[i].type = "exit" => client' = "ended"
    BY <2>1, <2>3, <1>0 DEF ExitsLast
  <2>5. ASSUME NEW i \in 1..Len(toClient'), toClient'[i].type = "exit"
        PROVE  /\ i = Len(toClient') /\ main' = "done" /\ piper' # "on"
               /\ \A j \in 1..Len(queue') : queue'[j] = End
    <3>1. i + 1 \in 1..Len(toClient) /\ toClient[i + 1].type = "exit"
      BY <2>2, <2>5
    <3>2. /\ i + 1 = Len(toClient) /\ main = "done" /\ piper # "on"
          /\ \A j \in 1..Len(queue) : queue[j] = End
      BY <3>1 DEF ExitsLast
    <3> QED BY <3>2, <2>1, <2>2, <1>0
  <2> QED BY <2>1, <2>4, <2>5 DEF ExitsLast
<1>2. CASE ConnectFails
  BY <1>2 DEF ConnectFails, ExitsLast, network, service, tasks, runner, monitor
<1>3. CASE Break
  <2>1. PICK k \in 0..Len(toClient) : toClient' = SubSeq(toClient, 1, k)
    BY <1>3 DEF Break
  <2>2. Len(toClient') = k /\ \A i \in 1..k : toClient'[i] = toClient[i] /\ i \in 1..Len(toClient)
    BY <2>1, <1>0, SubSeqProperties
  <2>3. UNCHANGED <<client, seen, queue, tail, main, piper, read, written, process>>
    BY <1>3 DEF Break, caller, service, tasks, runner, monitor
  <2>4. ASSUME NEW i \in 1..Len(toClient'), toClient'[i].type = "exit"
        PROVE  /\ i = Len(toClient') /\ main' = "done" /\ piper' # "on"
               /\ \A j \in 1..Len(queue') : queue'[j] = End
    <3>1. i \in 1..Len(toClient) /\ toClient[i].type = "exit"
      BY <2>2, <2>4
    <3>2. i = Len(toClient)
      BY <3>1 DEF ExitsLast
    <3> QED BY <3>1, <3>2, <2>2, <2>3 DEF ExitsLast
  <2> QED BY <2>3, <2>4 DEF ExitsLast
<1> QED BY <1>1, <1>2, <1>3

(* The first event of the queue, sent or dropped.                          *)
LEMMA SentExitsLast ==
  ASSUME TerminalTypeOK, ExitsLast, queue # <<>>, queue' = Tail(queue),
         \/ UNCHANGED toClient
         \/ Head(queue) # End /\ toClient' = Append(toClient, Head(queue)),
         UNCHANGED <<client, seen, tail, main, piper, read, written, process>>
  PROVE  ExitsLast'
<1>0. /\ Len(queue) \in Nat /\ Len(queue) >= 1 /\ Head(queue) = queue[1] /\ Head(queue) \in Events
      /\ Len(queue') = Len(queue) - 1
      /\ \A i \in 1..Len(queue') : queue'[i] = queue[i + 1] /\ i + 1 \in 1..Len(queue)
  BY HeadTailProperties, EmptySeq, LenProperties DEF TerminalTypeOK
<1>1. ASSUME \A j \in 1..Len(queue) : queue[j] = End
      PROVE  \A j \in 1..Len(queue') : queue'[j] = End
  BY <1>0, <1>1
<1>2. ASSUME NEW i \in 1..Len(queue'), queue'[i].type = "exit"
      PROVE  /\ main' = "done" /\ piper' # "on"
             /\ \A j \in 1..Len(queue') : j > i => queue'[j] = End
             /\ queue'[i].code # -1 => read' = written' /\ process' = "dead"
  <2>1. i + 1 \in 1..Len(queue) /\ queue[i + 1].type = "exit"
    BY <1>0, <1>2
  <2> QED BY <2>1, <1>0 DEF ExitsLast
<1>3. ASSUME NEW i \in 1..Len(toClient'), toClient'[i].type = "exit"
      PROVE  /\ i = Len(toClient') /\ main' = "done" /\ piper' # "on"
             /\ \A j \in 1..Len(queue') : queue'[j] = End
  <2>1. CASE UNCHANGED toClient
    BY <1>1, <1>3, <2>1 DEF ExitsLast
  <2>2. CASE Head(queue) # End /\ toClient' = Append(toClient, Head(queue))
    <3>1. /\ Len(toClient) \in Nat /\ Len(toClient') = Len(toClient) + 1
          /\ toClient'[Len(toClient) + 1] = Head(queue)
          /\ \A j \in 1..Len(toClient) : toClient'[j] = toClient[j]
      BY <2>2, <1>0, AppendProperties, LenProperties DEF TerminalTypeOK
    <3>2. i = Len(toClient) + 1
      <4>1. SUFFICES ASSUME i \in 1..Len(toClient) PROVE FALSE
        BY <3>1, <1>3
      <4>2. queue[1] = End
        BY <4>1, <3>1, <1>3, <1>0 DEF ExitsLast
      <4> QED BY <4>2, <2>2, <1>0
    <3>3. queue[1].type = "exit" /\ 1 \in 1..Len(queue)
      BY <3>1, <3>2, <1>3, <1>0
    <3>4. /\ main = "done" /\ piper # "on"
          /\ \A j \in 1..Len(queue) : j > 1 => queue[j] = End
      BY <3>3 DEF ExitsLast
    <3> QED BY <3>1, <3>2, <3>4, <1>0
  <2> QED BY <2>1, <2>2
<1> QED BY <1>2, <1>3 DEF ExitsLast

(* Events put behind the queue while the generator's worker goes on.       *)
LEMMA QueuedExitsLast ==
  ASSUME TerminalTypeOK, ExitsLast, main # "done" \/ piper = "on",
         NEW more \in Seq(Events), queue' = queue \o more,
         \A i \in 1..Len(more) : more[i].type = "exit" =>
            /\ main' = "done" /\ piper' # "on"
            /\ \A j \in 1..Len(more) : j > i => more[j] = End
            /\ more[i].code # -1 => read' = written' /\ process' = "dead",
         UNCHANGED <<client, seen, toClient>>,
         \A i \in 1..Len(tail') : NotPiped(tail'[i])
  PROVE  ExitsLast'
<1>1. /\ \A i \in 1..Len(toClient) : toClient[i].type # "exit"
      /\ \A i \in 1..Len(queue) : queue[i].type # "exit"
  BY DEF ExitsLast
<1>2. /\ Len(queue) \in Nat /\ Len(more) \in Nat /\ Len(queue') = Len(queue) + Len(more)
      /\ \A i \in 1..Len(queue) : queue'[i] = queue[i]
      /\ \A i \in 1..Len(queue') : i > Len(queue) =>
           i - Len(queue) \in 1..Len(more) /\ queue'[i] = more[i - Len(queue)]
  BY ConcatProperties, LenProperties DEF TerminalTypeOK
<1>3. ASSUME NEW i \in 1..Len(queue'), queue'[i].type = "exit"
      PROVE  /\ main' = "done" /\ piper' # "on"
             /\ \A j \in 1..Len(queue') : j > i => queue'[j] = End
             /\ queue'[i].code # -1 => read' = written' /\ process' = "dead"
  <2>1. i > Len(queue)
    BY <1>1, <1>2, <1>3
  <2>2. i - Len(queue) \in 1..Len(more) /\ queue'[i] = more[i - Len(queue)]
    BY <2>1, <1>2
  <2>3. ASSUME NEW j \in 1..Len(queue'), j > i
        PROVE  queue'[j] = End
    <3>1. /\ j > Len(queue) /\ j - Len(queue) \in 1..Len(more)
          /\ queue'[j] = more[j - Len(queue)] /\ j - Len(queue) > i - Len(queue)
      BY <2>1, <2>3, <1>2
    <3> QED BY <3>1, <2>2, <1>3
  <2> QED BY <2>2, <2>3, <1>3
<1> QED BY <1>1, <1>3 DEF ExitsLast

LEMMA NextExitsLast ==
  ASSUME TerminalTypeOK, TasksInv, ExitsLast, [TerminalNext]_terminalVars
  PROVE  ExitsLast'
<1>1. CASE Receive \/ ConnectFails \/ Break
  BY <1>1, EventsExitsLast
<1>2. CASE Send \/ SendFails \/ Finish
  <2>1. /\ queue # <<>> /\ queue' = Tail(queue)
        /\ UNCHANGED <<client, seen, tail, main, piper, read, written, process>>
    BY <1>2 DEF Send, SendFails, Finish, caller, network, tasks, runner, monitor
  <2>2. \/ UNCHANGED toClient
        \/ Head(queue) # End /\ toClient' = Append(toClient, Head(queue))
    BY <1>2 DEF Send, SendFails, Finish, network
  <2> QED BY <2>1, <2>2, SentExitsLast
<1>3. CASE PipeLine
  <2>1. /\ piper = "on" /\ read \in Nat /\ queue \in Seq(Events)
        /\ queue' = Append(queue, Out(read + 1))
        /\ UNCHANGED <<client, seen, toClient, tail>>
    BY <1>3 DEF PipeLine, TerminalTypeOK, caller, network, monitor
  <2>2. Out(read + 1) \in Events /\ Out(read + 1).type # "exit"
    BY <2>1, EventKinds
  <2>3. <<Out(read + 1)>> \in Seq(Events) /\ queue' = queue \o <<Out(read + 1)>>
    BY <2>1, <2>2, AppendIsConcat
  <2>4. \A i \in 1..Len(<<Out(read + 1)>>) : <<Out(read + 1)>>[i].type # "exit"
    BY <2>2
  <2>5. \A i \in 1..Len(tail') : NotPiped(tail'[i])
    BY <2>1 DEF ExitsLast
  <2> QED BY <2>1, <2>3, <2>4, <2>5, QueuedExitsLast
<1>4. CASE PipeTail
  <2>1. /\ main # "done" /\ tail \in Seq(Events) /\ tail # <<>> /\ queue \in Seq(Events)
        /\ queue' = Append(queue, Head(tail)) /\ tail' = Tail(tail)
        /\ UNCHANGED <<client, seen, toClient>>
    BY <1>4 DEF PipeTail, TerminalTypeOK, caller, network
  <2>2. /\ Head(tail) \in Events /\ Len(tail) \in Nat /\ Len(tail) >= 1
        /\ Head(tail) = tail[1] /\ Len(tail') = Len(tail) - 1
        /\ \A i \in 1..Len(tail') : tail'[i] = tail[i + 1] /\ i + 1 \in 1..Len(tail)
    BY <2>1, HeadTailProperties, EmptySeq, LenProperties
  <2>3. Head(tail).type # "exit"
    BY <2>2 DEF ExitsLast, NotPiped
  <2>4. <<Head(tail)>> \in Seq(Events) /\ queue' = queue \o <<Head(tail)>>
    BY SMTT(30), <2>1, <2>2, AppendIsConcat
  <2>5. \A i \in 1..Len(<<Head(tail)>>) : <<Head(tail)>>[i].type # "exit"
    BY <2>3
  <2>6. \A i \in 1..Len(tail') : NotPiped(tail'[i])
    BY <2>2 DEF ExitsLast
  <2> QED BY <2>1, <2>4, <2>5, <2>6, QueuedExitsLast
<1>5. CASE StartFails
  <2>1. /\ main = "starting" /\ main' = "done" /\ queue' = queue \o <<Said, Exit(-1), End>>
        /\ UNCHANGED <<client, seen, toClient, tail, piper>>
    BY <1>5 DEF StartFails, caller, network, monitor
  <2>2. piper' # "on"
    BY <2>1 DEF TasksInv
  <2>3. Said \in Events /\ Exit(-1) \in Events /\ End \in Events
    BY EventKinds
  <2>4. <<Said, Exit(-1), End>> \in Seq(Events)
    BY <2>3
  <2>5. Said.type # "exit" /\ End.type # "exit" /\ Exit(-1).code = -1
    BY EventKinds
  <2> DEFINE more == <<Said, Exit(-1), End>>
  <2>6. Len(more) = 3 /\ more[1] = Said /\ more[2] = Exit(-1) /\ more[3] = End
    OBVIOUS
  <2> HIDE DEF more
  <2>7. \A i \in 1..Len(more) : more[i].type = "exit" =>
            /\ \A j \in 1..Len(more) : j > i => more[j] = End
            /\ more[i].code = -1
    BY <2>5, <2>6
  <2>8. \A i \in 1..Len(tail') : NotPiped(tail'[i])
    BY <2>1 DEF ExitsLast
  <2>9. main # "done" /\ more \in Seq(Events) /\ queue' = queue \o more
    BY <2>1, <2>4 DEF more
  <2> QED BY <2>1, <2>2, <2>7, <2>8, <2>9, QueuedExitsLast
<1>6. CASE Return \/ StopMonitorFails
  <2>1. /\ main \in {"cleaning", "joining"} /\ main' = "done"
        /\ UNCHANGED <<client, seen, toClient, piper, read, written, process>>
        /\ tail' = tail \/ tail' = <<>>
    BY <1>6 DEF Return, StopMonitorFails, caller, network, runner, monitor
  <2>2. code \in {-1, 0, 1}
    BY DEF TerminalTypeOK
  <2>3. Exit(code) \in Events /\ End \in Events /\ End.type # "exit"
    BY <2>2, EventKinds
  <2>4. PICK more \in Seq(Events) :
          /\ queue' = queue \o more
          /\ \A i \in 1..Len(more) : more[i].type = "exit" =>
               /\ gen = "open" /\ \A j \in 1..Len(more) : j > i => more[j] = End
               /\ more[i].code # -1 => piper # "failed"
    <3>1. CASE queue' = queue \o Crashed
      BY <3>1, CrashedFacts
    <3>2. CASE queue' = queue \o <<Exit(code), End>> /\ gen = "open" /\ piper # "failed"
      <4>1. <<Exit(code), End>> \in Seq(Events) /\ Len(<<Exit(code), End>>) = 2
        BY <2>3
      <4>2. \A i, j \in 1..Len(<<Exit(code), End>>) : j > i => <<Exit(code), End>>[j] = End
        BY <4>1
      <4> QED BY <3>2, <4>1, <4>2
    <3> QED BY <1>6, <3>1, <3>2 DEF Return, StopMonitorFails
  <2>5. ASSUME NEW i \in 1..Len(more), more[i].type = "exit"
        PROVE  /\ main' = "done" /\ piper' # "on"
               /\ \A j \in 1..Len(more) : j > i => more[j] = End
               /\ more[i].code # -1 => read' = written' /\ process' = "dead"
    <3>1. /\ gen = "open" /\ \A j \in 1..Len(more) : j > i => more[j] = End
          /\ more[i].code # -1 => piper # "failed"
      BY <2>4, <2>5
    <3>2. piper \in {"done", "failed"} /\ (piper = "done" => read = written /\ process = "dead")
      BY <2>1, <3>1 DEF TasksInv
    <3> QED BY <2>1, <3>1, <3>2
  <2>6. \A i \in 1..Len(tail') : NotPiped(tail'[i])
    BY <2>1 DEF ExitsLast
  <2>7. main # "done"
    BY <2>1
  <2> QED BY <2>1, <2>4, <2>5, <2>6, <2>7, QueuedExitsLast
<1>7. CASE StopMonitor \/ Patience \/ Changed
  <2>1. /\ UNCHANGED <<client, seen, toClient, queue, piper, read, written, process>>
        /\ main = "done" => main' = "done"
    BY <1>7 DEF StopMonitor, Patience, Changed, caller, network, service, tasks, runner
  <2>2. \E more \in Seq(Events) : /\ tail' = tail \o more \/ tail' = more
                                  /\ \A i \in 1..Len(more) : NotPiped(more[i])
    <3>1. CASE StopMonitor
      <4>1. Said \in Events /\ End \in Events /\ NotPiped(Said) /\ NotPiped(End)
        BY EventKinds DEF NotPiped
      <4>2. <<End>> \in Seq(Events) /\ <<Said, End>> \in Seq(Events)
        BY <4>1
      <4>3. \A i \in 1..Len(<<End>>) : NotPiped(<<End>>[i])
        BY <4>1
      <4>4. \A i \in 1..Len(<<Said, End>>) : NotPiped(<<Said, End>>[i])
        BY <4>1
      <4>5. tail' = tail \o <<End>> \/ tail' = tail \o <<Said, End>> \/ tail' = <<End>>
        BY <3>1 DEF StopMonitor
      <4> QED BY <4>2, <4>3, <4>4, <4>5
    <3>2. CASE (Patience \/ Changed) /\ Fresh
      <4>1. tail' = tail \o ReadLines
        BY <3>2 DEF Patience, Changed, ReadFile, ReadLines
      <4>2. ReadLines \in Seq(Events)
        BY ReadLinesType
      <4>3. ASSUME NEW i \in 1..Len(ReadLines)
            PROVE  NotPiped(ReadLines[i])
        <5>1. ReadLines[i] = File(log[From + i]) /\ log[From + i] \in Nat
          BY ReadLinesType
        <5> QED BY <5>1, EventKinds DEF NotPiped
      <4> QED BY <4>1, <4>2, <4>3
    <3>3. CASE (Patience \/ Changed) /\ ~Fresh
      <4>1. tail' = tail
        BY <3>3 DEF Patience, Changed, ReadFile
      <4> QED BY <4>1 DEF ExitsLast, TerminalTypeOK
    <3> QED BY <1>7, <3>1, <3>2, <3>3
  <2>3. \A i \in 1..Len(tail') : NotPiped(tail'[i])
    <3>1. PICK more \in Seq(Events) : /\ tail' = tail \o more \/ tail' = more
                                      /\ \A i \in 1..Len(more) : NotPiped(more[i])
      BY <2>2
    <3>2. CASE tail' = more
      BY <3>1, <3>2
    <3>3. CASE tail' = tail \o more
      <4>1. tail \in Seq(Events) /\ \A i \in 1..Len(tail) : NotPiped(tail[i])
        BY DEF TerminalTypeOK, ExitsLast
      <4>2. /\ Len(tail') = Len(tail) + Len(more) /\ Len(tail) \in Nat /\ Len(more) \in Nat
            /\ \A i \in 1..Len(tail') :
                 tail'[i] = IF i <= Len(tail) THEN tail[i] ELSE more[i - Len(tail)]
        BY <3>3, <4>1, ConcatProperties, LenProperties
      <4> QED BY SMTT(30), <3>1, <4>1, <4>2
    <3> QED BY <3>1, <3>2, <3>3
  <2> QED BY <2>1, <2>3 DEF ExitsLast
<1>8. CASE Connect \/ StreamEnds \/ SendStop
  BY <1>8, QuietExitsLast DEF Connect, StreamEnds, SendStop, TasksInv, network, service, tasks,
     runner, monitor, caller
<1>9. CASE Accept \/ HearStop \/ Update
  BY <1>9, QuietExitsLast DEF Accept, HearStop, Update, TasksInv, network, service, tasks,
     runner, monitor, caller
<1>10. CASE WaitReturns \/ Drain \/ Close \/ KillWaited \/ StartProcess
  BY <1>10, QuietExitsLast DEF WaitReturns, Drain, Close, KillWaited, StartProcess, Killed,
     Running, TasksInv, network, service, tasks, runner, monitor, caller
<1>11. CASE PipeEnds \/ Stopping \/ KillTakes \/ PrintLine \/ ProcessExits \/ LineTooLong
  BY <1>11, QuietExitsLast DEF PipeEnds, Stopping, StopAsks, StopPolls, KillTakes, PrintLine,
     ProcessExits, LineTooLong, Killed, Running, TasksInv, network, service, tasks, runner, monitor,
     caller
<1>12. CASE Watch \/ WriteLog \/ Vanishes \/ UNCHANGED terminalVars
  BY <1>12, QuietExitsLast DEF Watch, WriteLog, Vanishes, terminalVars, network, service, tasks,
     runner, monitor, caller
<1> QED BY <1>1, <1>2, <1>3, <1>4, <1>5, <1>6, <1>7, <1>8, <1>9, <1>10, <1>11, <1>12
        DEF TerminalNext, Caller, Service, Pipeline, Output, Monitor, World

LEMMA WholeNone ==
  ASSUME NEW q \in Seq(Events), NEW m \in Int, NEW n \in Int, Whole(q, m, n),
         \A i \in 1..Len(q) : ~Of(q[i], "stdout")
  PROVE  m = n
<1>1. m <= n
  BY DEF Whole
<1>2. SUFFICES ASSUME m < n PROVE FALSE
  BY <1>1
<1>3. n \in (m + 1)..n
  BY <1>2
<1> QED BY <1>3 DEF Whole

(* The output on its way: what the caller has, what is on the connection,  *)
(* and what is in the queue are one stretch of lines after the other, with *)
(* nothing missing between them but what is lost with the connection.      *)
Stretches(a, b, c) ==
  /\ Whole(seen, 0, a) /\ Whole(toClient, a, b) /\ Whole(queue, c, read) /\ b <= c
  /\ conn # "gone" => c = b
  /\ \A i \in 1..Len(seen) : seen[i].type = "exit" =>
       (seen[i].code # -1 => a = written /\ process = "dead")
  /\ \A i \in 1..Len(toClient) : toClient[i].type = "exit" =>
       (toClient[i].code # -1 => b = written /\ process = "dead")

PrintedInv == \E a \in Nat, b \in Nat, c \in Nat : Stretches(a, b, c)

LEMMA InitPrintedInv ==
  ASSUME TerminalInit
  PROVE  PrintedInv
<1>1. Whole(<<>>, 0, 0)
  BY WholeEmpty
<1>2. Stretches(0, 0, 0)
  BY <1>1 DEF TerminalInit, Stretches
<1> QED BY <1>2 DEF PrintedInv

(* A step that touches no output.                                          *)
LEMMA QuietPrintedInv ==
  ASSUME TerminalTypeOK, PrintedInv, UNCHANGED <<seen, toClient, read>>,
         NEW more \in Seq(Events), queue' = queue \/ queue' = queue \o more,
         \A i \in 1..Len(more) : ~Of(more[i], "stdout"),
         conn' # "gone" => conn # "gone",
         process = "dead" => process' = "dead" /\ written' = written
  PROVE  PrintedInv'
<1>1. PICK a \in Nat, b \in Nat, c \in Nat : Stretches(a, b, c)
  BY DEF PrintedInv
<1>2. Whole(queue, c, read) /\ read \in Int /\ c \in Int /\ queue \in Seq(Events)
  BY <1>1 DEF Stretches, TerminalTypeOK
<1>3. Whole(queue', c, read)
  BY <1>2, WholeOther
<1>4. Stretches(a, b, c)'
  BY <1>1, <1>3 DEF Stretches
<1> QED BY <1>4 DEF PrintedInv

LEMMA CallerPrintedInv ==
  ASSUME TerminalTypeOK, TasksInv, ExitsLast, PrintedInv, Receive \/ ConnectFails \/ Break
  PROVE  PrintedInv'
<1>0. /\ Len(toClient) \in Nat /\ Len(seen) \in Nat
      /\ toClient \in Seq(Events) /\ seen \in Seq(Events)
      /\ \A i \in 1..Len(toClient) : toClient[i] \in Events
  BY ElementOfSeq, LenProperties DEF TerminalTypeOK
<1>1. PICK a \in Nat, b \in Nat, c \in Nat : Stretches(a, b, c)
  BY DEF PrintedInv
<1>2. /\ Whole(seen, 0, a) /\ Whole(toClient, a, b) /\ Whole(queue, c, read) /\ b <= c
      /\ a <= b
  BY <1>1 DEF Stretches, Whole
<1>3. CASE Receive
  <2> DEFINE e == Head(toClient)
  <2>1. /\ client = "reading" /\ toClient # <<>> /\ seen' = Append(seen, e)
        /\ toClient' = Tail(toClient) /\ (conn' # "gone" => conn # "gone")
        /\ UNCHANGED <<queue, read, written, process>>
    BY <1>3 DEF Receive, service, runner
  <2>2. /\ e \in Events /\ e = toClient[1] /\ 1 \in 1..Len(toClient)
        /\ Len(toClient') = Len(toClient) - 1
        /\ \A i \in 1..Len(toClient') : toClient'[i] = toClient[i + 1] /\ i + 1 \in 1..Len(toClient)
    BY <1>0, <2>1, HeadTailProperties, EmptySeq
  <2>3. <<e>> \in Seq(Events) /\ Append(seen, e) = seen \o <<e>>
    BY <1>0, <2>2, AppendIsConcat
  <2>6. PICK l \in Nat : Whole(seen', 0, l) /\ Whole(toClient', l, b)
    <3>1. CASE Of(e, "stdout")
      <4>1. e.line = a + 1 /\ Whole(toClient', a + 1, b)
        BY <1>0, <1>2, <2>1, <3>1, WholeTail
      <4>2. Whole(seen', 0, a + 1)
        BY <1>0, <1>2, <2>1, <2>2, <3>1, <4>1, WholeNext
      <4> QED BY <4>1, <4>2, <3>1
    <3>2. CASE ~Of(e, "stdout")
      <4>1. Whole(toClient', a, b)
        BY <1>0, <1>2, <2>1, <3>2, WholeTail
      <4>2. \A i \in 1..Len(<<e>>) : ~Of(<<e>>[i], "stdout")
        BY <3>2
      <4>3. Whole(seen \o <<e>>, 0, a)
        <5>1. 0 \in Int /\ a \in Int
          OBVIOUS
        <5> QED BY <1>0, <1>2, <2>3, <4>2, <5>1, WholeOther, Zenon
      <4> QED BY <4>1, <4>3, <2>1, <2>3
    <3> QED BY <3>1, <3>2
  <2>7. /\ Len(seen') = Len(seen) + 1 /\ seen'[Len(seen) + 1] = e
        /\ \A i \in 1..Len(seen) : seen'[i] = seen[i]
    BY <1>0, <2>1, <2>2, AppendProperties
  <2>8. ASSUME NEW i \in 1..Len(seen'), seen'[i].type = "exit", seen'[i].code # -1
        PROVE  l = written /\ process = "dead"
    <3>1. seen'[i] = e
      BY <1>0, <2>1, <2>7, <2>8 DEF ExitsLast
    <3>2. toClient[1].type = "exit" /\ toClient[1].code # -1
      BY <3>1, <2>2, <2>8
    <3>3. Len(toClient) = 1 /\ b = written /\ process = "dead"
      BY <3>2, <2>2, <1>1 DEF ExitsLast, Stretches
    <3>4. toClient' \in Seq(Events) /\ Len(toClient') = 0
      BY <1>0, <2>1, <2>2, <3>3, HeadTailProperties
    <3>5. \A j \in 1..Len(toClient') : ~Of(toClient'[j], "stdout")
      BY <3>4
    <3>6. l = b
      <4>1. l \in Int /\ b \in Int /\ Whole(toClient', l, b)
        BY <2>6
      <4> QED BY <3>4, <3>5, <4>1, WholeNone, Zenon
    <3> QED BY <3>3, <3>6
  <2>9. ASSUME NEW i \in 1..Len(toClient'), toClient'[i].type = "exit", toClient'[i].code # -1
        PROVE  b = written /\ process = "dead"
    BY <2>2, <2>9, <1>1 DEF Stretches
  <2>10. Stretches(l, b, c)'
    BY <1>1, <1>2, <2>1, <2>6, <2>8, <2>9 DEF Stretches
  <2> QED BY <2>6, <2>10 DEF PrintedInv
<1>4. CASE ConnectFails
  <2>1. /\ seen = <<>> /\ seen' = <<Said, Exit(-1)>>
        /\ UNCHANGED <<toClient, conn, queue, read, written, process>>
    BY <1>4 DEF ConnectFails, TasksInv, network, service, runner
  <2>2. a = 0
    BY <1>2, <2>1, WholeEmpty
  <2>3. /\ Said \in Events /\ Exit(-1) \in Events /\ Said.type # "exit" /\ Exit(-1).code = -1
        /\ ~Of(Said, "stdout") /\ ~Of(Exit(-1), "stdout")
    BY EventKinds
  <2>4. /\ seen' \in Seq(Events) /\ Len(seen') = 2 /\ seen'[1] = Said /\ seen'[2] = Exit(-1)
    BY <2>1, <2>3
  <2>5. <<>> \o seen' = seen' /\ <<>> \in Seq(Events)
    BY <2>4, ConcatEmptySeq
  <2>6. \A i \in 1..Len(seen') : ~Of(seen'[i], "stdout")
    BY <2>3, <2>4
  <2>7. Whole(seen', 0, 0)
    <3>1. Whole(<<>>, 0, 0)
      BY WholeEmpty
    <3>2. Whole(<<>> \o seen', 0, 0)
      <4>1. 0 \in Int
        OBVIOUS
      <4> QED BY <2>4, <2>5, <2>6, <3>1, <4>1, WholeOther, Zenon
    <3> QED BY <2>5, <3>2
  <2>8. \A i \in 1..Len(seen') : seen'[i].type = "exit" => seen'[i].code = -1
    BY <2>3, <2>4
  <2>9. Stretches(a, b, c)'
    BY <1>1, <2>1, <2>2, <2>7, <2>8 DEF Stretches
  <2> QED BY <2>9 DEF PrintedInv
<1>5. CASE Break
  <2>1. PICK k \in 0..Len(toClient) : toClient' = SubSeq(toClient, 1, k)
    BY <1>5 DEF Break
  <2>2. Len(toClient') = k /\ \A i \in 1..k : toClient'[i] = toClient[i] /\ i \in 1..Len(toClient)
    BY <2>1, <1>0, SubSeqProperties
  <2>3. /\ conn' = "gone" /\ UNCHANGED <<seen, queue, read, written, process>>
    BY <1>5 DEF Break, caller, service, runner
  <2>4. PICK l \in a..b : Whole(toClient', a, l)
    BY <1>0, <1>2, <2>1, WholePrefix
  <2>5. CASE \A i \in 1..Len(toClient') : toClient'[i].type # "exit"
    <3>1. l \in Nat /\ l <= c
      BY <1>2, <2>4
    <3>2. Stretches(a, l, c)'
      BY <1>1, <2>3, <2>4, <2>5, <3>1 DEF Stretches
    <3> QED BY <3>1, <3>2 DEF PrintedInv
  <2>6. CASE \E i \in 1..Len(toClient') : toClient'[i].type = "exit"
    <3>1. k = Len(toClient)
      BY SMTT(30), <2>2, <2>6 DEF ExitsLast
    <3>2. toClient' = toClient
      BY <1>0, <2>1, <3>1, SubSeqFull
    <3>3. Stretches(a, b, c)'
      BY <1>1, <2>3, <3>2 DEF Stretches
    <3> QED BY <3>3 DEF PrintedInv
  <2> QED BY <2>5, <2>6
<1> QED BY <1>3, <1>4, <1>5

LEMMA SentPrintedInv ==
  ASSUME TerminalTypeOK, TasksInv, ExitsLast, PrintedInv, Send \/ SendFails \/ Finish
  PROVE  PrintedInv'
<1> DEFINE e == Head(queue)
<1>0. /\ queue \in Seq(Events) /\ toClient \in Seq(Events) /\ queue # <<>>
      /\ queue' = Tail(queue) /\ read \in Int
      /\ UNCHANGED <<seen, read, written, process>>
      /\ conn \in {"open", "gone"} /\ (conn' # "gone" => conn # "gone")
  BY SMTT(30) DEF Send, SendFails, Finish, Hangup, TerminalTypeOK, TasksInv, caller, network, runner
<1>1. /\ e \in Events /\ e = queue[1] /\ Len(queue) \in Nat /\ 1 \in 1..Len(queue)
      /\ queue' \in Seq(Events) /\ Len(queue') = Len(queue) - 1
      /\ \A i \in 1..Len(queue') : queue'[i] = queue[i + 1] /\ i + 1 \in 1..Len(queue)
  BY <1>0, HeadTailProperties, EmptySeq, LenProperties
<1>2. PICK a \in Nat, b \in Nat, c \in Nat : Stretches(a, b, c)
  BY DEF PrintedInv
<1>3. /\ Whole(seen, 0, a) /\ Whole(toClient, a, b) /\ Whole(queue, c, read) /\ b <= c
  BY <1>2 DEF Stretches
<1>4. PICK d \in Nat : /\ c <= d /\ Whole(queue', d, read)
                       /\ Of(e, "stdout") => d = c + 1 /\ e.line = c + 1
                       /\ ~Of(e, "stdout") => d = c
  <2>1. CASE Of(e, "stdout")
    BY <1>0, <1>3, <2>1, WholeTail
  <2>2. CASE ~Of(e, "stdout")
    BY <1>0, <1>3, <2>2, WholeTail
  <2> QED BY <2>1, <2>2
<1>5. CASE Send /\ conn = "open"
  <2>1. toClient' = Append(toClient, e) /\ conn' = conn /\ e # End /\ c = b
    BY <1>5, <1>2 DEF Send, Stretches
  <2>2. <<e>> \in Seq(Events) /\ Append(toClient, e) = toClient \o <<e>>
    BY <1>0, <1>1, AppendIsConcat
  <2>3. Whole(toClient', a, d)
    <3>1. CASE Of(e, "stdout")
      BY <1>0, <1>1, <1>3, <1>4, <2>1, <3>1, WholeNext
    <3>2. CASE ~Of(e, "stdout")
      <4>1. \A i \in 1..Len(<<e>>) : ~Of(<<e>>[i], "stdout")
        BY <3>2
      <4>2. a \in Int /\ b \in Int
        OBVIOUS
      <4>3. Whole(toClient \o <<e>>, a, b)
        BY <1>0, <1>3, <2>2, <4>1, <4>2, WholeOther, Zenon
      <4> QED BY <4>3, <2>1, <2>2, <3>2, <1>4
    <3> QED BY <3>1, <3>2
  <2>4. /\ Len(toClient) \in Nat /\ Len(toClient') = Len(toClient) + 1
        /\ toClient'[Len(toClient) + 1] = e
        /\ \A i \in 1..Len(toClient) : toClient'[i] = toClient[i]
    BY <1>0, <1>1, <2>1, AppendProperties, LenProperties
  <2>5. ASSUME NEW i \in 1..Len(toClient'), toClient'[i].type = "exit", toClient'[i].code # -1
        PROVE  d = written /\ process = "dead"
    <3>1. toClient'[i] = e
      <4>1. SUFFICES ASSUME i \in 1..Len(toClient) PROVE FALSE
        BY <2>4
      <4>2. queue[1] = End
        BY <1>1, <2>4, <2>5, <4>1 DEF ExitsLast
      <4> QED BY <1>1, <2>1, <4>2
    <3>2. queue[1].type = "exit" /\ queue[1].code # -1
      BY <1>1, <2>5, <3>1
    <3>3. /\ read = written /\ process = "dead"
          /\ \A j \in 1..Len(queue) : j > 1 => queue[j] = End
      BY <1>1, <3>2 DEF ExitsLast
    <3>4. \A j \in 1..Len(queue') : ~Of(queue'[j], "stdout")
      <4>1. \A j \in 1..Len(queue') : queue'[j] = End
        BY SMTT(30), <1>1, <3>3
      <4> QED BY <4>1, EventKinds
    <3>5. d \in Int
      OBVIOUS
    <3>6. d = read
      BY <1>0, <1>1, <1>4, <3>4, <3>5, WholeNone, Zenon
    <3> QED BY <3>3, <3>6
  <2>6. Stretches(a, d, d)'
    BY <1>0, <1>2, <1>4, <2>1, <2>3, <2>5 DEF Stretches
  <2> QED BY <2>6 DEF PrintedInv
<1>6. CASE ~(Send /\ conn = "open")
  <2>1. toClient' = toClient /\ conn' = "gone"
    BY <1>0, <1>6 DEF Send, SendFails, Finish, Hangup, network
  <2>2. Stretches(a, b, d)'
    BY <1>0, <1>2, <1>4, <2>1 DEF Stretches
  <2> QED BY <2>2 DEF PrintedInv
<1> QED BY <1>5, <1>6

LEMMA NextPrintedInv ==
  ASSUME TerminalTypeOK, TasksInv, ExitsLast, PrintedInv, [TerminalNext]_terminalVars
  PROVE  PrintedInv'
<1>1. CASE Receive \/ ConnectFails \/ Break
  BY <1>1, CallerPrintedInv
<1>2. CASE Send \/ SendFails \/ Finish
  BY <1>2, SentPrintedInv
<1>3. CASE PipeLine
  <2>1. /\ read \in Nat /\ read' = read + 1 /\ queue \in Seq(Events)
        /\ queue' = Append(queue, Out(read + 1))
        /\ UNCHANGED <<seen, toClient, conn, written, process>>
    BY <1>3 DEF PipeLine, TerminalTypeOK, caller, network
  <2>2. PICK a \in Nat, b \in Nat, c \in Nat : Stretches(a, b, c)
    BY DEF PrintedInv
  <2>3. /\ Out(read + 1) \in Events /\ Of(Out(read + 1), "stdout")
        /\ Out(read + 1).line = read + 1
    BY <2>1, EventKinds
  <2>4. Whole(queue, c, read) /\ c \in Int /\ read \in Int
    BY <2>1, <2>2 DEF Stretches
  <2>5. Whole(queue', c, read + 1)
    BY <2>1, <2>3, <2>4, WholeNext, Zenon
  <2>6. Stretches(a, b, c)'
    BY <2>1, <2>2, <2>5 DEF Stretches
  <2> QED BY <2>6 DEF PrintedInv
<1>4. CASE PipeTail
  <2>1. /\ tail # <<>> /\ tail \in Seq(Events) /\ queue' = Append(queue, Head(tail))
        /\ UNCHANGED <<seen, toClient, conn, read, written, process>>
    BY <1>4 DEF PipeTail, TerminalTypeOK, caller, network, runner
  <2>2. PICK e \in Events : queue' = queue \o <<e>> /\ <<e>> \in Seq(Events) /\ e = Head(tail)
    <3>1. Head(tail) \in Events /\ queue \in Seq(Events)
      BY <2>1, HeadTailProperties DEF TerminalTypeOK
    <3>2. <<Head(tail)>> \in Seq(Events)
      BY <3>1
    <3>3. queue' = queue \o <<Head(tail)>>
      BY <2>1, <3>1, AppendIsConcat
    <3> QED BY <3>1, <3>2, <3>3
  <2>3. ~Of(e, "stdout")
    <3>1. e = tail[1] /\ 1 \in 1..Len(tail)
      BY <2>1, <2>2, HeadTailProperties, EmptySeq, LenProperties
    <3> QED BY <3>1 DEF ExitsLast, NotPiped
  <2>4. \A i \in 1..Len(<<e>>) : ~Of(<<e>>[i], "stdout")
    BY <2>3
  <2> QED BY <2>1, <2>2, <2>4, QuietPrintedInv
<1>5. CASE StartFails \/ Return \/ StopMonitorFails
  <2>1. /\ UNCHANGED <<seen, toClient, conn, read, written, process>>
        /\ queue' = queue \o <<Said, Exit(-1), End>> \/ queue' = queue \o <<Exit(code), End>>
           \/ queue' = queue \o Crashed
    BY <1>5 DEF StartFails, Return, StopMonitorFails, caller, network, runner
  <2>2. code \in {-1, 0, 1}
    BY DEF TerminalTypeOK
  <2>3. /\ Said \in Events /\ End \in Events /\ Exit(-1) \in Events /\ Exit(code) \in Events
        /\ ~Of(Said, "stdout") /\ ~Of(End, "stdout") /\ ~Of(Exit(-1), "stdout")
        /\ ~Of(Exit(code), "stdout")
    BY <2>2, EventKinds
  <2>4. PICK more \in Seq(Events) : /\ queue' = queue \o more
                                    /\ \A i \in 1..Len(more) : ~Of(more[i], "stdout")
    <3>1. CASE queue' = queue \o <<Said, Exit(-1), End>>
      <4>1. <<Said, Exit(-1), End>> \in Seq(Events)
        BY <2>3
      <4>2. \A i \in 1..Len(<<Said, Exit(-1), End>>) : ~Of(<<Said, Exit(-1), End>>[i], "stdout")
        BY <2>3
      <4> QED BY <3>1, <4>1, <4>2
    <3>2. CASE queue' = queue \o <<Exit(code), End>>
      <4>1. <<Exit(code), End>> \in Seq(Events)
        BY <2>3
      <4>2. \A i \in 1..Len(<<Exit(code), End>>) : ~Of(<<Exit(code), End>>[i], "stdout")
        BY <2>3
      <4> QED BY <3>2, <4>1, <4>2
    <3>3. CASE queue' = queue \o Crashed
      BY <3>3, CrashedFacts
    <3> QED BY <2>1, <3>1, <3>2, <3>3
  <2> QED BY <2>1, <2>4, QuietPrintedInv
<1>6. ASSUME UNCHANGED <<seen, toClient, queue, read>>, conn' # "gone" => conn # "gone",
             process = "dead" => process' = "dead" /\ written' = written
      PROVE  PrintedInv'
  <2>1. <<>> \in Seq(Events) /\ \A i \in 1..Len(<<>>) : ~Of(<<>>[i], "stdout")
    OBVIOUS
  <2> QED BY <1>6, <2>1, QuietPrintedInv
<1>7. CASE Connect \/ StreamEnds \/ SendStop \/ Accept \/ HearStop \/ Update
  BY <1>6, <1>7 DEF Connect, StreamEnds, SendStop, Accept, HearStop, Update, Hangup, network,
     service, runner, caller, tasks
<1>8. CASE WaitReturns \/ Drain \/ Close \/ KillWaited \/ StopMonitor \/ StartProcess
  BY <1>6, <1>8 DEF WaitReturns, Drain, Close, KillWaited, StopMonitor, StartProcess, Killed,
     Running, TasksInv, network, service, runner, caller
<1>9. CASE PipeEnds \/ Stopping \/ KillTakes \/ PrintLine \/ ProcessExits \/ LineTooLong
  BY <1>6, <1>9 DEF PipeEnds, Stopping, StopAsks, StopPolls, KillTakes, PrintLine, ProcessExits,
     LineTooLong, Killed, Running, network, service, runner, caller
<1>10. CASE Monitor \/ WriteLog \/ Vanishes \/ UNCHANGED terminalVars
  BY <1>6, <1>10 DEF Monitor, Patience, Watch, Changed, WriteLog, Vanishes, terminalVars, network,
     service, runner, caller
<1> QED BY <1>1, <1>2, <1>3, <1>4, <1>5, <1>7, <1>8, <1>9, <1>10
        DEF TerminalNext, Caller, Service, Pipeline, Output, World

-----------------------------------------------------------------------------
(* The lines of the log file. *)

LEMMA SortedMove ==
  ASSUME NEW p \in Seq(Events), NEW q \in Seq(Events), q # <<>>,
         NEW k \in Int, NEW m \in Int, NEW n \in Int, k <= m, m <= n,
         Sorted(p, "file", k, m), Sorted(q, "file", m, n)
  PROVE  /\ Head(q) \in Events /\ Tail(q) \in Seq(Events)
         /\ Sorted(Tail(q), "file", m, n)
         /\ \E l \in m..n : /\ Sorted(Append(p, Head(q)), "file", k, l)
                            /\ Sorted(Tail(q), "file", l, n)
<1> DEFINE e == Head(q)
<1>1. e \in Events /\ Tail(q) \in Seq(Events)
  BY HeadTailProperties
<1>2. <<e>> \in Seq(Events) /\ Append(p, e) = p \o <<e>>
  BY <1>1, AppendIsConcat
<1>3. Sorted(Tail(q), "file", m, n)
  BY SortedTail
<1> HIDE DEF e
<1>4. CASE Of(e, "file")
  <2>1. e.line \in (m + 1)..n /\ Sorted(Tail(q), "file", e.line, n)
    BY <1>4, SortedTail DEF e
  <2>2. PICK l \in m..n : l = e.line /\ m <= l
    BY <2>1
  <2>3. Sorted(<<e>>, "file", m, l)
    BY <2>1, <2>2 DEF Sorted
  <2>4. l \in Int /\ m <= l
    BY <2>2
  <2>5. Sorted(p \o <<e>>, "file", k, l)
    BY <1>2, <2>3, <2>4, SortedConcat
  <2> QED BY <1>1, <1>2, <1>3, <2>1, <2>2, <2>5 DEF e
<1>5. CASE ~Of(e, "file")
  <2>1. Sorted(<<e>>, "file", m, m)
    BY <1>5 DEF Sorted
  <2>2. Sorted(p \o <<e>>, "file", k, m)
    <3>1. m <= m
      OBVIOUS
    <3> QED BY <1>2, <2>1, <3>1, SortedConcat
  <2>3. m \in m..n
    OBVIOUS
  <2> QED BY <1>1, <1>2, <1>3, <2>2, <2>3 DEF e
<1> QED BY <1>4, <1>5

LEMMA SortedOther ==
  ASSUME NEW p \in Seq(Events), NEW q \in Seq(Events), NEW m \in Int, NEW n \in Int, m <= n,
         Sorted(p, "file", m, n), \A i \in 1..Len(q) : ~Of(q[i], "file")
  PROVE  Sorted(p \o q, "file", m, n)
<1>1. Sorted(q, "file", n, n)
  BY DEF Sorted
<1> QED BY <1>1, SortedConcat

(* What the monitor has not read yet comes after all it has read, and that *)
(* is in order from the caller to the monitor's own queue.                 *)
FileStretches(a, b, c, d) ==
  /\ -1 <= a /\ a <= b /\ b <= c /\ c <= d /\ d <= logged
  /\ logged = 0 => d = -1
  /\ Sorted(seen, "file", -1, a) /\ Sorted(toClient, "file", a, b)
  /\ Sorted(queue, "file", b, c) /\ Sorted(tail, "file", c, d)
  /\ \A i \in 1..Len(log) : i > From => log[i] > d

LogInv ==
  /\ fileFound \/ recent => logged > 0
  /\ \A i \in 1..Len(log) : log[i] <= logged
  /\ \A i, j \in 1..Len(log) : i < j => log[i] < log[j]
  /\ \E a \in Int, b \in Int, c \in Int, d \in Int : FileStretches(a, b, c, d)

LEMMA InitLogInv ==
  ASSUME TerminalInit
  PROVE  LogInv
<1>1. Sorted(<<>>, "file", -1, -1)
  BY SortedEmpty
<1>2. FileStretches(-1, -1, -1, -1)
  BY <1>1 DEF TerminalInit, FileStretches
<1>3. -1 \in Int
  OBVIOUS
<1>4. /\ \A i \in 1..Len(log) : log[i] <= logged
      /\ \A i, j \in 1..Len(log) : i < j => log[i] < log[j]
  BY DEF TerminalInit
<1>5. fileFound \/ recent => logged > 0
  BY DEF TerminalInit
<1> QED BY <1>2, <1>3, <1>4, <1>5 DEF LogInv

(* Events are put behind the queue or the tail, but no lines of the file.  *)
LEMMA QuietLogInv ==
  ASSUME TerminalTypeOK, LogInv, UNCHANGED <<seen, toClient, log, logged, recent, fileFound, offset>>,
         NEW more \in Seq(Events), \A i \in 1..Len(more) : ~Of(more[i], "file"),
         queue' = queue \/ queue' = queue \o more,
         tail' = tail \/ tail' = tail \o more \/ tail' = more
  PROVE  LogInv'
<1>1. PICK a \in Int, b \in Int, c \in Int, d \in Int : FileStretches(a, b, c, d)
  BY DEF LogInv
<1>2. /\ queue \in Seq(Events) /\ tail \in Seq(Events) /\ b <= c /\ c <= d
      /\ Sorted(queue, "file", b, c) /\ Sorted(tail, "file", c, d)
  BY <1>1 DEF TerminalTypeOK, FileStretches
<1>3. Sorted(queue', "file", b, c)
  BY <1>2, SortedOther
<1>4. Sorted(more, "file", c, d)
  BY DEF Sorted
<1>5. Sorted(tail', "file", c, d)
  BY <1>2, <1>4, SortedOther
<1>6. From' = From
  BY DEF From
<1>7. FileStretches(a, b, c, d)'
  BY <1>1, <1>3, <1>5, <1>6 DEF FileStretches
<1> QED BY <1>7 DEF LogInv

LEMMA CallerLogInv ==
  ASSUME TerminalTypeOK, LogInv, Receive \/ ConnectFails \/ Break
  PROVE  LogInv'
<1>0. /\ toClient \in Seq(Events) /\ seen \in Seq(Events)
      /\ UNCHANGED <<queue, tail, log, logged, recent, fileFound, offset>>
  BY DEF TerminalTypeOK, Receive, ConnectFails, Break, service, network, logfile, monitor
<1>1. PICK a \in Int, b \in Int, c \in Int, d \in Int : FileStretches(a, b, c, d)
  BY DEF LogInv
<1>2. /\ -1 <= a /\ a <= b /\ Sorted(seen, "file", -1, a) /\ Sorted(toClient, "file", a, b)
  BY <1>1 DEF FileStretches
<1>3. From' = From
  BY <1>0 DEF From
<1>4. PICK l \in Int : /\ a <= l /\ l <= b
                       /\ Sorted(seen', "file", -1, l) /\ Sorted(toClient', "file", l, b)
  <2>1. CASE Receive
    <3>1. toClient # <<>> /\ seen' = Append(seen, Head(toClient)) /\ toClient' = Tail(toClient)
      BY <2>1 DEF Receive
    <3>2. -1 \in Int
      OBVIOUS
    <3>3. \E l \in a..b : /\ Sorted(Append(seen, Head(toClient)), "file", -1, l)
                          /\ Sorted(Tail(toClient), "file", l, b)
      BY <1>0, <1>2, <3>1, <3>2, SortedMove
    <3> QED BY <3>1, <3>3
  <2>2. CASE ConnectFails
    <3>1. seen' = <<Said, Exit(-1)>> /\ toClient' = toClient
      BY <2>2 DEF ConnectFails, network
    <3>2. ~Of(Said, "file") /\ ~Of(Exit(-1), "file")
      BY EventKinds
    <3>3. Sorted(seen', "file", -1, a)
      BY <3>1, <3>2 DEF Sorted
    <3> QED BY <1>2, <3>1, <3>3
  <2>3. CASE Break
    <3>1. PICK k \in 0..Len(toClient) : toClient' = SubSeq(toClient, 1, k)
      BY <2>3 DEF Break
    <3>2. Sorted(toClient', "file", a, b)
      BY <1>0, <1>2, <3>1, SortedPrefix
    <3>3. seen' = seen
      BY <2>3 DEF Break, caller
    <3> QED BY <1>2, <3>2, <3>3
  <2> QED BY <2>1, <2>2, <2>3
<1>5. FileStretches(l, b, c, d)'
  BY <1>0, <1>1, <1>3, <1>4 DEF FileStretches
<1> QED BY <1>0, <1>5 DEF LogInv

LEMMA SentLogInv ==
  ASSUME TerminalTypeOK, LogInv, Send \/ SendFails \/ Finish
  PROVE  LogInv'
<1>0. /\ queue \in Seq(Events) /\ toClient \in Seq(Events) /\ queue # <<>>
      /\ queue' = Tail(queue) /\ (toClient' = toClient \/ toClient' = Append(toClient, Head(queue)))
      /\ UNCHANGED <<seen, tail, log, logged, recent, fileFound, offset>>
  BY DEF Send, SendFails, Finish, TerminalTypeOK, caller, network, logfile, monitor
<1>1. PICK a \in Int, b \in Int, c \in Int, d \in Int : FileStretches(a, b, c, d)
  BY DEF LogInv
<1>2. a <= b /\ b <= c /\ Sorted(toClient, "file", a, b) /\ Sorted(queue, "file", b, c)
  BY <1>1 DEF FileStretches
<1>3. From' = From
  BY <1>0 DEF From
<1>4. /\ Sorted(queue', "file", b, c)
      /\ \E l \in b..c : /\ Sorted(Append(toClient, Head(queue)), "file", a, l)
                         /\ Sorted(queue', "file", l, c)
  BY <1>0, <1>2, SortedMove
<1>5. PICK l \in Int : /\ b <= l /\ l <= c
                       /\ Sorted(toClient', "file", a, l) /\ Sorted(queue', "file", l, c)
  <2>1. CASE toClient' = toClient
    BY <1>2, <1>4, <2>1
  <2>2. CASE toClient' = Append(toClient, Head(queue))
    <3>1. PICK l \in b..c : Sorted(toClient', "file", a, l) /\ Sorted(queue', "file", l, c)
      BY <1>4, <2>2
    <3> QED BY <3>1
  <2> QED BY <1>0, <2>1, <2>2
<1>6. FileStretches(a, l, c, d)'
  BY <1>0, <1>1, <1>2, <1>3, <1>5 DEF FileStretches
<1> QED BY <1>0, <1>6 DEF LogInv

LEMMA PipedLogInv ==
  ASSUME TerminalTypeOK, LogInv, PipeTail
  PROVE  LogInv'
<1>0. /\ queue \in Seq(Events) /\ tail \in Seq(Events) /\ tail # <<>>
      /\ queue' = Append(queue, Head(tail)) /\ tail' = Tail(tail)
      /\ UNCHANGED <<seen, toClient, log, logged, recent, fileFound, offset>>
  BY DEF PipeTail, TerminalTypeOK, caller, network, logfile
<1>1. PICK a \in Int, b \in Int, c \in Int, d \in Int : FileStretches(a, b, c, d)
  BY DEF LogInv
<1>2. b <= c /\ c <= d /\ Sorted(queue, "file", b, c) /\ Sorted(tail, "file", c, d)
  BY <1>1 DEF FileStretches
<1>3. From' = From
  BY <1>0 DEF From
<1>4. \E l \in c..d : Sorted(queue', "file", b, l) /\ Sorted(tail', "file", l, d)
  BY <1>0, <1>2, SortedMove
<1>5. PICK l \in Int : /\ c <= l /\ l <= d
                       /\ Sorted(queue', "file", b, l) /\ Sorted(tail', "file", l, d)
  BY <1>4
<1>6. FileStretches(a, b, l, d)'
  BY <1>0, <1>1, <1>2, <1>3, <1>5 DEF FileStretches
<1> QED BY <1>0, <1>6 DEF LogInv

LEMMA WrittenLogInv ==
  ASSUME TerminalTypeOK, LogInv, WriteLog
  PROVE  LogInv'
<1>0. /\ logged \in Nat /\ logged' = logged + 1 /\ offset \in Nat /\ log \in Seq(Nat)
      /\ log' = <<logged + 1>> \/ log' = Append(log, logged + 1)
      /\ UNCHANGED <<seen, toClient, queue, tail, fileFound, offset>>
  BY DEF WriteLog, TerminalTypeOK, caller, network, service, monitor
<1>1. PICK a \in Int, b \in Int, c \in Int, d \in Int : FileStretches(a, b, c, d)
  BY DEF LogInv
<1>2. d <= logged /\ (\A i \in 1..Len(log) : i > From => log[i] > d)
  BY <1>1 DEF FileStretches
<1>3. Len(log) \in Nat /\ \A i \in 1..Len(log) : log[i] \in Nat /\ log[i] <= logged
  BY <1>0, ElementOfSeq, LenProperties DEF LogInv
<1>4. CASE log' = <<logged + 1>>
  <2>1. Len(log') = 1 /\ log'[1] = logged + 1
    BY <1>4
  <2>2. /\ \A i \in 1..Len(log') : i > From' => log'[i] > d
        /\ \A i \in 1..Len(log') : log'[i] <= logged'
        /\ \A i, j \in 1..Len(log') : i < j => log'[i] < log'[j]
    BY <1>0, <1>2, <2>1
  <2>3. FileStretches(a, b, c, d)'
    BY <1>0, <1>1, <2>2 DEF FileStretches
  <2> QED BY <1>0, <2>2, <2>3 DEF LogInv
<1>5. CASE log' = Append(log, logged + 1)
  <2>1. /\ Len(log') = Len(log) + 1 /\ log'[Len(log) + 1] = logged + 1
        /\ \A i \in 1..Len(log) : log'[i] = log[i]
    BY <1>0, <1>5, AppendProperties
  <2>2. \A i \in 1..Len(log') : log'[i] <= logged' /\ log'[i] \in Nat
    BY SMTT(30), <1>0, <1>3, <2>1
  <2>3. ASSUME NEW i \in 1..Len(log'), NEW j \in 1..Len(log'), i < j
        PROVE  log'[i] < log'[j]
    <3>1. i \in 1..Len(log) /\ log'[i] = log[i] /\ log[i] <= logged
      BY <1>3, <2>1, <2>3
    <3>2. CASE j = Len(log) + 1
      BY <1>0, <1>3, <2>1, <3>1, <3>2
    <3>3. CASE j \in 1..Len(log)
      BY <2>1, <2>3, <3>1, <3>3 DEF LogInv
    <3> QED BY <1>3, <2>1, <3>2, <3>3
  <2>4. From' >= From
    BY <1>0, <1>3, <2>1 DEF From
  <2>5. From \in Nat /\ From' \in Nat
    BY <1>0, <1>3 DEF From
  <2>6. \A i \in 1..Len(log') : i > From' => log'[i] > d
    <3>1. SUFFICES ASSUME NEW i \in 1..Len(log'), i > From'
                   PROVE  log'[i] > d
      OBVIOUS
    <3>2. CASE i = Len(log) + 1
      BY <1>0, <1>2, <2>1, <3>2
    <3>3. CASE i \in 1..Len(log)
      BY <1>2, <2>1, <2>4, <2>5, <3>1, <3>3
    <3> QED BY <1>3, <2>1, <3>1, <3>2, <3>3
  <2>7. FileStretches(a, b, c, d)'
    BY <1>0, <1>1, <2>6 DEF FileStretches
  <2> QED BY <1>0, <2>2, <2>3, <2>7 DEF LogInv
<1> QED BY <1>0, <1>4, <1>5

LEMMA ReadLogInv ==
  ASSUME TerminalTypeOK, LogInv, Patience \/ Changed
  PROVE  LogInv'
<1>0. /\ UNCHANGED <<seen, toClient, queue, log, logged, recent>> /\ ReadFile
      /\ tail \in Seq(Events) /\ log \in Seq(Nat) /\ logged \in Nat
  BY DEF Patience, Changed, TerminalTypeOK, caller, network, service, logfile
<1>1. CASE ~Fresh
  <2>1. UNCHANGED <<fileFound, offset, tail>>
    BY <1>0, <1>1 DEF ReadFile
  <2>2. <<>> \in Seq(Events) /\ \A i \in 1..Len(<<>>) : ~Of(<<>>[i], "file")
    OBVIOUS
  <2> QED BY <1>0, <2>1, <2>2, QuietLogInv
<1>2. CASE Fresh
  <2>1. /\ fileFound' = TRUE /\ offset' = Len(log) /\ tail' = tail \o ReadLines /\ logged > 0
    BY <1>0, <1>2 DEF ReadFile, ReadLines, Fresh, LogInv
  <2>2. PICK a \in Int, b \in Int, c \in Int, d \in Int : FileStretches(a, b, c, d)
    BY DEF LogInv
  <2>3. /\ c <= d /\ d <= logged /\ Sorted(tail, "file", c, d)
        /\ \A i \in 1..Len(log) : i > From => log[i] > d
    BY <2>2 DEF FileStretches
  <2>4. /\ From \in 0..Len(log) /\ Len(log) \in Nat /\ ReadLines \in Seq(Events)
        /\ Len(ReadLines) = Len(log) - From
        /\ \A i \in 1..(Len(log) - From) :
             ReadLines[i] = File(log[From + i]) /\ log[From + i] \in Nat
    BY ReadLinesType
  <2>5. \A i \in 1..Len(ReadLines) : From + i \in 1..Len(log) /\ ReadLines[i].line = log[From + i]
                                     /\ log[From + i] \in Nat
    BY <2>4, EventKinds
  <2>6. \A i \in 1..Len(ReadLines) : ReadLines[i].line \in (d + 1)..logged
    <3>1. SUFFICES ASSUME NEW i \in 1..Len(ReadLines)
                   PROVE  ReadLines[i].line \in (d + 1)..logged
      OBVIOUS
    <3>2. /\ From + i \in 1..Len(log) /\ ReadLines[i].line = log[From + i]
          /\ log[From + i] \in Nat /\ From + i > From
      BY <2>4, <2>5
    <3>3. log[From + i] > d /\ log[From + i] <= logged
      BY <2>3, <3>2 DEF LogInv
    <3> QED BY <3>2, <3>3
  <2>7. \A i, j \in 1..Len(ReadLines) : i < j => ReadLines[i].line < ReadLines[j].line
    <3>1. SUFFICES ASSUME NEW i \in 1..Len(ReadLines), NEW j \in 1..Len(ReadLines), i < j
                   PROVE  ReadLines[i].line < ReadLines[j].line
      OBVIOUS
    <3>2. /\ From + i \in 1..Len(log) /\ ReadLines[i].line = log[From + i]
          /\ From + j \in 1..Len(log) /\ ReadLines[j].line = log[From + j]
          /\ From + i < From + j
      BY <2>4, <2>5, <3>1
    <3>3. log[From + i] < log[From + j]
      BY <3>2 DEF LogInv
    <3> QED BY <3>2, <3>3
  <2>8. Sorted(ReadLines, "file", d, logged)
    BY <2>6, <2>7 DEF Sorted
  <2>9. Sorted(tail', "file", c, logged)
    BY <1>0, <2>1, <2>3, <2>4, <2>8, SortedConcat
  <2>10. From' = Len(log)
    BY <1>0, <2>1, <2>4 DEF From
  <2>11. PICK l \in Int : l = logged
    BY <1>0
  <2>12. FileStretches(a, b, c, l)'
    BY SMTT(30), <1>0, <2>1, <2>2, <2>3, <2>4, <2>9, <2>10, <2>11 DEF FileStretches
  <2> QED BY <1>0, <2>1, <2>12 DEF LogInv
<1> QED BY <1>1, <1>2

LEMMA NextLogInv ==
  ASSUME TerminalTypeOK, LogInv, [TerminalNext]_terminalVars
  PROVE  LogInv'
<1>1. CASE Receive \/ ConnectFails \/ Break
  BY <1>1, CallerLogInv
<1>2. CASE Send \/ SendFails \/ Finish
  BY <1>2, SentLogInv
<1>3. CASE PipeTail
  BY <1>3, PipedLogInv
<1>4. CASE WriteLog
  BY <1>4, WrittenLogInv
<1>5. CASE Patience \/ Changed
  BY <1>5, ReadLogInv
<1>6. CASE PipeLine
  <2>1. /\ read \in Nat /\ queue \in Seq(Events) /\ queue' = Append(queue, Out(read + 1))
        /\ UNCHANGED <<seen, toClient, log, logged, recent, fileFound, offset, tail>>
    BY <1>6 DEF PipeLine, TerminalTypeOK, caller, network, logfile, monitor
  <2>2. Out(read + 1) \in Events /\ ~Of(Out(read + 1), "file")
    BY <2>1, EventKinds
  <2>3. <<Out(read + 1)>> \in Seq(Events) /\ queue' = queue \o <<Out(read + 1)>>
    BY <2>1, <2>2, AppendIsConcat
  <2>4. \A i \in 1..Len(<<Out(read + 1)>>) : ~Of(<<Out(read + 1)>>[i], "file")
    BY <2>2
  <2> QED BY <2>1, <2>3, <2>4, QuietLogInv
<1>7. CASE StartFails \/ Return \/ StopMonitor \/ StopMonitorFails
  <2>0. code \in {-1, 0, 1}
    BY DEF TerminalTypeOK
  <2>1. /\ Said \in Events /\ End \in Events /\ Exit(-1) \in Events /\ Exit(code) \in Events
        /\ ~Of(Said, "file") /\ ~Of(End, "file") /\ ~Of(Exit(-1), "file") /\ ~Of(Exit(code), "file")
    BY <2>0, EventKinds
  <2>2. /\ <<Said, Exit(-1), End>> \in Seq(Events)
        /\ \A i \in 1..Len(<<Said, Exit(-1), End>>) : ~Of(<<Said, Exit(-1), End>>[i], "file")
    BY <2>1
  <2>3. /\ <<Exit(code), End>> \in Seq(Events)
        /\ \A i \in 1..Len(<<Exit(code), End>>) : ~Of(<<Exit(code), End>>[i], "file")
    BY <2>1
  <2>4. /\ <<Said, End>> \in Seq(Events)
        /\ \A i \in 1..Len(<<Said, End>>) : ~Of(<<Said, End>>[i], "file")
    BY <2>1
  <2>5. <<End>> \in Seq(Events) /\ \A i \in 1..Len(<<End>>) : ~Of(<<End>>[i], "file")
    BY <2>1
  <2>6. <<>> \in Seq(Events) /\ \A i \in 1..Len(<<>>) : ~Of(<<>>[i], "file")
    OBVIOUS
  <2>7. CASE StartFails
    <3>1. /\ UNCHANGED <<seen, toClient, log, logged, recent, fileFound, offset, tail>>
          /\ queue' = queue \o <<Said, Exit(-1), End>>
      BY <2>7 DEF StartFails, caller, network, logfile, monitor
    <3> QED BY <3>1, <2>2, QuietLogInv
  <2>8. CASE Return
    <3>1. /\ UNCHANGED <<seen, toClient, log, logged, recent, fileFound, offset>> /\ tail' = <<>>
          /\ queue' = queue \o <<Exit(code), End>> \/ queue' = queue \o Crashed
      BY <2>8 DEF Return, caller, network, logfile
    <3>2. PICK more \in Seq(Events) : /\ queue' = queue \o more
                                      /\ \A i \in 1..Len(more) : ~Of(more[i], "file")
      BY <3>1, <2>3, CrashedFacts
    <3>3. PICK a \in Int, b \in Int, c \in Int, d \in Int : FileStretches(a, b, c, d)
      BY DEF LogInv
    <3>4. b <= c /\ Sorted(queue, "file", b, c) /\ queue \in Seq(Events)
      BY <3>3 DEF FileStretches, TerminalTypeOK
    <3>5. Sorted(queue', "file", b, c) /\ Sorted(tail', "file", c, d)
      BY <3>1, <3>2, <3>4, SortedOther, SortedEmpty
    <3>6. From' = From
      BY <3>1 DEF From
    <3>7. FileStretches(a, b, c, d)'
      BY <3>1, <3>3, <3>5, <3>6 DEF FileStretches
    <3> QED BY <3>1, <3>7 DEF LogInv
  <2>9. CASE StopMonitor
    <3>1. /\ UNCHANGED <<seen, toClient, queue, log, logged, recent, fileFound, offset>>
          /\ tail' = tail \o <<End>> \/ tail' = tail \o <<Said, End>> \/ tail' = <<End>>
      BY <2>9 DEF StopMonitor, caller, network, service, logfile
    <3> QED BY <3>1, <2>4, <2>5, QuietLogInv
  <2>10. CASE StopMonitorFails
    <3>1. /\ UNCHANGED <<seen, toClient, log, logged, recent, fileFound, offset, tail>>
          /\ queue' = queue \o Crashed
      BY <2>10 DEF StopMonitorFails, caller, network, logfile, monitor
    <3> QED BY <3>1, CrashedFacts, QuietLogInv
  <2> QED BY <1>7, <2>7, <2>8, <2>9, <2>10
<1>8. ASSUME UNCHANGED <<seen, toClient, queue, log, logged, recent, fileFound, offset, tail>>
      PROVE  LogInv'
  <2>1. <<>> \in Seq(Events) /\ \A i \in 1..Len(<<>>) : ~Of(<<>>[i], "file")
    OBVIOUS
  <2> QED BY <1>8, <2>1, QuietLogInv
<1>9. CASE Connect \/ StreamEnds \/ SendStop \/ Accept \/ HearStop \/ Update
  BY <1>8, <1>9 DEF Connect, StreamEnds, SendStop, Accept, HearStop, Update, network,
     service, caller, logfile, monitor
<1>10. CASE WaitReturns \/ Drain \/ Close \/ KillWaited \/ StartProcess
  BY <1>8, <1>10 DEF WaitReturns, Drain, Close, KillWaited, StartProcess, network, service,
     caller, logfile, monitor
<1>11. CASE PipeEnds \/ Stopping \/ KillTakes \/ PrintLine \/ ProcessExits \/ LineTooLong
  BY <1>8, <1>11 DEF PipeEnds, Stopping, StopAsks, StopPolls, KillTakes, PrintLine,
     ProcessExits, LineTooLong, network, service, caller, logfile, monitor
<1>12. CASE Watch \/ Vanishes \/ UNCHANGED terminalVars
  BY <1>8, <1>12 DEF Watch, Vanishes, terminalVars, network, service, caller, logfile, monitor
<1> QED BY <1>1, <1>2, <1>3, <1>4, <1>5, <1>6, <1>7, <1>9, <1>10, <1>11, <1>12
        DEF TerminalNext, Caller, Service, Pipeline, Output, Monitor, World

-----------------------------------------------------------------------------
(* What the caller gets. *)

TerminalIInv == TerminalTypeOK /\ TasksInv /\ ExitsLast /\ PrintedInv /\ LogInv

LEMMA TerminalIInvComplete ==
  ASSUME TerminalIInv
  PROVE  OutputComplete
<1>1. /\ Len(seen) \in Nat /\ seen \in Seq(Events) /\ written \in Nat /\ read \in Nat
      /\ read <= written
  BY LenProperties DEF TerminalIInv, TerminalTypeOK, TasksInv
<1>2. PICK a \in Nat, b \in Nat, c \in Nat : Stretches(a, b, c)
  BY DEF TerminalIInv, PrintedInv
<1>3. PICK k \in Int, l \in Int, m \in Int, n \in Int : FileStretches(k, l, m, n)
  BY DEF TerminalIInv, LogInv
<1>4. Whole(seen, 0, a) /\ a \in 0..written
  BY <1>1, <1>2 DEF Stretches, Whole
<1>5. \A source \in {"stdout", "file"} : \A i \in 1..Len(seen) :
        i \in Lines(source) <=> Of(seen[i], source)
  BY DEF Lines, Of
<1>6. Lines("stdout") \subseteq 1..Len(seen) /\ Lines("file") \subseteq 1..Len(seen)
  BY DEF Lines
<1>7. InOrder("stdout")
  BY <1>4, <1>5, <1>6 DEF InOrder, Whole, Sorted
<1>8. InOrder("file")
  BY <1>3, <1>5, <1>6 DEF InOrder, FileStretches, Sorted
<1>9. Got("stdout") = 1..a
  <2>1. ASSUME NEW x \in Got("stdout")
        PROVE  x \in 1..a
    BY <1>4, <1>5, <1>6 DEF Got, Whole, Sorted
  <2>2. ASSUME NEW x \in 1..a
        PROVE  x \in Got("stdout")
    <3>1. PICK i \in 1..Len(seen) : Of(seen[i], "stdout") /\ seen[i].line = x
      BY <1>4 DEF Whole
    <3> QED BY <3>1, <1>5 DEF Got
  <2> QED BY <2>1, <2>2
<1>10. ASSUME NEW i \in Exits, seen[i].code # -1
       PROVE  Got("stdout") = 1..written /\ process = "dead"
  <2>1. i \in 1..Len(seen) /\ seen[i].type = "exit"
    BY DEF Exits
  <2>2. a = written /\ process = "dead"
    BY <1>2, <1>10, <2>1 DEF Stretches
  <2> QED BY <1>9, <2>2
<1>11. ASSUME logged = 0
       PROVE  Got("file") = {}
  <2>1. k = -1 /\ Sorted(seen, "file", -1, k)
    BY <1>3, <1>11 DEF FileStretches
  <2>2. \A i \in 1..Len(seen) : ~Of(seen[i], "file")
    BY <2>1 DEF Sorted
  <2> QED BY <2>2, <1>5, <1>6 DEF Got
<1> QED BY <1>4, <1>7, <1>8, <1>9, <1>10, <1>11 DEF OutputComplete

(* The invariant holds from the start and in every step.                   *)
THEOREM TerminalInvariant == TerminalSpec => []TerminalIInv
<1>1. TerminalInit => TerminalIInv
  BY TerminalInitTypeOK, InitTasksInv, InitExitsLast, InitPrintedInv, InitLogInv DEF TerminalIInv
<1>2. TerminalIInv /\ [TerminalNext]_terminalVars => TerminalIInv'
  BY TerminalNextTypeOK, NextTasksInv, NextExitsLast, NextPrintedInv, NextLogInv DEF TerminalIInv
<1> QED BY <1>1, <1>2, PTL DEF TerminalSpec

(* Whatever a process prints and writes, however long its log is and how   *)
(* often it is replaced, whoever stops it and wherever the connection      *)
(* breaks: the caller has the output from the beginning and in its order,  *)
(* an exit code only behind all of it, and no line of the log file twice,  *)
(* out of order or of an earlier run (run_cns_pipeline, _handle_execute,   *)
(* AsyncLogMonitor, execute_remote).                                       *)
THEOREM CallerGetsOutput == TerminalSpec => []OutputComplete
<1>1. TerminalIInv => OutputComplete
  BY TerminalIInvComplete
<1> QED BY <1>1, TerminalInvariant, PTL
=============================================================================
