------------------------ MODULE PeripheralNervousSystem ------------------------
(***************************************************************************)
(* The registry of nerve terminals, the scans of the subnet that keep it,  *)
(* and the pages that follow it (peripheral_nervous_system.py and api.py,  *)
(* the post_save broadcast of thalamus/signals.py).                        *)
(*                                                                         *)
(* The lock of the scan is an object of its process: the web server and    *)
(* the Celery worker, where scan_and_register is a native effector, have   *)
(* one each and scan at the same time.  A page is of another repository:   *)
(* on every broadcast it lists the registry again, one list at a time.     *)
(***************************************************************************)
EXTENDS AutonomicNervousSystem

CONSTANTS
  Agents,             \* by the UUID they answer a PING with
  Misfits,            \* those whose UUID is no UUID
  Ips, Pages,
  Ops, MaxOps         \* what happens from outside, and the bound of how often

ASSUME PeripheralAssumption ==
  Misfits \subseteq Agents /\ Ips \subseteq Nat /\ MaxOps \in Nat

VARIABLES
  net,                \* the address of an agent that runs
  registry,           \* NerveTerminalRegistry
  scan,               \* the scan of each process
  page,
  ops,
  trusted             \* history: a scan of the network as it is has ended

peripheral == <<net, registry, scan, page, trusted>>
vars == <<autonomic, peripheral, ops>>

Processes == {"web", "worker"}
NoRow  == [status |-> "none", ip |-> 0]
NoScan == [pc |-> "idle", found |-> {}, left |-> {}, by |-> None, gone |-> {}, fresh |-> TRUE]
Rows   == {a \in Agents : registry[a].status # "none"}
Down   == 0

InitPeripheral ==
  /\ net \in [Agents -> {Down} \cup Ips] /\ registry = [a \in Agents |-> NoRow]
  /\ \A a, b \in Agents : net[a] = net[b] /\ net[a] # Down => a = b
  /\ scan = [p \in Processes |-> NoScan]
  /\ page = [g \in Pages |-> [want |-> TRUE, pc |-> "rest", early |-> FALSE, shown |-> registry]]
  /\ trusted = FALSE

Init == InitAutonomic /\ InitPeripheral /\ ops = 0

(* A saved row is broadcast, and every page wants to list again.           *)
Broadcast == page' = [g \in Pages |-> [page[g] EXCEPT !.want = TRUE]]

-----------------------------------------------------------------------------
(* _run_async_scan, asked for by a page, a button or a spike: while one    *)
(* runs in the process there is no other.                                  *)
ScanBegins(p, by) == scan' = [scan EXCEPT ![p] = [NoScan EXCEPT !.pc = "probe", !.by = by]]

(* All probes run at the same time; an answer may take too long.           *)
Probe(p) ==
  /\ scan[p].pc = "probe"
  /\ \E late \in SUBSET {a \in Agents : net[a] # Down} :
       /\ late # {} => "late" \in Ops /\ ops < MaxOps
       /\ ops' = IF late = {} THEN ops ELSE ops + 1
       /\ LET found == {<<a, net[a]>> : a \in {b \in Agents \ late : net[b] # Down}} IN
          scan' = [scan EXCEPT ![p] = [@ EXCEPT !.pc = "register", !.found = found,
                                                !.left = found, !.fresh = (late = {})]]
  /\ UNCHANGED <<net, registry, page, trusted>>

(* mutant: what is known already is saved all the same.                    *)
UnchangedNever(a, ip) == FALSE
(* mutant: a known address is enough.                                      *)
UnchangedAddress(a, ip) == registry[a].ip = ip
Unchanged(a, ip) == registry[a] = [status |-> "ONLINE", ip |-> ip]

Released(p) == [scan EXCEPT ![p] = NoScan]

(* What a scan with old answers writes makes the others untrustworthy.     *)
Spoiled(scans, p) ==
  IF scan[p].fresh THEN scans
  ELSE [q \in Processes |-> [scans[q] EXCEPT !.fresh = (@ /\ scans[q].pc \in {"idle", "probe"})]]

(* A scan works through what it has found in the order of the addresses.   *)
FirstOf(p) == CHOOSE y \in scan[p].left : \A z \in scan[p].left : y[2] <= z[2]

At(p, pc, left) == [scan EXCEPT ![p] = [scan[p] EXCEPT !.pc = pc, !.left = left]]
Making(p)  == At(p, "create", scan[p].left)
Past(p)    == At(p, "register", scan[p].left \ {FirstOf(p)})

Registered(p) ==
  LET x == FirstOf(p) IN
  /\ scan' = Spoiled(Past(p), p)
  /\ registry' = [registry EXCEPT ![x[1]] = [status |-> "ONLINE", ip |-> x[2]]]
  /\ trusted' = (trusted /\ scan[p].fresh)
  /\ Broadcast

(* _register_agent_in_db: an update, nothing, or a row to be made.  What   *)
(* is no UUID is an exception that ends the scan.                          *)
Register(p) ==
  /\ scan[p].pc = "register" /\ scan[p].left # {}
  /\ LET x == FirstOf(p)
         a == x[1]
     IN \/ /\ a \in Misfits
           /\ scan' = Released(p) /\ UNCHANGED <<registry, page, trusted>>
        \/ /\ a \notin Misfits /\ a \notin Rows
           /\ scan' = Making(p) /\ UNCHANGED <<registry, page, trusted>>
        \/ /\ a \in Rows \ Misfits /\ Unchanged(a, x[2])
           /\ \A q \in Processes : a \notin scan[q].gone
           /\ scan' = Past(p) /\ UNCHANGED <<registry, page, trusted>>
        \/ /\ a \in Rows \ Misfits /\ ~Unchanged(a, x[2])
           /\ \A q \in Processes : a \notin scan[q].gone
           /\ Registered(p)
  /\ UNCHANGED <<net, ops>>

(* The other process may have made the row since: an IntegrityError ends   *)
(* the scan.                                                               *)
Create(p) ==
  /\ scan[p].pc = "create"
  /\ IF FirstOf(p)[1] \in Rows
     THEN scan' = Released(p) /\ UNCHANGED <<registry, page, trusted>>
     ELSE Registered(p)
  /\ UNCHANGED <<net, ops>>

(* mutant: the row that was not found is taken offline without a signal.   *)
MarkUnreachableQuietly(p) ==
  LET found == {x[1] : x \in scan[p].found}
      stale == {a \in Rows : registry[a].status # "OFFLINE"} \ found
  IN
  /\ scan[p].pc = "register" /\ scan[p].left = {}
  /\ \A q \in Processes : scan[q].gone \cap stale = {}
  /\ scan' = [scan EXCEPT ![p] = [@ EXCEPT !.pc = "commit", !.gone = stale]]
  /\ UNCHANGED <<net, registry, trusted, ops, page>>
(* Each row is saved, and broadcast, inside of the transaction.            *)
MarkUnreachable(p) ==
  LET found == {x[1] : x \in scan[p].found}
      stale == {a \in Rows : registry[a].status # "OFFLINE"} \ found
  IN
  /\ scan[p].pc = "register" /\ scan[p].left = {}
  /\ \A q \in Processes : scan[q].gone \cap stale = {}
  /\ scan' = [scan EXCEPT ![p] = [@ EXCEPT !.pc = "commit", !.gone = stale]]
  /\ IF stale = {} THEN page' = page ELSE Broadcast
  /\ UNCHANGED <<net, registry, trusted, ops>>

Offline(p) == [a \in Agents |-> IF a \in scan[p].gone
                                THEN [registry[a] EXCEPT !.status = "OFFLINE"] ELSE registry[a]]

Commit(p) ==
  /\ scan[p].pc = "commit"
  /\ registry' = Offline(p)
  /\ trusted' = scan[p].fresh
  /\ scan' = Spoiled(Released(p), p)
  /\ UNCHANGED <<net, page, ops>>

ScanStep(p) == Probe(p) \/ Register(p) \/ Create(p) \/ MarkUnreachable(p) \/ Commit(p)

-----------------------------------------------------------------------------
(* NerveTerminalRegistryViewSet.list: a scan of its own, or, when one runs *)
(* already, the rows as they are; a scan that fails does not matter.       *)
PageLists(g) ==
  /\ web # "down" /\ page[g].want /\ page[g].pc = "rest"
  /\ page' = [page EXCEPT ![g] = [@ EXCEPT !.want = FALSE, !.pc = "listing"]]
  /\ IF scan["web"].pc = "idle" THEN ScanBegins("web", g) ELSE scan' = scan
  /\ UNCHANGED <<net, registry, trusted, ops>>

(* The rows that are committed.                                            *)
PageShows(g) ==
  /\ page[g].pc = "listing" /\ scan["web"].by # g
  /\ LET early == \E p \in Processes : scan[p].gone # {} IN
     page' = [page EXCEPT ![g] = [@ EXCEPT !.pc = "rest", !.shown = registry, !.early = early]]
  /\ UNCHANGED <<net, registry, scan, trusted, ops>>

(* The scans and the lists of the web server end with it; the pages find   *)
(* it again.                                                               *)
Disconnected ==
  /\ scan' = Released("web")
  /\ page' = [g \in Pages |-> [page[g] EXCEPT !.want = TRUE, !.pc = "rest"]]
  /\ UNCHANGED <<net, registry, trusted>>

-----------------------------------------------------------------------------
Outside(kind) == kind \in Ops /\ ops < MaxOps /\ ops' = ops + 1

(* An agent starts, ends or gets another address; scans under way do not   *)
(* know of it.                                                             *)
Moves(a) ==
  /\ \E ip \in ({Down} \cup Ips) \ {net[a]} :
       /\ ip # Down => \A b \in Agents : net[b] # ip
       /\ net' = [net EXCEPT ![a] = ip]
  /\ scan' = [p \in Processes |-> [scan[p] EXCEPT !.fresh = (@ /\ scan[p].pc \in {"idle", "probe"})]]
  /\ trusted' = FALSE
  /\ UNCHANGED <<registry, page>>

(* The scan button, and the native effector.                               *)
ScanAsked(p) ==
  /\ scan[p].pc = "idle"
  /\ IF p = "web" THEN web # "down" ELSE \E w \in Workers : worker[w] = "on"
  /\ ScanBegins(p, None)
  /\ UNCHANGED <<net, registry, page, trusted>>

Next ==
  \/ (\E p \in Processes : ScanStep(p)) /\ UNCHANGED autonomic
  \/ (\E g \in Pages : PageLists(g) \/ PageShows(g)) /\ UNCHANGED autonomic
  \/ (\E r \in Requests : RequestStep(r)) /\ UNCHANGED <<peripheral, ops>>
  \/ WebEnds /\ Disconnected /\ UNCHANGED ops
  \/ WorkerStep /\ UNCHANGED <<peripheral, ops>>
  \/ (\E p \in Pids : proc[p] = "ending" /\ BeatEnds(p)) /\ UNCHANGED <<peripheral, ops>>
  \/ Outside("moves") /\ (\E a \in Agents : Moves(a)) /\ UNCHANGED autonomic
  \/ Outside("scan") /\ (\E p \in Processes : ScanAsked(p)) /\ UNCHANGED autonomic
  \/ Outside("launch") /\ Launch /\ UNCHANGED peripheral
  \/ Outside("crash") /\ (\E p \in Pids : proc[p] = "beat" /\ BeatEnds(p)) /\ UNCHANGED peripheral
  \/ Outside("reuse") /\ (\E p \in Pids : Reuse(p)) /\ UNCHANGED peripheral
  \/ \E op \in Verbs :
       /\ Outside(op)
       /\ \E r \in Requests : Begin(r, op)
       /\ UNCHANGED peripheral

(* Sockets have timeouts, and requests and pages are served.               *)
Fairness ==
  /\ \A p \in Processes : WF_vars(ScanStep(p) /\ UNCHANGED autonomic)
  /\ \A g \in Pages : WF_vars((PageLists(g) \/ PageShows(g)) /\ UNCHANGED autonomic)

Spec == Init /\ [][Next]_vars /\ Fairness

-----------------------------------------------------------------------------
Row  == [status : {"none", "ONLINE", "OFFLINE"}, ip : {0} \cup Ips]
Scan == [pc : {"idle", "probe", "register", "create", "commit"}, found : SUBSET (Agents \X Ips),
         left : SUBSET (Agents \X Ips), by : Pages \cup {None}, gone : SUBSET Agents,
         fresh : BOOLEAN]
Page == [want : BOOLEAN, pc : {"rest", "listing"}, early : BOOLEAN, shown : [Agents -> Row]]

TypeOK ==
  /\ AutonomicTypeOK
  /\ net \in [Agents -> {Down} \cup Ips] /\ registry \in [Agents -> Row]
  /\ scan \in [Processes -> Scan] /\ page \in [Pages -> Page]
  /\ ops \in Nat /\ trusted \in BOOLEAN

(* After a scan of the network as it still is, whatever was known before   *)
(* and whatever the other process found, unless it wrote what it had found *)
(* of an older network, the terminals ONLINE are those that answer, at     *)
(* their addresses.                                                        *)
Reconciled ==
  trusted =>
    \A a \in Agents \ Misfits :
      IF net[a] = Down THEN registry[a].status # "ONLINE"
      ELSE registry[a] = [status |-> "ONLINE", ip |-> net[a]]

(* A page that has answered every broadcast shows the registry, unless it  *)
(* listed between a broadcast and the commit of what was broadcast.        *)
PageTrue ==
  \A g \in Pages :
    page[g].pc = "rest" /\ ~page[g].want /\ ~page[g].early => page[g].shown = registry

(* A scan, its broadcasts, the lists they make the pages ask for and the   *)
(* scans of those lists come to an end.                                    *)
StormEnds == <>[](\A p \in Processes : scan[p].pc = "idle")
=============================================================================
