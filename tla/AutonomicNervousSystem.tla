------------------------ MODULE AutonomicNervousSystem ------------------------
(***************************************************************************)
(* The processes of the system as its API starts and ends them             *)
(* (peripheral_nervous_system/autonomic_nervous_system.py): the Beat whose *)
(* process id is in a file, the Celery worker, and the web server that     *)
(* the requests run in.  Requests run at the same time, and die with the   *)
(* web server.  The processes are those of a POSIX system.                 *)
(***************************************************************************)
EXTENDS Naturals, FiniteSets

CONSTANTS
  Requests,           \* requests there may be at a time
  Pids, Workers,      \* processes there may be
  None

ASSUME AutonomicAssumption == Pids # {} /\ None \notin Pids

VARIABLES
  pidfile,            \* celery_beat.pid
  proc,               \* what runs under a process id
  child,              \* the processes the web server has to wait for
  worker,             \* the Celery workers
  web,                \* the web server
  request,            \* where each request is
  crowded             \* history: requests met, died half done or could not write the file

autonomic == <<pidfile, proc, child, worker, web, request, crowded>>

NoRequest == [pc |-> "idle", op |-> None, pid |-> None]

(* A Beat may run since before the web server was reloaded.                *)
InitAutonomic ==
  /\ pidfile \in {None, CHOOSE p \in Pids : TRUE}
  /\ proc = [p \in Pids |-> IF p = pidfile THEN "beat" ELSE "free"] /\ child = {}
  /\ worker = [w \in Workers |-> IF w = CHOOSE v \in Workers : TRUE THEN "on" ELSE "none"]
  /\ web = "up" /\ crowded = FALSE
  /\ request = [r \in Requests |-> NoRequest]

Serving  == web # "down"
InHand   == {r \in Requests : request[r].pc # "idle"}
To(r, pc) == request' = [request EXCEPT ![r].pc = pc]
Ends(r)  == request' = [request EXCEPT ![r] = NoRequest]

(* A zombie has its process id still, and so has a stranger that got one;  *)
(* a process of another user must not be asked and passes for gone.        *)
IsProcessRunning(p) == p # None /\ proc[p] \notin {"free", "foreign"}

(* SIGTERM: a Beat goes away in its own time, a zombie is dead already;    *)
(* what is gone by now, or another user's, cannot be signalled.            *)
Terminated(p) == [proc EXCEPT ![p] = CASE @ = "beat" -> "ending"
                                       [] @ = "other" -> "free" [] OTHER -> @]

(* Popen waits for the children of earlier calls that have died.           *)
Reaped == [p \in Pids |-> IF p \in child /\ proc[p] = "zombie" THEN "free" ELSE proc[p]]

-----------------------------------------------------------------------------
Begin(r, op) ==
  /\ Serving /\ request[r].pc = "idle"
  /\ request' = [request EXCEPT ![r] = [NoRequest EXCEPT !.pc = op, !.op = op]]
  /\ crowded' = (crowded \/ InHand # {})
  /\ UNCHANGED <<pidfile, proc, child, worker, web>>

(* mutant: a Beat is started whatever the file says.                       *)
StartAnyway(r) ==
  /\ request[r].pc = "start"
  /\ To(r, "spawn")
  /\ UNCHANGED <<pidfile, proc, child, worker, web, crowded>>
Start(r) ==
  /\ request[r].pc = "start"
  /\ IF IsProcessRunning(pidfile) THEN Ends(r) ELSE To(r, "spawn")
  /\ UNCHANGED <<pidfile, proc, child, worker, web, crowded>>

(* There may be no celery, or no process: the request ends with an error,  *)
(* or, in a restart, goes on.                                              *)
Spawn(r) ==
  /\ request[r].pc = "spawn"
  /\ \/ \E p \in Pids :
          /\ Reaped[p] = "free"
          /\ proc' = [Reaped EXCEPT ![p] = "beat"] /\ child' = child \cup {p}
          /\ request' = [request EXCEPT ![r].pc = "write", ![r].pid = p]
     \/ /\ IF request[r].op = "restart" THEN To(r, "reload") ELSE Ends(r)
        /\ UNCHANGED <<proc, child>>
  /\ UNCHANGED <<pidfile, worker, web, crowded>>

(* The file may not be written, or be left empty, which is as good as      *)
(* none: the Beat runs on.                                                 *)
WritePid(r) ==
  /\ request[r].pc = "write"
  /\ \/ pidfile' = request[r].pid /\ UNCHANGED crowded
     \/ pidfile' \in {pidfile, None} /\ crowded' = TRUE
  /\ IF request[r].op = "restart" THEN To(r, "reload") ELSE Ends(r)
  /\ UNCHANGED <<proc, child, worker, web>>

Stop(r) ==
  /\ request[r].pc = "stop"
  /\ IF pidfile = None THEN Ends(r)
     ELSE request' = [request EXCEPT ![r].pid = pidfile,
                        ![r].pc = IF IsProcessRunning(pidfile) THEN "kill" ELSE "clear"]
  /\ UNCHANGED <<pidfile, proc, child, worker, web, crowded>>

Kill(r) ==
  /\ request[r].pc = "kill"
  /\ proc' = Terminated(request[r].pid)
  /\ To(r, "clear")
  /\ UNCHANGED <<pidfile, child, worker, web, crowded>>

(* The file goes, whatever is in it by now and whether or not the signal   *)
(* could be sent (stop_failed).                                            *)
ClearPid(r) ==
  /\ request[r].pc = "clear"
  /\ pidfile' = None
  /\ IF request[r].op = "restart" THEN To(r, "spawn") ELSE Ends(r)
  /\ UNCHANGED <<proc, child, worker, web, crowded>>

(* Both status pages tidy the file of a Beat that is gone.                 *)
Status(r) ==
  /\ request[r].pc = "status"
  /\ IF pidfile # None /\ ~IsProcessRunning(pidfile) THEN To(r, "clear") ELSE Ends(r)
  /\ UNCHANGED <<pidfile, proc, child, worker, web, crowded>>

-----------------------------------------------------------------------------
(* control.shutdown() reaches the workers that listen by now.              *)
ShutDownWorkers == [w \in Workers |-> IF worker[w] = "on" THEN "leaving" ELSE worker[w]]

Restart(r) ==
  /\ request[r].pc = "restart"
  /\ worker' = ShutDownWorkers
  /\ To(r, "respawn")
  /\ UNCHANGED <<pidfile, proc, child, web, crowded>>

Respawn(r) ==
  /\ request[r].pc = "respawn"
  /\ proc' = Reaped
  /\ \/ \E w \in Workers : worker[w] = "none" /\ worker' = [worker EXCEPT ![w] = "booting"]
     \/ worker' = worker
  /\ To(r, "look")
  /\ UNCHANGED <<pidfile, child, web, crowded>>

LookForBeat(r) ==
  /\ request[r].pc = "look"
  /\ IF IsProcessRunning(pidfile)
     THEN request' = [request EXCEPT ![r].pc = "kill", ![r].pid = pidfile]
     ELSE To(r, "reload")
  /\ UNCHANGED <<pidfile, proc, child, worker, web, crowded>>

(* A thread touches the file the autoreloader watches.                     *)
Reload(r) ==
  /\ request[r].pc = "reload"
  /\ Ends(r)
  /\ web' = IF web = "up" THEN "reloading" ELSE web
  /\ UNCHANGED <<pidfile, proc, child, worker, crowded>>

(* Beat is not asked to go.                                                *)
Shutdown(r) ==
  /\ request[r].pc = "shutdown"
  /\ worker' = ShutDownWorkers
  /\ Ends(r) /\ web' = "exiting"
  /\ UNCHANGED <<pidfile, proc, child, crowded>>

RequestStep(r) ==
  \/ Start(r) \/ Spawn(r) \/ WritePid(r) \/ Stop(r) \/ Kill(r) \/ ClearPid(r) \/ Status(r)
  \/ Restart(r) \/ Respawn(r) \/ LookForBeat(r) \/ Reload(r) \/ Shutdown(r)

-----------------------------------------------------------------------------
(* The web server ends; its requests die, its zombies are waited for.      *)
WebEnds ==
  /\ web \in {"reloading", "exiting"}
  /\ web' = IF web = "reloading" THEN "up" ELSE "down"
  /\ request' = [r \in Requests |-> NoRequest]
  /\ crowded' = (crowded \/ InHand # {})
  /\ proc' = [p \in Pids |-> IF proc[p] = "zombie" THEN "free" ELSE proc[p]]
  /\ child' = {}
  /\ UNCHANGED <<pidfile, worker>>

(* are-self.bat.                                                           *)
Launch ==
  /\ web = "down" /\ web' = "up"
  /\ \E w \in Workers : worker[w] = "none" /\ worker' = [worker EXCEPT ![w] = "booting"]
  /\ UNCHANGED <<pidfile, proc, child, request, crowded>>

WorkerStep ==
  /\ \E w \in Workers :
       \/ worker[w] = "booting" /\ worker' = [worker EXCEPT ![w] = "on"]
       \/ worker[w] = "leaving" /\ worker' = [worker EXCEPT ![w] = "none"]
  /\ UNCHANGED <<pidfile, proc, child, web, request, crowded>>

BeatEnds(p) ==
  /\ proc[p] \in {"beat", "ending"}
  /\ proc' = [proc EXCEPT ![p] = IF p \in child THEN "zombie" ELSE "free"]
  /\ UNCHANGED <<pidfile, child, worker, web, request, crowded>>

(* Another program, or another user's, is given a process id that is free. *)
Reuse(p) ==
  /\ proc[p] = "free"
  /\ \E who \in {"other", "foreign"} : proc' = [proc EXCEPT ![p] = who]
  /\ child' = child \ {p}
  /\ UNCHANGED <<pidfile, worker, web, request, crowded>>

-----------------------------------------------------------------------------
Verbs == {"start", "stop", "status", "restart", "shutdown"}

Request ==
  [pc : Verbs \cup {"idle", "spawn", "write", "kill", "clear", "respawn", "look", "reload"},
   op : Verbs \cup {None}, pid : Pids \cup {None}]

AutonomicTypeOK ==
  /\ pidfile \in Pids \cup {None} /\ child \subseteq Pids
  /\ proc \in [Pids -> {"free", "beat", "ending", "zombie", "other", "foreign"}]
  /\ worker \in [Workers -> {"none", "booting", "on", "leaving"}]
  /\ web \in {"up", "reloading", "exiting", "down"}
  /\ request \in [Requests -> Request] /\ crowded \in BOOLEAN

(* As long as no two requests met, none died half done and none failed to  *)
(* write the file, the Beat that runs is the one in the file, through      *)
(* crashes of Beat, restarts and shutdowns of the system, process ids that *)
(* are used again and signals that cannot be sent: there are never two     *)
(* metronomes that nobody can stop.                                        *)
BeatAccounted ==
  ~crowded /\ InHand = {} => \A p \in Pids : proc[p] = "beat" => pidfile = p
=============================================================================
