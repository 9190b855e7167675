--------------------------- MODULE NerveTerminal ---------------------------
(***************************************************************************)
(* One command run on another machine                                      *)
(* (peripheral_nervous_system/nerve_terminal.py): the client's             *)
(* execute_remote, the connection, the terminal's handler, and the         *)
(* pipeline of asyncio tasks around the process it launches: one pipes the *)
(* output, one follows the log file, one waits for a stop, one waits for   *)
(* the process.  A step of a task is what it does between two awaits.      *)
(*                                                                         *)
(* A line stands for its number.  Line 0 of the log is of a previous run.  *)
(***************************************************************************)
EXTENDS Integers, Sequences, Functions

CONSTANTS
  MaxLines,   \* bound: lines the process prints, or writes to its log file
  MaxBuffer,  \* bound: events a connection takes before drain() waits
  MaxPolls    \* the polls before a stop becomes a kill (10 in the code)

ASSUME TerminalAssumption == {MaxLines, MaxPolls, MaxBuffer} \subseteq Nat

VARIABLES
  client, seen,                  \* the caller and the events it got
  conn, toServer, toClient,      \* the connection and what is under way
  handler, gen, stop, queue,     \* _handle_execute, its generator, its stop event
  main, piper, stopper, polls,   \* the tasks of run_cns_pipeline
  process, code, written, read,  \* the process, its code once it is dead, its pipe
  log, logged, recent,           \* the log file: lines (none: no file), lines so far, mtime
  watcher, fileFound, offset, event, tail   \* AsyncLogMonitor, its queue

caller  == <<client, seen>>
network == <<conn, toServer, toClient>>
service == <<handler, gen, stop, queue>>
tasks   == <<main, piper, stopper, polls>>
runner  == <<process, code, written, read>>
logfile == <<log, logged, recent>>
monitor == <<watcher, fileFound, offset, event, tail>>
terminalVars == <<caller, network, service, tasks, runner, logfile, monitor>>

Out(n)  == [type |-> "log", source |-> "stdout", line |-> n]
File(n) == [type |-> "log", source |-> "file", line |-> n]
Said    == [type |-> "log", source |-> "agent", line |-> 0]
Exit(c) == [type |-> "exit", code |-> c]
End     == [type |-> "end"]

Running == process \in {"running", "asked"}
Alive   == Running \/ process = "killed"
Watched == watcher # "none"

TerminalInit ==
  /\ client = "new" /\ seen = <<>>
  /\ conn = "none" /\ toServer = <<>> /\ toClient = <<>>
  /\ handler = "idle" /\ gen = "none" /\ stop = FALSE /\ queue = <<>>
  /\ main = "none" /\ piper = "none" /\ stopper = "none" /\ polls = 0
  /\ process = "none" /\ code = 0 /\ written = 0 /\ read = 0
  /\ log \in {<<>>, <<0>>} /\ logged = 0 /\ recent = FALSE
  /\ watcher \in {"none", "new"} /\ fileFound = FALSE /\ offset = 0
  /\ event = FALSE /\ tail = <<>>

-----------------------------------------------------------------------------
(* The caller: execute_remote. *)

Connect ==
  /\ client = "new" /\ conn = "none"
  /\ client' = "reading" /\ conn' = "open" /\ toServer' = <<"EXECUTE">>
  /\ UNCHANGED <<seen, toClient, service, tasks, runner, logfile, monitor>>

ConnectFails ==
  /\ client = "new"
  /\ client' = "ended" /\ seen' = <<Said, Exit(-1)>>
  /\ UNCHANGED <<network, service, tasks, runner, logfile, monitor>>

(* Somebody wants a stop, at any time: _monitor_stop_signal_task sends it.  *)
SendStop ==
  /\ client = "reading" /\ conn = "open"
  /\ "STOP" \notin Range(toServer) /\ ~stop
  /\ toServer' = Append(toServer, "STOP")
  /\ UNCHANGED <<caller, conn, toClient, service, tasks, runner, logfile, monitor>>

(* An exit is the last event the caller takes; the end of the stream       *)
(* without one ends the events too.                                        *)
Receive ==
  /\ client = "reading" /\ toClient # <<>>
  /\ seen' = Append(seen, Head(toClient)) /\ toClient' = Tail(toClient)
  /\ IF Head(toClient).type = "exit"
       THEN client' = "ended" /\ conn' = "gone"
       ELSE UNCHANGED <<client, conn>>
  /\ UNCHANGED <<toServer, service, tasks, runner, logfile, monitor>>

StreamEnds ==
  /\ client = "reading" /\ toClient = <<>> /\ conn = "gone"
  /\ client' = "ended"
  /\ UNCHANGED <<seen, network, service, tasks, runner, logfile, monitor>>

(* The connection breaks, or the caller's process dies: what was under way *)
(* may be lost from some point on.                                         *)
Break ==
  /\ conn = "open" /\ conn' = "gone"
  /\ \E k \in 0..Len(toServer) : toServer' = SubSeq(toServer, 1, k)
  /\ \E k \in 0..Len(toClient) : toClient' = SubSeq(toClient, 1, k)
  /\ UNCHANGED <<caller, service, tasks, runner, logfile, monitor>>

-----------------------------------------------------------------------------
(* The terminal: handle_client and _handle_execute. *)

Hangup == conn' = "gone"

(* The first read takes what has come.  A STOP that came with the request  *)
(* spoils its JSON: nothing is launched, and nothing is answered.          *)
Accept ==
  /\ handler = "idle" /\ conn # "none"
  /\ IF toServer = <<>> \/ Len(toServer) > 1
       THEN /\ toServer # <<>> \/ conn = "gone"
            /\ handler' = "done" /\ Hangup /\ UNCHANGED <<gen, main>>
       ELSE /\ handler' = "executing" /\ gen' = "open" /\ main' = "starting"
            /\ UNCHANGED conn
  /\ toServer' = <<>>
  /\ UNCHANGED <<caller, toClient, stop, queue, piper, stopper, polls, runner,
                 logfile, monitor>>

(* _monitor_remote_stop.                                                   *)
HearStop ==
  /\ handler = "executing" /\ toServer # <<>>
  /\ toServer' = Tail(toServer) /\ stop' = TRUE
  /\ UNCHANGED <<caller, conn, toClient, handler, gen, queue, tasks, runner,
                 logfile, monitor>>

(* The next event of the generator is sent, also into a connection whose   *)
(* end nobody noticed yet.                                                 *)
Send ==
  /\ handler = "executing" /\ queue # <<>> /\ Head(queue) # End
  /\ queue' = Tail(queue) /\ Len(toClient) < MaxBuffer
  /\ toClient' = IF conn = "open" THEN Append(toClient, Head(queue)) ELSE toClient
  /\ UNCHANGED <<caller, conn, toServer, handler, gen, stop, tasks, runner,
                 logfile, monitor>>

(* The send fails: the handler is done, its generator is to be closed.     *)
SendFails ==
  /\ handler = "executing" /\ queue # <<>> /\ Head(queue) # End /\ conn = "gone"
  /\ handler' = "done" /\ gen' = "closing" /\ queue' = Tail(queue)
  /\ UNCHANGED <<caller, network, stop, tasks, runner, logfile, monitor>>

Finish ==
  /\ handler = "executing" /\ queue # <<>> /\ Head(queue) = End
  /\ handler' = "done" /\ gen' = "closed" /\ queue' = Tail(queue) /\ Hangup
  /\ UNCHANGED <<caller, toServer, toClient, stop, tasks, runner, logfile, monitor>>

(* _handle_update: another client replaces the terminal's own code.  The   *)
(* terminal exits; every task of its loop is cancelled.                    *)
Update ==
  /\ handler = "executing"
  /\ handler' = "done" /\ gen' = "closing" /\ Hangup
  /\ UNCHANGED <<caller, toServer, toClient, stop, queue, tasks, runner, logfile,
                 monitor>>

-----------------------------------------------------------------------------
(* The process and its output: AsyncProcessRunner. *)

StartProcess ==
  /\ main = "starting" /\ gen = "open"
  /\ main' = "waiting" /\ piper' = "on" /\ stopper' = "on" /\ process' = "running"
  /\ watcher' = IF Watched THEN "patience" ELSE "none"
  /\ UNCHANGED <<caller, network, service, polls, code, written, read, logfile,
                 fileFound, offset, event, tail>>

(* No such executable: the worker says so and ends.                        *)
StartFails ==
  /\ main = "starting" /\ gen = "open"
  /\ main' = "done" /\ queue' = queue \o <<Said, Exit(-1), End>>
  /\ UNCHANGED <<caller, network, handler, gen, stop, piper, stopper, polls, runner,
                 logfile, monitor>>

PrintLine ==
  /\ Running /\ written + logged < MaxLines /\ written' = written + 1
  /\ UNCHANGED <<caller, network, service, tasks, process, code, read, logfile, monitor>>

(* It ends by itself, after it was asked to, or under the hands of another *)
(* client's stop (on Windows a stop goes by the image's name).             *)
ProcessExits ==
  /\ Running /\ process' = "dead" /\ \E c \in {0, 1} : code' = c
  /\ UNCHANGED <<caller, network, service, tasks, written, read, logfile, monitor>>

Killed == IF Running THEN "killed" ELSE process

KillTakes ==
  /\ process = "killed" /\ process' = "dead" /\ code' = 1
  /\ UNCHANGED <<caller, network, service, tasks, written, read, logfile, monitor>>

(* _pipe_stream over stream_output.                                        *)
PipeLine ==
  /\ piper = "on" /\ read < written
  /\ read' = read + 1 /\ queue' = Append(queue, Out(read + 1))
  /\ UNCHANGED <<caller, network, handler, gen, stop, tasks, process, code, written,
                 logfile, monitor>>

(* A line beyond the limit of the stream is a ValueError, which ends the   *)
(* piping and not the process.                                             *)
LineTooLong ==
  /\ piper = "on" /\ read < written
  /\ piper' = "failed"
  /\ UNCHANGED <<caller, network, service, main, stopper, polls, runner, logfile,
                 monitor>>

PipeEnds ==
  /\ piper = "on" /\ read = written /\ process = "dead"
  /\ piper' = "done"
  /\ UNCHANGED <<caller, network, service, main, stopper, polls, runner, logfile,
                 monitor>>

(* _watch_stop_event and terminate: ask, poll, kill.                       *)
StopAsks ==
  /\ stopper = "on" /\ stop
  /\ IF Running THEN process' = "asked" /\ stopper' = "polling"
                ELSE stopper' = "done" /\ UNCHANGED process
  /\ UNCHANGED <<caller, network, service, main, piper, polls, code, written, read,
                 logfile, monitor>>

(* mutant: after the last poll the task gives up.                          *)
StopPollsOnly ==
  /\ stopper = "polling"
  /\ IF Alive /\ polls < MaxPolls
       THEN polls' = polls + 1 /\ UNCHANGED <<stopper, process>>
       ELSE stopper' = "done" /\ UNCHANGED <<polls, process>>
  /\ UNCHANGED <<caller, network, service, main, piper, code, written, read, logfile,
                 monitor>>

StopPolls ==
  /\ stopper = "polling"
  /\ IF Alive /\ polls < MaxPolls
       THEN polls' = polls + 1 /\ UNCHANGED <<stopper, process>>
       ELSE stopper' = "done" /\ process' = Killed /\ UNCHANGED polls
  /\ UNCHANGED <<caller, network, service, main, piper, code, written, read, logfile,
                 monitor>>

-----------------------------------------------------------------------------
(* The log file: AsyncLogMonitor. *)

(* The process writes a line, to the file as it is or to a new one; what   *)
(* it wrote last may reach the disk when it is gone.                       *)
WriteLog ==
  /\ Watched /\ process # "none" /\ main # "done" /\ written + logged < MaxLines
  /\ logged' = logged + 1 /\ recent' = TRUE
  /\ log' \in {<<logged + 1>>, Append(log, logged + 1)}
  /\ event' = (watcher = "watching")
  /\ UNCHANGED <<caller, network, service, tasks, runner, watcher, fileFound, offset,
                 tail>>

(* _read_file: a file that is older than the launch is not accepted, a     *)
(* file that has become shorter is read from its beginning.                *)
Fresh == log # <<>> /\ (fileFound \/ recent)

From == IF Len(log) < offset THEN 0 ELSE offset

ReadFile ==
  IF Fresh
    THEN /\ fileFound' = TRUE /\ offset' = Len(log)
         /\ tail' = tail \o [i \in 1..(Len(log) - From) |-> File(log[From + i])]
    ELSE UNCHANGED <<fileFound, offset, tail>>

(* _watch_loop: the file is polled until it is accepted or patience ends;  *)
(* then the directory is watched, for changes made from then on.           *)
Patience ==
  /\ watcher = "patience" /\ ReadFile
  /\ watcher' \in IF fileFound' THEN {"found"} ELSE {"patience", "found"}
  /\ UNCHANGED <<caller, network, service, tasks, runner, logfile, event>>

(* The directory may be missing as the file is.                            *)
Watch ==
  /\ watcher = "found"
  /\ watcher' \in {"watching"} \cup IF log = <<>> THEN {"crashed"} ELSE {}
  /\ UNCHANGED <<caller, network, service, tasks, runner, logfile, fileFound, offset,
                 event, tail>>

Changed ==
  /\ watcher = "watching" /\ event /\ event' = FALSE /\ ReadFile
  /\ UNCHANGED <<caller, network, service, tasks, runner, logfile, watcher>>

(* A file that has not been accepted is gone between the look whether it   *)
(* exists and the look at its age: the loop dies of it, before it watches  *)
(* with the exception still to be met by stop().                           *)
Vanishes ==
  /\ ~fileFound /\ log # <<>> /\ event' = FALSE
  /\ \/ watcher = "patience" /\ watcher' = "broken"
     \/ watcher = "watching" /\ event /\ watcher' = "crashed"
  /\ UNCHANGED <<caller, network, service, tasks, runner, logfile, fileFound, offset, tail>>

(* stream_changes, piped to the events.                                    *)
PipeTail ==
  /\ gen # "none" /\ main \notin {"none", "starting", "done"}
  /\ tail # <<>> /\ Head(tail) # End
  /\ queue' = Append(queue, Head(tail)) /\ tail' = Tail(tail)
  /\ UNCHANGED <<caller, network, handler, gen, stop, tasks, runner, logfile,
                 watcher, fileFound, offset, event>>

-----------------------------------------------------------------------------
(* run_cns_pipeline, and the worker of execute_local around it. *)

(* mutant: the exit code is enough, the pipe is not waited for.            *)
WaitReturnsEarly ==
  /\ main = "waiting" /\ process = "dead"
  /\ main' = IF Watched THEN "draining" ELSE "cleaning"
  /\ UNCHANGED <<caller, network, service, piper, stopper, polls, runner, logfile,
                 monitor>>

(* wait() returns, the pipe is emptied, the log gets three more seconds,   *)
(* unless the piping has failed.                                           *)
WaitReturns ==
  /\ main = "waiting" /\ process = "dead" /\ piper \in {"done", "failed"}
  /\ main' = IF Watched /\ piper = "done" THEN "draining" ELSE "cleaning"
  /\ UNCHANGED <<caller, network, service, piper, stopper, polls, runner, logfile,
                 monitor>>

Drain ==
  /\ main = "draining" /\ main' = "cleaning"
  /\ UNCHANGED <<caller, network, service, piper, stopper, polls, runner, logfile,
                 monitor>>

(* mutant: the generator ends and its worker goes on.                      *)
CloseWithoutCancel ==
  /\ gen = "closing" /\ gen' = "closed"
  /\ UNCHANGED <<caller, network, handler, stop, queue, tasks, runner, logfile,
                 monitor>>

(* The generator is closed: its worker is cancelled where it waits.        *)
Close ==
  /\ gen = "closing" /\ gen' = "closed"
  /\ IF main \in {"waiting", "draining"}
       THEN main' = "killing" /\ process' = Killed
       ELSE main' = (IF main = "starting" THEN "done" ELSE main) /\ UNCHANGED process
  /\ UNCHANGED <<caller, network, handler, stop, queue, piper, stopper, polls, code,
                 written, read, logfile, monitor>>

(* The death is waited for, three seconds at most.                         *)
KillWaited ==
  /\ main = "killing" /\ main' = "cleaning"
  /\ UNCHANGED <<caller, network, service, piper, stopper, polls, runner, logfile,
                 monitor>>

(* monitor.stop(): nothing more is read; a file that never came is told.   *)
StopMonitor ==
  /\ main = "cleaning" /\ watcher # "broken" /\ main' = "joining"
  /\ watcher' = IF Watched THEN "stopped" ELSE "none"
  /\ tail' = IF Watched THEN tail \o (IF fileFound THEN <<End>> ELSE <<Said, End>>)
                        ELSE <<End>>
  /\ UNCHANGED <<caller, network, service, piper, stopper, polls, runner, logfile,
                 fileFound, offset, event>>

(* The worker of a generator that is not closed tells of a failure.        *)
Crashed == IF gen = "open" THEN <<Said, Exit(-1), End>> ELSE <<End>>

(* stop() meets the exception: the log's end is not told, and the pipe of  *)
(* the log and the stop task are left as they are.                         *)
StopMonitorFails ==
  /\ main = "cleaning" /\ watcher = "broken"
  /\ main' = "done" /\ queue' = queue \o Crashed
  /\ UNCHANGED <<caller, network, handler, gen, stop, piper, stopper, polls, runner, logfile,
                 monitor>>

(* mutant: an exit is reported only if it is a success.                    *)
ReturnSuccess ==
  /\ main = "joining" /\ tail = <<End>>
  /\ main' = "done" /\ stopper' = "done" /\ tail' = <<>>
  /\ queue' = queue \o (IF gen = "open" /\ code = 0 THEN <<Exit(code), End>> ELSE <<>>)
  /\ UNCHANGED <<caller, network, handler, gen, stop, piper, polls, runner, logfile,
                 watcher, fileFound, offset, event>>

(* The monitor's pipe has ended, the stop task is cancelled: the exit is   *)
(* the last event.  A cancelled worker reports none.                       *)
Return ==
  /\ main = "joining" /\ tail = <<End>>
  /\ main' = "done" /\ stopper' = "done" /\ tail' = <<>>
  /\ queue' = queue \o (IF gen = "open" /\ piper # "failed" THEN <<Exit(code), End>> ELSE Crashed)
  /\ UNCHANGED <<caller, network, handler, gen, stop, piper, polls, runner, logfile,
                 watcher, fileFound, offset, event>>

-----------------------------------------------------------------------------
Caller   == Connect \/ Receive \/ StreamEnds
Service  == Accept \/ HearStop \/ Send \/ SendFails \/ Finish
Pipeline == WaitReturns \/ Drain \/ Close \/ KillWaited \/ StopMonitor \/ StopMonitorFails
            \/ Return
Output   == PipeLine \/ PipeEnds \/ PipeTail
Stopping == StopAsks \/ StopPolls
Monitor  == Patience \/ Watch \/ Changed
World    == ConnectFails \/ SendStop \/ Break \/ Update \/ StartFails \/ PrintLine
            \/ ProcessExits \/ WriteLog \/ LineTooLong \/ Vanishes

TerminalNext ==
  Caller \/ Service \/ Pipeline \/ Output \/ Stopping \/ Monitor \/ StartProcess
  \/ KillTakes \/ World

(* The tasks of an event loop go on, the kernel kills what it is told to   *)
(* kill.  The process, the network and the operator owe nothing.           *)
TerminalFairness ==
  /\ WF_terminalVars(Connect) /\ WF_terminalVars(Receive)
  /\ WF_terminalVars(StreamEnds) /\ WF_terminalVars(Service)
  /\ WF_terminalVars(Pipeline) /\ WF_terminalVars(Output)
  /\ WF_terminalVars(Stopping) /\ WF_terminalVars(StartProcess \/ StartFails)
  /\ WF_terminalVars(KillTakes)

TerminalSpec == TerminalInit /\ [][TerminalNext]_terminalVars /\ TerminalFairness

-----------------------------------------------------------------------------
Events == {Out(n) : n \in Nat} \cup {File(n) : n \in Nat} \cup {Said, End}
          \cup {Exit(c) : c \in {-1, 0, 1}}

TerminalTypeOK ==
  /\ client \in {"new", "reading", "ended"} /\ conn \in {"none", "open", "gone"}
  /\ toServer \in Seq({"EXECUTE", "STOP"})
  /\ seen \in Seq(Events) /\ toClient \in Seq(Events)
  /\ queue \in Seq(Events) /\ tail \in Seq(Events)
  /\ handler \in {"idle", "executing", "done"}
  /\ gen \in {"none", "open", "closing", "closed"}
  /\ main \in {"none", "starting", "waiting", "draining", "killing", "cleaning",
              "joining", "done"}
  /\ piper \in {"none", "on", "failed", "done"} /\ stopper \in {"none", "on", "polling", "done"}
  /\ process \in {"none", "running", "asked", "killed", "dead"} /\ code \in {0, 1}
  /\ watcher \in {"none", "new", "patience", "found", "watching", "crashed", "broken",
                 "stopped"}
  /\ stop \in BOOLEAN /\ recent \in BOOLEAN /\ fileFound \in BOOLEAN /\ event \in BOOLEAN
  /\ polls \in Nat /\ written \in Nat /\ read \in Nat
  /\ log \in Seq(Nat) /\ logged \in Nat /\ offset \in Nat

Lines(source) == {i \in 1..Len(seen) : seen[i].type = "log" /\ seen[i].source = source}
Got(source)   == {seen[i].line : i \in Lines(source)}
InOrder(source) == \A i, j \in Lines(source) : i < j => seen[i].line < seen[j].line
Exits         == {i \in 1..Len(seen) : seen[i].type = "exit"}

(* What the caller has of the output is what the process printed, in its   *)
(* order and from the beginning; when it has the exit code of a process    *)
(* that ran, it has every line.  No line of the log file comes twice or    *)
(* out of order, also when the file is replaced while it is read, and the  *)
(* log of an earlier run is not taken for this run's: its lines come only  *)
(* if this run writes on.                                                  *)
OutputComplete ==
  /\ InOrder("stdout") /\ InOrder("file")
  /\ \E n \in 0..written : Got("stdout") = 1..n
  /\ \A i \in Exits : seen[i].code # -1 => Got("stdout") = 1..written /\ process = "dead"
  /\ logged = 0 => Got("file") = {}

(* A stop that reached the terminal ends the process, whether it listens   *)
(* to the signal or not.                                                   *)
StopKills == (stop /\ main # "done") ~> (process \in {"dead", "none"})

(* Once the terminal has noticed that its client is gone, the process      *)
(* dies.                                                                   *)
LeashKills == (handler = "done" /\ conn = "gone") ~> ~Alive

(* When the process is dead the caller's events come to an end.            *)
DeathIsReported == (process = "dead") ~> (client = "ended")
=============================================================================
