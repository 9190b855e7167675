-------------------------- MODULE ReasoningSession --------------------------
(***************************************************************************)
(* The standing conversation of the thalamus and the reasoning loop of the *)
(* frontal lobe that answers it.  A request appends a message to the queue *)
(* of a session and wakes it by queueing a task for its spike; the task    *)
(* runs a loop of turns over a session object that it read when it began.  *)
(*                                                                         *)
(* A database call is a step.  The loop keeps its copy of the message      *)
(* queue from beginning to end: refresh_from_db names the status only.     *)
(***************************************************************************)
EXTENDS Naturals, Sequences, FiniteSets

CONSTANTS
  MaxMessages,  \* bound: messages that users write
  MaxTurns,   \* max_turns of every session
  MaxLoops,   \* bound: fire_spike tasks ever queued
  Ops,        \* interventions: subset of {"clear", "pause", "stop", "rerun", "crash"}
  MaxOps      \* bound: interventions

ASSUME SessionAssumption ==
  /\ MaxMessages \in Nat /\ MaxTurns \in Nat \ {0}
  /\ MaxLoops \in Nat \ {0} /\ MaxOps \in Nat

VARIABLES
  session,    \* rows of ReasoningSession by creation; heard: what its prompts contained (history)
  turns,      \* rows of ReasoningTurn by creation
  loop,       \* fire_spike tasks and their FrontalLobe objects by creation
  reply,      \* the request that delivers a message
  halted,     \* spikes whose status is STOPPING
  ops,        \* interventions so far
  disturbed   \* history: somebody intervened, or wrote while the agent was at work

vars == <<session, turns, loop, reply, halted, ops, disturbed>>

\* The agent's tables, and the rest: what a step of a loop or of a user leaves alone.
users == <<reply, ops, disturbed>>
-----------------------------------------------------------------------------
\* Messages are numbered in the order in which their requests begin.
Messages == 1..MaxMessages

\* No code here writes PENDING or PAUSED.
Awake == {"ACTIVE", "ATTENTION_REQUIRED"}

\* Where a loop may meet an exception of its own: a session without an identity,
\* an addon, the model round-trip, the digest of a turn.
Risky == {"check", "prompt", "think", "tools"}
Inside == Risky \cup {"activate", "signal", "turn", "create", "yield", "sleep",
                      "paralysed", "end", "complete", "failed", "outcome"}

Sessions == DOMAIN session
Loops == DOMAIN loop

NewSession(k, st) == [spike |-> k, status |-> st, queue |-> <<>>, heard |-> <<>>]
NewLoop(k) == [at |-> "queued", spike |-> k, session |-> 0, queue |-> <<>>,
               turn |-> 0, number |-> 0]

SetStatus(s, st) == session' = [session EXCEPT ![s].status = st]
Go(l, at) == loop' = [loop EXCEPT ![l].at = at]

TurnsOf(s) == {t \in DOMAIN turns : turns[t].session = s}
ActiveTurns(s) == {t \in TurnsOf(s) : turns[t].status = "ACTIVE"}
\* session.turns is ordered by turn_number, which does not have to be unique.
FirstOf(T) == {t \in T : \A u \in T : turns[t].number <= turns[u].number}

IsNext(m) == reply[m].at = "new" /\ \A k \in 1..(m - 1) : reply[k].at # "new"
Blank(at) == [at |-> at, session |-> 0, status |-> "ATTENTION_REQUIRED", queue |-> <<>>]
Delivering(m) == reply[m].at \in {"genesis", "seed", "inject", "fire"}
AtRest ==
  /\ \A l \in Loops : loop[l].at \in {"over", "dead"}
  /\ \A m \in Messages : ~Delivering(m)

\* Bound: every request under way must be able to queue its task.
RoomForLoop == Len(loop) + Cardinality({m \in Messages : Delivering(m)}) < MaxLoops
-----------------------------------------------------------------------------
Init ==
  /\ session = <<>> /\ turns = <<>> /\ loop = <<>>
  /\ reply = [m \in Messages |-> Blank("new")]
  /\ halted = {} /\ ops = 0 /\ disturbed = FALSE
-----------------------------------------------------------------------------
(* The task and the loop *)

\* The junction marks the spike RUNNING before it calls the handler.
Start(l) ==
  /\ loop[l].at = "queued"
  /\ Go(l, "load")
  /\ halted' = halted \ {loop[l].spike}
  /\ UNCHANGED <<session, turns, users>>

Resumable(k) == {s \in Sessions : session[s].spike = k /\ session[s].status \in Awake}

\* _initialize_session: the newest session of the spike that is not over, with its queue ...
LoadSession(l) ==
  /\ loop[l].at = "load"
  /\ \E s \in Resumable(loop[l].spike) :
       /\ \A r \in Resumable(loop[l].spike) : r <= s
       /\ LET at == IF session[s].status = "ACTIVE" THEN "check" ELSE "activate" IN
          loop' = [loop EXCEPT ![l] = [@ EXCEPT !.session = s, !.queue = session[s].queue, !.at = at]]
  /\ UNCHANGED <<session, turns, halted, users>>

Activate(l) ==
  /\ loop[l].at = "activate"
  /\ SetStatus(loop[l].session, "ACTIVE")
  /\ Go(l, "check")
  /\ UNCHANGED <<turns, halted, users>>

\* ... or a new one.
CreateSession(l) ==
  /\ loop[l].at = "load"
  /\ Resumable(loop[l].spike) = {}
  /\ session' = Append(session, NewSession(loop[l].spike, "ACTIVE"))
  /\ loop' = [loop EXCEPT ![l] = [@ EXCEPT !.session = Len(session) + 1, !.at = "check"]]
  /\ UNCHANGED <<turns, halted, users>>

(* mutant: one turn too many. *)
BudgetExceeded(s) == Cardinality(TurnsOf(s)) > MaxTurns

BudgetSpent(s) == Cardinality(TurnsOf(s)) >= MaxTurns

CheckTurns(l) ==
  /\ loop[l].at = "check"
  /\ Go(l, IF BudgetSpent(loop[l].session) THEN "end" ELSE "signal")
  /\ UNCHANGED <<session, turns, halted, users>>

CheckStop(l) ==
  /\ loop[l].at = "signal"
  /\ Go(l, IF loop[l].spike \in halted THEN "end" ELSE "turn")
  /\ UNCHANGED <<session, turns, halted, users>>

\* A turn that is ACTIVE is taken over, else the turns are counted and one is created.
FindTurn(l) ==
  /\ loop[l].at = "turn"
  /\ \/ \E t \in FirstOf(ActiveTurns(loop[l].session)) :
          loop' = [loop EXCEPT ![l] = [@ EXCEPT !.turn = t, !.at = "prompt"]]
     \/ /\ ActiveTurns(loop[l].session) = {}
        /\ LET number == Cardinality(TurnsOf(loop[l].session)) + 1 IN
           loop' = [loop EXCEPT ![l] = [@ EXCEPT !.number = number, !.at = "create"]]
  /\ UNCHANGED <<session, turns, halted, users>>

CreateTurn(l) ==
  /\ loop[l].at = "create"
  /\ turns' = Append(turns, [session |-> loop[l].session, number |-> loop[l].number,
                             status |-> "ACTIVE"])
  /\ loop' = [loop EXCEPT ![l] = [@ EXCEPT !.turn = Len(turns) + 1, !.number = 0, !.at = "prompt"]]
  /\ UNCHANGED <<session, halted, users>>

(* mutant: the empty queue is not saved. *)
BuildPromptUnsaved(l) ==
  /\ loop[l].at = "prompt"
  /\ session' = [session EXCEPT ![loop[l].session].heard = @ \o loop[l].queue]
  /\ loop' = [loop EXCEPT ![l] = [@ EXCEPT !.queue = <<>>, !.at = "think"]]
  /\ UNCHANGED <<turns, halted, users>>

\* _build_turn_payload: the loop's own copy of the queue goes into the prompt, and an
\* empty queue is written to the row.
BuildPrompt(l) ==
  /\ loop[l].at = "prompt"
  /\ \/ /\ loop[l].queue = <<>>
        /\ UNCHANGED session
     \/ /\ loop[l].queue # <<>>
        /\ LET s == loop[l].session IN
           session' = [session EXCEPT ![s] =
                          [@ EXCEPT !.heard = session[s].heard \o loop[l].queue, !.queue = <<>>]]
  /\ loop' = [loop EXCEPT ![l] = [@ EXCEPT !.queue = <<>>, !.at = "think"]]
  /\ UNCHANGED <<turns, halted, users>>

(* mutant: the turn is not closed. *)
ThinkOpenEnded(l) ==
  /\ loop[l].at = "think"
  /\ \E at \in {"tools", "sleep"} : loop' = [loop EXCEPT ![l] = [@ EXCEPT !.turn = 0, !.at = at]]
  /\ UNCHANGED <<session, turns, halted, users>>

\* The answer of the model, or no answer of eight models: the turn is COMPLETED.
Think(l) ==
  /\ loop[l].at = "think"
  /\ turns' = [turns EXCEPT ![loop[l].turn].status = "COMPLETED"]
  /\ \E at \in {"tools", "sleep"} : loop' = [loop EXCEPT ![l] = [@ EXCEPT !.turn = 0, !.at = at]]
  /\ UNCHANGED <<session, halted, users>>

\* No model can be chosen.
Paralysis(l) ==
  /\ loop[l].at = "think"
  /\ SetStatus(loop[l].session, "MAXED_OUT")
  /\ Go(l, "paralysed")
  /\ UNCHANGED <<turns, halted, users>>

FailTurn(l) ==
  /\ loop[l].at = "paralysed"
  /\ turns' = [turns EXCEPT ![loop[l].turn].status = "ERROR"]
  /\ loop' = [loop EXCEPT ![l] = [@ EXCEPT !.turn = 0, !.at = "end"]]
  /\ UNCHANGED <<session, halted, users>>

\* An answer without a tool call puts the session to sleep.
Sleep(l) ==
  /\ loop[l].at = "sleep"
  /\ SetStatus(loop[l].session, "ATTENTION_REQUIRED")
  /\ Go(l, "end")
  /\ UNCHANGED <<turns, halted, users>>

\* The tools that touch the session: mcp_done, and mcp_ask_user or mcp_respond_to_user
\* with yield_turn, which look at the status and then write it.
Done(l) ==
  /\ loop[l].at = "tools"
  /\ SetStatus(loop[l].session, "COMPLETED")
  /\ UNCHANGED <<turns, loop, halted, users>>

AskUser(l) ==
  /\ loop[l].at = "tools"
  /\ session[loop[l].session].status = "ACTIVE"
  /\ Go(l, "yield")
  /\ UNCHANGED <<session, turns, halted, users>>

Yield(l) ==
  /\ loop[l].at = "yield"
  /\ SetStatus(loop[l].session, "ATTENTION_REQUIRED")
  /\ Go(l, "tools")
  /\ UNCHANGED <<turns, halted, users>>

\* _execute_turn reads the status and run() reads it again before it breaks on either;
\* a status that is ACTIVE in one of the two only ends the loop like one that is in neither.
ToolsDone(l) ==
  /\ loop[l].at = "tools"
  /\ Go(l, IF session[loop[l].session].status = "ACTIVE" THEN "check" ELSE "end")
  /\ UNCHANGED <<session, turns, halted, users>>

(* mutant: a session that is still ACTIVE is not completed. *)
EndRunAnyway(l) ==
  /\ loop[l].at = "end"
  /\ Go(l, "outcome")
  /\ UNCHANGED <<session, turns, halted, users>>

EndRun(l) ==
  /\ loop[l].at = "end"
  /\ Go(l, IF session[loop[l].session].status = "ACTIVE" THEN "complete" ELSE "outcome")
  /\ UNCHANGED <<session, turns, halted, users>>

Complete(l) ==
  /\ loop[l].at = "complete"
  /\ SetStatus(loop[l].session, "COMPLETED")
  /\ Go(l, "outcome")
  /\ UNCHANGED <<turns, halted, users>>

\* An exception; the handler saves every column of the session object.
Fail(l) ==
  /\ loop[l].at \in Risky
  /\ loop' = [loop EXCEPT ![l] = [@ EXCEPT !.turn = 0, !.at = "failed"]]
  /\ UNCHANGED <<session, turns, halted, users>>

SaveFailure(l) ==
  /\ loop[l].at = "failed"
  /\ session' = [session EXCEPT ![loop[l].session] =
                    [@ EXCEPT !.status = "ERROR", !.queue = loop[l].queue]]
  /\ Go(l, "outcome")
  /\ UNCHANGED <<turns, halted, users>>

\* The junction writes the outcome over the status of the spike.
WriteOutcome(l) ==
  /\ loop[l].at = "outcome"
  /\ loop' = [loop EXCEPT ![l] = [@ EXCEPT !.queue = <<>>, !.at = "over"]]
  /\ halted' = halted \ {loop[l].spike}
  /\ UNCHANGED <<session, turns, users>>

LoopStep(l) ==
  \/ Start(l) \/ LoadSession(l) \/ Activate(l) \/ CreateSession(l)
  \/ CheckTurns(l) \/ CheckStop(l) \/ FindTurn(l) \/ CreateTurn(l)
  \/ BuildPrompt(l) \/ Think(l) \/ Paralysis(l) \/ FailTurn(l) \/ Sleep(l)
  \/ Done(l) \/ AskUser(l) \/ Yield(l) \/ ToolsDone(l) \/ EndRun(l)
  \/ Complete(l) \/ Fail(l) \/ SaveFailure(l) \/ WriteOutcome(l)
-----------------------------------------------------------------------------
(* The users *)

Disturbs(politely) == disturbed' = (disturbed \/ ~(politely /\ AtRest))

\* A request holds the session object that it has read until it saves it.
View(s) == [at |-> "inject", session |-> s, status |-> session[s].status, queue |-> session[s].queue]

\* The newest session of the standing train, if it is not over.
Standing == {s \in Sessions : s = Len(session) /\ session[s].status \in Awake}

\* interact: into the standing session, if there is one ...
Interact(m) ==
  /\ IsNext(m) /\ RoomForLoop
  /\ \/ \E s \in Standing : reply' = [reply EXCEPT ![m] = View(s)]
     \/ Standing = {} /\ reply' = [reply EXCEPT ![m].at = "genesis"]
  /\ Disturbs(TRUE)
  /\ UNCHANGED <<session, turns, loop, halted, ops>>

\* ... or a new spike with a sleeping session, whose first turn is there already.
Genesis(m) ==
  /\ reply[m].at = "genesis"
  /\ LET s == Len(session) + 1 IN
       /\ session' = Append(session, NewSession(s, "ATTENTION_REQUIRED"))
       /\ reply' = [reply EXCEPT ![m] = [@ EXCEPT !.session = s, !.at = "seed"]]
  /\ UNCHANGED <<turns, loop, halted, ops, disturbed>>

SeedTurn(m) ==
  /\ reply[m].at = "seed"
  /\ turns' = Append(turns, [session |-> reply[m].session, number |-> 1, status |-> "ACTIVE"])
  /\ reply' = [reply EXCEPT ![m].at = "inject"]
  /\ UNCHANGED <<session, loop, halted, ops, disturbed>>

\* resume: any session, whatever its status.
Resume(m) ==
  /\ IsNext(m) /\ RoomForLoop
  /\ \E s \in Sessions : reply' = [reply EXCEPT ![m] = View(s)]
  /\ Disturbs(TRUE)
  /\ UNCHANGED <<session, turns, loop, halted, ops>>

\* inject_swarm_chatter: the queue that was read, with the message, is written back; a
\* session that was read as sleeping is made ACTIVE and its spike is fired.
Inject(m) ==
  LET s == reply[m].session
      queue == Append(reply[m].queue, m)
  IN
  /\ reply[m].at = "inject"
  /\ \/ /\ reply[m].status = "ATTENTION_REQUIRED"
        /\ session' = [session EXCEPT ![s] = [@ EXCEPT !.queue = queue, !.status = "ACTIVE"]]
        /\ reply' = [reply EXCEPT ![m] = [@ EXCEPT !.queue = <<>>, !.at = "fire"]]
     \/ /\ reply[m].status # "ATTENTION_REQUIRED"
        /\ session' = [session EXCEPT ![s].queue = queue]
        /\ reply' = [reply EXCEPT ![m] = Blank("sent")]
  /\ UNCHANGED <<turns, loop, halted, ops, disturbed>>

FireSpike(m) ==
  /\ reply[m].at = "fire"
  /\ loop' = Append(loop, NewLoop(session[reply[m].session].spike))
  /\ reply' = [reply EXCEPT ![m] = Blank("sent")]
  /\ UNCHANGED <<session, turns, halted, ops, disturbed>>

ReplyStep(m) == Genesis(m) \/ SeedTurn(m) \/ Inject(m) \/ FireSpike(m)

Intervene(op) ==
  /\ op \in Ops /\ ops < MaxOps
  /\ ops' = ops + 1

\* clear: looks at the standing session and then makes it STOPPED, whatever has become
\* of it.  Every session was the standing one when it was created.
Clear(s) ==
  /\ Intervene("clear")
  /\ SetStatus(s, "STOPPED")
  /\ Disturbs(TRUE)
  /\ UNCHANGED <<turns, loop, reply, halted>>

Pause(s) ==
  /\ Intervene("pause")
  /\ SetStatus(s, "ATTENTION_REQUIRED")
  /\ Disturbs(FALSE)
  /\ UNCHANGED <<turns, loop, reply, halted>>

Stop(s) ==
  /\ Intervene("stop")
  /\ halted' = halted \cup {session[s].spike}
  /\ UNCHANGED <<session, turns, loop, reply, disturbed>>

Rerun(s) ==
  /\ Intervene("rerun") /\ RoomForLoop
  /\ halted' = halted \ {session[s].spike}
  /\ loop' = Append(loop, NewLoop(session[s].spike))
  /\ Disturbs(TRUE)
  /\ UNCHANGED <<session, turns, reply>>

\* The worker dies, or the junction cancels the coroutine of an aborted spike: a
\* CancelledError is no Exception, and nothing is saved.
Crash(l) ==
  /\ Intervene("crash")
  /\ loop[l].at \in Inside \cup {"load"}
  /\ loop' = [loop EXCEPT ![l] = [@ EXCEPT !.queue = <<>>, !.turn = 0, !.number = 0,
                                           !.at = "dead"]]
  /\ Disturbs(FALSE)
  /\ UNCHANGED <<session, turns, reply, halted>>

Intervention ==
  \/ \E s \in Sessions : Clear(s) \/ Pause(s) \/ Stop(s) \/ Rerun(s)
  \/ \E l \in Loops : Crash(l)

\* Nobody has to write again, and the agent may rest for ever.
Rest == AtRest /\ UNCHANGED vars

Next ==
  \/ \E l \in Loops : LoopStep(l)
  \/ \E m \in Messages : Interact(m) \/ Resume(m) \/ ReplyStep(m)
  \/ Intervention
  \/ Rest

Spec == Init /\ [][Next]_vars

\* Celery takes every queued task and a task goes on; the list of tool calls is finite.
Fairness ==
  \A l \in 1..MaxLoops :
    /\ WF_vars(l \in Loops /\ LoopStep(l))
    /\ SF_vars(l \in Loops /\ ToolsDone(l))

FairSpec == Spec /\ Fairness
-----------------------------------------------------------------------------
(* Properties *)

Statuses == Awake \cup {"COMPLETED", "MAXED_OUT", "STOPPED", "ERROR"}

Session == [spike : Nat, status : Statuses, queue : Seq(Messages), heard : Seq(Messages)]
Turn    == [session : Nat, number : Nat, status : {"ACTIVE", "COMPLETED", "ERROR"}]
Loop    == [at : Inside \cup {"queued", "load", "over", "dead"}, spike : Nat, session : Nat,
            queue : Seq(Messages), turn : Nat, number : Nat]
Reply   == [at : {"new", "genesis", "seed", "inject", "fire", "sent"}, session : Nat,
            status : Statuses, queue : Seq(Messages)]

TypeOK ==
  /\ session \in Seq(Session) /\ turns \in Seq(Turn) /\ loop \in Seq(Loop)
  /\ reply \in [Messages -> Reply]
  /\ halted \subseteq Nat /\ ops \in Nat /\ disturbed \in BOOLEAN

\* The budget of a session is looked at before a turn is created, by each loop for
\* itself: with one loop at a time it is kept, and every loop can exceed it by one
\* turn at most, however requests and loops overlap (the seeded turn included).
TurnBudget ==
  \A s \in Sessions :
    Cardinality(TurnsOf(s)) <=
      MaxTurns + IF disturbed THEN Cardinality({l \in Loops : loop[l].session = s}) ELSE 0

\* When the agent is at rest and was only written to at rest, no session is ACTIVE without
\* a loop, and a sleeping session has taken every message it was sent.
NothingLeftBehind ==
  ~disturbed /\ AtRest =>
    \A s \in Sessions :
      /\ session[s].status # "ACTIVE"
      /\ session[s].status = "ATTENTION_REQUIRED" => session[s].queue = <<>>

\* Every task ends, whoever else works on the session or writes to it: each pass of the
\* loop uses up a turn of a finite budget.
LoopsEnd ==
  []<>(\A l \in Loops : loop[l].at \in {"over", "dead"})

Stage(s) == IF s \notin Sessions THEN "unborn"
            ELSE IF session[s].status \in Awake THEN "open" ELSE "closed"

Talk(s) == INSTANCE Conversation WITH
  stage <- Stage(s),
  waiting <- IF Stage(s) = "open" THEN session[s].queue ELSE <<>>,
  heard <- IF s \in Sessions THEN session[s].heard ELSE <<>>

MaxSessions == MaxLoops + Cardinality(Messages)

\* Every session is a conversation, as long as its users write at rest: the copy of the
\* queue in the loop, the crash handler that writes it back and the blind status writes
\* lose no message, repeat none and reopen nothing.
KeepsConversation ==
  /\ \A s \in 1..MaxSessions : Talk(s)!Init
  /\ [][~disturbed' =>
          \A s \in 1..MaxSessions : Talk(s)!Next \/ UNCHANGED Talk(s)!vars]_vars
=============================================================================
