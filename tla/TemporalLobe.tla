---------------------------- MODULE TemporalLobe ----------------------------
(***************************************************************************)
(* Iterations of shifts, the metronome that drives them, the workers it    *)
(* sends out and the tickets they work on (temporal_lobe/*.py,             *)
(* prefrontal_cortex/*.py, the mcp_ticket tools of the parietal lobe).     *)
(*                                                                         *)
(* One environment.  A trigger, the beat's or a request's, starts a train  *)
(* when it finds none running; its one spike executes a tick: it finds the *)
(* iteration, cleans up after ghosts, sends one worker out with a ticket   *)
(* and waits for the worker's reasoning session, or else advances the      *)
(* shift.  Ticks, triggers and operators interleave at every await.        *)
(***************************************************************************)
EXTENDS Naturals, FiniteSets, Sequences

CONSTANTS
  Discs, Kind,        \* identity discs, each a "PM" or a "WORKER"
  Blueprints,         \* the definitions to start from: a sequence of shifts,
                      \* each its kind and its staff
  Tickets, Type, Parent,  \* rows there may be on the board
  Boards,             \* the boards to start from
  Slots,              \* the trains there may be at a time
  Limits,             \* bounds: trains at a time, crashes, lost machines,
                      \* operators' edits, updates of tickets, iterations
  MaxIterations,      \* the largest of the bounds on iterations
  None

VARIABLES
  limit,
  blueprint,
  iter,               \* the iterations, oldest first
  worker,             \* participants: iteration -> shift -> disc -> status
  sess,               \* the sessions of a participant that count: "DONE", or
                      \* "ACTIVE" though its tick has died
  board, draft,       \* draft: a ticket an operator has open
  tick,
  trampled,           \* history: tickets overwritten with an older copy
  crashes, losses, edits, acts

Shifts     == {"SIFTING", "PRE_PLANNING", "PLANNING", "EXECUTING", "POST_EXECUTION", "SLEEPING"}
ShiftPlan  == [shift : Shifts, staff : SUBSET Discs]
TicketRow  == [status : {"absent", "REFINE", "BACKLOG", "SELECTED", "IN_PROGRESS", "REVIEW",
                         "DONE", "BLOCKED"},
               owner : Discs \cup {None}, bid : BOOLEAN, ready : BOOLEAN]
MaxShift == 4

ASSUME TemporalAssumption ==
  /\ IsFiniteSet(Slots) /\ MaxIterations \in Nat /\ None \notin Discs \cup Tickets
  /\ \A l \in Limits : l.trains \in Nat \ {0} /\ l.iterations \in 1..MaxIterations
  /\ Blueprints \subseteq {b \in Seq(ShiftPlan) : Len(b) <= MaxShift}
  /\ Boards \subseteq [Tickets -> TicketRow]
  /\ Kind \in [Discs -> {"PM", "WORKER"}] /\ Type \in [Tickets -> {"EPIC", "STORY", "TASK"}]
  /\ Parent \in [Tickets -> Tickets \cup {None}]

history == <<crashes, losses, edits, acts>>
vars == <<limit, blueprint, iter, worker, sess, board, draft, tick, trampled, history>>

IsLive(status) == status \in {"WAITING", "RUNNING"}

(* incept_iteration: the shifts of the definition, its staff not yet       *)
(* SELECTED, and the first shift the current one.                          *)
Incepted(heir) == [status |-> "WAITING", shifts |-> DOMAIN blueprint, heirs |-> 0,
                   shift |-> IF blueprint = <<>> THEN 0 ELSE 1]
Staff(i) ==
  [worker EXCEPT ![i] = [s \in DOMAIN @ |-> [d \in Discs |->
     IF s \in DOMAIN blueprint /\ d \in blueprint[s].staff THEN "null" ELSE "absent"]]]

Idle == [pc |-> "none", it |-> 0, shift |-> 0, disc |-> None, ticket |-> None]

(* Init starts from an iteration the serializer has created, which has no  *)
(* shifts, or from one that has been incepted.                             *)
Init ==
  /\ limit \in Limits /\ blueprint \in Blueprints /\ board \in Boards
  /\ \E plain \in BOOLEAN :
       /\ iter = <<IF plain THEN [Incepted(0) EXCEPT !.shifts = {}, !.shift = 0]
                            ELSE Incepted(0)>>
       /\ worker = [i \in 1..MaxIterations |-> [s \in 1..MaxShift |-> [d \in Discs |->
            IF i = 1 /\ ~plain /\ s \in DOMAIN blueprint /\ d \in blueprint[s].staff
              THEN "null" ELSE "absent"]]]
  /\ sess = [i \in 1..MaxIterations |-> [s \in 1..MaxShift |-> [d \in Discs |-> {}]]]
  /\ draft = [ticket |-> None, row |-> None] /\ tick = [t \in Slots |-> Idle]
  /\ trampled = {} /\ crashes = 0 /\ losses = 0 /\ edits = 0 /\ acts = 0

-----------------------------------------------------------------------------
(* The metronome: trigger_temporal_metronomes, and what it collects. *)

Quiet == UNCHANGED <<limit, blueprint, iter, worker, sess, board, draft, trampled, history>>
Put(t, pc) == [tick EXCEPT ![t].pc = pc]

HasTrain(t) == tick[t].pc \notin {"none", "check"}
LiveIteration == \E i \in DOMAIN iter : IsLive(iter[i].status)

(* THE BOUNCER: is there a train?  The train is created afterwards.        *)
TriggerLooks(t) ==
  /\ tick[t].pc = "none" /\ LiveIteration
  /\ Cardinality({u \in Slots : tick[u].pc # "none"}) < limit.trains
  /\ \A u \in Slots : ~HasTrain(u)
  /\ tick' = Put(t, "check") /\ Quiet

TriggerCreates(t) == tick[t].pc = "check" /\ tick' = Put(t, "iteration") /\ Quiet

(* lobe_garbage_collection and _is_spike_alive: the task of a child that   *)
(* died has failed, and the poll fails its spike and ends the train; that  *)
(* of a machine that is gone stays STARTED: the train is found dead, but   *)
(* the poll does nothing to it.                                            *)
Reap(t) == tick[t].pc = "dead" /\ tick' = [tick EXCEPT ![t] = Idle] /\ Quiet

Crash(t) ==
  /\ HasTrain(t) /\ tick[t].pc \notin {"dead", "lost"}
  /\ \E how \in {"dead", "lost"} :
       /\ how = "dead" => crashes < limit.crashes
       /\ how = "lost" => losses < limit.losses
       /\ crashes' = crashes + (IF how = "dead" THEN 1 ELSE 0)
       /\ losses' = losses + (IF how = "lost" THEN 1 ELSE 0)
       /\ tick' = Put(t, how)
  /\ sess' = IF tick[t].pc = "session"
             THEN [sess EXCEPT ![tick[t].it][tick[t].shift][tick[t].disc] = @ \cup {"ACTIVE"}]
             ELSE sess
  /\ UNCHANGED <<limit, blueprint, iter, worker, board, draft, trampled, edits, acts>>

-----------------------------------------------------------------------------
(* The tick. *)

TickUnchanged == UNCHANGED <<limit, blueprint, draft, trampled, history>>

(* mutant: an iteration that is over is ticked on.                         *)
CurrentAny == IF iter = <<>> THEN 0 ELSE 1
Current == IF LiveIteration
           THEN CHOOSE i \in DOMAIN iter : /\ IsLive(iter[i].status)
                                           /\ \A j \in 1..(i - 1) : ~IsLive(iter[j].status)
           ELSE 0

(* The iteration and its shift are read here and not locked.               *)
GetIteration(t) ==
  /\ tick[t].pc = "iteration"
  /\ tick' = IF Current = 0 THEN [tick EXCEPT ![t] = Idle]
             ELSE [tick EXCEPT ![t] = [@ EXCEPT !.it = Current, !.shift = iter[Current].shift,
                               !.pc = IF iter[Current].shift = 0 THEN "advance"
                                                                 ELSE "cleanup"]]
  /\ TickUnchanged /\ UNCHANGED <<iter, worker, sess, board>>

Participants(t) == worker[tick[t].it][tick[t].shift]
Sessions(t)     == sess[tick[t].it][tick[t].shift]

(* A session of this participant in a tick that is alive.                  *)
RunsIn(t, d) == \E u \in Slots : /\ tick[u].pc = "session" /\ tick[u].disc = d
                                 /\ tick[u].it = tick[t].it /\ tick[u].shift = tick[t].shift

(* mutant: a worker whose session died is left as it is.                   *)
RevertedNever(t, d) == IF "DONE" \in Sessions(t)[d] THEN "COMPLETED" ELSE "ACTIVATED"
(* What becomes of a worker that was sent out and is not running.          *)
Reverted(t, d) == IF "DONE" \in Sessions(t)[d] THEN "COMPLETED" ELSE "SELECTED"

CleanupGhosts(t) ==
  /\ tick[t].pc = "cleanup"
  /\ LET ghost(d) == Participants(t)[d] = "ACTIVATED" /\ ~RunsIn(t, d) IN
     /\ worker' = [worker EXCEPT ![tick[t].it][tick[t].shift] =
          [d \in Discs |-> IF ghost(d) THEN Reverted(t, d) ELSE @[d]]]
     /\ sess' = [sess EXCEPT ![tick[t].it][tick[t].shift] =
          [d \in Discs |-> IF ghost(d) THEN @[d] \ {"ACTIVE"} ELSE @[d]]]
  /\ tick' = Put(t, "capacity")
  /\ TickUnchanged /\ UNCHANGED <<iter, board>>

(* One worker at a time.                                                   *)
Capacity(t) ==
  /\ tick[t].pc = "capacity"
  /\ tick' = IF \E d \in Discs : Participants(t)[d] = "ACTIVATED"
             THEN [tick EXCEPT ![t] = Idle] ELSE Put(t, "lock")
  /\ TickUnchanged /\ UNCHANGED <<iter, worker, sess, board>>

Pending(t) == {d \in Discs : Participants(t)[d] \in {"null", "SELECTED"}}

LockWorker(t) ==
  /\ tick[t].pc = "lock"
  /\ IF Pending(t) = {} THEN tick' = Put(t, "advance") /\ worker' = worker
     ELSE \E d \in Pending(t) :
       /\ worker' = [worker EXCEPT ![tick[t].it][tick[t].shift][d] = "ACTIVATED"]
       /\ tick' = [tick EXCEPT ![t] = [@ EXCEPT !.pc = "collect", !.disc = d]]
  /\ TickUnchanged /\ UNCHANGED <<iter, sess, board>>

Back(t) == [worker EXCEPT ![tick[t].it][tick[t].shift][tick[t].disc] =
              IF @ = "absent" THEN @ ELSE "SELECTED"]

(* No ticket for this one.  Nobody was sent out and nobody is out: on to   *)
(* the next shift, whoever else is pending.                                *)
StandDown(t) ==
  /\ tick[t].pc = "standdown"
  /\ worker' = Back(t) /\ tick' = [tick EXCEPT ![t] = [@ EXCEPT !.pc = "advance", !.disc = None]]
  /\ TickUnchanged /\ UNCHANGED <<iter, sess, board>>

NextShifts(t) == {s \in iter[tick[t].it].shifts : s > tick[t].shift}
NextShift(t)  == CHOOSE s \in NextShifts(t) : \A r \in NextShifts(t) : s <= r

(* _advance_shift, from the shift the tick has read; after the last one    *)
(* the iteration is over and the next one is incepted.                     *)
AdvanceShift(t) ==
  /\ tick[t].pc = "advance"
  /\ LET i == tick[t].it
         s == NextShift(t)
     IN
     IF NextShifts(t) # {}
       THEN /\ iter' = [iter EXCEPT ![i] = [@ EXCEPT !.shift = s,
                 !.status = IF iter[i].status = "WAITING" THEN "RUNNING" ELSE iter[i].status]]
            /\ tick' = IF tick[t].shift = 0
                       THEN [tick EXCEPT ![t] = [@ EXCEPT !.pc = "cleanup", !.shift = s]]
                       ELSE [tick EXCEPT ![t] = Idle]
            /\ worker' = worker
       ELSE /\ Len(iter) < limit.iterations
            /\ iter' = Append([iter EXCEPT ![i] = [@ EXCEPT !.shift = 0, !.status = "FINISHED",
                                                   !.heirs = iter[i].heirs + 1]], Incepted(i))
            /\ worker' = Staff(Len(iter) + 1)
            /\ tick' = [tick EXCEPT ![t] = Idle]
  /\ TickUnchanged /\ UNCHANGED <<sess, board>>

-----------------------------------------------------------------------------
(* The ticket: PrefrontalCortex.dispatch. *)

Unowned == {x \in Tickets : board[x].owner = None}
Are(type, statuses) == {x \in Tickets : Type[x] = type /\ board[x].status \in statuses}
Children(x) == {y \in Tickets : Parent[y] = x /\ board[y].status # "absent"}
Childless == {x \in Tickets : Children(x) = {}}

OrElse(S, T) == IF S # {} THEN S ELSE T

(* _assign_work: the tickets of a shift for a kind of disc.                *)
Targets(shift, kind) ==
  CASE shift = "SIFTING" /\ kind = "PM" ->
         OrElse(Are("EPIC", {"REFINE"}), Are("STORY", {"REFINE"}))
    [] shift = "SIFTING" /\ kind = "WORKER" ->
         {x \in Are("STORY", {"BACKLOG"}) \cap Unowned : ~board[x].bid}
    [] shift = "PRE_PLANNING" /\ kind = "PM" ->
         OrElse(Are("EPIC", {"BACKLOG"}) \cup (Are("EPIC", {"SELECTED"}) \cap Childless),
                Are("STORY", {"BACKLOG"}))
    [] shift = "PRE_PLANNING" /\ kind = "WORKER" ->
         Are("STORY", {"SELECTED"}) \cap Unowned \cap Childless
    [] shift = "EXECUTING" /\ kind = "WORKER" -> Are("TASK", {"SELECTED"}) \cap Unowned
    [] shift = "POST_EXECUTION" /\ kind = "PM" -> Are("STORY", {"REVIEW"})
    [] shift = "POST_EXECUTION" /\ kind = "WORKER" -> Are("TASK", {"REVIEW"})
    [] OTHER -> {}

(* mutant: only tasks are released.                                        *)
ReleasedTasks(d) ==
  [x \in Tickets |-> IF board[x].owner = d /\ Type[x] = "TASK"
                     THEN [board[x] EXCEPT !.owner = None] ELSE board[x]]
(* _garbage_collect_locks: what the disc still holds of earlier shifts is  *)
(* released, a task in progress to be selected again.                      *)
Released(d) ==
  [x \in Tickets |->
     IF board[x].owner # d THEN board[x]
     ELSE [board[x] EXCEPT !.owner = None,
             !.status = IF Type[x] = "TASK" /\ @ = "IN_PROGRESS" THEN "SELECTED" ELSE @]]

CollectLocks(t) ==
  /\ tick[t].pc = "collect"
  /\ board' = Released(tick[t].disc) /\ tick' = Put(t, "assign")
  /\ TickUnchanged /\ UNCHANGED <<iter, worker, sess>>

ShiftOf(t) == blueprint[tick[t].shift].shift

AssignWork(t) ==
  /\ tick[t].pc = "assign"
  /\ LET S == Targets(ShiftOf(t), Kind[tick[t].disc]) IN
     IF S = {} THEN tick' = Put(t, "standdown")
     ELSE \E x \in S : tick' = [tick EXCEPT ![t] = [@ EXCEPT !.pc = "take", !.ticket = x]]
  /\ TickUnchanged /\ UNCHANGED <<iter, worker, sess, board>>

LockTicket(t) ==
  /\ tick[t].pc = "take"
  /\ board' = [board EXCEPT ![tick[t].ticket].owner = tick[t].disc]
  /\ tick' = Put(t, "session")
  /\ trampled' = trampled \ {tick[t].ticket}
  /\ UNCHANGED <<limit, blueprint, draft, history, iter, worker, sess>>

(* _get_locked_ticket: the tickets the addon may show to a disc.           *)
Locked(d) ==
  LET own(type) == {x \in Tickets : board[x].owner = d /\ Type[x] = type}
  IN  OrElse(own("EPIC"), OrElse(own("STORY"), own("TASK")))

-----------------------------------------------------------------------------
(* The session: the instructions of agile_addon, and mcp_ticket. *)

(* What a disc is told to make of its ticket: statuses, "ready" when it    *)
(* fills in the definition of ready, "bid", "child" when it creates one.   *)
InstructedPM(shift, type) ==
  CASE shift = "SIFTING"        -> {"ready", "BACKLOG"}
    [] shift = "PRE_PLANNING"   -> IF type = "EPIC" THEN {"BLOCKED", "child"} ELSE {"SELECTED"}
    [] shift = "POST_EXECUTION" -> {"BLOCKED", "SELECTED"}
    [] OTHER -> {}
InstructedWorker(shift) ==
  CASE shift = "SIFTING"        -> {"bid"}
    [] shift = "PRE_PLANNING"   -> {"child"}
    [] shift = "EXECUTING"      -> {"IN_PROGRESS", "REVIEW"}
    [] shift = "POST_EXECUTION" -> {"DONE", "SELECTED"}
    [] OTHER -> {}
agile_addon(shift, kind, type) ==
  IF kind = "PM" THEN InstructedPM(shift, type) ELSE InstructedWorker(shift)
Agile(shift, kind, type) ==
  IF kind = "PM" THEN InstructedPM(shift, type) ELSE InstructedWorker(shift)
(* The row of the addon names the handler, or the older function.          *)
Instructed(shift, kind, type) ==
  agile_addon(shift, kind, type) \cup Agile(shift, kind, type)

(* _auto_status_update: work begun and work done are told to the parent.   *)
Bubbled(b, x) ==
  LET p == Parent[x] IN
  IF p = None THEN b
  ELSE IF b[x].status = "IN_PROGRESS" /\ b[p].status = "SELECTED"
    THEN [b EXCEPT ![p].status = "IN_PROGRESS"]
  ELSE IF /\ b[x].status = "DONE" /\ b[p].status \in {"SELECTED", "IN_PROGRESS"}
          /\ \A y \in Tickets : Parent[y] = p => b[y].status \in {"absent", "DONE"}
    THEN [b EXCEPT ![p].status = IF Type[p] = "STORY" THEN "REVIEW" ELSE "BLOCKED"]
  ELSE b

(* A story that is not ready does not go to the backlog.                   *)
Rejected(x, what) == what = "BACKLOG" /\ Type[x] = "STORY" /\ ~board[x].ready

Updated(x, what) ==
  IF Rejected(x, what) THEN board
  ELSE Bubbled(CASE what = "ready" -> [board EXCEPT ![x].ready = TRUE]
                 [] what = "bid"   -> [board EXCEPT ![x].bid = TRUE]
                 [] OTHER          -> [board EXCEPT ![x].status = what], x)

FirstStatus(x) == IF Type[x] = "EPIC" THEN "BLOCKED"
                  ELSE IF Type[x] = "STORY" THEN "REFINE" ELSE "SELECTED"
Born(x) == [board EXCEPT ![x] = [status |-> FirstStatus(x), owner |-> None,
                                 bid |-> FALSE, ready |-> FALSE]]
NewChildren(x) == {y \in Tickets : Parent[y] = x /\ board[y].status = "absent"}

UseTicket(t) ==
  /\ tick[t].pc = "session" /\ acts < limit.acts /\ acts' = acts + 1
  /\ \E x \in Locked(tick[t].disc) :
     \E what \in Instructed(ShiftOf(t), Kind[tick[t].disc], Type[x]) :
       IF what = "child" THEN \E y \in NewChildren(x) : board' = Born(y)
       ELSE board' = Updated(x, what)
  /\ UNCHANGED <<limit, blueprint, iter, worker, sess, draft, tick, trampled,
                 crashes, losses, edits>>

(* The session ends: over, out of turns or stopped, waiting for a human,   *)
(* or in error.                                                            *)
SessionEnds(t) ==
  /\ tick[t].pc = "session"
  /\ \E end \in {"DONE", "ATTENTION", "ERROR"} :
       sess' = [sess EXCEPT ![tick[t].it][tick[t].shift][tick[t].disc] =
                  IF end = "DONE" THEN @ \cup {end} ELSE @]
  /\ tick' = Put(t, "complete")
  /\ TickUnchanged /\ UNCHANGED <<iter, worker, board>>

(* The participant is COMPLETED, and nobody looks at its sessions again;   *)
(* one that has been removed cannot be saved, and the tick fails.          *)
Complete(t) ==
  /\ tick[t].pc = "complete"
  /\ worker' = [worker EXCEPT ![tick[t].it][tick[t].shift][tick[t].disc] =
                  IF @ = "absent" THEN @ ELSE "COMPLETED"]
  /\ sess' = [sess EXCEPT ![tick[t].it][tick[t].shift][tick[t].disc] = {}]
  /\ tick' = [tick EXCEPT ![t] = Idle]
  /\ TickUnchanged /\ UNCHANGED <<iter, board>>

-----------------------------------------------------------------------------
(* The operator: the viewsets of temporal_lobe/api.py and of the board. *)

Edit ==
  /\ edits < limit.edits /\ edits' = edits + 1
  /\ UNCHANGED <<limit, tick, crashes, losses, acts>>

Initiate(i) ==
  /\ Edit /\ i \in DOMAIN iter /\ iter[i].status = "WAITING"
  /\ iter' = [iter EXCEPT ![i].status = "RUNNING"]
  /\ UNCHANGED <<blueprint, worker, sess, board, draft, trampled>>

Incept ==
  /\ Edit /\ Len(iter) + 1 < limit.iterations
  /\ iter' = Append(iter, Incepted(0)) /\ worker' = Staff(Len(iter) + 1)
  /\ UNCHANGED <<blueprint, sess, board, draft, trampled>>

(* slot_disc selects the one it adds, update_participants does not.        *)
Joins == {"SELECTED", "null"}
SlotDisc(i, s, d) ==
  /\ Edit /\ i \in DOMAIN iter /\ s \in iter[i].shifts
  /\ worker[i][s][d] = "absent"
  /\ \E status \in Joins : worker' = [worker EXCEPT ![i][s][d] = status]
  /\ UNCHANGED <<blueprint, iter, sess, board, draft, trampled>>

(* The sessions of a participant outlive it, and are nobody's.             *)
RemoveDisc(i, s, d) ==
  /\ Edit /\ i \in DOMAIN iter /\ worker[i][s][d] # "absent"
  /\ worker' = [worker EXCEPT ![i][s][d] = "absent"]
  /\ sess' = [sess EXCEPT ![i][s][d] = {}]
  /\ UNCHANGED <<blueprint, iter, board, draft, trampled>>

SlotInBlueprint(s, d) ==
  /\ Edit /\ blueprint' = [blueprint EXCEPT ![s].staff = @ \cup {d}]
  /\ UNCHANGED <<iter, worker, sess, board, draft, trampled>>

RemoveFromBlueprint(s, d) ==
  /\ Edit /\ d \in blueprint[s].staff
  /\ blueprint' = [blueprint EXCEPT ![s].staff = @ \ {d}]
  /\ UNCHANGED <<iter, worker, sess, board, draft, trampled>>

(* A PATCH reads the whole ticket and writes the whole ticket.             *)
OpenTicket(x) ==
  /\ Edit /\ draft.ticket = None /\ board[x].status # "absent"
  /\ draft' = [ticket |-> x, row |-> board[x]]
  /\ UNCHANGED <<blueprint, iter, worker, sess, board, trampled>>

SaveTicket ==
  /\ draft.ticket # None
  /\ \E status \in {"REFINE", "SELECTED", "REVIEW"} :
       board' = [board EXCEPT ![draft.ticket] = [draft.row EXCEPT !.status = status]]
  /\ trampled' = IF board[draft.ticket].owner # draft.row.owner
                 THEN trampled \cup {draft.ticket} ELSE trampled
  /\ draft' = [ticket |-> None, row |-> None]
  /\ UNCHANGED <<limit, blueprint, iter, worker, sess, tick, history>>

-----------------------------------------------------------------------------
Metronome(t) == TriggerLooks(t) \/ TriggerCreates(t) \/ Reap(t)
Tick(t) == \/ GetIteration(t) \/ CleanupGhosts(t) \/ Capacity(t) \/ LockWorker(t)
           \/ CollectLocks(t) \/ AssignWork(t) \/ LockTicket(t) \/ SessionEnds(t)
           \/ Complete(t) \/ StandDown(t) \/ AdvanceShift(t)
Operator ==
  \/ Incept \/ SaveTicket
  \/ \E i \in 1..MaxIterations : Initiate(i)
  \/ \E i \in 1..MaxIterations, s \in 1..MaxShift, d \in Discs :
       SlotDisc(i, s, d) \/ RemoveDisc(i, s, d)
  \/ \E s \in DOMAIN blueprint, d \in Discs :
       SlotInBlueprint(s, d) \/ RemoveFromBlueprint(s, d)
  \/ \E x \in Tickets : OpenTicket(x)

Next == \/ \E t \in Slots : Metronome(t) \/ Tick(t) \/ UseTicket(t) \/ Crash(t)
        \/ Operator

(* The beat recurs, a task that has begun goes on, and the collector runs  *)
(* at each beat.                                                           *)
Fairness == \A t \in Slots : WF_vars(Metronome(t)) /\ WF_vars(Tick(t))

Spec == Init /\ [][Next]_vars /\ Fairness

-----------------------------------------------------------------------------
Workings == {"cleanup", "capacity", "lock", "collect", "assign", "take", "session", "complete",
             "standdown", "advance"}
Stages   == Workings \cup {"none", "check", "iteration", "dead", "lost"}
TickRow  == [pc : Stages, it : 0..MaxIterations, shift : 0..MaxShift,
             disc : Discs \cup {None}, ticket : Tickets \cup {None}]
IterationRow == [status : {"WAITING", "RUNNING", "FINISHED"}, shifts : SUBSET (1..MaxShift),
                 heirs : Nat, shift : 0..MaxShift]
Participations == [1..MaxIterations -> [1..MaxShift -> [Discs ->
                     {"absent", "null", "SELECTED", "ACTIVATED", "COMPLETED"}]]]
SessionTables  == [1..MaxIterations -> [1..MaxShift -> [Discs -> SUBSET {"DONE", "ACTIVE"}]]]

TypeOK ==
  /\ limit \in Limits /\ blueprint \in Seq(ShiftPlan) /\ Len(blueprint) <= MaxShift
  /\ iter \in Seq(IterationRow) /\ Len(iter) <= limit.iterations
  /\ worker \in Participations /\ sess \in SessionTables
  /\ board \in [Tickets -> TicketRow]
  /\ draft \in [ticket : Tickets \cup {None}, row : TicketRow \cup {None}]
  /\ tick \in [Slots -> TickRow] /\ trampled \subseteq Tickets
  /\ crashes \in Nat /\ losses \in Nat /\ edits \in Nat /\ acts \in Nat

(* A session is shown the ticket that its disc was sent out for, and no    *)
(* other one left over from an earlier shift, unless somebody has written  *)
(* an older copy of the ticket over it.                                    *)
WorksOnItsTicket ==
  \A t \in Slots : tick[t].pc = "session" =>
    \/ Locked(tick[t].disc) = {tick[t].ticket}
    \/ \E x \in trampled : x = tick[t].ticket \/ board[x].owner = tick[t].disc

(* The iterations succeed each other: one that is over has incepted one    *)
(* successor, and one that is not has none.                                *)
Succession ==
  \A i \in DOMAIN iter : iter[i].heirs = IF iter[i].status = "FINISHED" THEN 1 ELSE 0

(* Iterations come and go: each comes to its end and makes room for the    *)
(* next one, though ticks die on the way and workers leave or find no work,*)
(* as long as no machine is lost with a tick on it.                        *)
IterationsTurn == [](losses = 0) => <>(Len(iter) = limit.iterations)
=============================================================================
