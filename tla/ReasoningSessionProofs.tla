----------------------- MODULE ReasoningSessionProofs -----------------------
(***************************************************************************)
(* For every number of messages, turns, tasks and interventions: the rows  *)
(* refer to rows that exist, the budget of turns is exceeded by one turn   *)
(* for each task at most, an agent at rest has answered everything, and a  *)
(* session that nobody disturbs is a Conversation.                         *)
(***************************************************************************)
EXTENDS ReasoningSession, TLAPS, FiniteSetTheorems, SequenceTheorems

-----------------------------------------------------------------------------
(* Rows are updated in place or added at the end. *)

LEMMA UpdateRow ==
  ASSUME NEW S, NEW q \in Seq(S), NEW i, NEW e, i \in DOMAIN q => e \in S
  PROVE  /\ [q EXCEPT ![i] = e] \in Seq(S)
         /\ DOMAIN [q EXCEPT ![i] = e] = DOMAIN q
         /\ \A j \in DOMAIN q : [q EXCEPT ![i] = e][j] = IF j = i THEN e ELSE q[j]
<1>1. CASE i \in DOMAIN q
  BY <1>1, LenProperties, ExceptSeq
<1>2. CASE i \notin DOMAIN q
  <2>1. q = [j \in DOMAIN q |-> q[j]]
    BY LenProperties
  <2>2. [q EXCEPT ![i] = e] = q
    BY <1>2, <2>1
  <2> QED BY <1>2, <2>2
<1> QED BY <1>1, <1>2

LEMMA AddRow ==
  ASSUME NEW S, NEW q \in Seq(S), NEW e \in S
  PROVE  /\ Append(q, e) \in Seq(S)
         /\ DOMAIN Append(q, e) = DOMAIN q \cup {Len(q) + 1}
         /\ Len(q) + 1 \notin DOMAIN q /\ Len(q) + 1 \in Nat \ {0}
         /\ \A j \in DOMAIN q : Append(q, e)[j] = q[j]
         /\ Append(q, e)[Len(q) + 1] = e
BY LenProperties, AppendProperties

LEMMA Rows ==
  ASSUME NEW S, NEW q \in Seq(S)
  PROVE  /\ Len(q) \in Nat /\ DOMAIN q = 1..Len(q)
         /\ \A j \in DOMAIN q : q[j] \in S
BY LenProperties
LEMMA FiniteRows ==
  ASSUME NEW S, NEW q \in Seq(S), NEW T \in SUBSET DOMAIN q
  PROVE  IsFiniteSet(T) /\ Cardinality(T) \in Nat
<1>1. IsFiniteSet(DOMAIN q)
  BY Rows, FS_Interval
<1> QED BY <1>1, FS_Subset, FS_CardinalityType

LEMMA TurnsOfFinite ==
  ASSUME TypeOK
  PROVE  \A s : IsFiniteSet(TurnsOf(s)) /\ Cardinality(TurnsOf(s)) \in Nat
BY FiniteRows DEF TypeOK, TurnsOf

-----------------------------------------------------------------------------
(* What one task does to the rows of the tasks. *)

Updates(l, row) ==
  /\ row \in Loop /\ row.spike = loop[l].spike
  /\ loop' = [loop EXCEPT ![l] = row]

LEMMA UpdatesOneRow ==
  ASSUME TypeOK, NEW l \in Loops, NEW row, Updates(l, row)
  PROVE  /\ loop' \in Seq(Loop) /\ Loops' = Loops
         /\ loop'[l] = row
         /\ \A k \in Loops \ {l} : loop'[k] = loop[k]
<1>1. loop \in Seq(Loop) BY DEF TypeOK
<1>2. /\ [loop EXCEPT ![l] = row] \in Seq(Loop)
      /\ DOMAIN [loop EXCEPT ![l] = row] = Loops
      /\ \A k \in Loops : [loop EXCEPT ![l] = row][k] = IF k = l THEN row ELSE loop[k]
  BY <1>1, UpdateRow DEF Updates, Loops
<1> QED BY <1>2 DEF Updates, Loops

LEMMA LoopRows ==
  ASSUME TypeOK
  PROVE  \A l \in Loops : loop[l] \in Loop
BY Rows DEF TypeOK, Loops

LEMMA GoUpdates ==
  ASSUME TypeOK, NEW l \in Loops, NEW at \in Inside \cup {"queued", "load", "over", "dead"},
         Go(l, at)
  PROVE  Updates(l, [loop[l] EXCEPT !.at = at])
BY LoopRows DEF Go, Updates, Loop

(* The row of a task that meets an action of its own. *)
LEMMA LoopStepUpdates ==
  ASSUME TypeOK, NEW l \in Loops, LoopStep(l)
  PROVE  \E row : Updates(l, row)
<1> USE LoopRows DEF Updates, Loop, Inside, Risky
<1>0. \A at \in Inside \cup {"queued", "load", "over", "dead"} :
        Go(l, at) => \E row : Updates(l, row)
  BY GoUpdates
<1>1. CASE LoadSession(l)
  <2>1. PICK s \in Sessions, at \in {"check", "activate"} :
     loop' = [loop EXCEPT ![l] = [@ EXCEPT !.session = s, !.queue = session[s].queue, !.at = at]]
    BY <1>1 DEF LoadSession, Resumable
  <2>2. session[s] \in Session /\ s \in Nat
    BY Rows DEF TypeOK, Sessions
  <2>3. Updates(l, [loop[l] EXCEPT !.session = s, !.queue = session[s].queue, !.at = at])
    BY <2>1, <2>2 DEF Session
  <2> QED BY <2>3
<1>2. CASE CreateSession(l)
  <2>1. PICK n \in Nat : n = Len(session) + 1
    BY Rows DEF TypeOK
  <2>2. Updates(l, [loop[l] EXCEPT !.session = n, !.at = "check"])
    BY <1>2, <2>1 DEF CreateSession
  <2> QED BY <2>2
<1>3. CASE FindTurn(l)
  <2>1. CASE ActiveTurns(loop[l].session) = {}
    <3>1. PICK n : n = Cardinality(TurnsOf(loop[l].session)) + 1
      OBVIOUS
    <3>2. n \in Nat
      BY <3>1, TurnsOfFinite
    <3>3. Updates(l, [loop[l] EXCEPT !.number = n, !.at = "create"])
      BY <1>3, <2>1, <3>1, <3>2 DEF FindTurn, FirstOf
    <3> QED BY <3>3
  <2>2. CASE ActiveTurns(loop[l].session) # {}
    <3>1. PICK t \in ActiveTurns(loop[l].session) :
            loop' = [loop EXCEPT ![l] = [@ EXCEPT !.turn = t, !.at = "prompt"]]
      BY <1>3, <2>2 DEF FindTurn, FirstOf
    <3>2. t \in Nat
      BY <3>1, Rows DEF TypeOK, ActiveTurns, TurnsOf
    <3>3. Updates(l, [loop[l] EXCEPT !.turn = t, !.at = "prompt"])
      BY <3>1, <3>2
    <3> QED BY <3>3
  <2> QED BY <2>1, <2>2
<1>4. CASE CreateTurn(l)
  <2>1. PICK n \in Nat : n = Len(turns) + 1
    BY Rows DEF TypeOK
  <2>2. Updates(l, [loop[l] EXCEPT !.turn = n, !.number = 0, !.at = "prompt"])
    BY <1>4, <2>1 DEF CreateTurn
  <2> QED BY <2>2
<1>5. CASE BuildPrompt(l)
  <2>1. Updates(l, [loop[l] EXCEPT !.queue = <<>>, !.at = "think"])
    BY <1>5, EmptySeq DEF BuildPrompt
  <2> QED BY <2>1
<1>6. CASE Think(l)
  <2>1. PICK at \in {"tools", "sleep"} : loop' = [loop EXCEPT ![l] = [@ EXCEPT !.turn = 0, !.at = at]]
    BY <1>6 DEF Think
  <2>2. Updates(l, [loop[l] EXCEPT !.turn = 0, !.at = at])
    BY <2>1
  <2> QED BY <2>2
<1>7. CASE FailTurn(l)
  <2>1. Updates(l, [loop[l] EXCEPT !.turn = 0, !.at = "end"])
    BY <1>7 DEF FailTurn
  <2> QED BY <2>1
<1>8. CASE Fail(l)
  <2>1. Updates(l, [loop[l] EXCEPT !.turn = 0, !.at = "failed"])
    BY <1>8 DEF Fail
  <2> QED BY <2>1
<1>9. CASE WriteOutcome(l)
  <2>1. Updates(l, [loop[l] EXCEPT !.queue = <<>>, !.at = "over"])
    BY <1>9, EmptySeq DEF WriteOutcome
  <2> QED BY <2>1
<1>10. CASE Done(l)
  <2>1. loop = [loop EXCEPT ![l] = loop[l]]
    BY LenProperties DEF TypeOK
  <2>2. Updates(l, loop[l])
    BY <1>10, <2>1 DEF Done
  <2> QED BY <2>2
<1>11. CASE Start(l) \/ Activate(l) \/ CheckTurns(l) \/ CheckStop(l) \/ Paralysis(l)
  BY <1>0, <1>11 DEF Start, Activate, CheckTurns, CheckStop, Paralysis
<1>12. CASE Sleep(l) \/ AskUser(l) \/ Yield(l) \/ ToolsDone(l) \/ EndRun(l)
  BY <1>0, <1>12 DEF Sleep, AskUser, Yield, ToolsDone, EndRun
<1>13. CASE Complete(l) \/ SaveFailure(l)
  BY <1>0, <1>13 DEF Complete, SaveFailure
<1> QED BY <1>1, <1>2, <1>3, <1>4, <1>5, <1>6, <1>7, <1>8, <1>9, <1>10, <1>11, <1>12, <1>13
        DEF LoopStep
-----------------------------------------------------------------------------
(* What a step does to the rows of the agent. *)

SessionBecomes(s, row) ==
  /\ session' \in Seq(Session) /\ Sessions' = Sessions
  /\ \A r \in Sessions : session'[r] = IF r = s THEN row ELSE session[r]

LEMMA SessionRows ==
  ASSUME TypeOK
  PROVE  \A s \in Sessions : session[s] \in Session /\ s \in Nat \ {0}
BY Rows DEF TypeOK, Sessions

LEMMA SessionUpdate ==
  ASSUME TypeOK, NEW s, NEW row, s \in Sessions => row \in Session,
         session' = [session EXCEPT ![s] = row]
  PROVE  SessionBecomes(s, row)
<1>1. session \in Seq(Session) BY DEF TypeOK
<1> QED BY <1>1, UpdateRow DEF SessionBecomes, Sessions

LEMMA StatusUpdate ==
  ASSUME TypeOK, NEW s, NEW st \in Statuses, SetStatus(s, st)
  PROVE  SessionBecomes(s, [session[s] EXCEPT !.status = st])
<1>1. s \in Sessions => [session[s] EXCEPT !.status = st] \in Session
  BY SessionRows DEF Session
<1>2. session' = [session EXCEPT ![s] = [session[s] EXCEPT !.status = st]]
  BY DEF SetStatus
<1> QED BY <1>1, <1>2, SessionUpdate

SessionAdded(row) ==
  /\ session' \in Seq(Session) /\ Sessions' = Sessions \cup {Len(session) + 1}
  /\ Len(session) + 1 \notin Sessions /\ Len(session) + 1 \in Nat \ {0}
  /\ \A r \in Sessions : session'[r] = session[r]
  /\ session'[Len(session) + 1] = row

LEMMA SessionAppend ==
  ASSUME TypeOK, NEW k \in Nat, NEW st \in Statuses,
         session' = Append(session, NewSession(k, st))
  PROVE  SessionAdded(NewSession(k, st))
<1>1. session \in Seq(Session) /\ NewSession(k, st) \in Session
  BY EmptySeq DEF TypeOK, NewSession, Session
<1> QED BY <1>1, AddRow DEF SessionAdded, Sessions

TurnAdded(row) ==
  /\ turns' \in Seq(Turn) /\ DOMAIN turns' = DOMAIN turns \cup {Len(turns) + 1}
  /\ Len(turns) + 1 \notin DOMAIN turns
  /\ \A t \in DOMAIN turns : turns'[t] = turns[t]
  /\ turns'[Len(turns) + 1] = row

LEMMA TurnAppend ==
  ASSUME TypeOK, NEW row \in Turn, turns' = Append(turns, row)
  PROVE  TurnAdded(row)
BY AddRow DEF TurnAdded, TypeOK

LEMMA TurnUpdate ==
  ASSUME TypeOK, NEW t, NEW st \in {"ACTIVE", "COMPLETED", "ERROR"},
         turns' = [turns EXCEPT ![t].status = st]
  PROVE  /\ turns' \in Seq(Turn) /\ DOMAIN turns' = DOMAIN turns
         /\ \A u \in DOMAIN turns : turns'[u].session = turns[u].session
<1>1. turns \in Seq(Turn) /\ \A u \in DOMAIN turns : turns[u] \in Turn
  BY Rows DEF TypeOK
<1>2. t \in DOMAIN turns => [turns[t] EXCEPT !.status = st] \in Turn
  BY <1>1 DEF Turn
<1>3. turns' = [turns EXCEPT ![t] = [turns[t] EXCEPT !.status = st]]
  OBVIOUS
<1>4. /\ turns' \in Seq(Turn) /\ DOMAIN turns' = DOMAIN turns
      /\ \A u \in DOMAIN turns :
           turns'[u] = IF u = t THEN [turns[t] EXCEPT !.status = st] ELSE turns[u]
  BY <1>1, <1>2, <1>3, UpdateRow
<1> QED BY <1>1, <1>4 DEF Turn
-----------------------------------------------------------------------------
(* Types and references. *)

WithTurn == {"prompt", "think", "paralysed"}

LoopRefers(l) ==
  /\ loop[l].spike \in Sessions /\ loop[l].session \in Sessions \cup {0}
  /\ loop[l].at \in Inside => loop[l].session # 0
  /\ loop[l].at \in {"queued", "load"} => loop[l].session = 0 /\ loop[l].queue = <<>>
  /\ loop[l].at \in WithTurn => loop[l].turn \in DOMAIN turns

ReplyRefers(m) ==
  /\ reply[m].at \in {"seed", "inject", "fire"} => reply[m].session \in Sessions
  /\ reply[m].at \in {"new", "genesis"} =>
       reply[m].status = "ATTENTION_REQUIRED" /\ reply[m].queue = <<>>

ReferencesHold ==
  /\ \A s \in Sessions : session[s].spike \in Sessions
  /\ \A t \in DOMAIN turns : turns[t].session \in Sessions
  /\ \A l \in Loops : LoopRefers(l)
  /\ \A m \in Messages : ReplyRefers(m)

(* Rows are never deleted and stay with their spike and their session.     *)
SessionsGrow ==
  /\ session' \in Seq(Session)
  /\ Sessions \subseteq Sessions'
  /\ \A s \in Sessions : session'[s].spike = session[s].spike
  /\ \A s \in Sessions' : session'[s].spike \in Sessions'

TurnsGrow ==
  /\ turns' \in Seq(Turn)
  /\ DOMAIN turns \subseteq DOMAIN turns'
  /\ \A t \in DOMAIN turns : turns'[t].session = turns[t].session
  /\ \A t \in DOMAIN turns' : turns'[t].session \in Sessions'

LEMMA SameSessions ==
  ASSUME TypeOK, ReferencesHold, session' = session
  PROVE  SessionsGrow
BY DEF TypeOK, ReferencesHold, SessionsGrow, Sessions

LEMMA SameTurns ==
  ASSUME TypeOK, ReferencesHold, SessionsGrow, turns' = turns
  PROVE  TurnsGrow
BY DEF TypeOK, ReferencesHold, SessionsGrow, TurnsGrow

LEMMA UpdatedSessions ==
  ASSUME TypeOK, ReferencesHold, NEW s, NEW row,
         SessionBecomes(s, row), row.spike = session[s].spike
  PROVE  SessionsGrow
BY DEF ReferencesHold, SessionsGrow, SessionBecomes

LEMMA StatusGrows ==
  ASSUME TypeOK, ReferencesHold, NEW s, NEW st \in Statuses, SetStatus(s, st)
  PROVE  SessionsGrow
<1>1. SessionBecomes(s, [session[s] EXCEPT !.status = st])
  BY StatusUpdate
<1>2. s \in Sessions => [session[s] EXCEPT !.status = st].spike = session[s].spike
  BY SessionRows DEF Session
<1> QED BY <1>1, <1>2 DEF ReferencesHold, SessionsGrow, SessionBecomes

LEMMA LoopStepGrows ==
  ASSUME TypeOK, ReferencesHold, NEW l \in Loops, LoopStep(l)
  PROVE  SessionsGrow /\ TurnsGrow
<1>0. Awake \subseteq Statuses /\ {"COMPLETED", "MAXED_OUT", "STOPPED", "ERROR"} \subseteq Statuses
      /\ "ACTIVE" \in Statuses /\ "ATTENTION_REQUIRED" \in Statuses
  BY DEF Statuses, Awake
<1>1. CASE CreateSession(l)
  <2>1. loop[l].spike \in Sessions /\ loop[l].spike \in Nat
    BY LoopRows DEF ReferencesHold, LoopRefers, Loop
  <2>2. SessionAdded(NewSession(loop[l].spike, "ACTIVE"))
    BY <1>0, <1>1, <2>1, SessionAppend DEF CreateSession
  <2>3. SessionsGrow
    BY <2>1, <2>2 DEF SessionAdded, SessionsGrow, ReferencesHold, NewSession
  <2> QED BY <1>1, <2>3, SameTurns DEF CreateSession
<1>2. CASE BuildPrompt(l)
  <2>1. CASE session' = session
    BY <1>2, <2>1, SameSessions, SameTurns DEF BuildPrompt
  <2>2. CASE loop[l].queue # <<>>
    <3> DEFINE s == loop[l].session
               row == [session[s] EXCEPT !.heard = session[s].heard \o loop[l].queue, !.queue = <<>>]
    <3>1. loop[l].queue \in Seq(Messages) /\ s \in Sessions
      BY <1>2, LoopRows DEF BuildPrompt, Loop, ReferencesHold, LoopRefers, Inside, Risky
    <3>2. PICK h \in Seq(Messages) : h = session[s].heard \o loop[l].queue
      BY <3>1, SessionRows, ConcatProperties DEF Session
    <3>3. row \in Session /\ row.spike = session[s].spike
      BY <3>1, <3>2, SessionRows, EmptySeq DEF Session
    <3>4. session' = [session EXCEPT ![s] = row]
      BY <1>2, <2>2 DEF BuildPrompt
    <3> HIDE DEF row
    <3>5. SessionsGrow
      BY <3>3, <3>4, SessionUpdate, UpdatedSessions
    <3> QED BY <1>2, <3>5, SameTurns DEF BuildPrompt
  <2> QED BY <1>2, <2>1, <2>2 DEF BuildPrompt
<1>3. CASE SaveFailure(l)
  <2> DEFINE s == loop[l].session
             row == [session[s] EXCEPT !.status = "ERROR", !.queue = loop[l].queue]
  <2>1. loop[l].queue \in Seq(Messages) /\ s \in Sessions
    BY <1>3, LoopRows DEF SaveFailure, Loop, ReferencesHold, LoopRefers, Inside, Risky
  <2>2. row \in Session /\ row.spike = session[s].spike
    BY <1>0, <2>1, SessionRows DEF Session
  <2>3. session' = [session EXCEPT ![s] = row]
    BY <1>3 DEF SaveFailure
  <2> HIDE DEF row
  <2>4. SessionsGrow
    BY <2>2, <2>3, SessionUpdate, UpdatedSessions
  <2> QED BY <1>3, <2>4, SameTurns DEF SaveFailure
<1>4. CASE Activate(l) \/ Paralysis(l) \/ Sleep(l) \/ Done(l) \/ Yield(l) \/ Complete(l)
  <2>1. \E st \in Statuses : SetStatus(loop[l].session, st)
    BY <1>0, <1>4 DEF Activate, Paralysis, Sleep, Done, Yield, Complete
  <2>2. SessionsGrow
    BY <2>1, StatusGrows
  <2> QED BY <1>4, <2>2, SameTurns DEF Activate, Paralysis, Sleep, Done, Yield, Complete
<1>5. CASE CreateTurn(l)
  <2> DEFINE row == [session |-> loop[l].session, number |-> loop[l].number, status |-> "ACTIVE"]
  <2>1. SessionsGrow /\ Sessions' = Sessions
    BY <1>5, SameSessions DEF CreateTurn, Sessions
  <2>2. row \in Turn /\ loop[l].session \in Sessions
    BY <1>5, LoopRows DEF CreateTurn, Loop, Turn, ReferencesHold, LoopRefers, Inside, Risky
  <2>3. TurnAdded(row)
    BY <1>5, <2>2, TurnAppend DEF CreateTurn
  <2> QED BY <2>1, <2>2, <2>3 DEF TurnAdded, TurnsGrow, ReferencesHold
<1>6. CASE Think(l) \/ FailTurn(l)
  <2>1. SessionsGrow /\ Sessions' = Sessions
    BY <1>6, SameSessions DEF Think, FailTurn, Sessions
  <2>2. \E st \in {"COMPLETED", "ERROR"} : turns' = [turns EXCEPT ![loop[l].turn].status = st]
    BY <1>6 DEF Think, FailTurn
  <2>3. /\ turns' \in Seq(Turn) /\ DOMAIN turns' = DOMAIN turns
        /\ \A u \in DOMAIN turns : turns'[u].session = turns[u].session
    BY <2>2, TurnUpdate
  <2> QED BY <2>1, <2>3 DEF TurnsGrow, ReferencesHold
<1>7. CASE session' = session /\ turns' = turns
  BY <1>7, SameSessions, SameTurns
<1> QED BY <1>1, <1>2, <1>3, <1>4, <1>5, <1>6, <1>7
        DEF LoopStep, Start, LoadSession, CheckTurns, CheckStop, FindTurn, AskUser, ToolsDone,
            EndRun, Fail, WriteOutcome

LEMMA LoopStepTypeOK ==
  ASSUME TypeOK, ReferencesHold, NEW l \in Loops, LoopStep(l)
  PROVE  TypeOK'
<1>1. PICK row : Updates(l, row)
  BY LoopStepUpdates
<1>2. loop' \in Seq(Loop)
  BY <1>1, UpdatesOneRow
<1>3. SessionsGrow /\ TurnsGrow
  BY LoopStepGrows
<1>4. UNCHANGED users /\ halted' \subseteq halted
  BY DEF LoopStep, Start, LoadSession, Activate, CreateSession, CheckTurns, CheckStop, FindTurn,
         CreateTurn, BuildPrompt, Think, Paralysis, FailTurn, Sleep, Done, AskUser, Yield,
         ToolsDone, EndRun, Complete, Fail, SaveFailure, WriteOutcome
<1> QED BY <1>2, <1>3, <1>4 DEF TypeOK, SessionsGrow, TurnsGrow, users

(* The rows that a step leaves alone keep their references.                *)
LEMMA OtherLoopsRefer ==
  ASSUME ReferencesHold, SessionsGrow, TurnsGrow, NEW k \in Loops, loop'[k] = loop[k]
  PROVE  LoopRefers(k)'
BY DEF ReferencesHold, LoopRefers, SessionsGrow, TurnsGrow

LEMMA OtherRepliesRefer ==
  ASSUME ReferencesHold, SessionsGrow, NEW m \in Messages, reply'[m] = reply[m]
  PROVE  ReplyRefers(m)'
BY DEF ReferencesHold, ReplyRefers, SessionsGrow

LEMMA GrowthRefers ==
  ASSUME SessionsGrow, TurnsGrow
  PROVE  /\ \A s \in Sessions' : session'[s].spike \in Sessions'
         /\ \A t \in DOMAIN turns' : turns'[t].session \in Sessions'
BY DEF SessionsGrow, TurnsGrow

(* A step that stays with its session and needs no turn, or keeps the one it has. *)
LEMMA StaysRefers ==
  ASSUME ReferencesHold, SessionsGrow, TurnsGrow, NEW l \in Loops,
         loop[l].at \in Inside, loop'[l].at \notin {"queued", "load"},
         loop'[l].spike = loop[l].spike, loop'[l].session = loop[l].session,
         loop'[l].at \in WithTurn => loop'[l].turn \in DOMAIN turns'
  PROVE  LoopRefers(l)'
BY DEF ReferencesHold, LoopRefers, SessionsGrow, TurnsGrow

LEMMA LoopStepRefers ==
  ASSUME TypeOK, ReferencesHold, NEW l \in Loops, LoopStep(l)
  PROVE  ReferencesHold'
<1>1. PICK row : Updates(l, row)
  BY LoopStepUpdates
<1>2. Loops' = Loops /\ loop'[l] = row /\ \A k \in Loops \ {l} : loop'[k] = loop[k]
  BY <1>1, UpdatesOneRow
<1>3. SessionsGrow /\ TurnsGrow
  BY LoopStepGrows
<1>4. UNCHANGED users
  BY DEF LoopStep, Start, LoadSession, Activate, CreateSession, CheckTurns, CheckStop, FindTurn,
         CreateTurn, BuildPrompt, Think, Paralysis, FailTurn, Sleep, Done, AskUser, Yield,
         ToolsDone, EndRun, Complete, Fail, SaveFailure, WriteOutcome
<1>5. LoopRefers(l)'
  <2> USE LoopRows DEF Loop, Inside, Risky, WithTurn
  <2>1. LoopRefers(l) /\ loop \in [Loops -> Loop]
    BY LenProperties DEF ReferencesHold, TypeOK, Loops
  <2>2. CASE Start(l)
    BY <1>3, <2>1, <2>2 DEF Start, Go, LoopRefers, SessionsGrow
  <2>3. CASE LoadSession(l)
    <3>1. PICK s \in Sessions, at \in {"check", "activate"} :
       loop' = [loop EXCEPT ![l] = [@ EXCEPT !.session = s, !.queue = session[s].queue, !.at = at]]
      BY <2>3 DEF LoadSession, Resumable
    <3>2. s # 0
      BY SessionRows
    <3> QED BY <1>3, <2>1, <3>1, <3>2 DEF LoopRefers, SessionsGrow
  <2>4. CASE CreateSession(l)
    <3>1. PICK n : n = Len(session) + 1
      OBVIOUS
    <3>2. loop'[l] = [loop[l] EXCEPT !.session = n, !.at = "check"]
      BY <2>1, <2>4, <3>1 DEF CreateSession
    <3>3. n \in Sessions' /\ n # 0
      <4>1. SessionAdded(NewSession(loop[l].spike, "ACTIVE"))
        BY <2>1, <2>4, SessionAppend DEF CreateSession, Statuses, Awake
      <4> QED BY <3>1, <4>1 DEF SessionAdded
    <3> QED BY <1>3, <2>1, <3>2, <3>3 DEF LoopRefers, SessionsGrow
  <2>5. CASE FindTurn(l)
    <3>1. CASE \E t \in FirstOf(ActiveTurns(loop[l].session)) :
                 loop' = [loop EXCEPT ![l] = [@ EXCEPT !.turn = t, !.at = "prompt"]]
      <4>1. PICK t \in DOMAIN turns :
              loop' = [loop EXCEPT ![l] = [@ EXCEPT !.turn = t, !.at = "prompt"]]
        BY <3>1 DEF FirstOf, ActiveTurns, TurnsOf
      <4> QED BY <1>3, <2>1, <2>5, <4>1, StaysRefers DEF FindTurn, TurnsGrow
    <3>2. CASE \E n : loop' = [loop EXCEPT ![l] = [@ EXCEPT !.number = n, !.at = "create"]]
      <4>1. PICK n : loop'[l] = [loop[l] EXCEPT !.number = n, !.at = "create"]
        BY <2>1, <3>2
      <4> QED BY <1>3, <2>1, <2>5, <4>1, StaysRefers DEF FindTurn
    <3> QED BY <2>5, <3>1, <3>2 DEF FindTurn
  <2>6. CASE CreateTurn(l)
    <3>1. PICK n : n = Len(turns) + 1
      OBVIOUS
    <3>2. loop'[l] = [loop[l] EXCEPT !.turn = n, !.number = 0, !.at = "prompt"]
      BY <2>1, <2>6, <3>1 DEF CreateTurn
    <3>3. [session |-> loop[l].session, number |-> loop[l].number, status |-> "ACTIVE"] \in Turn
      BY DEF Turn
    <3>4. n \in DOMAIN turns'
      BY <2>6, <3>1, <3>3, TurnAppend DEF CreateTurn, TurnAdded
    <3> QED BY <1>3, <2>1, <2>6, <3>2, <3>4, StaysRefers DEF CreateTurn
  <2>7. CASE BuildPrompt(l)
    BY <1>3, <2>1, <2>7, StaysRefers DEF BuildPrompt, LoopRefers, TurnsGrow
  <2>8. CASE /\ loop[l].at \in Inside
             /\ \E at \in {"tools", "sleep", "end", "failed"} :
                  loop'[l] = [loop[l] EXCEPT !.turn = 0, !.at = at]
    BY <1>3, <2>1, <2>8, StaysRefers
  <2>9. CASE Paralysis(l)
    BY <1>3, <2>1, <2>9, StaysRefers DEF Paralysis, Go, LoopRefers, TurnsGrow
  <2>10. CASE /\ loop[l].at \in Inside
              /\ \E at \in Inside \ WithTurn : loop'[l] = [loop[l] EXCEPT !.at = at]
    <3>1. loop'[l].at \notin {"queued", "load"}
      BY <2>10
    <3> QED BY <1>3, <2>1, <2>10, <3>1, StaysRefers
  <2>11. CASE WriteOutcome(l)
    <3>1. loop'[l] = [loop[l] EXCEPT !.queue = <<>>, !.at = "over"]
      BY <2>1, <2>11 DEF WriteOutcome
    <3> QED BY <1>3, <2>1, <2>11, <3>1, StaysRefers DEF WriteOutcome
  <2>12. CASE Done(l)
    BY <1>3, <2>1, <2>12, OtherLoopsRefer DEF Done
  <2>13. CASE Think(l) \/ FailTurn(l) \/ Fail(l)
    BY <2>1, <2>8, <2>13 DEF Think, FailTurn, Fail
  <2>14. CASE Activate(l) \/ CheckTurns(l) \/ CheckStop(l) \/ Sleep(l) \/ AskUser(l)
    BY <2>1, <2>10, <2>14 DEF Activate, CheckTurns, CheckStop, Sleep, AskUser, Go
  <2>15. CASE Yield(l) \/ ToolsDone(l) \/ EndRun(l) \/ Complete(l) \/ SaveFailure(l)
    BY <2>1, <2>10, <2>15 DEF Yield, ToolsDone, EndRun, Complete, SaveFailure, Go
  <2> QED BY <2>2, <2>3, <2>4, <2>5, <2>6, <2>7, <2>9, <2>11, <2>12, <2>13, <2>14, <2>15
          DEF LoopStep
<1>6. \A k \in Loops' : LoopRefers(k)'
  BY <1>2, <1>3, <1>5, OtherLoopsRefer
<1>7. \A m \in Messages : ReplyRefers(m)'
  BY <1>3, <1>4, OtherRepliesRefer DEF users
<1> QED BY <1>3, <1>6, <1>7, GrowthRefers DEF ReferencesHold

(* What a request and an intervention do. *)
ReplyUpdates(m, row) ==
  /\ row \in Reply
  /\ reply' = [reply EXCEPT ![m] = row]

LEMMA ReplyRows ==
  ASSUME TypeOK
  PROVE  \A m \in Messages : reply[m] \in Reply
BY DEF TypeOK

LEMMA StatusesAre ==
  Awake \subseteq Statuses /\ "STOPPED" \in Statuses
  /\ "ACTIVE" \in Statuses /\ "ATTENTION_REQUIRED" \in Statuses
BY DEF Statuses, Awake

LEMMA BlankIsReply == \A at \in {"new", "sent"} : Blank(at) \in Reply
BY EmptySeq, StatusesAre DEF Blank, Reply

LEMMA ViewIsReply ==
  ASSUME TypeOK, NEW s \in Sessions
  PROVE  View(s) \in Reply
BY SessionRows DEF View, Reply, Session

LoopAdded(row) ==
  /\ loop' \in Seq(Loop) /\ Loops' = Loops \cup {Len(loop) + 1}
  /\ Len(loop) + 1 \notin Loops
  /\ \A k \in Loops : loop'[k] = loop[k]
  /\ loop'[Len(loop) + 1] = row

LEMMA LoopAppend ==
  ASSUME TypeOK, NEW k \in Nat, loop' = Append(loop, NewLoop(k))
  PROVE  LoopAdded(NewLoop(k))
<1>1. loop \in Seq(Loop) /\ NewLoop(k) \in Loop
  BY EmptySeq DEF TypeOK, NewLoop, Loop
<1> QED BY <1>1, AddRow DEF LoopAdded, Loops

LEMMA AddedLoopRefers ==
  ASSUME TypeOK, ReferencesHold, NEW s \in Sessions, session' = session,
         loop' = Append(loop, NewLoop(session[s].spike))
  PROVE  /\ loop' \in Seq(Loop)
         /\ \A k \in Loops' \ Loops : LoopRefers(k)'
         /\ \A k \in Loops : loop'[k] = loop[k]
<1>1. session[s].spike \in Nat /\ session[s].spike \in Sessions
  BY SessionRows DEF Session, ReferencesHold
<1>2. LoopAdded(NewLoop(session[s].spike))
  BY <1>1, LoopAppend
<1>3. Sessions' = Sessions
  BY DEF Sessions
<1>4. NewLoop(session[s].spike).at = "queued" /\ NewLoop(session[s].spike).session = 0
      /\ NewLoop(session[s].spike).queue = <<>>
      /\ NewLoop(session[s].spike).spike = session[s].spike
  BY DEF NewLoop
<1> QED BY <1>1, <1>2, <1>3, <1>4 DEF LoopAdded, LoopRefers, Inside, Risky, WithTurn

(* A message enters: into a session that is read, or a new one.            *)
LEMMA EntersUpdates ==
  ASSUME TypeOK, NEW m \in Messages, Interact(m) \/ Resume(m)
  PROVE  \/ \E s \in Sessions : ReplyUpdates(m, View(s))
         \/ ReplyUpdates(m, [reply[m] EXCEPT !.at = "genesis"])
<1>1. CASE \E s \in Sessions : reply' = [reply EXCEPT ![m] = View(s)]
  BY <1>1, ViewIsReply DEF ReplyUpdates
<1>2. CASE reply' = [reply EXCEPT ![m].at = "genesis"]
  <2>1. [reply[m] EXCEPT !.at = "genesis"] \in Reply
    BY ReplyRows DEF Reply
  <2> QED BY <1>2, <2>1 DEF ReplyUpdates
<1> QED BY <1>1, <1>2 DEF Interact, Resume, Standing

LEMMA EntersKeepReferences ==
  ASSUME TypeOK, ReferencesHold, NEW m \in Messages, Interact(m) \/ Resume(m)
  PROVE  TypeOK' /\ ReferencesHold'
<1>1. UNCHANGED <<session, turns, loop, halted, ops>> /\ disturbed' \in BOOLEAN
  BY DEF Interact, Resume, Disturbs, TypeOK
<1>2. PICK row \in Reply : /\ reply' = [reply EXCEPT ![m] = row]
                           /\ \/ row = [reply[m] EXCEPT !.at = "genesis"]
                              \/ \E s \in Sessions : row = View(s)
  BY EntersUpdates, ReplyRows DEF ReplyUpdates, Reply
<1>3. reply' \in [Messages -> Reply]
  BY <1>2 DEF TypeOK
<1>4. ReplyRefers(m)'
  <2>1. reply[m].at = "new" /\ ReplyRefers(m)
    BY DEF Interact, Resume, IsNext, ReferencesHold
  <2>2. CASE \E s \in Sessions : row = View(s)
    BY <1>1, <1>2, <2>2 DEF ReplyRefers, View, TypeOK, Sessions
  <2>3. CASE row = [reply[m] EXCEPT !.at = "genesis"]
    <3>1. row.at = "genesis" /\ row.status = reply[m].status /\ row.queue = reply[m].queue
      BY <2>3, ReplyRows DEF Reply
    <3> QED BY <1>2, <2>1, <3>1 DEF ReplyRefers, TypeOK
  <2> QED BY <1>2, <2>2, <2>3
<1>5. SessionsGrow /\ TurnsGrow /\ Loops' = Loops /\ Sessions' = Sessions
  BY <1>1, SameSessions, SameTurns DEF Loops, Sessions
<1>6. \A k \in Loops : LoopRefers(k)'
  BY <1>1, <1>5, OtherLoopsRefer
<1>7. \A n \in Messages : ReplyRefers(n)'
  BY <1>2, <1>4, <1>5, OtherRepliesRefer DEF TypeOK
<1> QED BY <1>1, <1>3, <1>5, <1>6, <1>7, GrowthRefers DEF TypeOK, ReferencesHold

LEMMA GenesisUpdates ==
  ASSUME TypeOK, NEW m \in Messages, Genesis(m)
  PROVE  \E s \in Nat \ {0} :
           /\ s = Len(session) + 1
           /\ SessionAdded(NewSession(s, "ATTENTION_REQUIRED"))
           /\ ReplyUpdates(m, [reply[m] EXCEPT !.session = s, !.at = "seed"])
<1>1. PICK s \in Nat \ {0} : s = Len(session) + 1
  BY Rows DEF TypeOK
<1>2. SessionAdded(NewSession(s, "ATTENTION_REQUIRED"))
  BY <1>1, StatusesAre, SessionAppend DEF Genesis
<1>3. reply' = [reply EXCEPT ![m] = [reply[m] EXCEPT !.session = s, !.at = "seed"]]
  BY <1>1 DEF Genesis
<1>4. [reply[m] EXCEPT !.session = s, !.at = "seed"] \in Reply
  BY ReplyRows DEF Reply
<1> QED BY <1>1, <1>2, <1>3, <1>4 DEF ReplyUpdates

LEMMA SeedTurnUpdates ==
  ASSUME TypeOK, NEW m \in Messages, SeedTurn(m)
  PROVE  /\ TurnAdded([session |-> reply[m].session, number |-> 1, status |-> "ACTIVE"])
         /\ ReplyUpdates(m, [reply[m] EXCEPT !.at = "inject"])
<1>1. [session |-> reply[m].session, number |-> 1, status |-> "ACTIVE"] \in Turn
  BY ReplyRows DEF Turn, Reply
<1>2. [reply[m] EXCEPT !.at = "inject"] \in Reply
  BY ReplyRows DEF Reply
<1> QED BY <1>1, <1>2, TurnAppend DEF SeedTurn, ReplyUpdates

LEMMA InjectUpdates ==
  ASSUME TypeOK, NEW m \in Messages, Inject(m), reply[m].session \in Sessions
  PROVE  LET s == reply[m].session
             queue == Append(reply[m].queue, m) IN
         \/ /\ reply[m].status = "ATTENTION_REQUIRED"
            /\ SessionBecomes(s, [session[s] EXCEPT !.queue = queue, !.status = "ACTIVE"])
            /\ ReplyUpdates(m, [reply[m] EXCEPT !.queue = <<>>, !.at = "fire"])
         \/ /\ reply[m].status # "ATTENTION_REQUIRED"
            /\ SessionBecomes(s, [session[s] EXCEPT !.queue = queue])
            /\ ReplyUpdates(m, Blank("sent"))
<1> DEFINE s == reply[m].session
<1>1. PICK queue \in Seq(Messages) : queue = Append(reply[m].queue, m)
  BY ReplyRows, AppendProperties DEF Reply
<1>2. CASE reply[m].status = "ATTENTION_REQUIRED"
  <2>1. [session[s] EXCEPT !.queue = queue, !.status = "ACTIVE"] \in Session
    BY SessionRows, StatusesAre DEF Session
  <2>2. session' = [session EXCEPT ![s] = [session[s] EXCEPT !.queue = queue, !.status = "ACTIVE"]]
    BY <1>1, <1>2 DEF Inject
  <2>3. SessionBecomes(s, [session[s] EXCEPT !.queue = queue, !.status = "ACTIVE"])
    BY <2>1, <2>2, SessionUpdate
  <2>4. [reply[m] EXCEPT !.queue = <<>>, !.at = "fire"] \in Reply
    BY ReplyRows, EmptySeq DEF Reply
  <2> QED BY <1>1, <1>2, <2>3, <2>4 DEF Inject, ReplyUpdates
<1>3. CASE reply[m].status # "ATTENTION_REQUIRED"
  <2>1. [session[s] EXCEPT !.queue = queue] \in Session
    BY SessionRows DEF Session
  <2>2. session' = [session EXCEPT ![s] = [session[s] EXCEPT !.queue = queue]]
    BY <1>1, <1>3 DEF Inject
  <2>3. SessionBecomes(s, [session[s] EXCEPT !.queue = queue])
    BY <2>1, <2>2, SessionUpdate
  <2> QED BY <1>1, <1>3, <2>3, BlankIsReply DEF Inject, ReplyUpdates
<1> QED BY <1>2, <1>3

LEMMA ReplyUpdate ==
  ASSUME TypeOK, NEW m \in Messages, NEW row, ReplyUpdates(m, row)
  PROVE  /\ reply' \in [Messages -> Reply] /\ reply'[m] = row
         /\ \A n \in Messages \ {m} : reply'[n] = reply[n]
BY DEF ReplyUpdates, TypeOK

LEMMA ReplyStepKeepsReferences ==
  ASSUME TypeOK, ReferencesHold, NEW m \in Messages, ReplyStep(m)
  PROVE  TypeOK' /\ ReferencesHold'
<1>0. UNCHANGED <<halted, ops, disturbed>>
  BY DEF ReplyStep, Genesis, SeedTurn, Inject, FireSpike
<1>1. /\ SessionsGrow /\ TurnsGrow /\ loop' \in Seq(Loop)
      /\ \A k \in Loops : loop'[k] = loop[k]
      /\ \A k \in Loops' \ Loops : LoopRefers(k)'
      /\ \E row : /\ ReplyUpdates(m, row) /\ row.at \in {"seed", "inject", "fire", "sent"}
                  /\ row.at # "sent" => row.session \in Sessions'
  <2>1. CASE Genesis(m)
    <3>1. PICK s \in Nat \ {0} :
           /\ s = Len(session) + 1
           /\ SessionAdded(NewSession(s, "ATTENTION_REQUIRED"))
           /\ ReplyUpdates(m, [reply[m] EXCEPT !.session = s, !.at = "seed"])
      BY <2>1, GenesisUpdates
    <3>2. NewSession(s, "ATTENTION_REQUIRED").spike = s
      BY DEF NewSession
    <3>3. SessionsGrow
      BY <3>1, <3>2 DEF SessionAdded, SessionsGrow, ReferencesHold
    <3>4. TurnsGrow /\ loop' = loop
      BY <2>1, <3>3, SameTurns DEF Genesis
    <3>5. PICK row : row = [reply[m] EXCEPT !.session = s, !.at = "seed"]
      OBVIOUS
    <3>6. row.session \in Sessions' /\ row.at = "seed"
      BY <3>1, <3>5, ReplyRows DEF SessionAdded, Reply
    <3>7. ReplyUpdates(m, row)
      BY <3>1, <3>5
    <3> QED BY <3>3, <3>4, <3>6, <3>7 DEF TypeOK, Loops
  <2>2. CASE SeedTurn(m)
    <3>1. SessionsGrow /\ Sessions' = Sessions /\ loop' = loop
      BY <2>2, SameSessions DEF SeedTurn, Sessions
    <3>2. /\ TurnAdded([session |-> reply[m].session, number |-> 1, status |-> "ACTIVE"])
          /\ ReplyUpdates(m, [reply[m] EXCEPT !.at = "inject"])
      BY <2>2, SeedTurnUpdates
    <3>3. reply[m].session \in Sessions /\ [reply[m] EXCEPT !.at = "inject"].session = reply[m].session
      BY <2>2, ReplyRows DEF SeedTurn, ReferencesHold, ReplyRefers, Reply
    <3>4. TurnsGrow
      BY <3>1, <3>2, <3>3 DEF TurnAdded, TurnsGrow, ReferencesHold
    <3>5. PICK row : row = [reply[m] EXCEPT !.at = "inject"]
      OBVIOUS
    <3>6. ReplyUpdates(m, row) /\ row.session \in Sessions' /\ row.at = "inject"
      BY <3>1, <3>2, <3>3, <3>5, ReplyRows DEF Reply
    <3> QED BY <3>1, <3>4, <3>6 DEF TypeOK, Loops
  <2>3. CASE Inject(m)
    <3> DEFINE s == reply[m].session
    <3>1. s \in Sessions /\ loop' = loop
      BY <2>3 DEF Inject, ReferencesHold, ReplyRefers
    <3>2. PICK queue \in Seq(Messages) : queue = Append(reply[m].queue, m)
      BY ReplyRows, AppendProperties DEF Reply
    <3>3. CASE /\ SessionBecomes(s, [session[s] EXCEPT !.queue = queue, !.status = "ACTIVE"])
               /\ ReplyUpdates(m, [reply[m] EXCEPT !.queue = <<>>, !.at = "fire"])
      <4>1. PICK row : row = [session[s] EXCEPT !.queue = queue, !.status = "ACTIVE"]
        OBVIOUS
      <4>2. row.spike = session[s].spike
        <5>1. PICK old \in Session : old = session[s]
          BY <3>1, SessionRows
        <5>2. row = [old EXCEPT !.queue = queue, !.status = "ACTIVE"]
          BY <4>1, <5>1
        <5> QED BY <5>1, <5>2 DEF Session
      <4>7. SessionBecomes(s, row)
        BY <3>3, <4>1
      <4>6. SessionsGrow /\ Sessions' = Sessions
        BY ZenonT(40), <4>2, <4>7, UpdatedSessions DEF SessionBecomes
      <4>3. TurnsGrow
        BY <2>3, <4>6, SameTurns DEF Inject
      <4>4. PICK new : new = [reply[m] EXCEPT !.queue = <<>>, !.at = "fire"]
        OBVIOUS
      <4>5. ReplyUpdates(m, new) /\ new.session = s /\ new.at = "fire"
        BY <3>3, <4>4, ReplyRows, EmptySeq DEF Reply
      <4> QED BY <3>1, <4>6, <4>3, <4>5 DEF TypeOK, Loops
    <3>4. CASE /\ SessionBecomes(s, [session[s] EXCEPT !.queue = queue])
               /\ ReplyUpdates(m, Blank("sent"))
      <4>1. SessionsGrow /\ Sessions' = Sessions
        BY <3>1, <3>4, SessionRows DEF SessionBecomes, SessionsGrow, ReferencesHold, Session
      <4>2. TurnsGrow
        BY <2>3, <4>1, SameTurns DEF Inject
      <4>3. Blank("sent").at = "sent"
        BY DEF Blank
      <4> QED BY <3>1, <3>4, <4>1, <4>2, <4>3 DEF TypeOK, Loops
    <3> QED BY <2>3, <3>1, <3>2, <3>3, <3>4, InjectUpdates
  <2>4. CASE FireSpike(m)
    <3>1. reply[m].session \in Sessions
      BY <2>4 DEF FireSpike, ReferencesHold, ReplyRefers
    <3>2. SessionsGrow /\ TurnsGrow
      BY <2>4, SameSessions, SameTurns DEF FireSpike
    <3>3. /\ loop' \in Seq(Loop)
          /\ \A k \in Loops' \ Loops : LoopRefers(k)'
          /\ \A k \in Loops : loop'[k] = loop[k]
      BY <2>4, <3>1, AddedLoopRefers DEF FireSpike
    <3>4. ReplyUpdates(m, Blank("sent")) /\ Blank("sent").at = "sent"
      BY <2>4, BlankIsReply DEF FireSpike, ReplyUpdates, Blank
    <3> QED BY <3>2, <3>3, <3>4
  <2> QED BY <2>1, <2>2, <2>3, <2>4 DEF ReplyStep
<1>2. PICK row : /\ ReplyUpdates(m, row) /\ row.at \in {"seed", "inject", "fire", "sent"}
                 /\ row.at # "sent" => row.session \in Sessions'
  BY <1>1
<1>3. /\ reply' \in [Messages -> Reply] /\ reply'[m] = row
      /\ \A n \in Messages \ {m} : reply'[n] = reply[n]
  BY <1>2, ReplyUpdate
<1>4. \A n \in Messages : ReplyRefers(n)'
  <2>1. ReplyRefers(m)'
    BY <1>2, <1>3 DEF ReplyRefers
  <2>2. \A n \in Messages \ {m} : ReplyRefers(n)'
    BY <1>1, <1>3, OtherRepliesRefer
  <2> QED BY <2>1, <2>2
<1>5. \A k \in Loops' : LoopRefers(k)'
  BY <1>1, OtherLoopsRefer
<1> QED BY <1>0, <1>1, <1>3, <1>4, <1>5, GrowthRefers
        DEF TypeOK, ReferencesHold, SessionsGrow, TurnsGrow

LEMMA CrashUpdates ==
  ASSUME TypeOK, NEW l \in Loops, Crash(l)
  PROVE  Updates(l, [loop[l] EXCEPT !.queue = <<>>, !.turn = 0, !.number = 0, !.at = "dead"])
BY LoopRows, EmptySeq DEF Crash, Updates, Loop

LEMMA InterventionKeepsReferences ==
  ASSUME TypeOK, ReferencesHold, Intervention
  PROVE  TypeOK' /\ ReferencesHold'
<1>1. /\ ops' = ops + 1 /\ turns' = turns /\ reply' = reply
      /\ disturbed' \in BOOLEAN /\ halted' \subseteq Nat
  <2>1. \A s \in Sessions : session[s].spike \in Nat
    BY SessionRows DEF Session
  <2> QED BY <2>1 DEF Intervention, Clear, Pause, Stop, Rerun, Crash, Intervene, Disturbs, TypeOK
<1>2. /\ SessionsGrow /\ loop' \in Seq(Loop)
      /\ \A k \in Loops' \ Loops : LoopRefers(k)'
      /\ \A k \in Loops : loop'[k] = loop[k] \/ LoopRefers(k)'
  <2>1. ASSUME NEW s \in Sessions, Clear(s) \/ Pause(s) PROVE <1>2
    <3>1. SessionsGrow /\ loop' = loop
      BY <2>1, StatusGrows, StatusesAre DEF Clear, Pause
    <3> QED BY <3>1 DEF TypeOK, Loops
  <2>2. ASSUME NEW s \in Sessions, Stop(s) PROVE <1>2
    BY <2>2, SameSessions DEF Stop, TypeOK, Loops
  <2>3. ASSUME NEW s \in Sessions, Rerun(s) PROVE <1>2
    BY <2>3, SameSessions, AddedLoopRefers DEF Rerun
  <2>4. ASSUME NEW l \in Loops, Crash(l) PROVE <1>2
    <3> DEFINE row == [loop[l] EXCEPT !.queue = <<>>, !.turn = 0, !.number = 0, !.at = "dead"]
    <3>1. Updates(l, row)
      BY <2>4, CrashUpdates
    <3>2. row.at = "dead" /\ row.spike = loop[l].spike /\ row.session = loop[l].session
      BY LoopRows DEF Loop
    <3> HIDE DEF row
    <3>3. /\ loop' \in Seq(Loop) /\ Loops' = Loops
          /\ loop'[l] = row /\ \A k \in Loops \ {l} : loop'[k] = loop[k]
      BY <3>1, UpdatesOneRow
    <3>4. LoopRefers(l)' /\ SessionsGrow
      BY <2>4, <3>2, <3>3, SameSessions
         DEF Crash, ReferencesHold, LoopRefers, Inside, Risky, WithTurn, SessionsGrow
    <3> QED BY <3>3, <3>4
  <2> QED BY <2>1, <2>2, <2>3, <2>4 DEF Intervention
<1>3. TurnsGrow
  BY <1>1, <1>2, SameTurns
<1>4. \A k \in Loops' : LoopRefers(k)'
  BY <1>2, <1>3, OtherLoopsRefer
<1>5. \A n \in Messages : ReplyRefers(n)'
  BY <1>1, <1>2, OtherRepliesRefer
<1> QED BY <1>1, <1>2, <1>3, <1>4, <1>5, GrowthRefers
        DEF TypeOK, ReferencesHold, SessionsGrow, TurnsGrow

LEMMA InitKeepsReferences == Init => TypeOK /\ ReferencesHold
<1>1. ASSUME Init PROVE TypeOK
  BY <1>1, EmptySeq, BlankIsReply DEF Init, TypeOK
<1>2. ASSUME Init PROVE ReferencesHold
  <2>1. Sessions = {} /\ Loops = {} /\ DOMAIN turns = {}
    BY <1>2 DEF Init, Sessions, Loops
  <2> QED BY <1>2, <2>1 DEF Init, ReferencesHold, ReplyRefers, Blank
<1> QED BY <1>1, <1>2

LEMMA NextKeepsReferences ==
  ASSUME TypeOK, ReferencesHold, [Next]_vars
  PROVE  TypeOK' /\ ReferencesHold'
<1>1. CASE UNCHANGED vars
  BY <1>1 DEF vars, TypeOK, ReferencesHold, LoopRefers, ReplyRefers, Sessions, Loops
<1>2. CASE Next
  BY <1>1, <1>2, LoopStepTypeOK, LoopStepRefers, EntersKeepReferences, ReplyStepKeepsReferences,
     InterventionKeepsReferences DEF Next, Rest
<1> QED BY <1>1, <1>2

(* Types are preserved, and every row that is referred to exists.           *)
THEOREM TypeCorrect == Spec => [](TypeOK /\ ReferencesHold)
BY InitKeepsReferences, NextKeepsReferences, PTL DEF Spec
LEMMA InjectRows ==
  ASSUME TypeOK, NEW m \in Messages, Inject(m), NEW s \in Sessions, s = reply[m].session
  PROVE  \E row :
    /\ SessionBecomes(s, row) /\ row.spike = session[s].spike
    /\ row.queue = Append(reply[m].queue, m) /\ row.heard = session[s].heard
    /\ \/ /\ reply[m].status = "ATTENTION_REQUIRED" /\ row.status = "ACTIVE"
          /\ reply'[m].at = "fire" /\ reply'[m].session = s
       \/ /\ reply[m].status # "ATTENTION_REQUIRED" /\ row.status = session[s].status
          /\ reply'[m].at = "sent"
<1>1. PICK queue \in Seq(Messages) : queue = Append(reply[m].queue, m)
  BY ReplyRows, AppendProperties DEF Reply
<1>2. PICK old \in Session : old = session[s]
  BY SessionRows
<1>3. CASE reply[m].status = "ATTENTION_REQUIRED"
  <2>1. PICK row : row = [old EXCEPT !.queue = queue, !.status = "ACTIVE"]
    OBVIOUS
  <2>2. /\ row.spike = old.spike /\ row.heard = old.heard
        /\ row.queue = queue /\ row.status = "ACTIVE"
    BY <2>1 DEF Session
  <2>3. SessionBecomes(s, row)
    BY <1>1, <1>2, <1>3, <2>1, InjectUpdates
  <2>4. reply'[m].at = "fire" /\ reply'[m].session = s
    <3>1. reply' = [reply EXCEPT ![m] = [reply[m] EXCEPT !.queue = <<>>, !.at = "fire"]]
      BY <1>3 DEF Inject
    <3>2. reply'[m] = [reply[m] EXCEPT !.queue = <<>>, !.at = "fire"]
      BY <3>1 DEF TypeOK
    <3> QED BY <3>2, ReplyRows DEF Reply
  <2> QED BY <1>1, <1>2, <1>3, <2>2, <2>3, <2>4
<1>4. CASE reply[m].status # "ATTENTION_REQUIRED"
  <2>1. PICK row : row = [old EXCEPT !.queue = queue]
    OBVIOUS
  <2>2. /\ row.spike = old.spike /\ row.heard = old.heard
        /\ row.queue = queue /\ row.status = old.status
    BY <2>1 DEF Session
  <2>3. SessionBecomes(s, row)
    BY <1>1, <1>2, <1>4, <2>1, InjectUpdates
  <2>4. reply'[m].at = "sent"
    BY <1>4 DEF Inject, TypeOK, Blank
  <2> QED BY <1>1, <1>2, <1>4, <2>2, <2>3, <2>4
<1> QED BY <1>3, <1>4

-----------------------------------------------------------------------------
(* The budget of turns. *)

Checked == {"signal", "turn", "create"}

LoopsOf(s)    == {l \in Loops : loop[l].session = s}
CheckedFor(s) == {l \in LoopsOf(s) : loop[l].at \in Checked}
SeedsFor(s)   == {m \in Messages : reply[m].at = "seed" /\ reply[m].session = s}

(* A loop that has looked at the budget may still add a turn, and so may a *)
(* request that has opened a session: once the budget is spent, the turns  *)
(* there are and the turns to come are one for each loop above it.         *)
Budget(s) ==
  /\ Cardinality(SeedsFor(s)) <= 1
  /\ Cardinality(TurnsOf(s)) >= MaxTurns =>
       Cardinality(TurnsOf(s)) + Cardinality(CheckedFor(s)) + Cardinality(SeedsFor(s))
         <= MaxTurns + Cardinality(LoopsOf(s))

BudgetHolds == \A s \in Sessions : Budget(s)

LEMMA FiniteBudget ==
  ASSUME TypeOK, NEW s
  PROVE  /\ IsFiniteSet(TurnsOf(s)) /\ Cardinality(TurnsOf(s)) \in Nat
         /\ IsFiniteSet(LoopsOf(s)) /\ Cardinality(LoopsOf(s)) \in Nat
         /\ IsFiniteSet(CheckedFor(s)) /\ Cardinality(CheckedFor(s)) \in Nat
         /\ IsFiniteSet(SeedsFor(s)) /\ Cardinality(SeedsFor(s)) \in Nat
         /\ Cardinality(CheckedFor(s)) <= Cardinality(LoopsOf(s))
<1>1. IsFiniteSet(LoopsOf(s)) /\ IsFiniteSet(CheckedFor(s))
  <2>1. LoopsOf(s) \in SUBSET DOMAIN loop /\ CheckedFor(s) \in SUBSET DOMAIN loop
    BY DEF LoopsOf, CheckedFor, Loops
  <2>2. loop \in Seq(Loop)
    BY DEF TypeOK
  <2>3. IsFiniteSet(LoopsOf(s))
    BY <2>1, <2>2, FiniteRows
  <2>4. IsFiniteSet(CheckedFor(s))
    BY <2>1, <2>2, FiniteRows
  <2> QED BY <2>3, <2>4
<1>2. IsFiniteSet(SeedsFor(s))
  <2>1. IsFiniteSet(1..MaxMessages)
    BY FS_Interval, SessionAssumption
  <2>2. SeedsFor(s) \in SUBSET (1..MaxMessages)
    BY DEF SeedsFor, Messages
  <2> QED BY <2>1, <2>2, FS_Subset
<1>3. Cardinality(CheckedFor(s)) <= Cardinality(LoopsOf(s))
  BY <1>1, FS_Subset DEF CheckedFor
<1> QED BY <1>1, <1>2, <1>3, FS_CardinalityType, TurnsOfFinite

LEMMA BudgetShrinks ==
  ASSUME TypeOK, TypeOK', NEW s, Budget(s),
         TurnsOf(s)' = TurnsOf(s), LoopsOf(s) \subseteq LoopsOf(s)',
         SeedsFor(s)' \subseteq SeedsFor(s),
         \/ CheckedFor(s)' \subseteq CheckedFor(s)
         \/ Cardinality(TurnsOf(s)) < MaxTurns
  PROVE  Budget(s)'
<1>1. /\ IsFiniteSet(LoopsOf(s)') /\ Cardinality(LoopsOf(s)') \in Nat
      /\ Cardinality(CheckedFor(s)') \in Nat /\ Cardinality(SeedsFor(s)') \in Nat
  <2>1. LoopsOf(s)' \in SUBSET DOMAIN loop' /\ CheckedFor(s)' \in SUBSET DOMAIN loop'
    BY DEF LoopsOf, CheckedFor, Loops
  <2>2. IsFiniteSet(SeedsFor(s)')
    BY FiniteBudget, FS_Subset
  <2> QED BY <2>1, <2>2, FiniteRows, FS_CardinalityType DEF TypeOK
<1>2. /\ Cardinality(LoopsOf(s)) <= Cardinality(LoopsOf(s)')
      /\ Cardinality(SeedsFor(s)') <= Cardinality(SeedsFor(s))
  BY <1>1, FiniteBudget, FS_Subset
<1>3. \/ Cardinality(CheckedFor(s)') <= Cardinality(CheckedFor(s))
      \/ Cardinality(TurnsOf(s)) < MaxTurns
  BY FiniteBudget, FS_Subset
<1> HIDE DEF LoopsOf, CheckedFor, SeedsFor
<1> QED BY <1>1, <1>2, <1>3, FiniteBudget, SessionAssumption DEF Budget

(* A turn is added by one that was to come.                                *)
LEMMA BudgetUsed ==
  ASSUME TypeOK, TypeOK', NEW s, Budget(s), NEW t, t \notin TurnsOf(s),
         TurnsOf(s)' = TurnsOf(s) \cup {t}, LoopsOf(s)' = LoopsOf(s),
         \/ /\ SeedsFor(s)' = SeedsFor(s)
            /\ \E l \in CheckedFor(s) : CheckedFor(s)' = CheckedFor(s) \ {l}
         \/ /\ CheckedFor(s)' = CheckedFor(s)
            /\ \E m \in SeedsFor(s) : SeedsFor(s)' = SeedsFor(s) \ {m}
  PROVE  Budget(s)'
<1>1. Cardinality(TurnsOf(s)') = Cardinality(TurnsOf(s)) + 1
  BY FiniteBudget, FS_AddElement
<1>2. \/ /\ Cardinality(SeedsFor(s)') = Cardinality(SeedsFor(s))
         /\ Cardinality(CheckedFor(s)') = Cardinality(CheckedFor(s)) - 1
      \/ /\ Cardinality(CheckedFor(s)') = Cardinality(CheckedFor(s))
         /\ Cardinality(SeedsFor(s)') = Cardinality(SeedsFor(s)) - 1
  BY FiniteBudget, FS_RemoveElement
<1>3. Cardinality(LoopsOf(s)') = Cardinality(LoopsOf(s))
  OBVIOUS
<1> QED BY <1>1, <1>2, <1>3, FiniteBudget, SessionAssumption DEF Budget

LEMMA AddedTurn ==
  ASSUME TypeOK, NEW row, TurnAdded(row)
  PROVE  /\ \E t : /\ t \notin TurnsOf(row.session)
                    /\ TurnsOf(row.session)' = TurnsOf(row.session) \cup {t}
         /\ \A r : r # row.session => TurnsOf(r)' = TurnsOf(r)
<1>1. PICK t : t = Len(turns) + 1
  OBVIOUS
<1>2. /\ DOMAIN turns' = DOMAIN turns \cup {t} /\ t \notin DOMAIN turns /\ turns'[t] = row
      /\ \A u \in DOMAIN turns : turns'[u] = turns[u]
  BY <1>1 DEF TurnAdded
<1> QED BY <1>2 DEF TurnsOf

LEMMA LoopFunction == ASSUME TypeOK PROVE loop \in [Loops -> Loop]
BY LenProperties DEF TypeOK, Loops

(* Where a loop enters and leaves the part of a pass in which a turn may be added. *)
LEMMA LoopStepMoves ==
  ASSUME TypeOK, NEW l \in Loops, LoopStep(l)
  PROVE  /\ UNCHANGED users
         /\ loop'[l].session = loop[l].session \/ loop[l].at = "load"
         /\ \/ loop'[l].at \notin Checked
            \/ loop[l].at \in Checked
            \/ /\ Cardinality(TurnsOf(loop[l].session)) < MaxTurns
               /\ loop'[l].session = loop[l].session
         /\ CreateTurn(l) \/ \A s : TurnsOf(s)' = TurnsOf(s)
<1>0. loop \in [Loops -> Loop]
  BY LoopFunction
<1>00. \A s : BudgetSpent(s) \/ Cardinality(TurnsOf(s)) < MaxTurns
  BY TurnsOfFinite, SessionAssumption DEF BudgetSpent
<1> USE DEF users, TurnsOf, Checked
<1>1. CASE LoadSession(l)
  BY <1>0, <1>1 DEF LoadSession, Loop
<1>2. CASE CreateSession(l)
  <2>1. PICK n : n = Len(session) + 1
    OBVIOUS
  <2> QED BY <1>0, <1>2, <2>1 DEF CreateSession, Loop
<1>3. CASE CheckTurns(l)
  BY <1>0, <1>00, <1>3 DEF CheckTurns, Go, Loop
<1>4. CASE FindTurn(l)
  BY <1>0, <1>4 DEF FindTurn, Loop
<1>5. CASE CreateTurn(l)
  <2>1. PICK n : n = Len(turns) + 1
    OBVIOUS
  <2>2. loop' = [loop EXCEPT ![l] = [loop[l] EXCEPT !.turn = n, !.number = 0, !.at = "prompt"]]
    BY <1>5, <2>1 DEF CreateTurn
  <2> QED BY <1>0, <1>5, <2>2 DEF CreateTurn, Loop
<1>6. CASE BuildPrompt(l)
  BY <1>0, <1>6 DEF BuildPrompt, Loop
<1>7. CASE Think(l) \/ FailTurn(l)
  <2>1. PICK st \in {"COMPLETED", "ERROR"} : turns' = [turns EXCEPT ![loop[l].turn].status = st]
    BY <1>7 DEF Think, FailTurn
  <2>2. /\ DOMAIN turns' = DOMAIN turns
        /\ \A u \in DOMAIN turns : turns'[u].session = turns[u].session
    BY <2>1, TurnUpdate
  <2>3. \E at \in {"tools", "sleep", "end"} :
          loop' = [loop EXCEPT ![l] = [loop[l] EXCEPT !.turn = 0, !.at = at]]
    BY <1>7 DEF Think, FailTurn
  <2>4. loop'[l].session = loop[l].session /\ loop'[l].at \notin Checked
    BY <1>0, <2>3 DEF Loop
  <2> QED BY <1>7, <2>2, <2>4 DEF Think, FailTurn
<1>8. CASE Fail(l) \/ WriteOutcome(l) \/ Done(l)
  BY ZenonT(40), <1>0, <1>8 DEF Fail, WriteOutcome, Done, Loop
<1>9. CASE Start(l) \/ Activate(l) \/ Paralysis(l)
  BY <1>0, <1>9 DEF Start, Activate, Paralysis, Go, Loop
<1>10. CASE Sleep(l) \/ AskUser(l) \/ Yield(l) \/ ToolsDone(l)
  BY <1>0, <1>10 DEF Sleep, AskUser, Yield, ToolsDone, Go, Loop
<1>11. CASE EndRun(l) \/ Complete(l) \/ SaveFailure(l) \/ CheckStop(l)
  BY <1>0, <1>11 DEF EndRun, Complete, SaveFailure, CheckStop, Go, Loop
<1> QED BY <1>1, <1>2, <1>3, <1>4, <1>5, <1>6, <1>7, <1>8, <1>9, <1>10, <1>11 DEF LoopStep

LEMMA LoopStepBudget ==
  ASSUME TypeOK, TypeOK', ReferencesHold, BudgetHolds, NEW l \in Loops, LoopStep(l)
  PROVE  BudgetHolds'
<1>1. PICK row : Updates(l, row)
  BY LoopStepUpdates
<1>2. Loops' = Loops /\ \A k \in Loops \ {l} : loop'[k] = loop[k]
  BY <1>1, UpdatesOneRow
<1>3. loop[l].at = "load" => loop[l].session = 0
  BY DEF ReferencesHold, LoopRefers
<1>4. 0 \notin Sessions
  BY SessionRows
<1>5. \A s : SeedsFor(s)' = SeedsFor(s)
  BY LoopStepMoves DEF SeedsFor, users
<1>6. \A s \in Sessions : LoopsOf(s) \subseteq LoopsOf(s)'
  BY <1>2, <1>3, <1>4, LoopStepMoves DEF LoopsOf
<1>7. \A s \in Sessions :
         CheckedFor(s)' \subseteq CheckedFor(s) \/ Cardinality(TurnsOf(s)) < MaxTurns
  <2>1. \A s \in Sessions : loop'[l].at \in Checked /\ loop'[l].session = s
          => \/ loop[l].at \in Checked /\ loop[l].session = s
             \/ Cardinality(TurnsOf(s)) < MaxTurns
    BY LoopStepMoves DEF Checked
  <2> QED BY <1>2, <2>1 DEF CheckedFor, LoopsOf
<1>8. CASE \A s : TurnsOf(s)' = TurnsOf(s)
  <2>1. \A s \in Sessions : Budget(s)'
    BY <1>5, <1>6, <1>7, <1>8, BudgetShrinks DEF BudgetHolds
  <2>2. ASSUME NEW s \in Sessions' \ Sessions PROVE Budget(s)'
    <3>1. TurnsOf(s)' = {}
      BY <1>8, <2>2 DEF ReferencesHold, TurnsOf
    <3>2. SeedsFor(s)' = {}
      BY <1>5, <2>2 DEF ReferencesHold, ReplyRefers, SeedsFor
    <3> QED BY <3>1, <3>2, FS_EmptySet, SessionAssumption DEF Budget
  <2> QED BY <2>1, <2>2 DEF BudgetHolds
<1>9. CASE CreateTurn(l)
  <2>0. PICK s : s = loop[l].session
    OBVIOUS
  <2>1. Sessions' = Sessions /\ s \in Sessions
    BY <1>9, <2>0 DEF CreateTurn, Sessions, ReferencesHold, LoopRefers, Inside, Risky
  <2>2. PICK t : /\ t \notin TurnsOf(s) /\ TurnsOf(s)' = TurnsOf(s) \cup {t}
                 /\ \A r : r # s => TurnsOf(r)' = TurnsOf(r)
    <3>1. PICK new : new = [session |-> s, number |-> loop[l].number, status |-> "ACTIVE"]
      OBVIOUS
    <3>2. new \in Turn /\ new.session = s
      BY <2>0, <3>1, LoopRows DEF Loop, Turn
    <3>3. TurnAdded(new)
      BY <1>9, <2>0, <3>1, <3>2, TurnAppend DEF CreateTurn
    <3> QED BY <3>2, <3>3, AddedTurn
  <2>4. loop'[l].at = "prompt" /\ loop'[l].session = s /\ loop[l].at = "create"
    <3>1. PICK n : n = Len(turns) + 1
      OBVIOUS
    <3>2. loop' = [loop EXCEPT ![l] = [loop[l] EXCEPT !.turn = n, !.number = 0, !.at = "prompt"]]
      BY <1>9, <3>1 DEF CreateTurn
    <3> QED BY <1>9, <2>0, <3>2, LoopFunction DEF CreateTurn, Loop
  <2>5. \A r \in Sessions : LoopsOf(r)' = LoopsOf(r)
    BY <1>2, <2>0, <2>4 DEF LoopsOf
  <2>6. l \in CheckedFor(s) /\ CheckedFor(s)' = CheckedFor(s) \ {l}
    BY <1>2, <2>0, <2>4 DEF CheckedFor, LoopsOf, Checked
  <2>7. Budget(s)'
    <3>1. Budget(s)
      BY <2>1 DEF BudgetHolds
    <3> QED BY <1>5, <2>1, <2>2, <2>5, <2>6, <3>1, BudgetUsed
  <2>8. \A r \in Sessions \ {s} : Budget(r)'
    BY <1>5, <1>6, <1>7, <2>2, BudgetShrinks DEF BudgetHolds
  <2> QED BY <2>1, <2>7, <2>8 DEF BudgetHolds
<1> QED BY <1>8, <1>9, LoopStepMoves

(* A request that enters or fires, and an intervention.                    *)
LEMMA IdleBudget ==
  ASSUME TypeOK, TypeOK', BudgetHolds, Sessions' = Sessions, turns' = turns,
         \A s : SeedsFor(s)' \subseteq SeedsFor(s),
         \A k \in Loops : /\ k \in Loops' /\ loop'[k].session = loop[k].session
                          /\ loop'[k].at \in Checked => loop[k].at \in Checked,
         \A k \in Loops' \ Loops : loop'[k].session = 0
  PROVE  BudgetHolds'
<1>1. \A s : TurnsOf(s)' = TurnsOf(s)
  BY DEF TurnsOf
<1>2. \A s \in Sessions : LoopsOf(s) \subseteq LoopsOf(s)'
  BY DEF LoopsOf
<1>3. \A s \in Sessions : CheckedFor(s)' \subseteq CheckedFor(s)
  BY SessionRows DEF CheckedFor, LoopsOf
<1> QED BY <1>1, <1>2, <1>3, BudgetShrinks DEF BudgetHolds

LEMMA ReplyStepBudget ==
  ASSUME TypeOK, TypeOK', ReferencesHold, BudgetHolds, NEW m \in Messages, ReplyStep(m)
  PROVE  BudgetHolds'
<1>1. CASE Genesis(m)
  <2>1. PICK s \in Nat \ {0} :
         /\ s = Len(session) + 1
         /\ SessionAdded(NewSession(s, "ATTENTION_REQUIRED"))
         /\ ReplyUpdates(m, [reply[m] EXCEPT !.session = s, !.at = "seed"])
    BY <1>1, GenesisUpdates
  <2>2. turns' = turns /\ loop' = loop /\ reply[m].at = "genesis"
    BY <1>1 DEF Genesis
  <2>3. /\ reply'[m].at = "seed" /\ reply'[m].session = s
        /\ \A n \in Messages \ {m} : reply'[n] = reply[n]
    <3>1. reply'[m] = [reply[m] EXCEPT !.session = s, !.at = "seed"]
      BY <2>1, ReplyUpdate
    <3>2. reply'[m].at = "seed" /\ reply'[m].session = s
      BY <3>1, ReplyRows DEF Reply
    <3> QED BY <2>1, <3>2, ReplyUpdate
  <2>4. \A r \in Sessions : SeedsFor(r)' = SeedsFor(r) /\ r # s
    BY <2>1, <2>2, <2>3 DEF SeedsFor, SessionAdded
  <2>5. \A r : TurnsOf(r)' = TurnsOf(r) /\ LoopsOf(r)' = LoopsOf(r) /\ CheckedFor(r)' = CheckedFor(r)
    BY <2>2 DEF TurnsOf, LoopsOf, CheckedFor, Loops
  <2>6. \A r \in Sessions : Budget(r)'
    BY <2>4, <2>5, BudgetShrinks DEF BudgetHolds
  <2>7. Budget(s)'
    <3>0. s \notin Sessions
      BY <2>1 DEF SessionAdded
    <3>1. TurnsOf(s)' = {}
      BY <2>2, <3>0 DEF TurnsOf, ReferencesHold
    <3>2. SeedsFor(s)' = {m}
      BY <2>3, <3>0 DEF SeedsFor, ReferencesHold, ReplyRefers
    <3>3. Cardinality(TurnsOf(s)') = 0 /\ Cardinality(SeedsFor(s)') = 1
      BY <3>1, <3>2, FS_EmptySet, FS_Singleton
    <3> QED BY <3>3, SessionAssumption DEF Budget
  <2> QED BY <2>1, <2>6, <2>7 DEF BudgetHolds, SessionAdded
<1>2. CASE SeedTurn(m)
  <2>0. PICK s : s = reply[m].session
    OBVIOUS
  <2>1. /\ TurnAdded([session |-> s, number |-> 1, status |-> "ACTIVE"])
        /\ ReplyUpdates(m, [reply[m] EXCEPT !.at = "inject"])
    BY <1>2, <2>0, SeedTurnUpdates
  <2>2. /\ session' = session /\ loop' = loop /\ reply[m].at = "seed" /\ s \in Sessions
        /\ Sessions' = Sessions
    BY <1>2, <2>0 DEF SeedTurn, ReferencesHold, ReplyRefers, Sessions
  <2>3. reply'[m].at = "inject" /\ \A n \in Messages \ {m} : reply'[n] = reply[n]
    <3>1. reply'[m] = [reply[m] EXCEPT !.at = "inject"]
      BY <2>1, ReplyUpdate
    <3> QED BY <2>1, <3>1, ReplyUpdate, ReplyRows DEF Reply
  <2>4. PICK t : /\ t \notin TurnsOf(s) /\ TurnsOf(s)' = TurnsOf(s) \cup {t}
                 /\ \A r : r # s => TurnsOf(r)' = TurnsOf(r)
    <3>1. PICK row : row = [session |-> s, number |-> 1, status |-> "ACTIVE"]
      OBVIOUS
    <3> QED BY <2>1, <3>1, AddedTurn
  <2>5. \A r : LoopsOf(r)' = LoopsOf(r) /\ CheckedFor(r)' = CheckedFor(r)
    BY <2>2 DEF LoopsOf, CheckedFor, Loops
  <2>6. /\ m \in SeedsFor(s) /\ SeedsFor(s)' = SeedsFor(s) \ {m}
        /\ \A r : SeedsFor(r)' \subseteq SeedsFor(r)
    BY <2>0, <2>2, <2>3 DEF SeedsFor
  <2>7. Budget(s)'
    <3>1. Budget(s)
      BY <2>2 DEF BudgetHolds
    <3> QED BY <2>4, <2>5, <2>6, <3>1, BudgetUsed
  <2>8. \A r \in Sessions \ {s} : Budget(r)'
    BY <2>4, <2>5, <2>6, BudgetShrinks DEF BudgetHolds
  <2> QED BY <2>2, <2>7, <2>8 DEF BudgetHolds
<1>3. CASE Inject(m)
  <2>1. reply[m].session \in Sessions /\ turns' = turns /\ loop' = loop
    BY <1>3 DEF Inject, ReferencesHold, ReplyRefers
  <2>2. Sessions' = Sessions
    BY <1>3, <2>1, InjectUpdates DEF SessionBecomes
  <2>3. reply'[m].at \in {"fire", "sent"} /\ \A n \in Messages \ {m} : reply'[n] = reply[n]
    <3>1. CASE reply' = [reply EXCEPT ![m] = [@ EXCEPT !.queue = <<>>, !.at = "fire"]]
      BY <3>1, ReplyRows DEF Reply, TypeOK
    <3>2. CASE reply' = [reply EXCEPT ![m] = Blank("sent")]
      BY <3>2 DEF Blank, TypeOK
    <3> QED BY <1>3, <3>1, <3>2 DEF Inject
  <2>4. \A s : SeedsFor(s)' \subseteq SeedsFor(s)
    BY <2>3 DEF SeedsFor
  <2> QED BY <2>1, <2>2, <2>4, IdleBudget DEF Loops
<1>4. CASE FireSpike(m)
  <2>1. reply[m].session \in Sessions /\ turns' = turns /\ session' = session
    BY <1>4 DEF FireSpike, ReferencesHold, ReplyRefers
  <2>2. LoopAdded(NewLoop(session[reply[m].session].spike))
    BY <1>4, <2>1, SessionRows, LoopAppend DEF FireSpike, Session
  <2>3. reply'[m].at = "sent" /\ \A n \in Messages \ {m} : reply'[n] = reply[n]
    BY <1>4 DEF FireSpike, Blank, TypeOK
  <2>4. \A s : SeedsFor(s)' \subseteq SeedsFor(s)
    BY <2>3 DEF SeedsFor
  <2>5. \A k \in Loops' \ Loops : loop'[k].session = 0
    BY <2>2 DEF LoopAdded, NewLoop
  <2> QED BY <2>1, <2>2, <2>4, <2>5, IdleBudget DEF LoopAdded, Sessions
<1> QED BY <1>1, <1>2, <1>3, <1>4 DEF ReplyStep

LEMMA NextBudget ==
  ASSUME TypeOK, TypeOK', ReferencesHold, BudgetHolds, [Next]_vars
  PROVE  BudgetHolds'
<1>1. ASSUME NEW m \in Messages, Interact(m) \/ Resume(m) PROVE BudgetHolds'
  <2>1. UNCHANGED <<session, turns, loop>>
    BY <1>1 DEF Interact, Resume
  <2>2. /\ reply[m].at = "new" /\ reply'[m].at # "seed"
        /\ \A n \in Messages \ {m} : reply'[n] = reply[n]
    <3>1. reply[m].at = "new"
      BY <1>1 DEF Interact, Resume, IsNext
    <3>2. PICK row \in Reply : ReplyUpdates(m, row) /\ row.at \in {"genesis", "inject"}
      BY <1>1, EntersUpdates, ReplyRows DEF ReplyUpdates, Reply, View
    <3> QED BY <3>1, <3>2, ReplyUpdate
  <2>3. \A s : SeedsFor(s)' \subseteq SeedsFor(s)
    BY <2>2 DEF SeedsFor
  <2> QED BY <2>1, <2>3, IdleBudget DEF Sessions, Loops
<1>2. CASE Intervention
  <2>1. turns' = turns /\ reply' = reply
    BY <1>2 DEF Intervention, Clear, Pause, Stop, Rerun, Crash
  <2>2. \A s : SeedsFor(s)' = SeedsFor(s)
    BY <2>1 DEF SeedsFor
  <2>3. ASSUME NEW s \in Sessions, Clear(s) \/ Pause(s) PROVE BudgetHolds'
    <3>1. Sessions' = Sessions /\ loop' = loop
      BY <2>3, StatusUpdate, StatusesAre DEF Clear, Pause, SessionBecomes
    <3> QED BY <2>1, <2>2, <3>1, IdleBudget DEF Loops
  <2>4. ASSUME NEW s \in Sessions, Stop(s) PROVE BudgetHolds'
    BY <2>1, <2>2, <2>4, IdleBudget DEF Stop, Loops, Sessions
  <2>5. ASSUME NEW s \in Sessions, Rerun(s) PROVE BudgetHolds'
    <3>1. LoopAdded(NewLoop(session[s].spike)) /\ session' = session
      BY <2>5, SessionRows, LoopAppend DEF Rerun, Session
    <3>2. \A k \in Loops' \ Loops : loop'[k].session = 0
      BY <3>1 DEF LoopAdded, NewLoop
    <3> QED BY <2>1, <2>2, <3>1, <3>2, IdleBudget DEF LoopAdded, Sessions
  <2>6. ASSUME NEW l \in Loops, Crash(l) PROVE BudgetHolds'
    <3>1. /\ Loops' = Loops /\ session' = session
          /\ \A k \in Loops \ {l} : loop'[k] = loop[k]
          /\ loop'[l] = [loop[l] EXCEPT !.queue = <<>>, !.turn = 0, !.number = 0, !.at = "dead"]
      BY <2>6, CrashUpdates, UpdatesOneRow DEF Crash
    <3>2. loop'[l].at = "dead" /\ loop'[l].session = loop[l].session
      BY <3>1, LoopRows DEF Loop
    <3> QED BY <2>1, <2>2, <3>1, <3>2, IdleBudget DEF Sessions, Checked
  <2> QED BY <1>2, <2>3, <2>4, <2>5, <2>6 DEF Intervention
<1>3. CASE UNCHANGED vars
  BY <1>3, IdleBudget DEF vars, SeedsFor, Sessions, Loops
<1> QED BY <1>1, <1>2, <1>3, LoopStepBudget, ReplyStepBudget DEF Next, Rest

LEMMA InitBudget == Init => BudgetHolds
BY DEF Init, BudgetHolds, Sessions

-----------------------------------------------------------------------------
(* The conversation, as long as nobody disturbs it. *)

Live   == {l \in Loops : loop[l].at \notin {"over", "dead"}}
Waking == {"queued", "load"}
AtWork == {"check", "signal", "turn", "create", "prompt", "think", "yield", "sleep", "complete"}

(* There is one task, or one request that will queue one.                  *)
Alone ==
  /\ \A l, k \in Live : l = k
  /\ \A m, n \in Messages : Delivering(m) /\ Delivering(n) => m = n
  /\ \A m \in Messages : Delivering(m) => Live = {}

OneAwake ==
  \A s, r \in Sessions :
    /\ session[s].spike = session[r].spike
    /\ session[s].status \in Awake /\ session[r].status \in Awake
    => s = r

Calm(s) ==
  /\ session[s].status # "ACTIVE"
  /\ session[s].status = "ATTENTION_REQUIRED" => session[s].queue = <<>>

Served(s) ==
  \/ \E l \in Live : \/ loop[l].at \in Waking /\ loop[l].spike = session[s].spike
                     \/ loop[l].at \notin Waking /\ loop[l].session = s
  \/ \E m \in Messages : reply[m].at = "fire" /\ reply[m].session = s

(* What the loop remembers of the row is what is in the row.               *)
LoopHolds(l) ==
  LET row == session[loop[l].session] IN
  /\ row.queue = loop[l].queue
  /\ loop[l].at \in AtWork => row.status = "ACTIVE"
  /\ loop[l].at = "activate" => row.status = "ATTENTION_REQUIRED"
  /\ loop[l].at = "outcome" => row.status # "ACTIVE"
  /\ loop[l].at # "activate" /\ row.status = "ATTENTION_REQUIRED" => row.queue = <<>>
  /\ loop[l].at \in {"think", "tools", "yield", "sleep", "paralysed"} => row.queue = <<>>
  /\ loop[l].at \in Checked => Cardinality(TurnsOf(loop[l].session)) < MaxTurns

ReplyHolds(m) ==
  /\ reply[m].at = "seed" => TurnsOf(reply[m].session) = {}
  /\ reply[m].at \in {"seed", "inject"} =>
       /\ reply[m].queue = session[reply[m].session].queue
       /\ reply[m].status = session[reply[m].session].status
  /\ reply[m].at = "fire" => session[reply[m].session].status = "ACTIVE"

TalkHolds ==
  ~disturbed =>
    /\ Alone /\ OneAwake
    /\ \A s \in Sessions : Cardinality(TurnsOf(s)) <= MaxTurns /\ (Served(s) \/ Calm(s))
    /\ \A l \in Live : loop[l].at \in Waking \/ LoopHolds(l)
    /\ \A m \in Messages : ReplyHolds(m)

(* A row that stays in its stage or is closed, and one whose queue is taken. *)
Kept(s) ==
  /\ session'[s].heard = session[s].heard
  /\ session'[s].status \in Awake =>
       session[s].status \in Awake /\ session'[s].queue = session[s].queue

Taken(s) ==
  /\ session[s].status \in Awake /\ session'[s].status = session[s].status
  /\ session'[s].heard = session[s].heard \o session[s].queue
  /\ session'[s].queue = <<>>

(* What a task does that works on its session.                             *)
Effect(l, s) ==
  /\ Sessions' = Sessions
  /\ \A r \in Sessions \ {s} : session'[r] = session[r]
  /\ session'[s].spike = session[s].spike
  /\ Kept(s) \/ Taken(s)
  /\ \A r : r # s => TurnsOf(r)' = TurnsOf(r)
  /\ Cardinality(TurnsOf(s)') <= MaxTurns
  /\ loop'[l].session = s
  /\ \/ loop'[l].at = "over" /\ Calm(s)'
     \/ loop'[l].at \in Inside /\ LoopHolds(l)'

LEMMA WriteRow ==
  ASSUME TypeOK, NEW s \in Sessions, NEW st \in Statuses, SetStatus(s, st)
  PROVE  /\ Sessions' = Sessions
         /\ \A r \in Sessions \ {s} : session'[r] = session[r]
         /\ session'[s].status = st /\ session'[s].queue = session[s].queue
         /\ session'[s].heard = session[s].heard /\ session'[s].spike = session[s].spike
<1>1. SessionBecomes(s, [session[s] EXCEPT !.status = st])
  BY StatusUpdate
<1>2. session'[s] = [session[s] EXCEPT !.status = st]
  BY <1>1 DEF SessionBecomes
<1>3. /\ session'[s].status = st /\ session'[s].queue = session[s].queue
      /\ session'[s].heard = session[s].heard /\ session'[s].spike = session[s].spike
  BY <1>2, SessionRows DEF Session
<1> QED BY <1>1, <1>3 DEF SessionBecomes

LEMMA GoRow ==
  ASSUME TypeOK, NEW l \in Loops, NEW at, Go(l, at)
  PROVE  /\ loop'[l].at = at /\ loop'[l].session = loop[l].session
         /\ loop'[l].queue = loop[l].queue /\ loop'[l].spike = loop[l].spike
BY LoopFunction DEF Go, Loop

(* The steps that write the status.                                        *)
LEMMA StatusEffect ==
  ASSUME TypeOK, ReferencesHold, NEW l \in Loops, LoopHolds(l), NEW s, s = loop[l].session,
         s \in Sessions, Cardinality(TurnsOf(s)) <= MaxTurns,
         \/ Activate(l) \/ Paralysis(l) \/ Sleep(l) \/ Done(l) \/ Yield(l) \/ Complete(l)
  PROVE  Effect(l, s)
<1>0. turns' = turns /\ \A r : TurnsOf(r)' = TurnsOf(r)
  BY DEF Activate, Paralysis, Sleep, Done, Yield, Complete, TurnsOf
<1>1. ASSUME NEW st \in Statuses, NEW at \in Inside, SetStatus(s, st),
             Go(l, at) \/ (at = loop[l].at /\ loop' = loop),
             st \in Awake => session[s].status \in Awake,
             at \in AtWork => st = "ACTIVE", at # "activate",
             at = "outcome" => st # "ACTIVE",
             st = "ATTENTION_REQUIRED" => session[s].queue = <<>>,
             at \in {"think", "tools", "yield", "sleep", "paralysed"} => session[s].queue = <<>>,
             at \in Checked => Cardinality(TurnsOf(s)) < MaxTurns
      PROVE  Effect(l, s)
  <2>1. /\ loop'[l].at = at /\ loop'[l].session = s /\ loop'[l].queue = loop[l].queue
    BY <1>1, GoRow
  <2>2. LoopHolds(l)'
    BY <1>0, <1>1, <2>1, WriteRow DEF LoopHolds
  <2>3. Kept(s)
    BY <1>1, WriteRow DEF Kept
  <2> QED BY <1>0, <1>1, <2>1, <2>2, <2>3, WriteRow DEF Effect
<1> USE DEF LoopHolds, AtWork, Inside, Risky, Checked, Awake, Statuses
<1>2. CASE Activate(l)
  BY <1>1, <1>2 DEF Activate
<1>3. CASE Paralysis(l)
  BY <1>1, <1>3 DEF Paralysis
<1>4. CASE Sleep(l)
  BY <1>1, <1>4 DEF Sleep
<1>5. CASE Done(l)
  BY <1>1, <1>5 DEF Done
<1>6. CASE Yield(l)
  BY <1>1, <1>6 DEF Yield
<1>7. CASE Complete(l)
  BY <1>1, <1>7 DEF Complete
<1> QED BY <1>2, <1>3, <1>4, <1>5, <1>6, <1>7

(* The steps that leave the session alone.                                 *)
LEMMA ReadEffect ==
  ASSUME TypeOK, ReferencesHold, NEW l \in Loops, LoopHolds(l), NEW s, s = loop[l].session,
         s \in Sessions, Cardinality(TurnsOf(s)) <= MaxTurns,
         \/ CheckTurns(l) \/ CheckStop(l) \/ FindTurn(l) \/ Think(l) \/ FailTurn(l)
         \/ AskUser(l) \/ ToolsDone(l) \/ EndRun(l) \/ Fail(l) \/ WriteOutcome(l)
  PROVE  Effect(l, s)
<1>0. session' = session /\ \A r : TurnsOf(r)' = TurnsOf(r)
  <2>0. LoopStep(l)
    BY DEF LoopStep
  <2>1. loop[l].at # "create"
    BY DEF CheckTurns, CheckStop, FindTurn, Think, FailTurn, AskUser, ToolsDone, EndRun, Fail,
           WriteOutcome, Risky
  <2>2. ~CreateTurn(l)
    BY <2>1 DEF CreateTurn
  <2>3. \A r : TurnsOf(r)' = TurnsOf(r)
    BY <2>0, <2>2, LoopStepMoves
  <2> QED BY <2>3 DEF CheckTurns, CheckStop, FindTurn, Think, FailTurn, AskUser, ToolsDone,
                      EndRun, Fail, WriteOutcome
<1>1. ASSUME NEW at \in Inside,
             loop'[l].at = at, loop'[l].session = s, loop'[l].queue = loop[l].queue,
             at \in AtWork => session[s].status = "ACTIVE", at # "activate",
             at = "outcome" => session[s].status # "ACTIVE", loop[l].at # "activate",
             at \in {"think", "tools", "yield", "sleep", "paralysed"} => session[s].queue = <<>>,
             at \in Checked => Cardinality(TurnsOf(s)) < MaxTurns
      PROVE  Effect(l, s)
  <2>1. LoopHolds(l)'
    BY <1>0, <1>1 DEF LoopHolds
  <2>2. Kept(s) /\ Sessions' = Sessions
    BY <1>0 DEF Kept, Sessions
  <2> QED BY <1>0, <1>1, <2>1, <2>2 DEF Effect
<1>2. loop \in [Loops -> Loop]
  BY LoopFunction
<1> USE DEF LoopHolds, AtWork, Inside, Risky, Checked
<1>3. CASE CheckTurns(l)
  <2>1. BudgetSpent(s) \/ Cardinality(TurnsOf(s)) < MaxTurns
    BY TurnsOfFinite, SessionAssumption DEF BudgetSpent
  <2> QED BY <1>1, <1>3, <2>1, GoRow DEF CheckTurns
<1>4. CASE CheckStop(l)
  BY <1>1, <1>4, GoRow DEF CheckStop
<1>5. CASE FindTurn(l)
  <2>1. PICK at \in {"prompt", "create"} :
          loop'[l].at = at /\ loop'[l].session = s /\ loop'[l].queue = loop[l].queue
    BY ZenonT(40), <1>2, <1>5 DEF FindTurn, Loop
  <2> QED BY <1>1, <1>5, <2>1 DEF FindTurn
<1>6. CASE Think(l)
  <2>1. PICK at \in {"tools", "sleep"} :
          loop'[l].at = at /\ loop'[l].session = s /\ loop'[l].queue = loop[l].queue
    BY <1>2, <1>6 DEF Think, Loop
  <2> QED BY <1>1, <1>6, <2>1 DEF Think
<1>7. CASE FailTurn(l) \/ Fail(l)
  <2>1. PICK at \in {"end", "failed"} :
          loop'[l].at = at /\ loop'[l].session = s /\ loop'[l].queue = loop[l].queue
    BY ZenonT(40), <1>2, <1>7 DEF FailTurn, Fail, Loop
  <2> QED BY <1>1, <1>7, <2>1 DEF FailTurn, Fail
<1>8. CASE AskUser(l)
  BY <1>1, <1>8, GoRow DEF AskUser
<1>9. CASE ToolsDone(l)
  BY <1>1, <1>9, GoRow DEF ToolsDone
<1>10. CASE EndRun(l)
  BY <1>1, <1>10, GoRow DEF EndRun
<1>11. CASE WriteOutcome(l)
  <2>1. loop'[l].at = "over" /\ loop'[l].session = s
    BY <1>2, <1>11 DEF WriteOutcome, Loop
  <2>2. Calm(s)' /\ Kept(s) /\ Sessions' = Sessions
    BY <1>0, <1>11 DEF Calm, Kept, Sessions, WriteOutcome
  <2> QED BY <1>0, <2>1, <2>2 DEF Effect
<1> QED BY <1>3, <1>4, <1>5, <1>6, <1>7, <1>8, <1>9, <1>10, <1>11

LEMMA BuildPromptEffect ==
  ASSUME TypeOK, ReferencesHold, NEW l \in Loops, LoopHolds(l), NEW s, s = loop[l].session,
         s \in Sessions, Cardinality(TurnsOf(s)) <= MaxTurns, BuildPrompt(l)
  PROVE  Effect(l, s)
<1>0. \A r : TurnsOf(r)' = TurnsOf(r)
  BY DEF BuildPrompt, TurnsOf
<1>1. loop'[l].at = "think" /\ loop'[l].session = s /\ loop'[l].queue = <<>>
  BY LoopFunction DEF BuildPrompt, Loop
<1>2. session[s].status = "ACTIVE" /\ session[s].queue = loop[l].queue
  BY DEF BuildPrompt, LoopHolds, AtWork
<1>3. CASE session' = session /\ loop[l].queue = <<>>
  <2>1. Kept(s) /\ Sessions' = Sessions /\ LoopHolds(l)'
    BY <1>0, <1>1, <1>2, <1>3 DEF Kept, Sessions, LoopHolds, AtWork, Checked
  <2> QED BY <1>0, <1>1, <1>3, <2>1 DEF Effect, Inside, Risky
<1>4. CASE loop[l].queue # <<>>
  <2>1. PICK h \in Seq(Messages) : h = session[s].heard \o loop[l].queue
    BY LoopRows, SessionRows, ConcatProperties DEF Session, Loop
  <2>2. session' = [session EXCEPT ![s] = [session[s] EXCEPT !.heard = h, !.queue = <<>>]]
    BY <1>4, <2>1 DEF BuildPrompt
  <2>3. PICK row : row = [session[s] EXCEPT !.heard = h, !.queue = <<>>]
    OBVIOUS
  <2>4. row \in Session
    BY <2>3, SessionRows, EmptySeq DEF Session
  <2>5. /\ row.heard = h /\ row.queue = <<>>
        /\ row.status = session[s].status /\ row.spike = session[s].spike
    BY <2>3, SessionRows DEF Session
  <2>6. SessionBecomes(s, row)
    BY <2>2, <2>3, <2>4, SessionUpdate
  <2>7. /\ Sessions' = Sessions /\ session'[s] = row
        /\ \A r \in Sessions \ {s} : session'[r] = session[r]
    BY <2>6 DEF SessionBecomes
  <2>8. Taken(s) /\ LoopHolds(l)'
    BY <1>0, <1>1, <1>2, <2>1, <2>5, <2>7 DEF Taken, LoopHolds, AtWork, Checked, Awake
  <2> QED BY <1>0, <1>1, <2>5, <2>7, <2>8 DEF Effect, Inside, Risky
<1> QED BY <1>3, <1>4 DEF BuildPrompt

LEMMA SaveFailureEffect ==
  ASSUME TypeOK, ReferencesHold, NEW l \in Loops, LoopHolds(l), NEW s, s = loop[l].session,
         s \in Sessions, Cardinality(TurnsOf(s)) <= MaxTurns, SaveFailure(l)
  PROVE  Effect(l, s)
<1>0. \A r : TurnsOf(r)' = TurnsOf(r)
  BY DEF SaveFailure, TurnsOf
<1>1. loop'[l].at = "outcome" /\ loop'[l].session = s /\ loop'[l].queue = loop[l].queue
  BY GoRow DEF SaveFailure
<1>2. PICK row : row = [session[s] EXCEPT !.status = "ERROR", !.queue = loop[l].queue]
  OBVIOUS
<1>3. row \in Session
  BY <1>2, SessionRows, LoopRows DEF Session, Statuses, Loop
<1>4. /\ row.status = "ERROR" /\ row.queue = loop[l].queue
      /\ row.heard = session[s].heard /\ row.spike = session[s].spike
  BY <1>2, SessionRows DEF Session
<1>5. SessionBecomes(s, row)
  BY <1>2, <1>3, SessionUpdate DEF SaveFailure
<1>6. /\ Sessions' = Sessions /\ session'[s] = row
      /\ \A r \in Sessions \ {s} : session'[r] = session[r]
  BY <1>5 DEF SessionBecomes
<1>7. Kept(s) /\ LoopHolds(l)'
  BY <1>0, <1>1, <1>4, <1>6 DEF Kept, LoopHolds, AtWork, Checked, Awake
<1> QED BY <1>0, <1>1, <1>4, <1>6, <1>7 DEF Effect, Inside

LEMMA CreateTurnEffect ==
  ASSUME TypeOK, ReferencesHold, NEW l \in Loops, LoopHolds(l), NEW s, s = loop[l].session,
         s \in Sessions, CreateTurn(l)
  PROVE  Effect(l, s)
<1>1. PICK row : row = [session |-> s, number |-> loop[l].number, status |-> "ACTIVE"]
  OBVIOUS
<1>2. row \in Turn /\ row.session = s
  BY <1>1, LoopRows DEF Loop, Turn
<1>3. TurnAdded(row)
  BY <1>1, <1>2, TurnAppend DEF CreateTurn
<1>4. PICK t : /\ t \notin TurnsOf(s) /\ TurnsOf(s)' = TurnsOf(s) \cup {t}
               /\ \A r : r # s => TurnsOf(r)' = TurnsOf(r)
  BY <1>2, <1>3, AddedTurn
<1>5. Cardinality(TurnsOf(s)) < MaxTurns /\ session[s].status = "ACTIVE"
  BY DEF LoopHolds, CreateTurn, Checked, AtWork
<1>6. Cardinality(TurnsOf(s)') <= MaxTurns
  <2>1. IsFiniteSet(TurnsOf(s)) /\ Cardinality(TurnsOf(s)) \in Nat
    BY TurnsOfFinite
  <2>2. Cardinality(TurnsOf(s) \cup {t}) = Cardinality(TurnsOf(s)) + 1
    BY <1>4, <2>1, FS_AddElement
  <2>3. Cardinality(TurnsOf(s)') = Cardinality(TurnsOf(s)) + 1
    BY <1>4, <2>2
  <2> QED BY <1>5, <2>1, <2>3, SessionAssumption
<1>7. loop'[l].at = "prompt" /\ loop'[l].session = s /\ loop'[l].queue = loop[l].queue
  <2>1. PICK n : n = Len(turns) + 1
    OBVIOUS
  <2>2. loop' = [loop EXCEPT ![l] = [loop[l] EXCEPT !.turn = n, !.number = 0, !.at = "prompt"]]
    BY <2>1 DEF CreateTurn
  <2> QED BY <2>2, LoopFunction DEF Loop
<1>8. Kept(s) /\ Sessions' = Sessions /\ session' = session
  BY DEF CreateTurn, Kept, Sessions
<1>9. LoopHolds(l)'
  BY <1>5, <1>7, <1>8 DEF LoopHolds, CreateTurn, AtWork, Checked
<1> QED BY <1>4, <1>6, <1>7, <1>8, <1>9 DEF Effect, Inside, Risky

LEMMA LoopStepLives == ASSUME NEW l \in Loops, LoopStep(l) PROVE l \in Live
<1>1. CASE Fail(l)
  BY <1>1 DEF Fail, Risky, Live
<1>2. CASE ~Fail(l)
  BY <1>2 DEF LoopStep, Start, LoadSession, Activate, CreateSession, CheckTurns, CheckStop,
       FindTurn, CreateTurn, BuildPrompt, Think, Paralysis, FailTurn, Sleep, Done, AskUser, Yield,
       ToolsDone, EndRun, Complete, SaveFailure, WriteOutcome, Live
<1> QED BY <1>1, <1>2

LEMMA LoopStepEffect ==
  ASSUME TypeOK, ReferencesHold, TalkHolds, ~disturbed, NEW l \in Loops, LoopStep(l),
         loop[l].at \notin Waking
  PROVE  loop[l].session \in Sessions /\ Effect(l, loop[l].session)
<1>1. l \in Live
  BY LoopStepLives
<1>2. LoopHolds(l) /\ loop[l].session \in Sessions
  BY <1>1, LoopRows DEF TalkHolds, ReferencesHold, LoopRefers, Live, Waking, Loop
<1>3. Cardinality(TurnsOf(loop[l].session)) <= MaxTurns
  BY <1>2 DEF TalkHolds
<1> QED BY <1>2, <1>3, StatusEffect, ReadEffect, BuildPromptEffect, SaveFailureEffect,
           CreateTurnEffect DEF LoopStep, Start, LoadSession, CreateSession, Waking

(* The task at work is the only one, and serves no other session.          *)
LEMMA OnlyLoop ==
  ASSUME TalkHolds, ~disturbed, NEW l \in Live
  PROVE  /\ Live = {l}
         /\ \A m \in Messages : ~Delivering(m)
BY DEF TalkHolds, Alone

LEMMA WorkingTalk ==
  ASSUME TypeOK, ReferencesHold, TalkHolds, ~disturbed,
         NEW l \in Loops, LoopStep(l), loop[l].at \notin Waking
  PROVE  TalkHolds'
<1>1. PICK s \in Sessions : s = loop[l].session /\ Effect(l, s)
  BY LoopStepEffect
<1>2. PICK row : Updates(l, row)
  BY LoopStepUpdates
<1>3. Loops' = Loops /\ \A k \in Loops \ {l} : loop'[k] = loop[k]
  BY <1>2, UpdatesOneRow
<1>4. reply' = reply
  BY LoopStepMoves DEF users
<1>5. Live = {l} /\ \A m \in Messages : ~Delivering(m)
  BY OnlyLoop, LoopStepLives
<1>6. Live' \subseteq {l} /\ (loop'[l].at # "over" => l \in Live')
  <2>1. loop'[l].at = "over" \/ loop'[l].at \in Inside
    BY <1>1 DEF Effect
  <2> QED BY <1>3, <1>5, <2>1 DEF Live, Inside, Risky
<1>7. \A m \in Messages : ~Delivering(m)' /\ reply'[m].at \notin {"seed", "inject", "fire"}
  BY <1>4, <1>5 DEF Delivering
<1>8. Alone'
  BY <1>6, <1>7 DEF Alone
<1>9. OneAwake'
  <2>1. \A r \in Sessions : /\ session'[r].spike = session[r].spike
                            /\ session'[r].status \in Awake => session[r].status \in Awake
    BY <1>1 DEF Effect, Kept, Taken
  <2>2. Sessions' = Sessions /\ OneAwake
    BY <1>1 DEF Effect, TalkHolds
  <2> QED BY <2>1, <2>2 DEF OneAwake
<1>10. \A r \in Sessions \ {s} : Cardinality(TurnsOf(r)') <= MaxTurns /\ Calm(r)'
  <2>1. \A r \in Sessions \ {s} : ~Served(r)
    <3>1. loop[l].session = s
      BY <1>1
    <3> QED BY <1>5, <3>1 DEF Served, Delivering
  <2>2. \A r \in Sessions \ {s} : Calm(r) /\ Cardinality(TurnsOf(r)) <= MaxTurns
    BY <2>1 DEF TalkHolds
  <2> QED BY <1>1, <2>2 DEF Effect, Calm
<1>11. Cardinality(TurnsOf(s)') <= MaxTurns /\ (Served(s)' \/ Calm(s)')
  <2>1. CASE loop'[l].at = "over" /\ Calm(s)'
    BY <1>1, <2>1 DEF Effect
  <2>2. CASE loop'[l].at \in Inside
    <3>1. l \in Live' /\ loop'[l].at \notin Waking /\ loop'[l].session = s
      BY <1>1, <1>6, <2>2 DEF Effect, Inside, Risky, Waking
    <3>2. Served(s)'
      BY <3>1 DEF Served
    <3> QED BY <1>1, <3>2 DEF Effect
  <2> QED BY <1>1, <2>1, <2>2 DEF Effect
<1>12. \A k \in Live' : LoopHolds(k)'
  BY <1>1, <1>6 DEF Effect, Live
<1>13. \A m \in Messages : ReplyHolds(m)'
  BY <1>7 DEF ReplyHolds
<1>14. Sessions' = Sessions
  BY <1>1 DEF Effect
<1> QED BY <1>8, <1>9, <1>10, <1>11, <1>12, <1>13, <1>14 DEF TalkHolds

(* Every session of the spike that is not over is the one that is loaded.  *)
LEMMA WakingTalk ==
  ASSUME TypeOK, ReferencesHold, TalkHolds, ~disturbed,
         NEW l \in Loops, LoopStep(l), loop[l].at \in Waking
  PROVE  TalkHolds'
<1>1. PICK row : Updates(l, row)
  BY LoopStepUpdates
<1>2. Loops' = Loops /\ \A k \in Loops \ {l} : loop'[k] = loop[k]
  BY <1>1, UpdatesOneRow
<1>3. Live = {l} /\ \A m \in Messages : ~Delivering(m)
  BY OnlyLoop, LoopStepLives
<1>4. /\ reply' = reply
      /\ \A m \in Messages : ~Delivering(m)' /\ reply'[m].at \notin {"seed", "inject", "fire"}
  BY <1>3, LoopStepMoves DEF users, Delivering
<1>5. \A m \in Messages : ReplyHolds(m)'
  BY <1>4 DEF ReplyHolds
<1>6. turns' = turns /\ \A r : TurnsOf(r)' = TurnsOf(r)
  <2>1. turns' = turns
    BY DEF LoopStep, Start, LoadSession, Activate, CreateSession, CheckTurns, CheckStop, FindTurn,
         CreateTurn, BuildPrompt, Think, Paralysis, FailTurn, Sleep, Done, AskUser, Yield,
         ToolsDone, EndRun, Complete, Fail, SaveFailure, WriteOutcome, Waking, Risky
  <2> QED BY <2>1 DEF TurnsOf
<1>7. \A r \in Sessions : session[r].spike # loop[l].spike => Calm(r)
  BY <1>3 DEF TalkHolds, Served, Delivering
<1>8. LoopRefers(l) /\ LoopRefers(l)'
  BY LoopStepRefers, <1>2 DEF ReferencesHold
<1>9. CASE Start(l)
  <2>1. loop'[l].at = "load" /\ loop'[l].spike = loop[l].spike /\ session' = session
    BY <1>9, GoRow DEF Start
  <2>2. Live' = {l} /\ Sessions' = Sessions
    BY <1>2, <1>3, <2>1 DEF Live, Sessions
  <2>3. Alone' /\ OneAwake'
    BY <1>4, <2>1, <2>2 DEF Alone, OneAwake, TalkHolds
  <2>4. \A r \in Sessions : session[r].spike = loop[l].spike => Served(r)'
    BY <2>1, <2>2 DEF Served, Waking
  <2>5. \A r \in Sessions : Served(r)' \/ Calm(r)'
    BY <1>7, <2>1, <2>4 DEF Calm
  <2>6. \A r \in Sessions' : Cardinality(TurnsOf(r)') <= MaxTurns
    BY <1>6, <2>2 DEF TalkHolds
  <2> QED BY <1>5, <2>1, <2>2, <2>3, <2>5, <2>6 DEF TalkHolds, Waking
<1>10. CASE LoadSession(l)
  <2>0. session' = session /\ Sessions' = Sessions /\ loop[l].at = "load"
    BY <1>10 DEF LoadSession, Sessions
  <2>1. PICK s \in Resumable(loop[l].spike) :
          LET at == IF session[s].status = "ACTIVE" THEN "check" ELSE "activate" IN
          loop' = [loop EXCEPT ![l] = [@ EXCEPT !.session = s, !.queue = session[s].queue, !.at = at]]
    BY <1>10 DEF LoadSession
  <2>2. PICK at : /\ at = IF session[s].status = "ACTIVE" THEN "check" ELSE "activate"
                  /\ loop' = [loop EXCEPT ![l] =
                       [loop[l] EXCEPT !.session = s, !.queue = session[s].queue, !.at = at]]
    BY <2>1
  <2>3. loop'[l].at = at /\ loop'[l].session = s /\ loop'[l].queue = session[s].queue
    BY <2>2, LoopFunction DEF Loop
  <2>4. s \in Sessions /\ session[s].spike = loop[l].spike /\ session[s].status \in Awake
    BY DEF Resumable
  <2>5. Live' = {l}
    BY <1>2, <1>3, <2>2, <2>3 DEF Live
  <2>6. Alone' /\ OneAwake'
    BY <1>4, <2>0, <2>5 DEF Alone, OneAwake, TalkHolds
  <2>7. \A r \in Sessions \ {s} : Calm(r)
    BY <1>7, <2>4 DEF TalkHolds, OneAwake, Calm, Awake
  <2>8. Served(s)'
    BY <2>2, <2>3, <2>5 DEF Served, Waking
  <2>9. LoopHolds(l)'
    <3>1. at = "check" => Cardinality(TurnsOf(s)) <= MaxTurns
      BY <2>4 DEF TalkHolds
    <3> QED BY <1>6, <2>0, <2>2, <2>3, <2>4 DEF LoopHolds, AtWork, Checked, Awake
  <2>10. \A r \in Sessions' : Cardinality(TurnsOf(r)') <= MaxTurns
    BY <1>6, <2>0 DEF TalkHolds
  <2>11. \A r \in Sessions : Served(r)' \/ Calm(r)'
    BY <2>0, <2>7, <2>8 DEF Calm
  <2> QED BY <1>5, <2>0, <2>5, <2>6, <2>9, <2>10, <2>11 DEF TalkHolds
<1>11. CASE CreateSession(l)
  <2>1. PICK n : n = Len(session) + 1
    OBVIOUS
  <2>2. loop'[l].at = "check" /\ loop'[l].session = n /\ loop'[l].queue = <<>>
    <3>1. loop' = [loop EXCEPT ![l] = [loop[l] EXCEPT !.session = n, !.at = "check"]]
      BY <1>11, <2>1 DEF CreateSession
    <3>2. loop[l].queue = <<>>
      BY <1>8, <1>11 DEF CreateSession, LoopRefers
    <3> QED BY <3>1, <3>2, LoopFunction DEF Loop
  <2>3. PICK new : /\ SessionAdded(new) /\ new.spike = loop[l].spike /\ new.status = "ACTIVE"
                   /\ new.queue = <<>>
    <3>1. SessionAdded(NewSession(loop[l].spike, "ACTIVE"))
      BY <1>11, LoopRows, SessionAppend, StatusesAre DEF CreateSession, Loop
    <3> QED BY <3>1 DEF NewSession
  <2>4. /\ Sessions' = Sessions \cup {n} /\ n \notin Sessions /\ session'[n] = new
        /\ \A r \in Sessions : session'[r] = session[r]
    BY <2>1, <2>3 DEF SessionAdded
  <2>5. \A r \in Sessions : session[r].spike = loop[l].spike => session[r].status \notin Awake
    BY <1>11 DEF CreateSession, Resumable
  <2>6. Live' = {l}
    BY <1>2, <1>3, <2>2 DEF Live
  <2>7. Alone'
    BY <1>4, <2>6 DEF Alone
  <2>8. OneAwake'
    BY <2>3, <2>4, <2>5 DEF OneAwake, TalkHolds
  <2>9. \A r \in Sessions : Calm(r)'
    BY <1>7, <2>4, <2>5 DEF Calm, Awake
  <2>10. Served(n)'
    BY <2>2, <2>6 DEF Served, Waking
  <2>11. TurnsOf(n) = {}
    BY <2>4 DEF TurnsOf, ReferencesHold
  <2>12. \A r \in Sessions' : Cardinality(TurnsOf(r)') <= MaxTurns
    BY <1>6, <2>4, <2>11, FS_EmptySet, SessionAssumption DEF TalkHolds
  <2>13. LoopHolds(l)'
    BY <2>2, <2>3, <2>4 DEF LoopHolds, AtWork, Checked, Awake
  <2> QED BY <1>5, <2>4, <2>6, <2>7, <2>8, <2>9, <2>10, <2>12, <2>13 DEF TalkHolds
<1> QED BY <1>9, <1>10, <1>11 DEF LoopStep, Start, LoadSession, Activate, CreateSession,
         CheckTurns, CheckStop, FindTurn, CreateTurn, BuildPrompt, Think, Paralysis, FailTurn,
         Sleep, Done, AskUser, Yield, ToolsDone, EndRun, Complete, Fail, SaveFailure,
         WriteOutcome, Waking, Risky

(* At rest every session is calm.                                          *)
LEMMA AtRestCalm ==
  ASSUME TalkHolds, ~disturbed, AtRest
  PROVE  Live = {} /\ \A s \in Sessions : Calm(s)
BY DEF TalkHolds, AtRest, Live, Served, Delivering

(* Nobody is at work while a request is under way.                         *)
LEMMA OnlyReply ==
  ASSUME TalkHolds, ~disturbed, NEW m \in Messages, Delivering(m)
  PROVE  /\ Live = {} /\ \A n \in Messages \ {m} : ~Delivering(n)
         /\ \A s \in Sessions : \/ Calm(s)
                                \/ reply[m].at = "fire" /\ reply[m].session = s
BY DEF TalkHolds, Alone, Served, Delivering

LEMMA EntersTalk ==
  ASSUME TypeOK, ReferencesHold, TalkHolds, NEW m \in Messages, Interact(m) \/ Resume(m),
         ~disturbed'
  PROVE  TalkHolds'
<1>1. /\ UNCHANGED <<session, turns, loop>> /\ ~disturbed /\ AtRest
  BY DEF Interact, Resume, Disturbs
<1>2. PICK row \in Reply :
        /\ ReplyUpdates(m, row)
        /\ \/ row = [reply[m] EXCEPT !.at = "genesis"]
           \/ \E s \in Sessions : row = View(s)
  BY EntersUpdates, ReplyRows DEF ReplyUpdates
<1>3. reply'[m] = row /\ \A n \in Messages \ {m} : reply'[n] = reply[n] /\ ~Delivering(n)
  BY <1>1, <1>2, ReplyUpdate DEF AtRest
<1>4. Live' = {} /\ \A s \in Sessions : Calm(s)' /\ TurnsOf(s)' = TurnsOf(s)
  BY <1>1, AtRestCalm DEF Live, Loops, Calm, TurnsOf
<1>5. Sessions' = Sessions /\ OneAwake'
  BY <1>1 DEF Sessions, OneAwake, TalkHolds
<1>6. Alone'
  BY <1>3, <1>4 DEF Alone, Delivering
<1>7. ReplyHolds(m)'
  <2>1. CASE row = [reply[m] EXCEPT !.at = "genesis"]
    <3>1. row.at = "genesis"
      BY <2>1, ReplyRows DEF Reply
    <3> QED BY <1>3, <3>1 DEF ReplyHolds
  <2>2. ASSUME NEW s \in Sessions, row = View(s) PROVE ReplyHolds(m)'
    BY <1>1, <1>3, <2>2 DEF ReplyHolds, View
  <2> QED BY <1>2, <2>1, <2>2
<1>8. \A n \in Messages \ {m} : ReplyHolds(n)'
  BY <1>3 DEF ReplyHolds, Delivering
<1> QED BY <1>1, <1>4, <1>5, <1>6, <1>7, <1>8 DEF TalkHolds

LEMMA ReplyTalk ==
  ASSUME TypeOK, ReferencesHold, TalkHolds, ~disturbed, NEW m \in Messages, ReplyStep(m)
  PROVE  TalkHolds'
<1>1. Delivering(m)
  BY DEF ReplyStep, Genesis, SeedTurn, Inject, FireSpike, Delivering
<1>2. /\ Live = {} /\ \A n \in Messages \ {m} : ~Delivering(n)
      /\ \A s \in Sessions : Calm(s) \/ (reply[m].at = "fire" /\ reply[m].session = s)
  BY <1>1, OnlyReply
<1>3. OneAwake /\ ReplyHolds(m) /\ \A s \in Sessions : Cardinality(TurnsOf(s)) <= MaxTurns
  BY DEF TalkHolds
<1>4. ASSUME \A n \in Messages \ {m} : reply'[n] = reply[n], Live' = {}
      PROVE  Alone' /\ \A n \in Messages \ {m} : ReplyHolds(n)'
  BY <1>2, <1>4 DEF Alone, Delivering, ReplyHolds
<1>5. CASE Genesis(m)
  <2>1. PICK s \in Nat \ {0} :
         /\ s = Len(session) + 1
         /\ SessionAdded(NewSession(s, "ATTENTION_REQUIRED"))
         /\ ReplyUpdates(m, [reply[m] EXCEPT !.session = s, !.at = "seed"])
    BY <1>5, GenesisUpdates
  <2>2. PICK new : /\ SessionAdded(new) /\ new.spike = s /\ new.status = "ATTENTION_REQUIRED"
                   /\ new.queue = <<>>
    BY <2>1 DEF NewSession
  <2>3. /\ Sessions' = Sessions \cup {s} /\ s \notin Sessions /\ session'[s] = new
        /\ \A r \in Sessions : session'[r] = session[r]
    BY <2>1, <2>2 DEF SessionAdded
  <2>4. turns' = turns /\ Live' = {} /\ reply[m].at = "genesis"
    BY <1>2, <1>5 DEF Genesis, Live, Loops
  <2>5. /\ reply'[m].at = "seed" /\ reply'[m].session = s /\ reply'[m].queue = <<>>
        /\ reply'[m].status = "ATTENTION_REQUIRED"
    <3>1. reply'[m] = [reply[m] EXCEPT !.session = s, !.at = "seed"]
      BY <2>1, ReplyUpdate
    <3>2. reply[m].queue = <<>> /\ reply[m].status = "ATTENTION_REQUIRED"
      BY <2>4 DEF ReferencesHold, ReplyRefers
    <3> QED BY <3>1, <3>2, ReplyRows DEF Reply
  <2>6. \A r : TurnsOf(r)' = TurnsOf(r)
    BY <2>4 DEF TurnsOf
  <2>7. TurnsOf(s) = {}
    BY <2>3 DEF TurnsOf, ReferencesHold
  <2>8. \A r \in Sessions' : Calm(r)' /\ Cardinality(TurnsOf(r)') <= MaxTurns
    <3>1. Cardinality({}) = 0 /\ 0 <= MaxTurns
      BY FS_EmptySet, SessionAssumption
    <3>2. Cardinality(TurnsOf(s)') <= MaxTurns
      BY <2>6, <2>7, <3>1
    <3>3. Calm(s)'
      BY <2>2, <2>3 DEF Calm
    <3>4. \A r \in Sessions : Calm(r)'
      BY <1>2, <2>3, <2>4 DEF Calm
    <3> QED BY <1>3, <2>3, <2>6, <3>2, <3>3, <3>4
  <2>9. OneAwake'
    BY <1>3, <2>2, <2>3 DEF OneAwake, ReferencesHold
  <2>10. ReplyHolds(m)'
    BY <2>2, <2>3, <2>5, <2>6, <2>7 DEF ReplyHolds
  <2>11. \A n \in Messages \ {m} : reply'[n] = reply[n]
    BY <2>1, ReplyUpdate
  <2> QED BY <1>4, <2>4, <2>8, <2>9, <2>10, <2>11 DEF TalkHolds
<1>6. CASE SeedTurn(m)
  <2>0. PICK s \in Sessions : s = reply[m].session
    BY <1>6 DEF SeedTurn, ReferencesHold, ReplyRefers
  <2>1. /\ TurnAdded([session |-> s, number |-> 1, status |-> "ACTIVE"])
        /\ ReplyUpdates(m, [reply[m] EXCEPT !.at = "inject"])
    BY <1>6, <2>0, SeedTurnUpdates
  <2>2. /\ session' = session /\ Sessions' = Sessions /\ Live' = {} /\ reply[m].at = "seed"
    BY <1>2, <1>6 DEF SeedTurn, Sessions, Live, Loops
  <2>3. /\ reply'[m].at = "inject" /\ reply'[m].session = s /\ reply'[m].queue = reply[m].queue
        /\ reply'[m].status = reply[m].status
    <3>1. reply'[m] = [reply[m] EXCEPT !.at = "inject"]
      BY <2>1, ReplyUpdate
    <3> QED BY <2>0, <3>1, ReplyRows DEF Reply
  <2>4. PICK t : /\ t \notin TurnsOf(s) /\ TurnsOf(s)' = TurnsOf(s) \cup {t}
                 /\ \A r : r # s => TurnsOf(r)' = TurnsOf(r)
    <3>1. PICK row : row = [session |-> s, number |-> 1, status |-> "ACTIVE"]
      OBVIOUS
    <3> QED BY <2>1, <3>1, AddedTurn
  <2>5. Cardinality(TurnsOf(s)') <= MaxTurns
    <3>1. TurnsOf(s)' = {t}
      BY <1>3, <2>0, <2>2, <2>4 DEF ReplyHolds
    <3>2. Cardinality({t}) = 1
      BY FS_Singleton
    <3> QED BY <3>1, <3>2, SessionAssumption
  <2>6. \A r \in Sessions' : Calm(r)' /\ Cardinality(TurnsOf(r)') <= MaxTurns
    BY <1>2, <1>3, <2>2, <2>4, <2>5 DEF Calm
  <2>7. OneAwake'
    BY <1>3, <2>2 DEF OneAwake
  <2>8. ReplyHolds(m)'
    BY <1>3, <2>0, <2>2, <2>3 DEF ReplyHolds
  <2>9. \A n \in Messages \ {m} : reply'[n] = reply[n]
    BY <2>1, ReplyUpdate
  <2> QED BY <1>4, <2>2, <2>6, <2>7, <2>8, <2>9 DEF TalkHolds
<1>7. CASE Inject(m)
  <2>0. PICK s \in Sessions : s = reply[m].session
    BY <1>7 DEF Inject, ReferencesHold, ReplyRefers
  <2>1. PICK row : /\ SessionBecomes(s, row) /\ row.spike = session[s].spike
                   /\ \/ /\ reply[m].status = "ATTENTION_REQUIRED" /\ row.status = "ACTIVE"
                         /\ reply'[m].at = "fire" /\ reply'[m].session = s
                      \/ /\ reply[m].status # "ATTENTION_REQUIRED"
                         /\ row.status = session[s].status
                         /\ reply'[m].at = "sent"
    BY <1>7, <2>0, InjectRows
  <2>2. /\ turns' = turns /\ Live' = {} /\ reply[m].at = "inject"
    BY <1>2, <1>7 DEF Inject, Live, Loops
  <2>3. \A n \in Messages \ {m} : reply'[n] = reply[n]
    BY <1>7 DEF Inject, TypeOK
  <2>4. session[s].status = reply[m].status
    BY <1>3, <2>0, <2>2 DEF ReplyHolds
  <2>5. /\ Sessions' = Sessions /\ session'[s] = row
        /\ \A r \in Sessions \ {s} : session'[r] = session[r]
    BY <2>1 DEF SessionBecomes
  <2>6. \A r \in Sessions' : Cardinality(TurnsOf(r)') <= MaxTurns
    BY <1>3, <2>2, <2>5 DEF TurnsOf
  <2>7. \A r \in Sessions \ {s} : Calm(r)'
    BY <1>2, <2>0, <2>5 DEF Calm
  <2>8. Served(s)' \/ Calm(s)'
    <3>1. CASE reply'[m].at = "fire" /\ reply'[m].session = s
      BY <3>1 DEF Served
    <3>2. CASE row.status = session[s].status /\ reply[m].status # "ATTENTION_REQUIRED"
      BY <1>2, <2>2, <2>4, <2>5, <3>2 DEF Calm
    <3> QED BY <2>1, <3>1, <3>2
  <2>9. OneAwake'
    BY <1>3, <2>1, <2>4, <2>5 DEF OneAwake, Awake
  <2>10. ReplyHolds(m)'
    BY <2>1, <2>5 DEF ReplyHolds
  <2> QED BY <1>4, <2>2, <2>3, <2>5, <2>6, <2>7, <2>8, <2>9, <2>10 DEF TalkHolds
<1>8. CASE FireSpike(m)
  <2>0. PICK s \in Sessions : s = reply[m].session
    BY <1>8 DEF FireSpike, ReferencesHold, ReplyRefers
  <2>1. LoopAdded(NewLoop(session[s].spike))
    BY <1>8, <2>0, SessionRows, LoopAppend DEF FireSpike, Session
  <2>2. PICK n : n = Len(loop) + 1
    OBVIOUS
  <2>3. /\ Loops' = Loops \cup {n} /\ n \notin Loops
        /\ \A k \in Loops : loop'[k] = loop[k]
        /\ loop'[n].at = "queued" /\ loop'[n].spike = session[s].spike
    BY <2>1, <2>2 DEF LoopAdded, NewLoop
  <2>4. /\ session' = session /\ turns' = turns /\ reply'[m].at = "sent"
        /\ \A k \in Messages \ {m} : reply'[k] = reply[k]
    BY <1>8 DEF FireSpike, TypeOK, Blank
  <2>5. Live' = {n}
    BY <1>2, <2>3 DEF Live
  <2>6. \A k \in Messages : ~Delivering(k)' /\ ReplyHolds(k)'
    BY <1>2, <2>4 DEF Delivering, ReplyHolds
  <2>7. Alone'
    BY <2>5, <2>6 DEF Alone
  <2>8. OneAwake' /\ Sessions' = Sessions
    BY <1>3, <2>4 DEF OneAwake, Sessions
  <2>9. \A r \in Sessions' : Cardinality(TurnsOf(r)') <= MaxTurns
    BY <1>3, <2>4, <2>8 DEF TurnsOf
  <2>10. Served(s)' /\ \A r \in Sessions \ {s} : Calm(r)'
    <3>1. Served(s)'
      BY <2>3, <2>4, <2>5 DEF Served, Waking
    <3> QED BY <1>2, <2>0, <2>4, <3>1 DEF Calm
  <2> QED BY <2>3, <2>5, <2>6, <2>7, <2>8, <2>9, <2>10 DEF TalkHolds, Waking
<1> QED BY <1>5, <1>6, <1>7, <1>8 DEF ReplyStep

LEMMA SameTalk ==
  ASSUME TalkHolds, UNCHANGED <<session, turns, loop, reply, disturbed>>
  PROVE  TalkHolds'
BY DEF TalkHolds, Alone, OneAwake, Served, Calm, LoopHolds, ReplyHolds, Live, Loops, Sessions,
       Delivering, TurnsOf

LEMMA InterventionTalk ==
  ASSUME TypeOK, ReferencesHold, TalkHolds, Intervention, ~disturbed'
  PROVE  TalkHolds'
<1>1. ASSUME NEW s \in Sessions, Clear(s) PROVE TalkHolds'
  <2>1. ~disturbed /\ AtRest /\ UNCHANGED <<turns, loop, reply>>
    BY <1>1 DEF Clear, Disturbs
  <2>2. /\ Sessions' = Sessions /\ session'[s].status = "STOPPED"
        /\ session'[s].spike = session[s].spike
        /\ \A r \in Sessions \ {s} : session'[r] = session[r]
    BY <1>1, WriteRow, StatusesAre DEF Clear
  <2>3. Live' = {} /\ \A r \in Sessions : Calm(r)'
    BY <2>1, <2>2, AtRestCalm DEF Live, Loops, Calm
  <2>4. \A m \in Messages : ~Delivering(m)' /\ ReplyHolds(m)'
    BY <2>1 DEF AtRest, Delivering, ReplyHolds
  <2>5. OneAwake'
    BY <2>1, <2>2 DEF TalkHolds, OneAwake, Awake
  <2>6. \A r \in Sessions' : Cardinality(TurnsOf(r)') <= MaxTurns
    BY <2>1, <2>2 DEF TalkHolds, TurnsOf
  <2>7. Alone'
    BY <2>3, <2>4 DEF Alone
  <2> QED BY <2>2, <2>3, <2>4, <2>5, <2>6, <2>7 DEF TalkHolds
<1>2. ASSUME NEW s \in Sessions, Stop(s) PROVE TalkHolds'
  BY <1>2, SameTalk DEF Stop
<1>3. ASSUME NEW s \in Sessions, Rerun(s) PROVE TalkHolds'
  <2>1. ~disturbed /\ AtRest /\ UNCHANGED <<session, turns, reply>>
    BY <1>3 DEF Rerun, Disturbs
  <2>2. PICK n : n = Len(loop) + 1
    OBVIOUS
  <2>3. /\ Loops' = Loops \cup {n} /\ n \notin Loops /\ loop'[n].at = "queued"
        /\ \A k \in Loops : loop'[k] = loop[k]
    <3>1. LoopAdded(NewLoop(session[s].spike))
      BY <1>3, SessionRows, LoopAppend DEF Rerun, Session
    <3> QED BY <2>2, <3>1 DEF LoopAdded, NewLoop
  <2>4. Live' = {n}
    BY <2>1, <2>3, AtRestCalm DEF Live
  <2>5. \A r \in Sessions : Calm(r)'
    BY <2>1, AtRestCalm DEF Calm
  <2>6. \A m \in Messages : ~Delivering(m)' /\ ReplyHolds(m)'
    BY <2>1 DEF AtRest, Delivering, ReplyHolds
  <2>7. OneAwake' /\ Sessions' = Sessions
    BY <2>1 DEF TalkHolds, OneAwake, Sessions
  <2>8. \A r \in Sessions' : Cardinality(TurnsOf(r)') <= MaxTurns
    BY <2>1, <2>7 DEF TalkHolds, TurnsOf
  <2>9. Alone'
    BY <2>4, <2>6 DEF Alone
  <2> QED BY <2>3, <2>4, <2>5, <2>6, <2>7, <2>8, <2>9 DEF TalkHolds, Waking
<1>4. \A s \in Sessions : ~Pause(s)
  BY DEF Pause, Disturbs
<1>5. \A l \in Loops : ~Crash(l)
  BY DEF Crash, Disturbs
<1> QED BY <1>1, <1>2, <1>3, <1>4, <1>5 DEF Intervention

LEMMA InitTalk == Init => TalkHolds
<1> SUFFICES ASSUME Init PROVE TalkHolds
  OBVIOUS
<1>1. Sessions = {} /\ Loops = {}
  BY DEF Init, Sessions, Loops
<1> QED BY <1>1 DEF Init, TalkHolds, Alone, OneAwake, ReplyHolds, Live, Delivering, Blank

LEMMA DisturbedForGood == ASSUME [Next]_vars, ~disturbed' PROVE ~disturbed
<1>1. ASSUME NEW l \in Loops, LoopStep(l) PROVE disturbed' = disturbed
  BY <1>1 DEF LoopStep, Start, LoadSession, Activate, CreateSession, CheckTurns, CheckStop,
       FindTurn, CreateTurn, BuildPrompt, Think, Paralysis, FailTurn, Sleep, Done, AskUser, Yield,
       ToolsDone, EndRun, Complete, Fail, SaveFailure, WriteOutcome, users
<1>2. ASSUME NEW m \in Messages, Interact(m) \/ Resume(m) \/ ReplyStep(m) PROVE ~disturbed
  BY <1>2 DEF Interact, Resume, Disturbs, ReplyStep, Genesis, SeedTurn, Inject, FireSpike
<1>3. CASE Intervention
  BY <1>3 DEF Intervention, Clear, Pause, Stop, Rerun, Crash, Disturbs
<1> QED BY <1>1, <1>2, <1>3 DEF Next, Rest, vars

LEMMA NextTalk ==
  ASSUME TypeOK, ReferencesHold, TalkHolds, [Next]_vars
  PROVE  TalkHolds'
<1> SUFFICES ASSUME ~disturbed' PROVE TalkHolds'
  BY DEF TalkHolds
<1>1. ~disturbed
  BY DisturbedForGood
<1>2. CASE UNCHANGED vars
  BY <1>2, SameTalk DEF vars
<1>3. CASE Next
  BY <1>1, <1>2, <1>3, WorkingTalk, WakingTalk, EntersTalk, ReplyTalk, InterventionTalk
     DEF Next, Rest
<1> QED BY <1>2, <1>3

-----------------------------------------------------------------------------
(* The properties. *)

Invariant == TypeOK /\ ReferencesHold /\ BudgetHolds /\ TalkHolds

(* Whatever requests, loops and users do, and whatever dies: the rows that  *)
(* are referred to exist, turns are counted against the budget, and a       *)
(* session that nobody has disturbed is served or has nothing to hear.      *)
THEOREM InvariantHolds == Spec => []Invariant
<1>1. Init => Invariant
  BY InitKeepsReferences, InitBudget, InitTalk DEF Invariant
<1>2. Invariant /\ [Next]_vars => Invariant'
  BY NextKeepsReferences, NextBudget, NextTalk DEF Invariant
<1> QED BY <1>1, <1>2, PTL DEF Spec

(* One loop at a time keeps the budget of turns of a session, and however   *)
(* requests and loops overlap every loop exceeds it by one turn at most.    *)
THEOREM BudgetKept == Spec => []TurnBudget
<1>1. ASSUME Invariant PROVE TurnBudget
  <2>1. TypeOK /\ BudgetHolds /\ TalkHolds
    BY <1>1 DEF Invariant
  <2>2. ASSUME NEW s \in Sessions
        PROVE  Cardinality(TurnsOf(s)) <= MaxTurns + IF disturbed THEN Cardinality(LoopsOf(s)) ELSE 0
    <3>1. CASE ~disturbed
      BY <2>1, <3>1, FiniteBudget, SessionAssumption DEF TalkHolds
    <3>2. CASE disturbed
      BY <2>1, <3>2, FiniteBudget, SessionAssumption DEF BudgetHolds, Budget
    <3> QED BY <3>1, <3>2
  <2> QED BY <2>2 DEF TurnBudget, LoopsOf
<1> QED BY <1>1, InvariantHolds, PTL

(* When nobody disturbed the agent and it has come to rest, no session is   *)
(* ACTIVE and a sleeping one has taken every message it was sent.           *)
THEOREM NothingIsLeft == Spec => []NothingLeftBehind
<1>1. ASSUME Invariant PROVE NothingLeftBehind
  BY <1>1, AtRestCalm DEF Invariant, NothingLeftBehind, Calm
<1> QED BY <1>1, InvariantHolds, PTL

-----------------------------------------------------------------------------
(* A session is a conversation. *)

LEMMA KeptTalks ==
  ASSUME NEW s, s \in Sessions, s \in Sessions', Kept(s)
  PROVE  Talk(s)!Next \/ UNCHANGED Talk(s)!vars
BY DEF Kept, Stage, Talk!Next, Talk!Close, Talk!vars

LEMMA TakenTalks ==
  ASSUME NEW s, s \in Sessions, s \in Sessions', Taken(s)
  PROVE  Talk(s)!Next
BY DEF Taken, Stage, Talk!Next, Talk!Hear

LEMMA BornTalks ==
  ASSUME NEW s, s \notin Sessions, s \in Sessions', session'[s].status \in Awake,
         session'[s].queue = <<>>, session'[s].heard = <<>>
  PROVE  Talk(s)!Next
BY DEF Stage, Talk!Next, Talk!Open

LEMMA PostTalks ==
  ASSUME NEW s, NEW m \in Messages, s \in Sessions, s \in Sessions', session[s].status \in Awake,
         session'[s].status \in Awake, session'[s].queue = Append(session[s].queue, m),
         session'[s].heard = session[s].heard
  PROVE  Talk(s)!Next
BY DEF Stage, Talk!Next, Talk!Post

LEMMA UnbornTalks ==
  ASSUME NEW s, s \notin Sessions, s \notin Sessions'
  PROVE  UNCHANGED Talk(s)!vars
BY DEF Stage, Talk!vars

(* A step of a task that works on a session, a task that loads one, ...    *)
LEMMA WorkingTalks ==
  ASSUME TypeOK, ReferencesHold, TalkHolds, ~disturbed, NEW l \in Loops, LoopStep(l),
         loop[l].at \notin Waking, NEW s
  PROVE  Talk(s)!Next \/ UNCHANGED Talk(s)!vars
<1>1. PICK r \in Sessions : r = loop[l].session /\ Effect(l, r)
  BY LoopStepEffect
<1>2. CASE s = r
  BY <1>1, <1>2, KeptTalks, TakenTalks DEF Effect
<1>3. CASE s # r /\ s \in Sessions
  <2>1. Kept(s) /\ s \in Sessions'
    BY <1>1, <1>3 DEF Effect, Kept
  <2> QED BY <1>3, <2>1, KeptTalks
<1>4. CASE s \notin Sessions
  BY <1>1, <1>4, UnbornTalks DEF Effect
<1> QED BY <1>2, <1>3, <1>4

LEMMA QuietTalks ==
  ASSUME NEW s, session' = session
  PROVE  UNCHANGED Talk(s)!vars
BY DEF Stage, Sessions, Talk!vars

(* ... one that opens one, ...                                             *)
LEMMA OpensTalks ==
  ASSUME NEW row, SessionAdded(row), row.status \in Awake, row.queue = <<>>, row.heard = <<>>,
         NEW s
  PROVE  Talk(s)!Next \/ UNCHANGED Talk(s)!vars
<1>1. PICK n : n = Len(session) + 1
  OBVIOUS
<1>2. /\ Sessions' = Sessions \cup {n} /\ n \notin Sessions /\ session'[n] = row
      /\ \A r \in Sessions : session'[r] = session[r]
  BY <1>1 DEF SessionAdded
<1>3. CASE s = n
  BY <1>2, <1>3, BornTalks
<1>4. CASE s \in Sessions
  <2>1. Kept(s) /\ s \in Sessions'
    BY <1>2, <1>4 DEF Kept
  <2> QED BY <1>4, <2>1, KeptTalks
<1>5. CASE s # n /\ s \notin Sessions
  BY <1>2, <1>5, UnbornTalks
<1> QED BY <1>3, <1>4, <1>5

LEMMA WakingTalks ==
  ASSUME TypeOK, ReferencesHold, NEW l \in Loops, LoopStep(l), loop[l].at \in Waking, NEW s
  PROVE  Talk(s)!Next \/ UNCHANGED Talk(s)!vars
<1>1. CASE CreateSession(l)
  <2>1. SessionAdded(NewSession(loop[l].spike, "ACTIVE"))
    BY <1>1, LoopRows, SessionAppend, StatusesAre DEF CreateSession, Loop
  <2>2. PICK row : row = NewSession(loop[l].spike, "ACTIVE")
    OBVIOUS
  <2>3. row.status \in Awake /\ row.queue = <<>> /\ row.heard = <<>>
    BY <2>2 DEF NewSession, Awake
  <2> QED BY <2>1, <2>2, <2>3, OpensTalks
<1>2. CASE Start(l) \/ LoadSession(l)
  BY <1>2, QuietTalks DEF Start, LoadSession
<1> QED BY <1>1, <1>2 DEF LoopStep, Start, LoadSession, Activate, CreateSession,
         CheckTurns, CheckStop, FindTurn, CreateTurn, BuildPrompt, Think, Paralysis, FailTurn,
         Sleep, Done, AskUser, Yield, ToolsDone, EndRun, Complete, Fail, SaveFailure,
         WriteOutcome, Waking, Risky

(* ... and a request that delivers a message.                              *)
LEMMA ReplyTalks ==
  ASSUME TypeOK, ReferencesHold, TalkHolds, ~disturbed, NEW m \in Messages, ReplyStep(m), NEW s
  PROVE  Talk(s)!Next \/ UNCHANGED Talk(s)!vars
<1>1. CASE Genesis(m)
  <2>1. PICK k \in Nat : SessionAdded(NewSession(k, "ATTENTION_REQUIRED"))
    BY <1>1, GenesisUpdates
  <2>2. PICK row : row = NewSession(k, "ATTENTION_REQUIRED")
    OBVIOUS
  <2>3. row.status \in Awake /\ row.queue = <<>> /\ row.heard = <<>>
    BY <2>2 DEF NewSession, Awake
  <2> QED BY <2>1, <2>2, <2>3, OpensTalks
<1>2. CASE SeedTurn(m) \/ FireSpike(m)
  BY <1>2, QuietTalks DEF SeedTurn, FireSpike
<1>3. CASE Inject(m)
  <2>0. PICK r \in Sessions : r = reply[m].session
    BY <1>3 DEF Inject, ReferencesHold, ReplyRefers
  <2>1. PICK row : /\ SessionBecomes(r, row)
                   /\ row.queue = Append(reply[m].queue, m) /\ row.heard = session[r].heard
                   /\ \/ reply[m].status = "ATTENTION_REQUIRED" /\ row.status = "ACTIVE"
                      \/ /\ reply[m].status # "ATTENTION_REQUIRED"
                         /\ row.status = session[r].status
    BY <1>3, <2>0, InjectRows
  <2>2. /\ Sessions' = Sessions /\ session'[r] = row
        /\ \A k \in Sessions \ {r} : session'[k] = session[k]
    BY <2>1 DEF SessionBecomes
  <2>3. reply[m].queue = session[r].queue /\ reply[m].status = session[r].status
    BY <1>3, <2>0 DEF Inject, TalkHolds, ReplyHolds
  <2>4. Calm(r)
    BY <1>3, <2>0, OnlyReply DEF Inject, Delivering
  <2>5. CASE s = r /\ reply[m].status = "ATTENTION_REQUIRED"
    BY <2>1, <2>2, <2>3, <2>5, PostTalks DEF Awake
  <2>6. CASE s = r /\ reply[m].status # "ATTENTION_REQUIRED"
    <3>1. Kept(s)
      BY <2>1, <2>2, <2>3, <2>4, <2>6 DEF Kept, Calm, Awake
    <3> QED BY <2>2, <2>6, <3>1, KeptTalks
  <2>7. CASE s # r /\ s \in Sessions
    <3>1. Kept(s)
      BY <2>2, <2>7 DEF Kept
    <3> QED BY <2>2, <2>7, <3>1, KeptTalks
  <2>8. CASE s \notin Sessions
    BY <2>2, <2>8, UnbornTalks
  <2> QED BY <2>5, <2>6, <2>7, <2>8
<1> QED BY <1>1, <1>2, <1>3 DEF ReplyStep

LEMMA InterventionTalks ==
  ASSUME TypeOK, Intervention, ~disturbed', NEW s
  PROVE  Talk(s)!Next \/ UNCHANGED Talk(s)!vars
<1>1. ASSUME NEW r \in Sessions, Clear(r) PROVE Talk(s)!Next \/ UNCHANGED Talk(s)!vars
  <2>1. /\ Sessions' = Sessions /\ session'[r].status = "STOPPED"
        /\ session'[r].heard = session[r].heard
        /\ \A k \in Sessions \ {r} : session'[k] = session[k]
    BY <1>1, WriteRow, StatusesAre DEF Clear
  <2>2. s \in Sessions => Kept(s)
    BY <2>1 DEF Kept, Awake
  <2> QED BY <2>1, <2>2, KeptTalks, UnbornTalks
<1>2. ASSUME NEW r \in Sessions, Stop(r) \/ Rerun(r) PROVE UNCHANGED Talk(s)!vars
  BY <1>2, QuietTalks DEF Stop, Rerun
<1>3. \A r \in Sessions : ~Pause(r)
  BY DEF Pause, Disturbs
<1>4. \A l \in Loops : ~Crash(l)
  BY DEF Crash, Disturbs
<1> QED BY <1>1, <1>2, <1>3, <1>4 DEF Intervention

LEMMA NextTalks ==
  ASSUME TypeOK, ReferencesHold, TalkHolds, [Next]_vars, ~disturbed', NEW s
  PROVE  Talk(s)!Next \/ UNCHANGED Talk(s)!vars
<1>1. ~disturbed
  BY DisturbedForGood
<1>2. CASE UNCHANGED vars
  BY <1>2, QuietTalks DEF vars
<1>3. ASSUME NEW m \in Messages, Interact(m) \/ Resume(m) PROVE UNCHANGED Talk(s)!vars
  BY <1>3, QuietTalks DEF Interact, Resume
<1>4. CASE Next
  BY <1>1, <1>2, <1>3, <1>4, WorkingTalks, WakingTalks, ReplyTalks, InterventionTalks
     DEF Next, Rest
<1> QED BY <1>2, <1>4

LEMMA InitTalks == ASSUME Init, NEW s PROVE Talk(s)!Init
<1>1. Sessions = {}
  BY DEF Init, Sessions
<1> QED BY <1>1 DEF Stage, Talk!Init

(* As long as its users write at rest, every session is a conversation: no  *)
(* message is lost or heard twice, the order is kept and nothing that is    *)
(* over is opened again.                                                    *)
THEOREM SessionsConverse == Spec => KeepsConversation
<1>1. Init => \A s \in 1..MaxSessions : Talk(s)!Init
  BY InitTalks
<1>2. Invariant /\ [Next]_vars =>
        [~disturbed' => \A s \in 1..MaxSessions : Talk(s)!Next \/ UNCHANGED Talk(s)!vars]_vars
  BY NextTalks DEF Invariant
<1> QED BY <1>1, <1>2, InvariantHolds, PTL DEF Spec, KeepsConversation
=============================================================================
