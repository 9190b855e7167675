-------------------------- MODULE TemporalLobeProofs --------------------------
(***************************************************************************)
(* Theorems about iterations of shifts, and the tickets of their workers.  *)
(***************************************************************************)
EXTENDS TemporalLobe, TLAPS, FiniteSetTheorems, NaturalsInduction, WellFoundedInduction

(* Ticks come one after the other: what the bouncer is for, and what       *)
(* triggers that overlap do not keep to.                                   *)
Serial == limit.trains = 1

(* Where a tick r stands tells what it has found.                          *)
Found(r) ==
  /\ r.pc \in Workings => r.it \in DOMAIN iter
  /\ r.pc \in Workings \ {"advance"} => r.shift # 0
  /\ r.pc \in {"collect", "assign", "take", "session", "complete", "standdown"} => r.disc # None
  /\ r.pc \in {"take", "session", "complete"} => r.ticket # None

DraftHolds == draft.ticket # None => draft.row \in TicketRow /\ draft.row.status # "absent"

OneAtATime == \A t, u \in Slots : tick[t].pc # "none" /\ tick[u].pc # "none" => t = u

(* The tick works on an iteration that is not over.                        *)
OfLive(r) == r.pc \in Workings => iter[r.it].status # "FINISHED"

(* The tickets of a disc but its own are those that were written over.     *)
OwnsOnly(r) ==
  LET own == {x \in Tickets : board[x].owner = r.disc} IN
  /\ r.pc \in {"assign", "take"} => own \subseteq trampled
  /\ r.pc \in {"take", "session"} => board[r.ticket].status # "absent"
  /\ r.pc = "session" =>
       /\ own \subseteq trampled \cup {r.ticket}
       /\ r.ticket \in own \cup trampled

Base   == TypeOK /\ DraftHolds /\ \A t \in Slots : Found(tick[t])
InTurn == OneAtATime /\ Succession /\ \A t \in Slots : OfLive(tick[t]) /\ OwnsOnly(tick[t])
IInv   == Base /\ (Serial => InTurn)

-----------------------------------------------------------------------------
(* A set of natural numbers that is not empty has a least one.             *)
LEMMA LeastNumber ==
  ASSUME NEW S \in SUBSET Nat, S # {}
  PROVE  \E n \in S : \A m \in S : n <= m
<1>1. PICK n \in S : \A m \in S : <<m, n>> \notin OpToRel(<, Nat)
  BY NatLessThanWellFounded, WFMin, Zenon
<1>2. \A m \in S : ~(m < n)
  BY <1>1 DEF OpToRel
<1> QED BY <1>2

(* The instance keeps its bounds.                                          *)
LEMMA LimitFacts ==
  ASSUME TypeOK
  PROVE  /\ limit.iterations \in 1..MaxIterations /\ MaxIterations \in Nat
         /\ Len(iter) \in Nat /\ Len(iter) <= MaxIterations /\ DOMAIN iter = 1..Len(iter)
         /\ DOMAIN blueprint \subseteq 1..MaxShift /\ MaxShift = 4
         /\ \A i \in DOMAIN iter : iter[i] \in IterationRow
         /\ \A t \in Slots : tick[t] \in TickRow
<1>1. limit.iterations \in 1..MaxIterations /\ MaxIterations \in Nat
  BY TemporalAssumption DEF TypeOK
<1>2. Len(iter) \in Nat /\ DOMAIN iter = 1..Len(iter) /\ \A i \in DOMAIN iter : iter[i] \in IterationRow
  BY DEF TypeOK
<1>3. Len(blueprint) \in Nat /\ DOMAIN blueprint = 1..Len(blueprint) /\ Len(blueprint) <= 4
  BY DEF TypeOK, MaxShift
<1>4. \A t \in Slots : tick[t] \in TickRow
  BY DEF TypeOK
<1> QED BY <1>1, <1>2, <1>3, <1>4 DEF MaxShift, TypeOK

LEMMA IdleFacts == Idle \in TickRow /\ Idle.pc = "none"
  BY TemporalAssumption DEF Idle, TickRow, Stages, MaxShift

(* A tick goes on to r.                                                    *)
LEMMA TickPut ==
  ASSUME TypeOK, NEW t \in Slots, NEW r \in TickRow, tick' = [tick EXCEPT ![t] = r]
  PROVE  /\ tick' \in [Slots -> TickRow] /\ tick'[t] = r
         /\ \A u \in Slots \ {t} : tick'[u] = tick[u]
  BY DEF TypeOK

LEMMA TickAt ==
  ASSUME TypeOK, NEW t \in Slots, NEW pc \in Stages
  PROVE  \E r \in TickRow :
           /\ Put(t, pc) = [tick EXCEPT ![t] = r]
           /\ r.pc = pc /\ r.it = tick[t].it /\ r.shift = tick[t].shift
           /\ r.disc = tick[t].disc /\ r.ticket = tick[t].ticket
<1>1. PICK r : r = [tick[t] EXCEPT !.pc = pc]
  OBVIOUS
<1>2. tick[t] \in TickRow
  BY DEF TypeOK
<1>3. /\ r \in TickRow /\ r.pc = pc /\ r.it = tick[t].it /\ r.shift = tick[t].shift
      /\ r.disc = tick[t].disc /\ r.ticket = tick[t].ticket
  BY <1>1, <1>2 DEF TickRow
<1> QED BY <1>1, <1>3 DEF Put

LEMMA EntryOf ==
  ASSUME NEW A, NEW f \in [1..MaxIterations -> [1..MaxShift -> [Discs -> A]]],
         NEW i \in 1..MaxIterations, NEW s \in 1..MaxShift, NEW d \in Discs
  PROVE  f[i][s][d] \in A
<1>1. f[i] \in [1..MaxShift -> [Discs -> A]]
  OBVIOUS
<1>2. f[i][s] \in [Discs -> A]
  BY <1>1
<1> QED BY <1>2

(* One entry of a table, or a row of it, is changed.                       *)
LEMMA RowSet ==
  ASSUME NEW A, NEW f \in [1..MaxIterations -> [1..MaxShift -> [Discs -> A]]],
         NEW i \in 1..MaxIterations, NEW s \in 1..MaxShift, NEW g \in [Discs -> A]
  PROVE  [f EXCEPT ![i][s] = g] \in [1..MaxIterations -> [1..MaxShift -> [Discs -> A]]]
<1>1. PICK h : h = [f[i] EXCEPT ![s] = g]
  OBVIOUS
<1>2. h \in [1..MaxShift -> [Discs -> A]]
  BY <1>1
<1>3. [f EXCEPT ![i] = h] \in [1..MaxIterations -> [1..MaxShift -> [Discs -> A]]]
  BY <1>2
<1> QED BY <1>1, <1>3

LEMMA EntrySet ==
  ASSUME NEW A, NEW f \in [1..MaxIterations -> [1..MaxShift -> [Discs -> A]]],
         NEW i \in 1..MaxIterations, NEW s \in 1..MaxShift, NEW d \in Discs, NEW x \in A
  PROVE  [f EXCEPT ![i][s][d] = x] \in [1..MaxIterations -> [1..MaxShift -> [Discs -> A]]]
<1>1. PICK g : g = [f[i][s] EXCEPT ![d] = x]
  OBVIOUS
<1>2. g \in [Discs -> A]
  BY <1>1
<1>3. [f EXCEPT ![i][s] = g] \in [1..MaxIterations -> [1..MaxShift -> [Discs -> A]]]
  BY <1>2, RowSet
<1> QED BY <1>1, <1>3

(* What a step of a tick leaves alone, and its tables.                     *)
TablesOK == /\ worker' \in Participations /\ sess' \in SessionTables
            /\ crashes' \in Nat /\ losses' \in Nat /\ edits' \in Nat /\ acts' \in Nat

(* A step of a tick that changes the board and the iterations not.         *)
LEMMA TickStep ==
  ASSUME Base, NEW t \in Slots, NEW r \in TickRow, tick' = [tick EXCEPT ![t] = r],
         UNCHANGED <<limit, blueprint, iter, board, draft, trampled>>, TablesOK, Found(r)
  PROVE  /\ Base'
         /\ InTurn /\ OneAtATime' /\ OfLive(r) /\ OwnsOnly(r) => InTurn'
<1>1. TypeOK /\ DraftHolds /\ \A u \in Slots : Found(tick[u])
  BY DEF Base
<1>2. /\ tick' \in [Slots -> TickRow] /\ tick'[t] = r
      /\ \A u \in Slots \ {t} : tick'[u] = tick[u]
  BY <1>1, TickPut
<1>3. TypeOK'
  BY <1>1, <1>2 DEF TypeOK, TablesOK
<1>4. DraftHolds'
  BY <1>1 DEF DraftHolds
<1>5. \A u \in Slots : Found(tick[u])'
  BY <1>1, <1>2 DEF Found
<1>6. ASSUME InTurn, OneAtATime', OfLive(r), OwnsOnly(r) PROVE InTurn'
  <2>1. Succession'
    BY <1>6 DEF InTurn, Succession
  <2>2. \A u \in Slots : OfLive(tick[u])' /\ OwnsOnly(tick[u])'
    BY <1>2, <1>6 DEF InTurn, OfLive, OwnsOnly
  <2> QED BY <1>6, <2>1, <2>2 DEF InTurn
<1> QED BY <1>3, <1>4, <1>5, <1>6 DEF Base

(* A tick that is under way stays the only one.                            *)
LEMMA StaysAlone ==
  ASSUME Base, NEW t \in Slots, NEW r \in TickRow, tick' = [tick EXCEPT ![t] = r],
         tick[t].pc # "none", OneAtATime
  PROVE  OneAtATime' /\ \A u \in Slots \ {t} : tick[u].pc = "none" /\ tick'[u] = tick[u]
<1>1. /\ tick'[t] = r /\ \A u \in Slots \ {t} : tick'[u] = tick[u]
  BY TickPut DEF Base
<1> QED BY <1>1 DEF OneAtATime

-----------------------------------------------------------------------------
(* The metronome. *)

LEMMA TriggerLooksKeeps ==
  ASSUME IInv, NEW t \in Slots, TriggerLooks(t)
  PROVE  IInv'
<1>1. Base /\ TypeOK /\ "check" \in Stages
  BY DEF IInv, Base, Stages
<1>2. PICK r \in TickRow : Put(t, "check") = [tick EXCEPT ![t] = r] /\ r.pc = "check"
  BY <1>1, TickAt
<1>3. tick' = [tick EXCEPT ![t] = r] /\ TablesOK /\ Found(r)
      /\ UNCHANGED <<limit, blueprint, iter, board, draft, trampled>>
  BY <1>1, <1>2 DEF TriggerLooks, Quiet, history, TablesOK, TypeOK, Found, Workings
<1>4. ASSUME Serial' PROVE OneAtATime'
  <2>1. Cardinality({u \in Slots : tick[u].pc # "none"}) < 1
    BY <1>3, <1>4 DEF TriggerLooks, Serial
  <2>2. IsFiniteSet({u \in Slots : tick[u].pc # "none"})
    BY TemporalAssumption, FS_Subset
  <2>3. {u \in Slots : tick[u].pc # "none"} = {}
    BY <2>1, <2>2, FS_EmptySet, FS_CardinalityType
  <2>4. \A u \in Slots \ {t} : tick'[u] = tick[u]
    BY <1>1, <1>3, TickPut
  <2> QED BY <2>3, <2>4 DEF OneAtATime
<1>5. OfLive(r) /\ OwnsOnly(r)
  BY <1>2 DEF OfLive, OwnsOnly, Workings
<1> QED BY <1>1, <1>3, <1>4, <1>5, TickStep DEF IInv, Serial

(* A step of a tick that is under way.                                     *)
LEMMA GoesOn ==
  ASSUME IInv, NEW t \in Slots, NEW r \in TickRow, tick' = [tick EXCEPT ![t] = r],
         UNCHANGED <<limit, blueprint, iter, board, draft, trampled>>, TablesOK,
         tick[t].pc # "none", Found(r), InTurn => OfLive(r) /\ OwnsOnly(r)
  PROVE  IInv'
<1>1. Base
  BY DEF IInv
<1>2. ASSUME InTurn PROVE OneAtATime'
  BY <1>1, <1>2, StaysAlone DEF InTurn
<1> QED BY <1>1, <1>2, TickStep DEF IInv, Serial

LEMMA TriggerCreatesKeeps ==
  ASSUME IInv, NEW t \in Slots, TriggerCreates(t)
  PROVE  IInv'
<1>1. TypeOK /\ "iteration" \in Stages
  BY DEF IInv, Base, Stages
<1>2. PICK r \in TickRow : Put(t, "iteration") = [tick EXCEPT ![t] = r] /\ r.pc = "iteration"
  BY <1>1, TickAt
<1>3. /\ tick' = [tick EXCEPT ![t] = r] /\ TablesOK /\ Found(r) /\ OfLive(r) /\ OwnsOnly(r)
      /\ UNCHANGED <<limit, blueprint, iter, board, draft, trampled>> /\ tick[t].pc # "none"
  BY <1>1, <1>2 DEF TriggerCreates, Quiet, history, TablesOK, TypeOK, Found, Workings, OfLive,
     OwnsOnly
<1> QED BY <1>3, GoesOn

LEMMA ReapKeeps ==
  ASSUME IInv, NEW t \in Slots, Reap(t)
  PROVE  IInv'
<1>1. TypeOK
  BY DEF IInv, Base
<1>2. /\ tick' = [tick EXCEPT ![t] = Idle] /\ TablesOK /\ Found(Idle) /\ OfLive(Idle)
      /\ OwnsOnly(Idle) /\ tick[t].pc # "none"
      /\ UNCHANGED <<limit, blueprint, iter, board, draft, trampled>>
  BY <1>1, IdleFacts DEF Reap, Quiet, history, TablesOK, TypeOK, Found, Workings, OfLive, OwnsOnly
<1> QED BY <1>2, IdleFacts, GoesOn

LEMMA CrashKeeps ==
  ASSUME IInv, NEW t \in Slots, Crash(t)
  PROVE  IInv'
<1>1. TypeOK /\ "dead" \in Stages /\ "lost" \in Stages /\ Found(tick[t])
  BY DEF IInv, Base, Stages
<1>2. PICK how \in {"dead", "lost"} :
        /\ crashes' = crashes + (IF how = "dead" THEN 1 ELSE 0)
        /\ losses' = losses + (IF how = "lost" THEN 1 ELSE 0)
        /\ tick' = Put(t, how)
  BY DEF Crash
<1>3. PICK r \in TickRow : Put(t, how) = [tick EXCEPT ![t] = r] /\ r.pc = how
  BY <1>1, TickAt
<1>4. sess' \in SessionTables
  <2>1. CASE tick[t].pc = "session"
    <3>1. tick[t] \in TickRow /\ tick[t].it \in DOMAIN iter /\ tick[t].shift # 0 /\ tick[t].disc # None
      BY <1>1, <2>1, LimitFacts DEF Found, Workings
    <3>2. PICK i \in 1..MaxIterations, s \in 1..MaxShift, d \in Discs :
            i = tick[t].it /\ s = tick[t].shift /\ d = tick[t].disc
      BY <1>1, <3>1, LimitFacts DEF TickRow
    <3>3. sess' = [sess EXCEPT ![i][s][d] = @ \cup {"ACTIVE"}]
      BY <2>1, <3>2 DEF Crash
    <3>4. sess \in SessionTables /\ sess[i][s][d] \in SUBSET {"DONE", "ACTIVE"}
      BY <1>1, EntryOf, Zenon DEF TypeOK, SessionTables
    <3>5. PICK x \in SUBSET {"DONE", "ACTIVE"} : x = sess[i][s][d] \cup {"ACTIVE"}
      BY <3>4
    <3> QED BY <3>3, <3>4, <3>5, EntrySet DEF SessionTables
  <2>2. CASE tick[t].pc # "session"
    BY <1>1, <2>2 DEF Crash, TypeOK
  <2> QED BY <2>1, <2>2
<1>5. TablesOK
  BY <1>1, <1>2, <1>4 DEF TablesOK, TypeOK, Crash
<1>6. /\ tick' = [tick EXCEPT ![t] = r] /\ Found(r) /\ OfLive(r) /\ OwnsOnly(r)
      /\ UNCHANGED <<limit, blueprint, iter, board, draft, trampled>> /\ tick[t].pc # "none"
  BY <1>2, <1>3 DEF Crash, HasTrain, Found, Workings, OfLive, OwnsOnly
<1> QED BY <1>5, <1>6, GoesOn

-----------------------------------------------------------------------------
(* The tick. *)

(* The iteration of a tick that is at work, its shift and its disc.        *)
LEMMA WorkFacts ==
  ASSUME IInv, NEW t \in Slots
  PROVE  /\ TypeOK /\ tick[t] \in TickRow /\ Found(tick[t])
         /\ tick[t].pc \in Workings => tick[t].it \in DOMAIN iter /\ tick[t].it \in 1..MaxIterations
         /\ tick[t].pc \in Workings \ {"advance"} => tick[t].shift \in 1..MaxShift
         /\ tick[t].pc \in {"collect", "assign", "take", "session", "complete", "standdown"} =>
              tick[t].disc \in Discs
         /\ tick[t].pc \in {"take", "session", "complete"} => tick[t].ticket \in Tickets
<1>1. TypeOK /\ Found(tick[t])
  BY DEF IInv, Base
<1> QED BY <1>1, LimitFacts DEF Found, TickRow

LEMMA CurrentFacts ==
  ASSUME LiveIteration, TypeOK
  PROVE  Current \in DOMAIN iter /\ IsLive(iter[Current].status)
<1> DEFINE S == {i \in DOMAIN iter : IsLive(iter[i].status)}
<1>1. S # {} /\ S \in SUBSET Nat /\ DOMAIN iter = 1..Len(iter) /\ Len(iter) \in Nat
  BY LimitFacts DEF LiveIteration
<1>2. PICK i \in S : \A j \in S : i <= j
  BY <1>1, LeastNumber
<1>3. \A j \in 1..(i - 1) : ~IsLive(iter[j].status)
  BY <1>1, <1>2
<1> QED BY <1>2, <1>3 DEF Current

LEMMA GetIterationKeeps ==
  ASSUME IInv, NEW t \in Slots, GetIteration(t)
  PROVE  IInv'
<1>1. /\ TypeOK /\ tick[t] \in TickRow /\ tick[t].pc # "none" /\ TablesOK
      /\ UNCHANGED <<limit, blueprint, iter, board, draft, trampled>>
  BY WorkFacts DEF GetIteration, TickUnchanged, history, TablesOK, TypeOK
<1>2. CASE Current = 0
  BY <1>1, <1>2, IdleFacts, GoesOn DEF GetIteration, Found, Workings, OfLive, OwnsOnly
<1>3. CASE Current # 0
  <2>1. Current \in DOMAIN iter /\ IsLive(iter[Current].status)
    BY <1>1, <1>3, CurrentFacts DEF Current
  <2>2. PICK i \in DOMAIN iter : i = Current
    BY <2>1
  <2>3. i \in 0..MaxIterations /\ iter[i].shift \in 0..MaxShift /\ iter[i].status # "FINISHED"
    BY <1>1, <2>1, <2>2, LimitFacts DEF IterationRow, IsLive
  <2>4. PICK r : r = [tick[t] EXCEPT !.it = i, !.shift = iter[i].shift,
                               !.pc = IF iter[i].shift = 0 THEN "advance" ELSE "cleanup"]
    OBVIOUS
  <2>5. /\ r \in TickRow /\ r.it = i /\ r.shift = iter[i].shift
        /\ r.pc = IF iter[i].shift = 0 THEN "advance" ELSE "cleanup"
    BY <1>1, <2>3, <2>4 DEF TickRow, Stages, Workings
  <2>6. tick' = [tick EXCEPT ![t] = r]
    BY <1>3, <2>2, <2>4 DEF GetIteration
  <2>7. Found(r) /\ OfLive(r) /\ OwnsOnly(r)
    BY <2>3, <2>5 DEF Found, Workings, OfLive, OwnsOnly
  <2> QED BY <1>1, <2>5, <2>6, <2>7, GoesOn
<1> QED BY <1>2, <1>3

LEMMA CleanupGhostsKeeps ==
  ASSUME IInv, NEW t \in Slots, CleanupGhosts(t)
  PROVE  IInv'
<1>1. tick[t].pc = "cleanup" /\ "capacity" \in Stages
  BY DEF CleanupGhosts, Stages, Workings
<1>2. PICK i \in 1..MaxIterations, s \in 1..MaxShift : i = tick[t].it /\ s = tick[t].shift
  BY <1>1, WorkFacts DEF Workings
<1> DEFINE ghost(d) == Participants(t)[d] = "ACTIVATED" /\ ~RunsIn(t, d)
           staff == [d \in Discs |-> IF ghost(d) THEN Reverted(t, d) ELSE worker[i][s][d]]
           held == [d \in Discs |-> IF ghost(d) THEN sess[i][s][d] \ {"ACTIVE"} ELSE sess[i][s][d]]
<1>3. worker' = [worker EXCEPT ![i][s] = staff] /\ sess' = [sess EXCEPT ![i][s] = held]
  BY <1>2 DEF CleanupGhosts
<1>4. worker \in Participations /\ sess \in SessionTables
  BY WorkFacts DEF TypeOK
<1>5. staff \in [Discs -> {"absent", "null", "SELECTED", "ACTIVATED", "COMPLETED"}]
  <2>1. \A d \in Discs :
          worker[i][s][d] \in {"absent", "null", "SELECTED", "ACTIVATED", "COMPLETED"}
    BY <1>4, EntryOf, Zenon DEF Participations
  <2>2. \A d \in Discs : Reverted(t, d) \in {"COMPLETED", "SELECTED"}
    BY DEF Reverted
  <2> HIDE DEF ghost
  <2> QED BY <2>1, <2>2
<1>6. held \in [Discs -> SUBSET {"DONE", "ACTIVE"}]
  <2>1. \A d \in Discs : sess[i][s][d] \in SUBSET {"DONE", "ACTIVE"}
    BY <1>4, EntryOf, Zenon DEF SessionTables
  <2> HIDE DEF ghost
  <2> QED BY <2>1
<1> HIDE DEF staff, held
<1>7. worker' \in Participations /\ sess' \in SessionTables
  BY <1>3, <1>4, <1>5, <1>6, RowSet DEF Participations, SessionTables
<1>8. PICK r \in TickRow : /\ Put(t, "capacity") = [tick EXCEPT ![t] = r]
                           /\ r.pc = "capacity" /\ r.it = tick[t].it /\ r.shift = tick[t].shift
  BY <1>1, WorkFacts, TickAt
<1>9. /\ TablesOK /\ UNCHANGED <<limit, blueprint, iter, board, draft, trampled>>
      /\ tick' = [tick EXCEPT ![t] = r]
  BY <1>7, <1>8, WorkFacts DEF CleanupGhosts, TickUnchanged, history, TablesOK, TypeOK
<1>10. Found(r)
  BY <1>1, <1>8, WorkFacts DEF Found, Workings
<1>11. InTurn => OfLive(r) /\ OwnsOnly(r)
  BY <1>1, <1>8 DEF InTurn, OfLive, OwnsOnly, Workings
<1> QED BY <1>1, <1>9, <1>10, <1>11, GoesOn

LEMMA CapacityKeeps ==
  ASSUME IInv, NEW t \in Slots, Capacity(t)
  PROVE  IInv'
<1>1. tick[t].pc = "capacity" /\ "lock" \in Stages
  BY DEF Capacity, Stages, Workings
<1>2. TablesOK /\ UNCHANGED <<limit, blueprint, iter, board, draft, trampled>>
  BY WorkFacts DEF Capacity, TickUnchanged, history, TablesOK, TypeOK
<1>3. PICK r \in TickRow : /\ Put(t, "lock") = [tick EXCEPT ![t] = r]
                           /\ r.pc = "lock" /\ r.it = tick[t].it /\ r.shift = tick[t].shift
  BY <1>1, WorkFacts, TickAt
<1>4. Found(r)
  BY <1>1, <1>3, WorkFacts DEF Found, Workings
<1>5. InTurn => OfLive(r) /\ OwnsOnly(r)
  BY <1>1, <1>3 DEF InTurn, OfLive, OwnsOnly, Workings
<1>6. Found(Idle) /\ OfLive(Idle) /\ OwnsOnly(Idle)
  BY IdleFacts DEF Found, OfLive, OwnsOnly, Workings
<1>7. tick' = [tick EXCEPT ![t] = Idle] \/ tick' = [tick EXCEPT ![t] = r]
  BY <1>3 DEF Capacity
<1> QED BY <1>1, <1>2, <1>4, <1>5, <1>6, <1>7, IdleFacts, GoesOn

LEMMA LockWorkerKeeps ==
  ASSUME IInv, NEW t \in Slots, LockWorker(t)
  PROVE  IInv'
<1>1. tick[t].pc = "lock" /\ "advance" \in Stages /\ "collect" \in Stages
  BY DEF LockWorker, Stages, Workings
<1>2. PICK i \in 1..MaxIterations, s \in 1..MaxShift : i = tick[t].it /\ s = tick[t].shift
  BY <1>1, WorkFacts DEF Workings
<1>3. UNCHANGED <<limit, blueprint, iter, board, draft, trampled>>
  BY DEF LockWorker, TickUnchanged
<1>4. worker' \in Participations => TablesOK
  BY WorkFacts DEF LockWorker, TickUnchanged, history, TablesOK, TypeOK
<1>5. CASE Pending(t) = {}
  <2>1. PICK r \in TickRow : /\ Put(t, "advance") = [tick EXCEPT ![t] = r]
                             /\ r.pc = "advance" /\ r.it = tick[t].it
    BY <1>1, WorkFacts, TickAt
  <2>2. Found(r) /\ (InTurn => OfLive(r) /\ OwnsOnly(r))
    BY <1>1, <2>1, WorkFacts DEF Found, Workings, InTurn, OfLive, OwnsOnly
  <2>3. tick' = [tick EXCEPT ![t] = r] /\ TablesOK
    BY <1>4, <1>5, <2>1, WorkFacts DEF LockWorker, TypeOK
  <2> QED BY <1>1, <1>3, <2>2, <2>3, GoesOn
<1>6. CASE Pending(t) # {}
  <2>1. PICK d \in Pending(t) :
          /\ worker' = [worker EXCEPT ![tick[t].it][tick[t].shift][d] = "ACTIVATED"]
          /\ tick' = [tick EXCEPT ![t] = [@ EXCEPT !.pc = "collect", !.disc = d]]
    BY <1>6 DEF LockWorker
  <2>2. d \in Discs /\ worker \in Participations /\ tick[t] \in TickRow /\ d # None
    BY WorkFacts, TemporalAssumption DEF Pending, TypeOK
  <2>3. worker' = [worker EXCEPT ![i][s][d] = "ACTIVATED"]
    BY <1>2, <2>1
  <2>4. worker' \in Participations
    BY <2>2, <2>3, EntrySet DEF Participations
  <2>5. PICK r : r = [tick[t] EXCEPT !.pc = "collect", !.disc = d]
    OBVIOUS
  <2>6. /\ r \in TickRow /\ r.pc = "collect" /\ r.disc = d /\ r.it = tick[t].it
        /\ r.shift = tick[t].shift
    BY <1>1, <2>2, <2>5 DEF TickRow
  <2>7. tick' = [tick EXCEPT ![t] = r]
    BY <2>1, <2>5
  <2>8. Found(r) /\ (InTurn => OfLive(r) /\ OwnsOnly(r))
    BY <1>1, <2>2, <2>6, WorkFacts DEF Found, Workings, InTurn, OfLive, OwnsOnly
  <2> QED BY <1>1, <1>3, <1>4, <2>4, <2>6, <2>7, <2>8, GoesOn
<1> QED BY <1>5, <1>6

(* A participant is given its next status, unless it was removed.          *)
LEMMA ParticipantMoves ==
  ASSUME IInv, NEW t \in Slots, tick[t].pc \in {"standdown", "complete"},
         NEW status \in {"SELECTED", "COMPLETED"},
         worker' = [worker EXCEPT ![tick[t].it][tick[t].shift][tick[t].disc] =
                      IF @ = "absent" THEN @ ELSE status]
  PROVE  worker' \in Participations
<1>1. PICK i \in 1..MaxIterations, s \in 1..MaxShift, d \in Discs :
        i = tick[t].it /\ s = tick[t].shift /\ d = tick[t].disc
  BY WorkFacts DEF Workings
<1>2. worker \in Participations
  BY WorkFacts DEF TypeOK
<1>3. PICK x \in {"absent", "SELECTED", "COMPLETED"} :
        x = IF worker[i][s][d] = "absent" THEN worker[i][s][d] ELSE status
  OBVIOUS
<1>4. worker' = [worker EXCEPT ![i][s][d] = x]
  BY <1>1, <1>3
<1>5. PICK S : S = {"absent", "null", "SELECTED", "ACTIVATED", "COMPLETED"}
  OBVIOUS
<1>6. x \in S
  BY <1>3, <1>5
<1>7. worker \in [1..MaxIterations -> [1..MaxShift -> [Discs -> S]]]
  BY <1>2, <1>5 DEF Participations
<1>8. [worker EXCEPT ![i][s][d] = x] \in [1..MaxIterations -> [1..MaxShift -> [Discs -> S]]]
  BY <1>6, <1>7, EntrySet, Zenon
<1> QED BY <1>4, <1>5, <1>8 DEF Participations

LEMMA StandDownKeeps ==
  ASSUME IInv, NEW t \in Slots, StandDown(t)
  PROVE  IInv'
<1>1. tick[t].pc = "standdown" /\ "advance" \in Stages
  BY DEF StandDown, Stages, Workings
<1>2. worker' \in Participations
  BY <1>1, ParticipantMoves DEF StandDown, Back
<1>3. TablesOK /\ UNCHANGED <<limit, blueprint, iter, board, draft, trampled>>
  BY <1>2, WorkFacts DEF StandDown, TickUnchanged, history, TablesOK, TypeOK
<1>4. PICK r : r = [tick[t] EXCEPT !.pc = "advance", !.disc = None]
  OBVIOUS
<1>5. r \in TickRow /\ r.pc = "advance" /\ r.it = tick[t].it /\ tick' = [tick EXCEPT ![t] = r]
  BY <1>1, <1>4, WorkFacts DEF TickRow, StandDown
<1>6. Found(r) /\ (InTurn => OfLive(r) /\ OwnsOnly(r))
  BY <1>1, <1>5, WorkFacts DEF Found, Workings, InTurn, OfLive, OwnsOnly
<1> QED BY <1>1, <1>3, <1>5, <1>6, GoesOn

LEMMA AssignWorkKeeps ==
  ASSUME IInv, NEW t \in Slots, AssignWork(t)
  PROVE  IInv'
<1>1. tick[t].pc = "assign" /\ "standdown" \in Stages /\ "take" \in Stages
  BY DEF AssignWork, Stages, Workings
<1>2. TablesOK /\ UNCHANGED <<limit, blueprint, iter, board, draft, trampled>>
  BY WorkFacts DEF AssignWork, TickUnchanged, history, TablesOK, TypeOK
<1> DEFINE S == Targets(ShiftOf(t), Kind[tick[t].disc])
<1>3. \A x \in S : x \in Tickets /\ board[x].status # "absent"
  <2>1. PICK shift, kind : shift = ShiftOf(t) /\ kind = Kind[tick[t].disc]
    OBVIOUS
  <2>2. \A x \in Targets(shift, kind) : x \in Tickets /\ board[x].status # "absent"
    BY DEF Targets, OrElse, Are, Unowned, Childless
  <2> QED BY <2>1, <2>2
<1> HIDE DEF S
<1>4. CASE S = {}
  <2>1. PICK r \in TickRow : /\ Put(t, "standdown") = [tick EXCEPT ![t] = r]
                             /\ r.pc = "standdown" /\ r.it = tick[t].it
                             /\ r.shift = tick[t].shift /\ r.disc = tick[t].disc
    BY <1>1, WorkFacts, TickAt
  <2>2. Found(r) /\ (InTurn => OfLive(r) /\ OwnsOnly(r))
    BY <1>1, <2>1, WorkFacts DEF Found, Workings, InTurn, OfLive, OwnsOnly
  <2>3. tick' = [tick EXCEPT ![t] = r]
    BY <1>4, <2>1 DEF AssignWork, S
  <2> QED BY <1>1, <1>2, <2>2, <2>3, GoesOn
<1>5. CASE S # {}
  <2>1. PICK x \in S : tick' = [tick EXCEPT ![t] = [@ EXCEPT !.pc = "take", !.ticket = x]]
    BY <1>5 DEF AssignWork, S
  <2>2. PICK r : r = [tick[t] EXCEPT !.pc = "take", !.ticket = x]
    OBVIOUS
  <2>3. /\ r \in TickRow /\ r.pc = "take" /\ r.it = tick[t].it /\ r.shift = tick[t].shift
        /\ r.disc = tick[t].disc /\ r.ticket = x /\ tick' = [tick EXCEPT ![t] = r]
    BY <1>1, <1>3, <2>1, <2>2, WorkFacts DEF TickRow
  <2>4. Found(r)
    BY <1>1, <1>3, <2>3, WorkFacts, TemporalAssumption DEF Found, Workings
  <2>5. InTurn => OfLive(r) /\ OwnsOnly(r)
    BY <1>1, <1>3, <2>3 DEF Workings, InTurn, OfLive, OwnsOnly
  <2> QED BY <1>1, <1>2, <2>3, <2>4, <2>5, GoesOn
<1> QED BY <1>4, <1>5

LEMMA SessionEndsKeeps ==
  ASSUME IInv, NEW t \in Slots, SessionEnds(t)
  PROVE  IInv'
<1>1. tick[t].pc = "session" /\ "complete" \in Stages
  BY DEF SessionEnds, Stages, Workings
<1>2. PICK i \in 1..MaxIterations, s \in 1..MaxShift, d \in Discs :
        i = tick[t].it /\ s = tick[t].shift /\ d = tick[t].disc
  BY <1>1, WorkFacts DEF Workings
<1>3. PICK end \in {"DONE", "ATTENTION", "ERROR"} :
        sess' = [sess EXCEPT ![i][s][d] = IF end = "DONE" THEN @ \cup {end} ELSE @]
  BY <1>2 DEF SessionEnds
<1>4. sess \in SessionTables /\ sess[i][s][d] \in SUBSET {"DONE", "ACTIVE"}
  BY WorkFacts, EntryOf, Zenon DEF TypeOK, SessionTables
<1>5. PICK x \in SUBSET {"DONE", "ACTIVE"} :
        x = IF end = "DONE" THEN sess[i][s][d] \cup {end} ELSE sess[i][s][d]
  BY <1>4
<1>6. sess' = [sess EXCEPT ![i][s][d] = x]
  BY <1>3, <1>5
<1>7. sess' \in SessionTables
  BY <1>4, <1>6, EntrySet DEF SessionTables
<1>8. TablesOK /\ UNCHANGED <<limit, blueprint, iter, board, draft, trampled>>
  BY <1>7, WorkFacts DEF SessionEnds, TickUnchanged, history, TablesOK, TypeOK
<1>9. PICK r \in TickRow : /\ Put(t, "complete") = [tick EXCEPT ![t] = r]
                           /\ r.pc = "complete" /\ r.it = tick[t].it /\ r.shift = tick[t].shift
                           /\ r.disc = tick[t].disc /\ r.ticket = tick[t].ticket
  BY <1>1, WorkFacts, TickAt
<1>10. Found(r) /\ (InTurn => OfLive(r) /\ OwnsOnly(r)) /\ tick' = [tick EXCEPT ![t] = r]
  BY <1>1, <1>9, WorkFacts DEF Found, Workings, InTurn, OfLive, OwnsOnly, SessionEnds
<1> QED BY <1>1, <1>8, <1>10, GoesOn

LEMMA CompleteKeeps ==
  ASSUME IInv, NEW t \in Slots, Complete(t)
  PROVE  IInv'
<1>1. tick[t].pc = "complete"
  BY DEF Complete
<1>2. PICK i \in 1..MaxIterations, s \in 1..MaxShift, d \in Discs :
        i = tick[t].it /\ s = tick[t].shift /\ d = tick[t].disc
  BY <1>1, WorkFacts DEF Workings
<1>3. worker' \in Participations
  BY <1>1, ParticipantMoves DEF Complete
<1>4. sess' = [sess EXCEPT ![i][s][d] = {}] /\ sess \in SessionTables
  BY <1>2, WorkFacts DEF Complete, TypeOK
<1>5. sess' \in SessionTables
  BY <1>4, EntrySet DEF SessionTables
<1>6. TablesOK /\ UNCHANGED <<limit, blueprint, iter, board, draft, trampled>>
  BY <1>3, <1>5, WorkFacts DEF Complete, TickUnchanged, history, TablesOK, TypeOK
<1>7. /\ Found(Idle) /\ OfLive(Idle) /\ OwnsOnly(Idle) /\ tick' = [tick EXCEPT ![t] = Idle]
  BY IdleFacts DEF Found, OfLive, OwnsOnly, Workings, Complete
<1> QED BY <1>1, <1>6, <1>7, IdleFacts, GoesOn

-----------------------------------------------------------------------------
(* Iterations. *)

(* A step changes iterations, but for the work of ticks.                   *)
LEMMA IterationStep ==
  ASSUME Base, iter' \in Seq(IterationRow), Len(iter') <= limit.iterations,
         DOMAIN iter \subseteq DOMAIN iter', worker' \in Participations,
         UNCHANGED <<limit, blueprint, sess, board, draft, trampled>>,
         crashes' \in Nat, losses' \in Nat, edits' \in Nat, acts' \in Nat,
         NEW t, tick' = tick \/ (t \in Slots /\ tick' = [tick EXCEPT ![t] = Idle])
                             \/ \E r \in TickRow : /\ t \in Slots /\ Found(r)
                                                   /\ tick' = [tick EXCEPT ![t] = r]
  PROVE  Base'
<1>1. TypeOK /\ DraftHolds /\ \A u \in Slots : Found(tick[u])
  BY DEF Base
<1>2. Found(Idle)
  BY IdleFacts DEF Found, Workings
<1>3. CASE tick' = tick
  <2>1. TypeOK'
    BY <1>1, <1>3 DEF TypeOK
  <2>2. DraftHolds' /\ \A u \in Slots : Found(tick[u])'
    BY <1>1, <1>3 DEF DraftHolds, Found
  <2> QED BY <2>1, <2>2 DEF Base
<1>4. ASSUME NEW r \in TickRow, t \in Slots, Found(r), tick' = [tick EXCEPT ![t] = r]
      PROVE  Base'
  <2>1. /\ tick' \in [Slots -> TickRow] /\ tick'[t] = r
        /\ \A u \in Slots \ {t} : tick'[u] = tick[u]
    BY <1>1, <1>4, TickPut
  <2>2. TypeOK'
    BY <1>1, <2>1 DEF TypeOK
  <2>3. DraftHolds' /\ \A u \in Slots : Found(tick[u])'
    BY <1>1, <1>4, <2>1 DEF DraftHolds, Found
  <2> QED BY <2>2, <2>3 DEF Base
<1> QED BY <1>2, <1>3, <1>4, IdleFacts

LEMMA InceptedFacts ==
  ASSUME TypeOK
  PROVE  /\ Incepted(0) \in IterationRow /\ Incepted(0).status = "WAITING" /\ Incepted(0).heirs = 0
         /\ \A n : Incepted(n) = Incepted(0)
<1>1. DOMAIN blueprint \subseteq 1..MaxShift /\ MaxShift = 4
  BY LimitFacts
<1>2. PICK s : s = IF blueprint = <<>> THEN 0 ELSE 1
  OBVIOUS
<1>3. s \in 0..4
  BY <1>2
<1> QED BY <1>1, <1>2, <1>3 DEF Incepted, IterationRow

LEMMA StaffFacts ==
  ASSUME TypeOK, NEW i \in 1..MaxIterations
  PROVE  Staff(i) \in Participations
<1>1. PICK g : g = [s \in DOMAIN worker[i] |-> [d \in Discs |->
           IF s \in DOMAIN blueprint /\ d \in blueprint[s].staff THEN "null" ELSE "absent"]]
  OBVIOUS
<1>2. DOMAIN worker[i] = 1..MaxShift
  BY DEF TypeOK, Participations
<1>3. PICK S : S = {"absent", "null", "SELECTED", "ACTIVATED", "COMPLETED"}
  OBVIOUS
<1>4. g \in [1..MaxShift -> [Discs -> S]]
  BY <1>1, <1>2, <1>3
<1>5. worker \in [1..MaxIterations -> [1..MaxShift -> [Discs -> S]]]
  BY <1>3 DEF TypeOK, Participations
<1>6. [worker EXCEPT ![i] = g] \in [1..MaxIterations -> [1..MaxShift -> [Discs -> S]]]
  BY <1>4, <1>5
<1>7. Staff(i) = [worker EXCEPT ![i] = g]
  BY <1>1 DEF Staff
<1> QED BY <1>3, <1>6, <1>7 DEF Participations

LEMMA NextShiftFacts ==
  ASSUME TypeOK, NEW t \in Slots, tick[t].it \in DOMAIN iter, NextShifts(t) # {}
  PROVE  NextShift(t) \in 1..4
<1>1. iter[tick[t].it] \in IterationRow
  BY LimitFacts
<1>2. NextShifts(t) \in SUBSET Nat /\ NextShifts(t) \subseteq 1..MaxShift
  BY <1>1 DEF NextShifts, IterationRow, MaxShift
<1>3. \E n \in NextShifts(t) : \A m \in NextShifts(t) : n <= m
  BY <1>2, LeastNumber
<1> QED BY <1>2, <1>3 DEF NextShift, MaxShift

LEMMA AdvanceShiftKeeps ==
  ASSUME IInv, NEW t \in Slots, AdvanceShift(t)
  PROVE  IInv'
<1>1. tick[t].pc = "advance" /\ Base
  BY DEF AdvanceShift, IInv
<1>2. PICK i \in DOMAIN iter : i = tick[t].it
  BY <1>1, WorkFacts DEF Workings
<1>3. /\ TypeOK /\ tick[t] \in TickRow /\ iter[i] \in IterationRow /\ DOMAIN iter = 1..Len(iter)
      /\ Len(iter) \in Nat /\ limit.iterations \in 1..MaxIterations /\ MaxIterations \in Nat
  BY WorkFacts, LimitFacts
<1>4. /\ UNCHANGED <<limit, blueprint, sess, board, draft, trampled>>
      /\ crashes' \in Nat /\ losses' \in Nat /\ edits' \in Nat /\ acts' \in Nat
  BY <1>3 DEF AdvanceShift, TickUnchanged, history, TypeOK
<1>5. ASSUME InTurn PROVE /\ iter[i].status # "FINISHED" /\ iter[i].heirs = 0
                          /\ \A u \in Slots \ {t} : tick[u].pc = "none"
  BY <1>1, <1>2, <1>5 DEF InTurn, OneAtATime, Succession, OfLive, Workings
<1>6. CASE NextShifts(t) # {}
  <2>1. PICK s : s = NextShift(t)
    OBVIOUS
  <2>2. s \in 1..4
    BY <1>2, <1>3, <1>6, <2>1, NextShiftFacts
  <2>3. PICK x : x = [iter[i] EXCEPT !.shift = s,
                 !.status = IF iter[i].status = "WAITING" THEN "RUNNING" ELSE iter[i].status]
    OBVIOUS
  <2>4. /\ x \in IterationRow /\ x.heirs = iter[i].heirs
        /\ x.status = "FINISHED" <=> iter[i].status = "FINISHED"
    <3>1. PICK c : c = iter[i]
      OBVIOUS
    <3>2. PICK status \in {"WAITING", "RUNNING", "FINISHED"} :
            /\ status = IF c.status = "WAITING" THEN "RUNNING" ELSE c.status
            /\ status = "FINISHED" <=> c.status = "FINISHED"
      BY <1>3, <3>1 DEF IterationRow
    <3>3. x = [c EXCEPT !.shift = s, !.status = status]
      BY <2>3, <3>1, <3>2
    <3>4. c \in IterationRow /\ s \in 0..4
      BY <1>3, <2>2, <3>1
    <3> QED BY <3>1, <3>2, <3>3, <3>4 DEF IterationRow, MaxShift
  <2>5. PICK r : r = [tick[t] EXCEPT !.pc = "cleanup", !.shift = s]
    OBVIOUS
  <2>6. r \in TickRow /\ r.pc = "cleanup" /\ r.it = i /\ r.shift = s
    <3>1. "cleanup" \in Stages /\ s \in 0..4
      BY <2>2 DEF Stages, Workings
    <3> QED BY <1>2, <1>3, <2>5, <3>1 DEF TickRow, MaxShift
  <2>7. iter' = [iter EXCEPT ![i] = x] /\ worker' = worker
    BY <1>2, <1>6, <2>1, <2>3 DEF AdvanceShift
  <2>8. tick' = [tick EXCEPT ![t] = Idle] \/ tick' = [tick EXCEPT ![t] = r]
    BY <1>6, <2>1, <2>5 DEF AdvanceShift
  <2>9. /\ iter' \in Seq(IterationRow) /\ Len(iter') = Len(iter) /\ DOMAIN iter' = DOMAIN iter
        /\ iter'[i] = x /\ \A j \in DOMAIN iter : j # i => iter'[j] = iter[j]
    BY <1>3, <2>4, <2>7 DEF TypeOK
  <2>10. Found(r)
    BY <2>2, <2>6 DEF Found, Workings, MaxShift
  <2>11. Len(iter') <= limit.iterations /\ worker' \in Participations
    BY <1>3, <2>7, <2>9 DEF TypeOK
  <2>12. Base'
    BY <1>1, <1>4, <2>6, <2>8, <2>9, <2>10, <2>11, IterationStep
  <2>13. ASSUME InTurn PROVE InTurn'
    <3>1. OneAtATime'
      BY <1>1, <1>3, <2>6, <2>8, <2>13, IdleFacts, StaysAlone DEF InTurn
    <3>2. Succession'
      BY <1>5, <2>4, <2>9, <2>13 DEF InTurn, Succession
    <3>3. \A u \in Slots \ {t} : tick'[u].pc = "none"
      BY <1>3, <1>5, <2>6, <2>8, <2>13, IdleFacts, TickPut
    <3>4. tick'[t].pc = "none" \/ tick'[t] = r
      BY <1>3, <2>6, <2>8, IdleFacts, TickPut
    <3>5. \A u \in Slots : OfLive(tick[u])' /\ OwnsOnly(tick[u])'
      BY <1>5, <2>4, <2>6, <2>9, <2>13, <3>3, <3>4 DEF OfLive, OwnsOnly, Workings
    <3> QED BY <3>1, <3>2, <3>5 DEF InTurn
  <2> QED BY <1>4, <2>12, <2>13 DEF IInv, Serial
<1>7. CASE NextShifts(t) = {}
  <2>1. PICK x : x = [iter[i] EXCEPT !.shift = 0, !.status = "FINISHED", !.heirs = iter[i].heirs + 1]
    OBVIOUS
  <2>2. x \in IterationRow /\ x.heirs = iter[i].heirs + 1 /\ x.status = "FINISHED"
    <3>1. PICK c, n : c = iter[i] /\ n = iter[i].heirs + 1
      OBVIOUS
    <3>2. c \in IterationRow /\ n \in Nat /\ 0 \in 0..4
      BY <1>3, <3>1 DEF IterationRow
    <3>3. x = [c EXCEPT !.shift = 0, !.status = "FINISHED", !.heirs = n]
      BY <2>1, <3>1
    <3> QED BY <3>1, <3>2, <3>3 DEF IterationRow, MaxShift
  <2>3. PICK y : y = Incepted(i)
    OBVIOUS
  <2>4. y \in IterationRow /\ y.status = "WAITING" /\ y.heirs = 0
    BY <1>3, <2>3, InceptedFacts
  <2>5. PICK q : q = [iter EXCEPT ![i] = x]
    OBVIOUS
  <2>6. /\ q \in Seq(IterationRow) /\ Len(q) = Len(iter) /\ DOMAIN q = DOMAIN iter
        /\ q[i] = x /\ \A j \in DOMAIN iter : j # i => q[j] = iter[j]
    BY <1>3, <2>2, <2>5 DEF TypeOK
  <2>7. iter' = Append(q, y) /\ Len(iter) < limit.iterations /\ worker' = Staff(Len(iter) + 1)
        /\ tick' = [tick EXCEPT ![t] = Idle]
    BY <1>2, <1>7, <2>1, <2>3, <2>5 DEF AdvanceShift
  <2>8. /\ iter' \in Seq(IterationRow) /\ Len(iter') = Len(iter) + 1
        /\ DOMAIN iter' = 1..(Len(iter) + 1) /\ iter'[Len(iter) + 1] = y
        /\ \A j \in DOMAIN iter : iter'[j] = q[j]
    BY <1>3, <2>4, <2>6, <2>7
  <2>9. worker' \in Participations /\ Len(iter') <= limit.iterations /\ DOMAIN iter \subseteq DOMAIN iter'
    BY <1>3, <2>7, <2>8, StaffFacts
  <2>10. Base'
    BY <1>1, <1>4, <2>7, <2>8, <2>9, IterationStep
  <2>11. ASSUME InTurn PROVE InTurn'
    <3>1. OneAtATime'
      BY <1>1, <2>7, <2>11, IdleFacts, StaysAlone DEF InTurn
    <3>2. Succession'
      <4>1. \A j \in DOMAIN iter : iter'[j].heirs = IF iter'[j].status = "FINISHED" THEN 1 ELSE 0
        BY <1>5, <2>2, <2>6, <2>8, <2>11 DEF InTurn, Succession
      <4>2. \A j \in DOMAIN iter' : j \in DOMAIN iter \/ j = Len(iter) + 1
        BY <1>3, <2>8
      <4> QED BY <2>4, <2>8, <4>1, <4>2 DEF Succession
    <3>3. \A u \in Slots : tick'[u].pc = "none"
      BY <1>3, <1>5, <2>7, <2>11, IdleFacts, TickPut
    <3>4. \A u \in Slots : OfLive(tick[u])' /\ OwnsOnly(tick[u])'
      BY <3>3 DEF OfLive, OwnsOnly, Workings
    <3> QED BY <3>1, <3>2, <3>4 DEF InTurn
  <2> QED BY <1>4, <2>10, <2>11 DEF IInv, Serial
<1> QED BY <1>6, <1>7

-----------------------------------------------------------------------------
(* The board. *)

(* A step of the one tick that writes to the board.                        *)
LEMMA BoardStep ==
  ASSUME IInv, NEW t \in Slots, NEW r \in TickRow, tick' = [tick EXCEPT ![t] = r],
         board' \in [Tickets -> TicketRow], trampled' \subseteq Tickets, acts' \in Nat,
         UNCHANGED <<limit, blueprint, iter, worker, sess, draft, crashes, losses, edits>>,
         tick[t].pc # "none", Found(r), InTurn => OfLive(r) /\ OwnsOnly(r)'
  PROVE  IInv'
<1>1. TypeOK /\ Base /\ DraftHolds /\ \A u \in Slots : Found(tick[u])
  BY DEF IInv, Base
<1>2. /\ tick' \in [Slots -> TickRow] /\ tick'[t] = r
      /\ \A u \in Slots \ {t} : tick'[u] = tick[u]
  BY <1>1, TickPut
<1>3. TypeOK' /\ DraftHolds' /\ \A u \in Slots : Found(tick[u])'
  BY <1>1, <1>2 DEF TypeOK, DraftHolds, Found
<1>4. ASSUME InTurn PROVE InTurn'
  <2>1. OneAtATime' /\ \A u \in Slots \ {t} : tick'[u].pc = "none"
    BY <1>1, <1>4, StaysAlone DEF InTurn
  <2>2. Succession'
    BY <1>4 DEF InTurn, Succession
  <2>3. ASSUME NEW u \in Slots PROVE OfLive(tick[u])' /\ OwnsOnly(tick[u])'
    <3>1. CASE u = t
      <4>1. OfLive(r)' /\ OwnsOnly(r)'
        BY <1>4 DEF OfLive
      <4> QED BY <1>2, <3>1, <4>1 DEF OfLive, OwnsOnly
    <3>2. CASE u # t
      BY <2>1, <3>2 DEF OfLive, OwnsOnly, Workings
    <3> QED BY <3>1, <3>2
  <2> QED BY <2>1, <2>2, <2>3 DEF InTurn
<1> QED BY <1>3, <1>4 DEF IInv, Base, Serial

LEMMA CollectLocksKeeps ==
  ASSUME IInv, NEW t \in Slots, CollectLocks(t)
  PROVE  IInv'
<1>1. tick[t].pc = "collect" /\ "assign" \in Stages
  BY DEF CollectLocks, Stages, Workings
<1>2. PICK d \in Discs : d = tick[t].disc
  BY <1>1, WorkFacts
<1>3. board \in [Tickets -> TicketRow] /\ trampled \subseteq Tickets /\ acts \in Nat
  BY WorkFacts DEF TypeOK
<1>4. board' = Released(d)
  BY <1>2 DEF CollectLocks
<1>5. ASSUME NEW x \in Tickets
      PROVE  board'[x] \in TicketRow /\ board'[x].owner # d
  <2>1. PICK b : b = board[x]
    OBVIOUS
  <2>2. CASE b.owner # d
    BY <1>3, <1>4, <1>5, <2>1, <2>2 DEF Released
  <2>3. CASE b.owner = d
    <3>1. PICK status : status = IF Type[x] = "TASK" /\ b.status = "IN_PROGRESS"
                                 THEN "SELECTED" ELSE b.status
      OBVIOUS
    <3>2. board'[x] = [b EXCEPT !.owner = None, !.status = status]
      BY <1>4, <1>5, <2>1, <2>3, <3>1 DEF Released
    <3>3. b \in TicketRow /\ [b EXCEPT !.owner = None, !.status = status] \in TicketRow
      BY <1>3, <1>5, <2>1, <3>1 DEF TicketRow
    <3>4. board'[x].owner = None
      BY <3>2, <3>3 DEF TicketRow
    <3> QED BY <1>2, <3>2, <3>3, <3>4, TemporalAssumption
  <2> QED BY <2>2, <2>3
<1>6. board' \in [Tickets -> TicketRow]
  BY <1>4, <1>5 DEF Released
<1>7. PICK r \in TickRow : /\ Put(t, "assign") = [tick EXCEPT ![t] = r]
                           /\ r.pc = "assign" /\ r.it = tick[t].it /\ r.shift = tick[t].shift
                           /\ r.disc = d
  BY <1>1, <1>2, WorkFacts, TickAt
<1>8. /\ UNCHANGED <<limit, blueprint, iter, worker, sess, draft, crashes, losses, edits>>
      /\ trampled' = trampled /\ acts' = acts /\ tick' = [tick EXCEPT ![t] = r]
  BY <1>7 DEF CollectLocks, TickUnchanged, history
<1>9. Found(r)
  BY <1>1, <1>2, <1>7, WorkFacts DEF Found, Workings
<1>10. InTurn => OfLive(r) /\ OwnsOnly(r)'
  BY <1>1, <1>5, <1>7 DEF InTurn, OfLive, OwnsOnly, Workings
<1> QED BY <1>1, <1>3, <1>6, <1>8, <1>9, <1>10, BoardStep

LEMMA LockTicketKeeps ==
  ASSUME IInv, NEW t \in Slots, LockTicket(t)
  PROVE  IInv'
<1>1. tick[t].pc = "take" /\ "session" \in Stages
  BY DEF LockTicket, Stages, Workings
<1>2. PICK d \in Discs, x \in Tickets : d = tick[t].disc /\ x = tick[t].ticket
  BY <1>1, WorkFacts
<1>3. board \in [Tickets -> TicketRow] /\ trampled \subseteq Tickets /\ acts \in Nat
  BY WorkFacts DEF TypeOK
<1>4. PICK b : b = [board[x] EXCEPT !.owner = d]
  OBVIOUS
<1>5. b \in TicketRow /\ b.owner = d /\ b.status = board[x].status
  BY <1>3, <1>4 DEF TicketRow
<1>6. board' = [board EXCEPT ![x] = b]
  BY <1>2, <1>4 DEF LockTicket
<1>7. /\ board' \in [Tickets -> TicketRow] /\ board'[x] = b
      /\ \A y \in Tickets \ {x} : board'[y] = board[y]
  BY <1>3, <1>5, <1>6
<1>8. PICK r \in TickRow : /\ Put(t, "session") = [tick EXCEPT ![t] = r]
                           /\ r.pc = "session" /\ r.it = tick[t].it /\ r.shift = tick[t].shift
                           /\ r.disc = d /\ r.ticket = x
  BY <1>1, <1>2, WorkFacts, TickAt
<1>9. /\ UNCHANGED <<limit, blueprint, iter, worker, sess, draft, crashes, losses, edits>>
      /\ trampled' = trampled \ {x} /\ acts' = acts /\ tick' = [tick EXCEPT ![t] = r]
  BY <1>2, <1>8 DEF LockTicket, history
<1>10. Found(r)
  BY <1>1, <1>2, <1>8, WorkFacts, TemporalAssumption DEF Found, Workings
<1>11. ASSUME InTurn PROVE OfLive(r) /\ OwnsOnly(r)'
  <2>1. /\ \A y \in Tickets : board[y].owner = d => y \in trampled
        /\ board[x].status # "absent"
    BY <1>1, <1>2, <1>11 DEF InTurn, OwnsOnly
  <2>2. OwnsOnly(r)'
    BY <1>5, <1>7, <1>8, <1>9, <2>1 DEF OwnsOnly
  <2> QED BY <1>1, <1>8, <1>11, <2>2 DEF InTurn, OfLive, Workings
<1> QED BY <1>1, <1>3, <1>7, <1>9, <1>10, <1>11, BoardStep

-----------------------------------------------------------------------------
(* What a session does to its ticket keeps the owners. *)

SameOwners(b, c) ==
  /\ c \in [Tickets -> TicketRow]
  /\ \A x \in Tickets : c[x].owner = b[x].owner /\ (b[x].status # "absent" => c[x].status # "absent")

LEMMA StatusPut ==
  ASSUME NEW b \in [Tickets -> TicketRow], NEW x \in Tickets,
         NEW status \in {"REFINE", "BACKLOG", "SELECTED", "IN_PROGRESS", "REVIEW", "DONE", "BLOCKED"}
  PROVE  SameOwners(b, [b EXCEPT ![x].status = status])
<1>1. PICK c : c = [b[x] EXCEPT !.status = status]
  OBVIOUS
<1>2. c \in TicketRow /\ c.status = status /\ c.owner = b[x].owner
  BY <1>1 DEF TicketRow
<1>3. PICK a : a = [b EXCEPT ![x] = c]
  OBVIOUS
<1>4. SameOwners(b, a)
  BY <1>2, <1>3 DEF SameOwners
<1> QED BY <1>1, <1>3, <1>4

LEMMA BubbledFacts ==
  ASSUME NEW b \in [Tickets -> TicketRow], NEW x \in Tickets
  PROVE  SameOwners(b, Bubbled(b, x))
<1>1. SameOwners(b, b)
  BY DEF SameOwners
<1>2. CASE Parent[x] = None
  BY <1>1, <1>2 DEF Bubbled
<1>3. CASE Parent[x] # None
  <2>1. PICK p \in Tickets : p = Parent[x]
    BY <1>3, TemporalAssumption
  <2>2. \A status \in {"IN_PROGRESS", "REVIEW", "BLOCKED"} :
          SameOwners(b, [b EXCEPT ![p].status = status])
    BY StatusPut
  <2>3. \/ Bubbled(b, x) = b
        \/ \E status \in {"IN_PROGRESS", "REVIEW", "BLOCKED"} :
             Bubbled(b, x) = [b EXCEPT ![p].status = status]
    BY <1>3, <2>1 DEF Bubbled
  <2> QED BY <1>1, <2>2, <2>3
<1> QED BY <1>2, <1>3

LEMMA UpdatedFacts ==
  ASSUME board \in [Tickets -> TicketRow], NEW x \in Tickets,
         NEW what \in {"ready", "bid", "BACKLOG", "BLOCKED", "SELECTED", "IN_PROGRESS", "REVIEW", "DONE"}
  PROVE  SameOwners(board, Updated(x, what))
<1>1. SameOwners(board, board)
  BY DEF SameOwners
<1>2. PICK b : b = (CASE what = "ready" -> [board EXCEPT ![x].ready = TRUE]
                 [] what = "bid"   -> [board EXCEPT ![x].bid = TRUE]
                 [] OTHER          -> [board EXCEPT ![x].status = what])
  OBVIOUS
<1>3. SameOwners(board, b)
  <2>1. CASE what \notin {"ready", "bid"}
    <3>1. b = [board EXCEPT ![x].status = what]
      BY <1>2, <2>1
    <3> QED BY <2>1, <3>1, StatusPut
  <2>2. CASE what \in {"ready", "bid"}
    <3>1. PICK c \in {[board[x] EXCEPT !.ready = TRUE], [board[x] EXCEPT !.bid = TRUE]} :
            b = [board EXCEPT ![x] = c]
      BY <1>2, <2>2
    <3>2. board[x] \in TicketRow
      OBVIOUS
    <3>3. c \in TicketRow /\ c.owner = board[x].owner /\ c.status = board[x].status
      BY <3>1, <3>2 DEF TicketRow
    <3> QED BY <3>1, <3>3 DEF SameOwners
  <2> QED BY <2>1, <2>2
<1>4. SameOwners(b, Bubbled(b, x))
  BY <1>3, BubbledFacts DEF SameOwners
<1>5. SameOwners(board, Bubbled(b, x))
  BY <1>3, <1>4 DEF SameOwners
<1> QED BY <1>1, <1>2, <1>5 DEF Updated

LEMMA BornFacts ==
  ASSUME board \in [Tickets -> TicketRow], NEW y \in Tickets, board[y].status = "absent"
  PROVE  /\ Born(y) \in [Tickets -> TicketRow] /\ Born(y)[y].owner = None
         /\ \A x \in Tickets \ {y} : Born(y)[x] = board[x]
<1>1. PICK c : c = [status |-> FirstStatus(y), owner |-> None, bid |-> FALSE, ready |-> FALSE]
  OBVIOUS
<1>2. c \in TicketRow /\ c.owner = None
  BY <1>1 DEF TicketRow, FirstStatus
<1>3. Born(y) = [board EXCEPT ![y] = c]
  BY <1>1 DEF Born
<1> QED BY <1>2, <1>3

LEMMA UseTicketKeeps ==
  ASSUME IInv, NEW t \in Slots, UseTicket(t)
  PROVE  IInv'
<1>1. /\ tick[t].pc = "session" /\ tick' = tick /\ trampled' = trampled /\ acts' = acts + 1
      /\ UNCHANGED <<limit, blueprint, iter, worker, sess, draft, crashes, losses, edits>>
  BY DEF UseTicket
<1>2. PICK d \in Discs, z \in Tickets : d = tick[t].disc /\ z = tick[t].ticket
  BY <1>1, WorkFacts
<1>3. board \in [Tickets -> TicketRow] /\ trampled \subseteq Tickets /\ acts \in Nat
  BY WorkFacts DEF TypeOK
<1>4. PICK r \in TickRow : r = tick[t]
  BY WorkFacts
<1>5. tick' = [tick EXCEPT ![t] = r] /\ Found(r)
  BY <1>1, <1>4, WorkFacts DEF TypeOK
<1>6. PICK x \in Locked(d) :
        \E what \in Instructed(ShiftOf(t), Kind[d], Type[x]) :
          IF what = "child" THEN \E y \in NewChildren(x) : board' = Born(y)
          ELSE board' = Updated(x, what)
  BY <1>2 DEF UseTicket
<1> PICK what \in Instructed(ShiftOf(t), Kind[d], Type[x]) :
          IF what = "child" THEN \E y \in NewChildren(x) : board' = Born(y)
          ELSE board' = Updated(x, what)
  BY <1>6
<1>7. x \in Tickets
  BY DEF Locked, OrElse
<1>8. what \in {"child", "ready", "bid", "BACKLOG", "BLOCKED", "SELECTED", "IN_PROGRESS", "REVIEW", "DONE"}
  <2>1. PICK shift, kind, type : shift = ShiftOf(t) /\ kind = Kind[d] /\ type = Type[x]
    OBVIOUS
  <2>2. what \in InstructedPM(shift, type) \cup InstructedWorker(shift)
    BY <2>1 DEF Instructed, agile_addon, Agile
  <2> QED BY <2>2 DEF InstructedPM, InstructedWorker
<1>9. acts' \in Nat /\ trampled' \subseteq Tickets /\ tick[t].pc # "none"
  BY <1>1, <1>3
<1>10. UNCHANGED <<limit, blueprint, iter, worker, sess, draft, crashes, losses, edits>>
  BY <1>1
<1>11. Found(r) /\ tick' = [tick EXCEPT ![t] = r]
  BY <1>5
<1>12. CASE what = "child"
  <2>1. PICK y \in NewChildren(x) : board' = Born(y)
    BY <1>12
  <2>2. /\ board' \in [Tickets -> TicketRow] /\ y \in Tickets /\ board[y].status = "absent"
        /\ board'[y].owner = None /\ \A u \in Tickets \ {y} : board'[u] = board[u]
    BY <1>3, <2>1, BornFacts DEF NewChildren
  <2>3. ASSUME InTurn PROVE OfLive(r) /\ OwnsOnly(r)'
    <3>1. OfLive(r) /\ OwnsOnly(r)
      BY <1>4, <2>3 DEF InTurn
    <3>2. y # z
      BY <1>1, <1>2, <1>4, <2>2, <3>1 DEF OwnsOnly
    <3>3. r.pc = "session" /\ r.disc = d /\ r.ticket = z /\ d # None
      BY <1>1, <1>2, <1>4, TemporalAssumption
    <3>4. \A u \in Tickets : board'[u].owner = d => board[u].owner = d
      BY <2>2, <3>3
    <3>5. board'[z] = board[z]
      BY <1>2, <2>2, <3>2
    <3>6. /\ board'[z].status # "absent"
          /\ \A u \in Tickets : board'[u].owner = d => u \in trampled' \cup {z}
          /\ board'[z].owner = d \/ z \in trampled'
      BY <1>1, <3>1, <3>3, <3>4, <3>5 DEF OwnsOnly
    <3>7. PICK own : own = {u \in Tickets : board'[u].owner = r.disc}
      OBVIOUS
    <3>8. own \subseteq trampled' \cup {z} /\ z \in own \cup trampled'
      BY <1>2, <3>3, <3>6, <3>7
    <3> QED BY <3>1, <3>3, <3>6, <3>7, <3>8 DEF OwnsOnly
  <2> QED BY <1>9, <1>10, <1>11, <2>2, <2>3, BoardStep
<1>13. CASE what # "child"
  <2>1. SameOwners(board, board')
    <3>1. board' = Updated(x, what)
      BY <1>13
    <3> QED BY <1>3, <1>7, <1>8, <1>13, <3>1, UpdatedFacts
  <2>2. ASSUME InTurn PROVE OfLive(r) /\ OwnsOnly(r)'
    <3>1. OfLive(r) /\ OwnsOnly(r)
      BY <1>4, <2>2 DEF InTurn
    <3>2. r.pc = "session" /\ r.disc = d /\ r.ticket = z
      BY <1>1, <1>2, <1>4
    <3>3. /\ \A u \in Tickets : board'[u].owner = board[u].owner
          /\ board[z].status # "absent" => board'[z].status # "absent"
      BY <1>2, <2>1 DEF SameOwners
    <3>4. /\ board'[z].status # "absent"
          /\ \A u \in Tickets : board'[u].owner = d => u \in trampled' \cup {z}
          /\ board'[z].owner = d \/ z \in trampled'
      BY <1>1, <1>2, <3>1, <3>2, <3>3 DEF OwnsOnly
    <3>5. PICK own : own = {u \in Tickets : board'[u].owner = r.disc}
      OBVIOUS
    <3>6. own \subseteq trampled' \cup {z} /\ z \in own \cup trampled'
      BY <1>2, <3>2, <3>4, <3>5
    <3> QED BY <3>1, <3>2, <3>4, <3>5, <3>6 DEF OwnsOnly
  <2>3. board' \in [Tickets -> TicketRow]
    BY <2>1 DEF SameOwners
  <2> QED BY <1>9, <1>10, <1>11, <2>2, <2>3, BoardStep
<1> QED BY <1>12, <1>13

LEMMA SaveTicketKeeps ==
  ASSUME IInv, SaveTicket
  PROVE  IInv'
<1>1. TypeOK /\ DraftHolds /\ \A u \in Slots : Found(tick[u])
  BY DEF IInv, Base
<1>2. PICK x \in Tickets, a \in TicketRow : x = draft.ticket /\ a = draft.row
  BY <1>1 DEF SaveTicket, DraftHolds, TypeOK
<1>3. PICK status \in {"REFINE", "SELECTED", "REVIEW"} :
        board' = [board EXCEPT ![x] = [a EXCEPT !.status = status]]
  BY <1>2 DEF SaveTicket
<1>4. PICK b : b = [a EXCEPT !.status = status]
  OBVIOUS
<1>5. b \in TicketRow /\ b.owner = a.owner /\ b.status # "absent"
  BY <1>4 DEF TicketRow
<1>6. /\ board' \in [Tickets -> TicketRow] /\ board'[x] = b
      /\ \A y \in Tickets \ {x} : board'[y] = board[y]
  BY <1>1, <1>3, <1>4, <1>5 DEF TypeOK
<1>7. trampled' = IF board[x].owner # a.owner THEN trampled \cup {x} ELSE trampled
  BY <1>2 DEF SaveTicket
<1>8. UNCHANGED <<limit, blueprint, iter, worker, sess, tick, history>>
      /\ draft' = [ticket |-> None, row |-> None]
  BY DEF SaveTicket
<1>9. TypeOK'
  BY <1>1, <1>6, <1>7, <1>8 DEF TypeOK, history
<1>10. DraftHolds' /\ \A u \in Slots : Found(tick[u])'
  BY <1>1, <1>8 DEF DraftHolds, Found
<1>11. ASSUME InTurn PROVE InTurn'
  <2>1. OneAtATime' /\ Succession'
    BY <1>8, <1>11 DEF InTurn, OneAtATime, Succession
  <2>2. ASSUME NEW t \in Slots PROVE OfLive(tick[t])' /\ OwnsOnly(tick[t])'
    <3>1. PICK r : r = tick[t]
      OBVIOUS
    <3>2. OfLive(r) /\ OwnsOnly(r) /\ Found(r) /\ r \in TickRow
      BY <1>1, <1>11, <3>1 DEF InTurn, TypeOK
    <3>3. r.pc \in {"take", "session"} => r.ticket \in Tickets
      BY <3>2 DEF Found, TickRow
    <3>4. trampled \subseteq trampled' /\ (board'[x].owner = board[x].owner \/ x \in trampled')
      BY <1>5, <1>6, <1>7
    <3>5. OwnsOnly(r)'
      BY <1>5, <1>6, <3>2, <3>3, <3>4 DEF OwnsOnly
    <3>6. OfLive(r)' /\ tick'[t] = r
      BY <1>8, <3>1, <3>2 DEF OfLive
    <3> QED BY <3>5, <3>6 DEF OfLive, OwnsOnly
  <2> QED BY <2>1, <2>2 DEF InTurn
<1> QED BY <1>8, <1>9, <1>10, <1>11 DEF IInv, Base, Serial

-----------------------------------------------------------------------------
(* The operator. *)

(* What an operator's request may do while a tick is under way.            *)
LEMMA OperatorStep ==
  ASSUME IInv, Edit, UNCHANGED <<board, trampled>>,
         blueprint' \in Seq(ShiftPlan), Len(blueprint') <= MaxShift,
         iter' \in Seq(IterationRow), Len(iter') <= limit.iterations,
         DOMAIN iter \subseteq DOMAIN iter',
         \A i \in DOMAIN iter :
           /\ iter'[i].heirs = iter[i].heirs
           /\ iter'[i].status = "FINISHED" <=> iter[i].status = "FINISHED",
         \A i \in DOMAIN iter' \ DOMAIN iter :
           iter'[i].heirs = 0 /\ iter'[i].status # "FINISHED",
         worker' \in Participations, sess' \in SessionTables,
         draft' \in [ticket : Tickets \cup {None}, row : TicketRow \cup {None}], DraftHolds'
  PROVE  IInv'
<1>1. TypeOK /\ \A u \in Slots : Found(tick[u])
  BY DEF IInv, Base
<1>2. UNCHANGED <<limit, tick, crashes, losses, acts>> /\ edits' \in Nat
  BY <1>1 DEF Edit, TypeOK
<1>3. TypeOK'
  BY <1>1, <1>2 DEF TypeOK
<1>4. \A u \in Slots : Found(tick[u])'
  BY <1>1, <1>2 DEF Found
<1>5. ASSUME InTurn PROVE InTurn'
  <2>1. OneAtATime'
    BY <1>2, <1>5 DEF InTurn, OneAtATime
  <2>2. Succession'
    <3>1. \A i \in DOMAIN iter : iter[i].heirs = IF iter[i].status = "FINISHED" THEN 1 ELSE 0
      BY <1>5 DEF InTurn, Succession
    <3>2. \A i \in DOMAIN iter' : iter'[i].heirs = IF iter'[i].status = "FINISHED" THEN 1 ELSE 0
      BY <3>1
    <3> QED BY <3>2 DEF Succession
  <2>3. ASSUME NEW u \in Slots PROVE OfLive(tick[u])' /\ OwnsOnly(tick[u])'
    <3>1. PICK r : r = tick[u]
      OBVIOUS
    <3>2. OfLive(r) /\ OwnsOnly(r) /\ Found(r) /\ tick'[u] = r
      BY <1>1, <1>2, <1>5, <3>1 DEF InTurn
    <3>3. OfLive(r)'
      BY <3>2 DEF OfLive, Found
    <3>4. OwnsOnly(r)'
      BY <3>2 DEF OwnsOnly
    <3> QED BY <3>2, <3>3, <3>4 DEF OfLive, OwnsOnly
  <2> QED BY <2>1, <2>2, <2>3 DEF InTurn
<1> QED BY <1>2, <1>3, <1>4, <1>5 DEF IInv, Base, Serial

(* The types, of what a request leaves as it was.                          *)
LEMMA RequestFacts ==
  ASSUME IInv, Edit
  PROVE  /\ TypeOK /\ DraftHolds
         /\ blueprint \in Seq(ShiftPlan) /\ Len(blueprint) <= MaxShift
         /\ iter \in Seq(IterationRow) /\ Len(iter) <= limit.iterations
         /\ worker \in Participations /\ sess \in SessionTables
         /\ draft \in [ticket : Tickets \cup {None}, row : TicketRow \cup {None}]
         /\ draft' = draft => DraftHolds'
  BY DEF IInv, Base, TypeOK, DraftHolds

LEMMA InitiateKeeps ==
  ASSUME IInv, NEW i \in 1..MaxIterations, Initiate(i)
  PROVE  IInv'
<1>1. /\ Edit /\ i \in DOMAIN iter /\ iter[i].status = "WAITING"
      /\ UNCHANGED <<blueprint, worker, sess, board, draft, trampled>>
  BY DEF Initiate
<1>2. PICK x : x = [iter[i] EXCEPT !.status = "RUNNING"]
  OBVIOUS
<1>3. x \in IterationRow /\ x.heirs = iter[i].heirs /\ x.status = "RUNNING"
  <2>1. PICK c \in IterationRow : c = iter[i]
    BY <1>1, RequestFacts, LimitFacts
  <2> QED BY <1>2, <2>1 DEF IterationRow
<1>4. iter' = [iter EXCEPT ![i] = x]
  BY <1>2 DEF Initiate
<1>5. /\ iter' \in Seq(IterationRow) /\ Len(iter') = Len(iter) /\ DOMAIN iter' = DOMAIN iter
      /\ iter'[i] = x /\ \A j \in DOMAIN iter : j # i => iter'[j] = iter[j]
  BY <1>1, <1>3, <1>4, RequestFacts
<1>6. \A j \in DOMAIN iter : /\ iter'[j].heirs = iter[j].heirs
                             /\ iter'[j].status = "FINISHED" <=> iter[j].status = "FINISHED"
  BY <1>1, <1>3, <1>5
<1> QED BY <1>1, <1>5, <1>6, RequestFacts, OperatorStep

LEMMA InceptKeeps ==
  ASSUME IInv, Incept
  PROVE  IInv'
<1>1. /\ Edit /\ Len(iter) + 1 < limit.iterations
      /\ UNCHANGED <<blueprint, sess, board, draft, trampled>>
  BY DEF Incept
<1>2. PICK y : y = Incepted(0)
  OBVIOUS
<1>3. /\ y \in IterationRow /\ y.status = "WAITING" /\ y.heirs = 0
      /\ iter' = Append(iter, y) /\ worker' = Staff(Len(iter) + 1)
  BY <1>1, <1>2, RequestFacts, InceptedFacts DEF Incept
<1>4. /\ iter \in Seq(IterationRow) /\ Len(iter) \in Nat /\ DOMAIN iter = 1..Len(iter)
      /\ limit.iterations \in 1..MaxIterations /\ MaxIterations \in Nat
  BY <1>1, RequestFacts, LimitFacts
<1>5. /\ iter' \in Seq(IterationRow) /\ Len(iter') = Len(iter) + 1
      /\ DOMAIN iter' = 1..(Len(iter) + 1) /\ iter'[Len(iter) + 1] = y
      /\ \A j \in DOMAIN iter : iter'[j] = iter[j]
  BY <1>3, <1>4
<1>6. Len(iter) + 1 \in 1..MaxIterations /\ Len(iter') <= limit.iterations
  BY <1>1, <1>4, <1>5
<1>7. worker' \in Participations
  BY <1>1, <1>3, <1>6, RequestFacts, StaffFacts
<1>8. \A j \in DOMAIN iter' \ DOMAIN iter : iter'[j].heirs = 0 /\ iter'[j].status # "FINISHED"
  BY <1>3, <1>4, <1>5
<1>9. DOMAIN iter \subseteq DOMAIN iter'
  BY <1>4, <1>5
<1> QED BY <1>1, <1>5, <1>6, <1>7, <1>8, <1>9, RequestFacts, OperatorStep

(* A request that leaves the iterations and the tickets alone.             *)
LEMMA StaffStep ==
  ASSUME IInv, Edit, UNCHANGED <<iter, board, draft, trampled>>,
         blueprint' \in Seq(ShiftPlan), Len(blueprint') <= MaxShift,
         worker' \in Participations, sess' \in SessionTables
  PROVE  IInv'
  BY RequestFacts, OperatorStep

LEMMA SlotDiscKeeps ==
  ASSUME IInv, NEW i \in 1..MaxIterations, NEW s \in 1..MaxShift, NEW d \in Discs,
         SlotDisc(i, s, d)
  PROVE  IInv'
<1>1. Edit /\ UNCHANGED <<blueprint, iter, sess, board, draft, trampled>>
  BY DEF SlotDisc
<1>2. PICK status \in {"SELECTED", "null"} : worker' = [worker EXCEPT ![i][s][d] = status]
  BY DEF SlotDisc, Joins
<1>3. worker' \in Participations
  BY <1>1, <1>2, RequestFacts, EntrySet DEF Participations
<1> QED BY <1>1, <1>3, RequestFacts, StaffStep

LEMMA RemoveDiscKeeps ==
  ASSUME IInv, NEW i \in 1..MaxIterations, NEW s \in 1..MaxShift, NEW d \in Discs,
         RemoveDisc(i, s, d)
  PROVE  IInv'
<1>1. Edit /\ UNCHANGED <<blueprint, iter, board, draft, trampled>>
  BY DEF RemoveDisc
<1>2. worker' = [worker EXCEPT ![i][s][d] = "absent"]
  BY DEF RemoveDisc
<1>3. worker' \in Participations
  BY <1>1, <1>2, RequestFacts, EntrySet DEF Participations
<1>4. sess' = [sess EXCEPT ![i][s][d] = {}] /\ {} \in SUBSET {"DONE", "ACTIVE"}
  BY DEF RemoveDisc
<1>5. sess' \in SessionTables
  BY <1>1, <1>4, RequestFacts, EntrySet DEF SessionTables
<1> QED BY <1>1, <1>3, <1>5, RequestFacts, StaffStep

(* The staff of one shift of the definition is changed.                    *)
LEMMA BlueprintPut ==
  ASSUME IInv, Edit, UNCHANGED <<iter, worker, sess, board, draft, trampled>>,
         NEW s \in DOMAIN blueprint, NEW S \in SUBSET Discs,
         blueprint' = [blueprint EXCEPT ![s].staff = S]
  PROVE  IInv'
<1>1. blueprint \in Seq(ShiftPlan) /\ Len(blueprint) <= MaxShift
  BY RequestFacts
<1>2. PICK c \in ShiftPlan : c = blueprint[s]
  BY <1>1
<1>3. PICK b : b = [c EXCEPT !.staff = S]
  OBVIOUS
<1>4. b \in ShiftPlan
  BY <1>2, <1>3 DEF ShiftPlan
<1>5. blueprint' = [blueprint EXCEPT ![s] = b]
  BY <1>2, <1>3
<1>6. blueprint' \in Seq(ShiftPlan) /\ Len(blueprint') = Len(blueprint)
  BY <1>1, <1>4, <1>5
<1> QED BY <1>1, <1>6, RequestFacts, StaffStep

LEMMA BlueprintKeeps ==
  ASSUME IInv, NEW s \in DOMAIN blueprint, NEW d \in Discs,
         SlotInBlueprint(s, d) \/ RemoveFromBlueprint(s, d)
  PROVE  IInv'
<1>1. Edit /\ UNCHANGED <<iter, worker, sess, board, draft, trampled>>
  BY DEF SlotInBlueprint, RemoveFromBlueprint
<1>2. blueprint[s].staff \in SUBSET Discs
  <2>1. blueprint[s] \in ShiftPlan
    BY <1>1, RequestFacts
  <2> QED BY <2>1 DEF ShiftPlan
<1>3. PICK S \in SUBSET Discs : blueprint' = [blueprint EXCEPT ![s].staff = S]
  <2>1. PICK S, T : S = blueprint[s].staff \cup {d} /\ T = blueprint[s].staff \ {d}
    OBVIOUS
  <2>2. S \in SUBSET Discs /\ T \in SUBSET Discs
    BY <1>2, <2>1
  <2>3. blueprint' = [blueprint EXCEPT ![s].staff = S] \/ blueprint' = [blueprint EXCEPT ![s].staff = T]
    BY <2>1 DEF SlotInBlueprint, RemoveFromBlueprint
  <2> QED BY <2>2, <2>3
<1> QED BY <1>1, <1>3, BlueprintPut

LEMMA OpenTicketKeeps ==
  ASSUME IInv, NEW x \in Tickets, OpenTicket(x)
  PROVE  IInv'
<1>1. Edit /\ UNCHANGED <<blueprint, iter, worker, sess, board, trampled>>
  BY DEF OpenTicket
<1>2. board[x] \in TicketRow /\ board[x].status # "absent"
  BY <1>1, RequestFacts DEF OpenTicket, TypeOK
<1>3. PICK a \in TicketRow : a = board[x] /\ draft' = [ticket |-> x, row |-> a]
  BY <1>2 DEF OpenTicket
<1>4. draft' \in [ticket : Tickets \cup {None}, row : TicketRow \cup {None}] /\ DraftHolds'
  BY <1>2, <1>3 DEF DraftHolds
<1> QED BY <1>1, <1>4, RequestFacts, OperatorStep

-----------------------------------------------------------------------------
(* The invariant. *)

LEMMA InvBegins == Init => IInv
<1> SUFFICES ASSUME Init PROVE IInv
  OBVIOUS
<1>1. PICK plain \in BOOLEAN :
        /\ iter = <<IF plain THEN [Incepted(0) EXCEPT !.shifts = {}, !.shift = 0] ELSE Incepted(0)>>
        /\ worker = [i \in 1..MaxIterations |-> [s \in 1..MaxShift |-> [d \in Discs |->
             IF i = 1 /\ ~plain /\ s \in DOMAIN blueprint /\ d \in blueprint[s].staff
               THEN "null" ELSE "absent"]]]
  BY DEF Init
<1>2. /\ limit \in Limits /\ limit.iterations \in 1..MaxIterations /\ MaxIterations \in Nat
      /\ blueprint \in Seq(ShiftPlan) /\ Len(blueprint) <= MaxShift
  BY TemporalAssumption DEF Init
<1>3. PICK c : c = Incepted(0)
  OBVIOUS
<1>4. c \in IterationRow /\ c.status = "WAITING" /\ c.heirs = 0
  <2>1. Len(blueprint) \in Nat /\ DOMAIN blueprint = 1..Len(blueprint)
    BY <1>2
  <2>2. DOMAIN blueprint \subseteq 1..4
    BY <1>2, <2>1 DEF MaxShift
  <2>3. PICK s : s = IF blueprint = <<>> THEN 0 ELSE 1
    OBVIOUS
  <2>4. s \in 0..4
    BY <2>3
  <2> QED BY <1>3, <2>2, <2>3, <2>4 DEF Incepted, IterationRow, MaxShift
<1>5. PICK x : x = IF plain THEN [c EXCEPT !.shifts = {}, !.shift = 0] ELSE c
  OBVIOUS
<1>6. x \in IterationRow /\ x.status = "WAITING" /\ x.heirs = 0
  <2>1. 0 \in 0..MaxShift
    BY DEF MaxShift
  <2> QED BY <1>4, <1>5, <2>1 DEF IterationRow
<1>7. iter = <<x>>
  BY <1>1, <1>3, <1>5
<1>8. iter \in Seq(IterationRow) /\ Len(iter) = 1 /\ DOMAIN iter = {1} /\ iter[1] = x
  BY <1>6, <1>7
<1>9. worker \in Participations
  BY <1>1 DEF Participations
<1>10. sess \in SessionTables
  BY DEF Init, SessionTables
<1>11. draft \in [ticket : Tickets \cup {None}, row : TicketRow \cup {None}] /\ DraftHolds
  BY DEF Init, DraftHolds
<1>12. board \in [Tickets -> TicketRow] /\ trampled = {}
  BY TemporalAssumption DEF Init
<1>13. tick \in [Slots -> TickRow] /\ \A t \in Slots : tick[t].pc = "none"
  BY IdleFacts DEF Init
<1>14. crashes \in Nat /\ losses \in Nat /\ edits \in Nat /\ acts \in Nat
  BY DEF Init
<1>15. TypeOK
  BY <1>2, <1>8, <1>9, <1>10, <1>11, <1>12, <1>13, <1>14 DEF TypeOK
<1>16. \A t \in Slots : Found(tick[t]) /\ OfLive(tick[t]) /\ OwnsOnly(tick[t])
  BY <1>13 DEF Found, OfLive, OwnsOnly, Workings
<1>17. OneAtATime /\ Succession
  BY <1>6, <1>8, <1>13 DEF OneAtATime, Succession
<1> QED BY <1>11, <1>15, <1>16, <1>17 DEF IInv, Base, InTurn

LEMMA StutterKeeps ==
  ASSUME IInv, UNCHANGED vars
  PROVE  IInv'
<1>1. TypeOK' /\ DraftHolds' /\ \A t \in Slots : Found(tick[t])'
  BY DEF IInv, Base, TypeOK, DraftHolds, Found, vars, history
<1>2. ASSUME InTurn PROVE InTurn'
  BY <1>2 DEF InTurn, OneAtATime, Succession, OfLive, OwnsOnly, vars
<1>3. limit' = limit
  BY DEF vars
<1> QED BY <1>1, <1>2, <1>3 DEF IInv, Base, Serial

LEMMA TickKeeps ==
  ASSUME IInv, NEW t \in Slots, Metronome(t) \/ Tick(t) \/ UseTicket(t) \/ Crash(t)
  PROVE  IInv'
<1>1. CASE Metronome(t)
  BY <1>1, TriggerLooksKeeps, TriggerCreatesKeeps, ReapKeeps DEF Metronome
<1>2. CASE Tick(t)
  BY <1>2, GetIterationKeeps, CleanupGhostsKeeps, CapacityKeeps, LockWorkerKeeps, CollectLocksKeeps,
     AssignWorkKeeps, LockTicketKeeps, SessionEndsKeeps, CompleteKeeps, StandDownKeeps,
     AdvanceShiftKeeps DEF Tick
<1> QED BY <1>1, <1>2, UseTicketKeeps, CrashKeeps

LEMMA OperatorKeeps ==
  ASSUME IInv, Operator
  PROVE  IInv'
BY InceptKeeps, SaveTicketKeeps, InitiateKeeps, SlotDiscKeeps, RemoveDiscKeeps, BlueprintKeeps,
   OpenTicketKeeps DEF Operator

(* The invariant the properties rest on: what a tick has found is there;   *)
(* and, when ticks come one after the other, the iteration of a tick is    *)
(* not over before it says so, and its disc holds no ticket but its own.   *)
THEOREM InvariantHolds == Spec => []IInv
<1>1. IInv /\ [Next]_vars => IInv'
  BY TickKeeps, OperatorKeeps, StutterKeeps DEF Next
<1> QED BY <1>1, InvBegins, PTL DEF Spec

(* Iterations, participants, their sessions and tickets, and the ticks     *)
(* have the types the models give them, however ticks and operators        *)
(* interleave.                                                             *)
THEOREM TypeCorrect == Spec => []TypeOK
<1>1. IInv => TypeOK
  BY DEF IInv, Base
<1> QED BY <1>1, InvariantHolds, PTL

(* The addon shows the session of a worker the ticket its disc was sent    *)
(* out for and no other, because _garbage_collect_locks has released what  *)
(* the disc held and dispatch has locked the ticket; only an operator who  *)
(* saves an older copy of a ticket undoes it.                              *)
THEOREM WorkersSeeTheirTicket == Spec => [](Serial => WorksOnItsTicket)
<1>1. ASSUME IInv, Serial PROVE WorksOnItsTicket
  <2> SUFFICES ASSUME NEW t \in Slots, tick[t].pc = "session",
                      \A x \in trampled : x # tick[t].ticket /\ board[x].owner # tick[t].disc
               PROVE  Locked(tick[t].disc) = {tick[t].ticket}
    BY DEF WorksOnItsTicket
  <2>1. PICK d \in Discs, z \in Tickets : d = tick[t].disc /\ z = tick[t].ticket
    BY <1>1, WorkFacts
  <2>2. PICK own : own = {x \in Tickets : board[x].owner = d}
    OBVIOUS
  <2>3. own \subseteq trampled \cup {z} /\ z \in own \cup trampled
    BY <1>1, <2>1, <2>2 DEF IInv, InTurn, OwnsOnly
  <2>4. own = {z}
    BY <2>1, <2>2, <2>3
  <2>5. PICK type \in {"EPIC", "STORY", "TASK"} : type = Type[z]
    BY TemporalAssumption
  <2>6. \A ty : {x \in Tickets : board[x].owner = d /\ Type[x] = ty} = IF ty = type THEN {z} ELSE {}
    BY <2>2, <2>4, <2>5
  <2> QED BY <2>1, <2>5, <2>6 DEF Locked, OrElse
<1> QED BY <1>1, InvariantHolds, PTL

(* _advance_shift of the one tick finds its iteration not over and incepts *)
(* one heir when it ends it; what operators do meanwhile does not matter.  *)
THEOREM IterationsSucceed == Spec => [](Serial => Succession)
<1>1. IInv => (Serial => Succession)
  BY DEF IInv, InTurn
<1> QED BY <1>1, InvariantHolds, PTL
=============================================================================
