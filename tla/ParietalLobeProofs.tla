-------------------------- MODULE ParietalLobeProofs --------------------------
(***************************************************************************)
(* Theorems about the turns of reasoning sessions and their memory.        *)
(***************************************************************************)
EXTENDS ParietalLobe, TLAPS, NaturalsInduction, WellFoundedInduction

-----------------------------------------------------------------------------
(* Sequences of anything. *)

(* A sequence over some set is a sequence.                                 *)
LEMMA SequenceOver ==
  ASSUME NEW S, NEW q \in Seq(S)
  PROVE  IsSequence(q)
<1>1. Len(q) \in Nat /\ DOMAIN q = 1..Len(q) /\ q = [i \in 1..Len(q) |-> q[i]]
  OBVIOUS
<1>2. q \in [1..Len(q) -> {q[i] : i \in DOMAIN q}]
  BY <1>1
<1> QED BY <1>1, <1>2 DEF IsSequence

LEMMA SequenceFacts ==
  ASSUME NEW q, IsSequence(q)
  PROVE  /\ Len(q) \in Nat /\ DOMAIN q = 1..Len(q)
         /\ q = [i \in 1..Len(q) |-> q[i]]
         /\ Len(q) = 0 <=> q = <<>>
  BY DEF IsSequence

(* What is a function on 1..n is a sequence of length n.                   *)
LEMMA SequenceMade ==
  ASSUME NEW n \in Nat, NEW q, q = [i \in 1..n |-> q[i]]
  PROVE  IsSequence(q) /\ Len(q) = n
<1>1. q \in [1..n -> {q[i] : i \in DOMAIN q}]
  OBVIOUS
<1>2. q \in Seq({q[i] : i \in DOMAIN q})
  BY <1>1
<1> QED BY <1>2 DEF IsSequence

LEMMA SequenceAppended ==
  ASSUME NEW q, IsSequence(q), NEW x
  PROVE  /\ IsSequence(Append(q, x)) /\ Len(Append(q, x)) = Len(q) + 1
         /\ \A i \in 1..Len(q) : Append(q, x)[i] = q[i]
         /\ Append(q, x)[Len(q) + 1] = x
<1> DEFINE S == {q[i] : i \in DOMAIN q} \cup {x}
<1>1. q \in Seq(S)
  BY DEF IsSequence
<1>2. Append(q, x) \in Seq(S)
  BY <1>1
<1> HIDE DEF S
<1>3. IsSequence(Append(q, x))
  BY <1>2, SequenceOver
<1> QED BY <1>1, <1>3

LEMMA SequenceUpdated ==
  ASSUME NEW q, IsSequence(q), NEW n \in DOMAIN q, NEW x
  PROVE  /\ IsSequence([q EXCEPT ![n] = x]) /\ Len([q EXCEPT ![n] = x]) = Len(q)
         /\ \A i \in DOMAIN q : [q EXCEPT ![n] = x][i] = IF i = n THEN x ELSE q[i]
<1>1. PICK p : p = [q EXCEPT ![n] = x]
  OBVIOUS
<1>2. Len(q) \in Nat /\ p = [i \in 1..Len(q) |-> p[i]]
  BY <1>1, SequenceFacts
<1>3. IsSequence(p) /\ Len(p) = Len(q)
  BY <1>2, SequenceMade
<1>4. \A i \in DOMAIN q : p[i] = IF i = n THEN x ELSE q[i]
  BY <1>1
<1> QED BY <1>1, <1>3, <1>4

LEMMA SequenceJoined ==
  ASSUME NEW p, IsSequence(p), NEW q, IsSequence(q)
  PROVE  /\ IsSequence(p \o q) /\ Len(p \o q) = Len(p) + Len(q)
         /\ \A i \in 1..Len(p) : (p \o q)[i] = p[i]
         /\ \A i \in 1..Len(q) : (p \o q)[Len(p) + i] = q[i]
<1> DEFINE S == {p[i] : i \in DOMAIN p} \cup {q[i] : i \in DOMAIN q}
<1>1. p \in Seq(S) /\ q \in Seq(S)
  BY DEF IsSequence
<1> HIDE DEF S
<1>2. p \o q \in Seq(S)
  BY <1>1
<1>3. IsSequence(p \o q)
  BY <1>2, SequenceOver
<1> QED BY <1>1, <1>3

LEMMA SequenceOfOne ==
  ASSUME NEW x
  PROVE  IsSequence(<<x>>) /\ Len(<<x>>) = 1 /\ <<x>>[1] = x
<1>1. <<x>> \in Seq({x})
  OBVIOUS
<1> QED BY <1>1, SequenceOver

LEMMA SequenceOfNone == IsSequence(<<>>) /\ Len(<<>>) = 0
<1>1. <<>> \in Seq({})
  OBVIOUS
<1> QED BY <1>1, SequenceOver

(* A set of natural numbers that is not empty has a least one.             *)
LEMMA LeastNumber ==
  ASSUME NEW S \in SUBSET Nat, S # {}
  PROVE  \E n \in S : \A m \in S : n <= m
<1>1. PICK n \in S : \A m \in S : <<m, n>> \notin OpToRel(<, Nat)
  BY NatLessThanWellFounded, WFMin, Zenon
<1>2. \A m \in S : ~(m < n)
  BY <1>1 DEF OpToRel
<1> QED BY <1>2

(* ... and if there is a bound to it, a greatest one.                      *)
LEMMA GreatestNumber ==
  ASSUME NEW b \in Nat, NEW S \in SUBSET (0..b), S # {}
  PROVE  \E n \in S : \A m \in S : m <= n
<1> DEFINE T == {b - n : n \in S}
<1>1. T \in SUBSET Nat /\ T # {}
  <2>1. \A n \in S : b - n \in Nat
    OBVIOUS
  <2> QED BY <2>1
<1>2. PICK k \in T : \A m \in T : k <= m
  BY <1>1, LeastNumber
<1>3. PICK n \in S : k = b - n
  OBVIOUS
<1>4. \A m \in S : m \in Int /\ b - n <= b - m
  BY <1>2, <1>3
<1>5. \A m \in S : m <= n
  BY <1>3, <1>4
<1> QED BY <1>5

(* FlattenSeq has the partial results its definition speaks of: the first  *)
(* number without one would be the successor of a number that has.         *)
IsFlattening(f, q, n) ==
  f = [i \in 1..n |-> IF i = 1 THEN q[i] ELSE f[i - 1] \o q[i]]

LEMMA FlatteningExists ==
  ASSUME NEW q, NEW n \in Nat
  PROVE  \E f : IsFlattening(f, q, n)
<1> DEFINE Bad == {m \in Nat : ~\E f : IsFlattening(f, q, m)}
<1> SUFFICES ASSUME Bad # {} PROVE FALSE
  OBVIOUS
<1>1. PICK m \in Bad : \A k \in Bad : m <= k
  <2>1. Bad \in SUBSET Nat
    OBVIOUS
  <2> HIDE DEF Bad
  <2> QED BY <2>1, LeastNumber
<1>2. CASE m = 0
  <2>1. PICK f : f = [i \in 1..0 |-> 0]
    OBVIOUS
  <2>2. f = [i \in 1..0 |-> IF i = 1 THEN q[i] ELSE f[i - 1] \o q[i]]
    BY <2>1
  <2> QED BY <1>2, <2>2 DEF IsFlattening
<1>3. CASE m > 0
  <2>1. m - 1 \in Nat /\ m - 1 \notin Bad
    BY <1>1, <1>3
  <2>2. PICK f : IsFlattening(f, q, m - 1)
    BY <2>1
  <2>3. PICK g : g = [i \in 1..m |-> IF i = 1 THEN q[i] ELSE f[i - 1] \o q[i]]
    OBVIOUS
  <2>4. \A i \in 1..(m - 1) : g[i] = f[i]
    <3>1. m \in Nat
      BY <1>1
    <3>2. f = [i \in 1..(m - 1) |-> IF i = 1 THEN q[i] ELSE f[i - 1] \o q[i]]
      BY <2>2 DEF IsFlattening
    <3>3. \A i \in 1..(m - 1) : f[i] = IF i = 1 THEN q[i] ELSE f[i - 1] \o q[i]
      BY <3>2
    <3> QED BY <2>3, <3>1, <3>3
  <2>5. \A i \in 1..m : i # 1 => i - 1 \in 1..(m - 1)
    OBVIOUS
  <2>6. \A i \in 1..m : (IF i = 1 THEN q[i] ELSE f[i - 1] \o q[i])
                        = (IF i = 1 THEN q[i] ELSE g[i - 1] \o q[i])
    BY <2>4, <2>5
  <2>7. g = [i \in 1..m |-> IF i = 1 THEN q[i] ELSE g[i - 1] \o q[i]]
    BY <2>3, <2>6
  <2> QED BY <2>7 DEF IsFlattening
<1> QED BY <1>2, <1>3

LEMMA FlattenUnfolds ==
  ASSUME NEW q, Len(q) \in Nat, Len(q) # 0
  PROVE  \E f : IsFlattening(f, q, Len(q)) /\ FlattenSeq(q) = f[Len(q)]
<1>1. PICK f : IsFlattening(f, q, Len(q))
  BY FlatteningExists
<1> QED BY <1>1 DEF FlattenSeq, IsFlattening

(* What is closed under concatenation and has the parts has the whole.     *)
LEMMA FlattenIn ==
  ASSUME NEW X, \A x, y \in X : x \o y \in X,
         NEW q, IsSequence(q), q # <<>>, \A i \in DOMAIN q : q[i] \in X
  PROVE  FlattenSeq(q) \in X
<1>1. Len(q) \in Nat /\ Len(q) # 0 /\ DOMAIN q = 1..Len(q)
  BY SequenceFacts
<1>2. PICK f : IsFlattening(f, q, Len(q)) /\ FlattenSeq(q) = f[Len(q)]
  BY <1>1, FlattenUnfolds
<1> DEFINE Bad == {i \in 1..Len(q) : f[i] \notin X}
<1>3. Bad = {}
  <2> SUFFICES ASSUME Bad # {} PROVE FALSE
    OBVIOUS
  <2>1. PICK m \in Bad : \A k \in Bad : m <= k
    <3>1. Bad \in SUBSET Nat
      BY <1>1
    <3> HIDE DEF Bad
    <3> QED BY <3>1, LeastNumber
  <2>2. f[m] = IF m = 1 THEN q[m] ELSE f[m - 1] \o q[m]
    BY <1>2 DEF IsFlattening
  <2>3. m # 1 => m - 1 \in 1..Len(q) /\ m - 1 \notin Bad
    BY <1>1, <2>1
  <2> QED BY <1>1, <2>1, <2>2, <2>3
<1> QED BY <1>1, <1>2, <1>3

-----------------------------------------------------------------------------
(* Memory. *)

(* What a call that has begun may rely on: the card it has found or made   *)
(* has been there, its fact is in the card, unless it was raced, and what  *)
(* it goes by is the card's text, unless it shared it.                     *)
CallHolds(s) ==
  /\ op[s].pc \in {"look", "create", "link", "write", "vector"} => op[s].fact \in Facts
  /\ op[s].pc \in {"look", "create"} => op[s].title \in Titles /\ op[s].text = {op[s].fact}
  /\ op[s].pc \in {"link", "vector", "write"} => op[s].id \in Engrams \ Unused
  /\ op[s].pc \in {"link", "vector"} /\ op[s].id \in Rows =>
       op[s].fact \in engram[op[s].id].text \/ op[s].id \in raced
  /\ op[s].pc = "write" => op[s].text = op[s].read \cup {op[s].fact}
  /\ op[s].pc \in {"look", "create", "write"} => op[s].vec \in {None, op[s].text}
  /\ op[s].pc \in {"link", "vector"} /\ op[s].id \in Rows \ shared =>
       op[s].text = engram[op[s].id].text

(* Two calls are in a card that is not shared only one after the other.    *)
CallsApart == \A s, t \in Sessions : \A e \in Rows :
           InCard(s, e) /\ InCard(t, e) /\ s # t => e \in shared

Unborn == \A e \in Unused : told[e] = {} /\ engram[e].turns = {}

MemoryHolds ==
  /\ MemoryTypeOK /\ CallsApart /\ VectorOfText /\ ToldIsKept /\ Unborn
  /\ \A s \in Sessions : CallHolds(s)

(* What a step does to the turns that cards are linked to: it adds L to    *)
(* some, and a card that is new has none.                                  *)
Linking(L) ==
  \A e \in Engrams :
    /\ e \in Unused' => e \in Unused
    /\ e \in Rows' => \/ /\ e \in Rows
                         /\ engram'[e].turns \in {engram[e].turns, engram[e].turns \cup L}
                      \/ e \in Unused /\ engram'[e].turns = {}

USE DEF Rows, Unused

LEMMA Blanks == /\ NoOp \in Call /\ NoOp.pc = "idle"
                /\ NoEngram \in Card /\ NoEngram.is = "none" /\ NoEngram.turns = {}
  BY DEF NoOp, Call, NoEngram, Card

LEMMA MemoryBegins == InitMemory => MemoryHolds
<1> SUFFICES ASSUME InitMemory PROVE MemoryHolds
  OBVIOUS
<1> USE Blanks DEF InitMemory
<1>1. MemoryTypeOK
  BY DEF MemoryTypeOK
<1>2. CallsApart /\ VectorOfText /\ ToldIsKept /\ Unborn
  BY DEF CallsApart, InCard, VectorOfText, ToldIsKept, Unborn
<1>3. \A s \in Sessions : CallHolds(s)
  BY DEF CallHolds
<1> QED BY <1>1, <1>2, <1>3 DEF MemoryHolds

(* A step of a session's call leaves the calls of the others alone.         *)
LEMMA CallUpdated ==
  ASSUME MemoryTypeOK, NEW s \in Sessions, NEW call \in Call, op' = [op EXCEPT ![s] = call]
  PROVE  /\ op' \in [Sessions -> Call] /\ op'[s] = call
         /\ \A t \in Sessions : t # s => op'[t] = op[t]
  BY DEF MemoryTypeOK

LEMMA CallAnswered ==
  ASSUME NEW s \in Sessions, NEW what \in {"success", "rejected", "notice", "error"},
         Answer(s, what)
  PROVE  \E call \in Call : op' = [op EXCEPT ![s] = call] /\ call.pc = what
<1>1. PICK call : call = [NoOp EXCEPT !.pc = what]
  OBVIOUS
<1>2. call \in Call /\ call.pc = what
  BY <1>1 DEF NoOp, Call
<1> QED BY <1>1, <1>2 DEF Answer

(* What a step of a session's call owes the cards: it enters no card that  *)
(* another call is in without saying so,                                   *)
LEMMA ApartKeeps ==
  ASSUME CallsApart, NEW s \in Sessions, shared \subseteq shared',
         \A t \in Sessions : t # s => op'[t] = op[t],
         \A e \in Rows' : \/ e \in Rows /\ (InCard(s, e)' => InCard(s, e))
                          \/ e \in shared'
                          \/ \A t \in Sessions \ {s} : ~InCard(t, e)
  PROVE  CallsApart'
  BY DEF CallsApart, InCard

(* and it leaves a vector that is not the text's only if it is to make it. *)
LEMMA VectorsKeep ==
  ASSUME VectorOfText, NEW s \in Sessions, shared \subseteq shared',
         \A t \in Sessions : t # s => op'[t] = op[t],
         \A e \in Rows' \ shared' :
           \/ engram'[e].vec \in {None, engram'[e].text}
           \/ op'[s].pc = "vector" /\ op'[s].id = e
           \/ /\ e \in Rows /\ engram'[e].text = engram[e].text
              /\ engram'[e].vec = engram[e].vec
              /\ ~(op[s].pc = "vector" /\ op[s].id = e)
  PROVE  VectorOfText'
  BY DEF VectorOfText

LEMMA SaveBeginKeeps ==
  ASSUME MemoryHolds, NEW s \in Sessions, NEW n \in Nat,
         NEW title \in Titles, NEW fact \in Facts, SaveBegin(s, n, title, fact)
  PROVE  MemoryHolds' /\ Linking({})
<1> USE DEF MemoryHolds
<1>1. PICK call \in Call : /\ op' = [op EXCEPT ![s] = call]
                           /\ call.pc = "look" /\ call.fact = fact /\ call.text = {fact}
                           /\ call.title = title /\ call.vec \in {None, call.text}
  <2>1. PICK vec \in Embeddings({fact}), tags \in BOOLEAN :
          op' = [op EXCEPT ![s] = [NoOp EXCEPT !.pc = "look", !.title = title, !.text = {fact},
                                   !.fact = fact, !.vec = vec, !.turn = n, !.tags = tags]]
    BY DEF SaveBegin
  <2>2. PICK call : call = [NoOp EXCEPT !.pc = "look", !.title = title, !.text = {fact},
                                   !.fact = fact, !.vec = vec, !.turn = n, !.tags = tags]
    OBVIOUS
  <2>3. call \in Call /\ call.pc = "look" /\ call.fact = fact /\ call.text = {fact}
        /\ call.title = title /\ call.vec \in {None, call.text}
    BY <2>2 DEF NoOp, Call, Embeddings
  <2> QED BY <2>1, <2>2, <2>3
<1>2. UNCHANGED <<engram, told, raced, shared>> /\ op[s].pc = "idle"
  BY DEF SaveBegin
<1>3. /\ op' \in [Sessions -> Call] /\ op'[s] = call
      /\ \A t \in Sessions : t # s => op'[t] = op[t]
  BY <1>1, CallUpdated
<1>4. MemoryTypeOK'
  BY <1>2, <1>3 DEF MemoryTypeOK
<1>5. ToldIsKept' /\ Unborn' /\ Linking({})
  BY <1>2 DEF ToldIsKept, Unborn, Linking, MemoryTypeOK
<1>7. CallsApart'
  BY <1>1, <1>2, <1>3, ApartKeeps DEF InCard
<1>8. VectorOfText'
  BY <1>1, <1>2, <1>3, VectorsKeep
<1>6. \A t \in Sessions : CallHolds(t)'
  BY <1>1, <1>2, <1>3 DEF CallHolds
<1> QED BY <1>4, <1>5, <1>6, <1>7, <1>8

LEMMA SaveLookKeeps ==
  ASSUME MemoryHolds, NEW s \in Sessions, SaveLook(s)
  PROVE  MemoryHolds' /\ Linking({})
<1> USE DEF MemoryHolds
<1>1. PICK call \in Call : /\ op' = [op EXCEPT ![s] = call]
                           /\ \/ call.pc \in {"rejected", "notice"}
                              \/ /\ call.pc = "create" /\ call.fact = op[s].fact
                                 /\ call.text = op[s].text /\ call.title = op[s].title
                                 /\ call.vec = op[s].vec
  <2>1. CASE op' = [op EXCEPT ![s].pc = "create"]
    <3>1. PICK call : call = [op[s] EXCEPT !.pc = "create"]
      OBVIOUS
    <3>2. call \in Call /\ call.pc = "create" /\ call.fact = op[s].fact
          /\ call.text = op[s].text /\ call.title = op[s].title /\ call.vec = op[s].vec
      BY <3>1 DEF Call, MemoryTypeOK
    <3>3. op' = [op EXCEPT ![s] = call]
      BY <2>1, <3>1
    <3> QED BY <3>2, <3>3
  <2>2. CASE Answer(s, "rejected") \/ Answer(s, "notice")
    BY <2>2, CallAnswered
  <2> QED BY <2>1, <2>2 DEF SaveLook
<1>2. op[s].pc = "look" /\ UNCHANGED <<engram, told, raced, shared>>
  BY DEF SaveLook
<1>3. /\ op' \in [Sessions -> Call] /\ op'[s] = call
      /\ \A t \in Sessions : t # s => op'[t] = op[t]
  BY <1>1, CallUpdated
<1>4. MemoryTypeOK'
  BY <1>2, <1>3 DEF MemoryTypeOK
<1>5. ToldIsKept' /\ Unborn' /\ Linking({})
  BY <1>2 DEF ToldIsKept, Unborn, Linking, MemoryTypeOK
<1>7. CallsApart'
  BY <1>1, <1>2, <1>3, ApartKeeps DEF InCard
<1>8. VectorOfText'
  BY <1>1, <1>2, <1>3, VectorsKeep
<1>6. \A t \in Sessions : CallHolds(t)'
  BY <1>1, <1>2, <1>3 DEF CallHolds
<1> QED BY <1>4, <1>5, <1>6, <1>7, <1>8

LEMMA SaveCreateKeeps ==
  ASSUME MemoryHolds, NEW s \in Sessions, SaveCreate(s)
  PROVE  MemoryHolds' /\ Linking({})
<1> USE DEF MemoryHolds
<1>1. op[s].pc = "create" /\ UNCHANGED <<told, raced, shared>>
  BY DEF SaveCreate
<1>2. CASE Taken(op[s].title)
  <2>1. PICK call \in Call : op' = [op EXCEPT ![s] = call] /\ call.pc = "error"
    BY <1>2, CallAnswered DEF SaveCreate
  <2>2. UNCHANGED engram
    BY <1>2 DEF SaveCreate
  <2>3. /\ op' \in [Sessions -> Call] /\ op'[s] = call
        /\ \A t \in Sessions : t # s => op'[t] = op[t]
    BY <2>1, CallUpdated
  <2>4. MemoryTypeOK'
    BY <1>1, <2>2, <2>3 DEF MemoryTypeOK
  <2>5. ToldIsKept' /\ Unborn' /\ Linking({})
    BY <1>1, <2>2 DEF ToldIsKept, Unborn, Linking, MemoryTypeOK
  <2>6. \A t \in Sessions : CallHolds(t)'
    BY <1>1, <2>1, <2>2, <2>3 DEF CallHolds
  <2>7. CallsApart'
    BY <1>1, <2>1, <2>2, <2>3, ApartKeeps DEF InCard
  <2>8. VectorOfText'
    BY <1>1, <2>1, <2>2, <2>3, VectorsKeep
  <2> QED BY <2>4, <2>5, <2>6, <2>7, <2>8
<1>3. CASE ~Taken(op[s].title)
  <2>1. PICK e \in Unused :
          /\ engram' = [engram EXCEPT ![e] = [NoEngram EXCEPT !.is = "row", !.active = TRUE,
                          !.title = op[s].title, !.text = op[s].text, !.vec = op[s].vec]]
          /\ op' = [op EXCEPT ![s] = [@ EXCEPT !.pc = "link", !.id = e]]
    BY <1>3 DEF SaveCreate
  <2>2. PICK card : card = [NoEngram EXCEPT !.is = "row", !.active = TRUE,
                          !.title = op[s].title, !.text = op[s].text, !.vec = op[s].vec]
    OBVIOUS
  <2>3. card \in Card /\ card.is = "row" /\ card.title = op[s].title
        /\ card.text = op[s].text /\ card.turns = {} /\ card.vec = op[s].vec
    BY <2>2 DEF NoEngram, Card, Call, MemoryTypeOK
  <2>4. engram' = [engram EXCEPT ![e] = card]
    BY <2>1, <2>2
  <2>5. PICK call \in Call : /\ op' = [op EXCEPT ![s] = call]
                             /\ call.pc = "link" /\ call.id = e /\ call.fact = op[s].fact
                             /\ call.text = op[s].text
    <3>1. PICK call : call = [op[s] EXCEPT !.pc = "link", !.id = e]
      OBVIOUS
    <3>2. /\ call \in Call /\ call.pc = "link" /\ call.id = e /\ call.fact = op[s].fact
          /\ call.text = op[s].text
      BY ZenonT(40), <3>1 DEF Call, MemoryTypeOK
    <3> QED BY <2>1, <3>1, <3>2
  <2>6. MemoryTypeOK'
    BY <1>1, <2>3, <2>4, <2>5 DEF MemoryTypeOK
  <2>7. /\ op' \in [Sessions -> Call] /\ op'[s] = call
        /\ \A t \in Sessions : t # s => op'[t] = op[t]
        /\ engram'[e] = card /\ \A d \in Engrams : d # e => engram'[d] = engram[d]
    BY <2>3, <2>4, <2>5, CallUpdated DEF MemoryTypeOK
  <2>10. CallsApart'
    <3>1. \A t \in Sessions : ~InCard(t, e)
      BY <2>1 DEF InCard, CallHolds
    <3>2. \A d \in Rows' : d # e => d \in Rows /\ ~InCard(s, d)'
      BY <2>5, <2>7 DEF InCard
    <3> QED BY <1>1, <2>7, <3>1, <3>2, ApartKeeps
  <2>11. VectorOfText'
    <3>1. card.vec \in {None, card.text}
      BY <1>1, <2>3 DEF CallHolds
    <3> QED BY <1>1, <2>7, <3>1, VectorsKeep
  <2>8. ToldIsKept' /\ Unborn' /\ Linking({})
    BY <1>1, <2>3, <2>4 DEF ToldIsKept, Unborn, Linking, MemoryTypeOK
  <2>9. \A t \in Sessions : CallHolds(t)'
    <3> TAKE t \in Sessions
    <3>1. CASE t = s
      BY <1>1, <2>3, <2>4, <2>5, <3>1 DEF CallHolds, MemoryTypeOK
    <3>2. CASE t # s
      BY <1>1, <2>3, <2>4, <2>5, <3>2 DEF CallHolds, MemoryTypeOK
    <3> QED BY <3>1, <3>2
  <2> QED BY <2>6, <2>8, <2>9, <2>10, <2>11
<1> QED BY <1>2, <1>3

(* A card that stays where it is.                                          *)
LEMMA CardUpdated ==
  ASSUME MemoryTypeOK, NEW e \in Rows, NEW card \in Card,
         engram' = [engram EXCEPT ![e] = card],
         card.is = "row"
  PROVE  /\ engram' \in [Engrams -> Card] /\ engram'[e] = card
         /\ \A d \in Engrams : d # e => engram'[d] = engram[d]
         /\ Rows' = Rows /\ Unused' = Unused
<1>1. /\ engram' \in [Engrams -> Card] /\ engram'[e] = card
      /\ \A d \in Engrams : d # e => engram'[d] = engram[d]
  BY DEF MemoryTypeOK
<1>2. Rows' = Rows /\ Unused' = Unused
  BY <1>1
<1> QED BY <1>1, <1>2

LEMMA LinkedCard ==
  ASSUME MemoryTypeOK, NEW e \in Rows, NEW s \in Sessions, NEW n \in Nat
  PROVE  \E card \in Card :
           /\ Linked(e, s, n) = [engram EXCEPT ![e] = card]
           /\ card.is = "row" /\ card.vec = engram[e].vec /\ card.text = engram[e].text
           /\ card.turns = engram[e].turns \cup (IF n = 0 THEN {} ELSE {<<s, n>>})
<1>1. PICK card : card = [engram[e] EXCEPT
        !.sessions = engram[e].sessions \cup {s},
        !.turns = engram[e].turns \cup (IF n = 0 THEN {} ELSE {<<s, n>>}),
        !.creator = IF engram[e].creator = None THEN s ELSE engram[e].creator]
  OBVIOUS
<1>2. /\ card \in Card
      /\ card.is = "row" /\ card.vec = engram[e].vec /\ card.text = engram[e].text
      /\ card.turns = engram[e].turns \cup (IF n = 0 THEN {} ELSE {<<s, n>>})
  <2>1. engram[e] \in Card /\ engram[e].is = "row"
    BY DEF MemoryTypeOK
  <2>2. /\ card.is = "row" /\ card.vec = engram[e].vec /\ card.text = engram[e].text
        /\ card.turns = engram[e].turns \cup (IF n = 0 THEN {} ELSE {<<s, n>>})
    BY <1>1, <2>1 DEF Card
  <2>3. engram[e].turns \cup (IF n = 0 THEN {} ELSE {<<s, n>>}) \in SUBSET (Sessions \X Nat)
    BY <2>1 DEF Card
  <2>4. engram[e].sessions \cup {s} \in SUBSET Sessions
    BY <2>1 DEF Card
  <2>5. (IF engram[e].creator = None THEN s ELSE engram[e].creator) \in Sessions \cup {None}
    BY <2>1 DEF Card
  <2>6. card \in Card
    BY <1>1, <2>1, <2>3, <2>4, <2>5 DEF Card
  <2> QED BY <2>2, <2>6
<1>3. Linked(e, s, n) = [engram EXCEPT ![e] = card]
  BY <1>1 DEF Linked
<1> QED BY <1>2, <1>3

(* A call that answers, and changes nothing else.                          *)
LEMMA AnswerKeeps ==
  ASSUME MemoryHolds, NEW s \in Sessions,
         NEW what \in {"success", "rejected", "notice", "error"}, Answer(s, what),
         UNCHANGED <<engram, told, raced, shared>>, op[s].pc # "vector" \/ op[s].id \notin Rows
  PROVE  MemoryHolds' /\ Linking({})
<1> USE DEF MemoryHolds
<1>1. PICK call \in Call : op' = [op EXCEPT ![s] = call] /\ call.pc = what
  BY CallAnswered
<1>2. /\ op' \in [Sessions -> Call] /\ op'[s] = call
      /\ \A t \in Sessions : t # s => op'[t] = op[t]
  BY <1>1, CallUpdated
<1>3. MemoryTypeOK'
  BY <1>2 DEF MemoryTypeOK
<1>4. ToldIsKept' /\ Unborn' /\ Linking({})
  BY DEF ToldIsKept, Unborn, Linking, MemoryTypeOK
<1>5. \A t \in Sessions : CallHolds(t)'
  BY <1>1, <1>2 DEF CallHolds
<1>6. CallsApart'
  BY <1>1, <1>2, ApartKeeps DEF InCard
<1>7. VectorOfText'
  BY <1>1, <1>2, VectorsKeep
<1> QED BY <1>3, <1>4, <1>5, <1>6, <1>7

LEMMA SaveLinkKeeps ==
  ASSUME MemoryHolds, NEW s \in Sessions, SaveLink(s)
  PROVE  MemoryHolds' /\ Linking({<<s, op[s].turn>>})
<1> USE DEF MemoryHolds
<1>1. op[s].pc = "link" /\ UNCHANGED <<raced, shared>> /\ op[s].turn \in Nat /\ op[s].fact \in Facts
  BY DEF SaveLink, MemoryTypeOK, Call, CallHolds
<1>2. PICK e : e = op[s].id
  OBVIOUS
<1>3. CASE e \notin Rows
  <2>1. Answer(s, "error") /\ UNCHANGED <<engram, told, raced, shared>>
    BY <1>1, <1>2, <1>3 DEF SaveLink
  <2> QED BY <1>1, <2>1, AnswerKeeps DEF Linking
<1>4. CASE e \in Rows
  <2>1. PICK card \in Card :
           /\ Linked(e, s, op[s].turn) = [engram EXCEPT ![e] = card]
           /\ card.is = "row" /\ card.vec = engram[e].vec /\ card.text = engram[e].text
           /\ card.turns = engram[e].turns \cup (IF op[s].turn = 0 THEN {} ELSE {<<s, op[s].turn>>})
    BY <1>1, <1>4, LinkedCard
  <2>2. engram' = [engram EXCEPT ![e] = card]
    BY <1>2, <1>4, <2>1 DEF SaveLink
  <2>3. /\ engram' \in [Engrams -> Card] /\ engram'[e] = card
        /\ \A d \in Engrams : d # e => engram'[d] = engram[d]
        /\ Rows' = Rows /\ Unused' = Unused
    BY <1>4, <2>1, <2>2, CardUpdated
  <2>4. Linking({<<s, op[s].turn>>})
    BY <2>1, <2>3 DEF Linking
  <2>5. CASE op[s].tags
    <3>1. op' = [op EXCEPT ![s].pc = "vector"] /\ told' = told
      BY <1>2, <1>4, <2>5 DEF SaveLink
    <3>2. PICK call : call = [op[s] EXCEPT !.pc = "vector"]
      OBVIOUS
    <3>3. /\ call \in Call /\ call.pc = "vector" /\ call.id = e /\ call.fact = op[s].fact
          /\ call.text = op[s].text
      BY <1>2, <3>2 DEF Call, MemoryTypeOK
    <3>4. op' = [op EXCEPT ![s] = call]
      BY <3>1, <3>2
    <3>5. /\ op' \in [Sessions -> Call] /\ op'[s] = call
          /\ \A t \in Sessions : t # s => op'[t] = op[t]
      BY <3>3, <3>4, CallUpdated
    <3>6. MemoryTypeOK'
      BY <1>1, <2>3, <3>1, <3>5 DEF MemoryTypeOK
    <3>7. ToldIsKept' /\ Unborn'
      BY <1>1, <1>4, <2>1, <2>3, <3>1 DEF ToldIsKept, Unborn
    <3>8. \A t \in Sessions : CallHolds(t)'
      BY <1>1, <1>2, <1>4, <2>1, <2>3, <3>3, <3>5 DEF CallHolds
    <3>9. CallsApart'
      BY <1>1, <1>2, <2>3, <3>3, <3>5, ApartKeeps DEF InCard
    <3>10. VectorOfText'
      BY <1>1, <1>2, <2>1, <2>3, <3>5, VectorsKeep
    <3> QED BY <2>3, <2>4, <3>6, <3>7, <3>8, <3>9, <3>10
  <2>6. CASE ~op[s].tags
    <3>1. Answer(s, "success") /\ told' = [told EXCEPT ![e] = @ \cup {op[s].fact}]
      BY <1>2, <1>4, <2>6 DEF SaveLink
    <3>2. PICK call \in Call : op' = [op EXCEPT ![s] = call] /\ call.pc = "success"
      BY <3>1, CallAnswered
    <3>3. /\ op' \in [Sessions -> Call] /\ op'[s] = call
          /\ \A t \in Sessions : t # s => op'[t] = op[t]
      BY <3>2, CallUpdated
    <3>4. MemoryTypeOK'
      BY <1>1, <2>3, <3>1, <3>3 DEF MemoryTypeOK
    <3>5. op[s].fact \in engram[e].text \/ e \in raced
      BY <1>1, <1>2, <1>4 DEF CallHolds
    <3>6. ToldIsKept' /\ Unborn'
      BY <1>1, <1>4, <2>1, <2>3, <3>1, <3>5 DEF ToldIsKept, Unborn, MemoryTypeOK
    <3>7. \A t \in Sessions : CallHolds(t)'
      BY <1>1, <1>4, <2>1, <2>3, <3>2, <3>3 DEF CallHolds
    <3>8. CallsApart'
      BY <1>1, <2>3, <3>2, <3>3, ApartKeeps DEF InCard
    <3>9. VectorOfText'
      BY <1>1, <2>1, <2>3, <3>3, VectorsKeep
    <3> QED BY <2>3, <2>4, <3>4, <3>6, <3>7, <3>8, <3>9
  <2> QED BY <2>5, <2>6
<1> QED BY <1>3, <1>4

LEMMA UpdateReadKeeps ==
  ASSUME MemoryHolds, NEW s \in Sessions, NEW n \in Nat, NEW e \in Engrams,
         NEW fact \in Facts, UpdateRead(s, n, e, fact)
  PROVE  MemoryHolds' /\ Linking({})
<1> USE DEF MemoryHolds
<1>1. /\ UNCHANGED <<engram, told, raced>> /\ op[s].pc = "idle"
      /\ shared \subseteq shared' /\ shared' \subseteq Engrams
  BY DEF UpdateRead, MemoryTypeOK
<1>2. CASE e \notin Rows
  <2>1. Answer(s, "error") /\ shared' = shared
    BY <1>2 DEF UpdateRead
  <2> QED BY <1>1, <2>1, AnswerKeeps
<1>3. CASE e \in Rows
  <2>1. PICK vec \in Embeddings(Combined(e, fact)) :
          op' = [op EXCEPT ![s] = [NoOp EXCEPT !.pc = "write", !.id = e, !.text = Combined(e, fact),
                                     !.fact = fact, !.vec = vec, !.turn = n,
                                     !.read = engram[e].text]]
    BY <1>3 DEF UpdateRead
  <2>2. PICK call : call = [NoOp EXCEPT !.pc = "write", !.id = e, !.text = Combined(e, fact),
                                     !.fact = fact, !.vec = vec, !.turn = n,
                                     !.read = engram[e].text]
    OBVIOUS
  <2>3. engram[e].text \in SUBSET Facts
    BY DEF MemoryTypeOK, Card
  <2>4. /\ call \in Call /\ call.pc = "write" /\ call.id = e /\ call.fact = fact
        /\ call.text = engram[e].text \cup {fact} /\ call.read = engram[e].text
        /\ call.vec \in {None, call.text}
    BY <2>2, <2>3 DEF NoOp, Call, Embeddings, Combined
  <2>5. op' = [op EXCEPT ![s] = call]
    BY <2>1, <2>2
  <2>6. /\ op' \in [Sessions -> Call] /\ op'[s] = call
        /\ \A t \in Sessions : t # s => op'[t] = op[t]
    BY <2>4, <2>5, CallUpdated
  <2>7. MemoryTypeOK'
    BY <1>1, <2>6 DEF MemoryTypeOK
  <2>8. ToldIsKept' /\ Unborn' /\ Linking({})
    BY <1>1 DEF ToldIsKept, Unborn, Linking, MemoryTypeOK
  <2>9. \A t \in Sessions : CallHolds(t)'
    <3> TAKE t \in Sessions
    <3>1. CASE t = s
      BY <1>1, <1>3, <2>3, <2>4, <2>6, <3>1 DEF CallHolds
    <3>2. CASE t # s
      <4>1. op'[t] = op[t] /\ CallHolds(t)
        BY <2>6, <3>2
      <4>2. \A d \in Engrams : d \in Rows \ shared' => d \in Rows \ shared
        BY <1>1
      <4> QED BY <1>1, <4>1, <4>2 DEF CallHolds
    <3> QED BY <3>1, <3>2
  <2>10. CallsApart'
    <3>1. e \in shared' \/ \A t \in Sessions \ {s} : ~InCard(t, e)
      BY <1>3 DEF UpdateRead
    <3>2. \A d \in Rows' : d \in Rows /\ (d # e => ~InCard(s, d)')
      BY <1>1, <2>4, <2>6 DEF InCard
    <3> QED BY <1>1, <2>6, <3>1, <3>2, ApartKeeps
  <2>11. VectorOfText'
    BY <1>1, <2>6, VectorsKeep
  <2> QED BY <2>7, <2>8, <2>9, <2>10, <2>11
<1> QED BY <1>2, <1>3

LEMMA UpdateWriteKeeps ==
  ASSUME MemoryHolds, NEW s \in Sessions, UpdateWrite(s)
  PROVE  MemoryHolds' /\ Linking({})
<1> USE DEF MemoryHolds
<1>1. op[s].pc = "write" /\ UNCHANGED <<told, shared>>
  BY DEF UpdateWrite
<1>2. PICK e : e = op[s].id
  OBVIOUS
<1>3. /\ op[s].fact \in Facts /\ op[s].text = op[s].read \cup {op[s].fact}
      /\ op[s].vec \in {None, op[s].text}
  BY <1>1 DEF CallHolds
<1>4. CASE e \notin Rows
  <2>1. Answer(s, "error") /\ UNCHANGED <<engram, told, raced, shared>>
    BY <1>1, <1>2, <1>4 DEF UpdateWrite
  <2> QED BY <1>1, <2>1, AnswerKeeps
<1>5. CASE e \in Rows
  <2> PICK needs \in NeedsVector(s) :
             op' = [op EXCEPT ![s].pc = IF needs THEN "vector" ELSE "link"]
    BY <1>2, <1>5 DEF UpdateWrite
  <2>1. /\ engram' = [engram EXCEPT ![e] = [@ EXCEPT
               !.text = op[s].text,
               !.vec = IF op[s].vec = None THEN engram[e].vec ELSE op[s].vec,
               !.creator = IF engram[e].creator = None THEN s ELSE engram[e].creator]]
        /\ raced' = IF engram[e].text = op[s].read THEN raced ELSE raced \cup {e}
    BY <1>2, <1>5 DEF UpdateWrite
  <2>2. PICK card : card = [engram[e] EXCEPT
               !.text = op[s].text,
               !.vec = IF op[s].vec = None THEN engram[e].vec ELSE op[s].vec,
               !.creator = IF engram[e].creator = None THEN s ELSE engram[e].creator]
    OBVIOUS
  <2>3. engram' = [engram EXCEPT ![e] = card]
    BY <2>1, <2>2
  <2>4. /\ card \in Card /\ card.is = "row" /\ card.vec \in {engram[e].vec, op[s].text}
        /\ card.text = op[s].text /\ card.turns = engram[e].turns
    <3>1. engram[e] \in Card /\ engram[e].is = "row" /\ op[s] \in Call
      BY <1>5 DEF MemoryTypeOK
    <3>2. /\ card.is = "row" /\ card.vec \in {engram[e].vec, op[s].text}
          /\ card.text = op[s].text /\ card.turns = engram[e].turns
      <4>1. /\ card.is = "row" /\ card.text = op[s].text /\ card.turns = engram[e].turns
            /\ card.vec = IF op[s].vec = None THEN engram[e].vec ELSE op[s].vec
        BY <2>2, <3>1 DEF Card
      <4> QED BY <1>3, <4>1
    <3>3. (IF op[s].vec = None THEN engram[e].vec ELSE op[s].vec) \in (SUBSET Facts) \cup {None}
      BY <3>1 DEF Card, Call
    <3>4. (IF engram[e].creator = None THEN s ELSE engram[e].creator) \in Sessions \cup {None}
      BY <3>1 DEF Card
    <3>5. op[s].text \in SUBSET Facts
      BY <3>1 DEF Call
    <3>6. card \in Card
      BY <2>2, <3>1, <3>3, <3>4, <3>5 DEF Card
    <3> QED BY <3>2, <3>6
  <2>5. /\ engram' \in [Engrams -> Card] /\ engram'[e] = card
        /\ \A d \in Engrams : d # e => engram'[d] = engram[d]
        /\ Rows' = Rows /\ Unused' = Unused
    BY <1>5, <2>3, <2>4, CardUpdated
  <2>6. PICK call : call = [op[s] EXCEPT !.pc = IF needs THEN "vector" ELSE "link"]
    OBVIOUS
  <2>7. /\ call \in Call /\ call.pc = (IF needs THEN "vector" ELSE "link")
        /\ call.id = e /\ call.fact = op[s].fact /\ call.text = op[s].text
    BY <1>2, <2>6 DEF Call, MemoryTypeOK
  <2>8. op' = [op EXCEPT ![s] = call]
    BY <2>6
  <2>9. /\ op' \in [Sessions -> Call] /\ op'[s] = call
        /\ \A t \in Sessions : t # s => op'[t] = op[t]
    BY <2>7, <2>8, CallUpdated
  <2>10. raced \subseteq raced' /\ raced' \subseteq Engrams
    BY <1>5, <2>1 DEF MemoryTypeOK
  <2>11. e \in raced' \/ engram[e].text \subseteq card.text
    BY <1>3, <2>1, <2>4
  <2>12. MemoryTypeOK'
    BY <1>1, <2>5, <2>9, <2>10 DEF MemoryTypeOK
  <2>13. ToldIsKept' /\ Unborn' /\ Linking({})
    BY <1>1, <1>5, <2>4, <2>5, <2>10, <2>11 DEF ToldIsKept, Unborn, Linking
  <2>14. \A t \in Sessions : CallHolds(t)'
    <3> TAKE t \in Sessions
    <3>1. CASE t = s
      <4>1. op'[t] = call /\ call.pc \in {"link", "vector"} /\ call.id = e /\ engram'[e] = card
        BY <2>5, <2>7, <2>9, <3>1
      <4>2. call.fact \in Facts /\ call.fact \in card.text /\ call.text = card.text
        BY <1>3, <2>4, <2>7
      <4>3. e \in Engrams \ Unused'
        BY <1>5, <2>5
      <4> QED BY <4>1, <4>2, <4>3 DEF CallHolds
    <3>2. CASE t # s
      <4>1. op'[t] = op[t] /\ CallHolds(t)
        BY <2>9, <3>2
      <4>2. \A d \in Rows : engram[d].text \subseteq engram'[d].text \/ d \in raced'
        BY <2>5, <2>11
      <4>3. op[t].pc \in {"link", "vector"} /\ op[t].id = e => e \in shared
        BY <1>1, <1>2, <1>5, <3>2 DEF CallsApart, InCard
      <4> PICK c : c = op[t]
        OBVIOUS
      <4>4. \/ c.id \notin Rows \/ c.id \in raced' \/ c.pc \notin {"link", "vector"}
            \/ c.fact \in engram'[c.id].text
        BY <2>10, <4>1, <4>2 DEF CallHolds
      <4>5. c.pc \in {"link", "vector"} /\ c.id \in Rows \ shared => c.text = engram'[c.id].text
        <5>1. c.pc \in {"link", "vector"} /\ c.id \in Rows \ shared => c.id # e
          BY <4>3
        <5> QED BY <2>5, <4>1, <5>1 DEF CallHolds
      <4>6. /\ c.pc \in {"look", "create", "link", "write", "vector"} => c.fact \in Facts
            /\ c.pc \in {"look", "create"} => c.title \in Titles /\ c.text = {c.fact}
            /\ c.pc \in {"link", "vector", "write"} => c.id \in Engrams \ Unused
            /\ c.pc = "write" => c.text = c.read \cup {c.fact}
            /\ c.pc \in {"look", "create", "write"} => c.vec \in {None, c.text}
        BY <4>1 DEF CallHolds
      <4>7. op'[t] = c /\ shared' = shared /\ Rows' = Rows /\ Unused' = Unused
        BY <1>1, <2>5, <4>1
      <4> QED BY <4>4, <4>5, <4>6, <4>7 DEF CallHolds
    <3> QED BY <3>1, <3>2
  <2>15. CallsApart'
    BY <1>1, <1>2, <2>5, <2>7, <2>9, ApartKeeps DEF InCard
  <2>16. VectorOfText'
    <3>1. CASE needs
      BY <1>1, <2>5, <2>7, <2>9, <3>1, VectorsKeep
    <3>2. CASE ~needs
      <4>1. engram[e].text = op[s].text
        BY <1>2, <3>2 DEF NeedsVector
      <4>2. card.vec = engram[e].vec \/ card.vec = card.text
        BY <2>4
      <4> QED BY <1>1, <2>4, <2>5, <2>9, <4>1, <4>2, VectorsKeep
    <3> QED BY <3>1, <3>2
  <2> QED BY <2>5, <2>12, <2>13, <2>14, <2>15, <2>16
<1> QED BY <1>4, <1>5

LEMMA UpdateVectorKeeps ==
  ASSUME MemoryHolds, NEW s \in Sessions, UpdateVector(s)
  PROVE  MemoryHolds' /\ Linking({<<s, op[s].turn>>})
<1> USE DEF MemoryHolds
<1>1. op[s].pc = "vector" /\ UNCHANGED <<raced, shared>> /\ op[s] \in Call
  BY DEF UpdateVector, MemoryTypeOK
<1>2. PICK e : e = op[s].id
  OBVIOUS
<1>3. op[s].fact \in Facts /\ op[s].turn \in Nat /\ op[s].text \in SUBSET Facts
  BY <1>1 DEF CallHolds, Call
<1>4. CASE e \notin Rows
  <2>1. Answer(s, "error") /\ UNCHANGED <<engram, told, raced, shared>>
    BY <1>1, <1>2, <1>4 DEF UpdateVector
  <2> QED BY <1>2, <1>4, <2>1, AnswerKeeps DEF Linking
<1>5. CASE e \in Rows
  <2>1. PICK vec \in Embeddings(op[s].text) :
               engram' = [Linked(e, s, op[s].turn) EXCEPT ![e].vec = vec]
    BY <1>2, <1>5 DEF UpdateVector
  <2>2. told' = [told EXCEPT ![e] = @ \cup {op[s].fact}] /\ Answer(s, "success")
    BY <1>2, <1>5 DEF UpdateVector
  <2>3. PICK linked \in Card :
           /\ Linked(e, s, op[s].turn) = [engram EXCEPT ![e] = linked]
           /\ linked.is = "row" /\ linked.text = engram[e].text
           /\ linked.turns = engram[e].turns \cup (IF op[s].turn = 0 THEN {} ELSE {<<s, op[s].turn>>})
    <3>1. PICK n \in Nat : n = op[s].turn
      BY <1>3
    <3>2. PICK card \in Card :
           /\ Linked(e, s, n) = [engram EXCEPT ![e] = card]
           /\ card.is = "row" /\ card.text = engram[e].text
           /\ card.turns = engram[e].turns \cup (IF n = 0 THEN {} ELSE {<<s, n>>})
      BY <1>5, LinkedCard
    <3> QED BY <3>1, <3>2
  <2>4. PICK card : card = [linked EXCEPT !.vec = vec]
    OBVIOUS
  <2>5. vec \in (SUBSET Facts) \cup {None}
    BY <1>3 DEF Embeddings
  <2>6. /\ card \in Card /\ card.is = "row" /\ card.vec \in {None, op[s].text}
        /\ card.text = engram[e].text /\ card.turns = linked.turns
    BY <2>1, <2>3, <2>4, <2>5 DEF Card, Embeddings
  <2>7. engram' = [engram EXCEPT ![e] = card]
    BY <1>5, <2>1, <2>3, <2>4 DEF MemoryTypeOK
  <2>8. /\ engram' \in [Engrams -> Card] /\ engram'[e] = card
        /\ \A d \in Engrams : d # e => engram'[d] = engram[d]
        /\ Rows' = Rows /\ Unused' = Unused
    BY <1>5, <2>6, <2>7, CardUpdated
  <2>9. PICK call \in Call : op' = [op EXCEPT ![s] = call] /\ call.pc = "success"
    BY <2>2, CallAnswered
  <2>10. /\ op' \in [Sessions -> Call] /\ op'[s] = call
         /\ \A t \in Sessions : t # s => op'[t] = op[t]
    BY <2>9, CallUpdated
  <2>11. op[s].fact \in engram[e].text \/ e \in raced
    BY <1>1, <1>2, <1>5 DEF CallHolds
  <2>12. MemoryTypeOK'
    BY <1>1, <1>3, <2>2, <2>8, <2>10 DEF MemoryTypeOK
  <2>13. ToldIsKept' /\ Unborn'
    BY <1>1, <1>5, <2>2, <2>6, <2>8, <2>11 DEF ToldIsKept, Unborn, MemoryTypeOK
  <2>14. Linking({<<s, op[s].turn>>})
    BY <2>3, <2>6, <2>8 DEF Linking
  <2>15. \A t \in Sessions : CallHolds(t)'
    BY <1>1, <2>6, <2>8, <2>9, <2>10 DEF CallHolds
  <2>16. CallsApart'
    BY <1>1, <2>8, <2>9, <2>10, ApartKeeps DEF InCard
  <2>17. VectorOfText'
    <3>1. e \notin shared => op[s].text = engram[e].text
      BY <1>1, <1>2, <1>5 DEF CallHolds
    <3> QED BY <1>1, <1>2, <2>6, <2>8, <2>10, <3>1, VectorsKeep
  <2> QED BY <2>8, <2>12, <2>13, <2>14, <2>15, <2>16, <2>17
<1> QED BY <1>4, <1>5

LEMMA ReadEngramKeeps ==
  ASSUME MemoryHolds, NEW s \in Sessions, NEW e \in Engrams, ReadEngram(s, e)
  PROVE  MemoryHolds' /\ Linking({})
<1> USE DEF MemoryHolds
<1>1. UNCHANGED <<told, raced, shared>> /\ op[s].pc = "idle"
  BY DEF ReadEngram
<1>2. CASE e \notin Active
  BY <1>1, <1>2, AnswerKeeps DEF ReadEngram
<1>3. CASE e \in Active
  <2>1. engram' = Linked(e, s, 0) /\ Answer(s, "success") /\ e \in Rows
    BY <1>3 DEF ReadEngram, Active
  <2>2. PICK card \in Card :
           /\ Linked(e, s, 0) = [engram EXCEPT ![e] = card]
           /\ card.is = "row" /\ card.vec = engram[e].vec /\ card.text = engram[e].text
           /\ card.turns = engram[e].turns \cup (IF 0 = 0 THEN {} ELSE {<<s, 0>>})
    BY <2>1, LinkedCard
  <2>3. /\ engram' \in [Engrams -> Card] /\ engram'[e] = card
        /\ \A d \in Engrams : d # e => engram'[d] = engram[d]
        /\ Rows' = Rows /\ Unused' = Unused
    BY <2>1, <2>2, CardUpdated
  <2>4. PICK call \in Call : op' = [op EXCEPT ![s] = call] /\ call.pc = "success"
    BY <2>1, CallAnswered
  <2>5. /\ op' \in [Sessions -> Call] /\ op'[s] = call
        /\ \A t \in Sessions : t # s => op'[t] = op[t]
    BY <2>4, CallUpdated
  <2>6. MemoryTypeOK'
    BY <1>1, <2>3, <2>5 DEF MemoryTypeOK
  <2>7. ToldIsKept' /\ Unborn' /\ Linking({})
    BY <1>1, <2>1, <2>2, <2>3 DEF ToldIsKept, Unborn, Linking
  <2>8. \A t \in Sessions : CallHolds(t)'
    BY <1>1, <2>2, <2>3, <2>4, <2>5 DEF CallHolds
  <2>9. CallsApart'
    BY <1>1, <2>3, <2>4, <2>5, ApartKeeps DEF InCard
  <2>10. VectorOfText'
    BY <1>1, <2>2, <2>3, <2>5, VectorsKeep
  <2> QED BY <2>3, <2>6, <2>7, <2>8, <2>9, <2>10
<1> QED BY <1>2, <1>3

LEMMA OpStepsKeep ==
  ASSUME MemoryHolds, NEW s \in Sessions, OpSteps(s)
  PROVE  MemoryHolds' /\ Linking({<<s, op[s].turn>>})
<1>1. CASE SaveLook(s)
  BY <1>1, SaveLookKeeps DEF Linking
<1>2. CASE SaveCreate(s)
  BY <1>2, SaveCreateKeeps DEF Linking
<1>3. CASE SaveLink(s)
  BY <1>3, SaveLinkKeeps
<1>4. CASE UpdateWrite(s)
  BY <1>4, UpdateWriteKeeps DEF Linking
<1>5. CASE UpdateVector(s)
  BY <1>5, UpdateVectorKeeps
<1> QED BY <1>1, <1>2, <1>3, <1>4, <1>5 DEF OpSteps

(* A call is over, and its answer taken.                                   *)
LEMMA OpEndKeeps ==
  ASSUME MemoryHolds, NEW s \in Sessions, op' = [op EXCEPT ![s] = NoOp],
         UNCHANGED <<engram, told, raced>>, shared \subseteq shared', shared' \subseteq Engrams,
         op[s].pc = "vector" => op[s].id \in shared'
  PROVE  MemoryHolds' /\ Linking({})
<1> USE DEF MemoryHolds
<1>1. /\ op' \in [Sessions -> Call] /\ op'[s] = NoOp
      /\ \A t \in Sessions : t # s => op'[t] = op[t]
  BY Blanks, CallUpdated
<1>2. MemoryTypeOK'
  BY <1>1 DEF MemoryTypeOK
<1>3. ToldIsKept' /\ Unborn' /\ Linking({})
  BY DEF ToldIsKept, Unborn, Linking, MemoryTypeOK
<1>4. \A t \in Sessions : CallHolds(t)'
  BY <1>1, Blanks DEF CallHolds
<1>5. CallsApart'
  BY <1>1, Blanks, ApartKeeps DEF InCard
<1>6. VectorOfText'
  BY <1>1, VectorsKeep
<1> QED BY <1>2, <1>3, <1>4, <1>5, <1>6

LEMMA MemoryStays ==
  ASSUME MemoryHolds, UNCHANGED memory
  PROVE  MemoryHolds' /\ Linking({})
  BY DEF memory, MemoryHolds, MemoryTypeOK, CallsApart, InCard, VectorOfText, ToldIsKept, Unborn,
         CallHolds, Linking

LEMMA OperatorKeeps ==
  ASSUME MemoryHolds, Operator
  PROVE  MemoryHolds' /\ Linking({})
<1> USE DEF MemoryHolds
<1>1. ASSUME NEW title \in Titles, NEW fact \in Facts, SaveFromOutside(title, fact)
      PROVE  MemoryHolds' /\ Linking({})
  <2>1. ~Taken(title) /\ UNCHANGED <<op, told, raced, shared>>
    BY <1>1 DEF SaveFromOutside
  <2>2. PICK e \in Unused :
       engram' = [engram EXCEPT ![e] = [NoEngram EXCEPT !.is = "row", !.active = TRUE,
                                        !.title = title, !.text = {fact}]]
    BY <1>1 DEF SaveFromOutside
  <2>3. PICK card : card = [NoEngram EXCEPT !.is = "row", !.active = TRUE,
                                        !.title = title, !.text = {fact}]
    OBVIOUS
  <2>4. /\ card \in Card /\ card.is = "row" /\ card.vec = None /\ card.turns = {}
    BY <2>3 DEF NoEngram, Card
  <2>5. engram' = [engram EXCEPT ![e] = card]
    BY <2>2, <2>3
  <2>6. /\ engram' \in [Engrams -> Card] /\ engram'[e] = card
        /\ \A d \in Engrams : d # e => engram'[d] = engram[d]
    BY <2>4, <2>5 DEF MemoryTypeOK
  <2>7. MemoryTypeOK'
    BY <2>1, <2>6 DEF MemoryTypeOK
  <2>8. CallsApart' /\ VectorOfText'
    <3>1. \A t \in Sessions : ~InCard(t, e)
      BY <2>2 DEF InCard, CallHolds
    <3>2. CallsApart'
      BY <2>1, <2>4, <2>6, <3>1 DEF CallsApart, InCard
    <3>3. VectorOfText'
      BY <2>1, <2>4, <2>6 DEF VectorOfText
    <3> QED BY <3>2, <3>3
  <2>9. ToldIsKept' /\ Unborn' /\ Linking({})
    BY <2>1, <2>4, <2>6 DEF ToldIsKept, Unborn, Linking
  <2>10. \A t \in Sessions : CallHolds(t)'
    BY <2>1, <2>4, <2>6 DEF CallHolds
  <2> QED BY <2>7, <2>8, <2>9, <2>10
<1>2. ASSUME NEW e \in Engrams, Deactivate(e)
      PROVE  MemoryHolds' /\ Linking({})
  <2>1. e \in Rows /\ engram' = [engram EXCEPT ![e].active = FALSE] /\ UNCHANGED <<op, told, raced, shared>>
    BY <1>2 DEF Deactivate, Active
  <2>2. PICK card : card = [engram[e] EXCEPT !.active = FALSE]
    OBVIOUS
  <2>3. /\ card \in Card /\ card.is = "row" /\ card.vec = engram[e].vec
        /\ card.text = engram[e].text /\ card.turns = engram[e].turns
    BY ZenonT(40), <2>1, <2>2 DEF Card, MemoryTypeOK
  <2>4. engram' = [engram EXCEPT ![e] = card]
    BY <2>1, <2>2
  <2>5. /\ engram' \in [Engrams -> Card] /\ engram'[e] = card
        /\ \A d \in Engrams : d # e => engram'[d] = engram[d]
        /\ Rows' = Rows /\ Unused' = Unused
    BY <2>1, <2>3, <2>4, CardUpdated
  <2>6. MemoryTypeOK'
    BY <2>1, <2>5 DEF MemoryTypeOK
  <2>7. ToldIsKept' /\ Unborn' /\ Linking({})
    BY <2>1, <2>3, <2>5 DEF ToldIsKept, Unborn, Linking
  <2>8. \A t \in Sessions : CallHolds(t)'
    BY <2>1, <2>3, <2>5 DEF CallHolds
  <2>9. CallsApart' /\ VectorOfText'
    BY <2>1, <2>3, <2>5 DEF CallsApart, InCard, VectorOfText
  <2> QED BY <2>5, <2>6, <2>7, <2>8, <2>9
<1>3. ASSUME NEW e \in Engrams, Delete(e)
      PROVE  MemoryHolds' /\ Linking({})
  <2>1. /\ e \in Rows /\ engram' = [engram EXCEPT ![e] = [NoEngram EXCEPT !.is = "deleted"]]
        /\ UNCHANGED <<op, told, raced, shared>>
    BY <1>3 DEF Delete
  <2>2. PICK card : card = [NoEngram EXCEPT !.is = "deleted"]
    OBVIOUS
  <2>3. card \in Card /\ card.is = "deleted"
    BY <2>2 DEF NoEngram, Card
  <2>4. engram' = [engram EXCEPT ![e] = card]
    BY <2>1, <2>2
  <2>5. /\ engram' \in [Engrams -> Card] /\ engram'[e] = card
        /\ \A d \in Engrams : d # e => engram'[d] = engram[d]
    BY <2>3, <2>4 DEF MemoryTypeOK
  <2>6. MemoryTypeOK'
    BY <2>1, <2>5 DEF MemoryTypeOK
  <2>7. ToldIsKept' /\ Unborn' /\ Linking({})
    BY <2>1, <2>3, <2>5 DEF ToldIsKept, Unborn, Linking
  <2>9. CallsApart' /\ VectorOfText'
    BY <2>1, <2>3, <2>5 DEF CallsApart, InCard, VectorOfText
  <2>8. \A t \in Sessions : CallHolds(t)'
    BY <2>1, <2>3, <2>5 DEF CallHolds
  <2> QED BY <2>6, <2>7, <2>8, <2>9
<1> QED BY <1>1, <1>2, <1>3 DEF Operator

-----------------------------------------------------------------------------
(* The runs and their turns. *)

Newest(s) == Len(turns[s])

(* Where a run stands tells what its turn has: it works on the last one.   *)
RunHolds(s) ==
  /\ Newest(s) <= MaxTurns
  /\ run[s].pc \in {"idle", "queued", "find"} => run[s].turn = 0
  /\ run[s].pc \notin {"idle", "queued", "find", "end"} => run[s].turn = Newest(s) /\ Newest(s) # 0
  /\ run[s].pc = "end" => run[s].turn \in {0, Newest(s)}
  /\ run[s].pc \in {"build", "ask", "think"} => Turn(s).status = "ACTIVE"
  /\ run[s].pc = "think" => Turn(s).asked
  /\ run[s].pc \in {"tools", "exec", "record", "memory", "post"} =>
       Turn(s).status = "COMPLETED" /\ Turn(s).answered
  /\ run[s].pc \in {"sleep", "end"} /\ run[s].turn # 0 => Turn(s).status # "ACTIVE"
  /\ run[s].pc \in {"exec", "record", "memory", "post"} =>
       run[s].call \in DOMAIN Turn(s).calls /\ Called(s).tool = run[s].tool
  /\ op[s].pc # "idle" => run[s].pc = "memory" /\ op[s].turn \in {0, run[s].turn}

(* What a turn has says how far it has come.                               *)
TurnHolds(s, n) ==
  /\ n < Newest(s) => turns[s][n].status # "ACTIVE"
  /\ turns[s][n].status # "ACTIVE" => turns[s][n].asked
  /\ turns[s][n].status = "ACTIVE" => ~turns[s][n].answered
  /\ ~turns[s][n].answered => turns[s][n].calls = <<>>

ExecutedHold(s) ==
  \A x \in executed : x[1] = s =>
    /\ x[2] \in DOMAIN turns[s] /\ x[3] \in DOMAIN turns[s][x[2]].calls
    /\ turns[s][x[2]].calls[x[3]].tool = x[4]

(* What CallsAnswered asks of a prompt.                                    *)
Accepted(q) ==
  \A i \in DOMAIN q :
    /\ q[i].role = "assistant" => IsSequence(q[i].calls) /\
         \A j \in DOMAIN q[i].calls :
           i + j <= Len(q) /\ q[i + j].role = "tool" /\ q[i + j].id = q[i].calls[j]
    /\ q[i].role = "tool" =>
         \E h \in 1..(i - 1) : q[h].role = "assistant" /\ q[h].calls # <<>> /\
           i - h <= Len(q[h].calls) /\ q[h].calls[i - h] = q[i].id

(* The results that the prompt of turn n has: those of the last three.     *)
ResultsOf(s, m, n) == {ToolMessage(m, k, Warning(n - m)) : k \in DOMAIN turns[s][m].calls}
Due(s, n) == UNION {ResultsOf(s, m, n) : m \in {i \in 1..(n - 1) : n - i < 4}}

PromptHolds(s, n, q) ==
  /\ IsSequence(q) /\ Accepted(q)
  /\ "RiverOfSix" \in Addons => Results(q) = Due(s, n)
RequestsHold(s) ==
  /\ \A n \in DOMAIN turns[s] : turns[s][n].asked => PromptHolds(s, n, turns[s][n].request)
  /\ run[s].pc = "ask" => PromptHolds(s, run[s].turn, run[s].prompt)

(* A turn that nobody works on any more, and no run died in.               *)
Settled(s, n) ==
  /\ n \in DOMAIN turns[s] /\ turns[s][n].asked /\ <<s, n>> \notin cut
  /\ n # run[s].turn \/ run[s].pc \in {"sleep", "end"}

(* A digest says what there is to say of the turn, by the cards there are. *)
Matches(s, n, d) ==
  /\ d \in Digests /\ d.status = turns[s][n].status /\ d.text = turns[s][n].text
  /\ d.engrams \cap Rows = Formed(engram, s, n)
  /\ d.calls = BuildDigest(turns[s][n], {}).calls

SeenBy(s) == {n \in 1..MaxTurns : screen[s].seen[n] \notin {None, Ghost}}

(* A screen that is off misses turns from the last one it saw on, and the  *)
(* database has the digest of each.                                        *)
ScreenHolds(s) ==
  /\ \A n \in DOMAIN turns[s] : turns[s][n].asked => turns[s][n].digest # None
  /\ \A n \in DOMAIN turns[s] :
       turns[s][n].digest # None => turns[s][n].digest.engrams \cap Unused = {}
  /\ \A n \in SeenBy(s) : n <= Newest(s) /\ screen[s].seen[n].engrams \cap Unused = {}
  /\ \A n \in DOMAIN turns[s] : Settled(s, n) => Matches(s, n, turns[s][n].digest)
  /\ \A n \in DOMAIN turns[s] :
       Settled(s, n) /\ n \notin screen[s].gap /\ (screen[s].on \/ n < LastSeen(s)) =>
         Matches(s, n, screen[s].seen[n])

SessionHolds(s) ==
  /\ RunHolds(s) /\ \A n \in DOMAIN turns[s] : TurnHolds(s, n)
  /\ ExecutedHold(s) /\ RequestsHold(s) /\ ScreenHolds(s)

-----------------------------------------------------------------------------
(* Conversations. *)

LEMMA AcceptedJoined ==
  ASSUME NEW p, IsSequence(p), Accepted(p), NEW q, IsSequence(q), Accepted(q)
  PROVE  Accepted(p \o q)
<1>1. PICK r : r = p \o q
  OBVIOUS
<1>2. /\ Len(p) \in Nat /\ Len(q) \in Nat /\ Len(r) = Len(p) + Len(q)
      /\ DOMAIN p = 1..Len(p) /\ DOMAIN q = 1..Len(q) /\ DOMAIN r = 1..Len(r)
      /\ \A i \in 1..Len(p) : r[i] = p[i]
      /\ \A i \in 1..Len(q) : r[Len(p) + i] = q[i]
  <2>1. /\ IsSequence(p \o q) /\ Len(p \o q) = Len(p) + Len(q)
        /\ \A i \in 1..Len(p) : (p \o q)[i] = p[i]
        /\ \A i \in 1..Len(q) : (p \o q)[Len(p) + i] = q[i]
    BY SequenceJoined
  <2>2. DOMAIN r = 1..Len(r)
    BY <1>1, <2>1, SequenceFacts
  <2>3. Len(p) \in Nat /\ Len(q) \in Nat /\ DOMAIN p = 1..Len(p) /\ DOMAIN q = 1..Len(q)
    BY SequenceFacts
  <2> QED BY <1>1, <2>1, <2>2, <2>3
<1> SUFFICES ASSUME NEW i \in DOMAIN r
             PROVE  /\ r[i].role = "assistant" => IsSequence(r[i].calls) /\
                         \A j \in DOMAIN r[i].calls :
                           i + j <= Len(r) /\ r[i + j].role = "tool" /\ r[i + j].id = r[i].calls[j]
                    /\ r[i].role = "tool" =>
                         \E h \in 1..(i - 1) : r[h].role = "assistant" /\ r[h].calls # <<>> /\
                           i - h <= Len(r[h].calls) /\ r[h].calls[i - h] = r[i].id
  BY ZenonT(40), <1>1 DEF Accepted
<1>3. CASE i <= Len(p)
  <2>1. i \in DOMAIN p /\ r[i] = p[i] /\ i \in Nat
    BY <1>2, <1>3
  <2>2. ASSUME r[i].role = "assistant"
        PROVE  IsSequence(r[i].calls) /\
               \A j \in DOMAIN r[i].calls :
                 i + j <= Len(r) /\ r[i + j].role = "tool" /\ r[i + j].id = r[i].calls[j]
    <3>1. IsSequence(p[i].calls)
      BY <2>1, <2>2 DEF Accepted
    <3>2. ASSUME NEW j \in DOMAIN p[i].calls
          PROVE  i + j <= Len(r) /\ r[i + j].role = "tool" /\ r[i + j].id = p[i].calls[j]
      <4>1. j \in Nat /\ j >= 1
        BY <3>1, SequenceFacts
      <4>2. i + j <= Len(p) /\ p[i + j].role = "tool" /\ p[i + j].id = p[i].calls[j]
        BY <2>1, <2>2 DEF Accepted
      <4>3. r[i + j] = p[i + j]
        BY <1>2, <2>1, <4>1, <4>2
      <4> QED BY <1>2, <2>1, <4>1, <4>2, <4>3
    <3> QED BY <2>1, <3>1, <3>2
  <2>3. ASSUME r[i].role = "tool"
        PROVE  \E h \in 1..(i - 1) : r[h].role = "assistant" /\ r[h].calls # <<>> /\
                 i - h <= Len(r[h].calls) /\ r[h].calls[i - h] = r[i].id
    <3>1. PICK h \in 1..(i - 1) : p[h].role = "assistant" /\ p[h].calls # <<>> /\
                 i - h <= Len(p[h].calls) /\ p[h].calls[i - h] = p[i].id
      BY <2>1, <2>3 DEF Accepted
    <3>2. r[h] = p[h]
      BY <1>2, <1>3, <2>1
    <3> QED BY <2>1, <3>1, <3>2
  <2> QED BY <2>2, <2>3
<1>4. CASE i > Len(p)
  <2>1. PICK k \in DOMAIN q : i = Len(p) + k
    <3>1. i - Len(p) \in 1..Len(q) /\ i = Len(p) + (i - Len(p))
      BY <1>2, <1>4
    <3> QED BY <1>2, <3>1
  <2>2. r[i] = q[k] /\ k \in Nat /\ i \in Nat
    BY <1>2, <2>1
  <2>3. ASSUME r[i].role = "assistant"
        PROVE  IsSequence(r[i].calls) /\
               \A j \in DOMAIN r[i].calls :
                 i + j <= Len(r) /\ r[i + j].role = "tool" /\ r[i + j].id = r[i].calls[j]
    <3>1. IsSequence(q[k].calls)
      BY <2>2, <2>3 DEF Accepted
    <3>2. ASSUME NEW j \in DOMAIN q[k].calls
          PROVE  i + j <= Len(r) /\ r[i + j].role = "tool" /\ r[i + j].id = q[k].calls[j]
      <4>1. j \in Nat /\ j >= 1
        BY <3>1, SequenceFacts
      <4>2. k + j <= Len(q) /\ q[k + j].role = "tool" /\ q[k + j].id = q[k].calls[j]
        BY <2>2, <2>3 DEF Accepted
      <4>3. k + j \in 1..Len(q) /\ i + j = Len(p) + (k + j)
        BY <1>2, <2>1, <2>2, <4>1, <4>2
      <4>4. r[i + j] = q[k + j]
        BY <1>2, <4>3
      <4> QED BY <1>2, <4>2, <4>3, <4>4
    <3> QED BY <2>2, <3>1, <3>2
  <2>4. ASSUME r[i].role = "tool"
        PROVE  \E h \in 1..(i - 1) : r[h].role = "assistant" /\ r[h].calls # <<>> /\
                 i - h <= Len(r[h].calls) /\ r[h].calls[i - h] = r[i].id
    <3>1. PICK h \in 1..(k - 1) : q[h].role = "assistant" /\ q[h].calls # <<>> /\
                 k - h <= Len(q[h].calls) /\ q[h].calls[k - h] = q[k].id
      BY <2>2, <2>4 DEF Accepted
    <3>2. PICK g : g = Len(p) + h
      OBVIOUS
    <3>3. g \in 1..(i - 1) /\ h \in 1..Len(q) /\ i - g = k - h
      BY <1>2, <2>1, <2>2, <3>1, <3>2
    <3>4. r[g] = q[h]
      BY <1>2, <3>2, <3>3
    <3> QED BY <2>2, <3>1, <3>3, <3>4
  <2> QED BY <2>3, <2>4
<1>5. Len(p) \in Nat /\ i \in Nat
  BY <1>2
<1> QED BY <1>3, <1>4, <1>5

LEMMA ResultsJoined ==
  ASSUME NEW p, IsSequence(p), NEW q, IsSequence(q)
  PROVE  Results(p \o q) = Results(p) \cup Results(q)
<1>1. PICK r : r = p \o q
  OBVIOUS
<1>2. /\ Len(p) \in Nat /\ Len(q) \in Nat /\ Len(r) = Len(p) + Len(q)
      /\ DOMAIN p = 1..Len(p) /\ DOMAIN q = 1..Len(q) /\ DOMAIN r = 1..Len(r)
      /\ \A i \in 1..Len(p) : r[i] = p[i]
      /\ \A i \in 1..Len(q) : r[Len(p) + i] = q[i]
  <2>1. /\ IsSequence(p \o q) /\ Len(p \o q) = Len(p) + Len(q)
        /\ \A i \in 1..Len(p) : (p \o q)[i] = p[i]
        /\ \A i \in 1..Len(q) : (p \o q)[Len(p) + i] = q[i]
    BY SequenceJoined
  <2>2. DOMAIN r = 1..Len(r)
    BY <1>1, <2>1, SequenceFacts
  <2>3. Len(p) \in Nat /\ Len(q) \in Nat /\ DOMAIN p = 1..Len(p) /\ DOMAIN q = 1..Len(q)
    BY SequenceFacts
  <2> QED BY <1>1, <2>1, <2>2, <2>3
<1>3. Results(r) \subseteq Results(p) \cup Results(q)
  <2> SUFFICES ASSUME NEW i \in DOMAIN r, r[i].role = "tool"
               PROVE  r[i] \in Results(p) \cup Results(q)
    BY DEF Results
  <2>1. CASE i <= Len(p)
    BY <1>2, <2>1 DEF Results
  <2>2. CASE i > Len(p)
    <3>1. i - Len(p) \in 1..Len(q) /\ i = Len(p) + (i - Len(p))
      BY <1>2, <2>2
    <3>2. r[i] = q[i - Len(p)]
      BY <1>2, <3>1
    <3> QED BY <1>2, <3>1, <3>2 DEF Results
  <2> QED BY <1>2, <2>1, <2>2
<1>4. Results(p) \subseteq Results(r)
  BY <1>2 DEF Results
<1>5. Results(q) \subseteq Results(r)
  <2> SUFFICES ASSUME NEW i \in DOMAIN q, q[i].role = "tool"
               PROVE  q[i] \in Results(r)
    BY DEF Results
  <2>1. Len(p) + i \in DOMAIN r /\ r[Len(p) + i] = q[i]
    BY <1>2
  <2> QED BY <2>1 DEF Results
<1> QED BY <1>1, <1>3, <1>4, <1>5

LEMMA BothAccepted ==
  ASSUME NEW p, IsSequence(p), Accepted(p), NEW q, IsSequence(q), Accepted(q),
         NEW r, r = p \o q
  PROVE  IsSequence(r) /\ Accepted(r) /\ Results(r) = Results(p) \cup Results(q)
<1>1. IsSequence(p \o q)
  BY SequenceJoined
<1>2. Accepted(p \o q)
  BY AcceptedJoined
<1>3. Results(p \o q) = Results(p) \cup Results(q)
  BY ResultsJoined
<1> QED BY <1>1, <1>2, <1>3

(* Messages that are neither an assistant's nor a tool's are accepted in   *)
(* any order.                                                              *)
LEMMA OthersAccepted ==
  ASSUME NEW q, \A i \in DOMAIN q : q[i].role \notin {"assistant", "tool"}
  PROVE  Accepted(q) /\ Results(q) = {}
  BY DEF Accepted, Results

LEMMA NothingAccepted == IsSequence(<<>>) /\ Accepted(<<>>) /\ Results(<<>>) = {}
<1>1. IsSequence(<<>>) /\ DOMAIN <<>> = {}
  BY SequenceOfNone, SequenceFacts
<1> QED BY <1>1, OthersAccepted

LEMMA OneAccepted ==
  ASSUME NEW x, x.role \notin {"assistant", "tool"}
  PROVE  IsSequence(<<x>>) /\ Accepted(<<x>>) /\ Results(<<x>>) = {}
<1>1. IsSequence(<<x>>) /\ Len(<<x>>) = 1 /\ <<x>>[1] = x /\ DOMAIN <<x>> = 1..1
  BY SequenceOfOne, SequenceFacts
<1> QED BY <1>1, OthersAccepted

(* The parts of a concatenation are over the union of their ranges.        *)
LEMMA FlattenOver ==
  ASSUME NEW q, IsSequence(q), \A i \in DOMAIN q : IsSequence(q[i])
  PROVE  \E M : \A i \in DOMAIN q : q[i] \in Seq(M)
<1> DEFINE R(i) == {q[i][j] : j \in DOMAIN q[i]}
           M == UNION {R(i) : i \in DOMAIN q}
<1>1. ASSUME NEW i \in DOMAIN q PROVE q[i] \in Seq(M)
  <2>1. q[i] \in Seq(R(i))
    BY DEF IsSequence
  <2>2. R(i) \subseteq M
    OBVIOUS
  <2> HIDE DEF R, M
  <2> QED BY <2>1, <2>2
<1> QED BY <1>1

LEMMA FlattenAccepted ==
  ASSUME NEW q, IsSequence(q), \A i \in DOMAIN q : IsSequence(q[i]) /\ Accepted(q[i])
  PROVE  IsSequence(FlattenSeq(q)) /\ Accepted(FlattenSeq(q))
<1>1. CASE q = <<>>
  <2>1. FlattenSeq(q) = <<>>
    BY <1>1, SequenceOfNone DEF FlattenSeq
  <2> QED BY <2>1, NothingAccepted
<1>2. CASE q # <<>>
  <2>1. PICK M : \A i \in DOMAIN q : q[i] \in Seq(M)
    BY FlattenOver
  <2> DEFINE X == {p \in Seq(M) : Accepted(p)}
  <2>2. ASSUME NEW x \in X, NEW y \in X PROVE x \o y \in X
    <3>1. IsSequence(x) /\ IsSequence(y)
      BY SequenceOver
    <3>2. Accepted(x \o y)
      BY <3>1, AcceptedJoined
    <3>3. x \o y \in Seq(M)
      OBVIOUS
    <3> QED BY <3>2, <3>3
  <2>3. \A i \in DOMAIN q : q[i] \in X
    BY <2>1
  <2> HIDE DEF X
  <2>4. FlattenSeq(q) \in X
    BY <1>2, <2>2, <2>3, FlattenIn
  <2> QED BY <2>4, SequenceOver DEF X
<1> QED BY <1>1, <1>2

(* A selection from a conversation: what a filter keeps, one by one.       *)
LEMMA FlattenUsers ==
  ASSUME NEW q, IsSequence(q),
         \A i \in DOMAIN q : /\ IsSequence(q[i])
                             /\ \A j \in DOMAIN q[i] : q[i][j].role = "user"
  PROVE  /\ IsSequence(FlattenSeq(q))
         /\ \A i \in DOMAIN FlattenSeq(q) : FlattenSeq(q)[i].role = "user"
<1>1. CASE q = <<>>
  <2>1. FlattenSeq(q) = <<>>
    BY <1>1, SequenceOfNone DEF FlattenSeq
  <2> QED BY <2>1, SequenceOfNone, SequenceFacts
<1>2. CASE q # <<>>
  <2>1. PICK M : \A i \in DOMAIN q : q[i] \in Seq(M)
    BY FlattenOver
  <2> DEFINE X == {p \in Seq(M) : \A i \in DOMAIN p : p[i].role = "user"}
  <2>2. ASSUME NEW x \in X, NEW y \in X PROVE x \o y \in X
    <3>1. x \o y \in Seq(M) /\ x \in Seq(M) /\ y \in Seq(M)
      OBVIOUS
    <3>2. ASSUME NEW i \in DOMAIN (x \o y) PROVE (x \o y)[i].role = "user"
      <4>1. i \in 1..(Len(x) + Len(y)) /\ Len(x) \in Nat /\ Len(y) \in Nat
        BY <3>1
      <4>2. CASE i <= Len(x)
        BY <3>1, <4>1, <4>2
      <4>3. CASE i > Len(x)
        BY <3>1, <4>1, <4>3
      <4> QED BY <4>1, <4>2, <4>3
    <3> QED BY <3>1, <3>2
  <2>3. \A i \in DOMAIN q : q[i] \in X
    BY <2>1
  <2> HIDE DEF X
  <2>4. FlattenSeq(q) \in X
    BY <1>2, <2>2, <2>3, FlattenIn
  <2> QED BY <2>4, SequenceOver DEF X
<1> QED BY <1>1, <1>2

LEMMA FlattenResults ==
  ASSUME NEW q, IsSequence(q), \A i \in DOMAIN q : IsSequence(q[i])
  PROVE  Results(FlattenSeq(q)) = UNION {Results(q[i]) : i \in DOMAIN q}
<1>1. CASE q = <<>>
  <2>1. FlattenSeq(q) = <<>> /\ DOMAIN q = {}
    BY <1>1, SequenceOfNone, SequenceFacts DEF FlattenSeq
  <2> QED BY <2>1, NothingAccepted
<1>2. CASE q # <<>>
  <2>1. Len(q) \in Nat /\ Len(q) # 0 /\ DOMAIN q = 1..Len(q)
    BY <1>2, SequenceFacts
  <2>2. PICK f : IsFlattening(f, q, Len(q)) /\ FlattenSeq(q) = f[Len(q)]
    BY <2>1, FlattenUnfolds
  <2> DEFINE Good(i) == IsSequence(f[i]) /\ Results(f[i]) = UNION {Results(q[j]) : j \in 1..i}
             Bad == {i \in 1..Len(q) : ~Good(i)}
  <2>3. Bad = {}
    <3> SUFFICES ASSUME Bad # {} PROVE FALSE
      OBVIOUS
    <3>1. PICK m \in Bad : \A k \in Bad : m <= k
      <4>1. Bad \in SUBSET Nat
        BY <2>1
      <4> HIDE DEF Bad
      <4> QED BY <4>1, LeastNumber
    <3>2. f[m] = IF m = 1 THEN q[m] ELSE f[m - 1] \o q[m]
      BY <2>2 DEF IsFlattening
    <3>3. CASE m = 1
      <4>1. f[1] = q[1] /\ 1 \in DOMAIN q
        BY <2>1, <3>1, <3>2, <3>3
      <4>2. \A j \in 1..1 : j = 1
        OBVIOUS
      <4>3. UNION {Results(q[j]) : j \in 1..1} = Results(q[1])
        BY <4>2
      <4>4. Good(1)
        BY <4>1, <4>3
      <4> QED BY <3>1, <3>3, <4>4
    <3>4. CASE m # 1
      <4>1. m \in 1..Len(q) /\ m - 1 \in 1..Len(q) /\ Good(m - 1)
        BY <2>1, <3>1, <3>4
      <4>2. IsSequence(f[m - 1]) /\ IsSequence(q[m]) /\ f[m] = f[m - 1] \o q[m]
        BY <2>1, <3>2, <3>4, <4>1
      <4>3. IsSequence(f[m])
        BY <4>2, SequenceJoined
      <4>4. Results(f[m]) = Results(f[m - 1]) \cup Results(q[m])
        BY <4>2, ResultsJoined
      <4>5. \A j : j \in 1..m <=> j \in 1..(m - 1) \/ j = m
        BY <2>1, <4>1
      <4>6. UNION {Results(q[j]) : j \in 1..m}
            = (UNION {Results(q[j]) : j \in 1..(m - 1)}) \cup Results(q[m])
        BY <4>5
      <4>7. Results(f[m - 1]) = UNION {Results(q[j]) : j \in 1..(m - 1)}
        BY <4>1
      <4>8. Good(m)
        BY <4>3, <4>4, <4>6, <4>7
      <4> QED BY <3>1, <4>8
    <3> QED BY <3>3, <3>4
  <2>4. Len(q) \in 1..Len(q)
    BY <2>1
  <2>5. Good(Len(q))
    BY <2>3, <2>4
  <2> QED BY <2>1, <2>2, <2>5
<1> QED BY <1>1, <1>2

-----------------------------------------------------------------------------
(* Prompts. *)

LEMMA UserMessages ==
  ASSUME NEW q, IsSequence(q)
  PROVE  /\ IsSequence(ExtractUserMessages(q)) /\ Accepted(ExtractUserMessages(q))
         /\ Results(ExtractUserMessages(q)) = {}
<1> DEFINE parts == [i \in DOMAIN q |->
              IF q[i].role = "user" /\ q[i].human THEN <<q[i]>> ELSE <<>>]
<1>1. IsSequence(parts)
  <2>1. Len(q) \in Nat /\ DOMAIN q = 1..Len(q)
    BY SequenceFacts
  <2>2. parts = [i \in 1..Len(q) |-> parts[i]]
    BY <2>1
  <2> HIDE DEF parts
  <2> QED BY <2>1, <2>2, SequenceMade
<1>2. ASSUME NEW i \in DOMAIN parts
      PROVE  IsSequence(parts[i]) /\ \A j \in DOMAIN parts[i] : parts[i][j].role = "user"
  <2>1. CASE q[i].role = "user" /\ q[i].human
    <3>1. parts[i] = <<q[i]>>
      BY <2>1
    <3>2. IsSequence(<<q[i]>>) /\ Len(<<q[i]>>) = 1 /\ <<q[i]>>[1] = q[i]
      BY SequenceOfOne
    <3>3. \A j \in DOMAIN <<q[i]>> : <<q[i]>>[j].role = "user"
      BY <2>1, <3>2, SequenceFacts
    <3> QED BY <3>1, <3>2, <3>3
  <2>2. CASE ~(q[i].role = "user" /\ q[i].human)
    <3>1. parts[i] = <<>>
      BY <2>2
    <3>2. IsSequence(<<>>) /\ DOMAIN <<>> = {}
      BY SequenceOfNone, SequenceFacts
    <3> QED BY <3>1, <3>2
  <2> QED BY <2>1, <2>2
<1>3. ExtractUserMessages(q) = FlattenSeq(parts)
  BY DEF ExtractUserMessages
<1> HIDE DEF parts
<1>4. /\ IsSequence(FlattenSeq(parts))
      /\ \A i \in DOMAIN FlattenSeq(parts) : FlattenSeq(parts)[i].role = "user"
  BY <1>1, <1>2, FlattenUsers
<1>5. \A i \in DOMAIN FlattenSeq(parts) : FlattenSeq(parts)[i].role \notin {"assistant", "tool"}
  BY <1>4
<1>6. Accepted(FlattenSeq(parts)) /\ Results(FlattenSeq(parts)) = {}
  BY <1>5, OthersAccepted
<1> QED BY <1>3, <1>4, <1>6

(* A message of an assistant, followed by the results of its calls.        *)
LEMMA CallsFollowed ==
  ASSUME NEW t, IsTurn(t), NEW n \in Nat, NEW age \in Nat, ~t.answered => t.calls = <<>>
  PROVE  LET speech == BuildAssistant(t, n, Evicted(age))
             results == BuildToolMessages(t, n, age)
         IN /\ IsSequence(speech \o results) /\ Accepted(speech \o results)
            /\ Results(speech \o results) =
                 IF Evicted(age) THEN {}
                 ELSE {ToolMessage(n, k, Warning(age)) : k \in DOMAIN t.calls}
<1> DEFINE speech == BuildAssistant(t, n, Evicted(age))
           results == BuildToolMessages(t, n, age)
           calls == IF Evicted(age) THEN <<>> ELSE [k \in DOMAIN t.calls |-> <<n, k>>]
           message == [role |-> "assistant", text |-> t.text, calls |-> calls]
<1>1. IsSequence(t.calls) /\ Len(t.calls) \in Nat /\ DOMAIN t.calls = 1..Len(t.calls)
      /\ (t.calls = <<>> <=> Len(t.calls) = 0)
  <2>1. IsSequence(t.calls)
    BY SequenceOver DEF IsTurn
  <2> QED BY <2>1, SequenceFacts
<1>2. IsSequence(calls) /\ (Evicted(age) => Len(calls) = 0)
      /\ (~Evicted(age) => /\ Len(calls) = Len(t.calls)
                           /\ \A k \in 1..Len(calls) : calls[k] = <<n, k>>)
  <2>1. CASE Evicted(age)
    BY <2>1, SequenceOfNone
  <2>2. CASE ~Evicted(age)
    <3>1. calls = [k \in 1..Len(t.calls) |-> <<n, k>>]
      BY <1>1, <2>2
    <3>2. calls = [k \in 1..Len(t.calls) |-> calls[k]]
      BY <3>1
    <3>3. IsSequence(calls) /\ Len(calls) = Len(t.calls)
      <4> HIDE DEF calls
      <4> QED BY <1>1, <3>2, SequenceMade
    <3> QED BY <2>2, <3>1, <3>3
  <2> QED BY <2>1, <2>2
<1>3. IsSequence(results) /\ (Evicted(age) => Len(results) = 0)
      /\ (~Evicted(age) => /\ Len(results) = Len(t.calls)
                           /\ \A k \in 1..Len(results) :
                                results[k] = ToolMessage(n, k, Warning(age)))
  <2>1. CASE Evicted(age)
    BY <2>1, SequenceOfNone DEF BuildToolMessages
  <2>2. CASE ~Evicted(age)
    <3>1. results = [k \in 1..Len(t.calls) |-> ToolMessage(n, k, Warning(age))]
      BY <1>1, <2>2 DEF BuildToolMessages
    <3>2. results = [k \in 1..Len(t.calls) |-> results[k]]
      BY <3>1
    <3>3. IsSequence(results) /\ Len(results) = Len(t.calls)
      <4> HIDE DEF results
      <4> QED BY <1>1, <3>2, SequenceMade
    <3> QED BY <2>2, <3>1, <3>3
  <2> QED BY <2>1, <2>2
<1>4. speech = IF t.answered /\ (t.text # "" \/ calls # <<>>) THEN <<message>> ELSE <<>>
  BY DEF BuildAssistant
<1>5. /\ Len(results) = Len(calls)
      /\ \A k \in 1..Len(results) : /\ results[k].role = "tool" /\ results[k].id = calls[k]
                                    /\ results[k] = ToolMessage(n, k, Warning(age))
  BY <1>2, <1>3 DEF ToolMessage
<1>6. message.role = "assistant" /\ message.calls = calls
  OBVIOUS
<1>7. Len(calls) = 0 <=> calls = <<>>
  <2> HIDE DEF calls
  <2> QED BY <1>2, SequenceFacts
<1>8. PICK r : r = speech \o results
  OBVIOUS
<1>9. Results(results) = IF Evicted(age) THEN {}
                 ELSE {ToolMessage(n, k, Warning(age)) : k \in DOMAIN t.calls}
  <2>1. DOMAIN results = 1..Len(results)
    BY <1>3, SequenceFacts
  <2>2. CASE Evicted(age)
    BY <1>3, <2>1, <2>2 DEF Results
  <2>3. CASE ~Evicted(age)
    <3>1. \A k \in DOMAIN t.calls : k \in DOMAIN results /\ results[k].role = "tool"
                                    /\ results[k] = ToolMessage(n, k, Warning(age))
      BY <1>1, <1>3, <1>5, <2>1, <2>3
    <3>2. DOMAIN results = DOMAIN t.calls
      BY <1>1, <1>3, <2>1, <2>3
    <3> HIDE DEF results
    <3> QED BY <2>3, <3>1, <3>2 DEF Results
  <2> QED BY <2>2, <2>3
<1> HIDE DEF results, calls, message
<1>10. CASE t.answered /\ (t.text # "" \/ calls # <<>>)
  <2>1. speech = <<message>> /\ IsSequence(speech) /\ Len(speech) = 1 /\ speech[1] = message
    BY <1>4, <1>10, SequenceOfOne
  <2>2. /\ IsSequence(speech \o results) /\ Len(speech \o results) = 1 + Len(results)
        /\ \A i \in 1..1 : (speech \o results)[i] = speech[i]
        /\ \A i \in 1..Len(results) : (speech \o results)[1 + i] = results[i]
    <3> HIDE DEF speech
    <3> QED BY <1>3, <2>1, SequenceJoined
  <2> HIDE DEF speech
  <2>3. /\ IsSequence(r) /\ Len(r) = 1 + Len(results) /\ Len(results) \in Nat
        /\ DOMAIN r = 1..(1 + Len(results)) /\ r[1] = message
        /\ \A i \in 1..Len(results) : r[1 + i] = results[i]
    <3>1. IsSequence(r) /\ Len(r) = 1 + Len(results)
      BY <1>8, <2>2
    <3>2. Len(results) \in Nat
      BY <1>3, SequenceFacts
    <3>3. DOMAIN r = 1..Len(r)
      BY <3>1, SequenceFacts
    <3>4. r[1] = message /\ \A i \in 1..Len(results) : r[1 + i] = results[i]
      BY <1>8, <2>1, <2>2
    <3> QED BY <3>1, <3>2, <3>3, <3>4
  <2>4. Accepted(r)
    <3> SUFFICES ASSUME NEW i \in DOMAIN r
                 PROVE  /\ r[i].role = "assistant" => IsSequence(r[i].calls) /\
                             \A j \in DOMAIN r[i].calls :
                               i + j <= Len(r) /\ r[i + j].role = "tool" /\ r[i + j].id = r[i].calls[j]
                        /\ r[i].role = "tool" =>
                             \E h \in 1..(i - 1) : r[h].role = "assistant" /\ r[h].calls # <<>> /\
                               i - h <= Len(r[h].calls) /\ r[h].calls[i - h] = r[i].id
      BY DEF Accepted
    <3>1. CASE i = 1
      <4>1. r[i].role = "assistant" /\ r[i].calls = calls
        BY <1>6, <2>3, <3>1
      <4>2. DOMAIN calls = 1..Len(calls)
        BY <1>2, SequenceFacts
      <4>3. ASSUME NEW j \in DOMAIN calls
            PROVE  i + j <= Len(r) /\ r[i + j].role = "tool" /\ r[i + j].id = calls[j]
        <5>1. j \in 1..Len(results)
          BY <1>5, <4>2
        <5>2. r[1 + j] = results[j] /\ results[j].role = "tool" /\ results[j].id = calls[j]
          BY <1>5, <2>3, <5>1
        <5> QED BY <2>3, <3>1, <5>1, <5>2
      <4> QED BY <1>2, <4>1, <4>3
    <3>2. CASE i # 1
      <4>1. i \in Nat /\ i - 1 \in 1..Len(results) /\ i = 1 + (i - 1)
        BY <2>3, <3>2
      <4>2. r[i] = results[i - 1]
        BY <2>3, <4>1
      <4>3. r[i].role = "tool" /\ r[i].id = calls[i - 1]
        BY <1>5, <4>1, <4>2
      <4>4. 1 \in 1..(i - 1) /\ r[1].role = "assistant" /\ r[1].calls = calls
        BY <1>6, <2>3, <4>1
      <4>5. calls # <<>> /\ i - 1 <= Len(calls)
        BY <1>5, <1>7, <4>1
      <4> QED BY <4>3, <4>4, <4>5
    <3> QED BY <3>1, <3>2
  <2>5. Results(speech) = {}
    <3>1. DOMAIN speech = 1..1
      BY <2>1, SequenceFacts
    <3>2. \A i \in DOMAIN speech : speech[i].role # "tool"
      BY <1>6, <2>1, <3>1
    <3> QED BY <3>2 DEF Results
  <2>6. Results(r) = Results(speech) \cup Results(results)
    BY <1>3, <1>8, <2>1, ResultsJoined
  <2> QED BY <1>8, <1>9, <2>3, <2>4, <2>5, <2>6 DEF results, speech
<1>11. CASE ~(t.answered /\ (t.text # "" \/ calls # <<>>))
  <2>1. speech = <<>>
    BY <1>4, <1>11
  <2>2. calls = <<>>
    <3>1. CASE t.answered
      BY <1>11, <3>1
    <3>2. CASE ~t.answered
      BY <1>1, <1>2, <1>7, <3>2
    <3> QED BY <3>1, <3>2
  <2>3. Len(results) = 0
    BY <1>5, <1>7, <2>2
  <2>4. results = <<>>
    BY <1>3, <2>3, SequenceFacts
  <2>5. IsSequence(<<>>) /\ Accepted(<<>>) /\ Results(<<>>) = {}
    BY NothingAccepted
  <2>6. r = <<>>
    <3>1. <<>> \o <<>> = <<>>
      OBVIOUS
    <3> QED BY <1>8, <2>1, <2>4, <3>1
  <2>7. IsSequence(r) /\ Accepted(r) /\ Results(r) = Results(results)
    BY <2>4, <2>5, <2>6
  <2> QED BY <1>8, <1>9, <2>7 DEF results, speech
<1> QED BY <1>10, <1>11

LEMMA RememberedAccepted ==
  ASSUME NEW t, IsTurn(t), NEW n \in Nat, NEW age \in Nat, ~t.answered => t.calls = <<>>,
         t.asked, IsSequence(t.request)
  PROVE  LET q == Remembered(t, n, age, Evicted(age))
         IN /\ IsSequence(q) /\ Accepted(q)
            /\ Results(q) = IF Evicted(age) THEN {}
                            ELSE {ToolMessage(n, k, Warning(age)) : k \in DOMAIN t.calls}
<1> DEFINE users == ExtractUserMessages(t.request)
           speech == BuildAssistant(t, n, Evicted(age))
           results == BuildToolMessages(t, n, age)
<1>1. IsSequence(users) /\ Accepted(users) /\ Results(users) = {}
  BY UserMessages
<1>2. /\ IsSequence(speech \o results) /\ Accepted(speech \o results)
      /\ Results(speech \o results) =
           IF Evicted(age) THEN {}
           ELSE {ToolMessage(n, k, Warning(age)) : k \in DOMAIN t.calls}
  BY CallsFollowed
<1>3. IsSequence(speech) /\ IsSequence(results)
  <2>1. IsSequence(t.calls)
    BY SequenceOver DEF IsTurn
  <2>2. IsSequence(results)
    <3>1. CASE Evicted(age)
      BY <3>1, SequenceOfNone DEF BuildToolMessages
    <3>2. CASE ~Evicted(age)
      <4>1. Len(t.calls) \in Nat /\ DOMAIN t.calls = 1..Len(t.calls)
        BY <2>1, SequenceFacts
      <4>2. results = [k \in 1..Len(t.calls) |-> results[k]]
        BY <3>2, <4>1 DEF BuildToolMessages
      <4> HIDE DEF results
      <4> QED BY <4>1, <4>2, SequenceMade
    <3> QED BY <3>1, <3>2
  <2>3. IsSequence(speech)
    BY SequenceOfOne, SequenceOfNone DEF BuildAssistant
  <2> QED BY <2>2, <2>3
<1>4. Remembered(t, n, age, Evicted(age)) = (users \o speech) \o results
  BY DEF Remembered
<1> HIDE DEF users, speech, results
<1>5. (users \o speech) \o results = users \o (speech \o results)
  <2> DEFINE M == {users[i] : i \in DOMAIN users} \cup {speech[i] : i \in DOMAIN speech}
                  \cup {results[i] : i \in DOMAIN results}
  <2>1. users \in Seq(M) /\ speech \in Seq(M) /\ results \in Seq(M)
    BY <1>1, <1>3 DEF IsSequence
  <2> HIDE DEF M
  <2> QED BY <2>1
<1>6. IsSequence(users \o (speech \o results))
  BY <1>1, <1>2, SequenceJoined
<1>7. Accepted(users \o (speech \o results))
  BY <1>1, <1>2, AcceptedJoined
<1>8. Results(users \o (speech \o results)) = Results(users) \cup Results(speech \o results)
  BY <1>1, <1>2, ResultsJoined
<1> QED BY <1>1, <1>2, <1>4, <1>5, <1>6, <1>7, <1>8

(* What a session has when its prompt is built.                            *)
Recalls(s) ==
  /\ Newest(s) # 0
  /\ \A m \in DOMAIN turns[s] : TurnHolds(s, m)
  /\ \A m \in DOMAIN turns[s] : turns[s][m].asked => IsSequence(turns[s][m].request)

LEMMA PartAccepted ==
  ASSUME TypeOK, NEW s \in Sessions, Recalls(s), NEW m \in 1..(Newest(s) - 1), NEW age \in Nat
  PROVE  LET q == Remembered(turns[s][m], m, age, Evicted(age))
         IN /\ IsSequence(q) /\ Accepted(q)
            /\ Results(q) = IF Evicted(age) THEN {}
                            ELSE {ToolMessage(m, k, Warning(age)) : k \in DOMAIN turns[s][m].calls}
<1>1. IsSequence(turns[s]) /\ \A i \in DOMAIN turns[s] : IsTurn(turns[s][i])
  BY DEF TypeOK, TurnsOK
<1>2. Newest(s) \in Nat /\ DOMAIN turns[s] = 1..Newest(s)
  BY <1>1, SequenceFacts DEF Newest
<1>3. m \in DOMAIN turns[s] /\ m < Newest(s) /\ m \in Nat
  BY <1>2
<1>4. PICK t : t = turns[s][m]
  OBVIOUS
<1>5. /\ IsTurn(t) /\ t.asked /\ IsSequence(t.request) /\ (~t.answered => t.calls = <<>>)
  BY <1>1, <1>3, <1>4 DEF Recalls, TurnHolds
<1> QED BY ZenonT(40), <1>3, <1>4, <1>5, RememberedAccepted

LEMMA RiverAccepted ==
  ASSUME TypeOK, NEW s \in Sessions, Recalls(s)
  PROVE  LET q == RiverOfSix(s, Newest(s))
         IN IsSequence(q) /\ Accepted(q) /\ Results(q) = Due(s, Newest(s))
<1>1. PICK n \in Nat : n = Newest(s) /\ n # 0
  <2>1. IsSequence(turns[s])
    BY DEF TypeOK, TurnsOK
  <2> QED BY <2>1, SequenceFacts DEF Newest, Recalls
<1> DEFINE first == IF n - 6 > 1 THEN n - 6 ELSE 1
           Of(m) == Remembered(turns[s][m], m, n - m, Evicted(n - m))
           parts == [i \in 1..(n - first) |-> Of(first + i - 1)]
<1>2. first \in 1..n /\ n - first \in Nat /\ (first = 1 \/ first = n - 6)
  BY <1>1
<1>3. RiverOfSix(s, Newest(s)) = FlattenSeq(parts)
  BY <1>1 DEF RiverOfSix
<1> HIDE DEF first
<1>4. IsSequence(parts) /\ DOMAIN parts = 1..(n - first)
  <2>1. parts = [i \in 1..(n - first) |-> parts[i]]
    OBVIOUS
  <2> HIDE DEF parts
  <2> QED BY <1>2, <2>1, SequenceMade
<1>5. ASSUME NEW m \in 1..(n - 1)
      PROVE  /\ IsSequence(Of(m)) /\ Accepted(Of(m))
             /\ Results(Of(m)) = IF n - m >= 4 THEN {} ELSE ResultsOf(s, m, n)
  <2>1. PICK age \in Nat : age = n - m
    BY <1>1
  <2>2. LET q == Remembered(turns[s][m], m, age, Evicted(age))
        IN /\ IsSequence(q) /\ Accepted(q)
           /\ Results(q) = IF Evicted(age) THEN {}
                           ELSE {ToolMessage(m, k, Warning(age)) : k \in DOMAIN turns[s][m].calls}
    BY <1>1, PartAccepted
  <2> QED BY <2>1, <2>2 DEF Evicted, ResultsOf
<1> HIDE DEF Of
<1>6. ASSUME NEW i \in DOMAIN parts
      PROVE  /\ first + i - 1 \in 1..(n - 1) /\ parts[i] = Of(first + i - 1)
             /\ IsSequence(parts[i]) /\ Accepted(parts[i])
  <2>1. first + i - 1 \in 1..(n - 1)
    BY <1>1, <1>2, <1>4
  <2>2. parts[i] = Of(first + i - 1)
    BY <1>4
  <2> QED BY <1>5, <2>1, <2>2
<1>7. IsSequence(FlattenSeq(parts)) /\ Accepted(FlattenSeq(parts))
      /\ Results(FlattenSeq(parts)) = UNION {Results(parts[i]) : i \in DOMAIN parts}
  <2> HIDE DEF parts
  <2> QED BY <1>4, <1>6, FlattenAccepted, FlattenResults
<1>8. UNION {Results(parts[i]) : i \in DOMAIN parts} \subseteq Due(s, n)
  <2> SUFFICES ASSUME NEW i \in DOMAIN parts PROVE Results(parts[i]) \subseteq Due(s, n)
    OBVIOUS
  <2>1. PICK m \in 1..(n - 1) : parts[i] = Of(m)
    BY <1>6
  <2>2. Results(parts[i]) = IF n - m >= 4 THEN {} ELSE ResultsOf(s, m, n)
    BY <1>5, <2>1
  <2>3. n - m >= 4 \/ n - m < 4
    BY <1>1
  <2> QED BY <2>2, <2>3 DEF Due
<1>9. Due(s, n) \subseteq UNION {Results(parts[i]) : i \in DOMAIN parts}
  <2> SUFFICES ASSUME NEW m \in 1..(n - 1), n - m < 4
               PROVE  ResultsOf(s, m, n) \subseteq UNION {Results(parts[i]) : i \in DOMAIN parts}
    BY DEF Due
  <2>1. PICK i : i = m - first + 1
    OBVIOUS
  <2>2. i \in DOMAIN parts /\ first + i - 1 = m
    BY <1>1, <1>2, <1>4, <2>1
  <2>3. Results(parts[i]) = ResultsOf(s, m, n)
    BY <1>1, <1>5, <1>6, <2>2
  <2> QED BY <2>2, <2>3
<1> QED BY ZenonT(40), <1>1, <1>3, <1>7, <1>8, <1>9

LEMMA NormalAccepted ==
  ASSUME TypeOK, NEW s \in Sessions, Recalls(s)
  PROVE  IsSequence(NormalChat(s, Newest(s))) /\ Accepted(NormalChat(s, Newest(s)))
<1>1. PICK n \in Nat : n = Newest(s) /\ n # 0
  <2>1. IsSequence(turns[s])
    BY DEF TypeOK, TurnsOK
  <2> QED BY <2>1, SequenceFacts DEF Newest, Recalls
<1> DEFINE parts == [m \in 1..(n - 1) |-> Remembered(turns[s][m], m, 1, FALSE)]
<1>2. NormalChat(s, Newest(s)) = FlattenSeq(parts)
  BY <1>1 DEF NormalChat
<1>3. IsSequence(parts) /\ DOMAIN parts = 1..(n - 1)
  <2>1. parts = [i \in 1..(n - 1) |-> parts[i]] /\ n - 1 \in Nat
    BY <1>1
  <2> HIDE DEF parts
  <2> QED BY <2>1, SequenceMade
<1>4. ASSUME NEW m \in DOMAIN parts
      PROVE  IsSequence(parts[m]) /\ Accepted(parts[m])
  <2>1. LET q == Remembered(turns[s][m], m, 1, Evicted(1)) IN IsSequence(q) /\ Accepted(q)
    BY <1>1, <1>3, PartAccepted
  <2>2. Remembered(turns[s][m], m, 1, Evicted(1)) = Remembered(turns[s][m], m, 1, FALSE)
    BY DEF Evicted, Remembered, BuildAssistant
  <2>3. parts[m] = Remembered(turns[s][m], m, 1, FALSE)
    BY <1>3
  <2> QED BY <2>1, <2>2, <2>3
<1> HIDE DEF parts
<1> QED BY <1>2, <1>3, <1>4, FlattenAccepted

(* Whatever the addons and the queue, a prompt is a conversation, and      *)
(* RiverOfSix puts into it the results that are due.                       *)
LEMMA PayloadHolds ==
  ASSUME TypeOK, NEW s \in Sessions, Recalls(s), NEW o, o.queue \in Seq(Nat)
  PROVE  PromptHolds(s, Newest(s), Payload(s, Newest(s), o))
<1>1. PICK n : n = Newest(s)
  OBVIOUS
<1>2. /\ IsSequence(History(s, n)) /\ Accepted(History(s, n))
      /\ "RiverOfSix" \in Addons => Results(History(s, n)) = Due(s, n)
  <2>1. CASE "RiverOfSix" \in Addons
    BY <1>1, <2>1, RiverAccepted DEF History, Said, river_of_six_addon
  <2>2. CASE "RiverOfSix" \notin Addons /\ "NormalChat" \in Addons
    BY <1>1, <2>2, NormalAccepted DEF History, Said, normal_chat_addon
  <2>3. CASE "RiverOfSix" \notin Addons /\ "NormalChat" \notin Addons
    BY <2>3, NothingAccepted DEF History
  <2> QED BY <2>1, <2>2, <2>3
<1>3. IsSequence(Task) /\ Accepted(Task) /\ Results(Task) = {}
  <2>1. Task = <<>> \/ Task = <<[role |-> "user", human |-> FALSE, msg |-> "prompt"]>>
    BY DEF Task, Said, prompt_addon, Prompt
  <2> QED BY <2>1, NothingAccepted, OneAccepted
<1> DEFINE queue == [i \in DOMAIN o.queue |-> Human(o.queue[i])]
<1>4. IsSequence(queue) /\ Accepted(queue) /\ Results(queue) = {}
  <2>1. Len(o.queue) \in Nat /\ DOMAIN o.queue = 1..Len(o.queue)
    OBVIOUS
  <2>2. queue = [i \in 1..Len(o.queue) |-> queue[i]]
    BY <2>1
  <2>3. \A i \in DOMAIN queue : queue[i].role \notin {"assistant", "tool"}
    BY DEF Human
  <2> HIDE DEF queue
  <2> QED BY <2>1, <2>2, <2>3, SequenceMade, OthersAccepted
<1> HIDE DEF queue
<1>5. PICK task : task = History(s, n) \o Task
  OBVIOUS
<1>6. IsSequence(task) /\ Accepted(task) /\ Results(task) = Results(History(s, n))
  <2>1. IsSequence(task) /\ Accepted(task) /\ Results(task) = Results(History(s, n)) \cup Results(Task)
    BY <1>2, <1>3, <1>5, BothAccepted, Zenon
  <2> QED BY <1>3, <2>1
<1>7. PICK chat : chat = task \o queue
  OBVIOUS
<1>8. IsSequence(chat) /\ Accepted(chat) /\ Results(chat) = Results(History(s, n))
  <2>1. IsSequence(chat) /\ Accepted(chat) /\ Results(chat) = Results(task) \cup Results(queue)
    BY <1>4, <1>6, <1>7, BothAccepted, Zenon
  <2> QED BY <1>4, <1>6, <2>1
<1> DEFINE blocks == {Block(a, s, n, o) : a \in Speakers}
<1>9. Payload(s, n, o) = Compiled(blocks, chat)
  BY <1>5, <1>7 DEF Payload, queue
<1> HIDE DEF blocks
<1>10. /\ IsSequence(Compiled(blocks, chat)) /\ Accepted(Compiled(blocks, chat))
       /\ Results(Compiled(blocks, chat)) = Results(History(s, n))
  <2>1. CASE blocks = {}
    BY <1>8, <2>1 DEF Compiled
  <2>2. CASE blocks # {}
    <3>1. PICK head : head = <<System(blocks)>>
      OBVIOUS
    <3>2. IsSequence(head) /\ Accepted(head) /\ Results(head) = {}
      <4>1. System(blocks).role \notin {"assistant", "tool"}
        BY DEF System
      <4> QED BY <3>1, <4>1, OneAccepted
    <3>3. Compiled(blocks, chat) = head \o chat
      BY <2>2, <3>1 DEF Compiled
    <3>4. PICK whole : whole = head \o chat
      OBVIOUS
    <3>5. IsSequence(whole) /\ Accepted(whole) /\ Results(whole) = Results(head) \cup Results(chat)
      BY <1>8, <3>2, <3>4, BothAccepted, Zenon
    <3> QED BY <1>8, <3>2, <3>3, <3>4, <3>5
  <2> QED BY <2>1, <2>2
<1> QED BY <1>1, <1>2, <1>9, <1>10 DEF PromptHolds

-----------------------------------------------------------------------------
(* Turns and digests. *)

LEMMA SettingFacts ==
  ASSUME TypeOK
  PROVE  /\ MaxTurns \in Nat \ {0} /\ setting.sessions \subseteq Sessions
         /\ \A r \in Replies : r.text \in Texts
<1>1. setting \in Settings
  BY DEF TypeOK
<1>2. setting.maxTurns \in Nat \ {0} /\ setting.sessions \subseteq Sessions
  BY <1>1, TurnsAssumption
<1>3. \A r \in setting.replies : r.text \in Texts
  <2> TAKE r \in setting.replies
  <2>1. r.text \in {x.text : x \in setting.replies}
    OBVIOUS
  <2> QED BY <1>1, <2>1 DEF Texts
<1> QED BY <1>2, <1>3 DEF MaxTurns, Replies

LEMMA NewestFacts ==
  ASSUME TypeOK, NEW s \in Sessions
  PROVE  /\ IsSequence(turns[s]) /\ Newest(s) \in Nat /\ DOMAIN turns[s] = 1..Newest(s)
         /\ Len(turns[s]) = Newest(s)
         /\ \A n \in DOMAIN turns[s] : IsTurn(turns[s][n])
         /\ IsRun(run[s])
  BY SequenceFacts DEF TypeOK, TurnsOK, RunsOK, Newest

LEMMA GhostIsNoDigest == Ghost \notin Digests /\ None \notin Digests
<1>1. ASSUME NEW d \in Digests PROVE Ghost # d
  <2>1. DOMAIN d = {"status", "text", "engrams", "calls"}
    BY DEF Digests
  <2>2. DOMAIN Ghost = {"ghost"}
    BY DEF Ghost
  <2> QED BY <2>1, <2>2
<1> QED BY <1>1, TurnsAssumption

LEMMA DigestBuilt ==
  ASSUME NEW t, IsTurn(t), NEW F \in SUBSET Engrams, NEW d, d = BuildDigest(t, F)
  PROVE  /\ d \in Digests /\ d \notin {None, Ghost}
         /\ d.status = t.status /\ d.text = t.text /\ d.engrams = F
         /\ d.calls = [k \in DOMAIN t.calls |-> <<t.calls[k].tool, ToolSuccess(t.calls[k])>>]
<1>1. /\ d.status = t.status /\ d.text = t.text /\ d.engrams = F
      /\ d.calls = [k \in DOMAIN t.calls |-> <<t.calls[k].tool, ToolSuccess(t.calls[k])>>]
      /\ d = [status |-> d.status, text |-> d.text, engrams |-> d.engrams, calls |-> d.calls]
  BY DEF BuildDigest
<1>2. d.calls \in Seq(Tools \X {"yes", "no", "running"})
  <2>1. t.calls \in Seq(ToolCall)
    BY DEF IsTurn
  <2>2. Len(t.calls) \in Nat /\ DOMAIN t.calls = 1..Len(t.calls)
    BY <2>1
  <2>3. \A k \in 1..Len(t.calls) :
          <<t.calls[k].tool, ToolSuccess(t.calls[k])>> \in Tools \X {"yes", "no", "running"}
    <3> TAKE k \in 1..Len(t.calls)
    <3>1. t.calls[k] \in ToolCall
      BY <2>1, <2>2
    <3>2. t.calls[k].tool \in Tools
      BY <3>1 DEF ToolCall
    <3>3. ToolSuccess(t.calls[k]) \in {"yes", "no", "running"}
      BY DEF ToolSuccess
    <3> QED BY <3>2, <3>3
  <2>4. d.calls \in [1..Len(t.calls) -> Tools \X {"yes", "no", "running"}]
    BY <1>1, <2>2, <2>3
  <2> QED BY <2>2, <2>4
<1>3. t.status \in TurnStatuses /\ t.text \in Texts
  BY DEF IsTurn
<1>4. d \in Digests
  BY <1>1, <1>2, <1>3 DEF Digests
<1> QED BY <1>1, <1>4, GhostIsNoDigest

LEMMA FormedFacts ==
  ASSUME NEW s, NEW n
  PROVE  Formed(engram, s, n) \subseteq Rows
  BY DEF Formed

(* A turn of a session is replaced by another.                             *)
LEMMA TurnPut ==
  ASSUME TurnsOK, NEW s \in Sessions, NEW m \in DOMAIN turns[s], NEW x, IsTurn(x),
         turns' = [turns EXCEPT ![s] = [turns[s] EXCEPT ![m] = x]]
  PROVE  /\ TurnsOK' /\ Newest(s)' = Newest(s) /\ DOMAIN turns'[s] = DOMAIN turns[s]
         /\ turns'[s][m] = x
         /\ \A n \in DOMAIN turns[s] : n # m => turns'[s][n] = turns[s][n]
         /\ \A u \in Sessions : u # s => turns'[u] = turns[u]
<1>1. PICK q : q = [turns[s] EXCEPT ![m] = x]
  OBVIOUS
<1>2. IsSequence(turns[s]) /\ turns = [u \in Sessions |-> turns[u]]
  BY DEF TurnsOK
<1>3. /\ IsSequence(q) /\ Len(q) = Len(turns[s])
      /\ \A i \in DOMAIN turns[s] : q[i] = IF i = m THEN x ELSE turns[s][i]
  BY <1>1, <1>2, SequenceUpdated
<1>4. turns' = [u \in Sessions |-> IF u = s THEN q ELSE turns[u]]
  BY <1>1, <1>2
<1>5. DOMAIN q = DOMAIN turns[s]
  BY <1>1
<1>6. turns'[s] = q /\ \A u \in Sessions : u # s => turns'[u] = turns[u]
  BY <1>4
<1>7. TurnsOK'
  BY <1>3, <1>4, <1>5, <1>6 DEF TurnsOK
<1> QED BY <1>3, <1>5, <1>6, <1>7 DEF Newest

LEMMA TurnAppended ==
  ASSUME TurnsOK, NEW s \in Sessions, NEW x, IsTurn(x),
         turns' = [turns EXCEPT ![s] = Append(turns[s], x)]
  PROVE  /\ TurnsOK' /\ Newest(s)' = Newest(s) + 1 /\ turns'[s][Newest(s) + 1] = x
         /\ DOMAIN turns'[s] = 1..(Newest(s) + 1)
         /\ \A n \in DOMAIN turns[s] : turns'[s][n] = turns[s][n]
         /\ \A u \in Sessions : u # s => turns'[u] = turns[u]
<1>1. PICK q : q = Append(turns[s], x)
  OBVIOUS
<1>2. IsSequence(turns[s]) /\ turns = [u \in Sessions |-> turns[u]]
  BY DEF TurnsOK
<1>3. /\ IsSequence(q) /\ Len(q) = Len(turns[s]) + 1
      /\ \A i \in 1..Len(turns[s]) : q[i] = turns[s][i]
      /\ q[Len(turns[s]) + 1] = x
  BY <1>1, <1>2, SequenceAppended
<1>4. turns' = [u \in Sessions |-> IF u = s THEN q ELSE turns[u]]
  BY <1>1, <1>2
<1>5. DOMAIN q = 1..(Len(turns[s]) + 1) /\ DOMAIN turns[s] = 1..Len(turns[s]) /\ Len(turns[s]) \in Nat
  BY <1>2, <1>3, SequenceFacts
<1>6. turns'[s] = q /\ \A u \in Sessions : u # s => turns'[u] = turns[u]
  BY <1>4
<1>7. \A n \in DOMAIN q : IsTurn(q[n])
  BY <1>2, <1>3, <1>5 DEF TurnsOK
<1>8. TurnsOK'
  BY <1>3, <1>4, <1>6, <1>7 DEF TurnsOK
<1> QED BY <1>3, <1>5, <1>6, <1>8 DEF Newest

(* What a screen is shown.                                                 *)
LEMMA ShownFacts ==
  ASSUME ScreenOK, setting' = setting, NEW s \in Sessions, NEW m \in 1..MaxTurns,
         NEW v \in {Ghost} \cup Digests, screen' = Shown(s, m, v)
  PROVE  /\ ScreenOK' /\ screen'[s].on = screen[s].on /\ screen'[s].gap = screen[s].gap
         /\ \A n \in 1..MaxTurns : n # m => screen'[s].seen[n] = screen[s].seen[n]
         /\ screen'[s].seen[m] = IF screen[s].on THEN v ELSE screen[s].seen[m]
         /\ \A u \in Sessions : u # s => screen'[u] = screen[u]
         /\ ~screen[s].on => screen' = screen
<1>1. MaxTurns' = MaxTurns
  BY DEF MaxTurns
<1>2. CASE ~screen[s].on
  BY <1>1, <1>2 DEF Shown, ScreenOK
<1>3. CASE screen[s].on
  <2>1. screen' = [screen EXCEPT ![s].seen[m] = v]
    BY <1>3 DEF Shown
  <2>2. PICK x : x = [screen[s] EXCEPT !.seen = [screen[s].seen EXCEPT ![m] = v]]
    OBVIOUS
  <2>3. screen[s] \in [on : BOOLEAN, gap : SUBSET Nat,
                                    seen : [1..MaxTurns -> {None, Ghost} \cup Digests]]
    BY DEF ScreenOK
  <2>4. [screen[s].seen EXCEPT ![m] = v] \in [1..MaxTurns -> {None, Ghost} \cup Digests]
    BY <2>3
  <2>5. /\ x \in [on : BOOLEAN, gap : SUBSET Nat,
                                    seen : [1..MaxTurns -> {None, Ghost} \cup Digests]]
        /\ x.on = screen[s].on /\ x.gap = screen[s].gap
        /\ x.seen = [screen[s].seen EXCEPT ![m] = v]
    BY <2>2, <2>3, <2>4
  <2>6. screen' = [screen EXCEPT ![s] = x]
    BY <2>1, <2>2, <2>3 DEF ScreenOK
  <2>7. screen'[s] = x /\ \A u \in Sessions : u # s => screen'[u] = screen[u]
    BY <2>6 DEF ScreenOK
  <2>8. ScreenOK'
    BY <1>1, <2>5, <2>6 DEF ScreenOK
  <2> QED BY <1>3, <2>3, <2>5, <2>7, <2>8
<1> QED BY <1>2, <1>3

(* A turn is saved: with its digest, which the screen is shown.            *)
LEMMA TurnSaved ==
  ASSUME TypeOK, setting' = setting, NEW s \in Sessions, NEW m \in DOMAIN turns[s], m <= MaxTurns,
         NEW t, IsTurn(t), t.asked, SaveTurn(s, m, t)
  PROVE  \E d \in Digests :
           /\ d = BuildDigest(t, Formed(engram, s, m))
           /\ TurnsOK' /\ ScreenOK'
           /\ Newest(s)' = Newest(s) /\ DOMAIN turns'[s] = DOMAIN turns[s]
           /\ turns'[s][m] = [t EXCEPT !.digest = d] /\ IsTurn([t EXCEPT !.digest = d])
           /\ \A n \in DOMAIN turns[s] : n # m => turns'[s][n] = turns[s][n]
           /\ screen'[s].on = screen[s].on /\ screen'[s].gap = screen[s].gap
           /\ \A n \in 1..MaxTurns : n # m => screen'[s].seen[n] = screen[s].seen[n]
           /\ screen'[s].seen[m] = IF screen[s].on THEN d ELSE screen[s].seen[m]
           /\ ~screen[s].on => screen' = screen
           /\ \A u \in Sessions : u # s => turns'[u] = turns[u] /\ screen'[u] = screen[u]
<1>1. PICK d : d = BuildDigest(t, Formed(engram, s, m))
  OBVIOUS
<1>2. d \in Digests
  <2>1. Formed(engram, s, m) \in SUBSET Engrams
    BY DEF Formed
  <2> QED BY <1>1, <2>1, DigestBuilt
<1>3. /\ turns' = [turns EXCEPT ![s] = IF m \in DOMAIN @ THEN [@ EXCEPT ![m] = [t EXCEPT !.digest = d]]
                                   ELSE Append(@, t)]
      /\ screen' = Shown(s, m, d)
  BY <1>1 DEF SaveTurn
<1>4. PICK x : x = [t EXCEPT !.digest = d]
  OBVIOUS
<1>5. IsTurn(x)
  BY <1>2, <1>4 DEF IsTurn
<1>6. turns' = [turns EXCEPT ![s] = [turns[s] EXCEPT ![m] = x]]
  BY <1>3, <1>4
<1>7. /\ TurnsOK' /\ Newest(s)' = Newest(s) /\ DOMAIN turns'[s] = DOMAIN turns[s]
      /\ turns'[s][m] = x
      /\ \A n \in DOMAIN turns[s] : n # m => turns'[s][n] = turns[s][n]
      /\ \A u \in Sessions : u # s => turns'[u] = turns[u]
  BY <1>5, <1>6, TurnPut DEF TypeOK
<1>8. m \in 1..MaxTurns
  BY NewestFacts, SettingFacts
<1>9. /\ ScreenOK' /\ screen'[s].on = screen[s].on /\ screen'[s].gap = screen[s].gap
      /\ \A n \in 1..MaxTurns : n # m => screen'[s].seen[n] = screen[s].seen[n]
      /\ screen'[s].seen[m] = IF screen[s].on THEN d ELSE screen[s].seen[m]
      /\ \A u \in Sessions : u # s => screen'[u] = screen[u]
      /\ ~screen[s].on => screen' = screen
  BY <1>2, <1>3, <1>8, ShownFacts DEF TypeOK
<1> QED BY <1>1, <1>2, <1>4, <1>5, <1>7, <1>9

-----------------------------------------------------------------------------
(* What screens show. *)

(* By the cards there are, a digest that was true stays so, unless cards   *)
(* are linked to its turn; a card that is new was in none.                 *)
LEMMA LinkFormed ==
  ASSUME NEW s, NEW n, NEW L, <<s, n>> \notin L, Linking(L), NEW D, D \cap Unused = {},
         D \cap Rows = Formed(engram, s, n)
  PROVE  D \cap Rows' = Formed(engram, s, n)' /\ D \cap Unused' = {}
<1>1. Unused' \subseteq Unused
  BY DEF Linking
<1>2. ASSUME NEW e \in D \cap Rows' PROVE e \in Formed(engram, s, n)'
  <2>1. e \in Rows /\ engram'[e].turns \in {engram[e].turns, engram[e].turns \cup L}
    BY <1>2 DEF Linking
  <2>2. <<s, n>> \in engram[e].turns
    BY <1>2, <2>1 DEF Formed
  <2> QED BY <1>2, <2>1, <2>2 DEF Formed
<1>3. ASSUME NEW e \in Formed(engram, s, n)' PROVE e \in D \cap Rows'
  <2>1. e \in Rows' /\ <<s, n>> \in engram'[e].turns
    BY <1>3 DEF Formed
  <2>2. e \in Rows /\ engram'[e].turns \in {engram[e].turns, engram[e].turns \cup L}
    BY <2>1 DEF Linking
  <2>3. e \in Formed(engram, s, n)
    BY <2>1, <2>2 DEF Formed
  <2> QED BY <2>1, <2>3
<1>4. D \cap Unused' = {}
  BY <1>1
<1> QED BY <1>2, <1>3, <1>4

LEMMA LastSeenFacts ==
  ASSUME TypeOK, NEW s \in Sessions, \A n \in SeenBy(s) : n <= Newest(s)
  PROVE  /\ LastSeen(s) \in Nat /\ LastSeen(s) <= Newest(s)
         /\ \A n \in SeenBy(s) : n <= LastSeen(s)
<1>1. MaxTurns \in Nat /\ Newest(s) \in Nat
  BY SettingFacts, NewestFacts
<1>2. PICK S : S = SeenBy(s)
  OBVIOUS
<1>3. LastSeen(s) = IF S = {} THEN 0 ELSE CHOOSE n \in S : \A m \in S : m <= n
  BY <1>2 DEF LastSeen, SeenBy
<1>4. CASE S = {}
  BY <1>1, <1>2, <1>3, <1>4
<1>5. CASE S # {}
  <2>1. S \subseteq 0..MaxTurns
    BY <1>1, <1>2 DEF SeenBy
  <2>2. \E n \in S : \A m \in S : m <= n
    BY <1>1, <1>5, <2>1, GreatestNumber
  <2>3. LastSeen(s) \in S /\ \A m \in S : m <= LastSeen(s)
    BY <1>3, <1>5, <2>2
  <2> QED BY <1>1, <1>2, <2>1, <2>3
<1> QED BY <1>4, <1>5

(* What a step may do to a turn of a session, and to its screen: nothing   *)
(* that a digest would tell while the turn is settled, ...                 *)
LeftAlone(s, n, L) ==
  /\ n \in DOMAIN turns[s] /\ turns'[s][n].digest = turns[s][n].digest
  /\ turns'[s][n].asked => turns[s][n].asked
  /\ screen'[s].seen[n] = screen[s].seen[n]
  /\ Settled(s, n)' => /\ Settled(s, n) /\ <<s, n>> \notin L
                       /\ turns'[s][n].status = turns[s][n].status
                       /\ turns'[s][n].text = turns[s][n].text
                       /\ turns'[s][n].calls = turns[s][n].calls
(* ... or save it, when it is the last, and show the digest, ...           *)
Told(s, n) ==
  /\ n = Newest(s) /\ turns'[s][n].digest \in Digests
  /\ turns'[s][n].digest.engrams \cap Unused' = {}
  /\ Settled(s, n)' => Matches(s, n, turns[s][n].digest)'
  /\ screen'[s].seen[n] = IF screen[s].on THEN turns'[s][n].digest ELSE screen[s].seen[n]
(* ... or begin it.                                                        *)
Begun(s, n) ==
  /\ n = Newest(s) + 1 /\ ~turns'[s][n].asked /\ turns'[s][n].digest = None
  /\ screen'[s].seen[n] = IF screen[s].on THEN Ghost ELSE screen[s].seen[n]

LEMMA ScreenMoves ==
  ASSUME TypeOK, TurnsOK', MaxTurns' = MaxTurns, NEW s \in Sessions,
         Newest(s) <= MaxTurns, Newest(s)' <= MaxTurns, Newest(s) <= Newest(s)', ScreenHolds(s),
         NEW L, Linking(L),
         screen'[s].on = screen[s].on, screen'[s].gap = screen[s].gap,
         ~screen[s].on => screen'[s] = screen[s],
         \A n \in 1..MaxTurns : n \notin DOMAIN turns'[s] => screen'[s].seen[n] = screen[s].seen[n],
         \A n \in DOMAIN turns'[s] : LeftAlone(s, n, L) \/ Told(s, n) \/ Begun(s, n)
  PROVE  ScreenHolds(s)'
<1>1. /\ MaxTurns \in Nat /\ Newest(s) \in Nat /\ DOMAIN turns[s] = 1..Newest(s)
      /\ Newest(s)' \in Nat /\ DOMAIN turns'[s] = 1..Newest(s)'
  <2>1. Len(turns'[s]) \in Nat /\ DOMAIN turns'[s] = 1..Len(turns'[s])
    BY SequenceFacts DEF TurnsOK
  <2> QED BY <2>1, SettingFacts, NewestFacts DEF Newest
<1>2. Unused' \subseteq Unused
  BY DEF Linking
<1>3. Ghost \notin Digests /\ None \notin Digests
  BY GhostIsNoDigest
<1>4. /\ LastSeen(s) \in Nat /\ LastSeen(s) <= Newest(s)
      /\ ~screen[s].on => LastSeen(s)' = LastSeen(s)
  <2>1. \A n \in SeenBy(s) : n <= Newest(s)
    BY DEF ScreenHolds
  <2>2. ASSUME ~screen[s].on PROVE LastSeen(s)' = LastSeen(s)
    <3>1. SeenBy(s)' = SeenBy(s)
      BY <2>2 DEF SeenBy
    <3>2. LastSeen(s) = IF SeenBy(s) = {} THEN 0
                        ELSE CHOOSE n \in SeenBy(s) : \A m \in SeenBy(s) : m <= n
      BY DEF LastSeen, SeenBy
    <3>3. LastSeen(s)' = IF SeenBy(s)' = {} THEN 0
                         ELSE CHOOSE n \in SeenBy(s)' : \A m \in SeenBy(s)' : m <= n
      BY DEF LastSeen, SeenBy
    <3> QED BY <3>1, <3>2, <3>3
  <2> QED BY <2>1, <2>2, LastSeenFacts
<1>5. ASSUME NEW n \in DOMAIN turns'[s] PROVE turns'[s][n].asked => turns'[s][n].digest # None
  BY <1>3 DEF ScreenHolds, LeftAlone, Told, Begun
<1>6. ASSUME NEW n \in DOMAIN turns'[s], turns'[s][n].digest # None
      PROVE  turns'[s][n].digest.engrams \cap Unused' = {}
  BY <1>2, <1>6 DEF ScreenHolds, LeftAlone, Told, Begun
<1>7. ASSUME NEW n \in SeenBy(s)'
      PROVE  n <= Newest(s)' /\ screen'[s].seen[n].engrams \cap Unused' = {}
  <2>1. n \in 1..MaxTurns /\ screen'[s].seen[n] \notin {None, Ghost}
    BY <1>7 DEF SeenBy
  <2>2. CASE n \in SeenBy(s) /\ screen'[s].seen[n] = screen[s].seen[n]
    BY <1>1, <1>2, <2>1, <2>2 DEF ScreenHolds
  <2>3. CASE n \in DOMAIN turns'[s] /\ screen[s].on /\ Told(s, n)
    BY <1>1, <2>3 DEF Told
  <2>4. CASE n \in DOMAIN turns'[s] /\ screen[s].on /\ Begun(s, n)
    BY <2>1, <2>4 DEF Begun
  <2>5. screen'[s].seen[n] = screen[s].seen[n] => n \in SeenBy(s)
    BY <2>1 DEF SeenBy
  <2> QED BY <2>1, <2>2, <2>3, <2>4, <2>5 DEF LeftAlone, Told, Begun
<1>8. ASSUME NEW n \in DOMAIN turns'[s], NEW d, Settled(s, n)', LeftAlone(s, n, L),
             Matches(s, n, d), d.engrams \cap Unused = {}
      PROVE  Matches(s, n, d)'
  <2>1. <<s, n>> \notin L
    BY <1>8 DEF LeftAlone
  <2>2. d.engrams \cap Rows = Formed(engram, s, n)
    BY <1>8 DEF Matches
  <2>3. d.engrams \cap Rows' = Formed(engram, s, n)'
    BY <1>8, <2>1, <2>2, LinkFormed
  <2>4. BuildDigest(turns[s][n], {}).calls = BuildDigest(turns'[s][n], {}).calls
    BY <1>8 DEF LeftAlone, BuildDigest
  <2> QED BY <1>8, <2>3, <2>4 DEF LeftAlone, Matches
<1>9. ASSUME NEW n \in DOMAIN turns'[s], Settled(s, n)'
      PROVE  Matches(s, n, turns[s][n].digest)'
  <2>1. CASE LeftAlone(s, n, L)
    <3>1. PICK d : d = turns[s][n].digest
      OBVIOUS
    <3>2. Settled(s, n) /\ turns'[s][n].digest = d /\ n \in DOMAIN turns[s]
      BY <1>9, <2>1, <3>1 DEF LeftAlone
    <3>3. Matches(s, n, d) /\ d.engrams \cap Unused = {}
      BY <1>3, <3>1, <3>2 DEF ScreenHolds, Matches
    <3>4. Matches(s, n, d)'
      BY <1>8, <1>9, <2>1, <3>3
    <3> QED BY <3>2, <3>4 DEF Matches
  <2>2. CASE Told(s, n)
    BY <1>9, <2>2 DEF Told
  <2>3. CASE Begun(s, n)
    BY <1>9, <2>3 DEF Begun, Settled
  <2> QED BY <2>1, <2>2, <2>3
<1>10. ASSUME NEW n \in DOMAIN turns'[s], Settled(s, n)', n \notin screen'[s].gap,
              screen'[s].on \/ n < LastSeen(s)'
       PROVE  Matches(s, n, screen[s].seen[n])'
  <2>1. CASE LeftAlone(s, n, L)
    <3>1. PICK d : d = screen[s].seen[n]
      OBVIOUS
    <3>2. Settled(s, n) /\ screen'[s].seen[n] = d /\ n \in DOMAIN turns[s]
      BY <1>10, <2>1, <3>1 DEF LeftAlone
    <3>3. n \notin screen[s].gap /\ (screen[s].on \/ n < LastSeen(s))
      BY <1>4, <1>10
    <3>4. Matches(s, n, d)
      BY <3>1, <3>2, <3>3 DEF ScreenHolds
    <3>5. n \in SeenBy(s)
      BY <1>1, <1>3, <3>1, <3>2, <3>4 DEF SeenBy, Matches
    <3>6. d.engrams \cap Unused = {}
      BY <3>1, <3>5 DEF ScreenHolds
    <3>7. Matches(s, n, d)'
      BY <1>8, <1>10, <2>1, <3>4, <3>6
    <3> QED BY <3>2, <3>7 DEF Matches
  <2>2. CASE Told(s, n)
    <3>1. screen[s].on
      BY <1>1, <1>4, <1>10, <2>2 DEF Told
    <3>2. screen'[s].seen[n] = turns'[s][n].digest
      BY <2>2, <3>1 DEF Told
    <3>3. Matches(s, n, turns[s][n].digest)'
      BY <1>9, <1>10
    <3> QED BY <3>2, <3>3 DEF Matches
  <2>3. CASE Begun(s, n)
    BY <1>10, <2>3 DEF Begun, Settled
  <2> QED BY <2>1, <2>2, <2>3
<1> QED BY <1>5, <1>6, <1>7, <1>9, <1>10 DEF ScreenHolds

-----------------------------------------------------------------------------
(* Steps. *)

Inv == TypeOK /\ MemoryHolds /\ \A s \in Sessions : SessionHolds(s)

(* A prompt stays what it is while the earlier turns keep their calls.     *)
LEMMA PromptKept ==
  ASSUME setting' = setting, NEW s, NEW n \in Nat, NEW q, PromptHolds(s, n, q),
         \A m \in 1..(n - 1) : turns'[s][m].calls = turns[s][m].calls
  PROVE  PromptHolds(s, n, q)'
<1>1. \A m \in {i \in 1..(n - 1) : n - i < 4} : ResultsOf(s, m, n)' = ResultsOf(s, m, n)
  BY DEF ResultsOf
<1>2. Due(s, n)' = Due(s, n)
  BY <1>1 DEF Due
<1> QED BY <1>2 DEF PromptHolds, Addons

LEMMA RequestsKept ==
  ASSUME setting' = setting, NEW s \in Sessions, TypeOK, TurnsOK', RequestsHold(s),
         Newest(s) <= Newest(s)',
         \A m \in DOMAIN turns[s] : m < Newest(s)' => turns'[s][m].calls = turns[s][m].calls,
         Newest(s)' <= Newest(s) + 1,
         \A n \in DOMAIN turns'[s] : turns'[s][n].asked => PromptHolds(s, n, turns'[s][n].request),
         run'[s].pc = "ask" => /\ run'[s].turn \in DOMAIN turns'[s]
                               /\ PromptHolds(s, run'[s].turn, run'[s].prompt)
  PROVE  RequestsHold(s)'
<1>1. /\ Newest(s) \in Nat /\ DOMAIN turns[s] = 1..Newest(s)
      /\ Newest(s)' \in Nat /\ DOMAIN turns'[s] = 1..Newest(s)'
  <2>1. Len(turns'[s]) \in Nat /\ DOMAIN turns'[s] = 1..Len(turns'[s])
    BY SequenceFacts DEF TurnsOK
  <2> QED BY <2>1, NewestFacts DEF Newest
<1>2. ASSUME NEW n \in DOMAIN turns'[s], NEW q, PromptHolds(s, n, q)
      PROVE  PromptHolds(s, n, q)'
  <2>1. \A m \in 1..(n - 1) : m \in DOMAIN turns[s] /\ m < Newest(s)'
    BY <1>1
  <2>2. n \in Nat
    BY <1>1
  <2> QED BY <1>2, <2>1, <2>2, PromptKept
<1>3. ASSUME NEW n \in DOMAIN turns'[s], turns'[s][n].asked
      PROVE  PromptHolds(s, n, turns[s][n].request)'
  <2>1. PICK q : q = turns'[s][n].request
    OBVIOUS
  <2>2. PromptHolds(s, n, q)'
    BY <1>2, <1>3, <2>1
  <2> QED BY <2>1, <2>2
<1>4. ASSUME run'[s].pc = "ask"
      PROVE  PromptHolds(s, run[s].turn, run[s].prompt)'
  <2>1. PICK n \in DOMAIN turns'[s] : n = run'[s].turn
    BY <1>4
  <2>2. PICK q : q = run'[s].prompt
    OBVIOUS
  <2>3. PromptHolds(s, n, q)'
    BY <1>2, <1>4, <2>1, <2>2
  <2> QED BY <2>1, <2>2, <2>3
<1> QED BY <1>3, <1>4 DEF RequestsHold

(* Nothing is done to a session.                                           *)
Still(s) ==
  /\ run'[s] = run[s] /\ turns'[s] = turns[s] /\ screen'[s] = screen[s] /\ op'[s] = op[s]
  /\ (\A x \in executed' : x[1] = s => x \in executed) /\ cut \subseteq cut'

LEMMA StillKeeps ==
  ASSUME TypeOK, TurnsOK', setting' = setting, NEW s \in Sessions, SessionHolds(s), Still(s),
         NEW L, Linking(L), \A n \in Nat : <<s, n>> \notin L
  PROVE  SessionHolds(s)'
<1>1. Newest(s)' = Newest(s) /\ DOMAIN turns[s] = 1..Newest(s) /\ Newest(s) \in Nat
  BY NewestFacts DEF Still, Newest
<1>2. MaxTurns' = MaxTurns
  BY DEF MaxTurns
<1>3. RunHolds(s)'
  BY <1>1, <1>2 DEF SessionHolds, RunHolds, Still, Turn, Called
<1>4. \A n \in DOMAIN turns'[s] : TurnHolds(s, n)'
  BY <1>1 DEF SessionHolds, TurnHolds, Still
<1>5. ExecutedHold(s)'
  BY DEF SessionHolds, ExecutedHold, Still
<1>6. RequestsHold(s)'
  <2>1. RequestsHold(s) /\ (run[s].pc = "ask" => run[s].turn \in DOMAIN turns[s])
    BY <1>1 DEF SessionHolds, RunHolds
  <2>2. \A n \in DOMAIN turns'[s] : turns'[s][n].asked => PromptHolds(s, n, turns'[s][n].request)
    BY <2>1 DEF Still, RequestsHold
  <2>3. run'[s].pc = "ask" => /\ run'[s].turn \in DOMAIN turns'[s]
                              /\ PromptHolds(s, run'[s].turn, run'[s].prompt)
    BY <2>1 DEF Still, RequestsHold
  <2>4. \A m \in DOMAIN turns[s] : m < Newest(s)' => turns'[s][m].calls = turns[s][m].calls
    BY DEF Still
  <2> QED BY <1>1, <2>1, <2>2, <2>3, <2>4, RequestsKept
<1>7. ScreenHolds(s)'
  <2>1. \A n \in DOMAIN turns'[s] : LeftAlone(s, n, L)
    BY <1>1 DEF Still, LeftAlone, Settled
  <2>2. Newest(s) <= MaxTurns /\ ScreenHolds(s)
    BY DEF SessionHolds, RunHolds
  <2>3. screen'[s] = screen[s]
    BY DEF Still
  <2> QED BY <1>1, <1>2, <2>1, <2>2, <2>3, ScreenMoves
<1> QED BY <1>3, <1>4, <1>5, <1>6, <1>7 DEF SessionHolds

(* A step of a session leaves the others alone.                            *)
Apart(s) ==
  /\ \A u \in Sessions \ {s} :
       run'[u] = run[u] /\ turns'[u] = turns[u] /\ screen'[u] = screen[u] /\ op'[u] = op[u]
  /\ (\A x \in executed' : x[1] # s => x \in executed) /\ cut \subseteq cut'

KindsOK == /\ RowsOK /\ RunsOK /\ TurnsOK /\ ScreenOK /\ said \in Nat /\ faults \in Nat
           /\ executed \subseteq Sessions \X Nat \X Nat \X Tools /\ cut \subseteq Sessions \X Nat

LEMMA StepKeeps ==
  ASSUME Inv, setting' = setting, KindsOK', MemoryHolds', NEW s \in Sessions, NEW n,
         NEW L \in {{}, {<<s, n>>}}, Linking(L), Apart(s), SessionHolds(s)'
  PROVE  Inv'
<1>1. TypeOK'
  BY DEF Inv, TypeOK, KindsOK, MemoryHolds
<1>2. ASSUME NEW u \in Sessions, u # s PROVE SessionHolds(u)'
  <2>1. Still(u)
    BY <1>2 DEF Apart, Still
  <2>2. \A k \in Nat : <<u, k>> \notin L
    BY <1>2
  <2>3. TypeOK /\ TurnsOK' /\ SessionHolds(u)
    BY DEF Inv, KindsOK
  <2> QED BY <2>1, <2>2, <2>3, StillKeeps
<1> QED BY <1>1, <1>2 DEF Inv

(* A run goes on.                                                          *)
LEMMA RunPut ==
  ASSUME RunsOK, NEW s \in Sessions, NEW r, IsRun(r), run' = [run EXCEPT ![s] = r]
  PROVE  RunsOK' /\ run'[s] = r /\ \A u \in Sessions \ {s} : run'[u] = run[u]
<1>1. run' = [u \in Sessions |-> IF u = s THEN r ELSE run[u]]
  BY DEF RunsOK
<1> QED BY <1>1 DEF RunsOK

LEMMA Goes ==
  ASSUME RunsOK, NEW s \in Sessions,
         NEW pc \in {"queued", "find", "ask", "think", "tools", "exec", "record",
                     "memory", "post", "sleep", "end"}, Go(s, pc)
  PROVE  /\ RunsOK' /\ run'[s].pc = pc /\ run'[s].turn = run[s].turn /\ run'[s].call = run[s].call
         /\ run'[s].tool = run[s].tool
         /\ \A u \in Sessions \ {s} : run'[u] = run[u]
<1>1. PICK r : r = [run[s] EXCEPT !.pc = pc]
  OBVIOUS
<1>2. IsRun(run[s])
  BY DEF RunsOK
<1>3. /\ r.pc = pc /\ r.turn = run[s].turn /\ r.call = run[s].call
      /\ r.tool = run[s].tool /\ IsRun(r)
  BY <1>1, <1>2 DEF IsRun
<1>4. run' = [run EXCEPT ![s] = r]
  BY <1>1, <1>2 DEF Go, RunsOK
<1> QED BY <1>3, <1>4, RunPut

(* A step that does nothing to turns, screens and cards.                   *)
LEMMA QuietStep ==
  ASSUME Inv, setting' = setting, NEW s \in Sessions, MemoryHolds', Linking({}),
         turns' = turns, screen' = screen, RowsOK', RunsOK', said' \in Nat, faults' \in Nat,
         executed' \subseteq Sessions \X Nat \X Nat \X Tools, cut' \subseteq Sessions \X Nat,
         \A u \in Sessions \ {s} : run'[u] = run[u] /\ op'[u] = op[u],
         \A x \in executed' : x[1] # s => x \in executed, cut \subseteq cut',
         RunHolds(s)', ExecutedHold(s)',
         \A n \in DOMAIN turns[s] : Settled(s, n)' => Settled(s, n),
         run'[s].pc = "ask" => PromptHolds(s, run'[s].turn, run'[s].prompt)
  PROVE  Inv'
<1>1. Newest(s)' = Newest(s) /\ DOMAIN turns[s] = 1..Newest(s) /\ Newest(s) \in Nat
  BY NewestFacts DEF Newest, Inv
<1>2. MaxTurns' = MaxTurns
  BY DEF MaxTurns
<1>3. TurnsOK' /\ ScreenOK' /\ TypeOK /\ SessionHolds(s)
  BY <1>2 DEF Inv, TypeOK, TurnsOK, ScreenOK
<1>4. KindsOK'
  BY <1>3 DEF KindsOK
<1>5. \A n \in DOMAIN turns'[s] : TurnHolds(s, n)'
  BY <1>1, <1>3 DEF SessionHolds, TurnHolds
<1>6. RequestsHold(s)'
  <2>1. RequestsHold(s)
    BY <1>3 DEF SessionHolds
  <2>2. \A n \in DOMAIN turns'[s] : turns'[s][n].asked => PromptHolds(s, n, turns'[s][n].request)
    BY <2>1 DEF RequestsHold
  <2>3. run'[s].pc = "ask" => run'[s].turn \in DOMAIN turns'[s]
    BY <1>1 DEF RunHolds
  <2> QED BY <1>1, <1>3, <2>1, <2>2, <2>3, RequestsKept
<1>7. ScreenHolds(s)'
  <2>1. \A n \in DOMAIN turns'[s] : LeftAlone(s, n, {})
    BY DEF LeftAlone
  <2>2. Newest(s) <= MaxTurns /\ ScreenHolds(s)
    BY <1>3 DEF SessionHolds, RunHolds
  <2> QED BY <1>1, <1>2, <1>3, <2>1, <2>2, ScreenMoves
<1>8. SessionHolds(s)'
  BY <1>5, <1>6, <1>7 DEF SessionHolds
<1>9. Apart(s)
  BY DEF Apart
<1> QED BY <1>4, <1>8, <1>9, StepKeeps

(* A turn is saved by the run that works on it.                            *)
LEMMA SavedStep ==
  ASSUME Inv, setting' = setting, NEW s \in Sessions, UNCHANGED <<memory, executed, cut>>,
         RowsOK', RunsOK', said' \in Nat, faults' \in Nat,
         \A u \in Sessions \ {s} : run'[u] = run[u], op[s].pc = "idle",
         NEW n, n = run[s].turn, n = Newest(s), n # 0, turns[s][n].asked \/ run[s].pc = "ask",
         NEW t, IsTurn(t), t.asked, t.calls = turns[s][n].calls, SaveTurn(s, n, t),
         t.status = "ACTIVE" => ~t.answered, ~t.answered => t.calls = <<>>,
         PromptHolds(s, n, t.request),
         \/ run'[s].pc = "think" /\ run'[s].turn = n /\ t.status = "ACTIVE"
         \/ run'[s].pc = "tools" /\ run'[s].turn = n /\ t.status = "COMPLETED" /\ t.answered
         \/ run'[s].pc = "sleep" /\ run'[s].turn = n /\ t.status # "ACTIVE"
         \/ run'[s].pc = "end" /\ run'[s].turn \in {0, n} /\ t.status # "ACTIVE"
         \/ run'[s].pc = "find" /\ run'[s].turn = 0
  PROVE  Inv'
<1>1. DOMAIN turns[s] = 1..Newest(s) /\ Newest(s) \in Nat /\ n \in DOMAIN turns[s]
  BY NewestFacts DEF Inv
<1>2. MaxTurns' = MaxTurns
  BY DEF MaxTurns
<1>3. TypeOK /\ SessionHolds(s) /\ MemoryHolds
  BY DEF Inv
<1>4. Newest(s) <= MaxTurns
  BY <1>3 DEF SessionHolds, RunHolds
<1>5. PICK d \in Digests :
        /\ d = BuildDigest(t, Formed(engram, s, n))
        /\ TurnsOK' /\ ScreenOK'
        /\ Newest(s)' = Newest(s) /\ DOMAIN turns'[s] = DOMAIN turns[s]
        /\ turns'[s][n] = [t EXCEPT !.digest = d] /\ IsTurn([t EXCEPT !.digest = d])
        /\ \A i \in DOMAIN turns[s] : i # n => turns'[s][i] = turns[s][i]
        /\ screen'[s].on = screen[s].on /\ screen'[s].gap = screen[s].gap
        /\ \A i \in 1..MaxTurns : i # n => screen'[s].seen[i] = screen[s].seen[i]
        /\ screen'[s].seen[n] = IF screen[s].on THEN d ELSE screen[s].seen[n]
        /\ ~screen[s].on => screen' = screen
        /\ \A u \in Sessions : u # s => turns'[u] = turns[u] /\ screen'[u] = screen[u]
  BY ZenonT(40), <1>1, <1>3, <1>4, TurnSaved
<1>6. PICK x : x = [t EXCEPT !.digest = d]
  OBVIOUS
<1>7. /\ x.status = t.status /\ x.asked = t.asked /\ x.answered = t.answered
      /\ x.request = t.request /\ x.text = t.text /\ x.calls = t.calls /\ x.digest = d
  BY <1>6 DEF IsTurn
<1>8. turns'[s][n] = x
  BY <1>5, <1>6
<1>9. KindsOK'
  BY <1>3, <1>5 DEF KindsOK, TypeOK
<1>10. MemoryHolds' /\ Linking({})
  BY <1>3, MemoryStays
<1>11. op'[s] = op[s] /\ engram' = engram /\ executed' = executed /\ cut' = cut
  BY DEF memory
<1>12. Newest(s)' = Newest(s) /\ DOMAIN turns'[s] = DOMAIN turns[s]
  BY <1>5
<1>13. /\ turns'[s][n].status = t.status /\ turns'[s][n].asked /\ turns'[s][n].answered = t.answered
       /\ turns'[s][n].calls = t.calls
  BY <1>7, <1>8
<1>14. RunHolds(s)'
  <2>1. op'[s].pc = "idle" /\ Newest(s)' <= MaxTurns'
    BY <1>2, <1>4, <1>11, <1>12
  <2>2. run'[s].turn = n => Turn(s)' = turns'[s][n]
    BY DEF Turn
  <2> QED BY <1>12, <1>13, <2>1, <2>2 DEF RunHolds
<1>15. ASSUME NEW i \in DOMAIN turns'[s] PROVE TurnHolds(s, i)'
  <2>1. CASE i = n
    BY <1>1, <1>12, <1>13, <2>1 DEF TurnHolds
  <2>2. CASE i # n
    BY <1>3, <1>5, <2>2 DEF SessionHolds, TurnHolds
  <2> QED BY <2>1, <2>2
<1>16. ExecutedHold(s)'
  <2>1. \A i \in DOMAIN turns[s] : turns'[s][i].calls = turns[s][i].calls
    BY <1>5, <1>7, <1>8
  <2> QED BY <1>3, <1>5, <1>11, <2>1 DEF SessionHolds, ExecutedHold
<1>17. RequestsHold(s)'
  <2>1. RequestsHold(s) /\ run'[s].pc # "ask"
    BY <1>3 DEF SessionHolds
  <2>2. ASSUME NEW i \in DOMAIN turns'[s], turns'[s][i].asked
        PROVE  PromptHolds(s, i, turns'[s][i].request)
    <3>1. CASE i = n
      BY <1>7, <1>8, <3>1
    <3>2. CASE i # n
      BY <1>5, <2>1, <2>2, <3>2 DEF RequestsHold
    <3> QED BY <3>1, <3>2
  <2>3. \A m \in DOMAIN turns[s] : m < Newest(s)' => turns'[s][m].calls = turns[s][m].calls
    BY <1>5, <1>7, <1>8
  <2>4. TurnsOK' /\ Newest(s) <= Newest(s)' /\ Newest(s)' <= Newest(s) + 1
    BY <1>1, <1>5
  <2> QED BY <1>3, <2>1, <2>2, <2>3, <2>4, RequestsKept
<1>18. ScreenHolds(s)'
  <2>1. /\ d.status = x.status /\ d.text = x.text /\ d.engrams = Formed(engram, s, n)
        /\ d.calls = BuildDigest(x, {}).calls
    <3>1. d = BuildDigest(t, Formed(engram, s, n))
      BY <1>5
    <3>2. /\ d.status = t.status /\ d.text = t.text /\ d.engrams = Formed(engram, s, n)
          /\ d.calls = BuildDigest(t, {}).calls
      BY <3>1 DEF BuildDigest
    <3>3. BuildDigest(x, {}).calls = BuildDigest(t, {}).calls
      BY <1>7 DEF BuildDigest
    <3> QED BY <1>7, <3>2, <3>3
  <2>2. Matches(s, n, d)'
    <3>1. d.engrams \cap Rows' = Formed(engram, s, n)'
      BY <1>11, <2>1, FormedFacts
    <3> QED BY <1>8, <2>1, <3>1 DEF Matches
  <2>3. Told(s, n)
    <3>1. d.engrams \cap Unused' = {}
      BY <1>11, <2>1 DEF Formed
    <3>2. Matches(s, n, turns[s][n].digest)'
      BY <1>7, <1>8, <2>2 DEF Matches
    <3> QED BY <1>5, <1>7, <1>8, <3>1, <3>2 DEF Told
  <2>4. ASSUME NEW i \in DOMAIN turns'[s], i # n PROVE LeftAlone(s, i, {})
    <3>1. i \in 1..MaxTurns
      BY <1>1, <1>4, <1>5, SettingFacts, <1>3
    <3> QED BY <1>5, <1>11, <2>4, <3>1 DEF LeftAlone, Settled
  <2>5. ScreenHolds(s)
    BY <1>3 DEF SessionHolds
  <2>6. \A i \in 1..MaxTurns : i \notin DOMAIN turns'[s] => screen'[s].seen[i] = screen[s].seen[i]
    BY <1>1, <1>5
  <2>7. /\ TurnsOK' /\ Newest(s) <= Newest(s)' /\ Newest(s)' <= MaxTurns
        /\ screen'[s].on = screen[s].on /\ screen'[s].gap = screen[s].gap
        /\ ~screen[s].on => screen'[s] = screen[s]
    BY <1>1, <1>4, <1>5
  <2>8. \A i \in DOMAIN turns'[s] : LeftAlone(s, i, {}) \/ Told(s, i) \/ Begun(s, i)
    BY <2>3, <2>4
  <2> QED BY <1>2, <1>3, <1>4, <1>10, <2>5, <2>6, <2>7, <2>8, ScreenMoves
<1>19. SessionHolds(s)'
  BY <1>14, <1>15, <1>16, <1>17, <1>18 DEF SessionHolds
<1>20. Apart(s)
  BY <1>5, <1>11 DEF Apart, memory
<1> QED BY <1>9, <1>10, <1>19, <1>20, StepKeeps

(* The calls of the turn that a run works on are written: they have the    *)
(* tools they had, and there may be more of them.                          *)
CallsMove(s, n, q) ==
  /\ \A u \in Sessions \ {s} : run'[u] = run[u] /\ op'[u] = op[u]
  /\ op'[s].pc = "idle" /\ cut' = cut /\ screen' = screen
  /\ n = run[s].turn /\ run[s].pc \in {"tools", "exec", "record", "memory", "post"}
  /\ q \in Seq(ToolCall)
  /\ turns' = [turns EXCEPT ![s] = [turns[s] EXCEPT ![n] = [turns[s][n] EXCEPT !.calls = q]]]
  /\ \A k \in DOMAIN turns[s][n].calls : k \in DOMAIN q /\ q[k].tool = turns[s][n].calls[k].tool
  /\ run'[s].turn = n /\ run'[s].pc \in {"tools", "exec", "record", "post"}
  /\ run'[s].pc # "tools" => run'[s].call \in DOMAIN q /\ q[run'[s].call].tool = run'[s].tool
  /\ \/ executed' = executed
     \/ /\ run'[s].pc # "tools"
        /\ executed' = executed \cup {<<s, n, run'[s].call, run'[s].tool>>}

LEMMA CallsStep ==
  ASSUME Inv, setting' = setting, NEW s \in Sessions, MemoryHolds', Linking({}),
         RowsOK', RunsOK', said' \in Nat, faults' \in Nat, NEW n, NEW q, CallsMove(s, n, q)
  PROVE  Inv'
<1> USE DEF CallsMove
<1>1. TypeOK /\ SessionHolds(s) /\ MemoryHolds
  BY DEF Inv
<1>2. /\ DOMAIN turns[s] = 1..Newest(s) /\ Newest(s) \in Nat /\ n \in DOMAIN turns[s]
      /\ n = Newest(s) /\ Newest(s) <= MaxTurns
      /\ turns[s][n].status = "COMPLETED" /\ turns[s][n].answered
  <2>1. run[s].pc \notin {"idle", "queued", "find", "end"}
    OBVIOUS
  <2> QED BY <1>1, <2>1, NewestFacts DEF SessionHolds, RunHolds, Turn
<1>3. MaxTurns' = MaxTurns
  BY DEF MaxTurns
<1>4. PICK t : t = turns[s][n]
  OBVIOUS
<1>5. PICK x : x = [t EXCEPT !.calls = q]
  OBVIOUS
<1>6. IsTurn(t)
  BY <1>1, <1>2, <1>4 DEF TypeOK, TurnsOK
<1>7. /\ x.status = t.status /\ x.asked = t.asked /\ x.answered = t.answered
      /\ x.request = t.request /\ x.text = t.text /\ x.calls = q /\ x.digest = t.digest
      /\ IsTurn(x)
  BY <1>5, <1>6 DEF IsTurn
<1>8. turns' = [turns EXCEPT ![s] = [turns[s] EXCEPT ![n] = x]]
  BY <1>4, <1>5
<1>9. /\ TurnsOK' /\ Newest(s)' = Newest(s) /\ DOMAIN turns'[s] = DOMAIN turns[s]
      /\ turns'[s][n] = x
      /\ \A i \in DOMAIN turns[s] : i # n => turns'[s][i] = turns[s][i]
      /\ \A u \in Sessions : u # s => turns'[u] = turns[u]
  <2>1. TurnsOK /\ n \in DOMAIN turns[s] /\ IsTurn(x)
    BY <1>1, <1>2, <1>7 DEF TypeOK
  <2> QED BY <1>8, <2>1, TurnPut
<1>10. ScreenOK'
  BY <1>1, <1>3 DEF TypeOK, ScreenOK
<1>11. \A y \in executed' : y \in executed \/ \E k \in DOMAIN q : y = <<s, n, k, q[k].tool>>
  OBVIOUS
<1>12. executed' \subseteq Sessions \X Nat \X Nat \X Tools
  <2>1. ASSUME NEW k \in DOMAIN q PROVE <<s, n, k, q[k].tool>> \in Sessions \X Nat \X Nat \X Tools
    <3>1. q[k] \in ToolCall /\ k \in Nat
      OBVIOUS
    <3>2. q[k].tool \in Tools
      BY <3>1 DEF ToolCall
    <3> QED BY <1>2, <3>1, <3>2
  <2>2. executed \subseteq Sessions \X Nat \X Nat \X Tools
    BY <1>1 DEF TypeOK
  <2> QED BY <1>11, <2>1, <2>2
<1>13. KindsOK'
  BY <1>1, <1>9, <1>10, <1>12 DEF KindsOK, TypeOK
<1>14. RunHolds(s)'
  <2>1. Turn(s)' = x /\ Newest(s)' = n /\ n # 0
    BY <1>2, <1>9 DEF Turn
  <2>2. x.status = "COMPLETED" /\ x.answered
    BY <1>2, <1>4, <1>7
  <2>3. Newest(s)' <= MaxTurns'
    BY <1>2, <1>3, <1>9
  <2> QED BY <1>7, <2>1, <2>2, <2>3 DEF RunHolds, Called
<1>15. ASSUME NEW i \in DOMAIN turns'[s] PROVE TurnHolds(s, i)'
  <2>1. CASE i = n
    <3>1. turns'[s][i].status = "COMPLETED" /\ turns'[s][i].answered
      BY <1>2, <1>4, <1>7, <1>9, <2>1
    <3>2. turns'[s][i].asked
      BY <1>1, <1>2, <1>4, <1>7, <1>9, <2>1 DEF SessionHolds, TurnHolds
    <3> QED BY <3>1, <3>2 DEF TurnHolds
  <2>2. CASE i # n
    BY <1>1, <1>9, <2>2 DEF SessionHolds, TurnHolds
  <2> QED BY <2>1, <2>2
<1>16. ExecutedHold(s)'
  <2> SUFFICES ASSUME NEW y \in executed', y[1] = s
               PROVE  /\ y[2] \in DOMAIN turns'[s] /\ y[3] \in DOMAIN turns'[s][y[2]].calls
                      /\ turns'[s][y[2]].calls[y[3]].tool = y[4]
    BY DEF ExecutedHold
  <2>1. CASE y \in executed
    <3>1. /\ y[2] \in DOMAIN turns[s] /\ y[3] \in DOMAIN turns[s][y[2]].calls
          /\ turns[s][y[2]].calls[y[3]].tool = y[4]
      BY <1>1, <2>1 DEF SessionHolds, ExecutedHold
    <3>2. CASE y[2] = n
      <4>1. y[3] \in DOMAIN q /\ q[y[3]].tool = y[4]
        BY <3>1, <3>2
      <4>2. turns'[s][y[2]].calls = q /\ y[2] \in DOMAIN turns'[s]
        BY <1>2, <1>7, <1>9, <3>2
      <4> QED BY <4>1, <4>2
    <3>3. CASE y[2] # n
      BY <1>9, <3>1, <3>3
    <3> QED BY <3>2, <3>3
  <2>2. ASSUME NEW k \in DOMAIN q, y = <<s, n, k, q[k].tool>>
        PROVE  /\ y[2] \in DOMAIN turns'[s] /\ y[3] \in DOMAIN turns'[s][y[2]].calls
               /\ turns'[s][y[2]].calls[y[3]].tool = y[4]
    BY <1>2, <1>7, <1>9, <2>2
  <2> QED BY <1>11, <2>1, <2>2
<1>17. RequestsHold(s)'
  <2>1. RequestsHold(s) /\ run'[s].pc # "ask"
    BY <1>1 DEF SessionHolds
  <2>2. \A i \in DOMAIN turns'[s] : turns'[s][i].asked => PromptHolds(s, i, turns'[s][i].request)
    <3> TAKE i \in DOMAIN turns'[s]
    <3>1. turns'[s][i].asked = turns[s][i].asked /\ turns'[s][i].request = turns[s][i].request
      BY <1>4, <1>7, <1>9
    <3> QED BY <1>9, <2>1, <3>1 DEF RequestsHold
  <2>3. \A m \in DOMAIN turns[s] : m < Newest(s)' => turns'[s][m].calls = turns[s][m].calls
    BY <1>2, <1>9
  <2>4. TurnsOK' /\ Newest(s) <= Newest(s)' /\ Newest(s)' <= Newest(s) + 1
    BY <1>2, <1>9
  <2> QED BY <1>1, <2>1, <2>2, <2>3, <2>4, RequestsKept
<1>18. ScreenHolds(s)'
  <2>1. LeftAlone(s, n, {})
    <3>1. ~Settled(s, n)'
      BY DEF Settled
    <3> QED BY <1>2, <1>4, <1>7, <1>9, <3>1 DEF LeftAlone
  <2>2. ASSUME NEW i \in DOMAIN turns'[s], i # n PROVE LeftAlone(s, i, {})
    BY <1>9, <2>2 DEF LeftAlone, Settled
  <2>3. \A i \in DOMAIN turns'[s] : LeftAlone(s, i, {}) \/ Told(s, i) \/ Begun(s, i)
    BY <2>1, <2>2
  <2>4. TurnsOK' /\ Newest(s) <= Newest(s)' /\ Newest(s)' <= MaxTurns
    BY <1>2, <1>9
  <2>5. ScreenHolds(s)
    BY <1>1 DEF SessionHolds
  <2> QED BY <1>1, <1>2, <1>3, <2>3, <2>4, <2>5, ScreenMoves
<1>19. SessionHolds(s)'
  BY <1>14, <1>15, <1>16, <1>17, <1>18 DEF SessionHolds
<1>20. Apart(s)
  <2>1. \A y \in executed' : y[1] # s => y \in executed
    BY <1>11
  <2> QED BY <1>9, <2>1 DEF Apart
<1> QED BY <1>13, <1>19, <1>20, StepKeeps

LEMMA OpStays ==
  ASSUME MemoryTypeOK, NEW s \in Sessions, OpSteps(s)
  PROVE  op'[s].turn \in {0, op[s].turn} /\ \A u \in Sessions \ {s} : op'[u] = op[u]
<1>1. PICK call : op' = [op EXCEPT ![s] = call] /\ call.turn \in {0, op[s].turn}
  <2>1. op[s] \in Call
    BY DEF MemoryTypeOK
  <2>2. ASSUME NEW what, Answer(s, what)
        PROVE  \E call : op' = [op EXCEPT ![s] = call] /\ call.turn \in {0, op[s].turn}
    <3>1. PICK call : call = [NoOp EXCEPT !.pc = what]
      OBVIOUS
    <3>2. call.turn \in {0, op[s].turn} /\ op' = [op EXCEPT ![s] = call]
      BY <2>2, <3>1 DEF Answer, NoOp
    <3> QED BY <3>2
  <2>3. ASSUME NEW pc, op' = [op EXCEPT ![s].pc = pc]
        PROVE  \E call : op' = [op EXCEPT ![s] = call] /\ call.turn \in {0, op[s].turn}
    <3>1. PICK call : call = [op[s] EXCEPT !.pc = pc]
      OBVIOUS
    <3>2. call.turn \in {0, op[s].turn} /\ op' = [op EXCEPT ![s] = call]
      BY <2>1, <2>3, <3>1 DEF Call
    <3> QED BY <3>2
  <2>4. ASSUME NEW pc, NEW e, op' = [op EXCEPT ![s] = [op[s] EXCEPT !.pc = pc, !.id = e]]
        PROVE  \E call : op' = [op EXCEPT ![s] = call] /\ call.turn \in {0, op[s].turn}
    <3>1. PICK call : call = [op[s] EXCEPT !.pc = pc, !.id = e]
      OBVIOUS
    <3>2. call.turn \in {0, op[s].turn} /\ op' = [op EXCEPT ![s] = call]
      BY <2>1, <2>4, <3>1 DEF Call
    <3> QED BY <3>2
  <2> QED BY <2>2, <2>3, <2>4 DEF OpSteps, SaveLook, SaveCreate, SaveLink, UpdateWrite, UpdateVector
<1> QED BY <1>1 DEF MemoryTypeOK

(* A tool works at its cards; when one is linked to the turn, the turn has *)
(* its digest built again, and shown.                                      *)
LEMMA MemoryStepKeeps ==
  ASSUME Inv, setting' = setting, NEW s \in Sessions, MemoryStep(s), faults' = faults, cut' = cut
  PROVE  Inv'
<1>1. TypeOK /\ SessionHolds(s) /\ MemoryHolds
  BY DEF Inv
<1>2. PICK n : n = run[s].turn
  OBVIOUS
<1>3. /\ At(s, "memory") /\ OpSteps(s) /\ UNCHANGED <<row, mem, run, said, executed>>
  BY DEF MemoryStep
<1>4. /\ DOMAIN turns[s] = 1..Newest(s) /\ Newest(s) \in Nat /\ n \in DOMAIN turns[s]
      /\ n = Newest(s) /\ Newest(s) <= MaxTurns /\ op[s].turn \in {0, n}
      /\ turns[s][n].status = "COMPLETED" /\ turns[s][n].answered
  <2>1. run[s].pc = "memory"
    BY <1>3 DEF At
  <2>2. op[s].pc # "idle"
    BY <1>3 DEF OpSteps, SaveLook, SaveCreate, SaveLink, UpdateWrite, UpdateVector
  <2> QED BY <1>1, <1>2, <2>1, <2>2, NewestFacts DEF SessionHolds, RunHolds, Turn
<1>5. PICK l : l = op[s].turn
  OBVIOUS
<1>6. MemoryHolds' /\ Linking({<<s, l>>})
  <2>1. MemoryHolds' /\ Linking({<<s, op[s].turn>>})
    BY <1>1, <1>3, OpStepsKeep
  <2> QED BY <1>5, <2>1 DEF Linking
<1>7. PICK L : L = {<<s, l>>}
  OBVIOUS
<1>8. MaxTurns' = MaxTurns
  BY DEF MaxTurns
<1>9. (\A u \in Sessions \ {s} : op'[u] = op[u]) /\ op'[s].turn \in {0, n}
  BY <1>1, <1>3, <1>4, OpStays DEF MemoryHolds
<1>10. PICK F : F = Formed(engram, s, n)'
  OBVIOUS
<1>11. PICK t, d : t = turns[s][n] /\ d = BuildDigest(t, F)
  OBVIOUS
<1>12. PICK x : x = [t EXCEPT !.digest = d]
  OBVIOUS
<1>13. F \in SUBSET Engrams /\ F \cap Unused' = {}
  BY <1>10 DEF Formed
<1>14. IsTurn(t)
  BY <1>1, <1>4, <1>11 DEF TypeOK, TurnsOK
<1>15. d \in Digests /\ d.engrams = F
  <2>1. d = BuildDigest(t, F) /\ F \in SUBSET Engrams
    BY <1>11, <1>13
  <2>2. d \in Digests
    BY <1>14, <2>1, DigestBuilt
  <2>3. d.engrams = F
    BY <2>1 DEF BuildDigest
  <2> QED BY <2>2, <2>3
<1>16. /\ x.status = t.status /\ x.asked = t.asked /\ x.answered = t.answered
       /\ x.request = t.request /\ x.text = t.text /\ x.calls = t.calls /\ x.digest = d
       /\ IsTurn(x)
  BY <1>12, <1>14, <1>15 DEF IsTurn
<1>17. BuildDigest(turns[s][n], Formed(engram', s, n)) = d
  BY <1>10, <1>11 DEF Formed
<1>18. \/ turns' = turns /\ screen' = screen
       \/ turns' = [turns EXCEPT ![s][n].digest = d] /\ screen' = Shown(s, n, d)
  BY <1>2, <1>17 DEF MemoryStep
<1>19. ASSUME turns' = [turns EXCEPT ![s][n].digest = d], screen' = Shown(s, n, d)
       PROVE  /\ TurnsOK' /\ ScreenOK' /\ Newest(s)' = Newest(s) /\ DOMAIN turns'[s] = DOMAIN turns[s]
              /\ turns'[s][n] = x /\ \A i \in DOMAIN turns[s] : i # n => turns'[s][i] = turns[s][i]
              /\ screen'[s].on = screen[s].on /\ screen'[s].gap = screen[s].gap
              /\ \A i \in 1..MaxTurns : i # n => screen'[s].seen[i] = screen[s].seen[i]
              /\ screen'[s].seen[n] = IF screen[s].on THEN d ELSE screen[s].seen[n]
              /\ ~screen[s].on => screen' = screen
              /\ \A u \in Sessions : u # s => turns'[u] = turns[u] /\ screen'[u] = screen[u]
  <2>1. turns' = [turns EXCEPT ![s] = [turns[s] EXCEPT ![n] = x]]
    BY <1>11, <1>12, <1>19
  <2>2. TurnsOK /\ ScreenOK
    BY <1>1 DEF TypeOK
  <2>3. /\ TurnsOK' /\ Newest(s)' = Newest(s) /\ DOMAIN turns'[s] = DOMAIN turns[s]
        /\ turns'[s][n] = x
        /\ \A i \in DOMAIN turns[s] : i # n => turns'[s][i] = turns[s][i]
        /\ \A u \in Sessions : u # s => turns'[u] = turns[u]
    BY ZenonT(40), <1>4, <1>16, <2>1, <2>2, TurnPut
  <2>4. n \in 1..MaxTurns
    BY <1>1, <1>4, SettingFacts
  <2>5. /\ ScreenOK' /\ screen'[s].on = screen[s].on /\ screen'[s].gap = screen[s].gap
        /\ \A i \in 1..MaxTurns : i # n => screen'[s].seen[i] = screen[s].seen[i]
        /\ screen'[s].seen[n] = IF screen[s].on THEN d ELSE screen[s].seen[n]
        /\ \A u \in Sessions : u # s => screen'[u] = screen[u]
        /\ ~screen[s].on => screen' = screen
    BY <1>15, <1>19, <2>2, <2>4, ShownFacts
  <2> QED BY <2>3, <2>5
<1>20. /\ TurnsOK' /\ ScreenOK' /\ Newest(s)' = Newest(s) /\ DOMAIN turns'[s] = DOMAIN turns[s]
       /\ \A i \in DOMAIN turns[s] : i # n => turns'[s][i] = turns[s][i]
       /\ turns'[s][n] \in {t, x}
       /\ screen'[s].on = screen[s].on /\ screen'[s].gap = screen[s].gap
       /\ \A i \in 1..MaxTurns : i # n => screen'[s].seen[i] = screen[s].seen[i]
       /\ ~screen[s].on => screen' = screen
       /\ \A u \in Sessions : u # s => turns'[u] = turns[u] /\ screen'[u] = screen[u]
  <2>1. CASE turns' = turns /\ screen' = screen
    <3>1. TurnsOK /\ ScreenOK
      BY <1>1 DEF TypeOK
    <3>2. TurnsOK' /\ ScreenOK' /\ Newest(s)' = Newest(s)
      BY <1>8, <2>1, <3>1 DEF TurnsOK, ScreenOK, Newest
    <3> QED BY <1>11, <2>1, <3>2
  <2> QED BY <1>18, <1>19, <2>1
<1>21. /\ turns'[s][n].status = t.status /\ turns'[s][n].asked = t.asked
       /\ turns'[s][n].answered = t.answered /\ turns'[s][n].request = t.request
       /\ turns'[s][n].text = t.text /\ turns'[s][n].calls = t.calls
  BY <1>16, <1>20
<1>22. \A i \in DOMAIN turns'[s] :
         /\ turns'[s][i].status = turns[s][i].status /\ turns'[s][i].asked = turns[s][i].asked
         /\ turns'[s][i].answered = turns[s][i].answered
         /\ turns'[s][i].request = turns[s][i].request
         /\ turns'[s][i].text = turns[s][i].text /\ turns'[s][i].calls = turns[s][i].calls
  BY <1>11, <1>20, <1>21
<1>23. RunHolds(s)'
  <2>1. run'[s] = run[s] /\ run[s].pc = "memory" /\ Newest(s)' <= MaxTurns'
    BY <1>3, <1>4, <1>8, <1>20 DEF At
  <2>2. /\ Turn(s)'.status = Turn(s).status /\ Turn(s)'.answered = Turn(s).answered
        /\ Turn(s)'.calls = Turn(s).calls /\ Turn(s)'.asked = Turn(s).asked
    <3>1. Turn(s)' = turns'[s][n] /\ Turn(s) = turns[s][n] /\ n \in DOMAIN turns'[s]
      BY <1>2, <1>4, <1>20, <2>1 DEF Turn
    <3> QED BY <1>22, <3>1
  <2>3. RunHolds(s)
    BY <1>1 DEF SessionHolds
  <2> QED BY <1>2, <1>9, <1>20, <2>1, <2>2, <2>3 DEF RunHolds, Called
<1>24. \A i \in DOMAIN turns'[s] : TurnHolds(s, i)'
  BY <1>1, <1>20, <1>22 DEF SessionHolds, TurnHolds
<1>25. ExecutedHold(s)'
  BY <1>1, <1>3, <1>20, <1>22 DEF SessionHolds, ExecutedHold
<1>26. RequestsHold(s)'
  <2>1. RequestsHold(s) /\ run'[s].pc # "ask"
    BY <1>1, <1>3 DEF SessionHolds, At
  <2>2. \A i \in DOMAIN turns'[s] : turns'[s][i].asked => PromptHolds(s, i, turns'[s][i].request)
    BY <1>20, <1>22, <2>1 DEF RequestsHold
  <2>3. \A m \in DOMAIN turns[s] : m < Newest(s)' => turns'[s][m].calls = turns[s][m].calls
    BY <1>20, <1>22
  <2>4. TurnsOK' /\ Newest(s) <= Newest(s)' /\ Newest(s)' <= Newest(s) + 1
    BY <1>4, <1>20
  <2> QED BY <1>1, <2>1, <2>2, <2>3, <2>4, RequestsKept
<1>27. ScreenHolds(s)'
  <2>1. LeftAlone(s, n, L) \/ Told(s, n)
    <3>1. ~Settled(s, n)'
      BY <1>2, <1>3 DEF Settled, At
    <3>2. CASE turns' = turns /\ screen' = screen
      BY <1>4, <3>1, <3>2 DEF LeftAlone
    <3>3. CASE turns' = [turns EXCEPT ![s][n].digest = d] /\ screen' = Shown(s, n, d)
      <4>1. /\ turns'[s][n] = x
            /\ screen'[s].seen[n] = IF screen[s].on THEN d ELSE screen[s].seen[n]
        BY <1>19, <3>3
      <4> QED BY <1>4, <1>13, <1>15, <1>16, <3>1, <4>1 DEF Told
    <3> QED BY <1>18, <3>2, <3>3
  <2>2. ASSUME NEW i \in DOMAIN turns'[s], i # n PROVE LeftAlone(s, i, L)
    <3>1. i \in 1..MaxTurns /\ i \in DOMAIN turns[s] /\ <<s, i>> \notin L
      BY <1>1, <1>4, <1>5, <1>7, <1>20, <2>2, SettingFacts
    <3> QED BY <1>3, <1>20, <2>2, <3>1 DEF LeftAlone, Settled
  <2>3. \A i \in DOMAIN turns'[s] : LeftAlone(s, i, L) \/ Told(s, i) \/ Begun(s, i)
    BY <2>1, <2>2
  <2>4. /\ TurnsOK' /\ Newest(s) <= Newest(s)' /\ Newest(s)' <= MaxTurns
        /\ screen'[s].on = screen[s].on /\ screen'[s].gap = screen[s].gap
        /\ ~screen[s].on => screen'[s] = screen[s]
        /\ Linking(L) /\ Newest(s) <= MaxTurns
    BY <1>4, <1>6, <1>7, <1>20
  <2>5. ScreenHolds(s)
    BY <1>1 DEF SessionHolds
  <2>6. \A i \in 1..MaxTurns : i \notin DOMAIN turns'[s] => screen'[s].seen[i] = screen[s].seen[i]
    BY <1>4, <1>20
  <2> QED BY <1>1, <1>8, <2>3, <2>4, <2>5, <2>6, ScreenMoves
<1>28. SessionHolds(s)'
  BY <1>23, <1>24, <1>25, <1>26, <1>27 DEF SessionHolds
<1>29. Apart(s)
  BY <1>3, <1>9, <1>20 DEF Apart
<1>30. KindsOK'
  BY <1>1, <1>3, <1>20 DEF TypeOK, KindsOK, RowsOK, RunsOK
<1> QED BY <1>6, <1>7, <1>28, <1>29, <1>30, StepKeeps

(* A run goes from one place to the next and leaves its turns as they are. *)
Ways == {<<"idle", "queued">>, <<"queued", "find">>, <<"find", "end">>, <<"exec", "record">>,
         <<"exec", "memory">>, <<"post", "tools">>, <<"sleep", "end">>}

LEMMA GoStep ==
  ASSUME Inv, setting' = setting, NEW s \in Sessions, MemoryHolds', Linking({}),
         turns' = turns, screen' = screen, cut' = cut, RowsOK', said' \in Nat, faults' \in Nat,
         NEW pc, Go(s, pc),
         <<run[s].pc, pc>> \in Ways,
         executed' = executed \/ (run[s].pc = "exec" /\ Executing(s)),
         \A u \in Sessions \ {s} : op'[u] = op[u],
         op'[s].pc # "idle" => pc = "memory" /\ op'[s].turn \in {0, run[s].turn}
  PROVE  Inv'
<1>1. TypeOK /\ SessionHolds(s)
  BY DEF Inv
<1>2. /\ RunsOK' /\ run'[s].pc = pc /\ run'[s].turn = run[s].turn /\ run'[s].call = run[s].call
      /\ run'[s].tool = run[s].tool
      /\ \A u \in Sessions \ {s} : run'[u] = run[u]
  <2>1. pc \in {"queued", "find", "ask", "think", "tools", "exec", "record",
                "memory", "post", "sleep", "end"}
    BY DEF Ways
  <2>2. RunsOK
    BY <1>1 DEF TypeOK
  <2> QED BY <2>1, <2>2, Goes
<1>3. /\ DOMAIN turns[s] = 1..Newest(s) /\ Newest(s) \in Nat /\ Newest(s)' = Newest(s)
      /\ MaxTurns' = MaxTurns /\ IsRun(run[s])
  BY <1>1, NewestFacts DEF Newest, MaxTurns
<1>4. RunHolds(s) /\ ExecutedHold(s) /\ \A n \in DOMAIN turns[s] : TurnHolds(s, n)
  BY <1>1 DEF SessionHolds
<1>5. RunHolds(s)'
  <2>1. PICK t : t = turns[s][run[s].turn]
    OBVIOUS
  <2>2. Turn(s) = t /\ Called(s) = t.calls[run[s].call]
    BY <2>1 DEF Turn, Called
  <2>3. Turn(s)' = t /\ Called(s)' = t.calls[run[s].call]
    <3>1. run'[s].turn = run[s].turn /\ run'[s].call = run[s].call
      BY <1>2
    <3>2. turns'[s][run'[s].turn] = t
      BY <2>1, <3>1
    <3> QED BY <3>1, <3>2 DEF Turn, Called
  <2>4. run[s].pc \in {"idle", "queued", "find"} \/ run[s].turn \in DOMAIN turns[s]
    BY <1>3, <1>4 DEF RunHolds, Ways
  <2> QED BY <1>2, <1>3, <1>4, <2>2, <2>3, <2>4 DEF RunHolds, Ways
<1>6. ASSUME run[s].pc = "exec", Executing(s)
      PROVE  ExecutedHold(s)' /\ executed' \subseteq Sessions \X Nat \X Nat \X Tools
  <2>1. PICK n, k, tool : n = run[s].turn /\ k = run[s].call /\ tool = run[s].tool
    OBVIOUS
  <2>2. n \in DOMAIN turns[s] /\ k \in DOMAIN turns[s][n].calls /\ turns[s][n].calls[k].tool = tool
    BY <1>3, <1>4, <1>6, <2>1 DEF RunHolds, Turn, Called
  <2>3. executed' = executed \cup {<<s, n, k, tool>>}
    BY <1>6, <2>1 DEF Executing
  <2>4. tool \in Tools /\ k \in Nat /\ n \in Nat
    <3>1. turns[s][n].calls \in Seq(ToolCall)
      BY <1>1, <2>2 DEF TypeOK, TurnsOK, IsTurn
    <3>2. turns[s][n].calls[k] \in ToolCall /\ k \in Nat
      BY <2>2, <3>1
    <3> QED BY <1>3, <2>2, <3>2 DEF ToolCall
  <2>5. ExecutedHold(s)'
    BY <1>4, <2>2, <2>3 DEF ExecutedHold
  <2>6. executed \subseteq Sessions \X Nat \X Nat \X Tools
    BY <1>1 DEF TypeOK
  <2> QED BY <2>3, <2>4, <2>5, <2>6
<1>7. ExecutedHold(s)' /\ executed' \subseteq Sessions \X Nat \X Nat \X Tools
  <2>1. CASE executed' = executed
    BY <1>1, <1>4, <2>1 DEF ExecutedHold, TypeOK
  <2> QED BY <1>6, <2>1
<1>8. \A x \in executed' : x[1] # s => x \in executed
  BY DEF Executing
<1>9. \A n \in DOMAIN turns[s] : Settled(s, n)' => Settled(s, n)
  <2>1. pc \in {"sleep", "end"} => run[s].turn = 0 \/ run[s].pc = "sleep"
    BY <1>4 DEF RunHolds, Ways
  <2> QED BY <1>2, <1>3, <2>1 DEF Settled
<1>10. run'[s].pc # "ask" /\ cut \subseteq Sessions \X Nat
  BY <1>1, <1>2 DEF TypeOK, Ways
<1> QED BY <1>2, <1>5, <1>7, <1>8, <1>9, <1>10, QuietStep

(* What does not touch the cards.                                          *)
LEMMA MemoryUntouched ==
  ASSUME Inv, UNCHANGED memory
  PROVE  MemoryHolds' /\ Linking({}) /\ op' = op
  BY MemoryStays DEF Inv, memory

(* A run that is not in a tool of memory is in no call of one.             *)
LEMMA NoCall ==
  ASSUME Inv, NEW s \in Sessions, run[s].pc # "memory"
  PROVE  op[s].pc = "idle"
  BY DEF Inv, SessionHolds, RunHolds

LEMMA RowPut ==
  ASSUME TypeOK, mem' = mem, NEW s \in Sessions, NEW r, row' = [row EXCEPT ![s] = r],
         r \in [status : {"ACTIVE", "COMPLETED", "ATTENTION_REQUIRED", "MAXED_OUT", "ERROR"},
                focus : Int, xp : Nat, queue : Seq(Nat)]
  PROVE  RowsOK'
  BY DEF TypeOK, RowsOK

LEMMA RowStatus ==
  ASSUME TypeOK, mem' = mem, NEW s \in Sessions,
         NEW status \in {"ACTIVE", "COMPLETED", "ATTENTION_REQUIRED", "MAXED_OUT", "ERROR"},
         row' = [row EXCEPT ![s].status = status]
  PROVE  RowsOK'
<1>1. PICK r : r = [row[s] EXCEPT !.status = status]
  OBVIOUS
<1>2. r \in [status : {"ACTIVE", "COMPLETED", "ATTENTION_REQUIRED", "MAXED_OUT", "ERROR"},
             focus : Int, xp : Nat, queue : Seq(Nat)]
  BY <1>1 DEF TypeOK, RowsOK
<1>3. row' = [row EXCEPT ![s] = r]
  BY <1>1
<1> QED BY <1>2, <1>3, RowPut

LEMMA RowsStay ==
  ASSUME TypeOK, UNCHANGED <<row, mem>>
  PROVE  RowsOK'
  BY DEF TypeOK, RowsOK

LEMMA TalkKeeps ==
  ASSUME Inv, setting' = setting, NEW s \in Sessions, Talk(s)
  PROVE  Inv'
<1>1. /\ TypeOK /\ said' \in Nat /\ faults' \in Nat /\ UNCHANGED <<mem, turns, screen, executed, cut, memory>>
  BY DEF Inv, TypeOK, Talk, trouble
<1>2. MemoryHolds' /\ Linking({}) /\ op' = op
  BY <1>1, MemoryUntouched
<1>3. RowsOK'
  <2>1. PICK r : r = [row[s] EXCEPT
          !.queue = Append(row[s].queue, said + 1),
          !.status = IF row[s].status = "ATTENTION_REQUIRED" THEN "ACTIVE" ELSE row[s].status]
    OBVIOUS
  <2>2. row' = [row EXCEPT ![s] = r]
    BY <2>1 DEF Talk
  <2>3. row[s] \in [status : {"ACTIVE", "COMPLETED", "ATTENTION_REQUIRED", "MAXED_OUT", "ERROR"},
               focus : Int, xp : Nat, queue : Seq(Nat)] /\ said \in Nat
    BY <1>1 DEF TypeOK, RowsOK
  <2>4. Append(row[s].queue, said + 1) \in Seq(Nat)
    BY <2>3
  <2>5. r \in [status : {"ACTIVE", "COMPLETED", "ATTENTION_REQUIRED", "MAXED_OUT", "ERROR"},
               focus : Int, xp : Nat, queue : Seq(Nat)]
    BY <2>1, <2>3, <2>4
  <2> QED BY <1>1, <2>2, <2>5, RowPut
<1>4. CASE At(s, "idle") /\ Go(s, "queued")
  <2>1. op[s].pc = "idle" /\ <<run[s].pc, "queued">> \in Ways
    BY <1>4, NoCall DEF At, Ways
  <2> QED BY <1>1, <1>2, <1>3, <1>4, <2>1, GoStep
<1>5. CASE run' = run
  <2>1. /\ RunsOK' /\ RunHolds(s)' /\ ExecutedHold(s)' /\ cut \subseteq Sessions \X Nat
        /\ executed \subseteq Sessions \X Nat \X Nat \X Tools
    BY ZenonT(40), <1>1, <1>2, <1>5
       DEF Inv, TypeOK, RunsOK, SessionHolds, RunHolds, ExecutedHold, Turn, Called, Newest, MaxTurns
  <2>2. \A n \in DOMAIN turns[s] : Settled(s, n)' => Settled(s, n)
    BY <1>1, <1>5 DEF Settled
  <2>3. run'[s].pc = "ask" => PromptHolds(s, run'[s].turn, run'[s].prompt)
    BY <1>5 DEF Inv, SessionHolds, RequestsHold
  <2> QED BY <1>1, <1>2, <1>3, <1>5, <2>1, <2>2, <2>3, QuietStep
<1> QED BY <1>4, <1>5 DEF Talk

LEMMA RerunKeeps ==
  ASSUME Inv, setting' = setting, NEW s \in Sessions, Rerun(s)
  PROVE  Inv'
<1>1. /\ TypeOK /\ said' \in Nat /\ faults' \in Nat
      /\ UNCHANGED <<row, mem, turns, screen, executed, cut, memory>>
  BY DEF Inv, TypeOK, Rerun, trouble
<1>2. MemoryHolds' /\ Linking({}) /\ op' = op /\ RowsOK'
  BY <1>1, MemoryUntouched, RowsStay
<1>3. run[s].pc = "idle" /\ Go(s, "queued") /\ <<run[s].pc, "queued">> \in Ways
  BY DEF Rerun, At, Ways
<1>4. op[s].pc = "idle"
  BY <1>3, NoCall
<1> QED BY <1>1, <1>2, <1>3, <1>4, GoStep

LEMMA LoadSessionKeeps ==
  ASSUME Inv, setting' = setting, NEW s \in Sessions, LoadSession(s)
  PROVE  Inv'
<1>1. /\ TypeOK /\ said' \in Nat /\ faults' \in Nat
      /\ UNCHANGED <<turns, screen, executed, cut, memory>>
  BY DEF Inv, TypeOK, LoadSession, trouble
<1>2. MemoryHolds' /\ Linking({}) /\ op' = op
  BY <1>1, MemoryUntouched
<1>3. RowsOK'
  BY <1>1 DEF TypeOK, RowsOK, LoadSession
<1>4. run[s].pc = "queued" /\ Go(s, "find") /\ <<run[s].pc, "find">> \in Ways
  BY DEF LoadSession, At, Ways
<1>5. op[s].pc = "idle"
  BY <1>4, NoCall
<1> QED BY <1>1, <1>2, <1>3, <1>4, <1>5, GoStep

LEMMA SleepKeeps ==
  ASSUME Inv, setting' = setting, NEW s \in Sessions, Sleep(s)
  PROVE  Inv'
<1>1. /\ TypeOK /\ said' \in Nat /\ faults' \in Nat
      /\ UNCHANGED <<mem, turns, screen, executed, cut, memory>>
  BY DEF Inv, TypeOK, Sleep, trouble
<1>2. MemoryHolds' /\ Linking({}) /\ op' = op
  BY <1>1, MemoryUntouched
<1>3. RowsOK'
  BY <1>1, RowStatus DEF Sleep
<1>4. run[s].pc = "sleep" /\ Go(s, "end") /\ <<run[s].pc, "end">> \in Ways
  BY DEF Sleep, At, Ways
<1>5. op[s].pc = "idle"
  BY <1>4, NoCall
<1> QED BY <1>1, <1>2, <1>3, <1>4, <1>5, GoStep

LEMMA ExecutePassKeeps ==
  ASSUME Inv, setting' = setting, NEW s \in Sessions, ExecutePass(s)
  PROVE  Inv'
<1>1. /\ TypeOK /\ said' \in Nat /\ faults' \in Nat /\ UNCHANGED <<mem, turns, screen, cut, memory>>
  BY DEF Inv, TypeOK, ExecutePass, trouble
<1>2. MemoryHolds' /\ Linking({}) /\ op' = op
  BY <1>1, MemoryUntouched
<1>3. RowsOK'
  <2>1. row \in [Sessions -> [status : {"ACTIVE", "COMPLETED", "ATTENTION_REQUIRED", "MAXED_OUT", "ERROR"},
                              focus : Int, xp : Nat, queue : Seq(Nat)]]
    BY <1>1 DEF TypeOK, RowsOK
  <2>2. PICK f : f = MaxFocus(row[s])
    OBVIOUS
  <2>3. f \in Int
    <3>1. row[s].xp \in Nat
      BY <2>1
    <3> QED BY <2>2, <3>1 DEF MaxFocus, Level
  <2>4. row' = [row EXCEPT ![s].focus = f]
    BY <2>2 DEF ExecutePass
  <2> QED BY <1>1, <2>1, <2>3, <2>4 DEF TypeOK, RowsOK
<1>4. run[s].pc = "exec" /\ Go(s, "record") /\ Executing(s) /\ <<run[s].pc, "record">> \in Ways
  BY DEF ExecutePass, At, Ways
<1>5. op[s].pc = "idle"
  BY <1>4, NoCall
<1> QED BY <1>1, <1>2, <1>3, <1>4, <1>5, GoStep

LEMMA ExecuteYieldKeeps ==
  ASSUME Inv, setting' = setting, NEW s \in Sessions, ExecuteYield(s)
  PROVE  Inv'
<1>1. /\ TypeOK /\ said' \in Nat /\ faults' \in Nat /\ UNCHANGED <<mem, turns, screen, cut, memory>>
  BY DEF Inv, TypeOK, ExecuteYield, trouble
<1>2. MemoryHolds' /\ Linking({}) /\ op' = op
  BY <1>1, MemoryUntouched
<1>3. RowsOK'
  BY <1>1 DEF TypeOK, RowsOK, ExecuteYield
<1>4. run[s].pc = "exec" /\ Go(s, "record") /\ Executing(s) /\ <<run[s].pc, "record">> \in Ways
  BY DEF ExecuteYield, At, Ways
<1>5. op[s].pc = "idle"
  BY <1>4, NoCall
<1> QED BY <1>1, <1>2, <1>3, <1>4, <1>5, GoStep

(* A call that is answered at once.                                        *)
LEMMA AnswerGiven ==
  ASSUME NEW s \in Sessions, NEW n, Answer(s, "success") \/ Answer(s, "error")
  PROVE  \E call \in Call : op' = [op EXCEPT ![s] = call] /\ call.turn \in {0, n}
<1>1. PICK what \in {"success", "error"} : Answer(s, what)
  OBVIOUS
<1>2. PICK call : call = [NoOp EXCEPT !.pc = what]
  OBVIOUS
<1>3. call \in Call /\ call.turn \in {0, n}
  BY <1>2 DEF NoOp, Call
<1> QED BY <1>1, <1>2, <1>3 DEF Answer

(* While a tool is called its row is there.                                *)
LEMMA CalledFacts ==
  ASSUME Inv, NEW s \in Sessions, run[s].pc \in {"exec", "record", "memory", "post"}
  PROVE  /\ run[s].turn \in DOMAIN turns[s] /\ run[s].turn = Newest(s)
         /\ IsTurn(Turn(s)) /\ Turn(s).calls \in Seq(ToolCall)
         /\ run[s].call \in DOMAIN Turn(s).calls
         /\ Called(s) \in ToolCall /\ Called(s).tool = run[s].tool
<1>1. TypeOK /\ RunHolds(s)
  BY DEF Inv, SessionHolds
<1>2. run[s].turn = Newest(s) /\ Newest(s) # 0
  BY <1>1 DEF RunHolds
<1>3. run[s].turn \in DOMAIN turns[s] /\ IsTurn(Turn(s))
  BY <1>1, <1>2, NewestFacts DEF Turn
<1>4. Turn(s).calls \in Seq(ToolCall)
  BY <1>3 DEF IsTurn
<1>5. run[s].call \in DOMAIN Turn(s).calls /\ Called(s).tool = run[s].tool
  BY <1>1 DEF RunHolds
<1>6. Called(s) \in ToolCall
  BY <1>4, <1>5 DEF Called
<1> QED BY <1>2, <1>3, <1>4, <1>5, <1>6

LEMMA ChargedFacts ==
  ASSUME NEW o \in [focus : Int, xp : Nat, queue : Seq(Nat)], NEW tool \in Tools
  PROVE  Charged(o, tool) \in [focus : Int, xp : Nat, queue : Seq(Nat)]
<1>1. PICK m, x : m = FocusModifier[tool] /\ x = XpReward[tool]
  OBVIOUS
<1>2. m \in Int /\ x \in Nat
  BY <1>1, TurnsAssumption
<1>3. PICK f : f = MaxFocus(o)
  OBVIOUS
<1>4. f \in Int
  BY <1>3 DEF MaxFocus, Level
<1>5. PICK g : g = IF Least(f, o.focus + m) < 0 THEN 0 ELSE Least(f, o.focus + m)
  OBVIOUS
<1>6. g \in Int
  BY <1>2, <1>4, <1>5 DEF Least
<1>7. Charged(o, tool) = [o EXCEPT !.focus = g, !.xp = o.xp + x]
  BY <1>1, <1>3, <1>5 DEF Charged, Modifier
<1>8. o.xp + x \in Nat
  BY <1>2
<1>9. [o EXCEPT !.focus = g, !.xp = o.xp + x] \in [focus : Int, xp : Nat, queue : Seq(Nat)]
  BY <1>6, <1>8
<1> QED BY <1>7, <1>9

LEMMA ExecuteMemoryKeeps ==
  ASSUME Inv, setting' = setting, NEW s \in Sessions, ExecuteMemory(s)
  PROVE  Inv'
<1>1. /\ TypeOK /\ MemoryHolds /\ said' \in Nat /\ faults' \in Nat
      /\ UNCHANGED <<row, mem, turns, screen, cut>>
  BY DEF Inv, TypeOK, ExecuteMemory, trouble
<1>2. run[s].pc = "exec" /\ Go(s, "memory") /\ Executing(s) /\ <<run[s].pc, "memory">> \in Ways
  BY DEF ExecuteMemory, At, Ways
<1>3. RowsOK'
  BY <1>1, RowsStay
<1>4. PICK n \in Nat : n = run[s].turn
  BY <1>1, NewestFacts DEF IsRun
<1>5. /\ MemoryHolds' /\ Linking({})
      /\ \E call \in Call : op' = [op EXCEPT ![s] = call] /\ call.turn \in {0, n}
  <2>1. ASSUME NEW title \in Titles, NEW fact \in Facts, SaveBegin(s, n, title, fact)
        PROVE  /\ MemoryHolds' /\ Linking({})
               /\ \E call \in Call : op' = [op EXCEPT ![s] = call] /\ call.turn \in {0, n}
    <3>1. PICK vec \in Embeddings({fact}), tags \in BOOLEAN :
            op' = [op EXCEPT ![s] = [NoOp EXCEPT !.pc = "look", !.title = title, !.text = {fact},
                                     !.fact = fact, !.vec = vec, !.turn = n, !.tags = tags]]
      BY <2>1 DEF SaveBegin
    <3>2. PICK call : call = [NoOp EXCEPT !.pc = "look", !.title = title, !.text = {fact},
                                     !.fact = fact, !.vec = vec, !.turn = n, !.tags = tags]
      OBVIOUS
    <3>3. call \in Call /\ call.turn \in {0, n}
      BY <3>2 DEF NoOp, Call, Embeddings
    <3>4. MemoryHolds' /\ Linking({})
      BY <1>1, <2>1, SaveBeginKeeps
    <3> QED BY <3>1, <3>2, <3>3, <3>4
  <2>2. ASSUME NEW e \in Engrams, NEW fact \in Facts, UpdateRead(s, n, e, fact)
        PROVE  /\ MemoryHolds' /\ Linking({})
               /\ \E call \in Call : op' = [op EXCEPT ![s] = call] /\ call.turn \in {0, n}
    <3>1. MemoryHolds' /\ Linking({})
      BY <1>1, <2>2, UpdateReadKeeps
    <3>2. CASE e \notin Rows
      <4>1. Answer(s, "error")
        BY <2>2, <3>2 DEF UpdateRead
      <4> QED BY <3>1, <4>1, AnswerGiven
    <3>3. CASE e \in Rows
      <4>1. PICK text : text = Combined(e, fact)
        OBVIOUS
      <4>2. PICK vec \in Embeddings(text) :
              op' = [op EXCEPT ![s] = [NoOp EXCEPT !.pc = "write", !.id = e, !.text = text,
                                       !.fact = fact, !.vec = vec, !.turn = n,
                                       !.read = engram[e].text]]
        BY <2>2, <3>3, <4>1 DEF UpdateRead
      <4>3. PICK call : call = [NoOp EXCEPT !.pc = "write", !.id = e, !.text = text,
                                       !.fact = fact, !.vec = vec, !.turn = n,
                                       !.read = engram[e].text]
        OBVIOUS
      <4>4. text \in SUBSET Facts /\ engram[e].text \in SUBSET Facts
        BY <1>1, <4>1 DEF MemoryHolds, MemoryTypeOK, Card, Combined
      <4>5. call \in Call /\ call.turn \in {0, n}
        BY <4>3, <4>4 DEF NoOp, Call, Embeddings
      <4> QED BY <3>1, <4>2, <4>3, <4>5
    <3> QED BY <3>2, <3>3
  <2>3. ASSUME NEW e \in Engrams, ReadEngram(s, e)
        PROVE  /\ MemoryHolds' /\ Linking({})
               /\ \E call \in Call : op' = [op EXCEPT ![s] = call] /\ call.turn \in {0, n}
    <3>1. MemoryHolds' /\ Linking({})
      BY <1>1, <2>3, ReadEngramKeeps
    <3>2. Answer(s, "success") \/ Answer(s, "error")
      BY <2>3 DEF ReadEngram
    <3> QED BY <3>1, <3>2, AnswerGiven
  <2> QED BY <1>4, <2>1, <2>2, <2>3 DEF ExecuteMemory
<1>6. (\A u \in Sessions \ {s} : op'[u] = op[u]) /\ op'[s].turn \in {0, n}
  <2>1. PICK call \in Call : op' = [op EXCEPT ![s] = call] /\ call.turn \in {0, n}
    BY <1>5
  <2> QED BY <1>1, <2>1, CallUpdated DEF MemoryHolds
<1> QED BY <1>1, <1>2, <1>3, <1>4, <1>5, <1>6, GoStep

LEMMA PostKeeps ==
  ASSUME Inv, setting' = setting, NEW s \in Sessions, Post(s)
  PROVE  Inv'
<1>1. /\ TypeOK /\ said' \in Nat /\ faults' \in Nat
      /\ UNCHANGED <<turns, screen, executed, cut, memory>>
  BY DEF Inv, TypeOK, Post, trouble
<1>2. MemoryHolds' /\ Linking({}) /\ op' = op
  BY <1>1, MemoryUntouched
<1>3. run[s].pc = "post" /\ Go(s, "tools") /\ <<run[s].pc, "tools">> \in Ways
  BY DEF Post, At, Ways
<1>4. op[s].pc = "idle"
  BY <1>3, NoCall
<1>5. RowsOK'
  <2>1. CASE Legacy \/ "Focus" \notin Addons
    BY <1>1, <2>1, RowsStay DEF Post
  <2>2. CASE ~(Legacy \/ "Focus" \notin Addons)
    <3>1. PICK o : o = Charged(mem[s], run[s].tool)
      OBVIOUS
    <3>2. /\ mem' = [mem EXCEPT ![s] = o]
          /\ row' = [row EXCEPT ![s] = [@ EXCEPT !.focus = o.focus, !.xp = o.xp]]
      BY <2>2, <3>1 DEF Post
    <3>3. mem[s] \in [focus : Int, xp : Nat, queue : Seq(Nat)]
      BY <1>1 DEF TypeOK, RowsOK
    <3>4. run[s].tool \in Tools
      <4>1. Called(s) \in ToolCall /\ Called(s).tool = run[s].tool
        BY <1>3, CalledFacts
      <4> QED BY <4>1 DEF ToolCall
    <3>5. o \in [focus : Int, xp : Nat, queue : Seq(Nat)]
      BY <3>1, <3>3, <3>4, ChargedFacts
    <3>6. PICK r : r = [row[s] EXCEPT !.focus = o.focus, !.xp = o.xp]
      OBVIOUS
    <3>7. r \in [status : {"ACTIVE", "COMPLETED", "ATTENTION_REQUIRED", "MAXED_OUT", "ERROR"},
                 focus : Int, xp : Nat, queue : Seq(Nat)]
      BY <1>1, <3>5, <3>6 DEF TypeOK, RowsOK
    <3>8. row' = [row EXCEPT ![s] = r]
      BY <3>2, <3>6
    <3> QED BY SMTT(30), <1>1, <3>2, <3>5, <3>7, <3>8 DEF TypeOK, RowsOK
  <2> QED BY <2>1, <2>2
<1> QED BY <1>1, <1>2, <1>3, <1>4, <1>5, GoStep

(* The turn that a run finds open is the last.                             *)
LEMMA FindTurnKeeps ==
  ASSUME Inv, setting' = setting, NEW s \in Sessions, FindTurn(s)
  PROVE  Inv'
<1>1. /\ TypeOK /\ MemoryHolds /\ said' \in Nat /\ faults' \in Nat /\ SessionHolds(s)
      /\ UNCHANGED <<row, mem, executed, cut, memory>>
  BY DEF Inv, TypeOK, FindTurn, trouble
<1>2. MemoryHolds' /\ Linking({}) /\ op' = op /\ RowsOK'
  BY <1>1, MemoryUntouched, RowsStay
<1>3. run[s].pc = "find" /\ op[s].pc = "idle" /\ run[s].turn = 0
  BY <1>1, NoCall DEF FindTurn, At, SessionHolds, RunHolds
<1>4. /\ DOMAIN turns[s] = 1..Newest(s) /\ Newest(s) \in Nat /\ IsRun(run[s])
      /\ \A n \in DOMAIN turns[s] : IsTurn(turns[s][n])
  BY <1>1, NewestFacts
<1>5. MaxTurns' = MaxTurns /\ MaxTurns \in Nat
  BY <1>1, SettingFacts DEF MaxTurns
<1>6. ExecutedHold(s) /\ RequestsHold(s) /\ ScreenHolds(s) /\ RunHolds(s)
      /\ \A n \in DOMAIN turns[s] : TurnHolds(s, n)
  BY <1>1 DEF SessionHolds
<1>7. executed \subseteq Sessions \X Nat \X Nat \X Tools /\ cut \subseteq Sessions \X Nat
  BY <1>1 DEF TypeOK
<1> DEFINE open == {n \in DOMAIN turns[s] : turns[s][n].status = "ACTIVE"}
<1>8. ASSUME NEW m \in Nat, m # 0,
             run' = [run EXCEPT ![s] = [run[s] EXCEPT !.pc = "build", !.turn = m]]
      PROVE  /\ RunsOK' /\ run'[s].pc = "build" /\ run'[s].turn = m
             /\ \A u \in Sessions \ {s} : run'[u] = run[u]
  <2>1. PICK r : r = [run[s] EXCEPT !.pc = "build", !.turn = m]
    OBVIOUS
  <2>2. IsRun(r) /\ r.pc = "build" /\ r.turn = m
    BY <1>4, <1>8, <2>1 DEF IsRun
  <2>3. RunsOK /\ run' = [run EXCEPT ![s] = r]
    BY <1>1, <1>8, <2>1 DEF TypeOK
  <2> QED BY <2>2, <2>3, RunPut
<1>9. CASE Go(s, "end") /\ UNCHANGED <<turns, screen>>
  <2>1. <<run[s].pc, "end">> \in Ways
    BY <1>3 DEF Ways
  <2> QED BY <1>1, <1>2, <1>3, <1>9, <2>1, GoStep
<1>10. CASE /\ open # {} /\ UNCHANGED <<turns, screen>>
            /\ run' = [run EXCEPT ![s] = [@ EXCEPT !.pc = "build",
                         !.turn = CHOOSE n \in open : \A m \in open : n <= m]]
  <2>1. open = {Newest(s)} /\ Newest(s) # 0
    <3>1. \A n \in open : n = Newest(s)
      BY <1>4, <1>6 DEF TurnHolds
    <3> QED BY <1>4, <1>10, <3>1
  <2>2. (CHOOSE n \in open : \A m \in open : n <= m) = Newest(s)
    <3> HIDE DEF open
    <3> QED BY <1>4, <2>1
  <2>3. run' = [run EXCEPT ![s] = [run[s] EXCEPT !.pc = "build", !.turn = Newest(s)]]
    BY <1>10, <2>2
  <2>4. /\ RunsOK' /\ run'[s].pc = "build" /\ run'[s].turn = Newest(s)
        /\ \A u \in Sessions \ {s} : run'[u] = run[u]
    <3> HIDE DEF open
    <3> QED BY <1>4, <1>8, <2>1, <2>3
  <2>5. RunHolds(s)'
    <3>1. turns[s][Newest(s)].status = "ACTIVE" /\ Newest(s)' = Newest(s)
      BY <1>10, <2>1 DEF Newest
    <3>2. Turn(s)' = turns[s][Newest(s)]
      BY <1>10, <2>4 DEF Turn
    <3> QED BY <1>2, <1>3, <1>5, <1>6, <2>1, <2>4, <3>1, <3>2 DEF RunHolds
  <2>6. ExecutedHold(s)'
    BY <1>1, <1>6, <1>10 DEF ExecutedHold
  <2>7. \A n \in DOMAIN turns[s] : Settled(s, n)' => Settled(s, n)
    BY <1>1, <1>3, <1>4, <1>10 DEF Settled
  <2> HIDE DEF open
  <2> QED BY <1>1, <1>2, <1>7, <1>10, <2>4, <2>5, <2>6, <2>7, QuietStep
<1>11. CASE /\ open = {} /\ Len(turns[s]) < MaxTurns
            /\ run' = [run EXCEPT ![s] = [@ EXCEPT !.pc = "build", !.turn = Len(turns[s]) + 1]]
            /\ SaveTurn(s, Len(turns[s]) + 1, NewTurn)
  <2>1. PICK m \in Nat : m = Newest(s) + 1
    BY <1>4
  <2>2. /\ RunsOK' /\ run'[s].pc = "build" /\ run'[s].turn = m
        /\ \A u \in Sessions \ {s} : run'[u] = run[u]
    <3>1. run' = [run EXCEPT ![s] = [run[s] EXCEPT !.pc = "build", !.turn = m]] /\ m # 0
      BY <1>4, <1>11, <2>1 DEF Newest
    <3> HIDE DEF open
    <3> QED BY <1>8, <3>1
  <2>3. PICK x : x = NewTurn
    OBVIOUS
  <2>4. /\ IsTurn(x) /\ x.status = "ACTIVE" /\ ~x.asked /\ ~x.answered /\ x.calls = <<>>
        /\ x.digest = None
    <3>1. <<>> \in Seq(ToolCall) /\ "" \in Texts /\ "ACTIVE" \in TurnStatuses
      BY DEF Texts, TurnStatuses
    <3> QED BY <2>3, <3>1 DEF NewTurn, IsTurn
  <2>5. turns' = [turns EXCEPT ![s] = Append(turns[s], x)] /\ screen' = Shown(s, m, Ghost)
    <3>1. m \notin DOMAIN turns[s] /\ m = Len(turns[s]) + 1
      BY <1>4, <2>1 DEF Newest
    <3> HIDE DEF open
    <3> QED BY <1>11, <2>3, <2>4, <3>1 DEF SaveTurn
  <2>6. /\ TurnsOK' /\ Newest(s)' = m /\ turns'[s][m] = x /\ DOMAIN turns'[s] = 1..m
        /\ \A n \in DOMAIN turns[s] : turns'[s][n] = turns[s][n]
        /\ \A u \in Sessions : u # s => turns'[u] = turns[u]
    <3>1. TurnsOK
      BY <1>1 DEF TypeOK
    <3> QED BY <2>1, <2>4, <2>5, <3>1, TurnAppended
  <2>7. m \in 1..MaxTurns
    BY <1>4, <1>5, <1>11, <2>1 DEF Newest
  <2>8. /\ ScreenOK' /\ screen'[s].on = screen[s].on /\ screen'[s].gap = screen[s].gap
        /\ \A n \in 1..MaxTurns : n # m => screen'[s].seen[n] = screen[s].seen[n]
        /\ screen'[s].seen[m] = IF screen[s].on THEN Ghost ELSE screen[s].seen[m]
        /\ \A u \in Sessions : u # s => screen'[u] = screen[u]
        /\ ~screen[s].on => screen' = screen
    <3>1. ScreenOK
      BY <1>1 DEF TypeOK
    <3>2. PICK v : v = Ghost
      OBVIOUS
    <3>3. v \in {Ghost} \cup Digests /\ screen' = Shown(s, m, v)
      BY <2>5, <3>2
    <3> QED BY <2>7, <3>1, <3>2, <3>3, ShownFacts
  <2>9. \A n \in DOMAIN turns'[s] : n = m \/ n \in DOMAIN turns[s]
    BY <1>4, <2>1, <2>6
  <2>10. RunHolds(s)'
    <3>1. Turn(s)' = x
      BY <2>2, <2>6 DEF Turn
    <3> QED BY <1>2, <1>3, <1>5, <2>1, <2>2, <2>4, <2>6, <2>7, <3>1 DEF RunHolds
  <2>11. \A n \in DOMAIN turns'[s] : TurnHolds(s, n)'
    <3> TAKE n \in DOMAIN turns'[s]
    <3>1. CASE n = m
      BY <2>4, <2>6, <3>1 DEF TurnHolds
    <3>2. CASE n \in DOMAIN turns[s]
      <4>1. turns[s][n].status # "ACTIVE"
        BY <1>11, <3>2
      <4> QED BY <1>6, <2>6, <3>2, <4>1 DEF TurnHolds
    <3> QED BY <2>9, <3>1, <3>2
  <2>12. ExecutedHold(s)'
    BY SMTT(30), <1>1, <1>4, <1>6, <2>1, <2>6 DEF ExecutedHold
  <2>13. RequestsHold(s)'
    <3>1. \A n \in DOMAIN turns'[s] : turns'[s][n].asked => PromptHolds(s, n, turns'[s][n].request)
      BY <1>6, <2>4, <2>6, <2>9 DEF RequestsHold
    <3>2. TurnsOK' /\ Newest(s) <= Newest(s)' /\ Newest(s)' <= Newest(s) + 1
      BY <1>4, <2>1, <2>6
    <3>3. \A n \in DOMAIN turns[s] : n < Newest(s)' => turns'[s][n].calls = turns[s][n].calls
      BY <2>6
    <3> QED BY <1>1, <1>6, <2>2, <3>1, <3>2, <3>3, RequestsKept
  <2>14. ScreenHolds(s)'
    <3>1. Begun(s, m)
      BY <2>1, <2>4, <2>6, <2>8 DEF Begun
    <3>2. ASSUME NEW n \in DOMAIN turns[s] PROVE LeftAlone(s, n, {})
      <4>1. n # m /\ n \in 1..MaxTurns /\ n # 0
        BY <1>4, <1>5, <2>1, <2>7
      <4> QED BY <1>1, <1>3, <2>6, <2>8, <4>1 DEF LeftAlone, Settled
    <3>3. \A n \in DOMAIN turns'[s] : LeftAlone(s, n, {}) \/ Told(s, n) \/ Begun(s, n)
      BY <2>9, <3>1, <3>2
    <3>4. /\ TurnsOK' /\ Newest(s) <= Newest(s)' /\ Newest(s)' <= MaxTurns /\ Newest(s) <= MaxTurns
          /\ screen'[s].on = screen[s].on /\ screen'[s].gap = screen[s].gap
          /\ ~screen[s].on => screen'[s] = screen[s]
      BY <1>4, <1>5, <2>1, <2>6, <2>7, <2>8
    <3>5. \A n \in 1..MaxTurns : n \notin DOMAIN turns'[s] => screen'[s].seen[n] = screen[s].seen[n]
      BY <2>1, <2>6, <2>8
    <3> QED BY <1>1, <1>2, <1>5, <1>6, <3>3, <3>4, <3>5, ScreenMoves
  <2>15. SessionHolds(s)'
    BY <2>10, <2>11, <2>12, <2>13, <2>14 DEF SessionHolds
  <2>16. Apart(s)
    BY <1>1, <1>2, <2>2, <2>6, <2>8 DEF Apart
  <2>17. KindsOK'
    BY <1>1, <1>2, <1>7, <2>2, <2>6, <2>8 DEF KindsOK
  <2> QED BY <1>2, <2>15, <2>16, <2>17, StepKeeps
<1>12. Newest(s) = Len(turns[s])
  BY DEF Newest
<1> QED BY <1>4, <1>5, <1>9, <1>10, <1>11, <1>12 DEF FindTurn

(* What a run that works on a turn relies on.                              *)
LEMMA WorkFacts ==
  ASSUME Inv, NEW s \in Sessions, run[s].pc \in {"build", "ask", "think", "tools"}
  PROVE  /\ TypeOK /\ run[s].turn = Newest(s) /\ Newest(s) # 0
         /\ run[s].turn \in DOMAIN turns[s] /\ turns[s][run[s].turn] = Turn(s)
         /\ IsTurn(Turn(s)) /\ TurnHolds(s, run[s].turn) /\ op[s].pc = "idle" /\ IsRun(run[s])
         /\ run[s].pc # "tools" => Turn(s).status = "ACTIVE"
         /\ run[s].pc = "tools" => Turn(s).status = "COMPLETED" /\ Turn(s).answered
         /\ run[s].pc = "think" => Turn(s).asked
         /\ run[s].pc = "ask" => PromptHolds(s, run[s].turn, run[s].prompt)
         /\ Turn(s).asked => PromptHolds(s, run[s].turn, Turn(s).request)
<1>1. TypeOK /\ RunHolds(s) /\ RequestsHold(s) /\ \A n \in DOMAIN turns[s] : TurnHolds(s, n)
  BY DEF Inv, SessionHolds
<1>2. run[s].turn = Newest(s) /\ Newest(s) # 0
  BY <1>1 DEF RunHolds
<1>3. /\ run[s].turn \in DOMAIN turns[s] /\ turns[s][run[s].turn] = Turn(s)
      /\ IsTurn(Turn(s)) /\ IsRun(run[s])
  BY <1>1, <1>2, NewestFacts DEF Turn
<1>4. op[s].pc = "idle"
  BY NoCall
<1>5. TurnHolds(s, run[s].turn) /\ (Turn(s).asked => PromptHolds(s, run[s].turn, Turn(s).request))
  BY <1>1, <1>3 DEF RequestsHold
<1>6. run[s].pc = "ask" => PromptHolds(s, run[s].turn, run[s].prompt)
  BY <1>1 DEF RequestsHold
<1>7. /\ run[s].pc # "tools" => Turn(s).status = "ACTIVE"
      /\ run[s].pc = "tools" => Turn(s).status = "COMPLETED" /\ Turn(s).answered
      /\ run[s].pc = "think" => Turn(s).asked
  BY <1>1 DEF RunHolds
<1> QED BY <1>1, <1>2, <1>3, <1>4, <1>5, <1>6, <1>7

LEMMA BuildPromptKeeps ==
  ASSUME Inv, setting' = setting, NEW s \in Sessions, BuildPrompt(s)
  PROVE  Inv'
<1>1. /\ TypeOK /\ SessionHolds(s) /\ said' \in Nat /\ faults' \in Nat /\ run[s].pc = "build"
      /\ UNCHANGED <<turns, screen, executed, cut, memory>>
  BY DEF Inv, TypeOK, BuildPrompt, trouble, At
<1>2. MemoryHolds' /\ Linking({}) /\ op' = op
  BY <1>1, MemoryUntouched
<1>3. /\ run[s].turn = Newest(s) /\ Newest(s) # 0 /\ Turn(s).status = "ACTIVE"
      /\ op[s].pc = "idle" /\ IsRun(run[s]) /\ run[s].turn \in DOMAIN turns[s]
  BY <1>1, WorkFacts
<1>4. PICK n : n = run[s].turn
  OBVIOUS
<1>5. PICK o : o = IF "Focus" \in Addons THEN ApplyEfficiencyBonus(s, n, mem[s]) ELSE mem[s]
  OBVIOUS
<1>6. o \in [focus : Int, xp : Nat, queue : Seq(Nat)]
  <2>1. mem[s] \in [focus : Int, xp : Nat, queue : Seq(Nat)]
    BY <1>1 DEF TypeOK, RowsOK
  <2>2. PICK f : f = Least(MaxFocus(mem[s]), mem[s].focus + 1)
    OBVIOUS
  <2>3. f \in Int
    BY <2>1, <2>2 DEF Least, MaxFocus, Level
  <2>4. PICK bonus : bonus = [mem[s] EXCEPT !.focus = f, !.xp = mem[s].xp + 5]
    OBVIOUS
  <2>5. bonus \in [focus : Int, xp : Nat, queue : Seq(Nat)]
    <3>1. mem[s].xp + 5 \in Nat
      BY <2>1
    <3> QED BY <2>1, <2>3, <2>4, <3>1
  <2>6. o \in {mem[s], bonus}
    BY <1>5, <2>2, <2>4 DEF ApplyEfficiencyBonus
  <2> QED BY <2>1, <2>5, <2>6
<1>7. /\ run' = [run EXCEPT ![s] = [@ EXCEPT !.pc = "ask", !.prompt = Payload(s, n, o)]]
      /\ mem' = [mem EXCEPT ![s] = [o EXCEPT !.queue = <<>>]]
      /\ row' = IF o.queue = <<>> THEN row ELSE [row EXCEPT ![s].queue = <<>>]
  BY <1>4, <1>5 DEF BuildPrompt
<1>8. RowsOK'
  <2>1. /\ row \in [Sessions -> [status : {"ACTIVE", "COMPLETED", "ATTENTION_REQUIRED",
                                           "MAXED_OUT", "ERROR"},
                                 focus : Int, xp : Nat, queue : Seq(Nat)]]
        /\ mem \in [Sessions -> [focus : Int, xp : Nat, queue : Seq(Nat)]]
    BY <1>1 DEF TypeOK, RowsOK
  <2>2. <<>> \in Seq(Nat)
    OBVIOUS
  <2>3. mem' \in [Sessions -> [focus : Int, xp : Nat, queue : Seq(Nat)]]
    BY <1>6, <1>7, <2>1, <2>2
  <2>4. PICK r : r = [row[s] EXCEPT !.queue = <<>>]
    OBVIOUS
  <2>5. r \in [status : {"ACTIVE", "COMPLETED", "ATTENTION_REQUIRED", "MAXED_OUT", "ERROR"},
               focus : Int, xp : Nat, queue : Seq(Nat)]
    BY <2>1, <2>2, <2>4
  <2>6. row' \in {row, [row EXCEPT ![s] = r]}
    BY <1>7, <2>4
  <2> QED BY <2>1, <2>3, <2>5, <2>6 DEF RowsOK
<1>9. PICK q : q = Payload(s, n, o)
  OBVIOUS
<1>10. PromptHolds(s, n, q)
  <2>1. Recalls(s)
    <3>1. RequestsHold(s) /\ \A m \in DOMAIN turns[s] : TurnHolds(s, m)
      BY <1>1 DEF SessionHolds
    <3> QED BY <1>3, <3>1 DEF Recalls, RequestsHold, PromptHolds
  <2>2. o.queue \in Seq(Nat)
    BY <1>6
  <2>3. PromptHolds(s, Newest(s), Payload(s, Newest(s), o))
    BY <1>1, <2>1, <2>2, PayloadHolds
  <2>4. n = Newest(s)
    BY <1>3, <1>4
  <2> QED BY <1>9, <2>3, <2>4
<1>11. /\ RunsOK' /\ run'[s].pc = "ask" /\ run'[s].turn = n /\ run'[s].prompt = q
       /\ \A u \in Sessions \ {s} : run'[u] = run[u]
  <2>1. PICK r : r = [run[s] EXCEPT !.pc = "ask", !.prompt = q]
    OBVIOUS
  <2>2. IsRun(r) /\ r.pc = "ask" /\ r.turn = n /\ r.prompt = q
    BY <1>3, <1>4, <2>1 DEF IsRun
  <2>3. RunsOK /\ run' = [run EXCEPT ![s] = r]
    BY <1>1, <1>7, <1>9, <2>1 DEF TypeOK
  <2> QED BY <2>2, <2>3, RunPut
<1>12. RunHolds(s)'
  <2>1. Turn(s)' = Turn(s) /\ Newest(s)' = Newest(s) /\ MaxTurns' = MaxTurns
    BY <1>1, <1>4, <1>11 DEF Turn, Newest, MaxTurns
  <2>2. Newest(s) <= MaxTurns
    BY <1>1 DEF SessionHolds, RunHolds
  <2> QED BY <1>2, <1>3, <1>4, <1>11, <2>1, <2>2 DEF RunHolds
<1>13. ExecutedHold(s)' /\ cut \subseteq Sessions \X Nat /\ executed \subseteq Sessions \X Nat \X Nat \X Tools
  BY <1>1 DEF TypeOK, SessionHolds, ExecutedHold
<1>14. \A m \in DOMAIN turns[s] : Settled(s, m)' => Settled(s, m)
  BY <1>1, <1>4, <1>11 DEF Settled
<1>15. PromptHolds(s, run'[s].turn, run'[s].prompt)
  BY <1>10, <1>11
<1> QED BY <1>1, <1>2, <1>8, <1>11, <1>12, <1>13, <1>14, <1>15, QuietStep

LEMMA AskKeeps ==
  ASSUME Inv, setting' = setting, NEW s \in Sessions, Ask(s)
  PROVE  Inv'
<1>1. /\ run[s].pc = "ask" /\ UNCHANGED <<row, mem, executed, cut, memory>>
      /\ said' = said /\ faults' = faults
  BY DEF Ask, trouble, At
<1>2. /\ TypeOK /\ run[s].turn = Newest(s) /\ Newest(s) # 0 /\ turns[s][run[s].turn] = Turn(s)
      /\ IsTurn(Turn(s)) /\ TurnHolds(s, run[s].turn) /\ op[s].pc = "idle" /\ IsRun(run[s])
      /\ Turn(s).status = "ACTIVE" /\ PromptHolds(s, run[s].turn, run[s].prompt)
  BY <1>1, WorkFacts
<1>3. PICK n, q : n = run[s].turn /\ q = run[s].prompt
  OBVIOUS
<1>4. PICK t : t = [Turn(s) EXCEPT !.asked = TRUE, !.answered = FALSE, !.text = "", !.request = q]
  OBVIOUS
<1>5. /\ IsTurn(t) /\ t.asked /\ ~t.answered /\ t.request = q /\ t.status = "ACTIVE"
      /\ t.calls = Turn(s).calls
  BY <1>2, <1>4 DEF IsTurn, Texts
<1>6. t.calls = <<>>
  BY <1>2, <1>5 DEF TurnHolds
<1>7. SaveTurn(s, n, t)
  BY <1>3, <1>4 DEF Ask
<1>8. /\ RunsOK' /\ run'[s].pc = "think" /\ run'[s].turn = n
      /\ \A u \in Sessions \ {s} : run'[u] = run[u]
  <2>1. PICK r : r = [run[s] EXCEPT !.pc = "think", !.prompt = <<>>]
    OBVIOUS
  <2>2. IsRun(r) /\ r.pc = "think" /\ r.turn = n
    BY <1>2, <1>3, <2>1 DEF IsRun
  <2>3. RunsOK /\ run' = [run EXCEPT ![s] = r]
    BY <1>2, <2>1 DEF TypeOK, Ask
  <2> QED BY <2>2, <2>3, RunPut
<1>9. RowsOK' /\ said' \in Nat /\ faults' \in Nat
  BY <1>1, <1>2, RowsStay DEF TypeOK
<1>10. PromptHolds(s, n, t.request)
  BY <1>2, <1>3, <1>5
<1>11. n = Newest(s) /\ n # 0 /\ t.calls = turns[s][n].calls
  BY <1>2, <1>3, <1>5
<1> QED BY <1>1, <1>2, <1>3, <1>5, <1>6, <1>7, <1>8, <1>9, <1>10, <1>11, SavedStep

LEMMA ThinkKeeps ==
  ASSUME Inv, setting' = setting, NEW s \in Sessions, Think(s)
  PROVE  Inv'
<1>1. /\ run[s].pc = "think" /\ UNCHANGED <<row, mem, executed, cut, memory>>
      /\ said' = said /\ faults' = faults
  BY DEF Think, trouble, At
<1>2. /\ TypeOK /\ run[s].turn = Newest(s) /\ Newest(s) # 0 /\ turns[s][run[s].turn] = Turn(s)
      /\ IsTurn(Turn(s)) /\ op[s].pc = "idle" /\ IsRun(run[s]) /\ Turn(s).asked
      /\ PromptHolds(s, run[s].turn, Turn(s).request)
  BY <1>1, WorkFacts
<1>3. PICK n : n = run[s].turn
  OBVIOUS
<1>4. PICK r \in Replies :
        /\ SaveTurn(s, n, [Turn(s) EXCEPT !.answered = TRUE, !.text = r.text,
                                          !.status = "COMPLETED"])
        /\ run' = [run EXCEPT ![s] = [@ EXCEPT !.pc = IF r.calls = <<>> THEN "sleep" ELSE "tools",
                                               !.todo = r.calls]]
  BY <1>3 DEF Think
<1>5. PICK t : t = [Turn(s) EXCEPT !.answered = TRUE, !.text = r.text, !.status = "COMPLETED"]
  OBVIOUS
<1>6. r.text \in Texts
  BY <1>2, SettingFacts
<1>7. /\ IsTurn(t) /\ t.asked /\ t.answered /\ t.request = Turn(s).request
      /\ t.status = "COMPLETED" /\ t.calls = Turn(s).calls
  BY <1>2, <1>5, <1>6 DEF IsTurn, TurnStatuses
<1>8. SaveTurn(s, n, t)
  BY <1>4, <1>5
<1>9. /\ RunsOK' /\ run'[s].pc \in {"sleep", "tools"} /\ run'[s].turn = n
      /\ \A u \in Sessions \ {s} : run'[u] = run[u]
  <2>1. PICK pc \in {"sleep", "tools"} : pc = IF r.calls = <<>> THEN "sleep" ELSE "tools"
    OBVIOUS
  <2>2. PICK x : x = [run[s] EXCEPT !.pc = pc, !.todo = r.calls]
    OBVIOUS
  <2>3. IsRun(x) /\ x.pc = pc /\ x.turn = n
    BY <1>2, <1>3, <2>2 DEF IsRun
  <2>4. RunsOK /\ run' = [run EXCEPT ![s] = x]
    BY <1>2, <1>4, <2>1, <2>2 DEF TypeOK
  <2> QED BY <2>3, <2>4, RunPut
<1>10. RowsOK' /\ said' \in Nat /\ faults' \in Nat
  BY <1>1, <1>2, RowsStay DEF TypeOK
<1>11. PromptHolds(s, n, t.request)
  BY <1>2, <1>3, <1>7
<1>12. n = Newest(s) /\ n # 0 /\ t.calls = turns[s][n].calls /\ turns[s][n].asked
  BY <1>2, <1>3, <1>7
<1> QED BY <1>1, <1>2, <1>3, <1>7, <1>8, <1>9, <1>10, <1>11, <1>12, SavedStep

(* The turn ends without an answer.                                        *)
LEMMA TurnGivenUp ==
  ASSUME Inv, setting' = setting, NEW s \in Sessions, run[s].pc = "think",
         UNCHANGED <<memory, executed, cut>>, RowsOK', said' = said, faults' \in Nat,
         NEW status \in {"COMPLETED", "ERROR"},
         SaveTurn(s, run[s].turn, [Turn(s) EXCEPT !.status = status]),
         NEW pc \in {"sleep", "end"}, Go(s, pc)
  PROVE  Inv'
<1>1. /\ TypeOK /\ run[s].turn = Newest(s) /\ Newest(s) # 0 /\ turns[s][run[s].turn] = Turn(s)
      /\ IsTurn(Turn(s)) /\ op[s].pc = "idle" /\ Turn(s).asked /\ TurnHolds(s, run[s].turn)
      /\ PromptHolds(s, run[s].turn, Turn(s).request)
  BY WorkFacts
<1>2. PICK n : n = run[s].turn
  OBVIOUS
<1>3. PICK t : t = [Turn(s) EXCEPT !.status = status]
  OBVIOUS
<1>4. /\ IsTurn(t) /\ t.asked /\ t.answered = Turn(s).answered /\ t.request = Turn(s).request
      /\ t.status = status /\ t.calls = Turn(s).calls
  BY <1>1, <1>3 DEF IsTurn, TurnStatuses
<1>5. ~t.answered => t.calls = <<>>
  BY <1>1, <1>4 DEF TurnHolds
<1>6. SaveTurn(s, n, t)
  BY <1>2, <1>3
<1>7. /\ RunsOK' /\ run'[s].pc = pc /\ run'[s].turn = n
      /\ \A u \in Sessions \ {s} : run'[u] = run[u]
  BY <1>1, <1>2, Goes DEF TypeOK
<1>8. PromptHolds(s, n, t.request) /\ said' \in Nat
  BY <1>1, <1>2, <1>4 DEF TypeOK
<1>9. n = Newest(s) /\ n # 0 /\ t.calls = turns[s][n].calls /\ turns[s][n].asked /\ t.status # "ACTIVE"
  BY <1>1, <1>2, <1>4
<1> QED BY <1>1, <1>2, <1>4, <1>5, <1>6, <1>7, <1>8, <1>9, SavedStep

LEMMA NoAnswerKeeps ==
  ASSUME Inv, setting' = setting, NEW s \in Sessions, NoAnswer(s), faults' \in Nat
  PROVE  Inv'
<1>1. /\ TypeOK /\ run[s].pc = "think" /\ Go(s, "sleep") /\ UNCHANGED <<memory, executed, cut, row, mem>>
      /\ said' = said /\ SaveTurn(s, run[s].turn, [Turn(s) EXCEPT !.status = "COMPLETED"])
  BY DEF NoAnswer, At, Inv
<1>2. RowsOK'
  BY <1>1, RowsStay
<1> QED BY <1>1, <1>2, TurnGivenUp

LEMMA ParalysisKeeps ==
  ASSUME Inv, setting' = setting, NEW s \in Sessions, Paralysis(s), faults' \in Nat
  PROVE  Inv'
<1>1. /\ TypeOK /\ run[s].pc = "think" /\ Go(s, "end") /\ UNCHANGED <<memory, executed, cut, mem>>
      /\ row' = [row EXCEPT ![s].status = "MAXED_OUT"]
      /\ said' = said /\ SaveTurn(s, run[s].turn, [Turn(s) EXCEPT !.status = "ERROR"])
  BY DEF Paralysis, At, Inv
<1>2. RowsOK'
  BY <1>1, RowStatus
<1> QED BY <1>1, <1>2, TurnGivenUp

(* A run that has no turn.                                                 *)
LEMMA RunIdle ==
  ASSUME RunsOK, NEW s \in Sessions, NEW pc \in {"idle", "find", "end"},
         run' = [run EXCEPT ![s] = [Idle EXCEPT !.pc = pc]]
  PROVE  /\ RunsOK' /\ run'[s].pc = pc /\ run'[s].turn = 0
         /\ \A u \in Sessions \ {s} : run'[u] = run[u]
<1>1. PICK r : r = [Idle EXCEPT !.pc = pc]
  OBVIOUS
<1>2. IsRun(r) /\ r.pc = pc /\ r.turn = 0
  BY <1>1 DEF Idle, IsRun
<1> QED BY <1>1, <1>2, RunPut

LEMMA RunOver ==
  ASSUME RunsOK, NEW s \in Sessions, run' = [run EXCEPT ![s] = Idle]
  PROVE  /\ RunsOK' /\ run'[s].pc = "idle" /\ run'[s].turn = 0
         /\ \A u \in Sessions \ {s} : run'[u] = run[u]
<1>1. IsRun(Idle) /\ Idle.pc = "idle" /\ Idle.turn = 0
  BY DEF Idle, IsRun
<1> QED BY <1>1, RunPut

LEMMA EndToolsKeeps ==
  ASSUME Inv, setting' = setting, NEW s \in Sessions, EndTools(s)
  PROVE  Inv'
<1>1. /\ run[s].pc = "tools" /\ UNCHANGED <<row, mem, executed, cut, memory>>
      /\ said' = said /\ faults' = faults
  BY DEF EndTools, trouble, At
<1>2. /\ TypeOK /\ run[s].turn = Newest(s) /\ Newest(s) # 0 /\ turns[s][run[s].turn] = Turn(s)
      /\ IsTurn(Turn(s)) /\ op[s].pc = "idle" /\ TurnHolds(s, run[s].turn)
      /\ Turn(s).status = "COMPLETED" /\ Turn(s).answered
      /\ (Turn(s).asked => PromptHolds(s, run[s].turn, Turn(s).request))
  BY <1>1, WorkFacts
<1>3. PICK n, t : n = run[s].turn /\ t = Turn(s)
  OBVIOUS
<1>4. Turn(s).asked
  BY <1>2 DEF TurnHolds
<1>5. SaveTurn(s, n, t)
  BY <1>3 DEF EndTools
<1>6. /\ RunsOK' /\ run'[s].pc \in {"find", "end"} /\ run'[s].turn = 0
      /\ \A u \in Sessions \ {s} : run'[u] = run[u]
  <2>1. PICK pc \in {"find", "end"} : pc = IF row[s].status = "ACTIVE" THEN "find" ELSE "end"
    OBVIOUS
  <2>2. RunsOK /\ run' = [run EXCEPT ![s] = [Idle EXCEPT !.pc = pc]]
    BY <1>2, <2>1 DEF TypeOK, EndTools
  <2> QED BY <2>2, RunIdle
<1>7. RowsOK' /\ said' \in Nat /\ faults' \in Nat
  BY <1>1, <1>2, RowsStay DEF TypeOK
<1>8. PromptHolds(s, n, t.request) /\ IsTurn(t) /\ t.asked /\ t.answered /\ t.status = "COMPLETED"
  BY <1>2, <1>3, <1>4
<1>9. n = Newest(s) /\ n # 0 /\ t.calls = turns[s][n].calls /\ turns[s][n].asked
  BY <1>2, <1>3, <1>4
<1> QED BY <1>1, <1>2, <1>3, <1>5, <1>6, <1>7, <1>8, <1>9, SavedStep

LEMMA EndRunKeeps ==
  ASSUME Inv, setting' = setting, NEW s \in Sessions, EndRun(s)
  PROVE  Inv'
<1>1. /\ TypeOK /\ SessionHolds(s) /\ said' \in Nat /\ faults' \in Nat /\ run[s].pc = "end"
      /\ UNCHANGED <<mem, turns, screen, executed, cut, memory>>
  BY DEF Inv, TypeOK, EndRun, trouble, At
<1>2. MemoryHolds' /\ Linking({}) /\ op' = op /\ op[s].pc = "idle"
  BY <1>1, MemoryUntouched, NoCall
<1>3. RowsOK'
  <2>1. row[s].status \in {"ACTIVE", "COMPLETED", "ATTENTION_REQUIRED", "MAXED_OUT", "ERROR"}
    BY <1>1 DEF TypeOK, RowsOK
  <2>2. PICK status \in {"ACTIVE", "COMPLETED", "ATTENTION_REQUIRED", "MAXED_OUT", "ERROR"} :
          status = IF row[s].status = "ACTIVE" THEN "COMPLETED" ELSE row[s].status
    BY <2>1
  <2>3. row' = [row EXCEPT ![s].status = status]
    BY <1>1, <2>2 DEF EndRun, TypeOK, RowsOK
  <2> QED BY <1>1, <2>3, RowStatus
<1>4. /\ RunsOK' /\ run'[s].pc = "idle" /\ run'[s].turn = 0
      /\ \A u \in Sessions \ {s} : run'[u] = run[u]
  <2>1. RunsOK /\ run' = [run EXCEPT ![s] = Idle]
    BY <1>1 DEF TypeOK, EndRun
  <2> QED BY <2>1, RunOver
<1>5. RunHolds(s)'
  <2>1. Newest(s)' = Newest(s) /\ MaxTurns' = MaxTurns /\ Newest(s) <= MaxTurns
    BY <1>1 DEF Newest, MaxTurns, SessionHolds, RunHolds
  <2> QED BY <1>2, <1>4, <2>1 DEF RunHolds
<1>6. ExecutedHold(s)' /\ cut \subseteq Sessions \X Nat /\ executed \subseteq Sessions \X Nat \X Nat \X Tools
  BY <1>1 DEF TypeOK, SessionHolds, ExecutedHold
<1>7. \A m \in DOMAIN turns[s] : Settled(s, m)' => Settled(s, m)
  BY <1>1 DEF Settled
<1> QED BY <1>1, <1>2, <1>3, <1>4, <1>5, <1>6, <1>7, QuietStep

(* A run dies: its turn is cut, and its call is never answered.            *)
LEMMA DiesKeeps ==
  ASSUME Inv, setting' = setting, NEW s \in Sessions, Dies(s), RowsOK', faults' \in Nat
  PROVE  Inv'
<1>1. /\ TypeOK /\ SessionHolds(s) /\ MemoryHolds /\ said' \in Nat /\ run[s].pc # "idle"
      /\ UNCHANGED <<mem, turns, screen, executed, engram, told, raced>>
      /\ run' = [run EXCEPT ![s] = Idle] /\ op' = [op EXCEPT ![s] = NoOp]
      /\ cut' = IF run[s].turn = 0 THEN cut ELSE cut \cup {<<s, run[s].turn>>}
  BY DEF Inv, TypeOK, Dies
<1>2. MemoryHolds' /\ Linking({})
  <2>1. shared' = IF op[s].pc = "vector" THEN shared \cup {op[s].id} ELSE shared
    BY DEF Dies
  <2>2. shared \subseteq Engrams /\ (op[s].pc = "vector" => op[s].id \in Engrams)
    BY <1>1 DEF MemoryHolds, MemoryTypeOK, CallHolds
  <2> QED BY <1>1, <2>1, <2>2, OpEndKeeps
<1>3. op'[s].pc = "idle" /\ \A u \in Sessions \ {s} : op'[u] = op[u]
  BY <1>1, Blanks DEF MemoryHolds, MemoryTypeOK
<1>4. /\ RunsOK' /\ run'[s].pc = "idle" /\ run'[s].turn = 0
      /\ \A u \in Sessions \ {s} : run'[u] = run[u]
  BY <1>1, RunOver DEF TypeOK
<1>5. RunHolds(s)'
  <2>1. Newest(s)' = Newest(s) /\ MaxTurns' = MaxTurns /\ Newest(s) <= MaxTurns
    BY <1>1 DEF Newest, MaxTurns, SessionHolds, RunHolds
  <2> QED BY <1>3, <1>4, <2>1 DEF RunHolds
<1>6. ExecutedHold(s)' /\ executed \subseteq Sessions \X Nat \X Nat \X Tools
  BY <1>1 DEF TypeOK, SessionHolds, ExecutedHold
<1>7. cut' \subseteq Sessions \X Nat /\ cut \subseteq cut'
  <2>1. run[s].turn \in Nat /\ cut \subseteq Sessions \X Nat
    BY <1>1, NewestFacts DEF TypeOK, IsRun
  <2> QED BY <1>1, <2>1
<1>8. \A m \in DOMAIN turns[s] : Settled(s, m)' => Settled(s, m)
  <2>1. ASSUME NEW m \in DOMAIN turns[s], <<s, m>> \notin cut'
        PROVE  <<s, m>> \notin cut /\ m # run[s].turn
    <3>1. m # 0
      BY <1>1, NewestFacts
    <3> QED BY <1>1, <2>1, <3>1
  <2> QED BY <1>1, <2>1 DEF Settled
<1> QED BY <1>1, <1>2, <1>3, <1>4, <1>5, <1>6, <1>7, <1>8, QuietStep

LEMMA CrashKeeps ==
  ASSUME Inv, setting' = setting, NEW s \in Sessions, Crash(s), faults' \in Nat
  PROVE  Inv'
<1>1. Dies(s) /\ UNCHANGED <<row, mem>> /\ TypeOK
  BY DEF Crash, Dies, Inv
<1>2. RowsOK'
  BY <1>1, RowsStay
<1> QED BY <1>1, <1>2, DiesKeeps

LEMMA FailKeeps ==
  ASSUME Inv, setting' = setting, NEW s \in Sessions, Fail(s), faults' \in Nat
  PROVE  Inv'
<1>1. Dies(s) /\ mem' = mem /\ TypeOK
  BY DEF Fail, Dies, Inv
<1>2. RowsOK'
  <2>1. PICK r : r = [status |-> "ERROR", focus |-> mem[s].focus, xp |-> mem[s].xp,
                      queue |-> mem[s].queue]
    OBVIOUS
  <2>2. r \in [status : {"ACTIVE", "COMPLETED", "ATTENTION_REQUIRED", "MAXED_OUT", "ERROR"},
               focus : Int, xp : Nat, queue : Seq(Nat)]
    BY <1>1, <2>1 DEF TypeOK, RowsOK
  <2>3. row' = [row EXCEPT ![s] = r]
    BY <2>1 DEF Fail
  <2> QED BY <1>1, <2>2, <2>3, RowPut
<1> QED BY <1>1, <1>2, DiesKeeps

LEMMA BeginCallKeeps ==
  ASSUME Inv, setting' = setting, NEW s \in Sessions, BeginCall(s)
  PROVE  Inv'
<1>1. /\ SessionHolds(s) /\ run[s].pc = "tools" /\ UNCHANGED <<row, mem, screen, executed, cut, memory>>
      /\ said' = said /\ faults' = faults
  BY DEF BeginCall, trouble, At, Inv
<1>2. /\ TypeOK /\ run[s].turn = Newest(s) /\ Newest(s) # 0 /\ turns[s][run[s].turn] = Turn(s)
      /\ IsTurn(Turn(s)) /\ op[s].pc = "idle" /\ IsRun(run[s])
      /\ Turn(s).status = "COMPLETED" /\ Turn(s).answered
  BY <1>1, WorkFacts
<1>3. MemoryHolds' /\ Linking({}) /\ op' = op /\ RowsOK' /\ said' \in Nat /\ faults' \in Nat
  BY <1>1, <1>2, MemoryUntouched, RowsStay DEF TypeOK
<1>4. PICK n, calls : n = run[s].turn /\ calls = turns[s][n].calls
  OBVIOUS
<1>5. calls \in Seq(ToolCall)
  BY <1>2, <1>4 DEF IsTurn
<1>6. PICK i : i = NextCall(run[s].todo)
  OBVIOUS
<1>7. PICK tool : tool = run[s].todo[i]
  OBVIOUS
<1>8. PICK goes \in BOOLEAN : goes = (tool \in Tools /\ ~Vetoed(s, tool))
  OBVIOUS
<1>9. /\ turns' = IF tool \notin Tools THEN turns
                  ELSE [turns EXCEPT ![s][n].calls =
                          Append(@, NewCall(tool, IF goes THEN "ACTIVE" ELSE "ERROR"))]
      /\ run' = [run EXCEPT ![s] = [@ EXCEPT
           !.todo = RemoveAt(run[s].todo, i), !.pc = IF goes THEN "exec" ELSE "tools",
           !.call = Len(calls) + 1, !.tool = tool]]
  BY <1>4, <1>6, <1>7, <1>8 DEF BeginCall
<1>10. /\ RunsOK' /\ run'[s].pc = (IF goes THEN "exec" ELSE "tools") /\ run'[s].turn = n
       /\ run'[s].call = Len(calls) + 1 /\ run'[s].tool = tool
       /\ \A u \in Sessions \ {s} : run'[u] = run[u]
  <2>1. PICK pc \in {"exec", "tools"} : pc = IF goes THEN "exec" ELSE "tools"
    OBVIOUS
  <2>2. PICK todo : todo = RemoveAt(run[s].todo, i)
    OBVIOUS
  <2>3. PICK r : r = [run[s] EXCEPT !.todo = todo, !.pc = pc, !.call = Len(calls) + 1, !.tool = tool]
    OBVIOUS
  <2>4. Len(calls) + 1 \in Nat
    BY <1>5
  <2>5. IsRun(r) /\ r.pc = pc /\ r.turn = n /\ r.call = Len(calls) + 1 /\ r.tool = tool
    BY <1>2, <1>4, <2>3, <2>4 DEF IsRun
  <2>6. RunsOK /\ run' = [run EXCEPT ![s] = r]
    BY <1>2, <1>9, <2>1, <2>2, <2>3 DEF TypeOK
  <2> QED BY <2>1, <2>5, <2>6, RunPut
<1>11. CASE tool \in Tools
  <2>1. PICK call : call = NewCall(tool, IF goes THEN "ACTIVE" ELSE "ERROR")
    OBVIOUS
  <2>2. call \in ToolCall /\ call.tool = tool
    BY <1>11, <2>1 DEF NewCall, ToolCall, TurnStatuses
  <2>3. PICK q : q = Append(calls, call)
    OBVIOUS
  <2>4. /\ q \in Seq(ToolCall) /\ Len(calls) + 1 \in DOMAIN q /\ q[Len(calls) + 1].tool = tool
        /\ \A k \in DOMAIN calls : k \in DOMAIN q /\ q[k].tool = calls[k].tool
    BY <1>5, <2>2, <2>3
  <2>5. turns' = [turns EXCEPT ![s] = [turns[s] EXCEPT ![n] = [turns[s][n] EXCEPT !.calls = q]]]
    BY <1>4, <1>9, <1>11, <2>1, <2>3
  <2>6. /\ \A k \in DOMAIN turns[s][n].calls : k \in DOMAIN q /\ q[k].tool = turns[s][n].calls[k].tool
        /\ run'[s].call \in DOMAIN q /\ q[run'[s].call].tool = run'[s].tool
        /\ run'[s].pc \in {"tools", "exec"} /\ op'[s].pc = "idle"
    BY <1>2, <1>3, <1>4, <1>10, <2>4
  <2>7. /\ n = run[s].turn /\ run'[s].turn = n /\ q \in Seq(ToolCall)
        /\ run[s].pc \in {"tools", "exec", "record", "memory", "post"}
        /\ run'[s].pc \in {"tools", "exec", "record", "post"}
        /\ \A u \in Sessions \ {s} : run'[u] = run[u] /\ op'[u] = op[u]
    BY <1>1, <1>3, <1>4, <1>10, <2>4, <2>6
  <2>8. RunsOK' /\ cut' = cut /\ screen' = screen /\ executed' = executed
    BY <1>1, <1>10
  <2>9. CallsMove(s, n, q)
    BY <2>5, <2>6, <2>7, <2>8 DEF CallsMove
  <2> QED BY <1>3, <2>8, <2>9, CallsStep
<1>12. CASE tool \notin Tools
  <2>1. turns' = turns /\ run'[s].pc = "tools"
    BY <1>8, <1>9, <1>10, <1>12
  <2>2. RunHolds(s)'
    <3>1. Turn(s)' = Turn(s) /\ Newest(s)' = Newest(s) /\ MaxTurns' = MaxTurns
      BY <1>4, <1>10, <2>1 DEF Turn, Newest, MaxTurns
    <3>2. Newest(s) <= MaxTurns
      BY <1>1 DEF SessionHolds, RunHolds
    <3> QED BY <1>2, <1>3, <1>4, <1>10, <2>1, <3>1, <3>2 DEF RunHolds
  <2>3. ExecutedHold(s)' /\ cut \subseteq Sessions \X Nat /\ executed \subseteq Sessions \X Nat \X Nat \X Tools
    BY <1>1, <1>2, <2>1 DEF TypeOK, SessionHolds, ExecutedHold
  <2>4. \A m \in DOMAIN turns[s] : Settled(s, m)' => Settled(s, m)
    BY <1>1, <1>4, <1>10, <2>1 DEF Settled
  <2> QED BY <1>1, <1>3, <1>10, <2>1, <2>2, <2>3, <2>4, QuietStep
<1> QED BY <1>11, <1>12

(* The row of the call that a run is at is written, with the same tool.    *)
LEMMA CalledStep ==
  ASSUME Inv, setting' = setting, NEW s \in Sessions, MemoryHolds', Linking({}), cut' = cut,
         screen' = screen, UNCHANGED <<row, mem>>, said' = said, faults' \in Nat,
         NEW pc \in {"record", "post", "tools"}, Go(s, pc),
         \A u \in Sessions \ {s} : op'[u] = op[u], op'[s].pc = "idle",
         run[s].pc \in {"exec", "record", "memory", "post"},
         NEW call \in ToolCall, call.tool = run[s].tool,
         turns' = [turns EXCEPT ![s] = [turns[s] EXCEPT ![run[s].turn] =
                     [Turn(s) EXCEPT !.calls = [Turn(s).calls EXCEPT ![run[s].call] = call]]]],
         executed' = executed \/ (pc = "record" /\ Executing(s))
  PROVE  Inv'
<1>1. PICK n, k, calls : n = run[s].turn /\ k = run[s].call /\ calls = Turn(s).calls
  OBVIOUS
<1>2. PICK tool : tool = run[s].tool
  OBVIOUS
<1>3. /\ calls \in Seq(ToolCall) /\ k \in DOMAIN calls /\ calls[k].tool = tool
      /\ calls = turns[s][n].calls /\ turns[s][n] = Turn(s)
  BY <1>1, <1>2, CalledFacts DEF Turn, Called
<1>4. PICK q : q = [calls EXCEPT ![k] = call]
  OBVIOUS
<1>5. q \in Seq(ToolCall) /\ DOMAIN q = DOMAIN calls /\ q[k].tool = tool
  BY <1>2, <1>3, <1>4
<1>6. \A j \in DOMAIN calls : j \in DOMAIN q /\ q[j].tool = calls[j].tool
  BY <1>2, <1>3, <1>4
<1>7. turns' = [turns EXCEPT ![s] = [turns[s] EXCEPT ![n] = [turns[s][n] EXCEPT !.calls = q]]]
  BY <1>1, <1>3, <1>4
<1>8. /\ RunsOK' /\ run'[s].pc = pc /\ run'[s].turn = n /\ run'[s].call = k /\ run'[s].tool = tool
      /\ \A u \in Sessions \ {s} : run'[u] = run[u]
  BY <1>1, <1>2, Goes DEF Inv, TypeOK
<1>9. RowsOK' /\ said' \in Nat
  BY RowsStay DEF Inv, TypeOK
<1>10. \/ executed' = executed
       \/ /\ run'[s].pc # "tools"
          /\ executed' = executed \cup {<<s, n, run'[s].call, run'[s].tool>>}
  BY <1>1, <1>2, <1>8 DEF Executing
<1>11. /\ n = run[s].turn /\ run'[s].turn = n
       /\ run[s].pc \in {"tools", "exec", "record", "memory", "post"}
       /\ run'[s].pc \in {"tools", "exec", "record", "post"}
       /\ \A u \in Sessions \ {s} : run'[u] = run[u] /\ op'[u] = op[u]
       /\ \A j \in DOMAIN turns[s][n].calls : j \in DOMAIN q /\ q[j].tool = turns[s][n].calls[j].tool
       /\ run'[s].pc # "tools" => run'[s].call \in DOMAIN q /\ q[run'[s].call].tool = run'[s].tool
       /\ q \in Seq(ToolCall) /\ RunsOK'
  BY <1>1, <1>3, <1>5, <1>6, <1>8
<1>12. CallsMove(s, n, q)
  BY <1>7, <1>10, <1>11 DEF CallsMove
<1> QED BY <1>8, <1>9, <1>12, CallsStep

LEMMA ExecuteOtherKeeps ==
  ASSUME Inv, setting' = setting, NEW s \in Sessions, ExecuteOther(s)
  PROVE  Inv'
<1>1. /\ TypeOK /\ run[s].pc = "exec" /\ Executing(s) /\ Go(s, "record")
      /\ UNCHANGED <<row, mem, screen, cut, memory>> /\ said' = said /\ faults' = faults
  BY DEF ExecuteOther, trouble, At, Inv
<1>2. /\ MemoryHolds' /\ Linking({}) /\ op' = op /\ RowsOK' /\ said' \in Nat /\ faults' \in Nat
      /\ op[s].pc = "idle"
  BY <1>1, MemoryUntouched, RowsStay, NoCall DEF TypeOK
<1>3. CASE turns' = turns
  <2>1. <<run[s].pc, "record">> \in Ways
    BY <1>1 DEF Ways
  <2> QED BY <1>1, <1>2, <1>3, <2>1, GoStep
<1>4. ASSUME NEW fact \in Facts,
             SaveCall(s, run[s].turn, run[s].call, [Called(s) EXCEPT !.found = SearchEngrams(fact)])
      PROVE  Inv'
  <2>1. PICK call : call = [Called(s) EXCEPT !.found = SearchEngrams(fact)]
    OBVIOUS
  <2>2. Called(s) \in ToolCall /\ Called(s).tool = run[s].tool
    BY <1>1, CalledFacts
  <2>3. call \in ToolCall /\ call.tool = run[s].tool
    <3>1. SearchEngrams(fact) \subseteq Engrams
      BY DEF SearchEngrams, Active
    <3> QED BY <2>1, <2>2, <3>1 DEF ToolCall
  <2>4. turns' = [turns EXCEPT ![s] = [turns[s] EXCEPT ![run[s].turn] =
                     [Turn(s) EXCEPT !.calls = [Turn(s).calls EXCEPT ![run[s].call] = call]]]]
    BY <1>4, <2>1 DEF SaveCall, Turn
  <2> QED BY <1>1, <1>2, <2>3, <2>4, CalledStep
<1> QED BY <1>3, <1>4 DEF ExecuteOther

LEMMA RecordCallKeeps ==
  ASSUME Inv, setting' = setting, NEW s \in Sessions, RecordCall(s)
  PROVE  Inv'
<1>1. /\ TypeOK /\ MemoryHolds /\ run[s].pc \in {"record", "memory"} /\ Go(s, "post")
      /\ op' = [op EXCEPT ![s] = NoOp]
      /\ UNCHANGED <<row, mem, screen, executed, cut, engram, told, raced, shared>>
      /\ said' = said /\ faults' = faults /\ op[s].pc # "vector"
  BY DEF RecordCall, trouble, At, Inv, Answered, SessionHolds, RunHolds
<1>2. MemoryHolds' /\ Linking({}) /\ faults' \in Nat
  BY <1>1, OpEndKeeps DEF TypeOK, MemoryHolds, MemoryTypeOK
<1>3. op'[s].pc = "idle" /\ \A u \in Sessions \ {s} : op'[u] = op[u]
  BY <1>1, Blanks DEF MemoryHolds, MemoryTypeOK
<1>4. PICK call : call = [Called(s) EXCEPT !.status = "COMPLETED"]
  OBVIOUS
<1>5. Called(s) \in ToolCall /\ Called(s).tool = run[s].tool
  BY <1>1, CalledFacts
<1>6. call \in ToolCall /\ call.tool = run[s].tool
  BY <1>4, <1>5 DEF ToolCall, TurnStatuses
<1>7. turns' = [turns EXCEPT ![s] = [turns[s] EXCEPT ![run[s].turn] =
                  [Turn(s) EXCEPT !.calls = [Turn(s).calls EXCEPT ![run[s].call] = call]]]]
  <2>1. PICK n, k, calls : n = run[s].turn /\ k = run[s].call /\ calls = turns[s][n].calls
    OBVIOUS
  <2>2. /\ calls \in Seq(ToolCall) /\ k \in DOMAIN calls /\ Turn(s) = turns[s][n]
        /\ calls = Turn(s).calls /\ Called(s) = calls[k]
    BY <1>1, <2>1, CalledFacts DEF Turn, Called
  <2>3. turns' = [turns EXCEPT ![s][n].calls = [j \in DOMAIN @ |->
                   IF j = k THEN [@[j] EXCEPT !.status = "COMPLETED"] ELSE @[j]]]
    BY <2>1 DEF RecordCall
  <2>4. PICK q : q = [j \in DOMAIN calls |->
                   IF j = k THEN [calls[j] EXCEPT !.status = "COMPLETED"] ELSE calls[j]]
    OBVIOUS
  <2>5. q = [calls EXCEPT ![k] = call]
    BY <1>4, <2>2, <2>4
  <2>6. turns' = [turns EXCEPT ![s][n].calls = q]
    BY <2>1, <2>3, <2>4
  <2>7. turns' = [turns EXCEPT ![s] = [turns[s] EXCEPT ![n] = [turns[s][n] EXCEPT !.calls = q]]]
    BY <2>6
  <2> QED BY <2>1, <2>2, <2>5, <2>7
<1> QED BY <1>1, <1>2, <1>3, <1>6, <1>7, CalledStep

LEMMA PostFailsKeeps ==
  ASSUME Inv, setting' = setting, NEW s \in Sessions, PostFails(s), faults' \in Nat
  PROVE  Inv'
<1>1. /\ TypeOK /\ run[s].pc = "post" /\ Go(s, "tools") /\ said' = said
      /\ UNCHANGED <<row, mem, screen, executed, cut, memory>>
  BY DEF PostFails, At, Inv
<1>2. MemoryHolds' /\ Linking({}) /\ op' = op /\ op[s].pc = "idle"
  BY <1>1, MemoryUntouched, NoCall
<1>3. PICK call : call = [Called(s) EXCEPT !.status = "ERROR"]
  OBVIOUS
<1>4. Called(s) \in ToolCall /\ Called(s).tool = run[s].tool
  BY <1>1, CalledFacts
<1>5. call \in ToolCall /\ call.tool = run[s].tool
  BY <1>3, <1>4 DEF ToolCall, TurnStatuses
<1>6. turns' = [turns EXCEPT ![s] = [turns[s] EXCEPT ![run[s].turn] =
                  [Turn(s) EXCEPT !.calls = [Turn(s).calls EXCEPT ![run[s].call] = call]]]]
  BY <1>3 DEF PostFails, SaveCall, Turn
<1> QED BY <1>1, <1>2, <1>5, <1>6, CalledStep

(* Only the screen of a session changes.                                   *)
LEMMA ScreenStep ==
  ASSUME Inv, setting' = setting, NEW s \in Sessions, faults' \in Nat,
         UNCHANGED <<row, mem, run, turns, said, executed, cut, memory>>,
         \A u \in Sessions \ {s} : screen'[u] = screen[u], ScreenOK', ScreenHolds(s)'
  PROVE  Inv'
<1>1. TypeOK /\ SessionHolds(s)
  BY DEF Inv
<1>2. MemoryHolds' /\ Linking({}) /\ op' = op
  BY MemoryUntouched
<1>3. KindsOK'
  BY <1>1 DEF TypeOK, KindsOK, RowsOK, RunsOK, TurnsOK
<1>4. Newest(s)' = Newest(s) /\ MaxTurns' = MaxTurns /\ DOMAIN turns[s] = 1..Newest(s) /\ Newest(s) \in Nat
  BY <1>1, NewestFacts DEF Newest, MaxTurns
<1>5. RunHolds(s)'
  BY <1>1, <1>2, <1>4 DEF SessionHolds, RunHolds, Turn, Called
<1>6. ExecutedHold(s)' /\ \A n \in DOMAIN turns'[s] : TurnHolds(s, n)'
  BY <1>1, <1>4 DEF SessionHolds, ExecutedHold, TurnHolds
<1>7. RequestsHold(s)'
  <2>1. RequestsHold(s) /\ (run[s].pc = "ask" => run[s].turn \in DOMAIN turns[s])
    BY <1>1, <1>4 DEF SessionHolds, RunHolds
  <2>2. \A n \in DOMAIN turns'[s] : turns'[s][n].asked => PromptHolds(s, n, turns'[s][n].request)
    BY <2>1 DEF RequestsHold
  <2>3. run'[s].pc = "ask" => /\ run'[s].turn \in DOMAIN turns'[s]
                              /\ PromptHolds(s, run'[s].turn, run'[s].prompt)
    BY <2>1 DEF RequestsHold
  <2>4. TurnsOK'
    BY <1>3 DEF KindsOK
  <2> QED BY <1>1, <1>4, <2>1, <2>2, <2>3, <2>4, RequestsKept
<1>8. SessionHolds(s)'
  BY <1>5, <1>6, <1>7 DEF SessionHolds
<1>9. Apart(s)
  BY <1>2 DEF Apart
<1> QED BY <1>2, <1>3, <1>8, <1>9, StepKeeps

(* With nothing new about turns and cards, what matches goes on to match.  *)
LEMMA MatchesStays ==
  ASSUME UNCHANGED <<run, turns, cut, memory>>, NEW s \in Sessions, NEW n, NEW d
  PROVE  /\ Settled(s, n)' <=> Settled(s, n)
         /\ Matches(s, n, d) => Matches(s, n, d)'
<1>1. engram' = engram
  BY DEF memory
<1>2. Formed(engram, s, n)' = Formed(engram, s, n) /\ Rows' = Rows
  BY <1>1 DEF Formed
<1> QED BY <1>2 DEF Settled, Matches, BuildDigest

LEMMA DisconnectKeeps ==
  ASSUME Inv, setting' = setting, NEW s \in Sessions, Disconnect(s), faults' \in Nat
  PROVE  Inv'
<1>1. /\ TypeOK /\ screen[s].on /\ screen' = [screen EXCEPT ![s].on = FALSE]
      /\ UNCHANGED <<row, mem, run, turns, said, executed, cut, memory>>
      /\ ScreenHolds(s)
  BY DEF Inv, SessionHolds, Disconnect
<1>2. MaxTurns' = MaxTurns /\ engram' = engram
  BY <1>1 DEF MaxTurns, memory
<1>3. screen \in [Sessions -> [on : BOOLEAN, gap : SUBSET Nat,
                               seen : [1..MaxTurns -> {None, Ghost} \cup Digests]]]
  BY <1>1 DEF TypeOK, ScreenOK
<1>4. /\ ScreenOK' /\ screen'[s].seen = screen[s].seen /\ screen'[s].gap = screen[s].gap
      /\ \A u \in Sessions \ {s} : screen'[u] = screen[u]
  BY <1>1, <1>2, <1>3 DEF ScreenOK
<1>5. SeenBy(s)' = SeenBy(s) /\ Unused' = Unused /\ Newest(s)' = Newest(s)
  BY <1>1, <1>2, <1>4 DEF SeenBy, Newest
<1>6. ASSUME NEW n \in DOMAIN turns'[s], Settled(s, n)'
      PROVE  /\ Matches(s, n, turns[s][n].digest)'
             /\ n \notin screen[s].gap => Matches(s, n, screen[s].seen[n])'
  <2>1. PICK d : d = turns[s][n].digest
    OBVIOUS
  <2>2. PICK v : v = screen[s].seen[n]
    OBVIOUS
  <2>3. Settled(s, n)
    BY <1>1, <1>6, MatchesStays
  <2>4. Matches(s, n, d) /\ (n \notin screen[s].gap => Matches(s, n, v))
    BY <1>1, <2>1, <2>2, <2>3 DEF ScreenHolds
  <2>5. Matches(s, n, d)' /\ (n \notin screen[s].gap => Matches(s, n, v)')
    BY <1>1, <2>4, MatchesStays
  <2> QED BY <1>1, <1>4, <2>1, <2>2, <2>5 DEF Matches
<1>7. ScreenHolds(s)'
  BY <1>1, <1>2, <1>4, <1>5, <1>6 DEF ScreenHolds
<1> QED BY <1>1, <1>4, <1>7, ScreenStep

(* What is fetched are the turns after the last one seen; that one itself  *)
(* may have changed and is the gap.                                        *)
LEMMA ReconnectKeeps ==
  ASSUME Inv, setting' = setting, NEW s \in Sessions, Reconnect(s)
  PROVE  Inv'
<1>1. /\ TypeOK /\ faults' \in Nat /\ ~screen[s].on
      /\ UNCHANGED <<row, mem, run, turns, said, executed, cut, memory>>
      /\ ScreenHolds(s) /\ Newest(s) <= MaxTurns
  BY DEF Inv, TypeOK, SessionHolds, RunHolds, Reconnect, trouble
<1>2. MaxTurns' = MaxTurns /\ engram' = engram /\ MaxTurns \in Nat
  BY <1>1, SettingFacts DEF MaxTurns, memory
<1>3. screen \in [Sessions -> [on : BOOLEAN, gap : SUBSET Nat,
                               seen : [1..MaxTurns -> {None, Ghost} \cup Digests]]]
  BY <1>1 DEF TypeOK, ScreenOK
<1>4. DOMAIN turns[s] = 1..Newest(s) /\ Newest(s) \in Nat /\ \A n \in DOMAIN turns[s] : IsTurn(turns[s][n])
  BY <1>1, NewestFacts
<1>5. PICK last : last = LastSeen(s)
  OBVIOUS
<1>6. last \in Nat /\ \A n \in SeenBy(s) : n <= Newest(s)
  BY <1>1, <1>5, LastSeenFacts DEF ScreenHolds
<1>7. PICK news : news = [n \in 1..MaxTurns |->
                            IF n \in GraphData(s, last) THEN turns[s][n].digest ELSE screen[s].seen[n]]
  OBVIOUS
<1>8. news \in [1..MaxTurns -> {None, Ghost} \cup Digests]
  <2> SUFFICES ASSUME NEW n \in 1..MaxTurns
               PROVE  news[n] \in {None, Ghost} \cup Digests
    BY <1>7
  <2>1. CASE n \in GraphData(s, last)
    <3>1. turns[s][n].digest \in {None} \cup Digests
      BY <1>4, <2>1 DEF GraphData, IsTurn
    <3> QED BY <1>7, <2>1, <3>1
  <2>2. CASE n \notin GraphData(s, last)
    BY <1>3, <1>7, <2>2
  <2> QED BY <2>1, <2>2
<1>9. PICK x : x = [on |-> TRUE, gap |-> screen[s].gap \cup {last}, seen |-> news]
  OBVIOUS
<1>10. screen' = [screen EXCEPT ![s] = x]
  BY <1>5, <1>7, <1>9 DEF Reconnect
<1>11. x \in [on : BOOLEAN, gap : SUBSET Nat, seen : [1..MaxTurns -> {None, Ghost} \cup Digests]]
  BY <1>3, <1>6, <1>8, <1>9
<1>12. /\ ScreenOK' /\ screen'[s].seen = news /\ screen'[s].gap = screen[s].gap \cup {last}
       /\ \A u \in Sessions \ {s} : screen'[u] = screen[u]
  BY <1>2, <1>3, <1>9, <1>10, <1>11 DEF ScreenOK
<1>13. Unused' = Unused /\ Newest(s)' = Newest(s)
  BY <1>1, <1>2 DEF Newest
<1>14. ASSUME NEW n \in SeenBy(s)'
       PROVE  n <= Newest(s)' /\ screen'[s].seen[n].engrams \cap Unused' = {}
  <2>1. n \in 1..MaxTurns /\ news[n] \notin {None, Ghost}
    BY <1>2, <1>12, <1>14 DEF SeenBy
  <2>2. CASE n \in GraphData(s, last)
    <3>1. n \in DOMAIN turns[s] /\ turns[s][n].digest # None /\ news[n] = turns[s][n].digest
      BY <1>7, <2>1, <2>2 DEF GraphData
    <3>2. turns[s][n].digest.engrams \cap Unused = {}
      BY <1>1, <3>1 DEF ScreenHolds
    <3> QED BY <1>4, <1>12, <1>13, <3>1, <3>2
  <2>3. CASE n \notin GraphData(s, last)
    <3>1. news[n] = screen[s].seen[n] /\ n \in SeenBy(s)
      BY <1>7, <2>1, <2>3 DEF SeenBy
    <3>2. n <= Newest(s) /\ screen[s].seen[n].engrams \cap Unused = {}
      BY <1>1, <3>1 DEF ScreenHolds
    <3> QED BY <1>12, <1>13, <3>1, <3>2
  <2> QED BY <2>2, <2>3
<1>15. ASSUME NEW n \in DOMAIN turns'[s], Settled(s, n)'
       PROVE  /\ Matches(s, n, turns[s][n].digest)'
              /\ n \notin screen'[s].gap => Matches(s, n, screen[s].seen[n])'
  <2>1. PICK d : d = turns[s][n].digest
    OBVIOUS
  <2>2. Settled(s, n) /\ n \in DOMAIN turns[s] /\ turns[s][n].asked
    BY <1>1, <1>15, MatchesStays DEF Settled
  <2>3. Matches(s, n, d) /\ d # None
    BY <1>1, <2>1, <2>2 DEF ScreenHolds
  <2>4. Matches(s, n, d)'
    BY <1>1, <2>3, MatchesStays
  <2>5. ASSUME n \notin screen'[s].gap PROVE Matches(s, n, screen[s].seen[n])'
    <3>1. n \notin screen[s].gap /\ n # last /\ n \in 1..MaxTurns /\ n \in Nat
      BY <1>1, <1>2, <1>4, <1>12, <2>2, <2>5
    <3>2. CASE n > last
      <4>1. n \in GraphData(s, last)
        BY <2>1, <2>2, <2>3, <3>2 DEF GraphData
      <4>2. screen'[s].seen[n] = d
        BY <1>7, <1>12, <2>1, <3>1, <4>1
      <4> QED BY <2>4, <4>2 DEF Matches
    <3>3. CASE n < last
      <4>1. PICK v : v = screen[s].seen[n]
        OBVIOUS
      <4>2. Matches(s, n, v)
        BY <1>1, <1>5, <2>2, <3>1, <3>3, <4>1 DEF ScreenHolds
      <4>3. n \notin GraphData(s, last)
        BY <1>6, <3>1, <3>3 DEF GraphData
      <4>4. screen'[s].seen[n] = v
        BY <1>7, <1>12, <3>1, <4>1, <4>3
      <4>5. Matches(s, n, v)'
        BY <1>1, <4>2, MatchesStays
      <4> QED BY <4>4, <4>5 DEF Matches
    <3> QED BY <1>6, <3>1, <3>2, <3>3
  <2> QED BY <1>1, <2>1, <2>4, <2>5 DEF Matches
<1>16. ScreenHolds(s)'
  <2>1. \A n \in DOMAIN turns'[s] : turns'[s][n].asked => turns'[s][n].digest # None
    BY <1>1 DEF ScreenHolds
  <2>2. \A n \in DOMAIN turns'[s] :
           turns'[s][n].digest # None => turns'[s][n].digest.engrams \cap Unused' = {}
    BY <1>1, <1>13 DEF ScreenHolds
  <2> QED BY <1>14, <1>15, <2>1, <2>2 DEF ScreenHolds
<1> QED BY <1>1, <1>12, <1>16, ScreenStep

LEMMA OthersKeep ==
  ASSUME Inv, setting' = setting, Operator, faults' \in Nat,
         UNCHANGED <<row, mem, run, turns, screen, said, executed, cut>>
  PROVE  Inv'
<1>1. TypeOK /\ MemoryHolds
  BY DEF Inv
<1>2. MemoryHolds' /\ Linking({})
  BY <1>1, OperatorKeeps
<1>3. op' = op
  BY DEF Operator, SaveFromOutside, Deactivate, Delete
<1>4. TypeOK' /\ TurnsOK'
  BY <1>1, <1>2 DEF TypeOK, MemoryHolds, RowsOK, RunsOK, TurnsOK, ScreenOK, MaxTurns
<1>5. ASSUME NEW s \in Sessions PROVE SessionHolds(s)'
  <2>1. Still(s)
    BY <1>3 DEF Still
  <2>2. SessionHolds(s) /\ \A n \in Nat : <<s, n>> \notin {}
    BY DEF Inv
  <2> QED BY <1>1, <1>2, <1>4, <2>1, <2>2, StillKeeps
<1> QED BY <1>2, <1>4, <1>5 DEF Inv

-----------------------------------------------------------------------------
(* The specification. *)

LEMMA InvBegins == Init => Inv
<1> SUFFICES ASSUME Init PROVE Inv
  OBVIOUS
<1>1. MemoryHolds
  BY MemoryBegins DEF Init
<1>2. MaxTurns \in Nat \ {0} /\ setting \in Settings
  BY TurnsAssumption DEF Init, MaxTurns
<1>3. \A s \in Sessions :
        /\ run[s].pc \in {"idle", "queued"} /\ run[s].turn = 0 /\ IsRun(run[s])
        /\ turns[s] = <<>> /\ op[s].pc = "idle"
        /\ screen[s].seen = [n \in 1..MaxTurns |-> None]
  BY DEF Init, Idle, IsRun, InitMemory, NoOp
<1>4. KindsOK
  <2>1. RowsOK
    BY DEF RowsOK, Init
  <2>2. RunsOK
    BY <1>3 DEF RunsOK, Init
  <2>3. TurnsOK
    BY <1>3, SequenceOfNone DEF TurnsOK, Init
  <2>4. ScreenOK
    BY DEF ScreenOK, Init
  <2> QED BY <2>1, <2>2, <2>3, <2>4 DEF KindsOK, Init
<1>5. TypeOK
  BY <1>1, <1>2, <1>4 DEF TypeOK, KindsOK, MemoryHolds
<1>6. ASSUME NEW s \in Sessions PROVE SessionHolds(s)
  <2>1. Newest(s) = 0 /\ DOMAIN turns[s] = {}
    BY <1>3, SequenceOfNone DEF Newest
  <2>2. RunHolds(s)
    BY <1>2, <1>3, <2>1 DEF RunHolds
  <2>3. ExecutedHold(s) /\ RequestsHold(s)
    BY <1>3, <2>1 DEF ExecutedHold, RequestsHold, Init
  <2>4. SeenBy(s) = {}
    BY <1>3 DEF SeenBy
  <2>5. ScreenHolds(s)
    BY <2>1, <2>4 DEF ScreenHolds
  <2> QED BY <2>1, <2>2, <2>3, <2>5 DEF SessionHolds
<1> QED BY <1>1, <1>5, <1>6 DEF Inv

LEMMA RunStepKeeps ==
  ASSUME Inv, setting' = setting, NEW s \in Sessions, RunStep(s)
  PROVE  Inv'
<1>1. CASE LoadSession(s) \/ FindTurn(s) \/ BuildPrompt(s) \/ Ask(s) \/ Think(s) \/ Sleep(s)
  BY <1>1, LoadSessionKeeps, FindTurnKeeps, BuildPromptKeeps, AskKeeps, ThinkKeeps, SleepKeeps
<1>2. CASE BeginCall(s) \/ ExecutePass(s) \/ ExecuteYield(s) \/ ExecuteMemory(s) \/ ExecuteOther(s)
  BY <1>2, BeginCallKeeps, ExecutePassKeeps, ExecuteYieldKeeps, ExecuteMemoryKeeps,
     ExecuteOtherKeeps
<1>3. CASE MemoryStep(s)
  <2>1. faults' = faults /\ cut' = cut
    BY <1>3 DEF MemoryStep, trouble
  <2> QED BY <1>3, <2>1, MemoryStepKeeps
<1>4. CASE RecordCall(s) \/ Post(s) \/ EndTools(s) \/ EndRun(s)
  BY <1>4, RecordCallKeeps, PostKeeps, EndToolsKeeps, EndRunKeeps
<1> QED BY <1>1, <1>2, <1>3, <1>4 DEF RunStep

LEMMA FaultKeeps ==
  ASSUME Inv, setting' = setting, NEW s \in Sessions, faults' \in Nat,
         Crash(s) \/ Fail(s) \/ NoAnswer(s) \/ Paralysis(s) \/ PostFails(s) \/ Disconnect(s)
  PROVE  Inv'
  BY CrashKeeps, FailKeeps, NoAnswerKeeps, ParalysisKeeps, PostFailsKeeps, DisconnectKeeps

LEMMA StutterKeeps ==
  ASSUME Inv, UNCHANGED vars
  PROVE  Inv'
<1>1. MemoryHolds' /\ Linking({})
  BY MemoryStays DEF Inv, vars
<1>2. TypeOK'
  BY <1>1 DEF Inv, TypeOK, MemoryHolds, vars, RowsOK, RunsOK, TurnsOK, ScreenOK, MaxTurns
<1>3. ASSUME NEW s \in Sessions PROVE SessionHolds(s)'
  <2>1. Still(s) /\ setting' = setting
    BY DEF Still, vars, memory
  <2> HIDE DEF Still
  <2>2. TypeOK /\ TurnsOK' /\ SessionHolds(s)
    BY <1>2 DEF Inv, TypeOK
  <2> QED BY <1>1, <2>1, <2>2, StillKeeps
<1> QED BY <1>1, <1>2, <1>3 DEF Inv

LEMMA NextKeeps == Inv /\ [Next]_vars => Inv'
<1> SUFFICES ASSUME Inv, [Next]_vars PROVE Inv'
  OBVIOUS
<1>1. setting.sessions \subseteq Sessions /\ faults \in Nat
  BY SettingFacts DEF Inv, TypeOK
<1>2. CASE Next
  <2>1. setting' = setting /\ Changes
    BY <1>2 DEF Next
  <2>2. ASSUME NEW kind, Fault(kind) PROVE faults' \in Nat
    BY <1>1, <2>2 DEF Fault
  <2>3. ASSUME NEW s \in setting.sessions,
               RunStep(s) \/ Talk(s) \/ Rerun(s) \/ Reconnect(s)
        PROVE  Inv'
    <3>1. s \in Sessions
      BY <1>1
    <3> QED BY <2>1, <2>3, <3>1, RunStepKeeps, TalkKeeps, RerunKeeps, ReconnectKeeps
  <2>4. ASSUME NEW s \in setting.sessions,
               \/ Fault("crash") /\ Crash(s)
               \/ Fault("fail") /\ Fail(s)
               \/ Fault("model") /\ (NoAnswer(s) \/ Paralysis(s))
               \/ Fault("post") /\ PostFails(s)
               \/ Fault("screen") /\ Disconnect(s)
        PROVE  Inv'
    <3>1. s \in Sessions
      BY <1>1
    <3>2. faults' \in Nat
      BY <2>2, <2>4
    <3> QED BY <2>1, <2>4, <3>1, <3>2, FaultKeeps
  <2>5. ASSUME Fault("operator"), Operator,
               UNCHANGED <<row, mem, run, turns, screen, said, executed, cut>>
        PROVE  Inv'
    BY <2>1, <2>2, <2>5, OthersKeep
  <2> QED BY <2>1, <2>3, <2>4, <2>5 DEF Changes
<1>3. CASE UNCHANGED vars
  BY <1>3, StutterKeeps
<1> QED BY <1>2, <1>3

(* The invariant: memory and every session hold together, whatever the     *)
(* sessions do at the same time, and whatever fails.                       *)
THEOREM InvariantHolds == Spec => []Inv
<1>1. Init => Inv
  BY InvBegins
<1>2. Inv /\ [Next]_vars => Inv'
  BY NextKeeps
<1> QED BY <1>1, <1>2, PTL DEF Spec

(* The rows, runs, turns, screens and cards keep their types.              *)
THEOREM TypeCorrect == Spec => []TypeOK
<1>1. Inv => TypeOK
  BY DEF Inv
<1> QED BY <1>1, InvariantHolds, PTL

(* The vector of a card, by which save_engram rejects what is known and    *)
(* the novelty of a fact is measured, is of the card's text or missing,    *)
(* whatever is saved, tagged and updated with or without an answer of      *)
(* Ollama, and by however many sessions, once nobody is about to make it;  *)
(* save for cards that two calls were in at once or a death cut short.     *)
THEOREM VectorsFollowTexts == Spec => []VectorOfText
<1>1. Inv => VectorOfText
  BY DEF Inv, MemoryHolds
<1> QED BY <1>1, InvariantHolds, PTL

(* A fact of which save_engram or update_engram told a session that it is  *)
(* in a card stays there, unless the card was deleted or written from a    *)
(* text that somebody had updated since it was read.                       *)
THEOREM FactsKept == Spec => []ToldIsKept
<1>1. Inv => ToldIsKept
  BY DEF Inv, MemoryHolds
<1> QED BY <1>1, InvariantHolds, PTL

(* Every prompt that is sent has each call followed by its result and no   *)
(* result without its call, whatever was evicted, vetoed, unknown or cut   *)
(* short, for sessions of any length and any replies of the model.         *)
THEOREM PromptsAnswered == Spec => []CallsAnswered
<1>1. ASSUME Inv PROVE CallsAnswered
  <2>1. ASSUME NEW q \in Requests PROVE Accepted(q)
    <3>1. PICK s \in Sessions : \E n \in Asked(s) : q = turns[s][n].request
      BY <2>1 DEF Requests
    <3> QED BY <1>1, <3>1 DEF Inv, SessionHolds, RequestsHold, PromptHolds, Asked
  <2> QED BY <2>1 DEF CallsAnswered, Accepted
<1> QED BY <1>1, InvariantHolds, PTL

(* River of six drops the results of a tool from the prompt exactly one    *)
(* turn after the prompt in which they carried the eviction warning.       *)
THEOREM EvictionsWarned == Spec => []EvictionAnnounced
<1>1. ASSUME Inv PROVE EvictionAnnounced
  <2> SUFFICES ASSUME NEW s \in Sessions, NEW n \in 2..Len(turns[s]),
                      turns[s][n].asked, turns[s][n - 1].asked, "RiverOfSix" \in Addons,
                      NEW r \in Results(turns[s][n - 1].request)
               PROVE  r.id \notin Ids(turns[s][n].request) <=> r.warn = "eviction"
    BY DEF EvictionAnnounced
  <2>1. TypeOK /\ RequestsHold(s)
    BY <1>1 DEF Inv, SessionHolds
  <2>2. n \in Nat /\ n - 1 \in Nat /\ n \in DOMAIN turns[s] /\ n - 1 \in DOMAIN turns[s]
    BY <2>1, NewestFacts
  <2>3. /\ Results(turns[s][n].request) = Due(s, n)
        /\ Results(turns[s][n - 1].request) = Due(s, n - 1)
    BY <2>1, <2>2 DEF RequestsHold, PromptHolds
  <2>4. PICK m \in 1..(n - 2) : \E k \in DOMAIN turns[s][m].calls :
          n - 1 - m < 4 /\ r = ToolMessage(m, k, Warning(n - 1 - m))
    BY <2>2, <2>3 DEF Due, ResultsOf
  <2> PICK k \in DOMAIN turns[s][m].calls :
          n - 1 - m < 4 /\ r = ToolMessage(m, k, Warning(n - 1 - m))
    BY <2>4
  <2>5. /\ r.id = <<m, k>> /\ r.warn = Warning(n - 1 - m)
        /\ r = ToolMessage(m, k, Warning(n - 1 - m)) /\ n - 1 - m < 4
    BY DEF ToolMessage
  <2>6. r.id \in Ids(turns[s][n].request) <=> n - m < 4
    <3>1. ASSUME n - m < 4 PROVE r.id \in Ids(turns[s][n].request)
      <4>1. m \in {i \in 1..(n - 1) : n - i < 4} /\ ToolMessage(m, k, Warning(n - m)) \in ResultsOf(s, m, n)
        BY <2>2, <3>1 DEF ResultsOf
      <4>2. ToolMessage(m, k, Warning(n - m)) \in Due(s, n)
        BY <4>1 DEF Due
      <4>3. ToolMessage(m, k, Warning(n - m)).id = r.id
        BY <2>5 DEF ToolMessage
      <4> QED BY <2>3, <4>2, <4>3 DEF Ids
    <3>2. ASSUME r.id \in Ids(turns[s][n].request) PROVE n - m < 4
      <4>1. PICK x \in Due(s, n) : x.id = r.id
        BY <2>3, <3>2 DEF Ids
      <4>2. \E i \in 1..(n - 1) : \E j \in DOMAIN turns[s][i].calls :
              n - i < 4 /\ x = ToolMessage(i, j, Warning(n - i))
        BY <4>1 DEF Due, ResultsOf
      <4> QED BY <2>5, <4>1, <4>2 DEF ToolMessage
    <3> QED BY <3>1, <3>2
  <2>7. r.warn = "eviction" <=> n - 1 - m = 3
    BY <2>2, <2>5 DEF Warning, EvictionWarningAge, DecayWarningAge
  <2> QED BY <2>2, <2>5, <2>6, <2>7
<1> QED BY <1>1, InvariantHolds, PTL

(* A tool that was called has a ToolCall row that names it, in the turn    *)
(* that called it, also when the run died before the tool had answered.    *)
THEOREM EffectsRecorded == Spec => []EffectsOnRecord
<1>1. ASSUME Inv PROVE EffectsOnRecord
  <2> SUFFICES ASSUME NEW x \in executed
               PROVE  /\ x[3] \in DOMAIN turns[x[1]][x[2]].calls
                      /\ turns[x[1]][x[2]].calls[x[3]].tool = x[4]
    BY DEF EffectsOnRecord
  <2>1. PICK s \in Sessions : x[1] = s
    BY <1>1 DEF Inv, TypeOK
  <2> QED BY <1>1, <2>1 DEF Inv, SessionHolds, ExecutedHold
<1> QED BY <1>1, InvariantHolds, PTL

(* A connected screen shows every finished turn as the database has it:    *)
(* its status, its words, its calls and the cards it formed that are still *)
(* there.                                                                  *)
THEOREM ScreensCurrent == Spec => []ScreenCurrent
<1>1. ASSUME Inv PROVE ScreenCurrent
  <2> SUFFICES ASSUME NEW s \in Sessions, screen[s].on, NEW n \in DOMAIN turns[s],
                      turns[s][n].asked, n # run[s].turn, n \notin screen[s].gap,
                      <<s, n>> \notin cut
               PROVE  LET d == screen[s].seen[n] IN
                      /\ d \notin {None, Ghost}
                      /\ [d EXCEPT !.engrams = @ \cap Rows]
                           = BuildDigest(turns[s][n], Formed(engram, s, n))
    BY DEF ScreenCurrent
  <2>1. PICK d : d = screen[s].seen[n]
    OBVIOUS
  <2>2. Matches(s, n, d)
    BY <1>1, <2>1 DEF Inv, SessionHolds, ScreenHolds, Settled
  <2>3. d \in Digests /\ d \notin {None, Ghost}
    BY <2>2, GhostIsNoDigest DEF Matches
  <2>4. PICK b : b = BuildDigest(turns[s][n], Formed(engram, s, n))
    OBVIOUS
  <2>5. /\ b = [status |-> b.status, text |-> b.text, engrams |-> b.engrams, calls |-> b.calls]
        /\ b.status = turns[s][n].status /\ b.text = turns[s][n].text
        /\ b.engrams = Formed(engram, s, n) /\ b.calls = BuildDigest(turns[s][n], {}).calls
    BY <2>4 DEF BuildDigest
  <2>6. [d EXCEPT !.engrams = @ \cap Rows]
          = [status |-> d.status, text |-> d.text, engrams |-> d.engrams \cap Rows, calls |-> d.calls]
    <3>1. PICK cards : cards = d.engrams \cap Rows
      OBVIOUS
    <3>2. [d EXCEPT !.engrams = cards]
            = [status |-> d.status, text |-> d.text, engrams |-> cards, calls |-> d.calls]
      BY <2>3 DEF Digests
    <3> QED BY <3>1, <3>2
  <2>7. [d EXCEPT !.engrams = @ \cap Rows] = b
    BY <2>2, <2>5, <2>6 DEF Matches
  <2> QED BY <2>1, <2>3, <2>4, <2>7
<1> QED BY <1>1, InvariantHolds, PTL
=============================================================================
