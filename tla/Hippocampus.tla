----------------------------- MODULE Hippocampus -----------------------------
(***************************************************************************)
(* Memory: the engrams that reasoning sessions save, update and read       *)
(* (hippocampus/*.py and the mcp_engram tools; the MCP server and the      *)
(* REST API write the same table).                                         *)
(*                                                                         *)
(* Each call runs in a thread of its own and commits statement by          *)
(* statement; an embedding is asked of Ollama over HTTP, and while a call  *)
(* waits for it the calls of other sessions go on.                         *)
(***************************************************************************)
EXTENDS Naturals, Sequences, FiniteSets

CONSTANTS
  Sessions,           \* the callers
  Engrams,            \* rows there may be
  Titles, Facts,
  None

VARIABLES
  engram,             \* the table
  op,                 \* the call each session is in
  told,               \* history: the facts a session was told are in a card
  raced,              \* history: cards written over a text that was not read
  shared              \* history: cards that two calls were in, or one was cut short in

memory == <<engram, op, told, raced, shared>>

(* A text is the set of its facts, a vector the text it is made of.        *)
NoEngram == [is |-> "none", title |-> None, text |-> {}, vec |-> None, active |-> FALSE,
             creator |-> None, sessions |-> {}, turns |-> {}]
NoOp == [pc |-> "idle", id |-> None, title |-> None, text |-> {}, vec |-> None,
         turn |-> 0, fact |-> None, tags |-> FALSE, read |-> {}]

Card == [is : {"none", "row", "deleted"}, title : Titles \cup {None}, text : SUBSET Facts,
         vec : (SUBSET Facts) \cup {None}, active : BOOLEAN, creator : Sessions \cup {None},
         sessions : SUBSET Sessions, turns : SUBSET (Sessions \X Nat)]
Call == [pc : {"idle", "look", "create", "link", "write", "vector",
               "success", "rejected", "notice", "error"},
         id : Engrams \cup {None}, title : Titles \cup {None}, text : SUBSET Facts,
         vec : (SUBSET Facts) \cup {None}, turn : Nat, fact : Facts \cup {None},
         tags : BOOLEAN, read : SUBSET Facts]

MemoryTypeOK ==
  /\ engram \in [Engrams -> Card] /\ op \in [Sessions -> Call]
  /\ told \in [Engrams -> SUBSET Facts] /\ raced \subseteq Engrams /\ shared \subseteq Engrams

InitMemory ==
  /\ engram = [e \in Engrams |-> NoEngram]
  /\ op = [s \in Sessions |-> NoOp]
  /\ told = [e \in Engrams |-> {}] /\ raced = {} /\ shared = {}

Rows   == {e \in Engrams : engram[e].is = "row"}
Active == {e \in Rows : engram[e].active}
Unused == {e \in Engrams : engram[e].is = "none"}

(* Ollama answers, or it does not and there is no vector.                  *)
Embeddings(text) == {text, None}
(* A similarity of 0.90 or more.                                           *)
Similar(v, w) == v # None /\ v = w

(* _read_sync and the ends of _save_sync and _update_sync: the card is     *)
(* linked to the session and the turn, and is the disc's if it is nobody's.*)
Linked(e, s, n) ==
  [engram EXCEPT ![e] = [@ EXCEPT
     !.sessions = engram[e].sessions \cup {s},
     !.turns = engram[e].turns \cup (IF n = 0 THEN {} ELSE {<<s, n>>}),
     !.creator = IF engram[e].creator = None THEN s ELSE engram[e].creator]]

Answer(s, what) == op' = [op EXCEPT ![s] = [NoOp EXCEPT !.pc = what]]
Answered(s) == op[s].pc \in {"success", "rejected", "notice", "error"}

(* A call that has a card in its hands, which it has not done with.        *)
InCard(s, e) == op[s].pc \in {"link", "write", "vector"} /\ op[s].id = e

-----------------------------------------------------------------------------
(* save_engram. *)

SaveBegin(s, n, title, fact) ==
  /\ op[s].pc = "idle"
  /\ \E vec \in Embeddings({fact}), tags \in BOOLEAN :
       op' = [op EXCEPT ![s] = [NoOp EXCEPT !.pc = "look", !.title = title, !.text = {fact},
                                !.fact = fact, !.vec = vec, !.turn = n, !.tags = tags]]
  /\ UNCHANGED <<engram, told, raced, shared>>

(* What is known already is rejected, and so is a title that is taken; an  *)
(* engram that is not active counts.                                       *)
SaveLook(s) ==
  /\ op[s].pc = "look"
  /\ IF \E e \in Rows : Similar(engram[e].vec, op[s].vec) THEN Answer(s, "rejected")
     ELSE IF \E e \in Rows : engram[e].title = op[s].title THEN Answer(s, "notice")
     ELSE op' = [op EXCEPT ![s].pc = "create"]
  /\ UNCHANGED <<engram, told, raced, shared>>

(* The title is unique in the database.                                    *)
Taken(title) == \E e \in Rows : engram[e].title = title

SaveCreate(s) ==
  /\ op[s].pc = "create"
  /\ IF Taken(op[s].title)
     THEN Answer(s, "error") /\ UNCHANGED engram
     ELSE \E e \in Unused :
       /\ engram' = [engram EXCEPT ![e] = [NoEngram EXCEPT !.is = "row", !.active = TRUE,
                       !.title = op[s].title, !.text = op[s].text, !.vec = op[s].vec]]
       /\ op' = [op EXCEPT ![s] = [@ EXCEPT !.pc = "link", !.id = e]]
  /\ UNCHANGED <<told, raced, shared>>

(* The links; a tag is added last, and has the vector made again.          *)
SaveLink(s) ==
  /\ op[s].pc = "link"
  /\ LET e == op[s].id IN
     IF e \notin Rows
     THEN Answer(s, "error") /\ UNCHANGED <<engram, told>>
     ELSE /\ engram' = Linked(e, s, op[s].turn)
          /\ IF op[s].tags THEN op' = [op EXCEPT ![s].pc = "vector"] /\ told' = told
             ELSE Answer(s, "success") /\ told' = [told EXCEPT ![e] = @ \cup {op[s].fact}]
  /\ UNCHANGED <<raced, shared>>

-----------------------------------------------------------------------------
(* update_engram. *)

(* mutant: the new fact replaces what is there.                            *)
CombinedNewOnly(e, fact) == {fact}
Combined(e, fact) == engram[e].text \cup {fact}

(* The text is read here, and written after the embedding.                 *)
UpdateRead(s, n, e, fact) ==
  /\ op[s].pc = "idle"
  /\ IF e \notin Rows THEN Answer(s, "error")
     ELSE LET text == Combined(e, fact) IN
          \E vec \in Embeddings(text) :
            op' = [op EXCEPT ![s] = [NoOp EXCEPT !.pc = "write", !.id = e, !.text = text,
                                     !.fact = fact, !.vec = vec, !.turn = n,
                                     !.read = engram[e].text]]
  /\ shared' = IF e \in Rows /\ \E t \in Sessions \ {s} : InCard(t, e)
                THEN shared \cup {e} ELSE shared
  /\ UNCHANGED <<engram, told, raced>>

(* mutant: save() does not make the vector again.                          *)
NeedsVectorNever(s) == {FALSE}
(* save() makes the vector again unless the text is what it is already, if *)
(* the same facts, told by others meanwhile, are in the same words.        *)
NeedsVector(s) ==
  IF engram[op[s].id].text = op[s].text /\ op[s].text # op[s].read THEN BOOLEAN ELSE {TRUE}

UpdateWrite(s) ==
  /\ op[s].pc = "write"
  /\ LET e == op[s].id IN
     IF e \notin Rows
     THEN Answer(s, "error") /\ UNCHANGED <<engram, raced>>
     ELSE /\ engram' = [engram EXCEPT ![e] = [@ EXCEPT
               !.text = op[s].text,
               !.vec = IF op[s].vec = None THEN engram[e].vec ELSE op[s].vec,
               !.creator = IF engram[e].creator = None THEN s ELSE engram[e].creator]]
          /\ raced' = IF engram[e].text = op[s].read THEN raced ELSE raced \cup {e}
          /\ \E needs \in NeedsVector(s) :
               op' = [op EXCEPT ![s].pc = IF needs THEN "vector" ELSE "link"]
  /\ UNCHANGED <<told, shared>>

(* update_vector, from the text this call holds: a new description, or a   *)
(* tag, has the vector made again, and without an answer there is none.    *)
UpdateVector(s) ==
  /\ op[s].pc = "vector"
  /\ LET e == op[s].id IN
     IF e \notin Rows
     THEN Answer(s, "error") /\ UNCHANGED <<engram, told>>
     ELSE /\ \E vec \in Embeddings(op[s].text) :
               engram' = [Linked(e, s, op[s].turn) EXCEPT ![e].vec = vec]
          /\ told' = [told EXCEPT ![e] = @ \cup {op[s].fact}]
          /\ Answer(s, "success")
  /\ UNCHANGED <<raced, shared>>

-----------------------------------------------------------------------------
(* read_engram, search_engrams and the catalogs of the prompt. *)

ReadEngram(s, e) ==
  /\ op[s].pc = "idle"
  /\ IF e \in Active THEN engram' = Linked(e, s, 0) /\ Answer(s, "success")
     ELSE engram' = engram /\ Answer(s, "error")
  /\ UNCHANGED <<told, raced, shared>>

SearchEngrams(fact) == {e \in Active : fact \in engram[e].text}

(* The first turn is shown what other runs of the neuron have learnt, the  *)
(* later ones what the session has.                                        *)
Catalog(s, n) == IF n = 1 THEN {e \in Active : engram[e].sessions \ {s} # {} /\
                                               s \notin engram[e].sessions}
                 ELSE {e \in Active : s \in engram[e].sessions}

-----------------------------------------------------------------------------
(* Others at the table: the MCP server's save_engram, and the REST API.    *)

SaveFromOutside(title, fact) ==
  /\ ~Taken(title)
  /\ \E e \in Unused :
       engram' = [engram EXCEPT ![e] = [NoEngram EXCEPT !.is = "row", !.active = TRUE,
                                        !.title = title, !.text = {fact}]]
  /\ UNCHANGED <<op, told, raced, shared>>

Deactivate(e) ==
  /\ e \in Active /\ engram' = [engram EXCEPT ![e].active = FALSE]
  /\ UNCHANGED <<op, told, raced, shared>>

Delete(e) ==
  /\ e \in Rows /\ engram' = [engram EXCEPT ![e] = [NoEngram EXCEPT !.is = "deleted"]]
  /\ UNCHANGED <<op, told, raced, shared>>

(* The steps of a call that has begun.                                     *)
OpSteps(s) == \/ SaveLook(s) \/ SaveCreate(s) \/ SaveLink(s)
              \/ UpdateWrite(s) \/ UpdateVector(s)

Operator ==
  \/ \E title \in Titles, fact \in Facts : SaveFromOutside(title, fact)
  \/ \E e \in Engrams : Deactivate(e) \/ Delete(e)

-----------------------------------------------------------------------------
(* Rejections go by the vectors, and a card's vector is of the text that   *)
(* is in it or missing, although the text and the vector are written apart *)
(* and Ollama may answer the one time and not the other; only a call that  *)
(* is about to make it again leaves it behind meanwhile.  Not so in cards  *)
(* that two calls were in at once, or that the death of a worker cut short.*)
VectorOfText ==
  \A e \in Rows \ shared :
    engram[e].vec \in {None, engram[e].text} \/ \E s \in Sessions : op[s].pc = "vector" /\ op[s].id = e

(* What a session was told is in a card is in it, unless the card is gone  *)
(* or was updated from a text that somebody else had updated meanwhile.    *)
ToldIsKept ==
  \A e \in Rows : told[e] \subseteq engram[e].text \/ e \in raced
=============================================================================
