--------------------------- MODULE MCTemporalLobe ---------------------------
(* A manager and a developer, an epic, its story and the story's task.     *)
EXTENDS TemporalLobe

KindOf == [d \in {"pm", "dev"} |-> IF d = "pm" THEN "PM" ELSE "WORKER"]
Cycle(kinds) == [i \in DOMAIN kinds |-> [shift |-> kinds[i],
                   staff |-> IF kinds[i] = "EXECUTING" THEN {"dev"} ELSE {"pm", "dev"}]]
Planning  == Cycle(<<"SIFTING", "PRE_PLANNING">>)
Executing == Cycle(<<"EXECUTING", "POST_EXECUTION">>)
SomeBlueprints == {Planning, Executing}

Three == {"epic", "story", "task"}
TypeOf   == [x \in Three |-> CASE x = "epic" -> "EPIC" [] x = "story" -> "STORY" [] x = "task" -> "TASK"]
ParentOf == [x \in Three |-> CASE x = "epic" -> None [] x = "story" -> "epic" [] x = "task" -> "story"]

Row(status) == [status |-> status, owner |-> None, bid |-> FALSE, ready |-> FALSE]
Board(e, s, k) == [x \in Three |-> CASE x = "epic" -> Row(e) [] x = "story" -> Row(s) [] x = "task" -> Row(k)]
SomeBoards == {Board("REFINE", "REFINE", "absent"), Board("SELECTED", "absent", "absent"),
               Board("SELECTED", "BACKLOG", "absent"), Board("SELECTED", "SELECTED", "SELECTED")}

Alone == [trains |-> 1, crashes |-> 0, losses |-> 0, edits |-> 0, acts |-> 3, iterations |-> 2]
OneTrain == {Alone, [Alone EXCEPT !.acts = 1, !.crashes = 1],
             [Alone EXCEPT !.acts = 1, !.edits = 1],
             [Alone EXCEPT !.acts = 0, !.edits = 1, !.iterations = 3],
             [Alone EXCEPT !.acts = 0, !.crashes = 1, !.iterations = 3],
             [Alone EXCEPT !.acts = 0, !.losses = 1]}
=============================================================================
