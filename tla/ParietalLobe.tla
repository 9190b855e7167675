----------------------------- MODULE ParietalLobe -----------------------------
(***************************************************************************)
(* The turns of reasoning sessions: the prompt that the addons of the      *)
(* identity build from what earlier turns left, the answer of the model,   *)
(* the tools it calls (parietal_lobe, its MCP gateway and the memory       *)
(* tools), the focus they cost and earn, and the digests of turns that a   *)
(* screen follows.                                                         *)
(*                                                                         *)
(* One run of the loop at a time works on a session here; how runs and     *)
(* requests of one session overlap is the matter of ReasoningSession.      *)
(***************************************************************************)
EXTENDS Hippocampus, Integers, SequencesExt

CONSTANTS
  Tools,            \* names that ToolDefinition has
  FocusModifier, XpReward,  \* of a tool's use type
  Settings          \* the instances: records with the fields read below

TurnStatuses == {"ACTIVE", "COMPLETED", "ERROR"}
Texts    == {""} \cup UNION {{r.text : r \in c.replies} : c \in Settings}
ToolCall == [tool : Tools, status : TurnStatuses, found : SUBSET Engrams]
Digests  == [status : TurnStatuses, text : Texts, engrams : SUBSET Engrams,
             calls : Seq(Tools \X {"yes", "no", "running"})]

ASSUME TurnsAssumption ==
  /\ FocusModifier \in [Tools -> Int] /\ XpReward \in [Tools -> Nat]
  /\ \A c \in Settings :
       /\ c.maxTurns \in Nat \ {0} /\ c.maxMessages \in Nat /\ c.maxFaults \in Nat
       /\ c.legacy \in BOOLEAN /\ c.sessions \subseteq Sessions
  /\ None \notin Digests

VARIABLES
  setting,          \* the instance; never changes
  row,              \* ReasoningSession in the database
  mem,              \* the session object of the run
  run,              \* where the run is
  turns,            \* ReasoningTurn with its usage record, ToolCalls and digest
  screen,           \* the page that follows the session
  said,             \* messages so far
  faults,           \* faults so far
  executed,         \* history: the calls whose tool was called
  cut               \* history: turns in which a run died

vars == <<memory, setting, row, mem, run, turns, screen, said, faults, executed, cut>>
trouble == <<faults, cut>>

Addons      == setting.addons       \* of the identity disc
Legacy      == setting.legacy       \* they name a function_slug, no addon_class_name
MaxTurns    == setting.maxTurns     \* max_turns of a session
Replies     == setting.replies      \* what the model may answer: [text, calls]
MaxMessages == setting.maxMessages  \* bound: messages humans send
Faults      == setting.faults       \* what may go wrong,
MaxFaults   == setting.maxFaults    \* and the bound of how often

-----------------------------------------------------------------------------
(* Focus: a session object o has focus, xp and the queue. *)

Least(a, b) == IF a < b THEN a ELSE b
Level(o)    == o.xp \div 100 + 1
MaxFocus(o) == 10 + (Level(o) - 1) \div 2

(* thought_process looks for the content at the top of the payload, where  *)
(* no answer of litellm has it: every output counts as empty.              *)
WasEfficientLastTurn(s, n) == TRUE

(* The bonus is in the object only; the next tool call saves it.           *)
ApplyEfficiencyBonus(s, n, o) ==
  IF n > 1 /\ WasEfficientLastTurn(s, n)
  THEN [o EXCEPT !.focus = Least(MaxFocus(o), @ + 1), !.xp = @ + 5] ELSE o

Modifier(tool) == IF tool \in Tools THEN FocusModifier[tool] ELSE 0

(* on_tool_pre and on_tool_post of Focus.                                  *)
Fizzles(o, tool) == Modifier(tool) < 0 /\ o.focus + Modifier(tool) < 0
Charged(o, tool) ==
  LET earned == Least(MaxFocus(o), o.focus + Modifier(tool)) IN
  [o EXCEPT !.focus = IF earned < 0 THEN 0 ELSE earned, !.xp = @ + XpReward[tool]]

-----------------------------------------------------------------------------
(* The messages of a prompt. *)

Human(m)  == [role |-> "user", human |-> TRUE, msg |-> m]
System(b) == [role |-> "system", blocks |-> b]
ToolMessage(n, k, warn) == [role |-> "tool", id |-> <<n, k>>, warn |-> warn]

DecayWarningAge    == 2
EvictionWarningAge == 3
(* mutant: a result stays one turn longer.                                 *)
EvictedLate(age) == age >= 5
Evicted(age)     == age >= 4

Warning(age) == IF age = EvictionWarningAge THEN "eviction"
                ELSE IF age = DecayWarningAge THEN "decay" ELSE "none"

(* Only messages with the human tag are taken from a request.              *)
ExtractUserMessages(request) ==
  FlattenSeq([i \in DOMAIN request |->
    IF request[i].role = "user" /\ request[i].human THEN <<request[i]>> ELSE <<>>])

(* mutant: the calls are not stripped when their results go.               *)
BuildAssistantUnstripped(t, n, evicted) ==
  LET calls == [k \in DOMAIN t.calls |-> <<n, k>>] IN
  IF t.answered /\ (t.text # "" \/ calls # <<>>)
  THEN <<[role |-> "assistant", text |-> t.text, calls |-> calls]>> ELSE <<>>
(* The calls of the message are the ToolCall rows and not what the model   *)
(* asked for; evicted they are stripped, and a message without words goes. *)
BuildAssistant(t, n, evicted) ==
  LET calls == IF evicted THEN <<>> ELSE [k \in DOMAIN t.calls |-> <<n, k>>] IN
  IF t.answered /\ (t.text # "" \/ calls # <<>>)
  THEN <<[role |-> "assistant", text |-> t.text, calls |-> calls]>> ELSE <<>>

BuildToolMessages(t, n, age) ==
  IF Evicted(age) THEN <<>>
  ELSE [k \in DOMAIN t.calls |-> ToolMessage(n, k, Warning(age))]

Remembered(t, n, age, evicted) ==
  IF ~t.asked THEN <<>>
  ELSE ExtractUserMessages(t.request) \o BuildAssistant(t, n, evicted)
       \o BuildToolMessages(t, n, age)

(* The last six turns, of which the last three have their calls.           *)
RiverOfSix(s, n) ==
  LET first == IF n - 6 > 1 THEN n - 6 ELSE 1
      Of(m) == Remembered(turns[s][m], m, n - m, Evicted(n - m))
  IN FlattenSeq([i \in 1..(n - first) |-> Of(first + i - 1)])
river_of_six_addon(s, n) == RiverOfSix(s, n)

(* Everything, without warnings.                                           *)
NormalChat(s, n) ==
  FlattenSeq([m \in 1..(n - 1) |-> Remembered(turns[s][m], m, 1, FALSE)])
normal_chat_addon(s, n) == NormalChat(s, n)

(* What the other addons say, up to its wording; to be told what there is  *)
(* to know of the last turn, telemetry measures the whole payload.         *)
FocusBlock(s, n, o) == <<"focus", o.focus = 0, o.focus = MaxFocus(o) /\ n > 1,
                         n > 1 /\ WasEfficientLastTurn(s, n)>>
focus_addon(s, n, o) == FocusBlock(s, n, o)
Telemetry(s, n) ==
  <<"telemetry", IF n > 1 /\ turns[s][n - 1].answered
                 THEN turns[s][n - 1].text # "long" ELSE FALSE>>
telemetry_addon(s, n) == Telemetry(s, n)
Deadline(n) ==
  <<"deadline", IF MaxTurns - n = 1 THEN "CRITICAL"
                ELSE IF MaxTurns - n <= 5 THEN "WARNING" ELSE "">>
deadline_addon(n) == Deadline(n)
HippocampusBlock(s, n)  == <<"catalog", Catalog(s, n)>>
hippocampus_addon(s, n) == HippocampusBlock(s, n)
IdentityInfo(n)        == <<"identity", n>>
identity_info_addon(n) == IdentityInfo(n)
YourMove        == <<"your move">>
your_move_addon == YourMove

(* The prompt of the neuron, without the tag of a human.                   *)
Prompt       == <<[role |-> "user", human |-> FALSE, msg |-> "prompt"]>>
prompt_addon == Prompt

(* An addon is a function of the old registry or the handler of its class. *)
Said(function, handler) == IF Legacy THEN function ELSE handler

(* dispatch_phase: identify, context and terminal give blocks of the       *)
(* system message ...                                                      *)
Block(addon, s, n, o) ==
  CASE addon = "Focus"     -> Said(focus_addon(s, n, o), FocusBlock(s, n, o))
    [] addon = "Telemetry" -> Said(telemetry_addon(s, n), Telemetry(s, n))
    [] addon = "Deadline"  -> Said(deadline_addon(n), Deadline(n))
    [] addon = "Hippocampus_" -> Said(hippocampus_addon(s, n), HippocampusBlock(s, n))
    [] addon = "IdentityInfo" -> Said(identity_info_addon(n), IdentityInfo(n))
    [] addon = "YourMove"  -> Said(your_move_addon, YourMove)

(* ... the history comes before what Prompt says.                          *)
History(s, n) ==
  IF "RiverOfSix" \in Addons THEN Said(river_of_six_addon(s, n), RiverOfSix(s, n))
  ELSE IF "NormalChat" \in Addons THEN Said(normal_chat_addon(s, n), NormalChat(s, n))
  ELSE <<>>
Task == IF "Prompt" \in Addons THEN Said(prompt_addon, Prompt) ELSE <<>>
Speakers == Addons \ {"RiverOfSix", "NormalChat", "Prompt"}

(* compile_system_messages: one system message, at the head.               *)
Compiled(blocks, chat) == IF blocks = {} THEN chat ELSE <<System(blocks)>> \o chat

Payload(s, n, o) ==
  Compiled({Block(a, s, n, o) : a \in Speakers},
           History(s, n) \o Task \o [i \in DOMAIN o.queue |-> Human(o.queue[i])])

-----------------------------------------------------------------------------
(* Digests, and the screen. *)

Formed(cards, s, n) == {e \in Engrams : cards[e].is = "row" /\ <<s, n>> \in cards[e].turns}
ToolSuccess(call) == CASE call.status = "COMPLETED" -> "yes"
                       [] call.status = "ERROR" -> "no" [] OTHER -> "running"
BuildDigest(t, formed) ==
  [status |-> t.status, text |-> t.text, engrams |-> formed,
   calls |-> [k \in DOMAIN t.calls |-> <<t.calls[k].tool, ToolSuccess(t.calls[k])>>]]
Ghost == [ghost |-> TRUE]

(* A neurotransmitter reaches whoever is connected, and nobody later.      *)
Shown(s, n, vesicle) == IF screen[s].on THEN [screen EXCEPT ![s].seen[n] = vesicle] ELSE screen

(* The signals of a saved turn: a ghost before there is a usage record,    *)
(* then the digest is written and broadcast.                               *)
SaveTurn(s, n, t) ==
  LET d == IF t.asked THEN BuildDigest(t, Formed(engram, s, n)) ELSE None IN
  /\ turns' = [turns EXCEPT ![s] = IF n \in DOMAIN @ THEN [@ EXCEPT ![n] = [t EXCEPT !.digest = d]]
                                   ELSE Append(@, t)]
  /\ screen' = Shown(s, n, IF t.asked THEN d ELSE Ghost)

(* Calls are saved by themselves, and no signal looks at the digest.       *)
SaveCall(s, n, k, call) == turns' = [turns EXCEPT ![s][n].calls[k] = call]

LastSeen(s) ==
  LET seen == {n \in 1..MaxTurns : screen[s].seen[n] \notin {None, Ghost}} IN
  IF seen = {} THEN 0 ELSE CHOOSE n \in seen : \A m \in seen : m <= n

(* graph_data?since_turn_number=...                                        *)
GraphData(s, since) == {n \in DOMAIN turns[s] : turns[s][n].digest # None /\ n > since}

Disconnect(s) ==
  /\ screen[s].on
  /\ screen' = [screen EXCEPT ![s].on = FALSE]
  /\ UNCHANGED <<row, mem, run, turns, said, executed, cut, memory>>

(* The page subscribes again and asks for the turns after the last it saw. *)
Reconnect(s) ==
  /\ ~screen[s].on
  /\ screen' = [screen EXCEPT ![s] =
       [on |-> TRUE, gap |-> @.gap \cup {LastSeen(s)},
        seen |-> [n \in 1..MaxTurns |->
          IF n \in GraphData(s, LastSeen(s)) THEN turns[s][n].digest ELSE @.seen[n]]]]
  /\ UNCHANGED <<row, mem, run, turns, said, executed, trouble, memory>>

-----------------------------------------------------------------------------
Idle == [pc |-> "idle", turn |-> 0, prompt |-> <<>>, todo |-> <<>>, call |-> 0, tool |-> ""]

Init ==
  /\ InitMemory
  /\ setting \in Settings
  /\ row = [s \in Sessions |-> [status |-> IF s \in setting.sessions THEN "ACTIVE" ELSE "COMPLETED",
                                focus |-> 10, xp |-> 0, queue |-> <<>>]]
  /\ mem = [s \in Sessions |-> [focus |-> 0, xp |-> 0, queue |-> <<>>]]
  /\ run = [s \in Sessions |-> IF s \in setting.sessions THEN [Idle EXCEPT !.pc = "queued"] ELSE Idle]
  /\ turns = [s \in Sessions |-> <<>>]
  /\ screen = [s \in Sessions |-> [on |-> TRUE, gap |-> {}, seen |-> [n \in 1..MaxTurns |-> None]]]
  /\ said = 0 /\ faults = 0 /\ executed = {} /\ cut = {}

At(s, pc) == run[s].pc = pc
Go(s, pc) == run' = [run EXCEPT ![s].pc = pc]
Turn(s)   == turns[s][run[s].turn]
NewTurn == [status |-> "ACTIVE", asked |-> FALSE, answered |-> FALSE, request |-> <<>>,
            text |-> "", calls |-> <<>>, digest |-> None]

(* inject_swarm_chatter.                                                   *)
Talk(s) ==
  /\ said < MaxMessages /\ said' = said + 1
  /\ row' = [row EXCEPT ![s] = [@ EXCEPT
       !.queue = Append(row[s].queue, said + 1),
       !.status = IF row[s].status = "ATTENTION_REQUIRED" THEN "ACTIVE" ELSE row[s].status]]
  /\ IF row[s].status = "ATTENTION_REQUIRED" /\ At(s, "idle") THEN Go(s, "queued")
     ELSE run' = run
  /\ UNCHANGED <<mem, turns, screen, executed, trouble, memory>>

(* A run that died leaves the session ACTIVE, and its spike is fired again.*)
Rerun(s) ==
  /\ At(s, "idle") /\ row[s].status = "ACTIVE"
  /\ Go(s, "queued")
  /\ UNCHANGED <<row, mem, turns, screen, said, executed, trouble, memory>>

LoadSession(s) ==
  /\ At(s, "queued")
  /\ mem' = [mem EXCEPT ![s] = [focus |-> row[s].focus, xp |-> row[s].xp, queue |-> row[s].queue]]
  /\ row' = [row EXCEPT ![s].status = "ACTIVE"]
  /\ Go(s, "find")
  /\ UNCHANGED <<turns, screen, said, executed, trouble, memory>>

(* The turn that is ACTIVE, or a new one.                                  *)
FindTurn(s) ==
  LET open == {n \in DOMAIN turns[s] : turns[s][n].status = "ACTIVE"} IN
  /\ At(s, "find")
  /\ IF Len(turns[s]) >= MaxTurns
     THEN Go(s, "end") /\ UNCHANGED <<turns, screen>>
     ELSE IF open # {}
     THEN /\ run' = [run EXCEPT ![s] = [@ EXCEPT !.pc = "build",
                       !.turn = CHOOSE n \in open : \A m \in open : n <= m]]
          /\ UNCHANGED <<turns, screen>>
     ELSE /\ run' = [run EXCEPT ![s] = [@ EXCEPT !.pc = "build", !.turn = Len(turns[s]) + 1]]
          /\ SaveTurn(s, Len(turns[s]) + 1, NewTurn)
  /\ UNCHANGED <<row, mem, said, executed, trouble, memory>>

(* _build_turn_payload: Focus gives its bonus on the way, and the queue of *)
(* the run, tagged, ends the prompt and is cleared.                        *)
BuildPrompt(s) ==
  LET n == run[s].turn
      o == IF "Focus" \in Addons THEN ApplyEfficiencyBonus(s, n, mem[s]) ELSE mem[s]
  IN
  /\ At(s, "build")
  /\ run' = [run EXCEPT ![s] = [@ EXCEPT !.pc = "ask", !.prompt = Payload(s, n, o)]]
  /\ mem' = [mem EXCEPT ![s] = [o EXCEPT !.queue = <<>>]]
  /\ row' = IF o.queue = <<>> THEN row ELSE [row EXCEPT ![s].queue = <<>>]
  /\ UNCHANGED <<turns, screen, said, executed, trouble, memory>>

(* The usage record is saved before the model is asked.                    *)
Ask(s) ==
  /\ At(s, "ask")
  /\ SaveTurn(s, run[s].turn, [Turn(s) EXCEPT !.asked = TRUE, !.answered = FALSE,
                                              !.text = "", !.request = run[s].prompt])
  /\ run' = [run EXCEPT ![s] = [@ EXCEPT !.pc = "think", !.prompt = <<>>]]
  /\ UNCHANGED <<row, mem, said, executed, trouble, memory>>

(* The answer, its calls also when they come as text; the turn is          *)
(* COMPLETED before its tools begin.                                       *)
Think(s) ==
  /\ At(s, "think")
  /\ \E r \in Replies :
       /\ SaveTurn(s, run[s].turn, [Turn(s) EXCEPT !.answered = TRUE, !.text = r.text,
                                                   !.status = "COMPLETED"])
       /\ run' = [run EXCEPT ![s] = [@ EXCEPT !.pc = IF r.calls = <<>> THEN "sleep" ELSE "tools",
                                             !.todo = r.calls]]
  /\ UNCHANGED <<row, mem, said, executed, trouble, memory>>

(* Eight models have failed.                                               *)
NoAnswer(s) ==
  /\ At(s, "think")
  /\ SaveTurn(s, run[s].turn, [Turn(s) EXCEPT !.status = "COMPLETED"])
  /\ Go(s, "sleep")
  /\ UNCHANGED <<row, mem, said, executed, cut, memory>>

Paralysis(s) ==
  /\ At(s, "think")
  /\ row' = [row EXCEPT ![s].status = "MAXED_OUT"]
  /\ SaveTurn(s, run[s].turn, [Turn(s) EXCEPT !.status = "ERROR"])
  /\ Go(s, "end")
  /\ UNCHANGED <<mem, said, executed, cut, memory>>

Sleep(s) ==
  /\ At(s, "sleep")
  /\ row' = [row EXCEPT ![s].status = "ATTENTION_REQUIRED"]
  /\ Go(s, "end")
  /\ UNCHANGED <<mem, turns, screen, said, executed, trouble, memory>>

-----------------------------------------------------------------------------
(* process_tool_calls: what earns most goes first. *)

NextCall(todo) ==
  CHOOSE i \in DOMAIN todo :
    /\ \A j \in DOMAIN todo : Modifier(todo[j]) <= Modifier(todo[i])
    /\ \A j \in 1..(i - 1) : Modifier(todo[j]) < Modifier(todo[i])

NewCall(tool, status) == [tool |-> tool, status |-> status, found |-> {}]

(* Handlers veto a call; the functions of the old registry have no say.    *)
Vetoed(s, tool) == ~Legacy /\ "Focus" \in Addons /\ Fizzles(mem[s], tool)

(* mutant: the row is created when the tool has answered.                  *)
BeginCallUnrecorded(s) ==
  LET i == NextCall(run[s].todo)
      tool == run[s].todo[i]
      calls == turns[s][run[s].turn].calls
  IN
  /\ At(s, "tools") /\ run[s].todo # <<>>
  /\ turns' = turns
  /\ run' = [run EXCEPT ![s] = [@ EXCEPT
       !.todo = RemoveAt(run[s].todo, i), !.call = Len(calls) + 1, !.tool = tool,
       !.pc = IF tool \in Tools /\ ~Vetoed(s, tool) THEN "exec" ELSE "tools"]]
  /\ UNCHANGED <<row, mem, screen, said, executed, trouble, memory>>

(* An unknown tool leaves no row, a vetoed one an ERROR, and any other a   *)
(* row that is ACTIVE before the tool is called.                           *)
BeginCall(s) ==
  LET i == NextCall(run[s].todo)
      tool == run[s].todo[i]
      n == run[s].turn
      goes == tool \in Tools /\ ~Vetoed(s, tool)
  IN
  /\ At(s, "tools") /\ run[s].todo # <<>>
  /\ turns' = IF tool \notin Tools THEN turns
              ELSE [turns EXCEPT ![s][n].calls =
                      Append(@, NewCall(tool, IF goes THEN "ACTIVE" ELSE "ERROR"))]
  /\ run' = [run EXCEPT ![s] = [@ EXCEPT
       !.todo = RemoveAt(run[s].todo, i), !.pc = IF goes THEN "exec" ELSE "tools",
       !.call = Len(turns[s][n].calls) + 1, !.tool = tool]]
  /\ UNCHANGED <<row, mem, screen, said, executed, trouble, memory>>

Called(s) == Turn(s).calls[run[s].call]
Executing(s) == executed' = executed \cup {<<s, run[s].turn, run[s].call, run[s].tool>>}

(* The gateway calls the tool; mcp_pass and the tools that hand the turn   *)
(* over read a session of their own and write it.                          *)
ExecutePass(s) ==
  /\ At(s, "exec") /\ run[s].tool = "pass"
  /\ row' = [row EXCEPT ![s].focus = MaxFocus(row[s])]
  /\ Executing(s) /\ Go(s, "record")
  /\ UNCHANGED <<mem, turns, screen, said, trouble, memory>>

ExecuteYield(s) ==
  /\ At(s, "exec") /\ run[s].tool = "yield"
  /\ row' = [row EXCEPT ![s].status = IF @ = "ACTIVE" THEN "ATTENTION_REQUIRED" ELSE @]
  /\ Executing(s) /\ Go(s, "record")
  /\ UNCHANGED <<mem, turns, screen, said, trouble, memory>>

ExecuteMemory(s) ==
  /\ At(s, "exec") /\ run[s].tool \in {"save", "update", "read"}
  /\ \/ /\ run[s].tool = "save"
        /\ \E title \in Titles, fact \in Facts : SaveBegin(s, run[s].turn, title, fact)
     \/ /\ run[s].tool = "update"
        /\ \E e \in Engrams, fact \in Facts : UpdateRead(s, run[s].turn, e, fact)
     \/ /\ run[s].tool = "read"
        /\ \E e \in Engrams : ReadEngram(s, e)
  /\ Executing(s) /\ Go(s, "memory")
  /\ UNCHANGED <<row, mem, turns, screen, said, trouble>>

(* Any other tool; what it answers in an error is a result like others.    *)
ExecuteOther(s) ==
  /\ At(s, "exec") /\ run[s].tool \notin {"pass", "yield", "save", "update", "read"}
  /\ Executing(s) /\ Go(s, "record")
  /\ IF run[s].tool # "search" THEN turns' = turns
     ELSE \E fact \in Facts :
            SaveCall(s, run[s].turn, run[s].call,
                     [Called(s) EXCEPT !.found = SearchEngrams(fact)])
  /\ UNCHANGED <<row, mem, screen, said, trouble, memory>>

(* A link between an engram and a turn has the digest of the turn built.   *)
MemoryStep(s) ==
  LET n == run[s].turn
      d == BuildDigest(turns[s][n], Formed(engram', s, n))
  IN
  /\ At(s, "memory") /\ ~Answered(s)
  /\ OpSteps(s)
  /\ IF Formed(engram', s, n) \subseteq Formed(engram, s, n) THEN UNCHANGED <<turns, screen>>
     ELSE turns' = [turns EXCEPT ![s][n].digest = d] /\ screen' = Shown(s, n, d)
  /\ UNCHANGED <<row, mem, run, said, executed, trouble>>

(* Whatever the tool answered, the call is COMPLETED.                      *)
RecordCall(s) ==
  LET n == run[s].turn
      k == run[s].call
  IN
  /\ At(s, "record") \/ (At(s, "memory") /\ Answered(s))
  /\ turns' = [turns EXCEPT ![s][n].calls = [j \in DOMAIN @ |->
                 IF j = k THEN [@[j] EXCEPT !.status = "COMPLETED"] ELSE @[j]]]
  /\ op' = [op EXCEPT ![s] = NoOp]
  /\ Go(s, "post")
  /\ UNCHANGED <<row, mem, screen, said, executed, trouble, engram, told, raced, shared>>

(* on_tool_post: the focus and the xp of the run's object are saved.       *)
Post(s) ==
  /\ At(s, "post")
  /\ IF Legacy \/ "Focus" \notin Addons THEN UNCHANGED <<row, mem>>
     ELSE LET o == Charged(mem[s], run[s].tool) IN
          /\ mem' = [mem EXCEPT ![s] = o]
          /\ row' = [row EXCEPT ![s] = [@ EXCEPT !.focus = o.focus, !.xp = o.xp]]
  /\ Go(s, "tools")
  /\ UNCHANGED <<turns, screen, said, executed, trouble, memory>>

(* A handler fails: the call is an ERROR although the tool has run.        *)
PostFails(s) ==
  /\ At(s, "post")
  /\ SaveCall(s, run[s].turn, run[s].call, [Called(s) EXCEPT !.status = "ERROR"])
  /\ Go(s, "tools")
  /\ UNCHANGED <<row, mem, screen, said, executed, cut, memory>>

(* mutant: the digest is left as the answer of the model made it.          *)
EndToolsAsIs(s) ==
  /\ At(s, "tools") /\ run[s].todo = <<>>
  /\ UNCHANGED <<turns, screen>>
  /\ run' = [run EXCEPT ![s] = [Idle EXCEPT
               !.pc = IF row[s].status = "ACTIVE" THEN "find" ELSE "end"]]
  /\ UNCHANGED <<row, mem, said, executed, trouble, memory>>
EndTools(s) ==
  /\ At(s, "tools") /\ run[s].todo = <<>>
  /\ SaveTurn(s, run[s].turn, Turn(s))
  /\ run' = [run EXCEPT ![s] = [Idle EXCEPT
               !.pc = IF row[s].status = "ACTIVE" THEN "find" ELSE "end"]]
  /\ UNCHANGED <<row, mem, said, executed, trouble, memory>>

EndRun(s) ==
  /\ At(s, "end")
  /\ row' = [row EXCEPT ![s].status = IF @ = "ACTIVE" THEN "COMPLETED" ELSE @]
  /\ run' = [run EXCEPT ![s] = Idle]
  /\ UNCHANGED <<mem, turns, screen, said, executed, trouble, memory>>

Dies(s) ==
  /\ run[s].pc \notin {"idle", "queued"}
  /\ run' = [run EXCEPT ![s] = Idle]
  /\ op' = [op EXCEPT ![s] = NoOp]
  /\ cut' = IF run[s].turn = 0 THEN cut ELSE cut \cup {<<s, run[s].turn>>}
  /\ shared' = IF op[s].pc = "vector" THEN shared \cup {op[s].id} ELSE shared
  /\ UNCHANGED <<mem, turns, screen, said, executed, engram, told, raced>>

Crash(s) == Dies(s) /\ UNCHANGED row

(* An exception outside of a tool; every column is saved as the run has it.*)
Fail(s) ==
  /\ run[s].pc \in {"find", "build", "ask", "think"} \/ (At(s, "tools") /\ run[s].todo = <<>>)
  /\ Dies(s)
  /\ row' = [row EXCEPT ![s] = [status |-> "ERROR", focus |-> mem[s].focus,
                                xp |-> mem[s].xp, queue |-> mem[s].queue]]

Fault(kind) == kind \in Faults /\ faults < MaxFaults /\ faults' = faults + 1

RunStep(s) ==
  \/ LoadSession(s) \/ FindTurn(s) \/ BuildPrompt(s) \/ Ask(s) \/ Think(s) \/ Sleep(s)
  \/ BeginCall(s) \/ ExecutePass(s) \/ ExecuteYield(s) \/ ExecuteMemory(s) \/ ExecuteOther(s)
  \/ MemoryStep(s) \/ RecordCall(s) \/ Post(s) \/ EndTools(s) \/ EndRun(s)

Changes ==
  \/ \E s \in setting.sessions : RunStep(s) \/ Talk(s) \/ Rerun(s) \/ Reconnect(s)
  \/ \E s \in setting.sessions :
       \/ Fault("crash") /\ Crash(s)
       \/ Fault("fail") /\ Fail(s)
       \/ Fault("model") /\ (NoAnswer(s) \/ Paralysis(s))
       \/ Fault("post") /\ PostFails(s)
       \/ Fault("screen") /\ Disconnect(s)
  \/ /\ Fault("operator") /\ Operator
     /\ UNCHANGED <<row, mem, run, turns, screen, said, executed, cut>>

Next == Changes /\ UNCHANGED setting

Spec == Init /\ [][Next]_vars

-----------------------------------------------------------------------------
IsSequence(q) == q \in Seq({q[i] : i \in DOMAIN q})

(* What is in a prompt, and what a model asks for, is left open.           *)
IsRun(r) ==
  r \in [pc : {"idle", "queued", "find", "build", "ask", "think", "tools", "exec", "record",
               "memory", "post", "sleep", "end"},
         turn : Nat, call : Nat, prompt : {r.prompt}, todo : {r.todo}, tool : {r.tool}]
IsTurn(t) ==
  t \in [status : TurnStatuses, asked : BOOLEAN, answered : BOOLEAN, request : {t.request},
         text : Texts, calls : Seq(ToolCall), digest : {None} \cup Digests]

RunsOK   == run = [s \in Sessions |-> run[s]] /\ \A s \in Sessions : IsRun(run[s])
TurnsOK  == /\ turns = [s \in Sessions |-> turns[s]]
            /\ \A s \in Sessions : IsSequence(turns[s]) /\ \A n \in DOMAIN turns[s] : IsTurn(turns[s][n])
RowsOK   == /\ row \in [Sessions -> [status : {"ACTIVE", "COMPLETED", "ATTENTION_REQUIRED",
                                               "MAXED_OUT", "ERROR"},
                                     focus : Int, xp : Nat, queue : Seq(Nat)]]
            /\ mem \in [Sessions -> [focus : Int, xp : Nat, queue : Seq(Nat)]]
ScreenOK == screen \in [Sessions -> [on : BOOLEAN, gap : SUBSET Nat,
                                    seen : [1..MaxTurns -> {None, Ghost} \cup Digests]]]
TypeOK ==
  /\ MemoryTypeOK /\ setting \in Settings /\ RowsOK /\ RunsOK /\ TurnsOK /\ ScreenOK
  /\ said \in Nat /\ faults \in Nat
  /\ executed \subseteq Sessions \X Nat \X Nat \X Tools /\ cut \subseteq Sessions \X Nat

Asked(s) == {n \in DOMAIN turns[s] : turns[s][n].asked}
Requests == UNION {{turns[s][n].request : n \in Asked(s)} : s \in Sessions}

(* In every prompt the calls of an assistant's message are followed by     *)
(* their results, and there is no result without its call: whatever was    *)
(* evicted, vetoed, unknown or cut short, the model is given a             *)
(* conversation that providers accept.                                     *)
CallsAnswered ==
  \A q \in Requests : \A i \in DOMAIN q :
    /\ q[i].role = "assistant" =>
         \A j \in DOMAIN q[i].calls :
           i + j <= Len(q) /\ q[i + j].role = "tool" /\ q[i + j].id = q[i].calls[j]
    /\ q[i].role = "tool" =>
         \E h \in 1..(i - 1) : q[h].role = "assistant" /\ q[h].calls # <<>> /\
           i - h <= Len(q[h].calls) /\ q[h].calls[i - h] = q[i].id

Results(q) == {q[i] : i \in {j \in DOMAIN q : q[j].role = "tool"}}
Ids(q) == {r.id : r \in Results(q)}

(* A result leaves the prompt after the turn whose prompt warned of it,    *)
(* and never without: the model had its chance to save it to an engram.    *)
EvictionAnnounced ==
  \A s \in Sessions : \A n \in 2..Len(turns[s]) :
    turns[s][n].asked /\ turns[s][n - 1].asked /\ "RiverOfSix" \in Addons =>
      \A r \in Results(turns[s][n - 1].request) :
        r.id \notin Ids(turns[s][n].request) <=> r.warn = "eviction"

(* A tool that was called has its ToolCall row in the turn, also when the  *)
(* run died before it had an answer.                                       *)
EffectsOnRecord ==
  \A x \in executed :
    /\ x[3] \in DOMAIN turns[x[1]][x[2]].calls
    /\ turns[x[1]][x[2]].calls[x[3]].tool = x[4]

(* A screen that is connected shows every turn but the one at work as it   *)
(* is: its status, its words, what became of each call and the engrams it  *)
(* formed, except the turn that was its last when it lost the connection,  *)
(* and turns in which a run died.                                          *)
ScreenCurrent ==
  \A s \in Sessions : screen[s].on =>
    \A n \in DOMAIN turns[s] :
      turns[s][n].asked /\ n # run[s].turn /\ n \notin screen[s].gap /\ <<s, n>> \notin cut =>
        LET d == screen[s].seen[n] IN
        /\ d \notin {None, Ghost}
        /\ [d EXCEPT !.engrams = @ \cap Rows] = BuildDigest(turns[s][n], Formed(engram, s, n))
=============================================================================
