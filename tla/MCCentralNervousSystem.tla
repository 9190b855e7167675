----------------------- MODULE MCCentralNervousSystem -----------------------
(***************************************************************************)
(* The graphs the runs of CentralNervousSystem launch.                     *)
(*                                                                         *)
(*   Fork    begin -FLOW-> work        begin -SUCCESS-> last               *)
(*           last -SUCCESS-> repair                                        *)
(*   Box     begin -FLOW-> work        begin -SUCCESS-> box[inner]         *)
(*   Nested  begin -FLOW-> work -FAILURE-> repair                          *)
(*           begin -SUCCESS-> box[inner -SUCCESS-> last]                   *)
(*   Empty   work (the Begin Play) -SUCCESS-> last                         *)
(*                                                                         *)
(* box[...] is a container neuron with the pathway it invokes.  With       *)
(* AgentModes work is for every online agent, inner for the pinned one and *)
(* last for one that is available.                                         *)
(***************************************************************************)
EXTENDS CentralNervousSystem

CONSTANTS begin, work, repair, last, box, inner, outerPath, innerPath,
          worker1, worker2, agent1, agent2

Wire(s, ty, t) == [source |-> s, target |-> t, type |-> ty]

AllNeurons  == {begin, work, repair, last, box, inner}
AllPathways == {outerPath, innerPath}
NoPins      == [n \in AllNeurons |-> {}]
AllLocal    == [n \in AllNeurons |-> "local"]
BoxInvokes  == [n \in AllNeurons |-> IF n = box THEN innerPath ELSE None]
TwoWorkers  == {worker1, worker2}
OneWorker   == {worker1}
BothAgents  == {agent1, agent2}
OneAgent    == {agent1}

InnerPathHolds(ns) ==
  [n \in AllNeurons |-> IF n \in ns THEN innerPath ELSE outerPath]

OnlyInner     == InnerPathHolds({inner})
InnerAndLast  == InnerPathHolds({inner, last})

Begins   == {begin, inner}

ForkAxons   == {Wire(begin, "FLOW", work), Wire(begin, "SUCCESS", last),
                Wire(last, "SUCCESS", repair)}
BoxAxons    == {Wire(begin, "FLOW", work), Wire(begin, "SUCCESS", box)}
NestedAxons == {Wire(begin, "FLOW", work), Wire(work, "FAILURE", repair),
                Wire(begin, "SUCCESS", box), Wire(inner, "SUCCESS", last)}

AgentModes == [n \in AllNeurons |->
  CASE n = work -> "fleet" [] n = inner -> "pinned" [] n = last -> "first"
    [] OTHER -> "local"]
PinnedInner == [n \in AllNeurons |-> IF n = inner THEN OneAgent ELSE {}]
=============================================================================
