------------------------- MODULE MCPathwayLogicNode -------------------------
(***************************************************************************)
(*   Loop    begin -SUCCESS-> repair (retry) -SUCCESS-> box[inner (retry)] *)
(*           box -FLOW-> repair -FAILURE-> last (gate)                     *)
(***************************************************************************)
EXTENDS PathwayLogicNode, MCCentralNervousSystem

LoopAxons == {Wire(begin, "SUCCESS", repair), Wire(repair, "SUCCESS", box),
              Wire(box, "FLOW", repair), Wire(repair, "FAILURE", last)}

Plain == [mode |-> "none", max |-> 0, op |-> "exists", value |-> 0]
LoopLogic == [n \in AllNeurons |->
  CASE n = repair -> [Plain EXCEPT !.mode = "retry", !.max = 2]
    [] n = inner  -> [Plain EXCEPT !.mode = "retry", !.max = 1]
    [] n = last   -> [Plain EXCEPT !.mode = "gate", !.op = "gt"]
    [] OTHER -> Plain]
BeginPrints == [n \in AllNeurons |-> IF n = begin THEN 1 ELSE None]
BoxGives    == [n \in AllNeurons |-> IF n = box THEN 2 ELSE None]
NoFluid     == [loop_count |-> 0, key |-> None]
=============================================================================
