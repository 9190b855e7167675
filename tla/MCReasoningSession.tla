------------------------- MODULE MCReasoningSession -------------------------
(* Two messages, two tasks, two turns and one intervention: see the cfg files. *)
EXTENDS ReasoningSession
=============================================================================
