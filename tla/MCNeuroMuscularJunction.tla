---------------------- MODULE MCNeuroMuscularJunction ----------------------
(* The effectors the runs of NeuroMuscularJunction execute.                *)
EXTENDS NeuroMuscularJunction

AllKinds == {"sync", "async", "pipeline"}
=============================================================================
