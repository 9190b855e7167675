-------------------------- MODULE MCNerveTerminal --------------------------
(* Small instances of the terminal: a few lines of output and of log.      *)
EXTENDS NerveTerminal
=============================================================================
