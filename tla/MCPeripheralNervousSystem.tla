---------------------- MODULE MCPeripheralNervousSystem ----------------------
(* Terminals, pages and processes, for TLC.                                *)
EXTENDS PeripheralNervousSystem
=============================================================================
