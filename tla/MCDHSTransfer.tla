---------------------------- MODULE MCDHSTransfer ----------------------------
(* DHSTransfer with the fault sets of its runs.  Two tasks of one second have *)
(* the same id, and NoStranger is not promised for them.                     *)
EXTENDS DHSTransfer

EveryFault == AllFaults \ {"second"}
OnlyShort  == {"short"}
=============================================================================
