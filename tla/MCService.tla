------------------------------ MODULE MCService ------------------------------
(* Values of the constants of Service for TLC.                             *)
EXTENDS Service

OneSlot == [w \in Workers |-> 1]
=============================================================================
