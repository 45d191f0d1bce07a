------------------------------- MODULE MCHIF --------------------------------
(***************************************************************************)
(* Instances of HIF for TLC.                                               *)
(***************************************************************************)
EXTENDS HIF

=============================================================================
