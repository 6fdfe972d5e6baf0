------------------------------ MODULE MCOpcSink ------------------------------
(***************************************************************************)
(* OpcSink for TLC.  The constants are in the configurations.              *)
(***************************************************************************)
EXTENDS OpcSinkProps
=============================================================================
