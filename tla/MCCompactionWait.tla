-------------------------- MODULE MCCompactionWait --------------------------
(***************************************************************************)
(* CompactionWait for TLC; the values of the constants are in the cfgs.    *)
(***************************************************************************)
EXTENDS CompactionWait
=============================================================================
