--------------------------- MODULE MCRunWorkload ---------------------------
(***************************************************************************)
(* RunWorkload for TLC; the values of the constants are in the cfgs.       *)
(***************************************************************************)
EXTENDS RunWorkload

(* "assert(s.ok())" (runWorkload, after the loop): with a database that     *)
(* never fails and a workload to run, no assertion does.                    *)
AssertionsHold == ended = "aborted" => env.missing
=============================================================================
