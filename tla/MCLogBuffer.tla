---------------------------- MODULE MCLogBuffer ----------------------------
(***************************************************************************)
(* LogBuffer for TLC; the values of the constants are in the cfg.          *)
(***************************************************************************)
EXTENDS LogBuffer

First ==
  INSTANCE DurableLog WITH
    Limit <- MaxRecords, logged <- logged[1], disk <- file[1],
    trouble <- Trouble(1), closed <- ended = "returned"

Second ==
  INSTANCE DurableLog WITH
    Limit <- MaxRecords, logged <- logged[2], disk <- file[2],
    trouble <- Trouble(2), closed <- ended = "returned"

(* Both logs implement DurableLog: the file only grows; left alone it takes *)
(* the records in order, all of them by the end; after a failed write or a  *)
(* signal on the main thread some may be there again and the last ones      *)
(* missing, but none is there without the one before it.                    *)
LogsAreDurable == First!Spec /\ Second!Spec
=============================================================================
