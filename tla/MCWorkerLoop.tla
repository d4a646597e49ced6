------------------------------ MODULE MCWorkerLoop ------------------------------
(***************************************************************************)
(* Two feeds at two origins.                                             *)
(***************************************************************************)
EXTENDS WorkerLoop, TLC

CONSTANTS u1, u2, o1, o2

MCOriginOf == u1 :> o1 @@ u2 :> o2
MCRetryAfters == {-1, 90}
=============================================================================
