---------------------------- MODULE MCDiskQuota ----------------------------
(* Two names and two handlers at once for TLC, on a server with a limit,   *)
(* which a synchronisation may lift.                                       *)
EXTENDS DiskQuota

LimitedInit == Init /\ limit # 0
LimitedSpec == LimitedInit /\ [][Next]_vars /\ Fairness
=============================================================================
