------------------------ MODULE MCRusticRepository ------------------------
(* Small instances of RusticRepository for TLC.                            *)
EXTENDS RusticRepository

CONSTANTS c1, c2

TwoClients == {c1, c2}
TwoSnapshots == {1, 2}
AllOps == {"create", "delete", "restore", "download", "destroy"}
BothBackends == {"local", "s3"}
=============================================================================
