-------------------------- MODULE MCServerTransfer --------------------------
(* Two transfers of one server for TLC.                                    *)
EXTENDS ServerTransfer
=============================================================================
