---------------------------- MODULE MCSyncEngine ----------------------------
(***************************************************************************)
(* Instances of SyncEngine for TLC.                                        *)
(***************************************************************************)
EXTENDS SyncEngine

MCNoErrors  == {}
MCAnyErrors  == {"sync", "login"}
=============================================================================
