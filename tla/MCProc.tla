------------------------------- MODULE MCProc -------------------------------
(* Two objects of class proc, both agents; the first one respawns. *)
EXTENDS Proc

CONSTANTS o1, o2

MCUsers == {o1, o2}
MCAgents == {o1, o2}
MCRespawning == {o1}
=============================================================================
