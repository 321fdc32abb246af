----------------------------- MODULE MCClients -----------------------------
(* Three TCP clients for two slots beside a session; and three sessions,    *)
(* of which those that end leave holes in the table for those that follow. *)
EXTENDS Clients

CONSTANTS t1, t2, t3, w1, w2, w3

MCParties == {{t1, t2, t3, w1}, {w1, w2, w3}}
MCCommands == {"on", "set 1", "get"}
=============================================================================
