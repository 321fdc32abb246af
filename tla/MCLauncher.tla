----------------------------- MODULE MCLauncher -----------------------------
(* The launcher with room for two processes: without a broker and two requests *)
(* in flight, and with a broker, one request and tiles that are up to date.     *)
EXTENDS Launcher

MCUsers == {engine, broker}
NoBroker(requests) == [opt_no_mqtt |-> TRUE, MaxReq |-> requests, MaxTiles |-> 1]
WithBroker(requests) == [opt_no_mqtt |-> FALSE, MaxReq |-> requests, MaxTiles |-> 0]
MCSetups == {NoBroker(2), WithBroker(1)}
=============================================================================
