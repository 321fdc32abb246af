------------------------------ MODULE MCSerial ------------------------------
(* Ways to wire the object: connect free, or preset to 1 or wired, beside txd  *)
(* or rxd; debounced where connect is free.  Char is signed or not, as the target *)
(* has it; the modem lines have two states.                                    *)
EXTENDS Serial

MCConfigs == {c \in [bytes : BOOLEAN, connect : {"free", "wired", "preset"}, modem : BOOLEAN,
                     debounce : BOOLEAN, signed : BOOLEAN] :
                /\ c.debounce => c.bytes /\ c.connect = "free"
                /\ c.connect = "preset" => c.bytes /\ ~c.signed
                /\ c.connect = "wired" => c.bytes /\ c.signed = c.modem
                /\ ~c.modem => ~c.debounce /\ ~c.signed}
=============================================================================
