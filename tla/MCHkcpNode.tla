----------------------------- MODULE MCHkcpNode -----------------------------
(* Two remote engines: a takes the value s and the event e, b a sink nobody feeds. *)
EXTENDS HkcpNode

CONSTANTS a, b

MCHosts == {a, b}
MCSources == {"s", "e"}
MCEvents == {"e"}
MCConfigs == (a :> {{"s", "e"}}) @@ (b :> {{"x"}})

\* An engine whose sinks change when it is restarted (MCHkcpNodeSinks.cfg).
MovingHosts == {a}
MovingSources == {"s", "t"}
MovingConfigs == a :> {{"s"}, {"t"}}
=============================================================================
