----------------------------- MODULE MCEndpoints ----------------------------
(* Programs of up to three tiles and three sources: endpoints of one name   *)
(* in both orders and in one tile or two, chains and rings through them,    *)
(* local ones, and names that several tiles use.                            *)
EXTENDS Endpoints

Sink(t, n, v) == [tile |-> t, kind |-> "sink", name |-> n, local |-> FALSE, from |-> None,
                  inv |-> FALSE, chart |-> FALSE, preset |-> v]
Source(t, n, s, i) == [tile |-> t, kind |-> "source", name |-> n, local |-> FALSE, from |-> s,
                       inv |-> i, chart |-> FALSE, preset |-> Unset]
Local(o) == [o EXCEPT !.local = TRUE]
Chart(o) == [o EXCEPT !.chart = TRUE]

\* One tile: a sink and a source of the same name, in both orders, and one more source.
Loops == {<<Source(1, "x", 2, i), Sink(1, "x", v)>> : i \in BOOLEAN, v \in {0, Unset}}
         \cup {<<Sink(1, "x", v), Source(1, "x", 1, i)>> : i \in BOOLEAN, v \in {0, Unset}}
         \cup {<<Source(1, "x", 2, i), Sink(1, "x", v), Source(1, "z", 2, j)>> :
                 i \in BOOLEAN, j \in BOOLEAN, v \in {1, Unset}}
\* A chain through two tiles, and rings through one or two.  One source of a ring is local: over
\* MQTT, every message would make two.
Chains == {<<Chart(Sink(1, "y", v)), Chart(Source(1, "x", 1, i)), Chart(Sink(2, "x", Unset)), Source(2, "z", 3, TRUE)>> :
             i \in BOOLEAN, v \in {0, Unset}}
Rings == {<<Local(Source(1, "y", 2, FALSE)), Sink(1, "x", v), Source(2, "x", 4, i), Sink(2, "y", Unset)>> :
             i \in BOOLEAN, v \in {0, Unset}}
         \cup {<<Local(Source(1, "x", 3, i)), Source(1, "y", 4, TRUE), Sink(1, "y", 1), Sink(1, "x", Unset)>> :
             i \in BOOLEAN}
\* Locals, and names that several tiles use.
Shared == {<<Sink(1, "x", v), Source(1, "y", 1, FALSE), Source(2, "y", 4, i), Sink(2, "y", 1)>> :
             i \in BOOLEAN, v \in {0, Unset}}
          \cup {<<Sink(1, "x", v), Sink(2, "z", 0), Source(2, "x", 2, i), Sink(3, "y", 1), Source(3, "x", 4, FALSE)>> :
             i \in BOOLEAN, v \in {1, Unset}}
          \cup {<<Local(Source(1, "x", 2, FALSE)), Sink(1, "y", 1), Local(Sink(2, "y", 1)), Sink(2, "x", Unset),
                  Source(2, "y", 4, TRUE), Source(2, "z", 4, i)>> : i \in BOOLEAN}
MCPrograms == Loops \cup Chains \cup Rings \cup Shared
=============================================================================
