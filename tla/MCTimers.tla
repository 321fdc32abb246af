------------------------------ MODULE MCTimers ------------------------------
(* Every timed class with each of its properties, delays of 0, 1 and 3, clocks *)
(* of periods 2 and 4 with duties given in percent, in ms, too long, or not.   *)
EXTENDS Timers

C(class, delay, inv, edge, retrigger, period) ==
  [class |-> class, delay |-> delay, inv |-> inv, edge |-> edge, retrigger |-> retrigger,
   period |-> period]

Delays == {0, 1, 3}
Edges == {{1}, {0}, {0, 1}}
Duties == {[unit |-> "%", value |-> 25], [unit |-> "%", value |-> 99],
           [unit |-> "ms", value |-> 9], [unit |-> "none", value |-> 0]}

MCConfigs ==
  {C(class, d, inv, {}, FALSE, 0) : class \in {"timer-on", "timer-off"}, d \in Delays, inv \in {0, 1}}
  \cup {C("timer-pulse", d, inv, e, r, 0) : d \in Delays, inv \in {0, 1}, e \in Edges, r \in BOOLEAN}
  \cup {C("timer-clock", ClockDelay(p, duty), 0, {}, FALSE, p) : p \in {2, 4}, duty \in Duties}
  \cup {C("relay-bistable", 0, 0, {}, FALSE, 0)}
=============================================================================
