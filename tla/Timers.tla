------------------------------- MODULE Timers -------------------------------
(***************************************************************************)
(* The timed classes: timer-on, timer-off, timer-pulse, timer-clock and    *)
(* relay-bistable.  One object of any of them lives between an input that  *)
(* changes at any time and the timers of the event loop, which fires those *)
(* that are due, late at times.  The methods of a class are functions on   *)
(* the record of its object; inputs come from elsewhere in the tile.       *)
(***************************************************************************)
EXTENDS Integers, FiniteSets

CONSTANTS Configs,      \* the objects that may be created, see TimersAssumption
          Pulse,        \* PULSE and REFRESH of relay-bistable
          Refresh,
          MaxLate       \* the most the event loop is behind

Classes == {"timer-on", "timer-off", "timer-pulse", "timer-clock", "relay-bistable"}

\* delay: the property delay; for timer-clock what _new computes.  inv: 0 for the classes that
\* have no such property.
TimersAssumption ==
  /\ Pulse \in Nat \ {0} /\ Refresh \in Nat /\ MaxLate \in Nat
  /\ \A c \in Configs :
       /\ c.class \in Classes /\ c.delay \in Nat /\ c.inv \in {0, 1} /\ c.period \in Nat
       /\ c.edge \subseteq {0, 1} /\ c.retrigger \in BOOLEAN
       /\ c.class = "timer-clock" => c.delay \in 1..(c.period - 1)
       /\ c.class \in {"timer-clock", "relay-bistable"} => c.inv = 0
ASSUME TimersAssumption

VARIABLES conf,         \* the properties of the object
          obj,          \* in, out: states of the pads; pub: the values published (-1: none);
                        \* tag: the tags of timers that the object remembers
          live,         \* its timers in the event loop: tag, handler, time left
          started,      \* whether its start method was called
          seen          \* history: age of the last change and of the last rise; late: the loop was
                        \* late once; told: the output was set for the input since the start

vars == <<conf, obj, live, started, seen>>

\* The delay of a clock, from its properties: duty in percent, in ms, or not given.
Clamped(d, period) == IF d < 1 THEN 1 ELSE IF d >= period THEN period - 1 ELSE d
ClockDelay(period, duty) ==
  CASE duty.unit = "%" -> Clamped((period * duty.value) \div 100, period)
    [] duty.unit = "ms" -> Clamped(duty.value, period)
    [] duty.unit = "none" -> Clamped(period \div 2, period)

Outputs(class) == IF class = "relay-bistable" THEN {"out0", "out1"} ELSE {"out"}
Tags(class) == IF class = "timer-clock" THEN {"period", "duty"} ELSE {"timeout"}

\* Ages stop growing where nothing depends on them any more.
Horizon == 1 + MaxLate + (IF conf.class = "relay-bistable" THEN 0 ELSE conf.delay)

Init == /\ conf \in Configs
        /\ obj = [in |-> IF conf.class = "timer-clock" THEN -1 ELSE 0,
                  out |-> [p \in Outputs(conf.class) |-> 0],
                  pub |-> [p \in Outputs(conf.class) |-> -1],
                  tag |-> [k \in Tags(conf.class) |-> 0]]
        /\ live = {} /\ started = FALSE
        /\ seen = [age |-> Horizon, rise |-> Horizon, late |-> FALSE, told |-> FALSE]
-----------------------------------------------------------------------------
(* What the methods are made of, from a machine to a machine               *)

M == [obj |-> obj, live |-> live]
Becomes(m) == obj' = m.obj /\ live' = m.live

\* sys_remove of a tag the object remembers
Remove_Kept(m, k) == m
Remove(m, k) == [m EXCEPT !.live = {t \in @ : t.tag # m.obj.tag[k]}]
Forget(m, k) == [m EXCEPT !.obj.tag[k] = 0]

\* sys_timeout.  Tags grow without end in the code: a new one is met nowhere.
InUse(m) == {t.tag : t \in m.live} \cup {m.obj.tag[k] : k \in Tags(conf.class)}
NewTag(m) == CHOOSE n \in 1..(Cardinality(InUse(m)) + 1) : n \notin InUse(m)
Arm(m, k, handler, delay) ==
  [obj |-> [m.obj EXCEPT !.tag[k] = NewTag(m)],
   live |-> m.live \cup {[tag |-> NewTag(m), handler |-> handler, left |-> delay]}]

\* set_output: the pad takes a state and publishes it, inverted or not.
SetOutput(m, p, state) ==
  [m EXCEPT !.obj = [@ EXCEPT !.out[p] = state, !.pub[p] = IF conf.inv = 1 THEN 1 - state ELSE state]]

\* timer-on (a = 1) and timer-off (a = 0): the output follows the input to a only after the delay.
Delayed(m, a, value) ==
  LET m1 == [m EXCEPT !.obj.in = value]
      m2 == Forget(Remove(m1, "timeout"), "timeout")
  IN CASE value = a /\ m.obj.in # a -> Arm(Remove(m1, "timeout"), "timeout", "timeout", conf.delay)
       [] value = a /\ m.obj.in = a -> m1
       [] value # a /\ m.obj.out["out"] = a -> SetOutput(m2, "out", 1 - a)
       [] value # a /\ m.obj.out["out"] # a -> m2

TimerOnInput(m, value) == Delayed(m, 1, value)
TimerOnTimeout(m) == SetOutput(Forget(m, "timeout"), "out", 1)
TimerOffInput(m, value) == Delayed(m, 0, value)
TimerOffTimeout(m) == SetOutput(Forget(m, "timeout"), "out", 0)

\* timer-pulse.  An edge is named by the state it leads to.
Edge(old, value) == old # value /\ value \in conf.edge
Triggers(m, value) == Edge(m.obj.in, value) /\ (m.obj.out["out"] = 0 \/ conf.retrigger)
PulseInput_TimerKept(m, value) ==
  LET m1 == [m EXCEPT !.obj.in = value]
  IN IF Triggers(m, value) /\ m.obj.out["out"] = 0
     THEN SetOutput(Arm(m1, "timeout", "timeout", conf.delay), "out", 1) ELSE m1
PulseInput(m, value) ==
  LET m1 == [m EXCEPT !.obj.in = value]
      m2 == Arm(Remove(m1, "timeout"), "timeout", "timeout", conf.delay)
  IN CASE ~Triggers(m, value) -> m1
       [] Triggers(m, value) /\ m.obj.out["out"] = 0 -> SetOutput(m2, "out", 1)
       [] Triggers(m, value) /\ m.obj.out["out"] # 0 -> m2
PulseTimeout(m) == SetOutput(Forget(m, "timeout"), "out", 0)

\* timer-clock: duty_handler, period_handler, enable, _input
DutyHandler(m) == SetOutput(Forget(m, "duty"), "out", 0)
PeriodHandler(m) == Arm(SetOutput(m, "out", 1), "duty", "duty", conf.delay)
ClockEnable(m) ==
  PeriodHandler(IF m.obj.tag["period"] = 0 THEN Arm(m, "period", "period", conf.period) ELSE m)
ClockInput(m, value) ==
  LET m1 == [m EXCEPT !.obj.in = value]
      m2 == Forget(Remove(m1, "period"), "period")
      m3 == Forget(Remove(m2, "duty"), "duty")
  IN IF value = 1 THEN ClockEnable(m3) ELSE DutyHandler(m3)

\* relay-bistable: one coil is excited for Pulse, again every Refresh.
RelaySet(m, state) ==
  LET m1 == Remove(m, "timeout")
      m2 == IF state = 1 THEN SetOutput(SetOutput(m1, "out0", 0), "out1", 1)
            ELSE SetOutput(SetOutput(m1, "out0", 1), "out1", 0)
  IN Arm(m2, "timeout", "timeout", Pulse)
RelayTimeout(m) ==
  Arm(SetOutput(SetOutput(m, "out0", 0), "out1", 0), "timeout", "refresh", Refresh)
RelayRefresh(m) == RelaySet(m, m.obj.in)
RelayInput_AtRest(m, value) ==
  LET m1 == [m EXCEPT !.obj.in = value]
  IN IF value # m.obj.in /\ \A p \in {"out0", "out1"} : m.obj.out[p] = 0 THEN RelaySet(m1, value) ELSE m1
RelayInput(m, value) ==
  LET m1 == [m EXCEPT !.obj.in = value]
  IN IF value # m.obj.in THEN RelaySet(m1, value) ELSE m1
-----------------------------------------------------------------------------
(* The object in the event loop                                            *)

\* The ages that the steps of the object set to zero.
Grown(age, d) == IF age + d < Horizon THEN age + d ELSE Horizon
Rises(m) == \E p \in Outputs(conf.class) : obj.out[p] = 0 /\ m.obj.out[p] = 1
Noted(m, restart, told) ==
  seen' = [seen EXCEPT !.age = IF restart THEN 0 ELSE @,
                       !.rise = IF Rises(m) THEN 0 ELSE @,
                       !.told = told]

\* hk_tile_start.  A timer publishes its output, a clock 0, a relay goes to 0.
StartMethod(m) ==
  CASE conf.class = "relay-bistable" -> RelaySet(m, 0)
    [] conf.class = "timer-clock" -> [m EXCEPT !.obj.pub["out"] = 0]
    [] OTHER -> SetOutput(m, "out", m.obj.out["out"])
Start == /\ ~started /\ started' = TRUE
         /\ Becomes(StartMethod(M)) /\ Noted(StartMethod(M), FALSE, obj.in # 1)
         /\ UNCHANGED conf

\* hk_pad_update_input, before the start of the object or after it
InputMethod(m, value) ==
  CASE conf.class = "timer-on" -> TimerOnInput(m, value)
    [] conf.class = "timer-off" -> TimerOffInput(m, value)
    [] conf.class = "timer-pulse" -> PulseInput(m, value)
    [] conf.class = "timer-clock" -> ClockInput(m, value)
    [] conf.class = "relay-bistable" -> RelayInput(m, value)

\* What the class counts its time from
Counts(value) == IF conf.class = "timer-pulse" THEN Edge(obj.in, value) ELSE obj.in # value
Input(value) == /\ Becomes(InputMethod(M, value))
                /\ Noted(InputMethod(M, value), Counts(value),
                         seen.told \/ obj.in # value \/ conf.class = "timer-clock")
                /\ UNCHANGED <<conf, started>>

\* sys_run fires the timers that are due in the order of their slots, which may be any.  The
\* one of the clock is periodic: it counts from the scan that fired it.
Called(m, handler) ==
  CASE conf.class = "timer-on" -> TimerOnTimeout(m)
    [] conf.class = "timer-off" -> TimerOffTimeout(m)
    [] conf.class = "timer-pulse" -> PulseTimeout(m)
    [] conf.class = "timer-clock" /\ handler = "period" -> PeriodHandler(m)
    [] conf.class = "timer-clock" /\ handler = "duty" -> DutyHandler(m)
    [] conf.class = "relay-bistable" /\ handler = "timeout" -> RelayTimeout(m)
    [] conf.class = "relay-bistable" /\ handler = "refresh" -> RelayRefresh(m)
Rearmed(t) == IF t.handler = "period" THEN {[t EXCEPT !.left = conf.period]} ELSE {}

Fire(t) ==
  /\ started /\ t.left <= 0
  /\ LET m == Called(M, t.handler)
         m1 == [m EXCEPT !.live = (@ \ {t}) \cup Rearmed(t)]
     IN Becomes(m1) /\ Noted(m1, FALSE, seen.told \/ t.handler # "timeout")
  /\ UNCHANGED <<conf, started>>

\* Time passes while the loop waits in poll, and while it is busy elsewhere: then it finds timers
\* that were due for a while, once in a behaviour here.  It runs when the tiles are started.
\* A timer of delay 0 that a timer handler armed in a slot already scanned waits for the next
\* event, however long (sys.c:409-410): here that wait is part of the lateness.
Tick(d) == /\ started /\ \A t \in live : t.left > 0 /\ (seen.late => t.left >= d)
           /\ live' = {[t EXCEPT !.left = @ - d] : t \in live}
           /\ seen' = [seen EXCEPT !.age = Grown(@, d), !.rise = Grown(@, d),
                                   !.late = @ \/ \E t \in live : t.left < d]
           /\ UNCHANGED <<conf, obj, started>>

Next == \/ Start
        \/ \E d \in 1..(1 + MaxLate) : Tick(d)
        \/ \E value \in {0, 1} : Input(value)
        \/ \E t \in live : Fire(t)

Spec == Init /\ [][Next]_vars
-----------------------------------------------------------------------------
(* Properties                                                              *)

Timer == [tag : Nat \ {0}, handler : {"timeout", "refresh", "period", "duty"}, left : Int]
TypeOK == /\ conf \in Configs /\ started \in BOOLEAN
          /\ live \in SUBSET Timer /\ IsFiniteSet(live)
          /\ obj \in [in : {-1, 0, 1}, out : [Outputs(conf.class) -> {0, 1}],
                      pub : [Outputs(conf.class) -> {-1, 0, 1}], tag : [Tags(conf.class) -> Nat]]
          /\ seen \in [age : Nat, rise : Nat, late : BOOLEAN, told : BOOLEAN]

\* The timers in the event loop and the tags in the object are the same, so that no timer fires
\* for a past that the object has left, and none is lost: the methods of the five classes
\* cancel, overwrite and clear their tags in step with sys_timeout.  Only the clock, and only
\* when the loop ran late, may have a duty timer it does not know; its types are those of TypeOK.
TimersKnown ==
  /\ TypeOK
  /\ \A k \in Tags(conf.class) : obj.tag[k] # 0 =>
       \E t \in live : t.tag = obj.tag[k] /\ (k \in {"period", "duty"} => t.handler = k)
  /\ \A t \in live : \/ \E k \in Tags(conf.class) : obj.tag[k] = t.tag
                     \/ t.handler = "duty" /\ seen.late

\* A timer-on shows 1 only when its input has been 1 for the delay, and then at once.
OnDelayed == conf.class = "timer-on" =>
  /\ obj.out["out"] = 1 => obj.in = 1 /\ seen.age >= conf.delay
  /\ obj.in = 1 /\ seen.age > conf.delay + MaxLate => obj.out["out"] = 1

\* A timer-off shows 1 while its input is 1 and until it has been 0 for the delay.
OffDelayed == conf.class = "timer-off" =>
  /\ obj.in = 1 => obj.out["out"] = 1
  /\ obj.out["out"] = 1 /\ obj.in = 0 => seen.age <= conf.delay + MaxLate
  /\ obj.out["out"] = 0 /\ seen.age < Horizon => seen.age >= conf.delay

\* A pulse ends a delay after the last edge (with retrigger) or after its own start (without).
PulseBounded == conf.class = "timer-pulse" =>
  LET since == IF conf.retrigger THEN seen.age ELSE seen.rise
  IN /\ obj.out["out"] = 1 => since <= conf.delay + MaxLate
     /\ seen.age < conf.delay => obj.out["out"] = 1 \/ (~conf.retrigger /\ seen.rise >= conf.delay)

\* A clock that is not enabled is at 0 for good; one that is enabled is at 1 for the duty of
\* each period, shortened only by a duty timer it lost.
ClockDuty == conf.class = "timer-clock" =>
  /\ obj.in # 1 => obj.out["out"] = 0 /\ \A t \in live : t.handler # "period"
  /\ obj.in = 1 => \E p \in live :
       /\ p.handler = "period" /\ p.tag = obj.tag["period"]
       /\ \A t \in live : t.handler = "period" => t = p
       /\ obj.out["out"] = 1 => \E t \in live : t.handler = "duty"
       /\ obj.out["out"] = 0 /\ ~seen.late => conf.period - p.left >= conf.delay

\* The output of a timed object tells, at any time, how long ago its input changed: no cancelled
\* timer fires, no armed one is forgotten, a change during a delay starts it again or not as the
\* class promises.  After the start it is also what was published, except by a clock that was
\* enabled before: its start method publishes 0 in the middle of a pulse.
OnTime == /\ OnDelayed /\ OffDelayed /\ PulseBounded /\ ClockDuty
          /\ started /\ (conf.class = "timer-clock" => seen.told) => \A p \in Outputs(conf.class) :
               obj.pub[p] = IF conf.inv = 1 THEN 1 - obj.out[p] ELSE obj.out[p]

\* A bistable relay never has both coils excited between two calls, excites one only while the
\* timer that will release it runs, and the coil is that of the input - unless the input was
\* already 1 when the object started, which its start method does not look at.
RelayFollows == conf.class = "relay-bistable" /\ started =>
  /\ obj.out["out0"] = 0 \/ obj.out["out1"] = 0
  /\ \E t \in live : /\ t.tag = obj.tag["timeout"]
                     /\ t.handler = "timeout" <=> obj.out["out0"] # obj.out["out1"]
  /\ seen.told => IF obj.in = 1 THEN obj.out["out0"] = 0 ELSE obj.out["out1"] = 0
=============================================================================
