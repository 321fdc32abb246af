---------------------------- MODULE TimersProofs ----------------------------
(***************************************************************************)
(* The timed classes keep their promises, for any objects with any delays, *)
(* any input and any delay of the event loop up to MaxLate.                *)
(*                                                                         *)
(* A machine is read through the operators below, never field by field:    *)
(* what each function of Timers does to them is stated once, and the rest  *)
(* of the proofs needs no record.                                          *)
(***************************************************************************)
EXTENDS Timers, FiniteSetTheorems, TLAPS

In(m) == m.obj.in
Out(m, p) == m.obj.out[p]
Pub(m, p) == m.obj.pub[p]
Tag(m, k) == m.obj.tag[k]
Live(m) == m.live

Delay == conf.delay
Period == conf.period
MyOutputs == Outputs(conf.class)
MyTags == Tags(conf.class)
Handlers == {"timeout", "refresh", "period", "duty"}

ObjType == [in : {-1, 0, 1}, out : [MyOutputs -> {0, 1}],
            pub : [MyOutputs -> {-1, 0, 1}], tag : [MyTags -> Nat]]
Machine == {m \in [obj : ObjType, live : SUBSET Timer] : IsFiniteSet(m.live)}

\* What is published of a state
Shown(s) == IF conf.inv = 1 THEN 1 - s ELSE s
Published(m) == \A p \in MyOutputs : Pub(m, p) = Shown(Out(m, p))

\* How late a timer may be found
Punctual(m, late) == \A t \in Live(m) : t.left >= -MaxLate /\ (~late => t.left >= 0)

\* All classes but the clock: no timer, or the one the object remembers.
OneTimer(m) == /\ In(m) \in {0, 1}
               /\ \A t \in Live(m) : t.tag = Tag(m, "timeout") /\ Live(m) = {t}
               /\ Live(m) = {} => Tag(m, "timeout") = 0

\* timer-on (a = 1), timer-off (a = 0): what is left of the delay was not yet seen of the input.
Following(m, age, a) ==
  /\ \A t \in Live(m) : t.handler = "timeout" /\ t.left + age = Delay
  /\ Out(m, "out") = a => In(m) = a /\ Live(m) = {} /\ age >= Delay
  /\ In(m) = a /\ Out(m, "out") # a => Live(m) # {}
  /\ In(m) # a => Live(m) = {}

\* timer-pulse: the same, counted from the last edge or from the start of the pulse
Pulsing(m, since) ==
  /\ Out(m, "out") = 1 <=> Live(m) # {}
  /\ \A t \in Live(m) : t.handler = "timeout" /\ t.left + since = Delay
  /\ Live(m) = {} => since >= Delay

\* timer-clock: unless the loop was late, the duty timer is where the period timer wants it.
Periods(m) == {t \in Live(m) : t.handler = "period"}
Clocking(m, late) ==
  /\ \A t, u \in Live(m) : t.tag = u.tag => t = u
  /\ \A t \in Live(m) : t.handler \in {"period", "duty"}
  /\ Out(m, "out") = 1 <=> Tag(m, "duty") # 0
  /\ Tag(m, "duty") # 0 => \E d \in Live(m) : d.tag = Tag(m, "duty") /\ d.handler = "duty"
  /\ ~late => \A t \in Live(m) : t.handler = "duty" => t.tag = Tag(m, "duty")
  /\ In(m) # 1 => Periods(m) = {} /\ Tag(m, "period") = 0 /\ Tag(m, "duty") = 0
  /\ In(m) = 1 => \E p \in Live(m) :
       /\ Periods(m) = {p} /\ p.tag = Tag(m, "period")
       /\ ~late => /\ \A d \in Live(m) : d.handler = "duty" => d.left = p.left - (Period - Delay)
                   /\ Out(m, "out") = 0 => p.left <= Period - Delay

\* relay-bistable: a coil is excited while the timer that will release it runs.
Holding(m, told) ==
  /\ \A t \in Live(m) : /\ t.handler \in {"timeout", "refresh"}
                        /\ t.handler = "timeout" <=> Out(m, "out0") # Out(m, "out1")
  /\ Out(m, "out0") = 0 \/ Out(m, "out1") = 0
  /\ Live(m) = {} => Out(m, "out0") = Out(m, "out1")
  /\ told => IF In(m) = 1 THEN Out(m, "out0") = 0 ELSE Out(m, "out1") = 0

\* The invariant of a machine, with the history seen and whether it was started
Good(m, age, rise, late, told, on) ==
  /\ Punctual(m, late)
  /\ on /\ (conf.class = "timer-clock" => told) => Published(m)
  /\ conf.class # "timer-clock" => OneTimer(m)
  /\ conf.class = "timer-on" => Following(m, age, 1)
  /\ conf.class = "timer-off" => Following(m, age, 0)
  /\ conf.class = "timer-pulse" => Pulsing(m, IF conf.retrigger THEN age ELSE rise)
  /\ conf.class = "timer-clock" => Clocking(m, late)
  /\ conf.class = "relay-bistable" => Holding(m, told) /\ (on => Live(m) # {})

IInv == TypeOK /\ Good(M, seen.age, seen.rise, seen.late, seen.told, started)
-----------------------------------------------------------------------------
(* What the methods are made of                                            *)

\* The properties of the object that the proofs use.
LEMMA ConfType == ASSUME conf \in Configs
                  PROVE  /\ conf.class \in Classes /\ Delay \in Nat /\ Period \in Nat
                         /\ conf.inv \in {0, 1} /\ conf.edge \subseteq {0, 1}
                         /\ conf.retrigger \in BOOLEAN
                         /\ conf.class = "timer-clock" => Delay \in 1..(Period - 1)
                         /\ conf.class \in {"timer-clock", "relay-bistable"} => conf.inv = 0
                         /\ Horizon \in Nat
                         /\ conf.class # "relay-bistable" => Horizon = 1 + MaxLate + Delay
                         /\ Pulse \in Nat /\ Refresh \in Nat /\ MaxLate \in Nat
BY TimersAssumption DEF TimersAssumption, Horizon, Delay, Period

\* sys_timeout finds a tag that no timer and no object uses.
LEMMA NewTagIs == ASSUME NEW m \in Machine
                  PROVE  NewTag(m) \in Nat \ {0} /\ NewTag(m) \notin InUse(m)
<1> DEFINE f == [t \in m.live |-> t.tag]
           A == {t.tag : t \in m.live}
           g == m.obj.tag
           B == {g[k] : k \in MyTags}
<1>1. IsFiniteSet(m.live)
  BY DEF Machine
<1>2. IsFiniteSet(A)
  <2>1. f \in Surjection(m.live, A)
    BY DEF Surjection
  <2>2. QED BY <1>1, <2>1, FS_Surjection DEF ExistsSurjection
<1>3. IsFiniteSet(MyTags)
  <2>1. MyTags = {"period"} \cup {"duty"} \/ MyTags = {"timeout"}
    BY DEF MyTags, Tags
  <2>2. IsFiniteSet({"period"}) /\ IsFiniteSet({"duty"}) /\ IsFiniteSet({"timeout"})
    BY FS_Singleton
  <2>3. QED BY <2>1, <2>2, FS_Union
<1>4. IsFiniteSet(B)
  <2>1. [k \in MyTags |-> g[k]] \in Surjection(MyTags, B)
    BY DEF Surjection
  <2>2. QED BY <1>3, <2>1, FS_Surjection DEF ExistsSurjection
<1>5. InUse(m) = A \cup B
  BY DEF InUse, MyTags
<1>6. IsFiniteSet(InUse(m))
  BY <1>2, <1>4, <1>5, FS_Union
<1> DEFINE n == Cardinality(InUse(m))
<1>7. n \in Nat
  BY <1>6, FS_CardinalityType
<1>8. \E i \in 1..(n + 1) : i \notin InUse(m)
  <2>1. SUFFICES ASSUME 1..(n + 1) \subseteq InUse(m) PROVE FALSE
    OBVIOUS
  <2>2. Cardinality(1..(n + 1)) <= n
    BY <1>6, <2>1, FS_Subset
  <2>3. Cardinality(1..(n + 1)) = n + 1
    BY <1>7, FS_Interval
  <2>4. QED BY <1>7, <2>2, <2>3
<1>9. NewTag(m) \in 1..(n + 1) /\ NewTag(m) \notin InUse(m)
  BY <1>8 DEF NewTag
<1>10. QED BY <1>7, <1>9

\* Each function leaves a machine, and changes its own part of it.
Shows(m, n) == \A p : Out(n, p) = Out(m, p) /\ Pub(n, p) = Pub(m, p)

LEMMA Parts == ASSUME NEW m \in Machine
               PROVE  /\ m.obj \in ObjType /\ m.live \in SUBSET Timer /\ IsFiniteSet(m.live)
                      /\ m = [obj |-> m.obj, live |-> m.live]
BY DEF Machine

LEMMA Whole == ASSUME NEW o \in ObjType, NEW L \in SUBSET Timer, IsFiniteSet(L)
               PROVE  [obj |-> o, live |-> L] \in Machine
BY DEF Machine

LEMMA ValuesOf == ASSUME NEW m \in Machine
                  PROVE  /\ In(m) \in {-1, 0, 1} /\ Live(m) \in SUBSET Timer
                         /\ \A p \in MyOutputs : Out(m, p) \in {0, 1}
                         /\ \A k \in MyTags : Tag(m, k) \in Nat
BY DEF Machine, ObjType, In, Out, Tag, Live

LEMMA RemoveIs == ASSUME NEW m \in Machine, NEW k \in MyTags
                  PROVE  LET n == Remove(m, k)
                         IN /\ n \in Machine /\ In(n) = In(m) /\ Shows(m, n)
                            /\ \A j : Tag(n, j) = Tag(m, j)
                            /\ Live(n) = {t \in Live(m) : t.tag # Tag(m, k)}
<1> DEFINE L == {t \in m.live : t.tag # m.obj.tag[k]}
           n == Remove(m, k)
<1>1. n = [obj |-> m.obj, live |-> L]
  BY DEF Remove, Machine
<1>2. L \in SUBSET Timer /\ IsFiniteSet(L)
  BY Parts, FS_Subset
<1>3. n \in Machine
  BY <1>1, <1>2, Parts, Whole
<1>4. n.obj = m.obj /\ n.live = L
  BY <1>1
<1> HIDE DEF n
<1>5. In(n) = In(m) /\ Shows(m, n) /\ \A j : Tag(n, j) = Tag(m, j)
  BY <1>4 DEF In, Shows, Out, Pub, Tag
<1>6. Live(n) = {t \in Live(m) : t.tag # Tag(m, k)}
  BY <1>4 DEF Live, Tag
<1>7. QED BY <1>3, <1>5, <1>6 DEF n

LEMMA ForgetIs == ASSUME NEW m \in Machine, NEW k \in MyTags
                  PROVE  LET n == Forget(m, k)
                         IN /\ n \in Machine /\ In(n) = In(m) /\ Shows(m, n) /\ Live(n) = Live(m)
                            /\ Tag(n, k) = 0 /\ \A j \in MyTags : j # k => Tag(n, j) = Tag(m, j)
<1> DEFINE o == [m.obj EXCEPT !.tag = [m.obj.tag EXCEPT ![k] = 0]]
           n == Forget(m, k)
<1>1. n = [obj |-> o, live |-> m.live]
  BY Parts DEF Forget, ObjType
<1>2. o \in ObjType
  BY Parts DEF ObjType
<1>3. n \in Machine
  BY <1>1, <1>2, Parts, Whole
<1>4. n.obj = o /\ n.live = m.live
  BY <1>1
<1>5. /\ o.in = m.obj.in /\ o.out = m.obj.out /\ o.pub = m.obj.pub /\ o.tag[k] = 0
      /\ \A j \in MyTags : j # k => o.tag[j] = m.obj.tag[j]
  BY Parts DEF ObjType
<1> HIDE DEF n, o
<1>6. QED BY <1>3, <1>4, <1>5 DEF n, In, Shows, Out, Pub, Tag, Live

LEMMA ArmIs ==
  ASSUME NEW m \in Machine, NEW k \in MyTags, NEW h \in Handlers, NEW delay \in Nat
  PROVE  LET n == Arm(m, k, h, delay)
         IN /\ n \in Machine /\ In(n) = In(m) /\ Shows(m, n)
            /\ \A j \in MyTags : j # k => Tag(n, j) = Tag(m, j)
            /\ \E t \in Timer : /\ t.tag = Tag(n, k) /\ t.handler = h /\ t.left = delay
                               /\ Live(n) = Live(m) \cup {t}
                               /\ \A u \in Live(m) : u.tag # t.tag
                               /\ \A j \in MyTags : Tag(m, j) # t.tag
<1> DEFINE x == NewTag(m)
           o == [m.obj EXCEPT !.tag = [m.obj.tag EXCEPT ![k] = x]]
           t == [tag |-> x, handler |-> h, left |-> delay]
           n == Arm(m, k, h, delay)
<1>1. x \in Nat \ {0} /\ x \notin InUse(m)
  BY NewTagIs
<1>2. (\A u \in Live(m) : u.tag # x) /\ \A j \in MyTags : Tag(m, j) # x
  BY <1>1 DEF InUse, MyTags, Live, Tag
<1>3. n = [obj |-> o, live |-> m.live \cup {t}]
  BY Parts DEF Arm, ObjType
<1>4. o \in ObjType
  BY <1>1, Parts DEF ObjType
<1>5. t \in Timer
  BY <1>1 DEF Timer, Handlers
<1>6. IsFiniteSet(m.live \cup {t}) /\ m.live \cup {t} \in SUBSET Timer
  BY <1>5, Parts, FS_AddElement
<1>7. n \in Machine
  BY <1>3, <1>4, <1>6, Whole
<1>8. n.obj = o /\ n.live = m.live \cup {t}
  BY <1>3
<1>9. /\ o.in = m.obj.in /\ o.out = m.obj.out /\ o.pub = m.obj.pub /\ o.tag[k] = x
      /\ \A j \in MyTags : j # k => o.tag[j] = m.obj.tag[j]
  BY Parts DEF ObjType
<1>10. t.tag = x /\ t.handler = h /\ t.left = delay
  OBVIOUS
<1> HIDE DEF n, o, t, x
<1>11. In(n) = In(m) /\ Shows(m, n) /\ \A j \in MyTags : j # k => Tag(n, j) = Tag(m, j)
  BY <1>8, <1>9 DEF In, Shows, Out, Pub, Tag
<1>12. t.tag = Tag(n, k) /\ Live(n) = Live(m) \cup {t}
  BY <1>8, <1>9, <1>10 DEF Tag, Live
<1>13. (\A u \in Live(m) : u.tag # t.tag) /\ \A j \in MyTags : Tag(m, j) # t.tag
  BY <1>2, <1>10
<1>14. QED BY <1>5, <1>7, <1>10, <1>11, <1>12, <1>13 DEF n

LEMMA SetOutputIs ==
  ASSUME conf \in Configs, NEW m \in Machine, NEW p \in MyOutputs, NEW s \in {0, 1}
  PROVE  LET n == SetOutput(m, p, s)
         IN /\ n \in Machine /\ In(n) = In(m) /\ Live(n) = Live(m) /\ \A j : Tag(n, j) = Tag(m, j)
            /\ Out(n, p) = s /\ Pub(n, p) = Shown(s)
            /\ \A q \in MyOutputs : q # p => Out(n, q) = Out(m, q) /\ Pub(n, q) = Pub(m, q)
<1> DEFINE o == [m.obj EXCEPT !.out = [m.obj.out EXCEPT ![p] = s],
                              !.pub = [m.obj.pub EXCEPT ![p] = Shown(s)]]
           n == SetOutput(m, p, s)
<1>1. n = [obj |-> o, live |-> m.live]
  BY Parts DEF SetOutput, ObjType, Shown
<1>2. Shown(s) \in {-1, 0, 1}
  BY ConfType DEF Shown
<1>3. o \in ObjType
  BY <1>2, Parts DEF ObjType
<1>4. n \in Machine
  BY <1>1, <1>3, Parts, Whole
<1>5. n.obj = o /\ n.live = m.live
  BY <1>1
<1>6. /\ o.in = m.obj.in /\ o.tag = m.obj.tag /\ o.out[p] = s /\ o.pub[p] = Shown(s)
      /\ \A q \in MyOutputs : q # p => o.out[q] = m.obj.out[q] /\ o.pub[q] = m.obj.pub[q]
  BY Parts DEF ObjType
<1> HIDE DEF n, o
<1>7. QED BY <1>4, <1>5, <1>6 DEF n, In, Out, Pub, Tag, Live

\* hk_pad_update_input stores the value first.
Given(m, value) == [m EXCEPT !.obj.in = value]
LEMMA GivenIs == ASSUME NEW m \in Machine, NEW value \in {0, 1}
                 PROVE  LET n == Given(m, value)
                        IN /\ n \in Machine /\ In(n) = value /\ Shows(m, n) /\ Live(n) = Live(m)
                           /\ \A j : Tag(n, j) = Tag(m, j)
<1> DEFINE o == [m.obj EXCEPT !.in = value]
           n == Given(m, value)
<1>1. n = [obj |-> o, live |-> m.live]
  BY Parts DEF Given, ObjType
<1>2. o \in ObjType
  BY Parts DEF ObjType
<1>3. n \in Machine
  BY <1>1, <1>2, Parts, Whole
<1>4. n.obj = o /\ n.live = m.live
  BY <1>1
<1>5. o.in = value /\ o.out = m.obj.out /\ o.pub = m.obj.pub /\ o.tag = m.obj.tag
  BY Parts DEF ObjType
<1> HIDE DEF n, o
<1>6. QED BY <1>3, <1>4, <1>5 DEF n, In, Shows, Out, Pub, Tag, Live

\* The timer that called the handler is gone, or armed again.
Ended(m, t) == [m EXCEPT !.live = (@ \ {t}) \cup Rearmed(t)]
LEMMA EndedIs ==
  ASSUME NEW m \in Machine, NEW t \in Timer, conf \in Configs
  PROVE  LET n == Ended(m, t)
         IN /\ n \in Machine /\ In(n) = In(m) /\ Shows(m, n) /\ \A j : Tag(n, j) = Tag(m, j)
            /\ t.handler # "period" => Live(n) = Live(m) \ {t}
            /\ t.handler = "period" =>
                 \E u \in Timer : /\ Live(n) = (Live(m) \ {t}) \cup {u}
                                 /\ u.tag = t.tag /\ u.handler = "period" /\ u.left = Period
<1> DEFINE R == Rearmed(t)
           L == (m.live \ {t}) \cup R
           n == Ended(m, t)
           u == [t EXCEPT !.left = Period]
<1>1. Period \in Nat
  BY ConfType
<1>2. u \in Timer /\ u.tag = t.tag /\ u.handler = t.handler /\ u.left = Period
  BY <1>1 DEF Timer
<1>3. R = IF t.handler = "period" THEN {u} ELSE {}
  BY DEF Rearmed, Period
<1>4. IsFiniteSet(L)
  <2>1. IsFiniteSet(m.live \ {t})
    BY FS_Subset, Parts
  <2>2. IsFiniteSet(R)
    BY <1>3, FS_Singleton, FS_EmptySet
  <2>3. QED BY <2>1, <2>2, FS_Union
<1>5. n = [obj |-> m.obj, live |-> L]
  BY DEF Ended, Machine
<1>6. L \in SUBSET Timer
  BY <1>2, <1>3, Parts
<1>7. n \in Machine
  BY <1>4, <1>5, <1>6, Parts, Whole
<1>8. n.obj = m.obj /\ n.live = L
  BY <1>5
<1> HIDE DEF n, R, u
<1>9. In(n) = In(m) /\ Shows(m, n) /\ \A j : Tag(n, j) = Tag(m, j)
  BY <1>8 DEF In, Shows, Out, Pub, Tag
<1>10. t.handler # "period" => Live(n) = Live(m) \ {t}
  BY <1>3, <1>8 DEF Live
<1>11. t.handler = "period" => Live(n) = (Live(m) \ {t}) \cup {u}
  BY <1>3, <1>8 DEF Live
<1>12. QED BY <1>2, <1>7, <1>9, <1>10, <1>11 DEF n
-----------------------------------------------------------------------------
(* What the methods keep                                                   *)

\* Of every class: a machine that publishes what it shows, and no timer that is late already.
Sound(m, n) == /\ n \in Machine
               /\ Published(m) => Published(n)
               /\ \A t \in Live(n) : t \in Live(m) \/ t.left >= 0

LEMMA Typed == ASSUME TypeOK PROVE M \in Machine /\ conf \in Configs
BY DEF TypeOK, M, Machine, ObjType, MyOutputs, MyTags

\* The names of one class
LEMMA OneName == ASSUME conf \in Configs, conf.class \in {"timer-on", "timer-off", "timer-pulse"}
                 PROVE  /\ "timeout" \in MyTags /\ "out" \in MyOutputs /\ \A p \in MyOutputs : p = "out"
                        /\ Delay \in Nat /\ "timeout" \in Handlers
BY ConfType DEF MyTags, MyOutputs, Tags, Outputs, Handlers

\* timer-on and timer-off
LEMMA DelayedKept ==
  ASSUME conf \in Configs, conf.class \in {"timer-on", "timer-off"}, NEW a \in {0, 1},
         NEW m \in Machine, NEW value \in {0, 1}, NEW age \in Nat,
         OneTimer(m), Following(m, age, a)
  PROVE  LET n == Delayed(m, a, value)
         IN /\ Sound(m, n) /\ OneTimer(n)
            /\ Following(n, IF In(m) # value THEN 0 ELSE age, a)
<1> DEFINE n == Delayed(m, a, value)
           m1 == Given(m, value)
           r == Remove(m1, "timeout")
           m2 == Forget(r, "timeout")
<1>0. /\ "timeout" \in MyTags /\ "out" \in MyOutputs /\ \A p \in MyOutputs : p = "out"
      /\ Delay \in Nat /\ "timeout" \in Handlers /\ Out(m, "out") \in {0, 1} /\ In(m) \in {0, 1}
  BY OneName, ValuesOf DEF OneTimer
<1>1. m1 \in Machine /\ In(m1) = value /\ Shows(m, m1) /\ Live(m1) = Live(m)
      /\ Tag(m1, "timeout") = Tag(m, "timeout")
  BY GivenIs
<1>2. r \in Machine /\ In(r) = value /\ Shows(m1, r) /\ Live(r) = {}
  BY <1>0, <1>1, RemoveIs DEF OneTimer
<1>3. m2 \in Machine /\ In(m2) = value /\ Shows(r, m2) /\ Live(m2) = {} /\ Tag(m2, "timeout") = 0
  BY <1>0, <1>2, ForgetIs
<1>4. /\ value = a /\ In(m) # a => n = Arm(r, "timeout", "timeout", Delay)
      /\ value = a /\ In(m) = a => n = m1
      /\ value # a /\ Out(m, "out") = a => n = SetOutput(m2, "out", 1 - a)
      /\ value # a /\ Out(m, "out") # a => n = m2
  BY DEF Delayed, Given, Delay, In, Out
<1> HIDE DEF n, m1, r, m2
<1>5. CASE value = a /\ In(m) # a
  <2>1. n \in Machine /\ In(n) = value /\ Shows(r, n)
    BY <1>0, <1>2, <1>4, <1>5, ArmIs
  <2>2. PICK t \in Timer : t.tag = Tag(n, "timeout") /\ t.handler = "timeout" /\ t.left = Delay /\ Live(n) = Live(r) \cup {t}
    BY <1>0, <1>2, <1>4, <1>5, ArmIs
  <2>3. Shows(m, n) /\ Live(n) = {t}
    BY <1>1, <1>2, <2>1, <2>2 DEF Shows
  <2>4. Sound(m, n)
    BY <1>0, <2>1, <2>2, <2>3 DEF Sound, Published, Shows
  <2>5. OneTimer(n)
    BY <2>1, <2>2, <2>3 DEF OneTimer
  <2>6. Following(n, 0, a)
    BY <1>0, <1>5, <2>1, <2>2, <2>3 DEF Following, Shows
  <2>7. QED BY <1>5, <2>4, <2>5, <2>6 DEF n
<1>6. CASE value = a /\ In(m) = a
  <2>1. Sound(m, n)
    BY <1>1, <1>4, <1>6 DEF Sound, Published, Shows
  <2>2. OneTimer(n) /\ Following(n, age, a)
    BY <1>1, <1>4, <1>6 DEF OneTimer, Following, Shows
  <2>3. QED BY <1>6, <2>1, <2>2 DEF n
<1>7. CASE value # a /\ Out(m, "out") = a
  <2>1. n = SetOutput(m2, "out", 1 - a) /\ 1 - a \in {0, 1} /\ In(m) = a
    BY <1>4, <1>7 DEF Following
  <2>2. /\ n \in Machine /\ In(n) = value /\ Live(n) = {} /\ Tag(n, "timeout") = 0
        /\ Out(n, "out") = 1 - a /\ Pub(n, "out") = Shown(1 - a)
    BY <1>0, <1>3, <2>1, SetOutputIs
  <2>3. Sound(m, n) /\ OneTimer(n)
    BY <1>0, <2>2 DEF Sound, Published, OneTimer
  <2>4. Following(n, 0, a)
    BY <1>7, <2>2 DEF Following
  <2>5. QED BY <1>7, <2>1, <2>3, <2>4 DEF n
<1>8. CASE value # a /\ Out(m, "out") # a
  <2>1. Shows(m, n)
    BY <1>1, <1>2, <1>3, <1>4, <1>8 DEF Shows
  <2>2. Sound(m, n) /\ OneTimer(n)
    BY <1>0, <1>3, <1>4, <1>8, <2>1 DEF Sound, Published, OneTimer, Shows
  <2>3. Following(n, 0, a) /\ Following(n, age, a)
    BY <1>3, <1>4, <1>8, <2>1 DEF Following, Shows
  <2>4. QED BY <2>2, <2>3 DEF n
<1>9. QED BY <1>5, <1>6, <1>7, <1>8

LEMMA DelayedFires ==
  ASSUME conf \in Configs, conf.class \in {"timer-on", "timer-off"}, NEW a \in {0, 1},
         NEW m \in Machine, NEW age \in Nat, NEW t \in Live(m), t.left <= 0,
         OneTimer(m), Following(m, age, a)
  PROVE  LET n == Ended(SetOutput(Forget(m, "timeout"), "out", a), t)
         IN Sound(m, n) /\ OneTimer(n) /\ Following(n, age, a)
<1> DEFINE f == Forget(m, "timeout")
           s == SetOutput(f, "out", a)
           n == Ended(s, t)
<1>0. /\ "timeout" \in MyTags /\ "out" \in MyOutputs /\ \A p \in MyOutputs : p = "out"
      /\ Delay \in Nat /\ Out(m, "out") \in {0, 1} /\ In(m) \in {0, 1} /\ t \in Timer /\ t.left \in Int
  BY OneName, ValuesOf DEF OneTimer, Timer
<1>1. f \in Machine /\ Live(f) = Live(m) /\ In(f) = In(m) /\ Tag(f, "timeout") = 0
  BY <1>0, ForgetIs
<1>2. /\ s \in Machine /\ Live(s) = Live(m) /\ In(s) = In(m) /\ Tag(s, "timeout") = 0
      /\ Out(s, "out") = a /\ Pub(s, "out") = Shown(a)
  BY <1>0, <1>1, SetOutputIs
<1>3. Live(m) = {t} /\ t.handler = "timeout" /\ In(m) = a /\ age >= Delay
  BY <1>0 DEF OneTimer, Following
<1> HIDE DEF n, s, f
<1>4. /\ n \in Machine /\ Live(n) = {} /\ In(n) = a /\ Tag(n, "timeout") = 0
      /\ Out(n, "out") = a /\ Pub(n, "out") = Shown(a)
  <2>1. n \in Machine /\ In(n) = In(s) /\ Shows(s, n) /\ Tag(n, "timeout") = Tag(s, "timeout") /\ Live(n) = Live(s) \ {t}
    BY <1>0, <1>2, <1>3, EndedIs DEF n
  <2>2. QED BY <1>2, <1>3, <2>1 DEF Shows
<1>5. Sound(m, n) /\ OneTimer(n)
  BY <1>0, <1>4 DEF Sound, Published, OneTimer
<1>6. Following(n, age, a)
  BY <1>3, <1>4 DEF Following
<1>7. QED BY <1>5, <1>6 DEF n, s, f

\* timer-pulse
LEMMA RestartIs ==
  ASSUME NEW m \in Machine, "timeout" \in MyTags, \A t \in Live(m) : t.tag = Tag(m, "timeout"),
         NEW h \in Handlers, NEW delay \in Nat
  PROVE  LET n == Arm(Remove(m, "timeout"), "timeout", h, delay)
         IN /\ n \in Machine /\ In(n) = In(m) /\ Shows(m, n)
            /\ \E t \in Timer : t.tag = Tag(n, "timeout") /\ t.handler = h /\ t.left = delay /\ Live(n) = {t}
<1> DEFINE r == Remove(m, "timeout")
           n == Arm(r, "timeout", h, delay)
<1>1. r \in Machine /\ In(r) = In(m) /\ Shows(m, r) /\ Live(r) = {}
  BY RemoveIs
<1> HIDE DEF n, r
<1>2. n \in Machine /\ In(n) = In(r) /\ Shows(r, n)
  BY <1>1, ArmIs DEF n
<1>3. PICK t \in Timer : t.tag = Tag(n, "timeout") /\ t.handler = h /\ t.left = delay /\ Live(n) = Live(r) \cup {t}
  BY <1>1, ArmIs DEF n
<1>4. Shows(m, n) /\ Live(n) = {t}
  BY <1>1, <1>2, <1>3 DEF Shows
<1>5. QED BY <1>1, <1>2, <1>3, <1>4 DEF n, r

LEMMA PulseKept ==
  ASSUME conf \in Configs, conf.class = "timer-pulse",
         NEW m \in Machine, NEW value \in {0, 1}, NEW age \in Nat, NEW rise \in Nat,
         OneTimer(m), Pulsing(m, IF conf.retrigger THEN age ELSE rise)
  PROVE  LET n == PulseInput(m, value)
         IN /\ Sound(m, n) /\ OneTimer(n)
            /\ Pulsing(n, IF conf.retrigger
                          THEN IF Edge(In(m), value) THEN 0 ELSE age
                          ELSE IF Out(m, "out") = 0 /\ Out(n, "out") = 1 THEN 0 ELSE rise)
<1> DEFINE n == PulseInput(m, value)
           m1 == Given(m, value)
           m2 == Arm(Remove(m1, "timeout"), "timeout", "timeout", Delay)
           edge == Edge(In(m), value)
           retrigger == conf.retrigger
<1>0. /\ "timeout" \in MyTags /\ "out" \in MyOutputs /\ \A p \in MyOutputs : p = "out"
      /\ Delay \in Nat /\ "timeout" \in Handlers /\ Out(m, "out") \in {0, 1} /\ In(m) \in {0, 1}
      /\ retrigger \in BOOLEAN
  BY OneName, ConfType, ValuesOf DEF OneTimer
<1>1. m1 \in Machine /\ In(m1) = value /\ Shows(m, m1) /\ Live(m1) = Live(m)
      /\ Tag(m1, "timeout") = Tag(m, "timeout")
  BY GivenIs
<1>2. \A t \in Live(m1) : t.tag = Tag(m1, "timeout")
  BY <1>1 DEF OneTimer
<1>3. /\ ~(edge /\ (Out(m, "out") = 0 \/ retrigger)) => n = m1
      /\ edge /\ Out(m, "out") = 0 => n = SetOutput(m2, "out", 1)
      /\ edge /\ Out(m, "out") # 0 /\ retrigger => n = m2
  BY DEF PulseInput, Triggers, Given, Delay, In, Out
<1> HIDE DEF m1
<1>4. m2 \in Machine /\ In(m2) = value /\ Shows(m1, m2)
  BY <1>0, <1>1, <1>2, RestartIs
<1>5. PICK t \in Timer : t.tag = Tag(m2, "timeout") /\ t.handler = "timeout" /\ t.left = Delay /\ Live(m2) = {t}
  BY <1>0, <1>1, <1>2, RestartIs
<1>6. edge \in BOOLEAN
  BY DEF Edge
<1> HIDE DEF n, m2, edge, retrigger
<1>7. CASE ~(edge /\ (Out(m, "out") = 0 \/ retrigger))
  <2>1. Sound(m, n) /\ OneTimer(n) /\ Out(n, "out") = Out(m, "out") /\ Live(n) = Live(m)
    BY <1>1, <1>3, <1>7 DEF Sound, Published, Shows, OneTimer
  <2>2. CASE ~edge
    BY <1>0, <1>7, <2>1, <2>2 DEF n, edge, retrigger, Pulsing
  <2>3. CASE edge /\ ~retrigger /\ Out(m, "out") # 0
    BY <1>0, <1>7, <2>1, <2>3 DEF n, edge, retrigger, Pulsing
  <2>4. QED BY <1>7, <2>2, <2>3
<1>8. CASE edge /\ Out(m, "out") = 0
  <2>1. /\ n \in Machine /\ In(n) = value /\ Live(n) = {t} /\ Tag(n, "timeout") = t.tag
        /\ Out(n, "out") = 1 /\ Pub(n, "out") = Shown(1)
    BY <1>0, <1>3, <1>4, <1>5, <1>8, SetOutputIs
  <2>2. Sound(m, n) /\ OneTimer(n)
    BY <1>0, <1>5, <2>1 DEF Sound, Published, OneTimer
  <2>3. Pulsing(n, 0)
    BY <1>0, <1>5, <2>1 DEF Pulsing
  <2>4. QED BY <1>8, <2>1, <2>2, <2>3 DEF n, edge, retrigger
<1>9. CASE edge /\ Out(m, "out") # 0 /\ retrigger
  <2>1. Shows(m, n) /\ n = m2
    BY <1>1, <1>3, <1>4, <1>9 DEF Shows
  <2>2. Sound(m, n) /\ OneTimer(n)
    BY <1>0, <1>4, <1>5, <2>1 DEF Sound, Published, OneTimer, Shows
  <2>3. Pulsing(n, 0)
    BY <1>0, <1>5, <1>9, <2>1 DEF Pulsing, Shows
  <2>4. QED BY <1>9, <2>2, <2>3 DEF n, edge, retrigger
<1>10. QED BY <1>0, <1>6, <1>7, <1>8, <1>9

LEMMA PulseFires ==
  ASSUME conf \in Configs, conf.class = "timer-pulse",
         NEW m \in Machine, NEW since \in Nat, NEW t \in Live(m), t.left <= 0,
         OneTimer(m), Pulsing(m, since)
  PROVE  LET n == Ended(PulseTimeout(m), t)
         IN Sound(m, n) /\ OneTimer(n) /\ Pulsing(n, since) /\ Out(n, "out") = 0
<1> DEFINE f == Forget(m, "timeout")
           s == SetOutput(f, "out", 0)
           n == Ended(s, t)
<1>0. /\ "timeout" \in MyTags /\ "out" \in MyOutputs /\ \A p \in MyOutputs : p = "out"
      /\ Delay \in Nat /\ Out(m, "out") \in {0, 1} /\ In(m) \in {0, 1} /\ t \in Timer /\ t.left \in Int
  BY OneName, ValuesOf DEF OneTimer, Timer
<1>1. f \in Machine /\ Live(f) = Live(m) /\ In(f) = In(m) /\ Tag(f, "timeout") = 0
  BY <1>0, ForgetIs
<1>2. /\ s \in Machine /\ Live(s) = Live(m) /\ In(s) = In(m) /\ Tag(s, "timeout") = 0
      /\ Out(s, "out") = 0 /\ Pub(s, "out") = Shown(0)
  BY <1>0, <1>1, SetOutputIs
<1>3. Live(m) = {t} /\ t.handler = "timeout" /\ since >= Delay
  BY <1>0 DEF OneTimer, Pulsing
<1> HIDE DEF n, s, f
<1>4. /\ n \in Machine /\ Live(n) = {} /\ In(n) = In(m) /\ Tag(n, "timeout") = 0
      /\ Out(n, "out") = 0 /\ Pub(n, "out") = Shown(0)
  <2>1. n \in Machine /\ In(n) = In(s) /\ Shows(s, n) /\ Tag(n, "timeout") = Tag(s, "timeout") /\ Live(n) = Live(s) \ {t}
    BY <1>0, <1>2, <1>3, EndedIs DEF n
  <2>2. QED BY <1>2, <1>3, <2>1 DEF Shows
<1>5. Sound(m, n) /\ OneTimer(n)
  BY <1>0, <1>4 DEF Sound, Published, OneTimer
<1>6. Pulsing(n, since)
  BY <1>3, <1>4 DEF Pulsing
<1>7. QED BY <1>4, <1>5, <1>6 DEF n, s, f, PulseTimeout

\* relay-bistable
LEMMA RelayName == ASSUME conf \in Configs, conf.class = "relay-bistable"
                   PROVE  /\ "timeout" \in MyTags /\ "out0" \in MyOutputs /\ "out1" \in MyOutputs
                          /\ \A p \in MyOutputs : p = "out0" \/ p = "out1"
                          /\ Pulse \in Nat /\ Refresh \in Nat
                          /\ "timeout" \in Handlers /\ "refresh" \in Handlers
BY ConfType DEF MyTags, MyOutputs, Tags, Outputs, Handlers

LEMMA RelaySetIs ==
  ASSUME conf \in Configs, conf.class = "relay-bistable", NEW m \in Machine, NEW state \in {0, 1},
         In(m) \in {0, 1}, \A t \in Live(m) : t.tag = Tag(m, "timeout")
  PROVE  LET n == RelaySet(m, state)
         IN /\ n \in Machine /\ In(n) = In(m) /\ Published(n)
            /\ Out(n, "out0") = 1 - state /\ Out(n, "out1") = state
            /\ \E t \in Timer : t.tag = Tag(n, "timeout") /\ t.handler = "timeout" /\ t.left = Pulse /\ Live(n) = {t}
<1> DEFINE r == Remove(m, "timeout")
           s0 == SetOutput(r, "out0", 1 - state)
           s1 == SetOutput(s0, "out1", state)
           n == Arm(s1, "timeout", "timeout", Pulse)
<1>0. RelaySet(m, state) = n
  BY DEF RelaySet
<1>1. r \in Machine /\ In(r) = In(m) /\ Live(r) = {}
  BY RelayName, RemoveIs
<1> HIDE DEF r
<1>2. 1 - state \in {0, 1}
  OBVIOUS
<1>3. /\ s0 \in Machine /\ In(s0) = In(m) /\ Live(s0) = {}
      /\ Out(s0, "out0") = 1 - state /\ Pub(s0, "out0") = Shown(1 - state)
  BY <1>1, <1>2, RelayName, SetOutputIs
<1> HIDE DEF s0
<1>4. /\ s1 \in Machine /\ In(s1) = In(m) /\ Live(s1) = {}
      /\ Out(s1, "out0") = 1 - state /\ Pub(s1, "out0") = Shown(1 - state)
      /\ Out(s1, "out1") = state /\ Pub(s1, "out1") = Shown(state)
  BY <1>3, RelayName, SetOutputIs
<1> HIDE DEF s1, n
<1>5. n \in Machine /\ In(n) = In(s1) /\ Shows(s1, n)
  BY <1>4, RelayName, ArmIs, SMTT(30) DEF n
<1>6. PICK t \in Timer : t.tag = Tag(n, "timeout") /\ t.handler = "timeout" /\ t.left = Pulse /\ Live(n) = Live(s1) \cup {t}
  BY <1>4, RelayName, ArmIs, SMTT(30) DEF n
<1>7. Live(n) = {t}
  BY <1>4, <1>6
<1>8. Published(n) /\ Out(n, "out0") = 1 - state /\ Out(n, "out1") = state
  BY <1>4, <1>5, RelayName DEF Published, Shows
<1>9. QED BY <1>0, <1>4, <1>5, <1>6, <1>7, <1>8

\* Where the relay was set, one coil is excited.
LEMMA RelaySetKept ==
  ASSUME conf \in Configs, conf.class = "relay-bistable", NEW m \in Machine, NEW state \in {0, 1},
         In(m) \in {0, 1}, \A t \in Live(m) : t.tag = Tag(m, "timeout")
  PROVE  LET n == RelaySet(m, state)
         IN /\ n \in Machine /\ In(n) = In(m) /\ Published(n) /\ OneTimer(n) /\ Live(n) # {}
            /\ \A t \in Live(n) : t.left >= 0
            /\ Holding(n, FALSE) /\ (state = In(m) => Holding(n, TRUE))
<1> DEFINE n == RelaySet(m, state)
<1>1. /\ n \in Machine /\ In(n) = In(m) /\ Published(n)
      /\ Out(n, "out0") = 1 - state /\ Out(n, "out1") = state
  BY RelaySetIs
<1>2. PICK t \in Timer : t.tag = Tag(n, "timeout") /\ t.handler = "timeout" /\ t.left = Pulse /\ Live(n) = {t}
  BY RelaySetIs
<1> HIDE DEF n
<1>3. OneTimer(n) /\ Live(n) # {} /\ \A u \in Live(n) : u.left >= 0
  BY <1>1, <1>2, RelayName DEF OneTimer
<1>4. Holding(n, FALSE) /\ (state = In(m) => Holding(n, TRUE))
  BY <1>1, <1>2 DEF Holding
<1>5. QED BY <1>1, <1>3, <1>4 DEF n

LEMMA RelayInputKept ==
  ASSUME conf \in Configs, conf.class = "relay-bistable", NEW m \in Machine, NEW value \in {0, 1},
         NEW told \in BOOLEAN, OneTimer(m), Holding(m, told)
  PROVE  LET n == RelayInput(m, value)
         IN /\ Sound(m, n) /\ OneTimer(n) /\ (Live(m) # {} => Live(n) # {})
            /\ Holding(n, told \/ In(m) # value)
<1> DEFINE n == RelayInput(m, value)
           m1 == Given(m, value)
<1>1. m1 \in Machine /\ In(m1) = value /\ Shows(m, m1) /\ Live(m1) = Live(m)
      /\ Tag(m1, "timeout") = Tag(m, "timeout")
  BY GivenIs
<1>2. n = IF value # In(m) THEN RelaySet(m1, value) ELSE m1
  BY DEF RelayInput, Given, In
<1>3. In(m1) \in {0, 1} /\ \A t \in Live(m1) : t.tag = Tag(m1, "timeout")
  BY <1>1 DEF OneTimer
<1> HIDE DEF n, m1
<1>4. CASE value # In(m)
  <2>1. n = RelaySet(m1, value)
    BY <1>2, <1>4
  <2>2. /\ n \in Machine /\ Published(n) /\ OneTimer(n) /\ Live(n) # {}
        /\ \A t \in Live(n) : t.left >= 0
        /\ Holding(n, TRUE)
    BY <1>1, <1>3, <2>1, RelaySetKept
  <2>3. Holding(n, told \/ In(m) # value)
    BY <1>4, <2>2 DEF Holding
  <2>4. QED BY <2>2, <2>3 DEF n, Sound
<1>5. CASE value = In(m)
  <2>1. Sound(m, n) /\ OneTimer(n)
    BY <1>1, <1>2, <1>5 DEF Sound, Published, Shows, OneTimer
  <2>2. Holding(n, told)
    BY <1>1, <1>2, <1>5 DEF Holding, Shows
  <2>3. QED BY <1>1, <1>2, <1>5, <2>1, <2>2 DEF n, Holding
<1>6. QED BY <1>4, <1>5

LEMMA RelayFires ==
  ASSUME conf \in Configs, conf.class = "relay-bistable", NEW m \in Machine,
         NEW told \in BOOLEAN, OneTimer(m), Holding(m, told), NEW t \in Live(m)
  PROVE  LET n == Ended(Called(m, t.handler), t)
         IN /\ Sound(m, n) /\ OneTimer(n) /\ Live(n) # {} /\ Holding(n, told \/ t.handler # "timeout")
<1> DEFINE c == Called(m, t.handler)
           n == Ended(c, t)
<1>0. /\ t \in Timer /\ t.handler \in {"timeout", "refresh"} /\ Live(m) = {t} /\ In(m) \in {0, 1}
      /\ t.tag = Tag(m, "timeout")
  BY ValuesOf DEF OneTimer, Holding
<1>1. c \in Machine => n \in Machine /\ In(n) = In(c) /\ Shows(c, n) /\ Live(n) = Live(c) \ {t}
                       /\ Tag(n, "timeout") = Tag(c, "timeout")
  BY <1>0, EndedIs
<1> HIDE DEF n
<1>2. CASE t.handler = "timeout"
  <2> DEFINE s0 == SetOutput(m, "out0", 0)
             s1 == SetOutput(s0, "out1", 0)
             a == Arm(s1, "timeout", "refresh", Refresh)
  <2>1. c = a
    BY <1>2 DEF Called, RelayTimeout
  <2>2. /\ s0 \in Machine /\ In(s0) = In(m) /\ Live(s0) = Live(m)
        /\ Out(s0, "out0") = 0 /\ Pub(s0, "out0") = Shown(0) /\ Tag(s0, "timeout") = Tag(m, "timeout")
    BY RelayName, SetOutputIs
  <2> HIDE DEF s0
  <2>3. /\ s1 \in Machine /\ In(s1) = In(m) /\ Live(s1) = Live(m)
        /\ Out(s1, "out0") = 0 /\ Pub(s1, "out0") = Shown(0)
        /\ Out(s1, "out1") = 0 /\ Pub(s1, "out1") = Shown(0) /\ Tag(s1, "timeout") = Tag(m, "timeout")
    BY <2>2, RelayName, SetOutputIs
  <2> HIDE DEF s1, a, c
  <2>4. a \in Machine /\ In(a) = In(s1) /\ Shows(s1, a)
    BY <2>3, RelayName, ArmIs DEF a
  <2>5. PICK u \in Timer : /\ u.tag = Tag(a, "timeout") /\ u.handler = "refresh" /\ u.left = Refresh
                           /\ Live(a) = Live(s1) \cup {u} /\ \A v \in Live(s1) : v.tag # u.tag
    BY <2>3, RelayName, ArmIs DEF a
  <2>6. /\ n \in Machine /\ In(n) = In(m) /\ Live(n) = {u} /\ u.tag = Tag(n, "timeout")
        /\ Out(n, "out0") = 0 /\ Out(n, "out1") = 0 /\ Pub(n, "out0") = Shown(0) /\ Pub(n, "out1") = Shown(0)
    BY <1>0, <1>1, <2>1, <2>3, <2>4, <2>5 DEF Shows
  <2>7. Sound(m, n) /\ OneTimer(n) /\ Live(n) # {}
    BY <1>0, <2>5, <2>6, RelayName DEF Sound, Published, OneTimer
  <2>8. Holding(n, told \/ t.handler # "timeout")
    BY <2>5, <2>6 DEF Holding
  <2>9. QED BY <2>7, <2>8 DEF n, c
<1>3. CASE t.handler = "refresh"
  <2>1. c = RelaySet(m, In(m))
    BY <1>3 DEF Called, RelayRefresh, In
  <2> HIDE DEF c
  <2>2. /\ c \in Machine /\ In(c) = In(m) /\ Published(c)
        /\ Out(c, "out0") = 1 - In(m) /\ Out(c, "out1") = In(m)
    BY <1>0, <2>1, RelaySetIs
  <2>3. PICK u \in Timer : u.tag = Tag(c, "timeout") /\ u.handler = "timeout" /\ u.left = Pulse /\ Live(c) = {u}
    BY <1>0, <2>1, RelaySetIs
  <2>4. /\ n \in Machine /\ In(n) = In(m) /\ Live(n) = {u} /\ u.tag = Tag(n, "timeout")
        /\ Out(n, "out0") = 1 - In(m) /\ Out(n, "out1") = In(m) /\ Shows(c, n)
    BY <1>0, <1>1, <1>3, <2>2, <2>3 DEF Shows
  <2>5. Sound(m, n) /\ OneTimer(n) /\ Live(n) # {}
    BY <1>0, <2>2, <2>3, <2>4, RelayName DEF Sound, Published, OneTimer, Shows
  <2>6. Holding(n, TRUE)
    BY <1>0, <2>3, <2>4 DEF Holding
  <2>7. QED BY <1>3, <2>5, <2>6 DEF n, c
<1>4. QED BY <1>0, <1>2, <1>3

\* timer-clock
LEMMA ClockName == ASSUME conf \in Configs, conf.class = "timer-clock"
                   PROVE  /\ "period" \in MyTags /\ "duty" \in MyTags /\ "out" \in MyOutputs
                          /\ \A p \in MyOutputs : p = "out"
                          /\ Delay \in Nat /\ Period \in Nat /\ Delay < Period /\ Shown(0) = 0 /\ Shown(1) = 1
                          /\ "period" \in Handlers /\ "duty" \in Handlers
BY ConfType DEF MyTags, MyOutputs, Tags, Outputs, Handlers, Shown

\* period_handler: the output is 1 and a new duty timer runs.
LEMMA PeriodHandlerIs ==
  ASSUME conf \in Configs, conf.class = "timer-clock", NEW m \in Machine
  PROVE  LET n == PeriodHandler(m)
         IN /\ n \in Machine /\ In(n) = In(m) /\ Published(n) /\ Out(n, "out") = 1
            /\ Tag(n, "period") = Tag(m, "period")
            /\ \E d \in Timer : /\ d.tag = Tag(n, "duty") /\ d.handler = "duty" /\ d.left = Delay
                                /\ Live(n) = Live(m) \cup {d}
                                /\ \A t \in Live(m) : t.tag # d.tag
<1> DEFINE s == SetOutput(m, "out", 1)
           n == Arm(s, "duty", "duty", Delay)
<1>0. PeriodHandler(m) = n
  BY DEF PeriodHandler, Delay
<1>1. /\ s \in Machine /\ In(s) = In(m) /\ Live(s) = Live(m) /\ Tag(s, "period") = Tag(m, "period")
      /\ Out(s, "out") = 1 /\ Pub(s, "out") = Shown(1)
  BY ClockName, SetOutputIs
<1> HIDE DEF s, n
<1>6. s \in Machine /\ "duty" \in MyTags /\ "duty" \in Handlers /\ Delay \in Nat
  BY <1>1, ClockName
<1>2. n \in Machine /\ In(n) = In(s) /\ Shows(s, n) /\ Tag(n, "period") = Tag(s, "period")
  BY <1>1, ClockName, ArmIs DEF n
<1>3. PICK d \in Timer : /\ d.tag = Tag(n, "duty") /\ d.handler = "duty" /\ d.left = Delay
                         /\ Live(n) = Live(s) \cup {d} /\ \A t \in Live(s) : t.tag # d.tag
  BY <1>6, ArmIs DEF n
<1>4. Published(n) /\ Out(n, "out") = 1
  BY <1>1, <1>2, ClockName DEF Published, Shows
<1>5. QED BY <1>0, <1>1, <1>2, <1>3, <1>4

\* duty_handler: the output is 0 and no duty timer is known.
LEMMA DutyHandlerIs ==
  ASSUME conf \in Configs, conf.class = "timer-clock", NEW m \in Machine
  PROVE  LET n == DutyHandler(m)
         IN /\ n \in Machine /\ In(n) = In(m) /\ Published(n) /\ Out(n, "out") = 0 /\ Live(n) = Live(m)
            /\ Tag(n, "duty") = 0 /\ Tag(n, "period") = Tag(m, "period")
<1> DEFINE f == Forget(m, "duty")
           n == SetOutput(f, "out", 0)
<1>1. /\ f \in Machine /\ In(f) = In(m) /\ Live(f) = Live(m) /\ Tag(f, "duty") = 0
      /\ Tag(f, "period") = Tag(m, "period")
  BY ClockName, ForgetIs
<1> HIDE DEF f
<1>2. /\ n \in Machine /\ In(n) = In(m) /\ Live(n) = Live(m) /\ Tag(n, "duty") = 0
      /\ Tag(n, "period") = Tag(m, "period") /\ Out(n, "out") = 0 /\ Pub(n, "out") = Shown(0)
  BY <1>1, ClockName, SetOutputIs
<1>3. DutyHandler(m) = n
  BY DEF DutyHandler, f
<1> HIDE DEF n
<1>4. Published(n)
  BY <1>2, ClockName DEF Published
<1>5. QED BY <1>2, <1>3, <1>4

\* What _input leaves when it has removed the timers it knows: orphans of duty, if it was late.
LEMMA ClearedIs ==
  ASSUME conf \in Configs, conf.class = "timer-clock", NEW m \in Machine, NEW value \in {0, 1},
         NEW late \in BOOLEAN, Clocking(m, late)
  PROVE  LET m2 == Forget(Remove(Given(m, value), "period"), "period")
             n == Forget(Remove(m2, "duty"), "duty")
         IN /\ n \in Machine /\ In(n) = value /\ Tag(n, "period") = 0 /\ Tag(n, "duty") = 0
            /\ Live(n) \subseteq Live(m)
            /\ \A t \in Live(n) : t.handler = "duty" /\ late
<1> DEFINE m1 == Given(m, value)
           r1 == Remove(m1, "period")
           m2 == Forget(r1, "period")
           r2 == Remove(m2, "duty")
           n == Forget(r2, "duty")
<1>1. m1 \in Machine /\ In(m1) = value /\ Live(m1) = Live(m) /\ \A j : Tag(m1, j) = Tag(m, j)
  BY GivenIs
<1> HIDE DEF m1
<1>2. /\ r1 \in Machine /\ In(r1) = value /\ (\A j : Tag(r1, j) = Tag(m, j))
      /\ Live(r1) = {t \in Live(m) : t.tag # Tag(m, "period")}
  BY <1>1, ClockName, RemoveIs
<1> HIDE DEF r1
<1>3. /\ m2 \in Machine /\ In(m2) = value /\ Live(m2) = Live(r1)
      /\ Tag(m2, "period") = 0 /\ Tag(m2, "duty") = Tag(m, "duty")
  BY <1>2, ClockName, ForgetIs
<1> HIDE DEF m2
<1>4. /\ r2 \in Machine /\ In(r2) = value /\ Tag(r2, "period") = 0
      /\ Live(r2) = {t \in Live(m2) : t.tag # Tag(m, "duty")}
  BY <1>3, ClockName, RemoveIs
<1> HIDE DEF r2
<1>5. n \in Machine /\ In(n) = value /\ Tag(n, "period") = 0 /\ Tag(n, "duty") = 0 /\ Live(n) = Live(r2)
  BY <1>4, ClockName, ForgetIs
<1> HIDE DEF n
<1>6. ASSUME NEW t \in Live(n) PROVE t.handler = "duty" /\ late
  <2>1. t \in Live(m) /\ t.tag # Tag(m, "period") /\ t.tag # Tag(m, "duty")
    BY <1>2, <1>3, <1>4, <1>5
  <2>2. t \notin Periods(m)
    BY <2>1 DEF Clocking
  <2>3. QED BY <2>1, <2>2 DEF Clocking, Periods
<1>7. QED BY <1>2, <1>3, <1>4, <1>5, <1>6 DEF n, r2, m2, r1, m1

LEMMA ClockInputKept ==
  ASSUME conf \in Configs, conf.class = "timer-clock", NEW m \in Machine, NEW value \in {0, 1},
         NEW late \in BOOLEAN, Clocking(m, late)
  PROVE  LET n == ClockInput(m, value) IN Sound(m, n) /\ Published(n) /\ Clocking(n, late)
<1> DEFINE m2 == Forget(Remove(Given(m, value), "period"), "period")
           m3 == Forget(Remove(m2, "duty"), "duty")
           a == Arm(m3, "period", "period", Period)
           n == ClockInput(m, value)
<1>1. /\ m3 \in Machine /\ In(m3) = value /\ Tag(m3, "period") = 0 /\ Tag(m3, "duty") = 0
      /\ Live(m3) \subseteq Live(m)
      /\ \A t \in Live(m3) : t.handler = "duty" /\ late
  BY ClearedIs
<1>2. n = IF value = 1 THEN ClockEnable(m3) ELSE DutyHandler(m3)
  BY DEF ClockInput, Given
<1>3. \A t, u \in Live(m3) : t.tag = u.tag => t = u
  BY <1>1 DEF Clocking
<1> HIDE DEF m3, n
<1>4. CASE value = 1
  <2>1. n = PeriodHandler(a)
    BY <1>1, <1>2, <1>4 DEF ClockEnable, Period, Tag
  <2>2. a \in Machine /\ In(a) = 1
    BY <1>1, <1>4, ClockName, ArmIs
  <2>13. m3 \in Machine /\ "period" \in MyTags /\ "period" \in Handlers /\ Period \in Nat
    BY <1>1, ClockName
  <2>3. PICK p \in Timer : /\ p.tag = Tag(a, "period") /\ p.handler = "period" /\ p.left = Period
                           /\ Live(a) = Live(m3) \cup {p} /\ \A u \in Live(m3) : u.tag # p.tag
    BY <2>13, ArmIs
  <2> HIDE DEF a
  <2>4. n \in Machine /\ In(n) = 1 /\ Published(n) /\ Out(n, "out") = 1 /\ Tag(n, "period") = p.tag
    BY <2>1, <2>2, <2>3, PeriodHandlerIs
  <2>5. PICK d \in Timer : /\ d.tag = Tag(n, "duty") /\ d.handler = "duty" /\ d.left = Delay
                           /\ Live(n) = Live(a) \cup {d} /\ \A t \in Live(a) : t.tag # d.tag
    BY <2>1, <2>2, PeriodHandlerIs
  <2>6. d.tag # 0 /\ d.left = p.left - (Period - Delay)
    BY <2>3, <2>5, ClockName DEF Timer
  <2>7. Periods(n) = {p}
    BY <1>1, <2>3, <2>5 DEF Periods
  <2>8. Sound(m, n)
    BY <1>1, <2>3, <2>4, <2>5, ClockName DEF Sound
  <2>9. \A t, u \in Live(n) : t.tag = u.tag => t = u
    BY <1>3, <2>3, <2>5
  <2>10. \A t \in Live(n) : t.handler \in {"period", "duty"} /\ (t.handler = "duty" => t = d \/ late)
    BY <1>1, <2>3, <2>5
  <2>11. Clocking(n, late)
    BY <2>3, <2>4, <2>5, <2>6, <2>7, <2>9, <2>10 DEF Clocking
  <2>12. QED BY <2>4, <2>8, <2>11 DEF n
<1>5. CASE value # 1
  <2>1. n = DutyHandler(m3)
    BY <1>2, <1>5
  <2>2. /\ n \in Machine /\ In(n) = 0 /\ Published(n) /\ Out(n, "out") = 0 /\ Live(n) = Live(m3)
        /\ Tag(n, "duty") = 0 /\ Tag(n, "period") = 0
    BY <1>1, <1>5, <2>1, DutyHandlerIs
  <2>3. Sound(m, n)
    BY <1>1, <2>2 DEF Sound
  <2>4. Periods(n) = {}
    BY <1>1, <2>2 DEF Periods
  <2>5. Clocking(n, late)
    BY <1>1, <1>3, <2>2, <2>4 DEF Clocking
  <2>6. QED BY <2>2, <2>3, <2>5 DEF n
<1>6. QED BY <1>4, <1>5

LEMMA PeriodFires ==
  ASSUME conf \in Configs, conf.class = "timer-clock", NEW m \in Machine, NEW late \in BOOLEAN,
         Clocking(m, late), Punctual(m, late), NEW t \in Live(m), t.left <= 0, t.handler = "period"
  PROVE  LET n == Ended(PeriodHandler(m), t) IN Sound(m, n) /\ Published(n) /\ Clocking(n, late)
<1> DEFINE c == PeriodHandler(m)
           n == Ended(c, t)
<1>1. t \in Timer /\ Live(m) \subseteq Timer /\ In(m) = 1 /\ Periods(m) = {t} /\ Tag(m, "period") = t.tag
  BY ValuesOf DEF Clocking, Periods
<1>2. c \in Machine /\ In(c) = 1 /\ Published(c) /\ Out(c, "out") = 1 /\ Tag(c, "period") = t.tag
  BY <1>1, PeriodHandlerIs
<1>3. PICK d \in Timer : /\ d.tag = Tag(c, "duty") /\ d.handler = "duty" /\ d.left = Delay
                         /\ Live(c) = Live(m) \cup {d} /\ \A u \in Live(m) : u.tag # d.tag
  BY PeriodHandlerIs
<1> HIDE DEF c
<1>4. n \in Machine /\ In(n) = In(c) /\ Shows(c, n) /\ \A j : Tag(n, j) = Tag(c, j)
  BY <1>1, <1>2, EndedIs
<1>5. PICK p \in Timer : /\ Live(n) = (Live(c) \ {t}) \cup {p}
                         /\ p.tag = t.tag /\ p.handler = "period" /\ p.left = Period
  BY <1>1, <1>2, EndedIs, ZenonT(40)
<1> HIDE DEF n
<1>6. ~late => \A u \in Live(m) : u = t
  <2>1. SUFFICES ASSUME ~late, NEW u \in Live(m), u # t PROVE FALSE
    OBVIOUS
  <2>2. u.handler = "duty"
    BY <1>1, <2>1 DEF Clocking, Periods
  <2>3. u.left = t.left - (Period - Delay)
    BY <1>1, <2>1, <2>2 DEF Clocking
  <2>4. u.left >= 0 /\ u.left \in Int /\ t.left \in Int
    BY <1>1, <2>1 DEF Punctual, Timer
  <2>5. QED BY <2>3, <2>4, ClockName
<1>7. Live(n) = (Live(m) \ {t}) \cup {d, p}
  BY <1>3, <1>5
<1>8. \A u \in Live(m) : u # t => u.handler = "duty" /\ u.tag # t.tag
  BY <1>1 DEF Clocking, Periods
<1>9. Periods(n) = {p}
  BY <1>3, <1>5, <1>7, <1>8 DEF Periods
<1>10. \A u, v \in Live(n) : u.tag = v.tag => u = v
  <2>1. \A u, v \in Live(m) : u.tag = v.tag => u = v
    BY DEF Clocking
  <2>2. d.tag # p.tag
    BY <1>3, <1>5
  <2>3. QED BY <1>3, <1>5, <1>7, <1>8, <2>1, <2>2
<1>11. \A u \in Live(n) : u.handler \in {"period", "duty"} /\ (u.handler = "duty" => u = d \/ late)
  BY <1>3, <1>5, <1>6, <1>7, <1>8
<1>12. d.tag # 0 /\ d.left = p.left - (Period - Delay)
  BY <1>3, <1>5, ClockName DEF Timer
<1>13. Out(n, "out") = 1 /\ In(n) = 1 /\ Tag(n, "period") = p.tag /\ Tag(n, "duty") = d.tag
  BY <1>2, <1>3, <1>4, <1>5 DEF Shows
<1>14. Clocking(n, late)
  BY <1>3, <1>5, <1>7, <1>9, <1>10, <1>11, <1>12, <1>13 DEF Clocking
<1>15. Sound(m, n) /\ Published(n)
  BY <1>2, <1>3, <1>4, <1>5, <1>7, ClockName DEF Sound, Published, Shows
<1>16. QED BY <1>14, <1>15 DEF n, c

LEMMA DutyFires ==
  ASSUME conf \in Configs, conf.class = "timer-clock", NEW m \in Machine, NEW late \in BOOLEAN,
         Clocking(m, late), NEW t \in Live(m), t.left <= 0, t.handler = "duty"
  PROVE  LET n == Ended(DutyHandler(m), t) IN Sound(m, n) /\ Published(n) /\ Clocking(n, late)
<1> DEFINE c == DutyHandler(m)
           n == Ended(c, t)
<1>1. t \in Timer /\ Live(m) \subseteq Timer
  BY ValuesOf
<1>2. /\ c \in Machine /\ In(c) = In(m) /\ Published(c) /\ Out(c, "out") = 0 /\ Live(c) = Live(m)
      /\ Tag(c, "duty") = 0 /\ Tag(c, "period") = Tag(m, "period")
  BY DutyHandlerIs
<1> HIDE DEF c
<1>3. n \in Machine /\ In(n) = In(m) /\ Shows(c, n) /\ Live(n) = Live(m) \ {t}
      /\ Tag(n, "duty") = 0 /\ Tag(n, "period") = Tag(m, "period")
  BY <1>1, <1>2, EndedIs
<1> HIDE DEF n
<1>4. Sound(m, n) /\ Published(n) /\ Out(n, "out") = 0
  BY <1>2, <1>3, ClockName DEF Sound, Published, Shows
<1>5. Periods(n) = Periods(m)
  BY <1>3 DEF Periods
<1>6. ~late => \A u \in Live(n) : u.handler # "duty"
  BY <1>3 DEF Clocking
<1>7. ASSUME In(m) = 1
      PROVE  \E p \in Live(n) : /\ Periods(n) = {p} /\ p.tag = Tag(n, "period")
                                /\ ~late => p.left <= Period - Delay
  <2>1. PICK p \in Live(m) : /\ Periods(m) = {p} /\ p.tag = Tag(m, "period")
                             /\ ~late => \A d \in Live(m) : d.handler = "duty" => d.left = p.left - (Period - Delay)
    BY <1>7 DEF Clocking
  <2>2. p.handler = "period"
    BY <2>1 DEF Periods
  <2>3. ~late => p.left <= Period - Delay
    <3>1. t.left \in Int /\ p.left \in Int
      BY <1>1 DEF Timer
    <3>2. QED BY <2>1, <3>1, ClockName
  <2>4. QED BY <1>3, <1>5, <2>1, <2>2, <2>3
<1>8. \A u, v \in Live(n) : u.tag = v.tag => u = v
  BY <1>3 DEF Clocking
<1>9. (\A u \in Live(n) : u.handler \in {"period", "duty"}) /\ (In(m) # 1 => Periods(n) = {} /\ Tag(n, "period") = 0)
  BY <1>3, <1>5 DEF Clocking
<1>10. Clocking(n, late)
  BY <1>3, <1>4, <1>6, <1>7, <1>8, <1>9 DEF Clocking
<1>11. QED BY <1>4, <1>10 DEF n, c
-----------------------------------------------------------------------------
(* What the steps keep                                                     *)

Rose(m, n) == \E p \in MyOutputs : Out(m, p) = 0 /\ Out(n, p) = 1

\* A method that is sound leaves timers that are no later than before.
LEMMA SoundPunctual == ASSUME NEW m, NEW n, Sound(m, n), NEW late \in BOOLEAN, Punctual(m, late), conf \in Configs
                       PROVE  Punctual(n, late)
<1>1. ASSUME NEW t \in Live(n) PROVE t.left >= -MaxLate /\ (~late => t.left >= 0)
  <2>1. CASE t \in Live(m)
    BY <2>1 DEF Punctual
  <2>2. CASE t.left >= 0
    <3>1. t.left \in Int /\ MaxLate \in Nat
      BY <1>1, ValuesOf, ConfType DEF Sound, Timer
    <3>2. QED BY <2>2, <3>1
  <2>3. QED BY <1>1, <2>1, <2>2 DEF Sound
<1>2. QED BY <1>1 DEF Punctual

LEMMA InputKept ==
  ASSUME conf \in Configs, NEW m \in Machine, NEW value \in {0, 1}, NEW age \in Nat, NEW rise \in Nat,
         NEW late \in BOOLEAN, NEW told \in BOOLEAN, NEW on \in BOOLEAN,
         Good(m, age, rise, late, told, on)
  PROVE  LET n == InputMethod(m, value)
             counts == IF conf.class = "timer-pulse" THEN Edge(In(m), value) ELSE In(m) # value
         IN /\ n \in Machine
            /\ Good(n, IF counts THEN 0 ELSE age, IF Rose(m, n) THEN 0 ELSE rise, late,
                    told \/ In(m) # value \/ conf.class = "timer-clock", on)
<1> DEFINE n == InputMethod(m, value)
           counts == IF conf.class = "timer-pulse" THEN Edge(In(m), value) ELSE In(m) # value
<1>1. conf.class \in Classes /\ Punctual(m, late)
  BY ConfType DEF Good
<1>2. CASE conf.class \in {"timer-on", "timer-off"}
  <2> DEFINE a == IF conf.class = "timer-on" THEN 1 ELSE 0
  <2>1. a \in {0, 1} /\ OneTimer(m) /\ Following(m, age, a) /\ n = Delayed(m, a, value)
    BY <1>2 DEF Good, InputMethod, TimerOnInput, TimerOffInput
  <2> HIDE DEF a
  <2>2. Sound(m, n) /\ OneTimer(n) /\ Following(n, IF In(m) # value THEN 0 ELSE age, a)
    BY <1>2, <2>1, DelayedKept
  <2> HIDE DEF n
  <2>3. Punctual(n, late)
    BY <1>1, <2>2, SoundPunctual
  <2>4. QED BY <1>2, <2>2, <2>3 DEF n, a, Good, Sound
<1>3. CASE conf.class = "timer-pulse"
  <2>1. OneTimer(m) /\ Pulsing(m, IF conf.retrigger THEN age ELSE rise) /\ n = PulseInput(m, value)
    BY <1>3 DEF Good, InputMethod
  <2>2. /\ Sound(m, n) /\ OneTimer(n)
        /\ Pulsing(n, IF conf.retrigger
                      THEN IF Edge(In(m), value) THEN 0 ELSE age
                      ELSE IF Out(m, "out") = 0 /\ Out(n, "out") = 1 THEN 0 ELSE rise)
    BY <1>3, <2>1, PulseKept
  <2> HIDE DEF n
  <2>3. Punctual(n, late)
    BY <1>1, <2>2, SoundPunctual
  <2>4. Rose(m, n) <=> Out(m, "out") = 0 /\ Out(n, "out") = 1
    BY <1>3, OneName DEF Rose
  <2>5. Pulsing(n, IF conf.retrigger THEN IF counts THEN 0 ELSE age ELSE IF Rose(m, n) THEN 0 ELSE rise)
    BY <1>3, <2>2, <2>4
  <2>6. QED BY <1>3, <2>2, <2>3, <2>5 DEF n, Good, Sound
<1>4. CASE conf.class = "timer-clock"
  <2>1. Clocking(m, late) /\ n = ClockInput(m, value)
    BY <1>4 DEF Good, InputMethod
  <2>2. Sound(m, n) /\ Published(n) /\ Clocking(n, late)
    BY <1>4, <2>1, ClockInputKept
  <2> HIDE DEF n
  <2>3. Punctual(n, late)
    BY <1>1, <2>2, SoundPunctual
  <2>4. QED BY <1>4, <2>2, <2>3 DEF n, Good, Sound
<1>5. CASE conf.class = "relay-bistable"
  <2>1. OneTimer(m) /\ Holding(m, told) /\ (on => Live(m) # {}) /\ n = RelayInput(m, value)
    BY <1>5 DEF Good, InputMethod
  <2>2. Sound(m, n) /\ OneTimer(n) /\ (Live(m) # {} => Live(n) # {}) /\ Holding(n, told \/ In(m) # value)
    BY <1>5, <2>1, RelayInputKept
  <2> HIDE DEF n
  <2>3. Punctual(n, late)
    BY <1>1, <2>2, SoundPunctual
  <2>4. Holding(n, told \/ In(m) # value \/ conf.class = "timer-clock")
    BY <1>5, <2>2 DEF Holding
  <2>5. QED BY <1>5, <2>1, <2>2, <2>3, <2>4 DEF n, Good, Sound
<1>6. QED BY <1>1, <1>2, <1>3, <1>4, <1>5 DEF Classes

\* When a timer fires, and when time passes
Due(t) == t.left <= 0
Waits(m, late, d) == \A t \in Live(m) : t.left > 0 /\ (late => t.left >= d)
Missed(m, late, d) == late \/ \E t \in Live(m) : t.left < d

Fires(m, t, age, rise, late, told, n, rise2, told2) ==
  /\ m \in Machine /\ t \in Live(m) /\ Due(t) /\ age \in Nat /\ rise \in Nat
  /\ late \in BOOLEAN /\ told \in BOOLEAN /\ Good(m, age, rise, late, told, TRUE)
  /\ n = Ended(Called(m, t.handler), t) /\ rise2 = IF Rose(m, n) THEN 0 ELSE rise
  /\ told2 \in BOOLEAN
  /\ told2 <=> told \/ t.handler # "timeout"
LEMMA FireKept ==
  ASSUME conf \in Configs, NEW m, NEW t, NEW age, NEW rise, NEW late, NEW told, NEW n, NEW rise2, NEW told2,
         Fires(m, t, age, rise, late, told, n, rise2, told2)
  PROVE  n \in Machine /\ Good(n, age, rise2, late, told2, TRUE)
<1> /\ m \in Machine /\ t \in Live(m) /\ Due(t) /\ age \in Nat /\ rise \in Nat
    /\ late \in BOOLEAN /\ told \in BOOLEAN /\ Good(m, age, rise, late, told, TRUE)
    /\ n = Ended(Called(m, t.handler), t) /\ rise2 = IF Rose(m, n) THEN 0 ELSE rise
    /\ told2 \in BOOLEAN
    /\ told2 <=> told \/ t.handler # "timeout"
  BY DEF Fires
<1>1. conf.class \in Classes /\ Punctual(m, late)
  BY ConfType DEF Good
<1>2. CASE conf.class \in {"timer-on", "timer-off"}
  <2> DEFINE a == IF conf.class = "timer-on" THEN 1 ELSE 0
  <2>1. /\ a \in {0, 1} /\ OneTimer(m) /\ Following(m, age, a)
        /\ n = Ended(SetOutput(Forget(m, "timeout"), "out", a), t)
    BY <1>2 DEF Good, Called, TimerOnTimeout, TimerOffTimeout
  <2> HIDE DEF a
  <2>2. Sound(m, n) /\ OneTimer(n) /\ Following(n, age, a)
    BY <1>2, <2>1, DelayedFires DEF Due
  <2>3. Punctual(n, late)
    BY <1>1, <2>2, SoundPunctual
  <2>4. QED BY <1>2, <2>2, <2>3 DEF a, Good, Sound
<1>3. CASE conf.class = "timer-pulse"
  <2> DEFINE since == IF conf.retrigger THEN age ELSE rise
  <2>1. /\ OneTimer(m) /\ Pulsing(m, since) /\ since \in Nat
        /\ n = Ended(PulseTimeout(m), t)
    BY <1>3 DEF Good, Called
  <2> HIDE DEF since
  <2>2. Sound(m, n) /\ OneTimer(n) /\ Pulsing(n, since) /\ Out(n, "out") = 0
    BY <1>3, <2>1, PulseFires DEF Due
  <2>3. Punctual(n, late)
    BY <1>1, <2>2, SoundPunctual
  <2>4. ~Rose(m, n)
    BY <1>3, <2>2, OneName DEF Rose
  <2>5. QED BY <1>3, <2>2, <2>3, <2>4 DEF since, Good, Sound
<1>4. CASE conf.class = "timer-clock"
  <2>1. Clocking(m, late) /\ t.handler \in {"period", "duty"}
    BY <1>4 DEF Good, Clocking
  <2>2. n = Ended(IF t.handler = "period" THEN PeriodHandler(m) ELSE DutyHandler(m), t)
    BY <1>4, <2>1 DEF Called
  <2>3. Sound(m, n) /\ Published(n) /\ Clocking(n, late)
    <3>1. CASE t.handler = "period"
      BY <1>1, <1>4, <2>1, <2>2, <3>1, PeriodFires DEF Due
    <3>2. CASE t.handler = "duty"
      BY <1>4, <2>1, <2>2, <3>2, DutyFires DEF Due
    <3>3. QED BY <2>1, <3>1, <3>2
  <2>4. Punctual(n, late)
    BY <1>1, <2>3, SoundPunctual
  <2>5. QED BY <1>4, <2>3, <2>4 DEF Good, Sound
<1>5. CASE conf.class = "relay-bistable"
  <2>1. OneTimer(m) /\ Holding(m, told)
    BY <1>5 DEF Good
  <2>2. Sound(m, n) /\ OneTimer(n) /\ Live(n) # {} /\ Holding(n, told \/ t.handler # "timeout")
    BY <1>5, <2>1, RelayFires
  <2>3. Punctual(n, late)
    BY <1>1, <2>2, SoundPunctual
  <2>4. Holding(n, told2)
    BY <2>2 DEF Holding
  <2>5. QED BY <1>5, <2>2, <2>3, <2>4 DEF Good, Sound
<1>6. QED BY <1>1, <1>2, <1>3, <1>4, <1>5 DEF Classes

LEMMA StartKept ==
  ASSUME conf \in Configs, NEW m \in Machine, NEW age \in Nat, NEW rise \in Nat,
         NEW late \in BOOLEAN, NEW told \in BOOLEAN, Good(m, age, rise, late, told, FALSE)
  PROVE  LET n == StartMethod(m)
         IN n \in Machine /\ Good(n, age, IF Rose(m, n) THEN 0 ELSE rise, late, In(m) # 1, TRUE)
<1> DEFINE n == StartMethod(m)
<1>1. conf.class \in Classes /\ Punctual(m, late)
  BY ConfType DEF Good
<1>2. CASE conf.class \in {"timer-on", "timer-off", "timer-pulse"}
  <2>1. n = SetOutput(m, "out", Out(m, "out"))
    BY <1>2 DEF StartMethod, Out
  <2>2. "out" \in MyOutputs /\ Out(m, "out") \in {0, 1}
    BY <1>2, OneName, ValuesOf
  <2> HIDE DEF n
  <2>3. /\ n \in Machine /\ In(n) = In(m) /\ Live(n) = Live(m) /\ Tag(n, "timeout") = Tag(m, "timeout")
        /\ Out(n, "out") = Out(m, "out") /\ Pub(n, "out") = Shown(Out(n, "out"))
    BY <2>1, <2>2, SetOutputIs
  <2>4. Published(n) /\ ~Rose(m, n)
    BY <1>2, <2>3, OneName DEF Published, Rose
  <2>5. OneTimer(n) /\ Punctual(n, late)
    BY <1>1, <1>2, <2>3 DEF Good, OneTimer, Punctual
  <2>6. /\ conf.class = "timer-on" => Following(n, age, 1)
        /\ conf.class = "timer-off" => Following(n, age, 0)
    BY <2>3 DEF Good, Following
  <2>7. conf.class = "timer-pulse" => Pulsing(n, IF conf.retrigger THEN age ELSE rise)
    BY <2>3 DEF Good, Pulsing
  <2>8. QED BY <1>2, <2>3, <2>4, <2>5, <2>6, <2>7 DEF n, Good
<1>3. CASE conf.class = "timer-clock"
  <2> DEFINE o == [m.obj EXCEPT !.pub = [m.obj.pub EXCEPT !["out"] = 0]]
  <2>1. n = [obj |-> o, live |-> m.live]
    BY <1>3, Parts DEF StartMethod, ObjType
  <2>2. o \in ObjType
    BY Parts DEF ObjType
  <2>3. n \in Machine /\ n.obj = o /\ n.live = m.live
    BY <2>1, <2>2, Parts, Whole
  <2>4. o.in = m.obj.in /\ o.out = m.obj.out /\ o.tag = m.obj.tag /\ o.pub["out"] = 0
    BY <1>3, Parts, ClockName DEF ObjType
  <2> HIDE DEF n, o
  <2>5. /\ In(n) = In(m) /\ Live(n) = Live(m) /\ Pub(n, "out") = 0
        /\ (\A j : Tag(n, j) = Tag(m, j)) /\ \A p : Out(n, p) = Out(m, p)
    BY <2>3, <2>4 DEF In, Live, Out, Pub, Tag
  <2>6. Punctual(n, late)
    BY <1>1, <2>5 DEF Punctual
  <2>7. Clocking(n, late) /\ Clocking(m, late)
    BY <1>3, <2>5 DEF Good, Clocking, Periods
  <2>8. In(m) # 1 => Published(n)
    <3>1. "out" \in MyOutputs
      BY <1>3, ClockName
    <3>2. Out(m, "out") \in {0, 1}
      BY <3>1, ValuesOf
    <3>3. In(m) # 1 => Out(m, "out") = 0
      BY <2>7, <3>2 DEF Clocking
    <3>4. QED BY <1>3, <2>5, <3>3, ClockName DEF Published
  <2>9. QED BY <1>3, <2>3, <2>6, <2>7, <2>8 DEF n, Good
<1>4. CASE conf.class = "relay-bistable"
  <2>1. OneTimer(m) /\ n = RelaySet(m, 0)
    BY <1>4 DEF Good, StartMethod
  <2>2. In(m) \in {0, 1} /\ \A t \in Live(m) : t.tag = Tag(m, "timeout")
    BY <2>1 DEF OneTimer
  <2> HIDE DEF n
  <2>3. /\ n \in Machine /\ In(n) = In(m) /\ Published(n) /\ OneTimer(n) /\ Live(n) # {}
        /\ \A t \in Live(n) : t.left >= 0
        /\ Holding(n, FALSE) /\ (0 = In(m) => Holding(n, TRUE))
    BY <1>4, <2>1, <2>2, RelaySetKept
  <2>4. Sound(m, n)
    BY <2>3 DEF Sound
  <2>5. Punctual(n, late)
    BY <1>1, <2>4, SoundPunctual
  <2>6. Holding(n, In(m) # 1)
    BY <2>2, <2>3
  <2>7. QED BY <1>4, <2>3, <2>5, <2>6 DEF n, Good
<1>5. QED BY <1>1, <1>2, <1>3, <1>4 DEF Classes

\* Time passes for a timer.
Older(t, d) == [t EXCEPT !.left = @ - d]
LEMMA OlderIs == ASSUME NEW t \in Timer, NEW d \in Nat
                 PROVE  /\ Older(t, d) \in Timer /\ Older(t, d).tag = t.tag /\ Older(t, d).handler = t.handler
                        /\ Older(t, d).left = t.left - d
BY DEF Older, Timer

LEMMA GrownIs == ASSUME conf \in Configs, NEW age \in Nat, NEW d \in Nat
                 PROVE  /\ Grown(age, d) \in Nat
                        /\ conf.class # "relay-bistable" /\ age + d <= Delay + MaxLate => Grown(age, d) = age + d
                        /\ conf.class # "relay-bistable" /\ age >= Delay => Grown(age, d) >= Delay
<1>1. /\ Horizon \in Nat /\ Delay \in Nat /\ MaxLate \in Nat
      /\ conf.class # "relay-bistable" => Horizon = 1 + MaxLate + Delay
  BY ConfType
<1>2. QED BY <1>1 DEF Grown

Ticks(m, d, n, age, rise, late, told, age2, rise2, late2) ==
  /\ m \in Machine /\ n \in Machine /\ d \in 1..(1 + MaxLate)
  /\ In(n) = In(m) /\ Shows(m, n) /\ \A j : Tag(n, j) = Tag(m, j)
  /\ Live(n) = {Older(t, d) : t \in Live(m)} /\ Waits(m, late, d)
  /\ age \in Nat /\ rise \in Nat /\ late \in BOOLEAN /\ told \in BOOLEAN /\ late2 \in BOOLEAN
  /\ Good(m, age, rise, late, told, TRUE)
  /\ age2 = Grown(age, d) /\ rise2 = Grown(rise, d)
  /\ late2 <=> Missed(m, late, d)
LEMMA TickKept ==
  ASSUME conf \in Configs, NEW m, NEW d, NEW n, NEW age, NEW rise, NEW late, NEW told, NEW age2, NEW rise2, NEW late2,
         Ticks(m, d, n, age, rise, late, told, age2, rise2, late2)
  PROVE  Good(n, age2, rise2, late2, told, TRUE)
<1> /\ m \in Machine /\ n \in Machine /\ d \in 1..(1 + MaxLate)
    /\ In(n) = In(m) /\ Shows(m, n) /\ \A j : Tag(n, j) = Tag(m, j)
    /\ Live(n) = {Older(t, d) : t \in Live(m)} /\ Waits(m, late, d)
    /\ age \in Nat /\ rise \in Nat /\ late \in BOOLEAN /\ told \in BOOLEAN /\ late2 \in BOOLEAN
    /\ Good(m, age, rise, late, told, TRUE)
    /\ age2 = Grown(age, d) /\ rise2 = Grown(rise, d)
    /\ late2 <=> Missed(m, late, d)
  BY DEF Ticks
<1>1. conf.class \in Classes /\ Punctual(m, late) /\ MaxLate \in Nat /\ d \in Nat /\ Delay \in Nat /\ Period \in Nat
  BY ConfType DEF Good
<1>2. ASSUME NEW t \in Live(m)
      PROVE  /\ t \in Timer /\ t.left \in Int /\ t.left > 0 /\ (~late2 => t.left >= d)
             /\ Older(t, d) \in Live(n) /\ Older(t, d).tag = t.tag /\ Older(t, d).handler = t.handler
             /\ Older(t, d).left = t.left - d
  <2>1. t \in Timer /\ t.left \in Int
    BY ValuesOf DEF Timer
  <2>2. t.left > 0 /\ (~late2 => t.left >= d)
    BY <1>1, <2>1 DEF Waits, Missed
  <2>3. Older(t, d) \in Live(n)
    OBVIOUS
  <2>4. Older(t, d).tag = t.tag /\ Older(t, d).handler = t.handler /\ Older(t, d).left = t.left - d
    BY <1>1, <2>1, OlderIs
  <2>5. QED BY <2>1, <2>2, <2>3, <2>4
<1>3. ASSUME NEW u \in Live(n) PROVE \E t \in Live(m) : u = Older(t, d)
  OBVIOUS
<1>4. late2 \in BOOLEAN /\ (~late2 => ~late)
  BY DEF Missed
<1>5. Live(m) = {} <=> Live(n) = {}
  BY <1>2, <1>3
<1>6. Punctual(n, late2)
  <2>1. SUFFICES ASSUME NEW t \in Live(m)
                 PROVE  t.left - d >= -MaxLate /\ (~late2 => t.left - d >= 0)
    BY <1>2, <1>3 DEF Punctual
  <2>2. QED BY <1>1, <1>2
<1>7. Published(m) => Published(n)
  BY DEF Published, Shows
<1>8. OneTimer(m) => OneTimer(n)
  <2>1. SUFFICES ASSUME OneTimer(m), NEW t \in Live(m) PROVE t.tag = Tag(m, "timeout") /\ Live(n) = {Older(t, d)}
    BY <1>2, <1>3, <1>5 DEF OneTimer
  <2>2. t.tag = Tag(m, "timeout") /\ Live(m) = {t}
    BY <2>1 DEF OneTimer
  <2>3. QED BY <2>2
<1>9. ASSUME NEW a \in {0, 1}, conf.class # "relay-bistable", Following(m, age, a) PROVE Following(n, Grown(age, d), a)
  <2>1. ASSUME NEW t \in Live(m) PROVE t.handler = "timeout" /\ t.left - d + Grown(age, d) = Delay
    <3>1. t.handler = "timeout" /\ t.left + age = Delay /\ t.left - d >= -MaxLate
      BY <1>1, <1>2, <1>9 DEF Following
    <3>2. age + d <= Delay + MaxLate
      BY <1>1, <1>2, <3>1
    <3>3. QED BY <1>1, <1>2, <1>9, <3>1, <3>2, GrownIs
  <2>2. Out(n, "out") = a => In(n) = a /\ Live(n) = {} /\ Grown(age, d) >= Delay
    BY <1>1, <1>5, <1>9, GrownIs DEF Following, Shows
  <2>3. \A u \in Live(n) : u.handler = "timeout" /\ u.left + Grown(age, d) = Delay
    BY <1>2, <1>3, <2>1
  <2>4. QED BY <1>5, <1>9, <2>2, <2>3 DEF Following, Shows
<1>10. ASSUME NEW since \in Nat, conf.class # "relay-bistable", Pulsing(m, since) PROVE Pulsing(n, Grown(since, d))
  <2>1. ASSUME NEW t \in Live(m) PROVE t.handler = "timeout" /\ t.left - d + Grown(since, d) = Delay
    <3>1. t.handler = "timeout" /\ t.left + since = Delay /\ t.left - d >= -MaxLate
      BY <1>1, <1>2, <1>10 DEF Pulsing
    <3>2. since + d <= Delay + MaxLate
      BY <1>1, <1>2, <3>1
    <3>3. QED BY <1>1, <1>2, <1>10, <3>1, <3>2, GrownIs
  <2>2. Live(n) = {} => Grown(since, d) >= Delay
    BY <1>1, <1>5, <1>10, GrownIs DEF Pulsing
  <2>3. \A u \in Live(n) : u.handler = "timeout" /\ u.left + Grown(since, d) = Delay
    BY <1>2, <1>3, <2>1
  <2>4. QED BY <1>5, <1>10, <2>2, <2>3 DEF Pulsing, Shows
<1>11. ASSUME Clocking(m, late) PROVE Clocking(n, late2)
  <2>1. \A u, v \in Live(n) : u.tag = v.tag => u = v
    BY <1>2, <1>3, <1>11 DEF Clocking
  <2>2. \A u \in Live(n) : u.handler \in {"period", "duty"} /\ (~late2 /\ u.handler = "duty" => u.tag = Tag(n, "duty"))
    BY <1>2, <1>3, <1>4, <1>11 DEF Clocking
  <2>3. /\ Out(n, "out") = 1 <=> Tag(n, "duty") # 0
        /\ Tag(n, "duty") # 0 => \E c \in Live(n) : c.tag = Tag(n, "duty") /\ c.handler = "duty"
    BY <1>2, <1>11 DEF Clocking, Shows
  <2>4. In(n) # 1 => Periods(n) = {} /\ Tag(n, "period") = 0 /\ Tag(n, "duty") = 0
    BY <1>2, <1>3, <1>11 DEF Clocking, Periods
  <2>5. ASSUME In(n) = 1
        PROVE  \E q \in Live(n) :
                 /\ Periods(n) = {q} /\ q.tag = Tag(n, "period")
                 /\ ~late2 => /\ \A c \in Live(n) : c.handler = "duty" => c.left = q.left - (Period - Delay)
                              /\ Out(n, "out") = 0 => q.left <= Period - Delay
    <3>1. PICK p \in Live(m) :
             /\ Periods(m) = {p} /\ p.tag = Tag(m, "period")
             /\ ~late => /\ \A c \in Live(m) : c.handler = "duty" => c.left = p.left - (Period - Delay)
                         /\ Out(m, "out") = 0 => p.left <= Period - Delay
      BY <1>11, <2>5 DEF Clocking
    <3> DEFINE q == Older(p, d)
    <3>2. /\ q \in Live(n) /\ q.tag = Tag(n, "period") /\ q.handler = p.handler /\ q.left = p.left - d
          /\ p.left \in Int
      BY <1>2, <3>1
    <3>3. p.handler = "period" /\ \A t \in Live(m) : t.handler = "period" => t = p
      BY <3>1 DEF Periods
    <3>4. \A u \in Live(n) : u.handler = "period" => u = q
      BY <1>2, <1>3, <3>3
    <3> HIDE DEF q
    <3>5. Periods(n) = {q}
      BY <3>2, <3>3, <3>4 DEF Periods
    <3>6. ASSUME ~late2, NEW c \in Live(n), c.handler = "duty" PROVE c.left = q.left - (Period - Delay)
      <4>1. PICK t \in Live(m) : c = Older(t, d)
        BY <1>3
      <4>2. c.left = t.left - d /\ t.handler = "duty" /\ t.left \in Int
        BY <1>2, <3>6, <4>1
      <4>3. t.left = p.left - (Period - Delay)
        BY <1>4, <3>1, <3>6, <4>2
      <4>4. QED BY <1>1, <3>2, <4>2, <4>3
    <3>7. ~late2 /\ Out(n, "out") = 0 => q.left <= Period - Delay
      <4>1. ~late2 /\ Out(n, "out") = 0 => p.left <= Period - Delay
        BY <1>4, <3>1 DEF Shows
      <4>2. QED BY <1>1, <3>2, <4>1
    <3>8. QED BY <3>2, <3>5, <3>6, <3>7
  <2>6. QED BY <2>1, <2>2, <2>3, <2>4, <2>5 DEF Clocking
<1>12. Holding(m, told) => Holding(n, told)
  BY <1>2, <1>3, <1>5 DEF Holding, Shows
<1>13. conf.class = "timer-pulse" =>
         Pulsing(n, IF conf.retrigger THEN age2 ELSE rise2)
  BY <1>10 DEF Good
<1>14. QED BY <1>5, <1>6, <1>7, <1>8, <1>9, <1>11, <1>12, <1>13 DEF Good
-----------------------------------------------------------------------------
(* The invariant                                                           *)

\* After a step to the machine n, the invariant of n is that of the state.
LEMMA StepTo ==
  ASSUME conf \in Configs, conf' = conf, started' \in BOOLEAN, NEW n \in Machine, Becomes(n),
         NEW age \in Nat, NEW rise \in Nat, NEW late \in BOOLEAN, NEW told \in BOOLEAN,
         seen' = [age |-> age, rise |-> rise, late |-> late, told |-> told],
         Good(n, age, rise, late, told, started')
  PROVE  IInv'
<1>1. M' = n
  BY Parts DEF Becomes, M
<1>2. MyOutputs' = MyOutputs /\ MyTags' = MyTags /\ Delay' = Delay /\ Period' = Period
  BY DEF MyOutputs, MyTags, Delay, Period
<1>3. \A s : Shown(s)' = Shown(s)
  BY DEF Shown
<1>4. seen'.age = age /\ seen'.rise = rise /\ seen'.late = late /\ seen'.told = told
  OBVIOUS
<1>5. TypeOK'
  <2>1. obj' \in ObjType /\ live' \in SUBSET Timer /\ IsFiniteSet(live')
    BY Parts DEF Becomes
  <2>2. QED BY <2>1 DEF TypeOK, ObjType, MyOutputs, MyTags, Timer
<1>6. Punctual(M, seen.late)'
  BY <1>1, <1>4 DEF Good, Punctual
<1>7. started' /\ (conf'.class = "timer-clock" => seen'.told) => Published(M)'
  BY <1>1, <1>2, <1>3, <1>4 DEF Good, Published
<1>8. conf'.class # "timer-clock" => OneTimer(M)'
  BY <1>1 DEF Good, OneTimer
<1>9. /\ conf'.class = "timer-on" => Following(M, seen.age, 1)'
      /\ conf'.class = "timer-off" => Following(M, seen.age, 0)'
  BY <1>1, <1>2, <1>4 DEF Good, Following
<1>10. conf'.class = "timer-pulse" => Pulsing(M, IF conf.retrigger THEN seen.age ELSE seen.rise)'
  BY <1>1, <1>2, <1>4 DEF Good, Pulsing
<1>11. conf'.class = "timer-clock" => Clocking(M, seen.late)'
  BY <1>1, <1>2, <1>4 DEF Good, Clocking, Periods
<1>12. conf'.class = "relay-bistable" => Holding(M, seen.told)' /\ (started' => Live(M)' # {})
  BY <1>1, <1>4 DEF Good, Holding
<1>13. Good(M, seen.age, seen.rise, seen.late, seen.told, started)'
  BY <1>6, <1>7, <1>8, <1>9, <1>10, <1>11, <1>12 DEF Good
<1>14. QED BY <1>5, <1>13 DEF IInv

\* What Noted writes
LEMMA NotedIs ==
  ASSUME TypeOK, NEW m, NEW restart \in BOOLEAN, NEW told \in BOOLEAN, Noted(m, restart, told)
  PROVE  seen' = [age |-> IF restart THEN 0 ELSE seen.age, rise |-> IF Rose(M, m) THEN 0 ELSE seen.rise,
                  late |-> seen.late, told |-> told]
<1>1. Rises(m) <=> Rose(M, m)
  BY DEF Rises, Rose, Out, M, MyOutputs
<1>2. seen \in [age : Nat, rise : Nat, late : BOOLEAN, told : BOOLEAN]
  BY DEF TypeOK
<1>3. seen' = [age |-> IF restart THEN 0 ELSE seen.age, rise |-> IF Rises(m) THEN 0 ELSE seen.rise,
               late |-> seen.late, told |-> told]
  BY <1>2 DEF Noted
<1>4. QED BY <1>1, <1>3

LEMMA SeenType == ASSUME TypeOK
                  PROVE  /\ seen.age \in Nat /\ seen.rise \in Nat /\ seen.late \in BOOLEAN /\ seen.told \in BOOLEAN
                         /\ started \in BOOLEAN /\ M \in Machine /\ conf \in Configs
BY Typed DEF TypeOK

LEMMA InitInv == Init => IInv
<1> SUFFICES ASSUME Init PROVE IInv
  OBVIOUS
<1>1. conf \in Configs /\ conf.class \in Classes /\ Horizon \in Nat /\ Delay \in Nat /\ MaxLate \in Nat
      /\ (conf.class # "relay-bistable" => Horizon = 1 + MaxLate + Delay)
  BY ConfType DEF Init
<1>2. IsFiniteSet(live)
  BY FS_EmptySet DEF Init
<1>3. TypeOK
  BY <1>1, <1>2 DEF Init, TypeOK
<1>4. /\ Live(M) = {} /\ (conf.class # "timer-clock" => In(M) = 0) /\ (conf.class = "timer-clock" => In(M) = -1)
      /\ (\A p \in MyOutputs : Out(M, p) = 0) /\ \A k \in MyTags : Tag(M, k) = 0
  BY DEF Init, M, Live, In, Out, Tag, MyOutputs, MyTags
<1>5. seen.age = Horizon /\ seen.rise = Horizon /\ seen.late = FALSE /\ seen.told = FALSE /\ started = FALSE
  BY DEF Init
<1>6. Punctual(M, FALSE)
  BY <1>4 DEF Punctual
<1>7. CASE conf.class \in {"timer-on", "timer-off", "timer-pulse"}
  <2>1. In(M) = 0 /\ Out(M, "out") = 0 /\ Tag(M, "timeout") = 0 /\ Horizon >= Delay
    BY <1>1, <1>4, <1>7, OneName
  <2>2. OneTimer(M) /\ (conf.class = "timer-on" => Following(M, Horizon, 1))
    BY <1>4, <2>1 DEF OneTimer, Following
  <2>3. conf.class = "timer-off" => Following(M, Horizon, 0)
    BY <1>4, <2>1 DEF Following
  <2>4. Pulsing(M, Horizon)
    BY <1>4, <2>1 DEF Pulsing
  <2>5. QED BY <1>3, <1>5, <1>6, <1>7, <2>2, <2>3, <2>4 DEF IInv, Good
<1>8. CASE conf.class = "timer-clock"
  <2>1. In(M) = -1 /\ Out(M, "out") = 0 /\ Tag(M, "period") = 0 /\ Tag(M, "duty") = 0
    BY <1>1, <1>4, <1>8, ClockName
  <2>2. Clocking(M, FALSE)
    BY <1>4, <2>1 DEF Clocking, Periods
  <2>3. QED BY <1>3, <1>5, <1>6, <1>8, <2>2 DEF IInv, Good
<1>9. CASE conf.class = "relay-bistable"
  <2>1. In(M) = 0 /\ Out(M, "out0") = 0 /\ Out(M, "out1") = 0 /\ Tag(M, "timeout") = 0
    BY <1>1, <1>4, <1>9, RelayName
  <2>2. OneTimer(M) /\ Holding(M, FALSE)
    BY <1>4, <2>1 DEF OneTimer, Holding
  <2>3. QED BY <1>3, <1>5, <1>6, <1>9, <2>2 DEF IInv, Good
<1>10. QED BY <1>1, <1>7, <1>8, <1>9 DEF Classes

LEMMA StartInv == IInv /\ Start => IInv'
<1> SUFFICES ASSUME IInv, Start PROVE IInv'
  OBVIOUS
<1> DEFINE n == StartMethod(M)
           told == In(M) # 1
<1>1. /\ seen.age \in Nat /\ seen.rise \in Nat /\ seen.late \in BOOLEAN /\ seen.told \in BOOLEAN
      /\ M \in Machine /\ conf \in Configs /\ TypeOK
  BY SeenType DEF IInv
<1>2. started = FALSE /\ started' = TRUE /\ conf' = conf /\ Becomes(n) /\ Noted(n, FALSE, told)
  BY <1>1 DEF Start, In, M, TypeOK
<1>3. Good(M, seen.age, seen.rise, seen.late, seen.told, FALSE)
  BY <1>2 DEF IInv
<1>4. n \in Machine /\ Good(n, seen.age, IF Rose(M, n) THEN 0 ELSE seen.rise, seen.late, told, TRUE)
  BY <1>1, <1>3, StartKept
<1> HIDE DEF n, told
<1>5. told \in BOOLEAN
  BY DEF told
<1>6. seen' = [age |-> seen.age, rise |-> IF Rose(M, n) THEN 0 ELSE seen.rise, late |-> seen.late, told |-> told]
  BY <1>1, <1>2, <1>5, NotedIs
<1> DEFINE rise == IF Rose(M, n) THEN 0 ELSE seen.rise
<1>7. rise \in Nat
  BY <1>1
<1> HIDE DEF rise
<1>8. seen' = [age |-> seen.age, rise |-> rise, late |-> seen.late, told |-> told] /\ Good(n, seen.age, rise, seen.late, told, started')
  BY <1>2, <1>4, <1>6 DEF rise
<1>9. QED BY <1>1, <1>2, <1>4, <1>5, <1>7, <1>8, StepTo

LEMMA InputInv == ASSUME IInv, NEW value \in {0, 1}, Input(value) PROVE IInv'
<1> DEFINE n == InputMethod(M, value)
           counts == IF conf.class = "timer-pulse" THEN Edge(In(M), value) ELSE In(M) # value
           told == seen.told \/ In(M) # value \/ conf.class = "timer-clock"
           age == IF counts THEN 0 ELSE seen.age
           rise == IF Rose(M, n) THEN 0 ELSE seen.rise
<1>1. /\ seen.age \in Nat /\ seen.rise \in Nat /\ seen.late \in BOOLEAN /\ seen.told \in BOOLEAN
      /\ M \in Machine /\ conf \in Configs /\ TypeOK /\ started \in BOOLEAN
  BY SeenType DEF IInv
<1>2. started' = started /\ conf' = conf /\ Becomes(n) /\ Noted(n, Counts(value), told) /\ Counts(value) = counts
  BY DEF Input, Counts, In, M
<1>3. Good(M, seen.age, seen.rise, seen.late, seen.told, started)
  BY DEF IInv
<1>4. n \in Machine /\ Good(n, age, rise, seen.late, told, started)
  BY <1>1, <1>3, InputKept, SMTT(40)
<1>5. counts \in BOOLEAN /\ told \in BOOLEAN /\ age \in Nat /\ rise \in Nat
  BY <1>1 DEF Edge
<1> HIDE DEF n, counts, told
<1>6. seen' = [age |-> IF counts THEN 0 ELSE seen.age, rise |-> IF Rose(M, n) THEN 0 ELSE seen.rise, late |-> seen.late, told |-> told]
  BY <1>1, <1>2, <1>5, NotedIs
<1>7. seen' = [age |-> age, rise |-> rise, late |-> seen.late, told |-> told]
  BY <1>6
<1> HIDE DEF age, rise
<1>8. QED BY <1>1, <1>2, <1>4, <1>5, <1>7, StepTo

LEMMA FireInv == ASSUME IInv, NEW t \in live, Fire(t) PROVE IInv'
<1> DEFINE n == Ended(Called(M, t.handler), t)
           told == seen.told \/ t.handler # "timeout"
           rise == IF Rose(M, n) THEN 0 ELSE seen.rise
<1>1. /\ seen.age \in Nat /\ seen.rise \in Nat /\ seen.late \in BOOLEAN /\ seen.told \in BOOLEAN
      /\ M \in Machine /\ conf \in Configs /\ TypeOK /\ started \in BOOLEAN /\ t \in Live(M)
  BY SeenType DEF IInv, Live, M
<1>2. started /\ t.left <= 0 /\ started' = started /\ conf' = conf /\ Becomes(n) /\ Noted(n, FALSE, told)
  BY DEF Fire, Ended
<1>3. Good(M, seen.age, seen.rise, seen.late, seen.told, TRUE)
  BY <1>1, <1>2 DEF IInv
<1>4. told \in BOOLEAN /\ rise \in Nat
  BY <1>1
<1> HIDE DEF n, told, rise
<1>5. n \in Machine /\ Good(n, seen.age, rise, seen.late, told, TRUE)
  <2>1. n = Ended(Called(M, t.handler), t) /\ rise = IF Rose(M, n) THEN 0 ELSE seen.rise
    BY DEF n, rise
  <2>2. told <=> seen.told \/ t.handler # "timeout"
    BY DEF told
  <2>3. Due(t)
    BY <1>2 DEF Due
  <2>4. Fires(M, t, seen.age, seen.rise, seen.late, seen.told, n, rise, told)
    BY <1>1, <1>3, <1>4, <2>1, <2>2, <2>3 DEF Fires
  <2>5. QED BY <1>1, <2>4, FireKept
<1>6. seen' = [age |-> IF FALSE THEN 0 ELSE seen.age, rise |-> IF Rose(M, n) THEN 0 ELSE seen.rise, late |-> seen.late, told |-> told]
  BY <1>1, <1>2, <1>4, NotedIs
<1>7. seen' = [age |-> seen.age, rise |-> rise, late |-> seen.late, told |-> told]
  BY <1>6 DEF rise
<1>8. started' = TRUE
  BY <1>1, <1>2
<1>9. QED BY <1>1, <1>2, <1>4, <1>5, <1>7, <1>8, StepTo

LEMMA TickInv == ASSUME IInv, NEW d \in 1..(1 + MaxLate), Tick(d) PROVE IInv'
<1> DEFINE L == {Older(t, d) : t \in live}
           n == [obj |-> obj, live |-> L]
           age == Grown(seen.age, d)
           rise == Grown(seen.rise, d)
           late == seen.late \/ \E t \in live : t.left < d
<1>1. /\ seen.age \in Nat /\ seen.rise \in Nat /\ seen.late \in BOOLEAN /\ seen.told \in BOOLEAN
      /\ M \in Machine /\ conf \in Configs /\ TypeOK /\ started \in BOOLEAN /\ d \in Nat
  BY SeenType, ConfType DEF IInv
<1>2. /\ started /\ started' = started /\ conf' = conf /\ obj' = obj /\ live' = L
      /\ \A t \in live : t.left > 0 /\ (seen.late => t.left >= d)
  BY DEF Tick, Older
<1>3. obj \in ObjType /\ live \in SUBSET Timer /\ IsFiniteSet(live) /\ M.obj = obj /\ M.live = live
  BY <1>1 DEF TypeOK, ObjType, MyOutputs, MyTags, M
<1>4. L \in SUBSET Timer
  BY <1>1, <1>3, OlderIs
<1>5. IsFiniteSet(L)
  <2>1. [t \in live |-> Older(t, d)] \in Surjection(live, L)
    BY DEF Surjection
  <2>2. QED BY <1>3, <2>1, FS_Surjection DEF ExistsSurjection
<1>6. n \in Machine
  BY <1>3, <1>4, <1>5, Whole
<1>7. Becomes(n)
  BY <1>2 DEF Becomes
<1>8. n.obj = M.obj /\ n.live = L
  BY <1>3
<1>9. seen \in [age : Nat, rise : Nat, late : BOOLEAN, told : BOOLEAN]
  BY <1>1 DEF TypeOK
<1>10. seen' = [age |-> age, rise |-> rise, late |-> late, told |-> seen.told]
  BY <1>9 DEF Tick
<1>11. age \in Nat /\ rise \in Nat /\ late \in BOOLEAN
  BY <1>1, GrownIs
<1> HIDE DEF n
<1>12. /\ In(n) = In(M) /\ Shows(M, n) /\ (\A j : Tag(n, j) = Tag(M, j))
       /\ Live(n) = {Older(t, d) : t \in Live(M)} /\ Live(M) = live
  BY <1>3, <1>8 DEF In, Shows, Out, Pub, Tag, Live
<1>13. Good(M, seen.age, seen.rise, seen.late, seen.told, TRUE)
  BY <1>1, <1>2 DEF IInv
<1> HIDE DEF age, rise, late
<1>14. Good(n, age, rise, late, seen.told, TRUE)
  <2>1. age = Grown(seen.age, d) /\ rise = Grown(seen.rise, d)
    BY DEF age, rise
  <2>2. late <=> Missed(M, seen.late, d)
    BY <1>12 DEF late, Missed
  <2>3. Waits(M, seen.late, d)
    BY <1>2, <1>12 DEF Waits
  <2>4. Ticks(M, d, n, seen.age, seen.rise, seen.late, seen.told, age, rise, late)
    BY <1>1, <1>6, <1>11, <1>12, <1>13, <2>1, <2>2, <2>3 DEF Ticks
  <2>5. QED BY <1>1, <2>4, TickKept
<1>15. started' = TRUE
  BY <1>1, <1>2
<1>16. QED BY <1>1, <1>2, <1>6, <1>7, <1>10, <1>11, <1>14, <1>15, StepTo

\* The inductive invariant: nothing the world does with the object breaks it.
LEMMA StepInv == IInv /\ [Next]_vars => IInv'
<1> SUFFICES ASSUME IInv, [Next]_vars PROVE IInv'
  OBVIOUS
<1>1. CASE Start
  BY <1>1, StartInv
<1>2. ASSUME NEW d \in 1..(1 + MaxLate), Tick(d) PROVE IInv'
  BY <1>2, TickInv
<1>3. ASSUME NEW value \in {0, 1}, Input(value) PROVE IInv'
  BY <1>3, InputInv
<1>4. ASSUME NEW t \in live, Fire(t) PROVE IInv'
  BY <1>4, FireInv
<1>5. CASE UNCHANGED vars
  <2>1. M' = M /\ conf' = conf /\ obj' = obj /\ live' = live /\ seen' = seen /\ started' = started
    BY <1>5 DEF vars, M
  <2>2. Becomes(M) /\ M \in Machine /\ conf \in Configs
    BY <2>1, SeenType DEF Becomes, M, IInv
  <2>3. seen' = [age |-> seen.age, rise |-> seen.rise, late |-> seen.late, told |-> seen.told]
    BY <2>1 DEF IInv, TypeOK
  <2>4. /\ seen.age \in Nat /\ seen.rise \in Nat /\ seen.late \in BOOLEAN /\ seen.told \in BOOLEAN
        /\ started' \in BOOLEAN /\ Good(M, seen.age, seen.rise, seen.late, seen.told, started')
    BY <2>1, SeenType DEF IInv
  <2>5. QED BY <2>1, <2>2, <2>3, <2>4, StepTo
<1>6. QED BY <1>1, <1>2, <1>3, <1>4, <1>5 DEF Next

LEMMA Invariant == Spec => []IInv
BY InitInv, StepInv, PTL DEF Spec
-----------------------------------------------------------------------------
(* What it says of the objects                                             *)

\* The names of Timers for what the operators above read
LEMMA Names == ASSUME TypeOK
               PROVE  /\ conf.class \in Classes /\ Delay \in Nat /\ Period \in Nat /\ MaxLate \in Nat
                      /\ conf.class # "relay-bistable" => Horizon = 1 + MaxLate + Delay
                      /\ seen.age \in Nat /\ seen.rise \in Nat
                      /\ obj.in = In(M) /\ live = Live(M) /\ obj.in \in {-1, 0, 1}
                      /\ \A p : obj.out[p] = Out(M, p) /\ obj.pub[p] = Pub(M, p)
                      /\ \A p \in MyOutputs : obj.out[p] \in {0, 1}
                      /\ \A k : obj.tag[k] = Tag(M, k)
                      /\ \A t \in live : t.left \in Int /\ t.tag \in Nat \ {0} /\ t.handler \in Handlers
<1>1. conf \in Configs /\ seen.age \in Nat /\ seen.rise \in Nat
  BY DEF TypeOK
<1>2. obj.in = In(M) /\ live = Live(M)
  BY DEF In, Live, M
<1>3. \A p : obj.out[p] = Out(M, p) /\ obj.pub[p] = Pub(M, p) /\ obj.tag[p] = Tag(M, p)
  BY DEF Out, Pub, Tag, M
<1>4. obj.in \in {-1, 0, 1} /\ \A p \in MyOutputs : obj.out[p] \in {0, 1}
  BY DEF TypeOK, MyOutputs
<1>5. \A t \in live : t.left \in Int /\ t.tag \in Nat \ {0} /\ t.handler \in Handlers
  BY DEF TypeOK, Timer, Handlers
<1>6. QED BY <1>1, <1>2, <1>3, <1>4, <1>5, ConfType

\* Of all classes: the timers of the object and the tags it remembers are the same, but for the
\* duty timer that a clock lost when the loop was late.
THEOREM TimersAreKnown == Spec => []TimersKnown
<1>1. IInv => TimersKnown
  <2> SUFFICES ASSUME IInv PROVE TimersKnown
    OBVIOUS
  <2>1. TypeOK /\ Good(M, seen.age, seen.rise, seen.late, seen.told, started)
    BY DEF IInv
  <2>2. /\ conf.class \in Classes /\ live = Live(M) /\ \A k : obj.tag[k] = Tag(M, k)
        /\ \A t \in live : t.handler \in Handlers
    BY <2>1, Names
  <2>3. CASE conf.class # "timer-clock"
    <3>1. Tags(conf.class) = {"timeout"} /\ OneTimer(M)
      BY <2>1, <2>3 DEF Tags, Good
    <3>2. Tag(M, "timeout") # 0 => \E t \in live : t.tag = Tag(M, "timeout")
      BY <2>2, <3>1 DEF OneTimer
    <3>3. \A t \in live : t.tag = Tag(M, "timeout")
      BY <2>2, <3>1 DEF OneTimer
    <3>4. QED BY <2>1, <2>2, <3>1, <3>2, <3>3 DEF TimersKnown
  <2>4. CASE conf.class = "timer-clock"
    <3>1. Tags(conf.class) = {"period", "duty"} /\ Clocking(M, seen.late)
      BY <2>1, <2>4 DEF Tags, Good
    <3>2. Tag(M, "duty") # 0 => \E t \in live : t.tag = Tag(M, "duty") /\ t.handler = "duty"
      BY <2>2, <3>1 DEF Clocking
    <3>3. Tag(M, "period") # 0 => \E t \in live : t.tag = Tag(M, "period") /\ t.handler = "period"
      BY <2>2, <3>1 DEF Clocking, Periods
    <3>4. ASSUME NEW t \in live
          PROVE  t.tag = Tag(M, "period") \/ t.tag = Tag(M, "duty") \/ (t.handler = "duty" /\ seen.late)
      BY <2>2, <3>1 DEF Clocking, Periods
    <3>5. QED BY <2>1, <2>2, <3>1, <3>2, <3>3, <3>4 DEF TimersKnown
  <2>5. QED BY <2>3, <2>4
<1>2. QED BY <1>1, Invariant, PTL

\* Of the timers and the clock: what the output shows tells how long ago the input changed, to
\* within what the loop may be late.
THEOREM OutputsOnTime == Spec => []OnTime
<1>1. IInv => OnTime
  <2> SUFFICES ASSUME IInv PROVE OnTime
    OBVIOUS
  <2>1. TypeOK /\ Good(M, seen.age, seen.rise, seen.late, seen.told, started)
    BY DEF IInv
  <2>2. /\ conf.class \in Classes /\ Delay \in Nat /\ Period \in Nat /\ MaxLate \in Nat
        /\ conf.class # "relay-bistable" => Horizon = 1 + MaxLate + Delay
        /\ seen.age \in Nat /\ seen.rise \in Nat
        /\ obj.in = In(M) /\ live = Live(M) /\ obj.in \in {-1, 0, 1}
        /\ \A t \in live : t.left \in Int /\ t.tag \in Nat \ {0} /\ t.handler \in Handlers
    BY <2>1, Names
  <2>3. \A p : obj.out[p] = Out(M, p) /\ obj.pub[p] = Pub(M, p)
    BY <2>1, Names
  <2>4. \A t \in live : t.left >= -MaxLate /\ (~seen.late => t.left >= 0)
    BY <2>1, <2>2 DEF Good, Punctual
  <2>5. conf.class \in {"timer-on", "timer-off", "timer-pulse", "timer-clock"} => obj.out["out"] \in {0, 1}
    <3>1. conf.class # "relay-bistable" => "out" \in MyOutputs
      BY DEF MyOutputs, Outputs
    <3>2. \A p \in MyOutputs : obj.out[p] \in {0, 1}
      BY <2>1, Names
    <3>3. QED BY <3>1, <3>2
  <2>6. conf.class \in {"timer-on", "timer-off", "timer-pulse"} => obj.in \in {0, 1}
    BY <2>1, <2>2 DEF Good, OneTimer
  <2>7. OnDelayed
    <3>1. SUFFICES ASSUME conf.class = "timer-on"
                   PROVE  /\ obj.out["out"] = 1 => obj.in = 1 /\ seen.age >= Delay
                          /\ obj.in = 1 /\ seen.age > Delay + MaxLate => obj.out["out"] = 1
      BY DEF OnDelayed, Delay
    <3>2. Following(M, seen.age, 1)
      BY <2>1, <3>1 DEF Good
    <3>3. obj.out["out"] = 1 => obj.in = 1 /\ seen.age >= Delay
      BY <2>2, <2>3, <3>2 DEF Following
    <3>4. ASSUME obj.in = 1, obj.out["out"] # 1 PROVE seen.age <= Delay + MaxLate
      <4>1. PICK t \in live : t.left + seen.age = Delay
        BY <2>2, <2>3, <3>2, <3>4 DEF Following
      <4>2. QED BY <2>2, <2>4, <4>1
    <3>5. QED BY <2>2, <3>3, <3>4
  <2>8. OffDelayed
    <3>1. SUFFICES ASSUME conf.class = "timer-off"
                   PROVE  /\ obj.in = 1 => obj.out["out"] = 1
                          /\ obj.out["out"] = 1 /\ obj.in = 0 => seen.age <= Delay + MaxLate
                          /\ obj.out["out"] = 0 /\ seen.age < Horizon => seen.age >= Delay
      BY DEF OffDelayed, Delay
    <3>2. Following(M, seen.age, 0)
      BY <2>1, <3>1 DEF Good
    <3>3. obj.out["out"] = 0 => obj.in = 0 /\ seen.age >= Delay
      BY <2>2, <2>3, <3>2 DEF Following
    <3>4. ASSUME obj.in = 0, obj.out["out"] = 1 PROVE seen.age <= Delay + MaxLate
      <4>1. PICK t \in live : t.left + seen.age = Delay
        BY <2>2, <2>3, <3>2, <3>4 DEF Following
      <4>2. QED BY <2>2, <2>4, <4>1
    <3>5. QED BY <2>5, <3>1, <3>3, <3>4
  <2>9. PulseBounded
    <3> DEFINE since == IF conf.retrigger THEN seen.age ELSE seen.rise
    <3>1. SUFFICES ASSUME conf.class = "timer-pulse"
                   PROVE  /\ obj.out["out"] = 1 => since <= Delay + MaxLate
                          /\ obj.out["out"] = 1 \/ since >= Delay
      BY <2>2 DEF PulseBounded, Delay
    <3>2. Pulsing(M, since) /\ since \in Nat
      BY <2>1, <2>2, <3>1 DEF Good
    <3> HIDE DEF since
    <3>3. ASSUME obj.out["out"] = 1 PROVE since <= Delay + MaxLate
      <4>1. PICK t \in live : t.left + since = Delay
        BY <2>2, <2>3, <3>2, <3>3 DEF Pulsing
      <4>2. QED BY <2>2, <2>4, <3>2, <4>1
    <3>4. obj.out["out"] = 1 \/ since >= Delay
      BY <2>2, <2>3, <3>2 DEF Pulsing
    <3>5. QED BY <3>3, <3>4
  <2>10. ClockDuty
    <3>1. SUFFICES ASSUME conf.class = "timer-clock"
                   PROVE  /\ obj.in # 1 => obj.out["out"] = 0 /\ \A t \in live : t.handler # "period"
                          /\ obj.in = 1 => \E p \in live :
                               /\ p.handler = "period" /\ p.tag = obj.tag["period"]
                               /\ \A t \in live : t.handler = "period" => t = p
                               /\ obj.out["out"] = 1 => \E t \in live : t.handler = "duty"
                               /\ obj.out["out"] = 0 /\ ~seen.late => Period - p.left >= Delay
      BY DEF ClockDuty, Delay, Period
    <3>2. Clocking(M, seen.late)
      BY <2>1, <3>1 DEF Good
    <3>3. obj.in # 1 => obj.out["out"] = 0 /\ \A t \in live : t.handler # "period"
      BY <2>2, <2>3, <2>5, <3>1, <3>2 DEF Clocking, Periods
    <3>4. ASSUME obj.in = 1
          PROVE  \E p \in live :
                   /\ p.handler = "period" /\ p.tag = obj.tag["period"]
                   /\ \A t \in live : t.handler = "period" => t = p
                   /\ obj.out["out"] = 1 => \E t \in live : t.handler = "duty"
                   /\ obj.out["out"] = 0 /\ ~seen.late => Period - p.left >= Delay
      <4>1. PICK p \in live : /\ Periods(M) = {p} /\ p.tag = Tag(M, "period")
                              /\ ~seen.late /\ Out(M, "out") = 0 => p.left <= Period - Delay
        BY <2>2, <3>2, <3>4 DEF Clocking
      <4>2. p.handler = "period" /\ \A t \in live : t.handler = "period" => t = p
        BY <2>2, <4>1 DEF Periods
      <4>3. obj.out["out"] = 1 => \E t \in live : t.handler = "duty"
        BY <2>2, <2>3, <3>2 DEF Clocking
      <4>4. p.tag = obj.tag["period"]
        BY <2>1, <4>1, Names
      <4>5. obj.out["out"] = 0 /\ ~seen.late => Period - p.left >= Delay
        BY <2>2, <2>3, <4>1
      <4>6. QED BY <4>2, <4>3, <4>4, <4>5
    <3>5. QED BY <3>3, <3>4
  <2>11. started /\ (conf.class = "timer-clock" => seen.told) => \A p \in Outputs(conf.class) :
           obj.pub[p] = IF conf.inv = 1 THEN 1 - obj.out[p] ELSE obj.out[p]
    BY <2>1, <2>3 DEF Good, Published, Shown, MyOutputs
  <2>12. QED BY <2>7, <2>8, <2>9, <2>10, <2>11 DEF OnTime
<1>2. QED BY <1>1, Invariant, PTL

\* Of relay-bistable: never both coils, one only as long as the timer that releases it runs, and
\* the one of the input.
THEOREM RelayIsFollowed == Spec => []RelayFollows
<1>1. IInv => RelayFollows
  <2> SUFFICES ASSUME IInv, conf.class = "relay-bistable", started
               PROVE  /\ obj.out["out0"] = 0 \/ obj.out["out1"] = 0
                      /\ \E t \in live : /\ t.tag = obj.tag["timeout"]
                                         /\ t.handler = "timeout" <=> obj.out["out0"] # obj.out["out1"]
                      /\ seen.told => IF obj.in = 1 THEN obj.out["out0"] = 0 ELSE obj.out["out1"] = 0
    BY DEF RelayFollows
  <2>1. Holding(M, seen.told) /\ OneTimer(M) /\ Live(M) # {}
    BY DEF IInv, Good
  <2>2. obj.in = In(M) /\ live = Live(M) /\ \A k : obj.tag[k] = Tag(M, k)
    BY Names DEF IInv
  <2>3. \A p : obj.out[p] = Out(M, p)
    BY Names DEF IInv
  <2>4. PICK t \in live : t.tag = Tag(M, "timeout")
    BY <2>1, <2>2 DEF OneTimer
  <2>5. t.handler = "timeout" <=> obj.out["out0"] # obj.out["out1"]
    BY <2>1, <2>2, <2>3 DEF Holding
  <2>6. QED BY <2>1, <2>2, <2>3, <2>4, <2>5 DEF Holding
<1>2. QED BY <1>1, Invariant, PTL
=============================================================================
