--------------------------- MODULE EndpointsProofs --------------------------
(***************************************************************************)
(* Sinks and sources, for any program and in both modes of naming.         *)
(*                                                                         *)
(* LinksSound: only New makes links, by way of hk_sink_local_connect, and  *)
(* lemma LinkKept says that it keeps sound links sound.  To apply it, an   *)
(* action needs to know that what loads is an object of the program, which *)
(* is the rest of IInv.                                                    *)
(*                                                                         *)
(* The other theorems follow from DeepInv, which adds what is true of the  *)
(* machine between two steps of a change, that is in the middle of the     *)
(* recursion.  The calls under way make a chain, each on an object that    *)
(* drives the one above, and what is locked is on it: so an object that    *)
(* refuses an update is on a ring.  A sink or a source that does not hold  *)
(* what its driver holds is still to be visited by a call of the chain; a  *)
(* source that the broker has no present value of is still to be published *)
(* by a call, or by the thread of the MQTT client.  Each part is a         *)
(* predicate of a record of the variables, so that the lemmas can speak of *)
(* a machine between the assignments of one step.                          *)
(***************************************************************************)
EXTENDS Endpoints, FiniteSetTheorems, WellFoundedInduction, TLAPS

\* LinksOK, of any value of the variable link
Sound(l) ==
  /\ \A c \in Objects : \A j \in DOMAIN l.sinks[c] :
       /\ l.source[l.sinks[c][j]] = c /\ prog[c].kind = "source" /\ prog[l.sinks[c][j]].kind = "sink"
       /\ \A k \in DOMAIN l.sinks[c] : l.sinks[c][j] = l.sinks[c][k] => j = k
  /\ \A s \in Objects : l.source[s] # None =>
       /\ \E j \in DOMAIN l.sinks[l.source[s]] : l.sinks[l.source[s]][j] = s
       /\ prog[l.source[s]].name = prog[s].name
Links == [source : [Objects -> Objects \cup {None}], sinks : [Objects -> Seq(Objects)]]
Positions == [phase : {"new", "setup", "start", "run"}, obj : Objects]

LoadInv == /\ prog \in Programs /\ Objects = 1..Len(prog) /\ Len(prog) \in Nat \ {0}
           /\ at \in Positions /\ (at.phase = "run" => at.obj = Len(prog))
LinkInv == link \in Links /\ Sound(link)
IInv == LoadInv /\ LinkInv

\* A set of naturals that is not empty has a least element.
LEMMA LeastNat == ASSUME NEW S \in SUBSET Nat, S # {}
                  PROVE  \E m \in S : \A n \in S : m <= n
<1> DEFINE R == {ss \in Nat \X Nat : ss[1] < ss[2]}
<1>1. IsWellFoundedOn(R, Nat)
  BY NatLessThanWellFounded DEF OpToRel
<1>2. \A m, n \in Nat : ~(<<n, m>> \in R) => m <= n
  OBVIOUS
<1> HIDE DEF R
<1>3. PICK m \in S : \A n \in S : ~(<<n, m>> \in R)
  BY <1>1, WFMin
<1>4. QED BY <1>2, <1>3

\* What the assumption says of the program that runs
LEMMA ProgramIs ==
  ASSUME LoadInv
  PROVE  /\ \A o \in Objects : /\ prog[o].kind \in {"sink", "source"} /\ prog[o].name \in Names
                             /\ prog[o].tile \in Nat /\ prog[o].local \in BOOLEAN /\ prog[o].inv \in BOOLEAN
                             /\ prog[o].chart \in BOOLEAN /\ prog[o].preset \in Values \cup {Unset}
         /\ \A o, q \in Objects : o <= q => prog[o].tile <= prog[q].tile
         /\ \A o \in Objects : prog[o].kind = "source" =>
              /\ prog[o].from \in Objects /\ prog[o].preset = Unset
              /\ prog[prog[o].from].kind = "sink" /\ prog[prog[o].from].tile = prog[o].tile
<1>1. /\ prog \in Program /\ Objects = DOMAIN prog
      /\ \A o, q \in DOMAIN prog : o <= q => prog[o].tile <= prog[q].tile
      /\ \A o \in DOMAIN prog : prog[o].kind = "source" =>
           /\ prog[o].from \in DOMAIN prog /\ prog[o].preset = Unset
           /\ prog[prog[o].from].kind = "sink" /\ prog[prog[o].from].tile = prog[o].tile
  BY ProgramAssumption DEF ProgramAssumption, LoadInv, Objects
<1> DEFINE X == [tile : Nat, kind : {"sink", "source"}, name : Names, local : BOOLEAN, from : Nat,
                 inv : BOOLEAN, chart : BOOLEAN, preset : Values \cup {Unset}]
<1>2. \A o \in Objects : prog[o] \in X
  <2>1. prog \in Seq(X)
    BY <1>1 DEF Program
  <2> HIDE DEF X
  <2>2. QED BY <1>1, <2>1
<1>3. QED BY <1>1, <1>2

\* What is chosen as the first object is one.
LEMMA FirstObject == ASSUME LoadInv, NEW S \in SUBSET Objects, S # {}
                     PROVE  SetMin(S) \in S /\ \A q \in S : SetMin(S) <= q
<1>1. S \in SUBSET Nat
  BY DEF LoadInv
<1>2. PICK m \in S : \A n \in S : m <= n
  BY <1>1, LeastNat
<1>3. QED BY <1>2 DEF SetMin

\* Tying a sink to a source of its name keeps links sound, whatever either is tied to.
LEMMA LinkKept == ASSUME LoadInv, LinkInv, NEW s \in Objects, NEW c \in Objects,
                          prog[c].name = prog[s].name, prog[s].kind = "sink", prog[c].kind = "source"
                   PROVE  hk_sink_local_connect(s, c) \in Links /\ Sound(hk_sink_local_connect(s, c))
<1>1. CASE link.source[s] # None
  <2>1. hk_sink_local_connect(s, c) = link
    BY <1>1 DEF hk_sink_local_connect
  <2>2. QED BY <2>1 DEF LinkInv
<1>2. CASE link.source[s] = None
  <2> DEFINE old == link.sinks
             new == [old EXCEPT ![c] = Append(@, s)]
             source == [link.source EXCEPT ![s] = c]
  <2>1. hk_sink_local_connect(s, c) = [source |-> source, sinks |-> new]
    BY <1>2 DEF hk_sink_local_connect
  <2>2. old \in [Objects -> Seq(Objects)] /\ link.source \in [Objects -> Objects \cup {None}]
    BY DEF LinkInv, Links
  <2>3. new \in [Objects -> Seq(Objects)] /\ source \in [Objects -> Objects \cup {None}]
    BY <2>2
  <2>4. None \notin Objects
    BY DEF LoadInv, None
  \* The list of c gets longer by s, which was on none.
  <2>5. \A d \in Objects : d # c => new[d] = old[d]
    BY <2>2
  <2>6. new[c] = Append(old[c], s) /\ old[c] \in Seq(Objects)
    BY <2>2
  <2>7. /\ DOMAIN new[c] = 1..Len(old[c]) + 1 /\ Len(old[c]) \in Nat
        /\ new[c][Len(old[c]) + 1] = s
        /\ \A j \in 1..Len(old[c]) : new[c][j] = old[c][j]
    BY <2>6
  <2>8. \A d \in Objects : \A j \in DOMAIN old[d] : old[d][j] # s /\ old[d][j] \in Objects
    <3>1. \A d \in Objects : \A j \in DOMAIN old[d] : old[d][j] \in Objects
      BY <2>2
    <3>2. QED BY <1>2, <2>4, <3>1 DEF LinkInv, Sound
  <2>9. source[s] = c /\ \A t \in Objects : t # s => source[t] = link.source[t]
    BY <2>2
  <2>10. ASSUME NEW d \in Objects, NEW j \in DOMAIN new[d]
         PROVE  /\ source[new[d][j]] = d /\ prog[d].kind = "source" /\ prog[new[d][j]].kind = "sink"
                /\ \A k \in DOMAIN new[d] : new[d][j] = new[d][k] => j = k
    <3>1. CASE d # c
      BY <2>5, <2>8, <2>9, <3>1 DEF LinkInv, Sound
    <3>2. CASE d = c
      <4>0. DOMAIN old[c] = 1..Len(old[c])
        BY <2>6
      <4>1. source[new[c][j]] = c /\ prog[new[c][j]].kind = "sink"
        BY <2>7, <2>8, <2>9, <3>2, <4>0 DEF LinkInv, Sound
      <4>2. ASSUME NEW k \in DOMAIN new[c], new[c][j] = new[c][k] PROVE j = k
        BY <2>7, <2>8, <3>2, <4>0, <4>2 DEF LinkInv, Sound
      <4>3. QED BY <3>2, <4>1, <4>2
    <3>3. QED BY <3>1, <3>2
  <2>11. ASSUME NEW t \in Objects, source[t] # None
         PROVE  /\ \E j \in DOMAIN new[source[t]] : new[source[t]][j] = t
                /\ prog[source[t]].name = prog[t].name
    <3>1. CASE t = s
      BY <2>7, <2>9, <3>1
    <3>2. CASE t # s
      <4>1. source[t] = link.source[t] /\ source[t] \in Objects
        BY <2>3, <2>9, <2>11, <3>2
      <4>2. PICK j \in DOMAIN old[source[t]] : old[source[t]][j] = t
        BY <2>11, <4>1 DEF LinkInv, Sound
      <4>3. j \in DOMAIN new[source[t]] /\ new[source[t]][j] = t
        <5>1. CASE source[t] = c
          <6>1. DOMAIN old[c] = 1..Len(old[c])
            BY <2>6
          <6>2. QED BY <2>7, <4>2, <5>1, <6>1
        <5>2. CASE source[t] # c
          BY <2>5, <4>1, <4>2, <5>2
        <5>3. QED BY <5>1, <5>2
      <4>4. QED BY <2>11, <4>1, <4>3 DEF LinkInv, Sound
    <3>3. QED BY <3>1, <3>2
  <2>12. Sound([source |-> source, sinks |-> new])
    BY <2>10, <2>11 DEF Sound
  <2>13. [source |-> source, sinks |-> new] \in Links
    BY <2>3 DEF Links
  <2>14. QED BY <2>1, <2>12, <2>13
<1>3. QED BY <1>1, <1>2
-----------------------------------------------------------------------------
(* The machine                                                             *)

V == {Unset, 0, 1} \cup Values
Call == [op : {"sink", "source", "preset"}, obj : Objects, next : Nat \ {0}]
Slots == 0..TraceDepth - 1
Ring == [tab : [Slots -> V \cup {NoEntry}], iput : Slots, iget : Slots]
Message == Names \X V
Broker == [up : BOOLEAN, connected : BOOLEAN, retained : [Names -> V], subscribed : SUBSET Names,
           inbox : Seq(Message), queue : Seq(Message), lost : SUBSET Names]
Who == {"nobody", "start", "set", "mqtt", "source"}
Endpoint == [value : V, locked : BOOLEAN]
Pad == [value : V, lock : BOOLEAN]
Eps == [Objects -> Endpoint]
Pads == [Objects -> Pad]
Traces == [Objects -> Ring]
Stacks == Seq(Call)
Logs == [Objects -> Seq(V)]
Givers == [Objects -> Who]
Machine == [ep : Eps, pad : Pads, trace : Traces, stack : Stacks, mqtt : Broker, log : Logs,
            by : Givers, refused : SUBSET Objects, stale : SUBSET Objects]

Val(m, o) == m.ep[o].value
Locked(m, o) == m.ep[o].locked
Shown(m, o) == m.pad[o].value
PadLock(m, o) == m.pad[o].lock
Calls(m) == 1..Len(m.stack)
Op(m, k) == m.stack[k].op
Obj(m, k) == m.stack[k].obj
Nxt(m, k) == m.stack[k].next
Given(m, s) == m.by[s] # "nobody"

\* The calls under way: each was made by the one below it, on an object that this one drives.
\* What is locked is on the stack, once; the call of a preset is the outermost.
Chain(m) ==
  /\ \A k \in Calls(m) : k < Len(m.stack) => Driver(Obj(m, k)) = Obj(m, k + 1)
  /\ \A k \in Calls(m) : /\ Op(m, k) = "source" <=> prog[Obj(m, k)].kind = "source"
                         /\ Op(m, k) = "preset" => k = Len(m.stack)
  /\ \A o \in Objects : Locked(m, o) <=> \E k \in Calls(m) : Obj(m, k) = o /\ Op(m, k) # "preset"
  /\ \A o \in Objects : PadLock(m, o) <=> Locked(m, o) /\ prog[o].kind = "source"
  /\ \A o \in Objects : prog[o].kind = "source" => Shown(m, o) = Unset
  /\ \A k, l \in Calls(m) : Obj(m, k) = Obj(m, l) /\ Op(m, k) # "preset" /\ Op(m, l) # "preset" => k = l

CutInv(m) == \A o \in m.refused : OnLoop(o)

\* A sink that differs from the source it was set by is still to be visited.
ToVisit(m, s) == \E k \in Calls(m) : /\ Op(m, k) = "source" /\ Obj(m, k) = link.source[s]
                                     /\ \E j \in DOMAIN link.sinks[Obj(m, k)] : j >= Nxt(m, k) /\ link.sinks[Obj(m, k)][j] = s
AgreeInv(m, S) ==
  /\ \A s \in Objects : m.by[s] = "source" => prog[s].kind = "sink" /\ link.source[s] # None
  /\ \A s \in S : m.by[s] = "source" => Val(m, s) = Val(m, link.source[s]) \/ ToVisit(m, s)
  /\ \A k \in Calls(m) : Op(m, k) = "sink" /\ m.by[Obj(m, k)] = "source" => k < Len(m.stack)

\* The start method of the object has run.
Started(o) == CASE at.phase = "run" -> TRUE
                [] at.phase = "start" -> o < at.obj
                [] OTHER -> prog[o].tile < prog[at.obj].tile
ToWire(m, c) == \E k \in Calls(m) : Op(m, k) = "sink" /\ Obj(m, k) = prog[c].from /\ Nxt(m, k) <= c
Wire(m, c) == Val(m, c) = Through(c, Val(m, prog[c].from)) \/ ToWire(m, c)
WireInv(m, C) ==
  /\ \A s \in Of("sink") : Given(m, s) => Shown(m, s) = Val(m, s) \/ ~Started(s)
  /\ \A k \in Calls(m) : Op(m, k) = "preset" => ~Started(Obj(m, k))
  /\ \A c \in C : Given(m, prog[c].from) /\ Started(prog[c].from) /\ c \notin m.refused => Wire(m, c)
\* What is handed on while tiles are loaded is a value.
LoadedInv(m) ==
  at.phase # "run" =>
    /\ \A s \in Of("sink") : Given(m, s) => Shown(m, s) # Unset
    /\ \A k \in Calls(m) : IF Op(m, k) = "source" THEN Val(m, Obj(m, k)) # Unset ELSE Shown(m, Obj(m, k)) # Unset

TraceInv(m) == \A o \in Objects : Entries(m.trace[o]) = m.log[o]

\* A source that the broker has no current value of is about to be published, by the event loop or by the thread.
ToPublish(m, c) == \/ \E k \in Calls(m) : Op(m, k) = "source" /\ Obj(m, k) = c
                   \/ thread.pc \in {"read", "publish"} /\ thread.obj <= c
BrokerInv(m) ==
  /\ m.mqtt.up => m.mqtt.connected
  /\ ~full /\ m.mqtt.up => \A c \in Public("source") \ m.stale :
       m.mqtt.retained[prog[c].name] = Val(m, c) \/ ToPublish(m, c)

ThreadOK(t) == /\ t \in [pc : {"idle", "read", "publish", "subscribe"}, obj : Objects \cup {None}, value : V]
               /\ t.pc \in {"read", "publish"} => t.obj \in Public("source")
               /\ t.pc = "subscribe" => t.obj \in Public("sink") \cup {None}
ThreadInv == ThreadOK(thread)

Good(m) == /\ Chain(m) /\ CutInv(m) /\ AgreeInv(m, Objects) /\ WireInv(m, Of("source")) /\ LoadedInv(m)
           /\ TraceInv(m) /\ BrokerInv(m)

\* Setting one part of the machine leaves the others.
LEMMA MachineIs == ASSUME NEW m \in Machine
                   PROVE  /\ m.ep \in Eps /\ m.pad \in Pads /\ m.trace \in Traces /\ m.stack \in Stacks
                          /\ m.mqtt \in Broker /\ m.log \in Logs /\ m.by \in Givers
                          /\ m.refused \in SUBSET Objects /\ m.stale \in SUBSET Objects
BY DEF Machine

LEMMA Set_ep == ASSUME NEW m \in Machine, NEW x \in Eps, NEW n, n = [m EXCEPT !.ep = x]
               PROVE  /\ n \in Machine /\ n.ep = x
                      /\ n.pad = m.pad /\ n.trace = m.trace /\ n.stack = m.stack /\ n.mqtt = m.mqtt
                      /\ n.log = m.log /\ n.by = m.by /\ n.refused = m.refused /\ n.stale = m.stale
BY DEF Machine

LEMMA Set_pad == ASSUME NEW m \in Machine, NEW x \in Pads, NEW n, n = [m EXCEPT !.pad = x]
               PROVE  /\ n \in Machine /\ n.pad = x
                      /\ n.ep = m.ep /\ n.trace = m.trace /\ n.stack = m.stack /\ n.mqtt = m.mqtt
                      /\ n.log = m.log /\ n.by = m.by /\ n.refused = m.refused /\ n.stale = m.stale
BY DEF Machine

LEMMA Set_trace == ASSUME NEW m \in Machine, NEW x \in Traces, NEW n, n = [m EXCEPT !.trace = x]
               PROVE  /\ n \in Machine /\ n.trace = x
                      /\ n.ep = m.ep /\ n.pad = m.pad /\ n.stack = m.stack /\ n.mqtt = m.mqtt
                      /\ n.log = m.log /\ n.by = m.by /\ n.refused = m.refused /\ n.stale = m.stale
BY DEF Machine

LEMMA Set_stack == ASSUME NEW m \in Machine, NEW x \in Stacks, NEW n, n = [m EXCEPT !.stack = x]
               PROVE  /\ n \in Machine /\ n.stack = x
                      /\ n.ep = m.ep /\ n.pad = m.pad /\ n.trace = m.trace /\ n.mqtt = m.mqtt
                      /\ n.log = m.log /\ n.by = m.by /\ n.refused = m.refused /\ n.stale = m.stale
BY DEF Machine

LEMMA Set_mqtt == ASSUME NEW m \in Machine, NEW x \in Broker, NEW n, n = [m EXCEPT !.mqtt = x]
               PROVE  /\ n \in Machine /\ n.mqtt = x
                      /\ n.ep = m.ep /\ n.pad = m.pad /\ n.trace = m.trace /\ n.stack = m.stack
                      /\ n.log = m.log /\ n.by = m.by /\ n.refused = m.refused /\ n.stale = m.stale
BY DEF Machine

LEMMA Set_log == ASSUME NEW m \in Machine, NEW x \in Logs, NEW n, n = [m EXCEPT !.log = x]
               PROVE  /\ n \in Machine /\ n.log = x
                      /\ n.ep = m.ep /\ n.pad = m.pad /\ n.trace = m.trace /\ n.stack = m.stack
                      /\ n.mqtt = m.mqtt /\ n.by = m.by /\ n.refused = m.refused /\ n.stale = m.stale
BY DEF Machine

LEMMA Set_by == ASSUME NEW m \in Machine, NEW x \in Givers, NEW n, n = [m EXCEPT !.by = x]
               PROVE  /\ n \in Machine /\ n.by = x
                      /\ n.ep = m.ep /\ n.pad = m.pad /\ n.trace = m.trace /\ n.stack = m.stack
                      /\ n.mqtt = m.mqtt /\ n.log = m.log /\ n.refused = m.refused /\ n.stale = m.stale
BY DEF Machine

LEMMA Set_refused == ASSUME NEW m \in Machine, NEW x \in SUBSET Objects, NEW n, n = [m EXCEPT !.refused = x]
               PROVE  /\ n \in Machine /\ n.refused = x
                      /\ n.ep = m.ep /\ n.pad = m.pad /\ n.trace = m.trace /\ n.stack = m.stack
                      /\ n.mqtt = m.mqtt /\ n.log = m.log /\ n.by = m.by /\ n.stale = m.stale
BY DEF Machine

LEMMA Set_stale == ASSUME NEW m \in Machine, NEW x \in SUBSET Objects, NEW n, n = [m EXCEPT !.stale = x]
               PROVE  /\ n \in Machine /\ n.stale = x
                      /\ n.ep = m.ep /\ n.pad = m.pad /\ n.trace = m.trace /\ n.stack = m.stack
                      /\ n.mqtt = m.mqtt /\ n.log = m.log /\ n.by = m.by /\ n.refused = m.refused
BY DEF Machine
-----------------------------------------------------------------------------
(* The ring of a trace                                                     *)

Filled(q, p) == IF q <= p THEN p - q ELSE p + TraceDepth - q
PlaceOf(q, k) == IF q + k - 1 < TraceDepth THEN q + k - 1 ELSE q + k - 1 - TraceDepth
Count(tr) == Filled(tr.iget, tr.iput)
Place(tr, k) == PlaceOf(tr.iget, k)

LEMMA Depth == TraceDepth \in Nat \ {0} /\ Slots \subseteq Nat
BY TraceAssumption DEF TraceAssumption, Slots

\* Where entries are, before and after a push
LEMMA Places == ASSUME NEW p \in Slots, NEW q \in Slots
                PROVE  /\ Filled(q, p) \in 0..TraceDepth - 1 /\ After(p) \in Slots
                       /\ \A k \in 1..Filled(q, p) : PlaceOf(q, k) \in Slots /\ PlaceOf(q, k) # p
                       /\ After(p) # q => /\ Filled(q, After(p)) = Filled(q, p) + 1
                                          /\ Filled(q, p) + 1 <= TraceDepth - 1
                                          /\ PlaceOf(q, Filled(q, p) + 1) = p
                       /\ After(p) = q => /\ Filled(After(q), After(p)) = Filled(q, p)
                                          /\ Filled(q, p) = TraceDepth - 1
                                          /\ \A k \in 1..Filled(q, p) :
                                               PlaceOf(After(q), k) = IF k = Filled(q, p) THEN p ELSE PlaceOf(q, k + 1)
<1>1. TraceDepth \in Nat \ {0} /\ p \in 0..TraceDepth - 1 /\ q \in 0..TraceDepth - 1
  BY Depth DEF Slots
<1>2. Filled(q, p) \in 0..TraceDepth - 1 /\ After(p) \in Slots
  BY <1>1 DEF Filled, After, Slots
<1>3. \A k \in 1..Filled(q, p) : PlaceOf(q, k) \in Slots /\ PlaceOf(q, k) # p
  BY <1>1 DEF Filled, PlaceOf, Slots
<1>4. ASSUME After(p) # q
      PROVE  Filled(q, After(p)) = Filled(q, p) + 1 /\ Filled(q, p) + 1 <= TraceDepth - 1 /\ PlaceOf(q, Filled(q, p) + 1) = p
  BY <1>1, <1>4 DEF Filled, After, PlaceOf
<1>5. ASSUME After(p) = q
      PROVE  Filled(After(q), After(p)) = Filled(q, p) /\ Filled(q, p) = TraceDepth - 1
  BY <1>1, <1>5 DEF Filled, After
<1>6. ASSUME After(p) = q, NEW k \in 1..Filled(q, p)
      PROVE  PlaceOf(After(q), k) = IF k = Filled(q, p) THEN p ELSE PlaceOf(q, k + 1)
  BY <1>1, <1>6 DEF Filled, After, PlaceOf
<1>7. QED BY <1>2, <1>3, <1>4, <1>5, <1>6

LEMMA RingIs == ASSUME NEW tr \in Ring
                PROVE  /\ tr.iput \in Slots /\ tr.iget \in Slots /\ tr.tab \in [Slots -> V \cup {NoEntry}]
                       /\ Count(tr) \in 0..TraceDepth - 1 /\ \A k \in 1..Count(tr) : Place(tr, k) \in Slots
                       /\ Entries(tr) = [k \in 1..Count(tr) |-> tr.tab[Place(tr, k)]]
<1>1. tr.iput \in Slots /\ tr.iget \in Slots /\ tr.tab \in [Slots -> V \cup {NoEntry}]
  BY DEF Ring
<1>2. Count(tr) \in 0..TraceDepth - 1
  BY <1>1, Places DEF Count
<1>3. \A k \in 1..Count(tr) : Place(tr, k) \in Slots
  BY <1>1, Places DEF Count, Place
<1>4. Entries(tr) = [k \in 1..Count(tr) |-> tr.tab[Place(tr, k)]]
  BY DEF Entries, Count, Place, Filled, PlaceOf
<1>5. QED BY <1>1, <1>2, <1>3, <1>4

\* hk_trace_push keeps in the ring what Remember says.
LEMMA PushIs == ASSUME NEW tr \in Ring, NEW v \in V, Entries(tr) \in Seq(V)
                PROVE  /\ hk_trace_push(tr, v) \in Ring
                       /\ Entries(hk_trace_push(tr, v)) = Remember(Entries(tr), v)
                       /\ Remember(Entries(tr), v) \in Seq(V)
<1> DEFINE r == hk_trace_push(tr, v)
           n == Count(tr)
           e == Entries(tr)
           g == [tr.tab EXCEPT ![tr.iput] = v]
<1>1. /\ tr.iput \in Slots /\ tr.iget \in Slots /\ tr.tab \in [Slots -> V \cup {NoEntry}]
      /\ n \in 0..TraceDepth - 1 /\ \A k \in 1..n : Place(tr, k) \in Slots
      /\ e = [k \in 1..n |-> tr.tab[Place(tr, k)]]
  BY RingIs
<1>2. After(tr.iput) \in Slots /\ After(tr.iget) \in Slots
  BY <1>1, Places
<1>3. g \in [Slots -> V \cup {NoEntry}] /\ g[tr.iput] = v /\ \A i \in Slots : i # tr.iput => g[i] = tr.tab[i]
  BY <1>1
<1>4. /\ r.tab = g /\ r.iput = After(tr.iput) /\ r \in Ring
      /\ r.iget = IF After(tr.iput) = tr.iget THEN After(tr.iget) ELSE tr.iget
  BY <1>2, <1>3 DEF hk_trace_push, Ring
<1>5. Entries(r) = [k \in 1..Count(r) |-> g[Place(r, k)]] /\ Count(r) \in 0..TraceDepth - 1
      /\ \A k \in 1..Count(r) : Place(r, k) \in Slots
  BY <1>4, RingIs
<1> HIDE DEF r, g
<1>6. Len(e) = n /\ \A k \in 1..n : e[k] = tr.tab[Place(tr, k)]
  BY <1>1
<1>7. \A k \in 1..n : Place(tr, k) # tr.iput
  BY <1>1, Places DEF Place, Count
<1>8. CASE After(tr.iput) # tr.iget
  <2>1. Count(r) = n + 1 /\ n + 1 <= TraceDepth - 1
    BY <1>1, <1>4, <1>8, Places DEF Count
  <2>2. Place(r, n + 1) = tr.iput /\ \A k \in 1..n : Place(r, k) = Place(tr, k)
    BY <1>1, <1>4, <1>8, Places DEF Count, Place
  <2> HIDE DEF n, e
  <2>3. Remember(e, v) = Append(e, v)
    BY <1>1, <1>6, <2>1, Depth DEF Remember
  <2>4. Append(e, v) \in Seq(V) /\ Len(Append(e, v)) = n + 1 /\ Append(e, v)[n + 1] = v
        /\ \A k \in 1..n : Append(e, v)[k] = e[k]
    <3>1. e \in Seq(V) /\ n \in Nat
      BY <1>1 DEF e
    <3>2. QED BY <1>6, <3>1
  <2>5. Append(e, v) = [k \in 1..(n + 1) |-> Append(e, v)[k]]
    <3>1. n + 1 \in Nat
      BY <1>1
    <3> DEFINE t == Append(e, v)
    <3>2. t \in Seq(V) /\ Len(t) = n + 1
      BY <2>4
    <3> HIDE DEF t
    <3>3. t = [k \in 1..(n + 1) |-> t[k]]
      BY <3>2
    <3>4. QED BY <3>3 DEF t
  <2>6. \A k \in 1..(n + 1) : Append(e, v)[k] = g[Place(r, k)]
    <3>1. ASSUME NEW k \in 1..n PROVE Append(e, v)[k] = g[Place(r, k)]
      BY <1>1, <1>3, <1>6, <1>7, <2>2, <2>4
    <3>2. Append(e, v)[n + 1] = g[Place(r, n + 1)]
      BY <1>3, <2>2, <2>4
    <3>3. QED BY <1>1, <3>1, <3>2
  <2>7. Entries(r) = Append(e, v)
    BY <1>5, <2>1, <2>5, <2>6
  <2>8. QED BY <1>4, <2>3, <2>4, <2>7 DEF r, e
<1>9. CASE After(tr.iput) = tr.iget
  <2>1. Count(r) = n /\ n = TraceDepth - 1
    BY <1>1, <1>4, <1>9, Places DEF Count
  <2>2. \A k \in 1..n : Place(r, k) = IF k = n THEN tr.iput ELSE Place(tr, k + 1)
    <3>1. \A k \in 1..Filled(tr.iget, tr.iput) : PlaceOf(After(tr.iget), k) =
            IF k = Filled(tr.iget, tr.iput) THEN tr.iput ELSE PlaceOf(tr.iget, k + 1)
      <4>1. tr.iput \in Slots /\ tr.iget \in Slots
        BY <1>1
      <4>2. ASSUME NEW p \in Slots, NEW q \in Slots, After(p) = q
            PROVE  \A k \in 1..Filled(q, p) : PlaceOf(After(q), k) = IF k = Filled(q, p) THEN p ELSE PlaceOf(q, k + 1)
        BY <4>2, Places
      <4>3. QED BY <1>9, <4>1, <4>2
    <3>2. n = Filled(tr.iget, tr.iput) /\ r.iget = After(tr.iget)
      BY <1>4, <1>9 DEF Count
    <3> HIDE DEF n
    <3>3. QED BY <3>1, <3>2 DEF Place
  <2> HIDE DEF n, e
  <2>3. CASE n = 0
    <3>1. e = <<>>
      BY <1>6, <2>3 DEF e
    <3>2. Remember(e, v) = <<>>
      BY <2>1, <2>3, <3>1, <1>6, Depth DEF Remember
    <3>3. Entries(r) = <<>>
      BY <1>5, <2>1, <2>3
    <3>4. QED BY <1>4, <3>2, <3>3 DEF r, e
  <2>4. CASE n # 0
    <3> DEFINE t == Append(Tail(e), v)
    <3>0. e # <<>> /\ e \in Seq(V)
      BY <1>1, <1>6, <2>4 DEF e
    <3>1. Remember(e, v) = t
      BY <1>1, <1>6, <2>1, <3>0 DEF Remember
    <3>2. Tail(e) \in Seq(V) /\ Len(Tail(e)) = n - 1 /\ \A k \in 1..(n - 1) : Tail(e)[k] = e[k + 1]
      <4>1. n \in Nat /\ n >= 1
        BY <1>1, <2>4
      <4>2. Len(e) = n
        BY <1>6
      <4>3. QED BY <3>0, <4>1, <4>2
    <3>3. t \in Seq(V) /\ Len(t) = n /\ t[n] = v /\ \A k \in 1..(n - 1) : t[k] = Tail(e)[k]
      <4>1. n - 1 \in Nat /\ n = (n - 1) + 1
        BY <1>1, <2>4
      <4> DEFINE u == Tail(e)
      <4>2. u \in Seq(V) /\ Len(u) = n - 1
        BY <3>2
      <4> HIDE DEF u
      <4>3. Append(u, v) \in Seq(V) /\ Len(Append(u, v)) = n /\ Append(u, v)[n] = v
            /\ \A k \in 1..(n - 1) : Append(u, v)[k] = u[k]
        BY <4>1, <4>2
      <4>4. QED BY <4>3 DEF u
    <3> HIDE DEF t
    <3>4. t = [k \in 1..n |-> t[k]]
      BY <3>3
    <3>5. \A k \in 1..n : t[k] = g[Place(r, k)]
      <4>1. ASSUME NEW k \in 1..(n - 1) PROVE t[k] = g[Place(r, k)]
        <5>1. k + 1 \in 1..n /\ k \in 1..n /\ k # n
          BY <1>1
        <5>2. t[k] = tr.tab[Place(tr, k + 1)]
          BY <1>6, <3>2, <3>3, <5>1
        <5>3. g[Place(tr, k + 1)] = tr.tab[Place(tr, k + 1)]
          BY <1>1, <1>3, <1>7, <5>1
        <5>4. QED BY <2>2, <5>1, <5>2, <5>3
      <4>2. t[n] = g[Place(r, n)]
        BY <1>1, <1>3, <2>2, <2>4, <3>3
      <4>3. QED BY <1>1, <4>1, <4>2
    <3>6. Entries(r) = t
      BY <1>5, <2>1, <3>4, <3>5
    <3>7. QED BY <1>4, <3>1, <3>3, <3>6 DEF r, e
  <2>5. QED BY <2>3, <2>4
<1>10. QED BY <1>8, <1>9

\* hk_trace_dump goes through the whole ring when every entry was written.
LEMMA DumpIs == ASSUME NEW tr, Entries(tr) \in Seq(V) PROVE hk_trace_dump(tr) = Entries(tr)
<1> DEFINE e == Entries(tr)
           Last(n) == (\A k \in 1..n : e[k] # NoEntry) /\ (n = Len(e) \/ e[n + 1] = NoEntry)
<1>1. NoEntry \notin V
  BY ProgramAssumption DEF ProgramAssumption, NoEntry, V, Unset
<1>2. Len(e) \in Nat /\ \A k \in 1..Len(e) : e[k] # NoEntry
  BY <1>1
<1>3. hk_trace_dump(tr) = SubSeq(e, 1, CHOOSE n \in 0..Len(e) : Last(n))
  BY DEF hk_trace_dump
<1>4. \A n \in 0..Len(e) : Last(n) <=> n = Len(e)
  BY <1>2
<1> HIDE DEF Last, e
<1>5. (CHOOSE n \in 0..Len(e) : Last(n)) = Len(e)
  BY <1>2, <1>4
<1>6. SubSeq(e, 1, Len(e)) = e
  BY DEF e
<1>7. QED BY <1>3, <1>5, <1>6 DEF e
-----------------------------------------------------------------------------
LEMMA InitLoads == Init => IInv
<1>1. SUFFICES ASSUME Init PROVE IInv
  OBVIOUS
<1>2. prog # <<>> /\ prog \in Program /\ prog \in Programs
  BY <1>1, ProgramAssumption DEF Init, ProgramAssumption
<1>3. LoadInv
  BY <1>1, <1>2 DEF Init, LoadInv, Positions, Objects, Program
<1>4. link \in Links
  BY <1>1, <1>3 DEF Init, Links
<1>5. Sound(link)
  BY <1>1 DEF Init, Sound
<1>6. QED BY <1>3, <1>4, <1>5 DEF IInv, LinkInv

\* Loading goes on with an object of the program.
LEMMA LoadStays == ASSUME LoadInv, at.phase # "run", Advance, prog' = prog
                   PROVE  LoadInv'
<1>1. at.obj \in Objects /\ Objects' = Objects /\ Positions' = Positions
  BY DEF LoadInv, Positions, Objects
<1>2. at.obj \in TileOf(at.obj) /\ TileOf(at.obj) \in SUBSET Objects
  BY <1>1 DEF TileOf
<1>3. SetMin(TileOf(at.obj)) \in Objects
  BY <1>2, FirstObject
<1>4. at' \in Positions
  <2>1. CASE at.obj + 1 \in TileOf(at.obj)
    BY <1>2, <2>1 DEF Advance, LoadInv, Positions
  <2>2. CASE at.obj + 1 \notin TileOf(at.obj) /\ at.phase # "start"
    BY <1>3, <2>2 DEF Advance, LoadInv, Positions
  <2>3. CASE at.obj + 1 \notin TileOf(at.obj) /\ at.phase = "start"
    <3>1. at.obj < Len(prog) \/ at.obj = Len(prog)
      BY <1>1 DEF LoadInv
    <3>2. QED BY <1>1, <2>3, <3>1 DEF Advance, LoadInv, Positions
  <2>4. QED BY <2>1, <2>2, <2>3
<1>5. at'.phase = "run" => at'.obj = Len(prog)
  BY <1>1 DEF Advance, LoadInv, Positions
<1>6. QED BY <1>1, <1>4, <1>5 DEF LoadInv

\* _new of sink and source ties endpoints of the same name, or none.
LEMMA NewLinks == ASSUME IInv, New PROVE LinkInv'
<1>1. at.obj \in Objects /\ prog' = prog /\ Objects' = Objects /\ Links' = Links
  BY DEF IInv, LoadInv, Positions, New, Loading, Objects, Links
<1>2. ASSUME NEW kind, NEW name
      PROVE  Named(kind, name) \in SUBSET {o \in Objects : prog[o].name = name /\ prog[o].kind = kind}
  BY DEF Named, Of
<1>3. ASSUME prog[at.obj].kind = "sink" PROVE SinkLinks(at.obj) \in Links /\ Sound(SinkLinks(at.obj))
  <2> DEFINE sources == Named("source", prog[at.obj].name)
  <2>1. CASE sources # {}
    <3>1. SetMin(sources) \in sources
      BY <1>2, <2>1, FirstObject DEF IInv
    <3>2. /\ SetMin(sources) \in Objects /\ prog[SetMin(sources)].name = prog[at.obj].name
          /\ prog[SetMin(sources)].kind = "source"
      BY <1>2, <3>1
    <3>3. /\ hk_sink_local_connect(at.obj, SetMin(sources)) \in Links
          /\ Sound(hk_sink_local_connect(at.obj, SetMin(sources)))
      BY <1>1, <1>3, <3>2, LinkKept DEF IInv
    <3>4. SinkLinks(at.obj) \in {link, hk_sink_local_connect(at.obj, SetMin(sources))}
      BY DEF SinkLinks
    <3>5. QED BY <3>3, <3>4 DEF IInv, LinkInv
  <2>2. CASE sources = {}
    BY <2>2 DEF SinkLinks, IInv, LinkInv
  <2>3. QED BY <2>1, <2>2
<1>4. ASSUME prog[at.obj].kind = "source" PROVE SourceLinks(at.obj) \in Links /\ Sound(SourceLinks(at.obj))
  <2> DEFINE sinks == Named("sink", prog[at.obj].name)
  <2>1. CASE sinks # {}
    <3>1. SetMin(sinks) \in sinks
      BY <1>2, <2>1, FirstObject DEF IInv
    <3>2. /\ SetMin(sinks) \in Objects /\ prog[SetMin(sinks)].name = prog[at.obj].name
          /\ prog[SetMin(sinks)].kind = "sink"
      BY <1>2, <3>1
    <3>3. /\ hk_sink_local_connect(SetMin(sinks), at.obj) \in Links
          /\ Sound(hk_sink_local_connect(SetMin(sinks), at.obj))
      BY <1>1, <1>4, <3>2, LinkKept DEF IInv
    <3>4. SourceLinks(at.obj) \in {link, hk_sink_local_connect(SetMin(sinks), at.obj)}
      BY DEF SourceLinks
    <3>5. QED BY <3>3, <3>4 DEF IInv, LinkInv
  <2>2. CASE sinks = {}
    BY <2>2 DEF SourceLinks, IInv, LinkInv
  <2>3. QED BY <2>1, <2>2
<1>5. link' \in Links /\ Sound(link')
  <2>1. prog[at.obj].kind \in {"sink", "source"}
    BY <1>1, ProgramIs DEF IInv
  <2>2. QED BY <1>3, <1>4, <2>1 DEF New
<1>6. QED BY <1>1, <1>5 DEF LinkInv, Sound

\* Every step keeps the invariant: loading moves on, and only New touches a link.
LEMMA StepsKeep == IInv /\ [Next]_vars => IInv'
<1>1. SUFFICES ASSUME IInv, [Next]_vars PROVE IInv'
  OBVIOUS
<1>2. ASSUME UNCHANGED <<prog, at, link>> PROVE IInv'
  BY <1>1, <1>2 DEF IInv, LoadInv, LinkInv, Sound, Links, Positions, Objects
<1>3. ASSUME LoadInv', UNCHANGED <<prog, link>> PROVE IInv'
  BY <1>1, <1>3 DEF IInv, LinkInv, Sound, Links, Objects
<1>4. CASE New
  <2>1. LoadInv'
    BY <1>1, <1>4, LoadStays DEF IInv, New, Loading
  <2>2. QED BY <1>1, <1>4, <2>1, NewLinks DEF IInv
<1>5. CASE Setup
  <2>1. LoadInv'
    BY <1>1, <1>5, LoadStays DEF IInv, Setup, Loading
  <2>2. QED BY <1>3, <1>5, <2>1 DEF Setup, Loading
<1>6. CASE Start
  <2>1. LoadInv'
    BY <1>1, <1>6, LoadStays DEF IInv, Start, Loading
  <2>2. QED BY <1>3, <1>6, <2>1 DEF Start, Loading
<1>7. CASE Propagate
  BY <1>2, <1>7 DEF Propagate
<1>8. CASE MsgRecv
  BY <1>2, <1>8 DEF MsgRecv, Running
<1>9. ASSUME NEW o \in Of("sink"), NEW value \in Values, Set(o, value) PROVE IInv'
  BY <1>2, <1>9 DEF Set, Running
<1>10. CASE OnConnect
  BY <1>2, <1>10 DEF OnConnect, Threads, Running
<1>11. CASE ReadSource
  BY <1>2, <1>11 DEF ReadSource, Threads, Running
<1>12. CASE PublishSource
  BY <1>2, <1>12 DEF PublishSource, Threads, Running
<1>13. CASE Subscribe
  BY <1>2, <1>13 DEF Subscribe, Threads, Running
<1>14. CASE OnMessage
  BY <1>2, <1>14 DEF OnMessage, Threads, Running
<1>15. CASE OnDisconnect
  BY <1>2, <1>15 DEF OnDisconnect, Threads, Running
<1>16. CASE UNCHANGED vars
  BY <1>2, <1>16 DEF vars
<1>17. QED
  BY <1>1, <1>4, <1>5, <1>6, <1>7, <1>8, <1>9, <1>10, <1>11, <1>12, <1>13, <1>14, <1>15, <1>16 DEF Next

\* hk_sink_local_connect, hk_sink_register and hk_source_register: in any program and at any
\* time, sinks and sources agree on their links, and a link ties endpoints of one name.
THEOREM LinksSound == Spec => []LinksOK
<1>1. IInv => LinksOK
  BY DEF IInv, LinkInv, Sound, LinksOK
<1>2. QED
  BY <1>1, InitLoads, StepsKeep, PTL DEF Spec
-----------------------------------------------------------------------------
(* What the calls and returns of the machine change                        *)

\* The stack of n has one call more than that of m.
Above(n, m) ==
  /\ Len(m.stack) \in Nat /\ Len(n.stack) = Len(m.stack) + 1
  /\ \A k \in Calls(m) : Op(n, k + 1) = Op(m, k) /\ Obj(n, k + 1) = Obj(m, k) /\ Nxt(n, k + 1) = Nxt(m, k)

\* A call on o begins, and locks it unless it is a preset.
Enters(n, m, op, o) ==
  /\ Above(n, m) /\ Op(n, 1) = op /\ Obj(n, 1) = o /\ Nxt(n, 1) = 1
  /\ \A q \in Objects : q # o => /\ Locked(n, q) = Locked(m, q) /\ PadLock(n, q) = PadLock(m, q)
                                 /\ Val(n, q) = Val(m, q) /\ Shown(n, q) = Shown(m, q) /\ n.by[q] = m.by[q]
  /\ n.refused \subseteq m.refused /\ m.refused \subseteq n.refused \cup {o} /\ n.mqtt = m.mqtt /\ n.stale = m.stale
Presets(n, m, o, value) ==
  /\ Enters(n, m, "preset", o) /\ Shown(n, o) = value
  /\ Locked(n, o) = Locked(m, o) /\ PadLock(n, o) = PadLock(m, o) /\ Val(n, o) = Val(m, o) /\ n.by[o] = m.by[o]
  /\ n.refused = m.refused
SinkTakes(n, m, o, value, who) ==
  /\ Enters(n, m, "sink", o) /\ Shown(n, o) = value /\ Val(n, o) = value /\ n.by[o] = who
  /\ Locked(n, o) /\ PadLock(n, o) = PadLock(m, o)
SourceTakes(n, m, o, value) ==
  /\ Enters(n, m, "source", o) /\ Shown(n, o) = Shown(m, o) /\ Val(n, o) = value /\ n.by[o] = m.by[o]
  /\ Locked(n, o) /\ PadLock(n, o)

\* The outermost call returns, and unlocks its object.
Leaves(n, m) ==
  /\ Above(m, n)
  /\ \A q \in Objects : /\ q # Obj(m, 1) => Locked(n, q) = Locked(m, q) /\ PadLock(n, q) = PadLock(m, q)
                        /\ Val(n, q) = Val(m, q) /\ Shown(n, q) = Shown(m, q) /\ n.by[q] = m.by[q]
  /\ IF Op(m, 1) = "preset" THEN Locked(n, Obj(m, 1)) = Locked(m, Obj(m, 1)) ELSE ~Locked(n, Obj(m, 1))
  /\ IF Op(m, 1) = "source" THEN ~PadLock(n, Obj(m, 1)) ELSE PadLock(n, Obj(m, 1)) = PadLock(m, Obj(m, 1))
  /\ n.refused = m.refused

\* The loop of the outermost call goes on at x, or an update of o is refused.
SameButStack(n, m) ==
  /\ \A q \in Objects : /\ Locked(n, q) = Locked(m, q) /\ PadLock(n, q) = PadLock(m, q)
                        /\ Val(n, q) = Val(m, q) /\ Shown(n, q) = Shown(m, q) /\ n.by[q] = m.by[q]
  /\ n.mqtt = m.mqtt /\ n.stale = m.stale
Moves(n, m, x) ==
  /\ SameButStack(n, m) /\ n.refused = m.refused
  /\ Len(n.stack) = Len(m.stack) /\ Nxt(n, 1) = x
  /\ \A k \in Calls(m) : Op(n, k) = Op(m, k) /\ Obj(n, k) = Obj(m, k) /\ (k # 1 => Nxt(n, k) = Nxt(m, k))
Refuses(n, m, o) ==
  /\ SameButStack(n, m) /\ n.stack = m.stack /\ n.refused = m.refused \cup {o}

LEMMA AboveIs == ASSUME NEW n, NEW m, Above(n, m)
                 PROVE  /\ 1 \in Calls(n) /\ \A k \in Calls(m) : k + 1 \in Calls(n) /\ k + 1 # 1
                        /\ \A k \in Calls(n) : k = 1 \/ \E l \in Calls(m) : k = l + 1
                        /\ \A k, l \in Calls(m) : (k = l <=> k + 1 = l + 1)
                        /\ \A k \in Calls(m) : (k = Len(m.stack) <=> k + 1 = Len(n.stack)) /\ (k < Len(m.stack) <=> k + 1 < Len(n.stack))
<1>1. Len(m.stack) \in Nat /\ Len(n.stack) = Len(m.stack) + 1 /\ Calls(m) = 1..Len(m.stack) /\ Calls(n) = 1..Len(n.stack)
  BY DEF Above, Calls
<1>2. \A k \in Calls(n) : k = 1 \/ (k - 1 \in Calls(m) /\ k = (k - 1) + 1)
  BY <1>1
<1>3. QED BY <1>1, <1>2

LEMMA ChainEnters ==
  ASSUME NEW m, NEW n, NEW op \in {"sink", "source", "preset"}, NEW o \in Objects, Chain(m), Enters(n, m, op, o),
         op = "source" <=> prog[o].kind = "source", op = "source" => Shown(n, o) = Shown(m, o),
         IF op = "preset" THEN Len(m.stack) = 0 /\ Locked(n, o) = Locked(m, o) ELSE Locked(n, o) /\ ~Locked(m, o),
         IF op = "source" THEN PadLock(n, o) ELSE PadLock(n, o) = PadLock(m, o),
         Len(m.stack) = 0 \/ Driver(o) = Obj(m, 1)
  PROVE  Chain(n)
<1>1. Above(n, m)
  BY DEF Enters
<1>2. \A k \in Calls(n) : k < Len(n.stack) => Driver(Obj(n, k)) = Obj(n, k + 1)
  <2>1. ASSUME NEW k \in Calls(n), k < Len(n.stack) PROVE Driver(Obj(n, k)) = Obj(n, k + 1)
    <3>1. CASE k = 1
      <4>1. 1 \in Calls(m) /\ Len(m.stack) # 0
        BY <1>1, <2>1, <3>1 DEF Above, Calls
      <4>2. Obj(n, 1 + 1) = Obj(m, 1)
        BY <1>1, <4>1 DEF Above
      <4>3. QED BY <3>1, <4>1, <4>2 DEF Enters
    <3>2. ASSUME NEW l \in Calls(m), k = l + 1 PROVE Driver(Obj(n, k)) = Obj(n, k + 1)
      <4>1. l < Len(m.stack)
        BY <1>1, <2>1, <3>2, AboveIs
      <4>2. l + 1 \in Calls(m)
        BY <1>1, <4>1 DEF Above, Calls
      <4>3. Obj(n, k) = Obj(m, l) /\ Obj(n, k + 1) = Obj(m, l + 1)
        BY <1>1, <3>2, <4>2 DEF Above
      <4>4. QED BY <4>1, <4>3 DEF Chain
    <3>3. QED BY <1>1, <3>1, <3>2, AboveIs
  <2>2. QED BY <2>1
<1>3. ASSUME NEW k \in Calls(n)
      PROVE  (Op(n, k) = "source" <=> prog[Obj(n, k)].kind = "source") /\ (Op(n, k) = "preset" => k = Len(n.stack))
  <2>1. CASE k = 1
    BY <1>1, <2>1 DEF Enters, Above
  <2>2. ASSUME NEW l \in Calls(m), k = l + 1
        PROVE  (Op(n, k) = "source" <=> prog[Obj(n, k)].kind = "source") /\ (Op(n, k) = "preset" => k = Len(n.stack))
    BY <1>1, <2>2, AboveIs DEF Above, Chain
  <2>3. QED BY <1>1, <2>1, <2>2, AboveIs
<1>4. ASSUME NEW q \in Objects PROVE Locked(n, q) <=> \E k \in Calls(n) : Obj(n, k) = q /\ Op(n, k) # "preset"
  <2>1. (\E k \in Calls(n) : Obj(n, k) = q /\ Op(n, k) # "preset")
        <=> \/ o = q /\ op # "preset"
            \/ \E l \in Calls(m) : Obj(m, l) = q /\ Op(m, l) # "preset"
    BY <1>1, AboveIs DEF Above, Enters
  <2>2. Locked(m, q) <=> \E l \in Calls(m) : Obj(m, l) = q /\ Op(m, l) # "preset"
    BY DEF Chain
  <2>3. Locked(n, q) <=> (o = q /\ op # "preset") \/ Locked(m, q)
    BY DEF Enters
  <2>4. QED BY <2>1, <2>2, <2>3
<1>5. ASSUME NEW q \in Objects PROVE PadLock(n, q) <=> Locked(n, q) /\ prog[q].kind = "source"
  BY DEF Chain, Enters
<1>6. ASSUME NEW q \in Objects, prog[q].kind = "source" PROVE Shown(n, q) = Unset
  BY <1>6 DEF Chain, Enters
<1>7. ASSUME NEW k \in Calls(n), NEW l \in Calls(n), Obj(n, k) = Obj(n, l), Op(n, k) # "preset", Op(n, l) # "preset"
      PROVE  k = l
  <2>1. ASSUME NEW i \in Calls(m), Op(m, i) # "preset", Obj(m, i) = o, op # "preset" PROVE FALSE
    BY <2>1 DEF Chain
  <2>2. QED BY <1>1, <1>7, <2>1, AboveIs DEF Above, Enters, Chain
<1>8. QED BY <1>2, <1>3, <1>4, <1>5, <1>6, <1>7 DEF Chain

LEMMA ChainLeaves ==
  ASSUME NEW m, NEW n, Chain(m), Leaves(n, m), Obj(m, 1) \in Objects
  PROVE  Chain(n)
<1> DEFINE o == Obj(m, 1)
<1>1. Above(m, n)
  BY DEF Leaves
<1>2. ASSUME NEW k \in Calls(n), k < Len(n.stack) PROVE Driver(Obj(n, k)) = Obj(n, k + 1)
  <2>1. k + 1 \in Calls(n) /\ k + 1 \in Calls(m) /\ k + 1 < Len(m.stack)
    BY <1>1, <1>2 DEF Above, Calls
  <2>2. Obj(n, k) = Obj(m, k + 1) /\ Obj(n, k + 1) = Obj(m, (k + 1) + 1)
    BY <1>1, <2>1 DEF Above
  <2>3. QED BY <2>1, <2>2 DEF Chain
<1>3. ASSUME NEW k \in Calls(n)
      PROVE  (Op(n, k) = "source" <=> prog[Obj(n, k)].kind = "source") /\ (Op(n, k) = "preset" => k = Len(n.stack))
  BY <1>1, AboveIs DEF Above, Chain
<1>4. ASSUME NEW q \in Objects PROVE Locked(n, q) <=> \E k \in Calls(n) : Obj(n, k) = q /\ Op(n, k) # "preset"
  <2>1. Locked(m, q) <=> \/ o = q /\ Op(m, 1) # "preset"
                         \/ \E k \in Calls(n) : Obj(n, k) = q /\ Op(n, k) # "preset"
    BY <1>1, AboveIs DEF Above, Chain
  <2>2. (o = q /\ Op(m, 1) # "preset") => ~\E k \in Calls(n) : Obj(n, k) = q /\ Op(n, k) # "preset"
    BY <1>1, AboveIs DEF Above, Chain
  <2>3. QED BY <2>1, <2>2 DEF Leaves
<1>5. ASSUME NEW q \in Objects PROVE PadLock(n, q) <=> Locked(n, q) /\ prog[q].kind = "source"
  <2>1. 1 \in Calls(m)
    BY <1>1, AboveIs
  <2>2. QED BY <2>1 DEF Chain, Leaves
<1>6. ASSUME NEW q \in Objects, prog[q].kind = "source" PROVE Shown(n, q) = Unset
  BY <1>6 DEF Chain, Leaves
<1>7. ASSUME NEW k \in Calls(n), NEW l \in Calls(n), Obj(n, k) = Obj(n, l), Op(n, k) # "preset", Op(n, l) # "preset"
      PROVE  k = l
  BY <1>1, <1>7, AboveIs DEF Above, Chain
<1>8. QED BY <1>2, <1>3, <1>4, <1>5, <1>6, <1>7 DEF Chain

LEMMA ChainMoves == ASSUME NEW m, NEW n, NEW x, Chain(m), Moves(n, m, x), Len(m.stack) \in Nat PROVE Chain(n)
<1>1. \A k \in Calls(m) : k < Len(m.stack) => k + 1 \in Calls(m)
  BY DEF Calls
<1>2. Calls(n) = Calls(m) /\ Len(n.stack) = Len(m.stack)
  BY DEF Moves, Calls
<1>3. QED BY <1>1, <1>2 DEF Chain, Moves, SameButStack
LEMMA ChainRefuses == ASSUME NEW m, NEW n, NEW o, Chain(m), Refuses(n, m, o) PROVE Chain(n)
<1>1. \A k : Op(n, k) = Op(m, k) /\ Obj(n, k) = Obj(m, k)
  BY DEF Refuses, Op, Obj
<1>2. Calls(n) = Calls(m) /\ Len(n.stack) = Len(m.stack)
  BY DEF Refuses, Calls
<1>3. QED BY <1>1, <1>2 DEF Chain, Refuses, SameButStack

LEMMA CallIs == ASSUME NEW m \in Machine
                PROVE  /\ Len(m.stack) \in Nat
                       /\ \A k \in Calls(m) : /\ Op(m, k) \in {"sink", "source", "preset"}
                                              /\ Obj(m, k) \in Objects /\ Nxt(m, k) \in Nat \ {0}
<1> DEFINE st == m.stack
<1>1. st \in Seq(Call)
  BY MachineIs DEF Stacks
<1> HIDE DEF st
<1>2. Len(st) \in Nat /\ \A k \in 1..Len(st) : st[k] \in Call
  BY <1>1
<1>3. \A c \in Call : c.op \in {"sink", "source", "preset"} /\ c.obj \in Objects /\ c.next \in Nat \ {0}
  BY DEF Call
<1>4. QED BY <1>2, <1>3 DEF st, Calls, Op, Obj, Nxt
-----------------------------------------------------------------------------
(* The parts of the invariant, call by call                                *)

\* A refused update is one of an object on the stack, which the objects above it drive.
LEMMA CutRefuses ==
  ASSUME NEW m \in Machine, NEW n, NEW o \in Objects, Chain(m), CutInv(m), Refuses(n, m, o),
         Locked(m, o), Driver(o) = Obj(m, 1)
  PROVE  CutInv(n)
<1>1. PICK k \in Calls(m) : Obj(m, k) = o
  BY DEF Chain
<1>0. Len(m.stack) \in Nat /\ \A i \in Calls(m) : Obj(m, i) \in Objects
  BY CallIs
<1> DEFINE S == {Obj(m, i) : i \in 1..k}
<1>2. /\ k \in Nat \ {0} /\ 1..k \subseteq Calls(m)
      /\ \A i \in 1..k : i = k \/ (i < Len(m.stack) /\ i + 1 \in 1..k)
      /\ \A i \in 1..k : i = 1 \/ (i - 1 \in 1..k /\ i - 1 < Len(m.stack) /\ (i - 1) + 1 = i)
  BY <1>0, <1>1 DEF Calls
<1>3. S \in SUBSET Objects /\ o \in S
  BY <1>0, <1>1, <1>2
<1>4. ASSUME NEW i \in 1..k PROVE Driver(Obj(m, i)) \in S
  <2>1. CASE i = k
    BY <1>1, <1>2, <2>1
  <2>2. CASE i # k
    <3>1. Driver(Obj(m, i)) = Obj(m, i + 1) /\ i + 1 \in 1..k
      BY <1>2, <2>2 DEF Chain
    <3>2. QED BY <3>1
  <2>3. QED BY <2>1, <2>2
<1>5. ASSUME NEW i \in 1..k PROVE Obj(m, i) \in {Driver(q) : q \in S}
  <2>1. CASE i = 1
    BY <1>3, <2>1
  <2>2. CASE i # 1
    <3>1. i - 1 \in 1..k /\ Driver(Obj(m, i - 1)) = Obj(m, i)
      BY <1>2, <2>2 DEF Chain
    <3>2. Obj(m, i - 1) \in S
      BY <3>1
    <3> HIDE DEF S
    <3>3. QED BY <3>1, <3>2
  <2>3. QED BY <2>1, <2>2
<1>6. {Driver(q) : q \in S} = S
  BY <1>4, <1>5
<1> HIDE DEF S
<1>7. OnLoop(o)
  BY <1>3, <1>6 DEF OnLoop
<1>8. QED BY <1>7 DEF CutInv, Refuses

\* A sink takes a value, from the source it is linked to if a source gives it.
LEMMA AgreeSinkTakes ==
  ASSUME NEW m \in Machine, NEW n, NEW o \in Objects, NEW value, NEW who, LinkInv, LoadInv, Chain(m), SinkTakes(n, m, o, value, who),
         prog[o].kind = "sink", ~Locked(m, o), AgreeInv(m, IF who = "source" THEN Objects \ {o} ELSE Objects),
         who = "source" => link.source[o] \in Objects /\ Len(m.stack) # 0 /\ value = Val(m, link.source[o])
  PROVE  AgreeInv(n, Objects)
<1>1. Above(n, m)
  BY DEF SinkTakes, Enters
<1>2. \A s \in Objects : n.by[s] = "source" => prog[s].kind = "sink" /\ link.source[s] # None
  <2>1. who = "source" => link.source[o] # None
    BY DEF LoadInv, None
  <2>2. QED BY <2>1 DEF AgreeInv, SinkTakes, Enters
<1>3. \A s \in Objects : link.source[s] # None => link.source[s] \in Objects /\ link.source[s] # o
  <2>1. ASSUME NEW s \in Objects, link.source[s] # None
        PROVE  link.source[s] \in Objects /\ prog[link.source[s]].kind = "source"
    <3>1. link.source[s] \in Objects
      BY <2>1 DEF LinkInv, Links
    <3>2. PICK j \in DOMAIN link.sinks[link.source[s]] : link.sinks[link.source[s]][j] = s
      BY <2>1 DEF LinkInv, Sound
    <3>3. QED BY <3>1, <3>2 DEF LinkInv, Sound
  <2>2. QED BY <2>1
<1>4. \A s \in Objects : ToVisit(m, s) => ToVisit(n, s)
  BY <1>1, AboveIs DEF ToVisit, Above
<1>5. ASSUME NEW s \in Objects, n.by[s] = "source" PROVE Val(n, s) = Val(n, link.source[s]) \/ ToVisit(n, s)
  <2>1. link.source[s] \in Objects /\ link.source[s] # o
    BY <1>2, <1>3, <1>5
  <2>2. CASE s = o
    BY <1>5, <2>1, <2>2 DEF SinkTakes, Enters
  <2>3. CASE s # o
    BY <1>4, <1>5, <2>1, <2>3 DEF SinkTakes, Enters, AgreeInv
  <2>4. QED BY <2>2, <2>3
<1>6. ASSUME NEW k \in Calls(n), Op(n, k) = "sink", n.by[Obj(n, k)] = "source"
      PROVE  k < Len(n.stack)
  <2>1. CASE k = 1
    BY <1>1, <1>6, <2>1 DEF Above, SinkTakes, Enters
  <2>2. ASSUME NEW l \in Calls(m), k = l + 1 PROVE k < Len(n.stack)
    <3>1. Op(m, l) = "sink" /\ Obj(n, k) = Obj(m, l)
      BY <1>1, <1>6, <2>2 DEF Above
    <3>2. Obj(m, l) # o
      BY <3>1 DEF Chain
    <3>0. Obj(m, l) \in Objects
      BY CallIs
    <3>3. m.by[Obj(m, l)] = "source"
      BY <1>6, <3>0, <3>1, <3>2 DEF SinkTakes, Enters
    <3>4. QED BY <1>1, <2>2, <3>1, <3>3, AboveIs DEF AgreeInv
  <2>3. QED BY <1>1, <2>1, <2>2, AboveIs
<1>7. QED BY <1>2, <1>5, <1>6 DEF AgreeInv

\* A source takes a value: the sinks that are linked to it are still to be visited.
LEMMA AgreeSourceTakes ==
  ASSUME NEW m \in Machine, NEW n, NEW o \in Objects, NEW value, LinkInv, LoadInv, SourceTakes(n, m, o, value),
         prog[o].kind = "source", AgreeInv(m, Objects)
  PROVE  AgreeInv(n, Objects)
<1>1. Above(n, m) /\ \A s \in Objects : n.by[s] = m.by[s]
  BY DEF SourceTakes, Enters
<1>2. \A s \in Objects : n.by[s] = "source" => prog[s].kind = "sink" /\ link.source[s] # None
  BY <1>1 DEF AgreeInv
<1>3. \A s \in Objects : ToVisit(m, s) => ToVisit(n, s)
  BY <1>1, AboveIs DEF ToVisit, Above
<1>4. ASSUME NEW s \in Objects, n.by[s] = "source" PROVE Val(n, s) = Val(n, link.source[s]) \/ ToVisit(n, s)
  <2>1. link.source[s] \in Objects /\ link.source[s] # None /\ s # o
    BY <1>2, <1>4 DEF LinkInv, Links
  <2>2. CASE link.source[s] = o
    <3>1. PICK j \in DOMAIN link.sinks[o] : link.sinks[o][j] = s
      BY <2>1, <2>2 DEF LinkInv, Sound
    <3>2. j >= 1
      BY DEF LinkInv, Links
    <3>3. 1 \in Calls(n) /\ Op(n, 1) = "source" /\ Obj(n, 1) = o /\ Nxt(n, 1) = 1
      BY <1>1, AboveIs DEF SourceTakes, Enters
    <3>4. QED BY <2>2, <3>1, <3>2, <3>3 DEF ToVisit
  <2>3. CASE link.source[s] # o
    BY <1>1, <1>3, <1>4, <2>1, <2>3 DEF SourceTakes, Enters, AgreeInv
  <2>4. QED BY <2>2, <2>3
<1>5. ASSUME NEW k \in Calls(n), Op(n, k) = "sink", n.by[Obj(n, k)] = "source" PROVE k < Len(n.stack)
  <2>1. k # 1
    BY <1>5 DEF SourceTakes, Enters
  <2>2. PICK l \in Calls(m) : k = l + 1
    BY <1>1, <2>1, AboveIs
  <2>3. Op(m, l) = "sink" /\ Obj(n, k) = Obj(m, l) /\ Obj(m, l) \in Objects
    BY <1>1, <1>5, <2>2, CallIs DEF Above
  <2>4. QED BY <1>1, <1>5, <2>2, <2>3, AboveIs DEF AgreeInv
<1>6. QED BY <1>2, <1>4, <1>5 DEF AgreeInv

LEMMA AgreePresets ==
  ASSUME NEW m \in Machine, NEW n, NEW o \in Objects, NEW value, LinkInv, Presets(n, m, o, value), AgreeInv(m, Objects)
  PROVE  AgreeInv(n, Objects)
<1>1. Above(n, m) /\ \A s \in Objects : n.by[s] = m.by[s] /\ Val(n, s) = Val(m, s)
  BY DEF Presets, Enters
<1>2. \A s \in Objects : link.source[s] # None => link.source[s] \in Objects
  BY DEF LinkInv, Links
<1>3. \A s \in Objects : ToVisit(m, s) => ToVisit(n, s)
  BY <1>1, AboveIs DEF ToVisit, Above
<1>4. ASSUME NEW k \in Calls(n), Op(n, k) = "sink", n.by[Obj(n, k)] = "source" PROVE k < Len(n.stack)
  <2>1. k # 1
    BY <1>4 DEF Presets, Enters
  <2>2. PICK l \in Calls(m) : k = l + 1
    BY <1>1, <2>1, AboveIs
  <2>3. Op(m, l) = "sink" /\ Obj(n, k) = Obj(m, l) /\ Obj(m, l) \in Objects
    BY <1>1, <1>4, <2>2, CallIs DEF Above
  <2>4. QED BY <1>1, <1>4, <2>2, <2>3, AboveIs DEF AgreeInv
<1>5. QED BY <1>1, <1>2, <1>3, <1>4 DEF AgreeInv

\* A call returns: if it is the update of a source, it has visited all its sinks.
LEMMA AgreeLeaves ==
  ASSUME NEW m \in Machine, NEW n \in Machine, LinkInv, Leaves(n, m), AgreeInv(m, Objects),
         Op(m, 1) = "source" => Nxt(m, 1) \notin DOMAIN link.sinks[Obj(m, 1)]
  PROVE  AgreeInv(n, Objects)
<1>1. Above(m, n) /\ \A s \in Objects : n.by[s] = m.by[s] /\ Val(n, s) = Val(m, s)
  BY DEF Leaves
<1>2. \A s \in Objects : link.source[s] # None => link.source[s] \in Objects
  BY DEF LinkInv, Links
<1>3. ASSUME NEW s \in Objects, ToVisit(m, s) PROVE ToVisit(n, s)
  <2>1. PICK k \in Calls(m) : /\ Op(m, k) = "source" /\ Obj(m, k) = link.source[s]
                              /\ \E j \in DOMAIN link.sinks[Obj(m, k)] : j >= Nxt(m, k) /\ link.sinks[Obj(m, k)][j] = s
    BY <1>3 DEF ToVisit
  <2>2. k # 1
    <3>1. SUFFICES ASSUME k = 1 PROVE FALSE
      OBVIOUS
    <3>2. PICK j \in DOMAIN link.sinks[Obj(m, 1)] : j >= Nxt(m, 1)
      BY <2>1, <3>1
    <3>3. Obj(m, 1) \in Objects /\ Nxt(m, 1) \in Nat \ {0}
      BY <3>1, CallIs
    <3>4. DOMAIN link.sinks[Obj(m, 1)] = 1..Len(link.sinks[Obj(m, 1)]) /\ Len(link.sinks[Obj(m, 1)]) \in Nat
      BY <3>3 DEF LinkInv, Links
    <3>5. QED BY <2>1, <3>1, <3>2, <3>3, <3>4
  <2>3. QED BY <1>1, <2>1, <2>2, AboveIs DEF ToVisit, Above
<1>4. ASSUME NEW k \in Calls(n), Op(n, k) = "sink", n.by[Obj(n, k)] = "source" PROVE k < Len(n.stack)
  BY <1>1, <1>4, AboveIs, CallIs DEF Above, AgreeInv
<1>5. QED BY <1>1, <1>2, <1>3, <1>4 DEF AgreeInv

\* The loop over the sinks of a source goes on: the sink it leaves behind is excepted.
LEMMA AgreeMoves ==
  ASSUME NEW m \in Machine, NEW n \in Machine, LinkInv, NEW x, Moves(n, m, x), AgreeInv(m, Objects), Len(m.stack) # 0, NEW S \in SUBSET Objects,
         IF Op(m, 1) = "source" THEN /\ Nxt(m, 1) \in DOMAIN link.sinks[Obj(m, 1)] /\ x = Nxt(m, 1) + 1
                                     /\ S = Objects \ {link.sinks[Obj(m, 1)][Nxt(m, 1)]}
         ELSE S = Objects
  PROVE  AgreeInv(n, S)
<1>1. \A s \in Objects : n.by[s] = m.by[s] /\ Val(n, s) = Val(m, s)
  BY DEF Moves, SameButStack
<1>2. \A s \in Objects : link.source[s] # None => link.source[s] \in Objects
  BY DEF LinkInv, Links
<1>3. Calls(n) = Calls(m) /\ \A k \in Calls(m) : Op(n, k) = Op(m, k) /\ Obj(n, k) = Obj(m, k) /\ (k # 1 => Nxt(n, k) = Nxt(m, k))
  BY DEF Moves, Calls
<1>4. ASSUME NEW s \in S, ToVisit(m, s) PROVE ToVisit(n, s)
  <2>1. PICK k \in Calls(m) : /\ Op(m, k) = "source" /\ Obj(m, k) = link.source[s]
                              /\ \E j \in DOMAIN link.sinks[Obj(m, k)] : j >= Nxt(m, k) /\ link.sinks[Obj(m, k)][j] = s
    BY <1>4 DEF ToVisit
  <2>2. PICK j \in DOMAIN link.sinks[Obj(m, k)] : j >= Nxt(m, k) /\ link.sinks[Obj(m, k)][j] = s
    BY <2>1
  <2>3. j >= Nxt(n, k)
    <3>1. CASE k = 1
      <4>1. j # Nxt(m, 1)
        BY <2>1, <2>2, <3>1
      <4>2. Nxt(n, 1) = Nxt(m, 1) + 1 /\ Nxt(m, 1) \in Nat
        BY <2>1, <3>1, CallIs DEF Moves
      <4>3. Obj(m, 1) \in Objects
        BY <3>1, CallIs
      <4>4. j \in Nat
        BY <2>2, <3>1, <4>3 DEF LinkInv, Links
      <4>5. QED BY <2>2, <3>1, <4>1, <4>2, <4>4
    <3>2. CASE k # 1
      BY <1>3, <2>2, <3>2
    <3>3. QED BY <3>1, <3>2
  <2>4. QED BY <1>3, <2>1, <2>2, <2>3 DEF ToVisit
<1>5. ASSUME NEW k \in Calls(n), Op(n, k) = "sink", n.by[Obj(n, k)] = "source" PROVE k < Len(n.stack)
  BY <1>1, <1>3, <1>5, CallIs DEF AgreeInv, Moves
<1>6. QED BY <1>1, <1>2, <1>4, <1>5 DEF AgreeInv

\* A sink that is locked when its source visits it is the one that all began with: no source set it.
LEMMA AgreeRefuses ==
  ASSUME NEW m \in Machine, NEW n \in Machine, NEW o \in Objects, LinkInv, Chain(m), Refuses(n, m, o), Len(m.stack) # 0, Locked(m, o),
         Driver(o) = Obj(m, 1), AgreeInv(m, IF prog[o].kind = "sink" THEN Objects \ {o} ELSE Objects)
  PROVE  AgreeInv(n, Objects)
<1>1. \A s \in Objects : n.by[s] = m.by[s] /\ Val(n, s) = Val(m, s)
  BY DEF Refuses, SameButStack
<1>2. \A s \in Objects : link.source[s] # None => link.source[s] \in Objects
  BY DEF LinkInv, Links
<1>3. Calls(n) = Calls(m) /\ Len(n.stack) = Len(m.stack) /\ \A k : Op(n, k) = Op(m, k) /\ Obj(n, k) = Obj(m, k) /\ Nxt(n, k) = Nxt(m, k)
  BY DEF Refuses, Calls, Op, Obj, Nxt
<1>4. \A s \in Objects : ToVisit(m, s) => ToVisit(n, s)
  BY <1>3 DEF ToVisit
<1>5. ASSUME prog[o].kind = "sink", m.by[o] = "source" PROVE FALSE
  <2>1. PICK k \in Calls(m) : Obj(m, k) = o /\ Op(m, k) # "preset"
    BY DEF Chain
  <2>2. Op(m, k) = "sink" /\ Len(m.stack) \in Nat /\ 1 \in Calls(m)
    BY <1>5, <2>1, CallIs DEF Chain, Calls
  <2>3. k < Len(m.stack) /\ k + 1 \in Calls(m) /\ k + 1 # 1 /\ Obj(m, k + 1) = Obj(m, 1)
    BY <1>5, <2>1, <2>2 DEF AgreeInv, Chain, Calls
  <2>4. prog[Obj(m, 1)].kind = "source"
    <3>1. link.source[o] # None /\ Obj(m, 1) = link.source[o]
      BY <1>5 DEF AgreeInv, Driver
    <3>2. link.source[o] \in Objects
      BY <1>2, <3>1
    <3>3. PICK j \in DOMAIN link.sinks[link.source[o]] : link.sinks[link.source[o]][j] = o
      BY <3>1 DEF LinkInv, Sound
    <3>4. QED BY <3>1, <3>2, <3>3 DEF LinkInv, Sound
  <2>5. Op(m, 1) = "source" /\ Op(m, k + 1) = "source"
    BY <2>2, <2>3, <2>4 DEF Chain
  <2>6. QED BY <2>2, <2>3, <2>5 DEF Chain
<1>6. \A s \in Objects : n.by[s] = "source" => prog[s].kind = "sink" /\ link.source[s] # None
  BY <1>1 DEF AgreeInv
<1>7. ASSUME NEW s \in Objects, n.by[s] = "source" PROVE Val(n, s) = Val(n, link.source[s]) \/ ToVisit(n, s)
  <2>1. m.by[s] = "source" /\ prog[s].kind = "sink" /\ link.source[s] \in Objects
    BY <1>1, <1>2, <1>6, <1>7
  <2>2. s # o
    BY <1>5, <2>1
  <2>3. Val(m, s) = Val(m, link.source[s]) \/ ToVisit(m, s)
    BY <2>1, <2>2 DEF AgreeInv
  <2>4. QED BY <1>1, <1>4, <2>1, <2>3
<1>8. \A k \in Calls(n) : Op(n, k) = "sink" /\ n.by[Obj(n, k)] = "source" => k < Len(n.stack)
  BY <1>1, <1>3, CallIs DEF AgreeInv
<1>9. QED BY <1>6, <1>7, <1>8 DEF AgreeInv

\* When a sink is started, the sources of its tile are wired to it.
LEMMA StartedWired ==
  ASSUME LoadInv, NEW c \in Of("source"), Started(prog[c].from)
  PROVE  c \in Wired(prog[c].from)
<1> DEFINE o == prog[c].from
<1>1. /\ c \in Objects /\ o \in Objects /\ prog[o].tile = prog[c].tile /\ at.obj \in Objects
      /\ at.phase \in {"new", "setup", "start", "run"} /\ (at.phase = "run" => at.obj = Len(prog))
  BY ProgramIs DEF Of, LoadInv, Positions
<1>2. Objects \subseteq Nat /\ Len(prog) \in Objects /\ \A q \in Objects : q <= Len(prog) /\ prog[q].tile \in Nat
  BY ProgramIs DEF LoadInv
<1>3. \A p, q \in Objects : p <= q => prog[p].tile <= prog[q].tile
  BY ProgramIs
<1> HIDE DEF o
<1>4. Registered(c) /\ ~(at.phase = "setup" /\ c \in TileOf(at.obj))
  <2>1. CASE at.phase = "run"
    BY <1>1, <1>2, <1>3, <2>1 DEF Registered
  <2>2. CASE at.phase = "start"
    <3>1. o < at.obj
      BY <2>2 DEF Started, o
    <3>2. o <= at.obj /\ o \in Objects /\ at.obj \in Objects
      <4>1. o \in Nat /\ at.obj \in Nat
        BY <1>1, <1>2
      <4>2. QED BY <1>1, <3>1, <4>1
    <3>3. prog[o].tile <= prog[at.obj].tile
      BY <1>3, <3>2
    <3>4. QED BY <1>1, <2>2, <3>3 DEF Registered
  <2>3. CASE at.phase \in {"new", "setup"}
    <3>1. prog[o].tile < prog[at.obj].tile
      BY <2>3 DEF Started, o
    <3>2. c < at.obj
      <4>1. c \in Nat /\ at.obj \in Nat /\ prog[at.obj].tile \in Nat /\ prog[c].tile \in Nat
        BY <1>1, <1>2
      <4>2. ASSUME at.obj <= c PROVE prog[at.obj].tile <= prog[c].tile
        BY <1>1, <1>3, <4>2
      <4>3. QED BY <1>1, <3>1, <4>1, <4>2
    <3>3. c \notin TileOf(at.obj)
      BY <1>1, <1>2, <3>1 DEF TileOf
    <3>4. QED BY <3>2, <3>3 DEF Registered
  <2>4. QED BY <1>1, <2>1, <2>2, <2>3
<1>5. QED BY <1>4 DEF Wired, o

LEMMA WireSinkTakes ==
  ASSUME NEW m \in Machine, NEW n \in Machine, NEW o \in Objects, NEW value, NEW who, LoadInv, SinkTakes(n, m, o, value, who),
         prog[o].kind = "sink", WireInv(m, Of("source"))
  PROVE  WireInv(n, Of("source"))
<1>1. Above(n, m)
  BY DEF SinkTakes, Enters
<1>2. \A s \in Of("sink") : Given(n, s) => Shown(n, s) = Val(n, s) \/ ~Started(s)
  BY DEF SinkTakes, Enters, WireInv, Given, Of
<1>3. ASSUME NEW k \in Calls(n), Op(n, k) = "preset" PROVE ~Started(Obj(n, k))
  BY <1>1, <1>3, AboveIs DEF SinkTakes, Enters, Above, WireInv
<1>4. ASSUME NEW c \in Of("source"), Given(n, prog[c].from), Started(prog[c].from), c \notin n.refused PROVE Wire(n, c)
  <2>1. c \in Objects /\ c # o /\ prog[c].from \in Objects /\ c \in Nat /\ c >= 1
    BY ProgramIs DEF Of, LoadInv
  <2>2. CASE prog[c].from = o
    <3>1. 1 \in Calls(n) /\ Op(n, 1) = "sink" /\ Obj(n, 1) = o /\ Nxt(n, 1) = 1
      BY <1>1, AboveIs DEF SinkTakes, Enters
    <3>2. QED BY <2>1, <2>2, <3>1 DEF Wire, ToWire
  <2>3. CASE prog[c].from # o
    <3>1. Wire(m, c)
      BY <1>4, <2>1, <2>3 DEF WireInv, SinkTakes, Enters, Given
    <3>2. ToWire(m, c) => ToWire(n, c)
      BY <1>1, AboveIs DEF ToWire, Above
    <3>3. QED BY <2>1, <2>3, <3>1, <3>2 DEF Wire, SinkTakes, Enters
  <2>4. QED BY <2>2, <2>3
<1>5. QED BY <1>2, <1>3, <1>4 DEF WireInv

\* A source takes what its sink shows, which is the value of a sink that is started.
LEMMA WireSourceTakes ==
  ASSUME NEW m \in Machine, NEW n \in Machine, NEW o \in Of("source"), LoadInv,
         SourceTakes(n, m, o, Through(o, Shown(m, prog[o].from))), WireInv(m, Of("source") \ {o})
  PROVE  WireInv(n, Of("source"))
<1>1. Above(n, m) /\ o \in Objects
  BY DEF SourceTakes, Enters, Of
<1>2. \A q \in Objects : /\ n.by[q] = m.by[q] /\ Shown(n, q) = Shown(m, q) /\ (q # o => Val(n, q) = Val(m, q))
  BY DEF SourceTakes, Enters
<1>3. \A s \in Of("sink") : Given(n, s) => Shown(n, s) = Val(n, s) \/ ~Started(s)
  BY <1>2 DEF WireInv, Given, Of
<1>4. ASSUME NEW k \in Calls(n), Op(n, k) = "preset" PROVE ~Started(Obj(n, k))
  BY <1>1, <1>4, AboveIs DEF SourceTakes, Enters, Above, WireInv
<1>5. ASSUME NEW c \in Of("source"), Given(n, prog[c].from), Started(prog[c].from), c \notin n.refused PROVE Wire(n, c)
  <2>1. c \in Objects /\ prog[c].from \in Objects /\ prog[prog[c].from].kind = "sink" /\ prog[c].from # o
    BY ProgramIs DEF Of
  <2>2. CASE c = o
    <3>1. Shown(m, prog[o].from) = Val(m, prog[o].from)
      BY <1>2, <1>5, <2>1, <2>2 DEF WireInv, Given, Of
    <3>2. Val(n, o) = Through(o, Val(n, prog[o].from))
      BY <1>2, <2>1, <2>2, <3>1 DEF SourceTakes
    <3>3. QED BY <2>2, <3>2 DEF Wire
  <2>3. CASE c # o
    <3>0. c \notin m.refused
      BY <1>5, <2>3 DEF SourceTakes, Enters
    <3>1. Wire(m, c)
      BY <1>2, <1>5, <2>1, <2>3, <3>0 DEF WireInv, Given
    <3>2. ToWire(m, c) => ToWire(n, c)
      BY <1>1, AboveIs DEF ToWire, Above
    <3>3. QED BY <1>2, <2>1, <2>3, <3>1, <3>2 DEF Wire
  <2>4. QED BY <2>2, <2>3
<1>6. QED BY <1>3, <1>4, <1>5 DEF WireInv

LEMMA WirePresets ==
  ASSUME NEW m \in Machine, NEW n \in Machine, NEW o \in Objects, NEW value, LoadInv, Presets(n, m, o, value), ~Started(o),
         WireInv(m, Of("source"))
  PROVE  WireInv(n, Of("source"))
<1>1. Above(n, m) /\ n.refused = m.refused
  BY DEF Presets, Enters
<1>2. \A q \in Objects : /\ n.by[q] = m.by[q] /\ Val(n, q) = Val(m, q) /\ (q # o => Shown(n, q) = Shown(m, q))
  BY DEF Presets, Enters
<1>3. \A s \in Of("sink") : Given(n, s) => Shown(n, s) = Val(n, s) \/ ~Started(s)
  BY <1>2 DEF WireInv, Given, Of
<1>4. ASSUME NEW k \in Calls(n), Op(n, k) = "preset" PROVE ~Started(Obj(n, k))
  BY <1>1, <1>4, AboveIs DEF Presets, Enters, Above, WireInv
<1>5. ASSUME NEW c \in Of("source"), Given(n, prog[c].from), Started(prog[c].from), c \notin n.refused PROVE Wire(n, c)
  <2>1. c \in Objects /\ prog[c].from \in Objects
    BY ProgramIs DEF Of
  <2>2. Wire(m, c)
    BY <1>1, <1>2, <1>5, <2>1 DEF WireInv, Given
  <2>3. ToWire(m, c) => ToWire(n, c)
    BY <1>1, AboveIs DEF ToWire, Above
  <2>4. QED BY <1>2, <2>1, <2>2, <2>3 DEF Wire
<1>6. QED BY <1>3, <1>4, <1>5 DEF WireInv

\* A call returns: if it is the update of a sink, it has visited all sources wired to it.
LEMMA WireLeaves ==
  ASSUME NEW m \in Machine, NEW n \in Machine, LoadInv, Leaves(n, m), WireInv(m, Of("source")),
         Op(m, 1) = "sink" => \A q \in Wired(Obj(m, 1)) : ~(q >= Nxt(m, 1))
  PROVE  WireInv(n, Of("source"))
<1>1. Above(m, n) /\ n.refused = m.refused
  BY DEF Leaves
<1>2. \A q \in Objects : n.by[q] = m.by[q] /\ Val(n, q) = Val(m, q) /\ Shown(n, q) = Shown(m, q)
  BY DEF Leaves
<1>3. \A s \in Of("sink") : Given(n, s) => Shown(n, s) = Val(n, s) \/ ~Started(s)
  BY <1>2 DEF WireInv, Given, Of
<1>4. ASSUME NEW k \in Calls(n), Op(n, k) = "preset" PROVE ~Started(Obj(n, k))
  BY <1>1, <1>4, AboveIs DEF Above, WireInv
<1>5. ASSUME NEW c \in Of("source"), Given(n, prog[c].from), Started(prog[c].from), c \notin n.refused PROVE Wire(n, c)
  <2>1. c \in Objects /\ prog[c].from \in Objects /\ c \in Nat
    BY ProgramIs DEF Of, LoadInv
  <2>2. Wire(m, c)
    BY <1>1, <1>2, <1>5, <2>1 DEF WireInv, Given
  <2>3. ASSUME ToWire(m, c) PROVE ToWire(n, c)
    <3>1. PICK k \in Calls(m) : Op(m, k) = "sink" /\ Obj(m, k) = prog[c].from /\ Nxt(m, k) <= c
      BY <2>3 DEF ToWire
    <3>2. c \in Wired(prog[c].from)
      BY <1>5, StartedWired
    <3>3. Nxt(m, k) \in Nat
      BY <3>1, CallIs
    <3>4. k # 1
      BY <2>1, <3>1, <3>2, <3>3
    <3>5. PICK l \in Calls(n) : k = l + 1
      BY <1>1, <3>1, <3>4, AboveIs
    <3>6. Op(n, l) = "sink" /\ Obj(n, l) = prog[c].from /\ Nxt(n, l) <= c
      BY <1>1, <3>1, <3>5 DEF Above
    <3>7. QED BY <3>6 DEF ToWire
  <2>4. QED BY <1>2, <2>1, <2>2, <2>3 DEF Wire
<1>6. QED BY <1>3, <1>4, <1>5 DEF WireInv

\* The loop over the sources of a sink goes on: the source it leaves behind is excepted.
LEMMA WireMoves ==
  ASSUME NEW m \in Machine, NEW n \in Machine, LoadInv, NEW x, Moves(n, m, x), WireInv(m, Of("source")), NEW C,
         Len(m.stack) # 0,
         IF Op(m, 1) = "sink"
         THEN \E q \in Wired(Obj(m, 1)) : /\ \A r \in Wired(Obj(m, 1)) : r >= Nxt(m, 1) => q <= r
                                          /\ x = q + 1 /\ C = Of("source") \ {q}
         ELSE C \subseteq Of("source")
  PROVE  WireInv(n, C)
<1>1. /\ n.refused = m.refused
      /\ \A q \in Objects : n.by[q] = m.by[q] /\ Val(n, q) = Val(m, q) /\ Shown(n, q) = Shown(m, q)
  BY DEF Moves, SameButStack
<1>2. Calls(n) = Calls(m) /\ \A k \in Calls(m) : Op(n, k) = Op(m, k) /\ Obj(n, k) = Obj(m, k) /\ (k # 1 => Nxt(n, k) = Nxt(m, k))
  BY DEF Moves, Calls
<1>3. \A s \in Of("sink") : Given(n, s) => Shown(n, s) = Val(n, s) \/ ~Started(s)
  BY <1>1 DEF WireInv, Given, Of
<1>4. \A k \in Calls(n) : Op(n, k) = "preset" => ~Started(Obj(n, k))
  BY <1>2 DEF WireInv
<1>5. ASSUME NEW c \in C, Given(n, prog[c].from), Started(prog[c].from), c \notin n.refused PROVE Wire(n, c)
  <2>0. c \in Of("source")
    OBVIOUS
  <2>1. c \in Objects /\ prog[c].from \in Objects /\ c \in Nat
    BY <2>0, ProgramIs DEF Of, LoadInv
  <2>2. Wire(m, c)
    BY <1>1, <1>5, <2>0, <2>1 DEF WireInv, Given
  <2>3. ASSUME ToWire(m, c) PROVE ToWire(n, c)
    <3>1. PICK k \in Calls(m) : Op(m, k) = "sink" /\ Obj(m, k) = prog[c].from /\ Nxt(m, k) <= c
      BY <2>3 DEF ToWire
    <3>2. c \in Wired(prog[c].from)
      BY <1>5, <2>0, StartedWired
    <3>3. CASE k = 1
      <4>1. PICK q \in Wired(Obj(m, 1)) : /\ \A r \in Wired(Obj(m, 1)) : r >= Nxt(m, 1) => q <= r
                                          /\ x = q + 1 /\ C = Of("source") \ {q}
        BY <3>1, <3>3
      <4>2. q <= c /\ c # q /\ q \in Nat
        <5>1. Nxt(m, 1) \in Nat
          BY <3>1, <3>3, CallIs
        <5>2. q \in Nat /\ c >= Nxt(m, 1)
          BY <2>1, <3>1, <3>3, <5>1 DEF Wired, Of, LoadInv
        <5>3. QED BY <3>1, <3>2, <3>3, <4>1, <5>2
      <4>3. Nxt(n, 1) <= c
        BY <2>1, <4>1, <4>2 DEF Moves
      <4>4. QED BY <1>2, <3>1, <3>3, <4>3 DEF ToWire
    <3>4. CASE k # 1
      BY <1>2, <3>1, <3>4 DEF ToWire
    <3>5. QED BY <3>3, <3>4
  <2>4. QED BY <1>1, <2>1, <2>2, <2>3 DEF Wire
<1>6. QED BY <1>3, <1>4, <1>5 DEF WireInv

\* A source that refuses is excepted.
LEMMA WireRefuses ==
  ASSUME NEW m \in Machine, NEW n \in Machine, NEW o \in Objects, LoadInv, Refuses(n, m, o),
         WireInv(m, IF prog[o].kind = "source" THEN Of("source") \ {o} ELSE Of("source"))
  PROVE  WireInv(n, Of("source"))
<1>1. /\ n.refused = m.refused \cup {o}
      /\ \A q \in Objects : n.by[q] = m.by[q] /\ Val(n, q) = Val(m, q) /\ Shown(n, q) = Shown(m, q)
  BY DEF Refuses, SameButStack
<1>2. Calls(n) = Calls(m) /\ \A k : Op(n, k) = Op(m, k) /\ Obj(n, k) = Obj(m, k) /\ Nxt(n, k) = Nxt(m, k)
  BY DEF Refuses, Calls, Op, Obj, Nxt
<1>3. \A s \in Of("sink") : Given(n, s) => Shown(n, s) = Val(n, s) \/ ~Started(s)
  BY <1>1 DEF WireInv, Given, Of
<1>4. \A k \in Calls(n) : Op(n, k) = "preset" => ~Started(Obj(n, k))
  BY <1>2 DEF WireInv
<1>5. ASSUME NEW c \in Of("source"), Given(n, prog[c].from), Started(prog[c].from), c \notin n.refused PROVE Wire(n, c)
  <2>1. c \in Objects /\ prog[c].from \in Objects /\ c # o /\ c \notin m.refused
    BY <1>1, <1>5, ProgramIs DEF Of
  <2>2. Wire(m, c)
    BY <1>1, <1>5, <2>1 DEF WireInv, Given
  <2>3. ToWire(m, c) => ToWire(n, c)
    BY <1>2 DEF ToWire
  <2>4. QED BY <1>1, <2>1, <2>2, <2>3 DEF Wire
<1>6. QED BY <1>3, <1>4, <1>5 DEF WireInv

\* While tiles are loaded, every call hands on a value.
LEMMA LoadedEnters ==
  ASSUME NEW m \in Machine, NEW n \in Machine, Above(n, m), LoadedInv(m),
         at.phase # "run" =>
           /\ \A q \in Objects : /\ Shown(m, q) # Unset => Shown(n, q) # Unset
                                 /\ Val(m, q) # Unset => Val(n, q) # Unset
                                 /\ Given(n, q) => Given(m, q) \/ Shown(n, q) # Unset
           /\ IF Op(n, 1) = "source" THEN Val(n, Obj(n, 1)) # Unset ELSE Shown(n, Obj(n, 1)) # Unset
  PROVE  LoadedInv(n)
<1>1. SUFFICES ASSUME at.phase # "run"
               PROVE  /\ \A s \in Of("sink") : Given(n, s) => Shown(n, s) # Unset
                      /\ \A k \in Calls(n) : IF Op(n, k) = "source" THEN Val(n, Obj(n, k)) # Unset
                                             ELSE Shown(n, Obj(n, k)) # Unset
  BY DEF LoadedInv
<1>2. \A s \in Of("sink") : Given(n, s) => Shown(n, s) # Unset
  BY <1>1 DEF LoadedInv, Of
<1>3. ASSUME NEW k \in Calls(n)
      PROVE  IF Op(n, k) = "source" THEN Val(n, Obj(n, k)) # Unset ELSE Shown(n, Obj(n, k)) # Unset
  <2>1. CASE k = 1
    BY <1>1, <2>1
  <2>2. ASSUME NEW l \in Calls(m), k = l + 1
        PROVE  IF Op(n, k) = "source" THEN Val(n, Obj(n, k)) # Unset ELSE Shown(n, Obj(n, k)) # Unset
    BY <1>1, <2>2, CallIs DEF Above, LoadedInv
  <2>3. QED BY <2>1, <2>2, AboveIs
<1>4. QED BY <1>2, <1>3

LEMMA LoadedLeaves ==
  ASSUME NEW m \in Machine, NEW n \in Machine, Leaves(n, m), LoadedInv(m)
  PROVE  LoadedInv(n)
<1>1. Above(m, n) /\ \A q \in Objects : n.by[q] = m.by[q] /\ Val(n, q) = Val(m, q) /\ Shown(n, q) = Shown(m, q)
  BY DEF Leaves
<1>2. QED BY <1>1, AboveIs, CallIs DEF LoadedInv, Above, Given, Of

\* What leaves values and calls alone leaves the invariant.
LEMMA LoadedSame ==
  ASSUME NEW m \in Machine, NEW n \in Machine, LoadedInv(m),
         \A q \in Objects : n.by[q] = m.by[q] /\ Val(n, q) = Val(m, q) /\ Shown(n, q) = Shown(m, q),
         Calls(n) = Calls(m), \A k \in Calls(m) : Op(n, k) = Op(m, k) /\ Obj(n, k) = Obj(m, k)
  PROVE  LoadedInv(n)
BY CallIs DEF LoadedInv, Given, Of

\* A call on a source ends with its publication.
LEMMA BrokerEnters ==
  ASSUME NEW m \in Machine, NEW n \in Machine, NEW op, NEW o \in Objects, Enters(n, m, op, o),
         prog[o].kind = "source" => op = "source", BrokerInv(m)
  PROVE  BrokerInv(n)
<1>1. Above(n, m) /\ n.mqtt = m.mqtt /\ n.stale = m.stale /\ 1 \in Calls(n) /\ Op(n, 1) = op /\ Obj(n, 1) = o
      /\ \A q \in Objects : q # o => Val(n, q) = Val(m, q)
  BY AboveIs DEF Enters
<1>2. ASSUME NEW c \in Public("source") PROVE ToPublish(n, c) \/ (Val(n, c) = Val(m, c) /\ ~ToPublish(m, c))
  <2>1. c \in Objects /\ prog[c].kind = "source"
    BY DEF Public, Of
  <2>2. CASE c = o
    BY <1>1, <2>1, <2>2 DEF ToPublish
  <2>3. CASE c # o
    <3>1. ToPublish(m, c) => ToPublish(n, c)
      BY <1>1, AboveIs DEF ToPublish, Above
    <3>2. QED BY <1>1, <2>1, <2>3, <3>1
  <2>4. QED BY <2>2, <2>3
<1>3. QED BY <1>1, <1>2 DEF BrokerInv

LEMMA PublishIs ==
  ASSUME NEW B \in Broker, NEW name \in Names, NEW value \in V, NEW R, R = mqtt_publish(B, name, value)
  PROVE  /\ R \in Broker /\ R.up = B.up /\ R.connected = B.connected /\ R.queue = B.queue
         /\ B.up /\ B.connected => R.retained[name] = value
         /\ \A other \in Names : other # name => R.retained[other] = B.retained[other]
<1> DEFINE msg == <<name, value>>
           kept == [B.retained EXCEPT ![name] = value]
           inbox == IF name \in B.subscribed THEN Append(B.inbox, msg) ELSE B.inbox
<1>1. /\ B.retained \in [Names -> V] /\ B.inbox \in Seq(Message) /\ B.up \in BOOLEAN /\ B.connected \in BOOLEAN
      /\ B.subscribed \in SUBSET Names /\ B.queue \in Seq(Message) /\ B.lost \in SUBSET Names
  BY DEF Broker
<1>2. msg \in Message
  BY DEF Message
<1>3. kept \in [Names -> V] /\ kept[name] = value /\ \A other \in Names : other # name => kept[other] = B.retained[other]
  BY <1>1
<1> HIDE DEF msg
<1>4. inbox \in Seq(Message)
  BY <1>1, <1>2
<1>5. CASE CanSend(B)
  <2>1. R = [B EXCEPT !.retained = kept, !.inbox = inbox]
    BY <1>5, Zenon DEF mqtt_publish, msg
  <2> HIDE DEF kept, inbox
  <2>2. QED BY <1>1, <1>3, <1>4, <2>1 DEF Broker
<1>6. CASE ~CanSend(B)
  BY <1>6 DEF mqtt_publish, CanSend
<1>7. QED BY <1>5, <1>6

LEMMA BrokerLeaves ==
  ASSUME NEW m \in Machine, NEW n \in Machine, LoadInv, NoDuplicate(prog, full), Leaves(n, m), BrokerInv(m),
         NEW o \in Objects, o = Obj(m, 1), Op(m, 1) = "source" <=> prog[o].kind = "source",
         IF Op(m, 1) = "source" /\ ~prog[o].local
         THEN n.mqtt = mqtt_publish(m.mqtt, prog[o].name, Val(m, o)) /\ n.stale = m.stale \ {o}
         ELSE n.mqtt = m.mqtt /\ n.stale = m.stale
  PROVE  BrokerInv(n)
<1>1. Above(m, n) /\ \A q \in Objects : Val(n, q) = Val(m, q)
  BY DEF Leaves
<1>2. ASSUME NEW c \in Public("source"), c # o, ToPublish(m, c) PROVE ToPublish(n, c)
  BY <1>1, <1>2, AboveIs DEF ToPublish, Above
<1>3. CASE Op(m, 1) = "source" /\ ~prog[o].local
  <2>1. m.mqtt \in Broker /\ prog[o].name \in Names /\ Val(m, o) \in V
    BY ProgramIs, MachineIs DEF Eps, Endpoint, Val
  <2>2. /\ n.mqtt.up = m.mqtt.up /\ n.mqtt.connected = m.mqtt.connected
        /\ m.mqtt.up /\ m.mqtt.connected => n.mqtt.retained[prog[o].name] = Val(m, o)
        /\ \A other \in Names : other # prog[o].name => n.mqtt.retained[other] = m.mqtt.retained[other]
    BY <1>3, <2>1, PublishIs
  <2>3. ASSUME ~full, n.mqtt.up, NEW c \in Public("source") \ n.stale
        PROVE  n.mqtt.retained[prog[c].name] = Val(n, c) \/ ToPublish(n, c)
    <3>1. c \in Objects /\ prog[c].kind = "source" /\ prog[c].name \in Names
      BY ProgramIs DEF Public, Of
    <3>2. CASE c = o
      BY <1>1, <2>2, <2>3, <3>2 DEF BrokerInv
    <3>3. CASE c # o
      <4>1. prog[c].name # prog[o].name
        BY <1>3, <2>3, <3>1, <3>3 DEF NoDuplicate, Objects
      <4>2. c \in Public("source") \ m.stale
        BY <1>3, <2>3, <3>3
      <4>3. m.mqtt.retained[prog[c].name] = Val(m, c) \/ ToPublish(m, c)
        BY <2>2, <2>3, <4>2 DEF BrokerInv
      <4>4. QED BY <1>1, <1>2, <2>2, <3>1, <3>3, <4>1, <4>3
    <3>4. QED BY <3>2, <3>3
  <2>4. QED BY <2>2, <2>3 DEF BrokerInv
<1>4. CASE ~(Op(m, 1) = "source" /\ ~prog[o].local)
  <2>1. \A c \in Public("source") : c # o /\ c \in Objects
    BY <1>4 DEF Public, Of
  <2>2. QED BY <1>1, <1>2, <1>4, <2>1 DEF BrokerInv
<1>5. QED BY <1>3, <1>4

\* What leaves values, calls on sources and what the broker keeps alone leaves the invariant.
LEMMA BrokerSame ==
  ASSUME NEW m \in Machine, NEW n \in Machine, BrokerInv(m), n.stale = m.stale,
         n.mqtt.up = m.mqtt.up, n.mqtt.connected = m.mqtt.connected, n.mqtt.retained = m.mqtt.retained,
         \A q \in Objects : Val(n, q) = Val(m, q),
         Calls(n) = Calls(m), \A k \in Calls(m) : Op(n, k) = Op(m, k) /\ Obj(n, k) = Obj(m, k)
  PROVE  BrokerInv(n)
<1>1. \A c \in Public("source") : c \in Objects /\ (ToPublish(n, c) <=> ToPublish(m, c))
  BY DEF ToPublish, Public, Of
<1>2. QED BY <1>1 DEF BrokerInv
-----------------------------------------------------------------------------
(* What the operators of the machine do                                    *)

\* All but the stack
Rest(n, m) == /\ n.ep = m.ep /\ n.pad = m.pad /\ n.trace = m.trace /\ n.mqtt = m.mqtt /\ n.log = m.log
              /\ n.by = m.by /\ n.refused = m.refused /\ n.stale = m.stale

LEMMA RestIs == ASSUME NEW n, NEW m, Rest(n, m)
                PROVE  /\ \A q : /\ Val(n, q) = Val(m, q) /\ Locked(n, q) = Locked(m, q) /\ Shown(n, q) = Shown(m, q)
                                 /\ PadLock(n, q) = PadLock(m, q) /\ n.by[q] = m.by[q]
                       /\ n.refused = m.refused /\ n.mqtt = m.mqtt /\ n.stale = m.stale /\ (TraceInv(m) => TraceInv(n))
BY DEF Rest, Val, Locked, Shown, PadLock, TraceInv

WithNext(m, pos) == [m EXCEPT !.stack[1].next = pos]
WithRefused(m, o) == [m EXCEPT !.refused = @ \cup {o}]

LEMMA PushCall == ASSUME NEW m \in Machine, NEW op \in {"sink", "source", "preset"}, NEW o \in Objects,
                         NEW n, n = Push(m, op, o)
                  PROVE  /\ n \in Machine /\ Rest(n, m) /\ Above(n, m)
                         /\ Op(n, 1) = op /\ Obj(n, 1) = o /\ Nxt(n, 1) = 1
<1> DEFINE call == [op |-> op, obj |-> o, next |-> 1]
           old == m.stack
           new == <<call>> \o old
<1>1. call \in Call /\ call.op = op /\ call.obj = o /\ call.next = 1
  BY DEF Call
<1>2. old \in Seq(Call)
  BY MachineIs DEF Stacks
<1> HIDE DEF call, old
<1>3. /\ new \in Seq(Call) /\ Len(old) \in Nat /\ Len(new) = Len(old) + 1 /\ new[1] = call
      /\ \A k \in 1..Len(old) : new[k + 1] = old[k]
  BY <1>1, <1>2
<1>4. n = [m EXCEPT !.stack = new]
  BY Zenon DEF Push, call, old
<1> HIDE DEF new
<1>5. n \in Machine /\ n.stack = new /\ Rest(n, m)
  BY <1>3, <1>4, Set_stack DEF Stacks, Rest
<1>6. Above(n, m)
  BY <1>3, <1>5 DEF Above, Calls, Op, Obj, Nxt, old
<1>7. Op(n, 1) = op /\ Obj(n, 1) = o /\ Nxt(n, 1) = 1
  BY <1>1, <1>3, <1>5 DEF Op, Obj, Nxt
<1>8. QED BY <1>5, <1>6, <1>7

LEMMA DropCall == ASSUME NEW m \in Machine, m.stack # <<>>, NEW n, n = Drop(m)
                  PROVE  n \in Machine /\ Rest(n, m) /\ Above(m, n)
<1> DEFINE old == m.stack
           new == Tail(old)
<1>1. old \in Seq(Call) /\ old # <<>>
  BY MachineIs DEF Stacks
<1>2. n = [m EXCEPT !.stack = new]
  BY DEF Drop
<1> HIDE DEF old
<1>3. /\ new \in Seq(Call) /\ Len(new) \in Nat /\ Len(old) = Len(new) + 1
      /\ \A k \in 1..Len(new) : new[k] = old[k + 1]
  BY <1>1
<1> HIDE DEF new
<1>4. n \in Machine /\ n.stack = new /\ Rest(n, m)
  BY <1>2, <1>3, Set_stack DEF Stacks, Rest
<1>5. Above(m, n)
  BY <1>3, <1>4 DEF Above, Calls, Op, Obj, Nxt, old
<1>6. QED BY <1>4, <1>5

LEMMA MoveCall == ASSUME NEW m \in Machine, m.stack # <<>>, NEW pos \in Nat \ {0}, NEW n, n = WithNext(m, pos)
                  PROVE  n \in Machine /\ Rest(n, m) /\ Moves(n, m, pos)
<1> DEFINE old == m.stack
           call == [old[1] EXCEPT !.next = pos]
           new == [old EXCEPT ![1] = call]
<1>1. old \in Seq(Call) /\ old # <<>>
  BY MachineIs DEF Stacks
<1>2. n = [m EXCEPT !.stack = new]
  BY Zenon DEF WithNext
<1> HIDE DEF old
<1>3. 1 \in 1..Len(old) /\ Len(old) \in Nat /\ old[1] \in Call
  BY <1>1
<1>4. call \in Call /\ call.op = old[1].op /\ call.obj = old[1].obj /\ call.next = pos
  BY <1>3 DEF Call
<1> HIDE DEF call
<1>5. new \in Seq(Call) /\ Len(new) = Len(old) /\ new[1] = call /\ \A k \in 1..Len(old) : k # 1 => new[k] = old[k]
  BY <1>1, <1>3, <1>4
<1> HIDE DEF new
<1>6. n \in Machine /\ n.stack = new /\ Rest(n, m)
  BY <1>2, <1>5, Set_stack DEF Stacks, Rest
<1>7. SameButStack(n, m) /\ n.refused = m.refused
  BY <1>6, RestIs DEF SameButStack
<1>8. Len(n.stack) = Len(m.stack) /\ Nxt(n, 1) = pos
  BY <1>4, <1>5, <1>6 DEF old, Nxt
<1>9. \A k \in Calls(m) : Op(n, k) = Op(m, k) /\ Obj(n, k) = Obj(m, k) /\ (k # 1 => Nxt(n, k) = Nxt(m, k))
  BY <1>4, <1>5, <1>6 DEF Calls, Op, Obj, Nxt, old
<1>10. QED BY <1>6, <1>7, <1>8, <1>9 DEF Moves

LEMMA RefuseIs == ASSUME NEW m \in Machine, NEW o \in Objects, NEW n, n = WithRefused(m, o)
                  PROVE  n \in Machine /\ Refuses(n, m, o) /\ (TraceInv(m) => TraceInv(n))
<1> DEFINE r == m.refused \cup {o}
<1>1. r \in SUBSET Objects
  BY MachineIs
<1>2. n = [m EXCEPT !.refused = r]
  BY DEF WithRefused
<1> HIDE DEF r
<1>3. /\ n \in Machine /\ n.refused = r /\ n.ep = m.ep /\ n.pad = m.pad /\ n.trace = m.trace /\ n.stack = m.stack
      /\ n.mqtt = m.mqtt /\ n.log = m.log /\ n.by = m.by /\ n.stale = m.stale
  BY <1>1, <1>2, Set_refused
<1>4. QED BY <1>3 DEF Refuses, SameButStack, r, Val, Locked, Shown, PadLock, TraceInv

LEMMA TraceKeeps ==
  ASSUME NEW m \in Machine, NEW n, NEW o \in Objects, NEW v \in V, TraceInv(m),
         n.trace = [m.trace EXCEPT ![o] = hk_trace_push(@, v)], n.log = [m.log EXCEPT ![o] = Remember(@, v)]
  PROVE  n.trace \in Traces /\ n.log \in Logs /\ TraceInv(n)
<1> DEFINE tr == m.trace[o]
           lg == m.log[o]
<1>1. m.trace \in [Objects -> Ring] /\ m.log \in [Objects -> Seq(V)]
  BY MachineIs DEF Traces, Logs
<1>2. tr \in Ring /\ lg \in Seq(V) /\ Entries(tr) = lg
  BY <1>1 DEF TraceInv
<1>3. n.trace = [m.trace EXCEPT ![o] = hk_trace_push(tr, v)] /\ n.log = [m.log EXCEPT ![o] = Remember(lg, v)]
  OBVIOUS
<1> HIDE DEF tr, lg
<1>4. hk_trace_push(tr, v) \in Ring /\ Entries(hk_trace_push(tr, v)) = Remember(lg, v) /\ Remember(lg, v) \in Seq(V)
  BY <1>2, PushIs
<1> DEFINE a == hk_trace_push(tr, v)
           b == Remember(lg, v)
<1> HIDE DEF a, b
<1>5. a \in Ring /\ Entries(a) = b /\ b \in Seq(V) /\ n.trace = [m.trace EXCEPT ![o] = a] /\ n.log = [m.log EXCEPT ![o] = b]
  BY <1>3, <1>4 DEF a, b
<1>6. QED BY <1>1, <1>5 DEF Traces, Logs, TraceInv

\* One part of the machine for one object
WithShown(m, o, v) == [m EXCEPT !.pad[o].value = v]
WithPadLock(m, o, b) == [m EXCEPT !.pad[o].lock = b]
WithUnlocked(m, o) == [m EXCEPT !.ep[o].locked = FALSE]
WithBy(m, o, who) == [m EXCEPT !.by[o] = who]
WithCurrent(m, o) == [m EXCEPT !.stale = @ \ {o}]

\* All but the parts that an update of an endpoint sets
LEMMA TakeIs ==
  ASSUME NEW m \in Machine, NEW o \in Objects, NEW v \in V, NEW n, n = Take(m, o, v), TraceInv(m)
  PROVE  /\ n \in Machine /\ Val(n, o) = v /\ Locked(n, o) = TRUE
         /\ \A q \in Objects : q # o => Val(n, q) = Val(m, q) /\ Locked(n, q) = Locked(m, q)
         /\ n.pad = m.pad /\ n.stack = m.stack /\ n.mqtt = m.mqtt /\ n.by = m.by /\ n.stale = m.stale
         /\ n.refused = m.refused \ {o} /\ TraceInv(n)
<1> DEFINE yes == TRUE
           e == [value |-> v, locked |-> yes]
           eps == [m.ep EXCEPT ![o] = e]
           r == m.refused \ {o}
           m0 == [m EXCEPT !.ep = eps]
           m1 == [m0 EXCEPT !.refused = r]
           tr == [m1.trace EXCEPT ![o] = hk_trace_push(@, v)]
           lg == [m1.log EXCEPT ![o] = Remember(@, v)]
           m2 == [m1 EXCEPT !.trace = tr]
           m3 == [m2 EXCEPT !.log = lg]
<1>1. m.ep \in [Objects -> Endpoint] /\ m.refused \in SUBSET Objects
  BY MachineIs DEF Eps
<1>2. yes = TRUE /\ yes \in BOOLEAN
  OBVIOUS
<1>3. n = IF ~prog[o].chart \/ link.source[o] # None THEN m1 ELSE m3
  <2>1. m1 = [m EXCEPT !.ep[o] = [value |-> v, locked |-> TRUE], !.refused = @ \ {o}]
    BY Zenon
  <2> DEFINE k == [m EXCEPT !.ep[o] = [value |-> v, locked |-> TRUE], !.refused = @ \ {o}]
  <2>2. n = IF ~prog[o].chart \/ link.source[o] # None THEN k
            ELSE [k EXCEPT !.trace[o] = hk_trace_push(@, v), !.log[o] = Remember(@, v)]
    BY Zenon DEF Take
  <2> HIDE DEF k
  <2>3. m1 = k
    BY <2>1 DEF k
  <2> HIDE DEF m1
  <2>4. m3 = [m1 EXCEPT !.trace[o] = hk_trace_push(@, v), !.log[o] = Remember(@, v)]
    BY Zenon
  <2> HIDE DEF m3
  <2>5. QED BY <2>2, <2>3, <2>4
<1> HIDE DEF yes
<1>4. e \in Endpoint /\ e.value = v /\ e.locked = yes
  BY <1>2 DEF Endpoint
<1> HIDE DEF e
<1>5. eps \in Eps /\ eps[o] = e /\ \A q \in Objects : q # o => eps[q] = m.ep[q]
  BY <1>1, <1>4 DEF Eps
<1> HIDE DEF eps
<1>6. /\ m0 \in Machine /\ m0.ep = eps /\ m0.pad = m.pad /\ m0.trace = m.trace /\ m0.stack = m.stack /\ m0.mqtt = m.mqtt
      /\ m0.log = m.log /\ m0.by = m.by /\ m0.refused = m.refused /\ m0.stale = m.stale
  BY <1>5, Set_ep
<1> HIDE DEF m0
<1>7. r \in SUBSET Objects
  BY <1>1
<1>8. /\ m1 \in Machine /\ m1.refused = r /\ m1.ep = eps /\ m1.pad = m.pad /\ m1.trace = m.trace /\ m1.stack = m.stack
      /\ m1.mqtt = m.mqtt /\ m1.log = m.log /\ m1.by = m.by /\ m1.stale = m.stale
  BY <1>6, <1>7, Set_refused
<1> HIDE DEF m1
<1>9. TraceInv(m1)
  <2>1. m1.trace = m.trace /\ m1.log = m.log
    BY <1>8
  <2>2. QED BY <2>1 DEF TraceInv
<1> DEFINE Done(x) == /\ x \in Machine /\ x.ep = eps /\ x.refused = r /\ x.pad = m.pad /\ x.stack = m.stack
                      /\ x.mqtt = m.mqtt /\ x.by = m.by /\ x.stale = m.stale /\ TraceInv(x)
<1>10. Done(m1)
  BY <1>8, <1>9
<1>11. Done(m3)
  <2>1. \A x : x.trace = tr /\ x.log = lg => x.trace \in Traces /\ x.log \in Logs /\ TraceInv(x)
    BY <1>8, <1>9, TraceKeeps
  <2>2. tr \in Traces /\ lg \in Logs
    <3> DEFINE x == [trace |-> tr, log |-> lg]
    <3>1. x.trace = tr /\ x.log = lg
      OBVIOUS
    <3> HIDE DEF x, tr, lg
    <3>2. QED BY <2>1, <3>1
  <2> HIDE DEF tr, lg
  <2>3. /\ m2 \in Machine /\ m2.trace = tr /\ m2.ep = m1.ep /\ m2.pad = m1.pad /\ m2.stack = m1.stack
        /\ m2.mqtt = m1.mqtt /\ m2.log = m1.log /\ m2.by = m1.by /\ m2.refused = m1.refused /\ m2.stale = m1.stale
    BY <1>8, <2>2, Set_trace
  <2> HIDE DEF m2
  <2>4. /\ m3 \in Machine /\ m3.log = lg /\ m3.trace = m2.trace /\ m3.ep = m2.ep /\ m3.pad = m2.pad /\ m3.stack = m2.stack
        /\ m3.mqtt = m2.mqtt /\ m3.by = m2.by /\ m3.refused = m2.refused /\ m3.stale = m2.stale
    BY <2>2, <2>3, Set_log
  <2> HIDE DEF m3
  <2>5. TraceInv(m3)
    BY <2>1, <2>3, <2>4
  <2>6. QED BY <1>8, <2>3, <2>4, <2>5
<1> HIDE DEF m3
<1>12. Done(n)
  BY <1>3, <1>10, <1>11
<1>13. Val(n, o) = v /\ Locked(n, o) = TRUE /\ \A q \in Objects : q # o => Val(n, q) = Val(m, q) /\ Locked(n, q) = Locked(m, q)
  BY <1>2, <1>4, <1>5, <1>12 DEF Val, Locked
<1>14. QED BY <1>12, <1>13

LEMMA ShowIs ==
  ASSUME NEW m \in Machine, NEW o \in Objects, NEW v \in V, NEW n, n = WithShown(m, o, v)
  PROVE  /\ n \in Machine /\ Shown(n, o) = v /\ PadLock(n, o) = PadLock(m, o)
         /\ \A q \in Objects : q # o => Shown(n, q) = Shown(m, q) /\ PadLock(n, q) = PadLock(m, q)
         /\ n.ep = m.ep /\ n.trace = m.trace /\ n.stack = m.stack /\ n.mqtt = m.mqtt
         /\ n.log = m.log /\ n.by = m.by /\ n.refused = m.refused /\ n.stale = m.stale
<1> DEFINE e == [m.pad[o] EXCEPT !.value = v]
           pads == [m.pad EXCEPT ![o] = e]
<1>1. m.pad \in [Objects -> Pad]
  BY MachineIs DEF Pads
<1>2. n = [m EXCEPT !.pad = pads]
  BY Zenon DEF WithShown
<1>3. e \in Pad /\ e.value = v /\ e.lock = m.pad[o].lock
  BY <1>1 DEF Pad
<1> HIDE DEF e
<1>4. pads \in Pads /\ pads[o] = e /\ \A q \in Objects : q # o => pads[q] = m.pad[q]
  BY <1>1, <1>3 DEF Pads
<1> HIDE DEF pads
<1>5. /\ n \in Machine /\ n.pad = pads /\ n.ep = m.ep /\ n.trace = m.trace /\ n.stack = m.stack /\ n.mqtt = m.mqtt
      /\ n.log = m.log /\ n.by = m.by /\ n.refused = m.refused /\ n.stale = m.stale
  BY <1>2, <1>4, Set_pad
<1>6. QED BY <1>3, <1>4, <1>5 DEF Shown, PadLock

LEMMA PadLockIs ==
  ASSUME NEW m \in Machine, NEW o \in Objects, NEW b \in BOOLEAN, NEW n, n = WithPadLock(m, o, b)
  PROVE  /\ n \in Machine /\ Shown(n, o) = Shown(m, o) /\ (PadLock(n, o) <=> b)
         /\ \A q \in Objects : q # o => Shown(n, q) = Shown(m, q) /\ PadLock(n, q) = PadLock(m, q)
         /\ n.ep = m.ep /\ n.trace = m.trace /\ n.stack = m.stack /\ n.mqtt = m.mqtt
         /\ n.log = m.log /\ n.by = m.by /\ n.refused = m.refused /\ n.stale = m.stale
<1> DEFINE e == [m.pad[o] EXCEPT !.lock = b]
           pads == [m.pad EXCEPT ![o] = e]
<1>1. m.pad \in [Objects -> Pad]
  BY MachineIs DEF Pads
<1>2. n = [m EXCEPT !.pad = pads]
  BY Zenon DEF WithPadLock
<1>3. e \in Pad /\ e.lock = b /\ e.value = m.pad[o].value
  BY <1>1 DEF Pad
<1> HIDE DEF e
<1>4. pads \in Pads /\ pads[o] = e /\ \A q \in Objects : q # o => pads[q] = m.pad[q]
  BY <1>1, <1>3 DEF Pads
<1> HIDE DEF pads
<1>5. /\ n \in Machine /\ n.pad = pads /\ n.ep = m.ep /\ n.trace = m.trace /\ n.stack = m.stack /\ n.mqtt = m.mqtt
      /\ n.log = m.log /\ n.by = m.by /\ n.refused = m.refused /\ n.stale = m.stale
  BY <1>2, <1>4, Set_pad
<1>6. QED BY <1>3, <1>4, <1>5 DEF Shown, PadLock

LEMMA UnlockIs ==
  ASSUME NEW m \in Machine, NEW o \in Objects, NEW n, n = WithUnlocked(m, o)
  PROVE  /\ n \in Machine /\ Val(n, o) = Val(m, o) /\ ~Locked(n, o)
         /\ \A q \in Objects : q # o => Val(n, q) = Val(m, q) /\ Locked(n, q) = Locked(m, q)
         /\ n.pad = m.pad /\ n.trace = m.trace /\ n.stack = m.stack /\ n.mqtt = m.mqtt
         /\ n.log = m.log /\ n.by = m.by /\ n.refused = m.refused /\ n.stale = m.stale
<1> DEFINE no == FALSE
           e == [m.ep[o] EXCEPT !.locked = no]
           eps == [m.ep EXCEPT ![o] = e]
<1>1. m.ep \in [Objects -> Endpoint]
  BY MachineIs DEF Eps
<1>2. n = [m EXCEPT !.ep = eps]
  BY Zenon DEF WithUnlocked
<1>0. no \in BOOLEAN /\ no = FALSE
  OBVIOUS
<1> HIDE DEF no
<1>3. e \in Endpoint /\ e.locked = no /\ e.value = m.ep[o].value
  BY <1>0, <1>1 DEF Endpoint
<1> HIDE DEF e
<1>4. eps \in Eps /\ eps[o] = e /\ \A q \in Objects : q # o => eps[q] = m.ep[q]
  BY <1>1, <1>3 DEF Eps
<1> HIDE DEF eps
<1>5. /\ n \in Machine /\ n.ep = eps /\ n.pad = m.pad /\ n.trace = m.trace /\ n.stack = m.stack /\ n.mqtt = m.mqtt
      /\ n.log = m.log /\ n.by = m.by /\ n.refused = m.refused /\ n.stale = m.stale
  BY <1>2, <1>4, Set_ep
<1>6. QED BY <1>0, <1>3, <1>4, <1>5 DEF Val, Locked

LEMMA ByIs ==
  ASSUME NEW m \in Machine, NEW o \in Objects, NEW who \in Who, NEW n, n = WithBy(m, o, who)
  PROVE  /\ n \in Machine /\ n.by[o] = who /\ \A q \in Objects : q # o => n.by[q] = m.by[q]
         /\ n.ep = m.ep /\ n.pad = m.pad /\ n.trace = m.trace /\ n.stack = m.stack /\ n.mqtt = m.mqtt
         /\ n.log = m.log /\ n.refused = m.refused /\ n.stale = m.stale
<1> DEFINE w == [m.by EXCEPT ![o] = who]
<1>1. m.by \in [Objects -> Who]
  BY MachineIs DEF Givers
<1>2. n = [m EXCEPT !.by = w]
  BY Zenon DEF WithBy
<1>3. w \in Givers /\ w[o] = who /\ \A q \in Objects : q # o => w[q] = m.by[q]
  BY <1>1 DEF Givers
<1> HIDE DEF w
<1>4. /\ n \in Machine /\ n.by = w /\ n.ep = m.ep /\ n.pad = m.pad /\ n.trace = m.trace /\ n.stack = m.stack /\ n.mqtt = m.mqtt
      /\ n.log = m.log /\ n.refused = m.refused /\ n.stale = m.stale
  BY <1>2, <1>3, Set_by
<1>5. QED BY <1>3, <1>4

LEMMA ClearIs ==
  ASSUME NEW m \in Machine, NEW o \in Objects, NEW n, n = WithCurrent(m, o)
  PROVE  /\ n \in Machine /\ n.stale = m.stale \ {o}
         /\ n.ep = m.ep /\ n.pad = m.pad /\ n.trace = m.trace /\ n.stack = m.stack /\ n.mqtt = m.mqtt
         /\ n.log = m.log /\ n.by = m.by /\ n.refused = m.refused
<1> DEFINE r == m.stale \ {o}
<1>1. r \in SUBSET Objects
  BY MachineIs
<1>2. n = [m EXCEPT !.stale = r]
  BY DEF WithCurrent
<1> HIDE DEF r
<1>3. /\ n \in Machine /\ n.stale = r /\ n.ep = m.ep /\ n.pad = m.pad /\ n.trace = m.trace /\ n.stack = m.stack /\ n.mqtt = m.mqtt
      /\ n.log = m.log /\ n.by = m.by /\ n.refused = m.refused
  BY <1>1, <1>2, Set_stale
<1>4. QED BY <1>3 DEF r

\* hk_sink_update and hk_pad_update_input: an update that no lock refuses
LEMMA SinkUpdateIs ==
  ASSUME NEW m \in Machine, TraceInv(m), NEW o \in Objects, NEW v \in V, NEW who \in Who, ~Locked(m, o),
         NEW n, n = hk_sink_update(m, o, v, who)
  PROVE  n \in Machine /\ SinkTakes(n, m, o, v, who) /\ TraceInv(n)
<1> DEFINE m1 == Take(m, o, v)
           m2 == WithBy(m1, o, who)
           m3 == WithShown(m2, o, v)
<1>1. n = Push(m3, "sink", o)
  BY DEF hk_sink_update, Locked, PadUpdate, WithBy, WithShown
<1>2. /\ m1 \in Machine /\ Val(m1, o) = v /\ Locked(m1, o) = TRUE
      /\ \A q \in Objects : q # o => Val(m1, q) = Val(m, q) /\ Locked(m1, q) = Locked(m, q)
      /\ m1.pad = m.pad /\ m1.stack = m.stack /\ m1.mqtt = m.mqtt /\ m1.by = m.by /\ m1.stale = m.stale
      /\ m1.refused = m.refused \ {o} /\ TraceInv(m1)
  BY TakeIs
<1> HIDE DEF m1
<1>3. /\ m2 \in Machine /\ m2.by[o] = who /\ \A q \in Objects : q # o => m2.by[q] = m1.by[q]
      /\ m2.ep = m1.ep /\ m2.pad = m1.pad /\ m2.trace = m1.trace /\ m2.stack = m1.stack /\ m2.mqtt = m1.mqtt
      /\ m2.log = m1.log /\ m2.refused = m1.refused /\ m2.stale = m1.stale
  BY <1>2, ByIs
<1> HIDE DEF m2
<1>4. /\ m3 \in Machine /\ Shown(m3, o) = v /\ PadLock(m3, o) = PadLock(m2, o)
      /\ \A q \in Objects : q # o => Shown(m3, q) = Shown(m2, q) /\ PadLock(m3, q) = PadLock(m2, q)
      /\ m3.ep = m2.ep /\ m3.trace = m2.trace /\ m3.stack = m2.stack /\ m3.mqtt = m2.mqtt
      /\ m3.log = m2.log /\ m3.by = m2.by /\ m3.refused = m2.refused /\ m3.stale = m2.stale
  BY <1>3, ShowIs
<1> HIDE DEF m3
<1>5. n \in Machine /\ Rest(n, m3) /\ Above(n, m3) /\ Op(n, 1) = "sink" /\ Obj(n, 1) = o /\ Nxt(n, 1) = 1
  BY <1>1, <1>4, PushCall
<1>6. Above(n, m)
  <2>1. m3.stack = m.stack
    BY <1>2, <1>3, <1>4
  <2>2. QED BY <1>5, <2>1 DEF Above, Calls, Op, Obj, Nxt
<1>7. /\ \A q \in Objects : /\ Val(n, q) = Val(m1, q) /\ Locked(n, q) = Locked(m1, q) /\ n.by[q] = m2.by[q]
                            /\ Shown(n, q) = Shown(m3, q) /\ PadLock(n, q) = PadLock(m3, q)
                            /\ Shown(m2, q) = Shown(m, q) /\ PadLock(m2, q) = PadLock(m, q)
      /\ TraceInv(n)
  BY <1>2, <1>3, <1>4, <1>5 DEF Rest, Val, Locked, Shown, PadLock, TraceInv
<1>8. /\ n.refused = m.refused \ {o} /\ n.mqtt = m.mqtt /\ n.stale = m.stale
  BY <1>2, <1>3, <1>4, <1>5 DEF Rest
<1>9. Locked(n, o)
  BY <1>2, <1>7
<1>10. Enters(n, m, "sink", o)
  BY <1>2, <1>3, <1>4, <1>5, <1>6, <1>7, <1>8 DEF Enters
<1>11. QED BY <1>2, <1>3, <1>4, <1>5, <1>7, <1>9, <1>10 DEF SinkTakes

LEMMA UpdateInputIs ==
  ASSUME NEW m \in Machine, TraceInv(m), NEW o \in Objects, NEW v \in V, ~Locked(m, o), ~PadLock(m, o), Through(o, v) \in V,
         NEW n, n = UpdateInput(m, o, v)
  PROVE  n \in Machine /\ SourceTakes(n, m, o, Through(o, v)) /\ TraceInv(n)
<1> DEFINE u == Through(o, v)
           m1 == Take(m, o, u)
           m2 == WithPadLock(m1, o, TRUE)
<1>1. n = Push(m2, "source", o)
  BY DEF UpdateInput, Locked, PadLock, WithPadLock
<1> HIDE DEF u
<1>2. /\ m1 \in Machine /\ Val(m1, o) = u /\ Locked(m1, o) = TRUE
      /\ \A q \in Objects : q # o => Val(m1, q) = Val(m, q) /\ Locked(m1, q) = Locked(m, q)
      /\ m1.pad = m.pad /\ m1.stack = m.stack /\ m1.mqtt = m.mqtt /\ m1.by = m.by /\ m1.stale = m.stale
      /\ m1.refused = m.refused \ {o} /\ TraceInv(m1)
  <2>1. u \in V
    BY DEF u
  <2>2. QED BY <2>1, TakeIs
<1> HIDE DEF m1
<1>3. /\ m2 \in Machine /\ Shown(m2, o) = Shown(m1, o) /\ PadLock(m2, o)
      /\ \A q \in Objects : q # o => Shown(m2, q) = Shown(m1, q) /\ PadLock(m2, q) = PadLock(m1, q)
      /\ m2.ep = m1.ep /\ m2.trace = m1.trace /\ m2.stack = m1.stack /\ m2.mqtt = m1.mqtt
      /\ m2.log = m1.log /\ m2.by = m1.by /\ m2.refused = m1.refused /\ m2.stale = m1.stale
  <2>1. \A b \in BOOLEAN : LET k == WithPadLock(m1, o, b) IN
          /\ k \in Machine /\ Shown(k, o) = Shown(m1, o) /\ (PadLock(k, o) <=> b)
          /\ \A q \in Objects : q # o => Shown(k, q) = Shown(m1, q) /\ PadLock(k, q) = PadLock(m1, q)
          /\ k.ep = m1.ep /\ k.trace = m1.trace /\ k.stack = m1.stack /\ k.mqtt = m1.mqtt
          /\ k.log = m1.log /\ k.by = m1.by /\ k.refused = m1.refused /\ k.stale = m1.stale
    BY <1>2, PadLockIs
  <2>2. QED BY <2>1
<1> HIDE DEF m2
<1>4. n \in Machine /\ Rest(n, m2) /\ Above(n, m2) /\ Op(n, 1) = "source" /\ Obj(n, 1) = o /\ Nxt(n, 1) = 1
  BY <1>1, <1>3, PushCall
<1>5. Above(n, m)
  <2>1. m2.stack = m.stack
    BY <1>2, <1>3
  <2>2. QED BY <1>4, <2>1 DEF Above, Calls, Op, Obj, Nxt
<1>6. /\ \A q \in Objects : /\ Val(n, q) = Val(m1, q) /\ Locked(n, q) = Locked(m1, q) /\ n.by[q] = m.by[q]
                            /\ Shown(n, q) = Shown(m2, q) /\ PadLock(n, q) = PadLock(m2, q)
                            /\ Shown(m1, q) = Shown(m, q) /\ PadLock(m1, q) = PadLock(m, q)
      /\ TraceInv(n)
  BY <1>2, <1>3, <1>4 DEF Rest, Val, Locked, Shown, PadLock, TraceInv
<1>7. /\ n.refused = m.refused \ {o} /\ n.mqtt = m.mqtt /\ n.stale = m.stale
  BY <1>2, <1>3, <1>4 DEF Rest
<1>8. Locked(n, o) /\ PadLock(n, o)
  BY <1>2, <1>3, <1>6
<1>9. Enters(n, m, "source", o)
  BY <1>2, <1>3, <1>4, <1>5, <1>6, <1>7 DEF Enters
<1>10. SourceTakes(n, m, o, u)
  BY <1>2, <1>3, <1>4, <1>6, <1>8, <1>9 DEF SourceTakes
<1>11. QED BY <1>4, <1>6, <1>10 DEF u

LEMMA PresetIs ==
  ASSUME NEW m \in Machine, TraceInv(m), NEW o \in Objects, NEW v \in V, NEW n, n = PadUpdate(m, "preset", o, v)
  PROVE  n \in Machine /\ Presets(n, m, o, v) /\ TraceInv(n)
<1> DEFINE m1 == WithShown(m, o, v)
<1>1. n = Push(m1, "preset", o)
  BY DEF PadUpdate, WithShown
<1>2. /\ m1 \in Machine /\ Shown(m1, o) = v /\ PadLock(m1, o) = PadLock(m, o)
      /\ \A q \in Objects : q # o => Shown(m1, q) = Shown(m, q) /\ PadLock(m1, q) = PadLock(m, q)
      /\ m1.ep = m.ep /\ m1.trace = m.trace /\ m1.stack = m.stack /\ m1.mqtt = m.mqtt
      /\ m1.log = m.log /\ m1.by = m.by /\ m1.refused = m.refused /\ m1.stale = m.stale
  BY ShowIs
<1> HIDE DEF m1
<1>3. n \in Machine /\ Rest(n, m1) /\ Above(n, m1) /\ Op(n, 1) = "preset" /\ Obj(n, 1) = o /\ Nxt(n, 1) = 1
  BY <1>1, <1>2, PushCall
<1>4. Above(n, m)
  BY <1>2, <1>3 DEF Above, Calls, Op, Obj, Nxt
<1>5. /\ \A q \in Objects : /\ Val(n, q) = Val(m, q) /\ Locked(n, q) = Locked(m, q) /\ n.by[q] = m.by[q]
                            /\ Shown(n, q) = Shown(m1, q) /\ PadLock(n, q) = PadLock(m1, q)
      /\ TraceInv(n) /\ n.refused = m.refused /\ n.mqtt = m.mqtt /\ n.stale = m.stale
  BY <1>2, <1>3 DEF Rest, Val, Locked, Shown, PadLock, TraceInv
<1>6. Enters(n, m, "preset", o)
  BY <1>2, <1>3, <1>4, <1>5 DEF Enters
<1>7. QED BY <1>2, <1>3, <1>5, <1>6 DEF Presets

\* The ends of the calls
LEMMA SinkEnds ==
  ASSUME NEW m \in Machine, TraceInv(m), m.stack # <<>>, Op(m, 1) = "sink", NEW o \in Objects, o = Obj(m, 1),
         NEW n, n = WithUnlocked(Drop(m), o)
  PROVE  n \in Machine /\ Leaves(n, m) /\ TraceInv(n) /\ n.mqtt = m.mqtt /\ n.stale = m.stale
<1> DEFINE m1 == Drop(m)
<1>1. m1 \in Machine /\ Rest(m1, m) /\ Above(m, m1)
  BY DropCall
<1> HIDE DEF m1
<1>2. /\ n \in Machine /\ Val(n, o) = Val(m1, o) /\ ~Locked(n, o)
      /\ \A q \in Objects : q # o => Val(n, q) = Val(m1, q) /\ Locked(n, q) = Locked(m1, q)
      /\ n.pad = m1.pad /\ n.trace = m1.trace /\ n.stack = m1.stack /\ n.mqtt = m1.mqtt
      /\ n.log = m1.log /\ n.by = m1.by /\ n.refused = m1.refused /\ n.stale = m1.stale
  <2>1. n = WithUnlocked(m1, o)
    BY DEF m1
  <2>2. QED BY <1>1, <2>1, UnlockIs
<1>3. Above(m, n)
  BY <1>1, <1>2 DEF Above, Calls, Op, Obj, Nxt
<1>4. /\ \A q \in Objects : /\ Val(n, q) = Val(m, q) /\ n.by[q] = m.by[q] /\ Shown(n, q) = Shown(m, q)
                            /\ PadLock(n, q) = PadLock(m, q) /\ (q # o => Locked(n, q) = Locked(m, q))
      /\ TraceInv(n)
  <2>1. \A q : Val(m1, q) = Val(m, q) /\ Locked(m1, q) = Locked(m, q) /\ Shown(m1, q) = Shown(m, q) /\ PadLock(m1, q) = PadLock(m, q)
               /\ m1.by[q] = m.by[q]
    BY <1>1, RestIs
  <2>2. \A q : Shown(n, q) = Shown(m1, q) /\ PadLock(n, q) = PadLock(m1, q)
    BY <1>2 DEF Shown, PadLock
  <2>3. TraceInv(n)
    BY <1>1, <1>2 DEF Rest, TraceInv
  <2>4. QED BY <1>2, <2>1, <2>2, <2>3
<1>5. n.mqtt = m.mqtt /\ n.stale = m.stale /\ n.refused = m.refused
  BY <1>1, <1>2 DEF Rest
<1>6. QED BY <1>2, <1>3, <1>4, <1>5 DEF Leaves

LEMMA PresetEnds ==
  ASSUME NEW m \in Machine, TraceInv(m), m.stack # <<>>, Op(m, 1) = "preset", NEW n, n = Drop(m)
  PROVE  n \in Machine /\ Leaves(n, m) /\ TraceInv(n) /\ n.mqtt = m.mqtt /\ n.stale = m.stale
<1>1. n \in Machine /\ Rest(n, m) /\ Above(m, n)
  BY DropCall
<1>2. QED BY <1>1, RestIs DEF Leaves

LEMMA SourceEnds ==
  ASSUME NEW m \in Machine, TraceInv(m), LoadInv, m.stack # <<>>, Op(m, 1) = "source", NEW o \in Objects, o = Obj(m, 1), NEW n,
         n = Publish(WithPadLock(WithUnlocked(Drop(m), o), o, FALSE), o)
  PROVE  /\ n \in Machine /\ Leaves(n, m) /\ TraceInv(n)
         /\ IF prog[o].local THEN n.mqtt = m.mqtt /\ n.stale = m.stale
            ELSE n.mqtt = mqtt_publish(m.mqtt, prog[o].name, Val(m, o)) /\ n.stale = m.stale \ {o}
<1> DEFINE m1 == Drop(m)
           m2 == WithUnlocked(m1, o)
           no == FALSE
           m3 == WithPadLock(m2, o, no)
           B == mqtt_publish(m3.mqtt, prog[o].name, m3.ep[o].value)
           m4 == [m3 EXCEPT !.mqtt = B]
           m5 == WithCurrent(m4, o)
<1>1. n = IF prog[o].local THEN m3 ELSE m5
  BY Zenon DEF Publish, WithCurrent
<1>0. no = FALSE /\ no \in BOOLEAN
  OBVIOUS
<1> HIDE DEF no
<1>2. m1 \in Machine /\ Rest(m1, m) /\ Above(m, m1)
  BY DropCall
<1> HIDE DEF m1
<1>3. /\ m2 \in Machine /\ Val(m2, o) = Val(m1, o) /\ ~Locked(m2, o)
      /\ \A q \in Objects : q # o => Val(m2, q) = Val(m1, q) /\ Locked(m2, q) = Locked(m1, q)
      /\ m2.pad = m1.pad /\ m2.trace = m1.trace /\ m2.stack = m1.stack /\ m2.mqtt = m1.mqtt
      /\ m2.log = m1.log /\ m2.by = m1.by /\ m2.refused = m1.refused /\ m2.stale = m1.stale
  BY <1>2, UnlockIs
<1> HIDE DEF m2
<1>4. /\ m3 \in Machine /\ Shown(m3, o) = Shown(m2, o) /\ (PadLock(m3, o) <=> no)
      /\ \A q \in Objects : q # o => Shown(m3, q) = Shown(m2, q) /\ PadLock(m3, q) = PadLock(m2, q)
      /\ m3.ep = m2.ep /\ m3.trace = m2.trace /\ m3.stack = m2.stack /\ m3.mqtt = m2.mqtt
      /\ m3.log = m2.log /\ m3.by = m2.by /\ m3.refused = m2.refused /\ m3.stale = m2.stale
  BY <1>0, <1>3, PadLockIs
<1> HIDE DEF m3
<1>5. Above(m, m3)
  BY <1>2, <1>3, <1>4 DEF Above, Calls, Op, Obj, Nxt
<1>6. /\ \A q \in Objects : /\ Val(m3, q) = Val(m, q) /\ m3.by[q] = m.by[q] /\ Shown(m3, q) = Shown(m, q)
                            /\ q # o => Locked(m3, q) = Locked(m, q) /\ PadLock(m3, q) = PadLock(m, q)
      /\ ~Locked(m3, o) /\ ~PadLock(m3, o) /\ TraceInv(m3)
  <2>1. \A q : Val(m1, q) = Val(m, q) /\ Locked(m1, q) = Locked(m, q) /\ Shown(m1, q) = Shown(m, q) /\ PadLock(m1, q) = PadLock(m, q)
               /\ m1.by[q] = m.by[q]
    BY <1>2, RestIs
  <2>2. \A q : Shown(m2, q) = Shown(m1, q) /\ PadLock(m2, q) = PadLock(m1, q)
    BY <1>3 DEF Shown, PadLock
  <2>3. \A q : Val(m3, q) = Val(m2, q) /\ Locked(m3, q) = Locked(m2, q) /\ m3.by[q] = m1.by[q]
    BY <1>3, <1>4 DEF Val, Locked
  <2>4. TraceInv(m3)
    BY <1>2, <1>3, <1>4 DEF Rest, TraceInv
  <2>5. QED BY <1>0, <1>3, <1>4, <2>1, <2>2, <2>3, <2>4
<1>7. m3.mqtt = m.mqtt /\ m3.stale = m.stale /\ m3.refused = m.refused
  BY <1>2, <1>3, <1>4 DEF Rest
<1>8. Leaves(m3, m)
  BY <1>5, <1>6, <1>7 DEF Leaves
<1>9. CASE prog[o].local
  BY <1>1, <1>4, <1>6, <1>7, <1>8, <1>9
<1>10. CASE ~prog[o].local
  <2>1. B \in Broker
    <3>1. m3.mqtt \in Broker /\ prog[o].name \in Names /\ m3.ep[o].value \in V
      BY <1>4, ProgramIs, MachineIs DEF Eps, Endpoint
    <3>2. QED BY <3>1, PublishIs
  <2>2. B = mqtt_publish(m.mqtt, prog[o].name, Val(m, o))
    BY <1>6, <1>7 DEF Val
  <2> HIDE DEF B
  <2>3. /\ m4 \in Machine /\ m4.mqtt = B /\ m4.ep = m3.ep /\ m4.pad = m3.pad /\ m4.trace = m3.trace /\ m4.stack = m3.stack
        /\ m4.log = m3.log /\ m4.by = m3.by /\ m4.refused = m3.refused /\ m4.stale = m3.stale
    BY <1>4, <2>1, Set_mqtt
  <2> HIDE DEF m4
  <2>4. /\ m5 \in Machine /\ m5.stale = m4.stale \ {o}
        /\ m5.ep = m4.ep /\ m5.pad = m4.pad /\ m5.trace = m4.trace /\ m5.stack = m4.stack /\ m5.mqtt = m4.mqtt
        /\ m5.log = m4.log /\ m5.by = m4.by /\ m5.refused = m4.refused
    BY <2>3, ClearIs
  <2> HIDE DEF m5
  <2>5. Leaves(m5, m)
    <3>1. \A q : /\ Val(m5, q) = Val(m3, q) /\ Locked(m5, q) = Locked(m3, q) /\ Shown(m5, q) = Shown(m3, q)
                 /\ PadLock(m5, q) = PadLock(m3, q) /\ m5.by[q] = m3.by[q]
      BY <2>3, <2>4 DEF Val, Locked, Shown, PadLock
    <3>2. m5.stack = m3.stack /\ m5.refused = m3.refused
      BY <2>3, <2>4
    <3>3. Above(m, m5)
      BY <1>5, <3>2 DEF Above, Calls, Op, Obj, Nxt
    <3>4. QED BY <1>6, <1>7, <3>1, <3>2, <3>3 DEF Leaves
  <2>6. TraceInv(m5)
    <3>1. m5.trace = m3.trace /\ m5.log = m3.log
      BY <2>3, <2>4
    <3>2. QED BY <1>6, <3>1 DEF TraceInv
  <2>7. n = m5
    BY <1>1, <1>10
  <2>8. n.mqtt = B /\ n.stale = m.stale \ {o}
    BY <1>7, <2>3, <2>4, <2>7
  <2>9. QED BY <1>10, <2>2, <2>4, <2>5, <2>6, <2>7, <2>8
<1>11. QED BY <1>9, <1>10
-----------------------------------------------------------------------------
(* The invariant, call by call                                             *)

\* The invariant, but for the sinks not in S and the sources not in C
Nearly(m, S, C) == /\ Chain(m) /\ CutInv(m) /\ AgreeInv(m, S) /\ WireInv(m, C) /\ LoadedInv(m)
                   /\ TraceInv(m) /\ BrokerInv(m)
Tables == LoadInv /\ LinkInv /\ NoDuplicate(prog, full)

LEMMA SinkUpdateKeeps ==
  ASSUME Tables, NEW m \in Machine, NEW o \in Objects, prog[o].kind = "sink", NEW v \in V, NEW who \in Who, ~Locked(m, o),
         Nearly(m, IF who = "source" THEN Objects \ {o} ELSE Objects, Of("source")),
         Len(m.stack) = 0 \/ Driver(o) = Obj(m, 1), at.phase # "run" => v # Unset,
         who = "source" => link.source[o] \in Objects /\ Len(m.stack) # 0 /\ v = Val(m, link.source[o]),
         NEW n, n = hk_sink_update(m, o, v, who)
  PROVE  n \in Machine /\ Good(n) /\ SinkTakes(n, m, o, v, who)
<1>1. n \in Machine /\ SinkTakes(n, m, o, v, who) /\ TraceInv(n)
  BY SinkUpdateIs DEF Nearly
<1>2. Enters(n, m, "sink", o) /\ Locked(n, o) /\ PadLock(n, o) = PadLock(m, o) /\ Shown(n, o) = v /\ Val(n, o) = v
  BY <1>1 DEF SinkTakes
<1>3. Chain(n)
  BY <1>2, ChainEnters DEF Nearly
<1>4. CutInv(n)
  BY <1>2 DEF Nearly, CutInv, Enters
<1>5. AgreeInv(n, Objects)
  BY <1>1, AgreeSinkTakes DEF Nearly, Tables
<1>6. WireInv(n, Of("source"))
  BY <1>1, WireSinkTakes DEF Nearly, Tables
<1>7. LoadedInv(n)
  BY <1>1, <1>2, LoadedEnters DEF Nearly, Enters, Given
<1>8. BrokerInv(n)
  BY <1>1, <1>2, BrokerEnters DEF Nearly
<1>9. QED BY <1>1, <1>3, <1>4, <1>5, <1>6, <1>7, <1>8 DEF Good

LEMMA UpdateInputKeeps ==
  ASSUME Tables, NEW m \in Machine, NEW o \in Of("source"), NEW v \in V, ~Locked(m, o), v = Shown(m, prog[o].from),
         Nearly(m, Objects, Of("source") \ {o}),
         Len(m.stack) # 0, Obj(m, 1) = prog[o].from, at.phase # "run" => v # Unset,
         NEW n, n = UpdateInput(m, o, v)
  PROVE  n \in Machine /\ Good(n)
<1>1. /\ o \in Objects /\ prog[o].kind = "source" /\ Driver(o) = Obj(m, 1) /\ Through(o, v) \in V
      /\ at.phase # "run" => Through(o, v) # Unset
  BY DEF Of, Driver, Through, V, Unset
<1>2. ~PadLock(m, o)
  BY <1>1 DEF Nearly, Chain
<1>3. n \in Machine /\ SourceTakes(n, m, o, Through(o, v)) /\ TraceInv(n)
  BY <1>1, <1>2, UpdateInputIs DEF Nearly
<1>4. /\ Enters(n, m, "source", o) /\ Locked(n, o) /\ PadLock(n, o) /\ Shown(n, o) = Shown(m, o)
      /\ Val(n, o) = Through(o, v) /\ n.by[o] = m.by[o]
  BY <1>3 DEF SourceTakes
<1>5. Chain(n)
  BY <1>1, <1>4, ChainEnters DEF Nearly
<1>6. CutInv(n)
  BY <1>4 DEF Nearly, CutInv, Enters
<1>7. AgreeInv(n, Objects)
  BY <1>1, <1>3, AgreeSourceTakes DEF Nearly, Tables
<1>8. WireInv(n, Of("source"))
  BY <1>3, WireSourceTakes DEF Nearly, Tables
<1>9. LoadedInv(n)
  BY <1>1, <1>3, <1>4, LoadedEnters DEF Nearly, Enters, Given
<1>10. BrokerInv(n)
  BY <1>1, <1>3, <1>4, BrokerEnters DEF Nearly
<1>11. QED BY <1>3, <1>5, <1>6, <1>7, <1>8, <1>9, <1>10 DEF Good

LEMMA PresetKeeps ==
  ASSUME Tables, NEW m \in Machine, NEW o \in Objects, prog[o].kind = "sink", NEW v \in V, v # Unset, Good(m),
         Len(m.stack) = 0, ~Started(o), NEW n, n = PadUpdate(m, "preset", o, v)
  PROVE  n \in Machine /\ Good(n)
<1>1. n \in Machine /\ Presets(n, m, o, v) /\ TraceInv(n)
  BY PresetIs DEF Good
<1>2. /\ Enters(n, m, "preset", o) /\ Locked(n, o) = Locked(m, o) /\ PadLock(n, o) = PadLock(m, o)
      /\ Shown(n, o) = v /\ Val(n, o) = Val(m, o) /\ n.by[o] = m.by[o]
  BY <1>1 DEF Presets
<1>3. Chain(n)
  BY <1>2, ChainEnters DEF Good
<1>4. CutInv(n)
  BY <1>2 DEF Good, CutInv, Enters
<1>5. AgreeInv(n, Objects)
  BY <1>1, AgreePresets DEF Good, Tables
<1>6. WireInv(n, Of("source"))
  BY <1>1, WirePresets DEF Good, Tables
<1>7. LoadedInv(n)
  BY <1>1, <1>2, LoadedEnters DEF Good, Enters, Given
<1>8. BrokerInv(n)
  BY <1>1, <1>2, BrokerEnters DEF Good
<1>9. QED BY <1>1, <1>3, <1>4, <1>5, <1>6, <1>7, <1>8 DEF Good

LEMMA RefuseKeeps ==
  ASSUME Tables, NEW m \in Machine, NEW o \in Objects, prog[o].kind \in {"sink", "source"}, Locked(m, o), Len(m.stack) # 0, Driver(o) = Obj(m, 1),
         IF prog[o].kind = "sink" THEN Nearly(m, Objects \ {o}, Of("source")) ELSE Nearly(m, Objects, Of("source") \ {o}),
         NEW n, n = WithRefused(m, o)
  PROVE  n \in Machine /\ Good(n)
<1>1. n \in Machine /\ Refuses(n, m, o) /\ TraceInv(n)
  BY RefuseIs DEF Nearly
<1>2. /\ \A q \in Objects : n.by[q] = m.by[q] /\ Val(n, q) = Val(m, q) /\ Shown(n, q) = Shown(m, q)
      /\ Calls(n) = Calls(m) /\ (\A k \in Calls(m) : Op(n, k) = Op(m, k) /\ Obj(n, k) = Obj(m, k))
      /\ n.mqtt = m.mqtt /\ n.stale = m.stale
  BY <1>1 DEF Refuses, SameButStack, Calls, Op, Obj
<1>3. Chain(n)
  BY <1>1, ChainRefuses DEF Nearly
<1>4. CutInv(n)
  BY <1>1, CutRefuses DEF Nearly
<1>5. AgreeInv(n, Objects)
  BY <1>1, AgreeRefuses DEF Nearly, Tables
<1>6. WireInv(n, Of("source"))
  BY <1>1, WireRefuses DEF Nearly, Tables
<1>7. LoadedInv(n)
  BY <1>1, <1>2, LoadedSame DEF Nearly
<1>8. BrokerInv(n)
  BY <1>1, <1>2, BrokerSame DEF Nearly
<1>9. QED BY <1>1, <1>3, <1>4, <1>5, <1>6, <1>7, <1>8 DEF Good

LEMMA MoveKeeps ==
  ASSUME Tables, NEW m \in Machine, Good(m), m.stack # <<>>, NEW pos \in Nat \ {0}, NEW S \in SUBSET Objects, NEW C \in SUBSET Of("source"),
         IF Op(m, 1) = "source" THEN /\ Nxt(m, 1) \in DOMAIN link.sinks[Obj(m, 1)] /\ pos = Nxt(m, 1) + 1
                                     /\ S = Objects \ {link.sinks[Obj(m, 1)][Nxt(m, 1)]}
         ELSE S = Objects,
         Op(m, 1) = "sink" => \E q \in Wired(Obj(m, 1)) : /\ \A r \in Wired(Obj(m, 1)) : r >= Nxt(m, 1) => q <= r
                                                          /\ pos = q + 1 /\ C = Of("source") \ {q},
         NEW n, n = WithNext(m, pos)
  PROVE  n \in Machine /\ Nearly(n, S, C) /\ Moves(n, m, pos)
<1>1. n \in Machine /\ Rest(n, m) /\ Moves(n, m, pos) /\ Len(m.stack) # 0 /\ Len(m.stack) \in Nat
  <2>1. m.stack \in Seq(Call)
    BY MachineIs DEF Stacks
  <2>2. QED BY <2>1, MoveCall
<1>2. /\ \A q \in Objects : n.by[q] = m.by[q] /\ Val(n, q) = Val(m, q) /\ Shown(n, q) = Shown(m, q)
      /\ Calls(n) = Calls(m) /\ (\A k \in Calls(m) : Op(n, k) = Op(m, k) /\ Obj(n, k) = Obj(m, k))
      /\ n.mqtt = m.mqtt /\ n.stale = m.stale /\ n.refused = m.refused /\ TraceInv(n)
  <2>1. TraceInv(n)
    BY <1>1, RestIs DEF Good
  <2>2. QED BY <1>1, <2>1 DEF Moves, SameButStack, Calls, Op, Obj
<1>3. Chain(n)
  BY <1>1, ChainMoves DEF Good
<1>4. CutInv(n)
  BY <1>2 DEF Good, CutInv
<1>5. AgreeInv(n, S)
  BY <1>1, AgreeMoves DEF Good, Tables
<1>6. WireInv(n, C)
  BY <1>1, WireMoves DEF Good, Tables
<1>7. LoadedInv(n)
  BY <1>1, <1>2, LoadedSame DEF Good
<1>8. BrokerInv(n)
  BY <1>1, <1>2, BrokerSame DEF Good
<1>9. QED BY <1>1, <1>2, <1>3, <1>4, <1>5, <1>6, <1>7, <1>8 DEF Nearly

LEMMA LeaveKeeps ==
  ASSUME Tables, NEW m \in Machine, Good(m), m.stack # <<>>, NEW n \in Machine, Leaves(n, m), TraceInv(n),
         NEW o \in Objects, o = Obj(m, 1),
         Op(m, 1) = "source" => Nxt(m, 1) \notin DOMAIN link.sinks[o],
         Op(m, 1) = "sink" => \A q \in Wired(o) : ~(q >= Nxt(m, 1)),
         IF Op(m, 1) = "source" /\ ~prog[o].local
         THEN n.mqtt = mqtt_publish(m.mqtt, prog[o].name, Val(m, o)) /\ n.stale = m.stale \ {o}
         ELSE n.mqtt = m.mqtt /\ n.stale = m.stale
  PROVE  Good(n)
<1>1. Op(m, 1) = "source" <=> prog[o].kind = "source"
  <2>1. m.stack \in Seq(Call)
    BY MachineIs DEF Stacks
  <2>2. 1 \in Calls(m)
    BY <2>1 DEF Calls
  <2>3. QED BY <2>2 DEF Good, Chain
<1>3. Chain(n)
  BY ChainLeaves DEF Good
<1>4. CutInv(n)
  BY DEF Good, CutInv, Leaves
<1>5. AgreeInv(n, Objects)
  BY AgreeLeaves DEF Good, Tables
<1>6. WireInv(n, Of("source"))
  BY WireLeaves DEF Good, Tables
<1>7. LoadedInv(n)
  BY LoadedLeaves DEF Good
<1>8. BrokerInv(n)
  BY <1>1, BrokerLeaves DEF Good, Tables
<1>9. QED BY <1>3, <1>4, <1>5, <1>6, <1>7, <1>8 DEF Good

LEMMA MIs == /\ M.ep = ep /\ M.pad = pad /\ M.trace = trace /\ M.stack = stack /\ M.mqtt = mqtt
             /\ M.log = log /\ M.by = by /\ M.refused = refused /\ M.stale = stale
BY DEF M

LEMMA HeadIs == ASSUME M \in Machine, Good(M), stack # <<>>, NEW call, call = Head(stack)
                PROVE  /\ call.op = Op(M, 1) /\ call.obj = Obj(M, 1) /\ call.next = Nxt(M, 1)
                       /\ call.op \in {"sink", "source", "preset"} /\ call.obj \in Objects /\ call.next \in Nat \ {0}
                       /\ (call.op = "source" <=> prog[call.obj].kind = "source")
<1>1. stack \in Seq(Call) /\ M.stack = stack
  BY MachineIs, MIs DEF Stacks
<1>2. 1 \in Calls(M) /\ stack[1] = call
  BY <1>1 DEF Calls
<1>3. call.op = Op(M, 1) /\ call.obj = Obj(M, 1) /\ call.next = Nxt(M, 1)
  BY <1>1, <1>2 DEF Op, Obj, Nxt
<1>4. QED BY <1>2, <1>3, CallIs DEF Good, Chain

\* One turn of the loop of hk_source_update, or its end
LEMMA VisitSinksKeeps ==
  ASSUME Tables, M \in Machine, Good(M), stack # <<>>, NEW call, call = Head(stack), call.op = "source",
         NEW n, n = VisitSinks(call)
  PROVE  n \in Machine /\ Good(n)
<1> DEFINE o == call.obj
           sinks == link.sinks[o]
<1>1. /\ call.op = Op(M, 1) /\ o = Obj(M, 1) /\ call.next = Nxt(M, 1) /\ o \in Objects /\ call.next \in Nat \ {0}
      /\ prog[o].kind = "source" /\ M.stack = stack /\ M.ep = ep /\ ep[o].value = Val(M, o) /\ Val(M, o) \in V
  <2>1. ep[o].value = Val(M, o)
    BY MIs DEF Val
  <2>2. o \in Objects
    BY HeadIs
  <2>3. Val(M, o) \in V
    BY <2>2, MachineIs DEF Val, Eps, Endpoint
  <2>4. QED BY <2>1, <2>2, <2>3, HeadIs, MIs
<1>2. CASE call.next \in DOMAIN sinks
  <2> DEFINE s == sinks[call.next]
             pos == call.next + 1
             m == WithNext(M, pos)
             S == Objects \ {s}
  <2>1. s \in Objects /\ prog[s].kind = "sink" /\ link.source[s] = o /\ Driver(s) = o
    <3>1. s \in Objects
      BY <1>1, <1>2 DEF Tables, LinkInv, Links
    <3>2. prog[s].kind = "sink" /\ link.source[s] = o
      BY <1>1, <1>2 DEF Tables, LinkInv, Sound
    <3>3. QED BY <3>1, <3>2 DEF Driver
  <2>2. n = hk_sink_update(m, s, Val(M, o), "source")
    <3>1. [M EXCEPT !.stack[1].next = @ + 1] = WithNext(M, Nxt(M, 1) + 1)
      BY Zenon DEF WithNext, Nxt
    <3>2. n = hk_sink_update([M EXCEPT !.stack[1].next = @ + 1], s, Val(M, o), "source")
      BY <1>1, <1>2, Zenon DEF VisitSinks
    <3>3. QED BY <1>1, <3>1, <3>2, Zenon
  <2>3. m \in Machine /\ Nearly(m, S, Of("source")) /\ Moves(m, M, pos)
    <3>1. S \in SUBSET Objects /\ pos \in Nat \ {0} /\ Of("source") \in SUBSET Of("source")
      BY <1>1
    <3>2. QED BY <1>1, <1>2, <3>1, MoveKeeps
  <2> HIDE DEF m
  <2>4. Len(m.stack) # 0 /\ Obj(m, 1) = o /\ Val(m, o) = Val(M, o)
    <3>1. M.stack \in Seq(Call)
      BY MachineIs DEF Stacks
    <3>2. 1 \in Calls(M) /\ Len(M.stack) # 0
      BY <1>1, <3>1 DEF Calls
    <3>3. QED BY <1>1, <2>3, <3>2 DEF Moves, SameButStack
  <2>5. CASE Locked(m, s)
    <3>1. n = WithRefused(m, s)
      BY <2>2, <2>5 DEF hk_sink_update, Locked, WithRefused
    <3>2. QED BY <2>1, <2>3, <2>4, <2>5, <3>1, RefuseKeeps
  <2>6. CASE ~Locked(m, s)
    <3>1. at.phase # "run" => Val(M, o) # Unset
      <4>1. 1 \in Calls(M)
        BY <1>1, MachineIs DEF Calls, Stacks
      <4>2. QED BY <1>1, <4>1 DEF Good, LoadedInv
    <3> DEFINE v == Val(M, o)
               who == "source"
    <3>2. n = hk_sink_update(m, s, v, who) /\ who \in Who /\ who = "source" /\ v \in V /\ (at.phase # "run" => v # Unset)
          /\ link.source[s] \in Objects /\ v = Val(m, link.source[s])
      BY <1>1, <2>1, <2>2, <2>4, <3>1 DEF Who
    <3> HIDE DEF v, who
    <3>3. Nearly(m, IF who = "source" THEN Objects \ {s} ELSE Objects, Of("source"))
      BY <2>3, <3>2
    <3>4. Driver(s) = Obj(m, 1)
      BY <2>1, <2>4
    <3> HIDE DEF s
    <3>5. QED BY <2>1, <2>3, <2>4, <2>6, <3>2, <3>3, <3>4, SinkUpdateKeeps
  <2>7. QED BY <2>5, <2>6
<1>3. CASE call.next \notin DOMAIN sinks
  <2>1. n = Publish(WithPadLock(WithUnlocked(Drop(M), o), o, FALSE), o)
    <3>1. [Drop(M) EXCEPT !.ep[o].locked = FALSE, !.pad[o].lock = FALSE] = WithPadLock(WithUnlocked(Drop(M), o), o, FALSE)
      BY Zenon DEF WithPadLock, WithUnlocked
    <3>2. n = Publish([Drop(M) EXCEPT !.ep[o].locked = FALSE, !.pad[o].lock = FALSE], o)
      BY <1>3, Zenon DEF VisitSinks
    <3>3. QED BY <3>1, <3>2, Zenon
  <2>2. /\ n \in Machine /\ Leaves(n, M) /\ TraceInv(n)
        /\ IF prog[o].local THEN n.mqtt = M.mqtt /\ n.stale = M.stale
           ELSE n.mqtt = mqtt_publish(M.mqtt, prog[o].name, Val(M, o)) /\ n.stale = M.stale \ {o}
    <3>1. /\ M \in Machine /\ TraceInv(M) /\ LoadInv /\ M.stack # <<>> /\ Op(M, 1) = "source"
          /\ o \in Objects /\ o = Obj(M, 1)
      BY <1>1 DEF Good, Tables
    <3> HIDE DEF o
    <3>2. QED BY <2>1, <3>1, SourceEnds
  <2>3. QED BY <1>1, <1>3, <2>2, LeaveKeeps
<1>4. QED BY <1>2, <1>3

\* One turn of the loop of hk_pad_update_str, or its end
LEMMA VisitPadsKeeps ==
  ASSUME Tables, M \in Machine, Good(M), stack # <<>>, NEW call, call = Head(stack), call.op # "source",
         NEW n, n = VisitPads(call)
  PROVE  n \in Machine /\ Good(n)
<1> DEFINE o == call.obj
           left == {q \in Wired(o) : q >= call.next}
<1>1. /\ call.op = Op(M, 1) /\ o = Obj(M, 1) /\ call.next = Nxt(M, 1) /\ o \in Objects /\ call.next \in Nat \ {0}
      /\ call.op \in {"sink", "preset"} /\ M.stack = stack /\ M.pad = pad /\ pad[o].value = Shown(M, o) /\ Shown(M, o) \in V
  <2>1. pad[o].value = Shown(M, o)
    BY MIs DEF Shown
  <2>2. o \in Objects
    BY HeadIs
  <2>3. Shown(M, o) \in V
    BY <2>2, MachineIs DEF Shown, Pads, Pad
  <2>4. QED BY <2>1, <2>2, <2>3, HeadIs, MIs
<1>2. CASE left # {}
  <2> DEFINE q == SetMin(left)
             pos == q + 1
             m == WithNext(M, pos)
             C == Of("source") \ {q}
  <2>1. q \in left /\ \A r \in left : q <= r
    <3>1. left \in SUBSET Nat
      BY DEF Wired, Of, Tables, LoadInv
    <3>2. PICK i \in left : \A r \in left : i <= r
      BY <1>2, <3>1, LeastNat
    <3> HIDE DEF left
    <3>3. QED BY <3>2 DEF SetMin
  <2> HIDE DEF q
  <2>2. q \in Of("source") /\ q \in Objects /\ prog[q].from = o /\ q \in Nat \ {0} /\ Driver(q) = o /\ prog[q].kind = "source"
    BY <2>1 DEF Wired, Of, Driver, Tables, LoadInv
  <2>3. n = UpdateInput(m, q, Shown(M, o))
    BY <1>1, <1>2, Zenon DEF VisitPads, WithNext, q
  <2>4. m \in Machine /\ Nearly(m, Objects, C) /\ Moves(m, M, pos)
    <3>1. Objects \in SUBSET Objects /\ pos \in Nat \ {0} /\ C \in SUBSET Of("source")
      BY <2>2
    <3>2. q \in Wired(o) /\ \A r \in Wired(o) : r >= call.next => q <= r
      BY <2>1
    <3>3. QED BY <1>1, <3>1, <3>2, MoveKeeps
  <2> HIDE DEF m
  <2>5. Len(m.stack) # 0 /\ Obj(m, 1) = o /\ Shown(m, o) = Shown(M, o) /\ 1 \in Calls(M)
    <3>1. M.stack \in Seq(Call)
      BY MachineIs DEF Stacks
    <3>2. 1 \in Calls(M) /\ Len(M.stack) # 0
      BY <1>1, <3>1 DEF Calls
    <3>3. QED BY <1>1, <2>4, <3>2 DEF Moves, SameButStack
  <2>6. CASE Locked(m, q)
    <3>1. PadLock(m, q)
      BY <2>2, <2>4, <2>6 DEF Nearly, Chain
    <3>2. n = WithRefused(m, q)
      BY <2>3, <3>1 DEF UpdateInput, PadLock, WithRefused
    <3>3. prog[q].kind \in {"sink", "source"} /\ prog[q].kind # "sink"
      BY <2>2
    <3>4. QED BY <2>2, <2>4, <2>5, <2>6, <3>2, <3>3, RefuseKeeps
  <2>7. CASE ~Locked(m, q)
    <3> DEFINE v == Shown(M, o)
    <3>1. n = UpdateInput(m, q, v) /\ v \in V /\ v = Shown(m, prog[q].from) /\ (at.phase # "run" => v # Unset)
      BY <1>1, <2>2, <2>3, <2>5 DEF Good, LoadedInv
    <3> HIDE DEF v
    <3>2. QED BY <2>2, <2>4, <2>5, <2>7, <3>1, UpdateInputKeeps
  <2>8. QED BY <2>6, <2>7
<1>3. CASE left = {}
  <2>1. /\ n \in Machine /\ Leaves(n, M) /\ TraceInv(n) /\ n.mqtt = M.mqtt /\ n.stale = M.stale
    <3>1. CASE call.op = "sink"
      <4>1. n = WithUnlocked(Drop(M), o)
        BY <1>3, <3>1, Zenon DEF VisitPads, WithUnlocked
      <4>2. QED BY <1>1, <3>1, <4>1, SinkEnds DEF Good
    <3>2. CASE call.op = "preset"
      <4>1. n = Drop(M)
        BY <1>3, <3>2, Zenon DEF VisitPads
      <4>2. QED BY <1>1, <3>2, <4>1, PresetEnds DEF Good
    <3>3. QED BY <1>1, <3>1, <3>2
  <2>2. \A q \in Wired(o) : ~(q >= Nxt(M, 1))
    BY <1>1, <1>3
  <2>3. QED BY <1>1, <2>1, <2>2, LeaveKeeps
<1>4. QED BY <1>2, <1>3
-----------------------------------------------------------------------------
(* The invariant, action by action                                         *)

DeepInv == IInv /\ NoDuplicate(prog, full) /\ ThreadInv /\ M \in Machine /\ Good(M)

LEMMA BecomesIs == ASSUME NEW n \in Machine, Becomes(n) PROVE M' = n
<1>1. M' = [ep |-> n.ep, pad |-> n.pad, trace |-> n.trace, stack |-> n.stack, mqtt |-> n.mqtt,
            log |-> n.log, by |-> n.by, refused |-> n.refused, stale |-> n.stale]
  BY DEF M, Becomes
<1>2. n = [ep |-> n.ep, pad |-> n.pad, trace |-> n.trace, stack |-> n.stack, mqtt |-> n.mqtt,
           log |-> n.log, by |-> n.by, refused |-> n.refused, stale |-> n.stale]
  BY DEF Machine
<1>3. QED BY <1>1, <1>2

LEMMA MachineStays == ASSUME prog' = prog PROVE Machine' = Machine
<1>1. Objects' = Objects
  BY DEF Objects
<1>2. /\ Eps' = Eps /\ Pads' = Pads /\ Traces' = Traces /\ Stacks' = Stacks /\ Broker' = Broker
      /\ Logs' = Logs /\ Givers' = Givers
  BY <1>1 DEF Eps, Pads, Traces, Stacks, Call, Broker, Message, Logs, Givers, Endpoint, Pad, Ring
<1>3. QED BY <1>1, <1>2 DEF Machine

\* The parts of the invariant, of a machine that stays, when what they depend on stays
LEMMA SameChain == ASSUME NEW n, Chain(n), UNCHANGED <<prog, link>> PROVE Chain(n)'
BY DEF Chain, Calls, Op, Obj, Locked, PadLock, Shown, Driver, Objects
LEMMA SameCut == ASSUME NEW n, CutInv(n), UNCHANGED <<prog, link>> PROVE CutInv(n)'
BY DEF CutInv, OnLoop, Driver, Objects
LEMMA SameAgree == ASSUME NEW n, AgreeInv(n, Objects), UNCHANGED <<prog, link>> PROVE AgreeInv(n, Objects)'
BY DEF AgreeInv, Val, ToVisit, Calls, Op, Obj, Nxt, Objects
LEMMA SameWire == ASSUME NEW n, WireInv(n, Of("source")), UNCHANGED <<prog, at>> PROVE WireInv(n, Of("source"))'
BY DEF WireInv, Given, Shown, Val, Started, ToWire, Wire, Through, Calls, Op, Obj, Nxt, Of, Objects
LEMMA SameLoaded == ASSUME NEW n, LoadedInv(n), UNCHANGED <<prog, at>> PROVE LoadedInv(n)'
BY DEF LoadedInv, Given, Shown, Val, Calls, Op, Obj, Of, Objects
LEMMA SameTrace == ASSUME NEW n, TraceInv(n), prog' = prog PROVE TraceInv(n)'
BY DEF TraceInv, Objects
LEMMA SameBroker == ASSUME NEW n, BrokerInv(n), UNCHANGED <<prog, full, thread>> PROVE BrokerInv(n)'
BY DEF BrokerInv, ToPublish, Public, Of, Objects, Val, Calls, Op, Obj

LEMMA MachineMoves == ASSUME NEW n \in Machine, M' = n, prog' = prog, Good(n)' PROVE (M \in Machine /\ Good(M))'
<1>1. M' \in Machine'
  BY MachineStays
<1>2. Good(M)'
  OBVIOUS
<1>3. QED BY <1>1, <1>2

LEMMA TablesStay == ASSUME IInv, NoDuplicate(prog, full), UNCHANGED <<prog, full, link, at>> PROVE (IInv /\ NoDuplicate(prog, full))'
BY DEF IInv, LoadInv, LinkInv, Sound, Links, Positions, Objects, NoDuplicate

LEMMA ThreadStays == ASSUME ThreadInv, UNCHANGED <<prog, thread>> PROVE ThreadInv'
BY DEF ThreadInv, ThreadOK, Public, Of, Objects, V

\* While the engine runs, and nothing else moves
LEMMA GoodStays == ASSUME DeepInv, NEW n \in Machine, M' = n, Good(n), UNCHANGED <<prog, full, link, at, thread>> PROVE DeepInv'
<1>1. Good(n)'
  BY SameChain, SameCut, SameAgree, SameWire, SameLoaded, SameTrace, SameBroker DEF Good
<1>2. (M \in Machine /\ Good(M))'
  BY <1>1, MachineMoves
<1>3. QED BY <1>2, TablesStay, ThreadStays DEF DeepInv

\* What has been started
LEMMA AdvanceIs ==
  ASSUME LoadInv, at.phase # "run", Advance, prog' = prog, NEW o \in Objects, Started(o)'
  PROVE  Started(o) \/ (at.phase = "start" /\ o = at.obj)
<1> DEFINE T == TileOf(at.obj)
           t == prog[at.obj].tile
<1>1. /\ at.obj \in Objects /\ at.phase \in {"new", "setup", "start"} /\ Objects = 1..Len(prog) /\ Len(prog) \in Nat
      /\ at.obj \in T /\ T \in SUBSET Objects
  BY DEF LoadInv, Positions, TileOf
<1>2. \A q \in T : prog[q].tile = t
  BY DEF TileOf
<1>3. SetMin(T) \in T /\ \A q \in T : SetMin(T) <= q
  BY <1>1, FirstObject
<1>4. \A q \in Objects : q \in Nat /\ prog[q].tile \in Nat /\ (prog[q].tile = t => q \in T)
  BY <1>1, ProgramIs DEF TileOf
<1>5. \A p, q \in Objects : p <= q => prog[p].tile <= prog[q].tile
  BY ProgramIs
<1>6. at \in [phase : {"new", "setup", "start", "run"}, obj : Objects]
  BY DEF LoadInv, Positions
<1> HIDE DEF T, t
<1>7. CASE at.obj + 1 \in T
  <2>1. at'.phase = at.phase /\ at'.obj = at.obj + 1
    BY <1>6, <1>7 DEF Advance, T
  <2>2. CASE at.phase = "start"
    <3>1. o < at.obj + 1
      BY <2>1, <2>2 DEF Started
    <3>2. o \in Nat /\ at.obj \in Nat
      BY <1>1, <1>4
    <3>3. o < at.obj \/ o = at.obj
      BY <3>1, <3>2
    <3>4. QED BY <2>2, <3>3 DEF Started
  <2>3. CASE at.phase # "start"
    <3>1. prog[o].tile < prog[at.obj + 1].tile
      BY <1>1, <2>1, <2>3 DEF Started
    <3>2. prog[at.obj + 1].tile = t
      BY <1>2, <1>7
    <3>3. QED BY <1>1, <2>3, <3>1, <3>2 DEF Started, t
  <2>4. QED BY <2>2, <2>3
<1>8. CASE at.obj + 1 \notin T /\ at.phase = "new"
  <2>1. at' = [phase |-> "setup", obj |-> SetMin(T)]
    BY <1>8 DEF Advance, T
  <2>2. prog[o].tile < prog[SetMin(T)].tile
    BY <2>1 DEF Started
  <2>3. QED BY <1>2, <1>3, <1>8, <2>2 DEF Started, t
<1>9. CASE at.obj + 1 \notin T /\ at.phase = "setup"
  <2>1. at' = [phase |-> "start", obj |-> SetMin(T)]
    BY <1>9 DEF Advance, T
  <2>2. o < SetMin(T)
    BY <2>1 DEF Started
  <2>3. o \in Nat /\ SetMin(T) \in Objects /\ SetMin(T) \in Nat /\ prog[SetMin(T)].tile = t
    BY <1>1, <1>2, <1>3, <1>4
  <2>4. o \notin T
    <3>1. SUFFICES ASSUME o \in T PROVE FALSE
      OBVIOUS
    <3>2. SetMin(T) <= o
      BY <1>3, <3>1
    <3>3. QED BY <2>2, <2>3, <3>2
  <2>5. prog[o].tile <= t /\ prog[o].tile # t
    <3>1. o <= SetMin(T)
      BY <2>2, <2>3
    <3>2. QED BY <1>4, <1>5, <2>3, <2>4, <3>1
  <2>6. prog[o].tile < t
    <3>1. prog[o].tile \in Nat /\ t \in Nat
      BY <1>1, <1>4 DEF t
    <3>2. QED BY <2>5, <3>1
  <2>7. QED BY <1>9, <2>6 DEF Started, t
<1>10. CASE at.obj + 1 \notin T /\ at.phase = "start" /\ at.obj < Len(prog)
  <2>1. at' = [phase |-> "new", obj |-> at.obj + 1]
    BY <1>10 DEF Advance, T
  <2>2. prog[o].tile < prog[at.obj + 1].tile
    BY <2>1 DEF Started
  <2>3. at.obj + 1 \in Objects /\ o \in Nat /\ at.obj \in Nat
    BY <1>1, <1>10
  <2>4. ~(at.obj + 1 <= o)
    <3>1. SUFFICES ASSUME at.obj + 1 <= o PROVE FALSE
      OBVIOUS
    <3>2. prog[at.obj + 1].tile <= prog[o].tile
      BY <1>5, <2>3, <3>1
    <3>3. prog[o].tile \in Nat /\ prog[at.obj + 1].tile \in Nat
      BY <1>4, <2>3
    <3>4. QED BY <2>2, <3>2, <3>3
  <2>5. o < at.obj \/ o = at.obj
    BY <2>3, <2>4
  <2>6. QED BY <1>10, <2>5 DEF Started
<1>11. CASE at.phase = "start" /\ at.obj = Len(prog)
  <2>1. o < at.obj \/ o = at.obj
    BY <1>1, <1>11
  <2>2. QED BY <1>11, <2>1 DEF Started
<1>12. at.obj < Len(prog) \/ at.obj = Len(prog)
  BY <1>1
<1>13. QED BY <1>1, <1>7, <1>8, <1>9, <1>10, <1>11, <1>12

\* The invariant holds of a step of the loading if it holds before what loads moves on.
LEMMA WireAdvances ==
  ASSUME LoadInv, at.phase # "run", Advance, prog' = prog, NEW n \in Machine, WireInv(n, Of("source")),
         at.phase = "start" =>
           /\ \A k \in Calls(n) : Op(n, k) # "preset"
           /\ \/ prog[at.obj].kind # "sink" \/ ~Given(n, at.obj)
              \/ Shown(n, at.obj) = Val(n, at.obj) /\ \A c \in Of("source") : prog[c].from = at.obj => ToWire(n, c)
  PROVE  WireInv(n, Of("source"))'
<1>1. \A o \in Objects : Started(o)' => Started(o) \/ (at.phase = "start" /\ o = at.obj)
  BY AdvanceIs
<1>2. \A s \in Of("sink") : Given(n, s) => Shown(n, s) = Val(n, s) \/ ~Started(s)'
  BY <1>1 DEF WireInv, Of
<1>3. \A k \in Calls(n) : Op(n, k) = "preset" => ~Started(Obj(n, k))'
  BY <1>1, CallIs DEF WireInv
<1>4. ASSUME NEW c \in Of("source"), Given(n, prog[c].from), Started(prog[c].from)', c \notin n.refused PROVE Wire(n, c)
  <2>1. prog[c].from \in Objects /\ prog[prog[c].from].kind = "sink"
    BY ProgramIs DEF Of
  <2>2. CASE Started(prog[c].from)
    BY <1>4, <2>2 DEF WireInv
  <2>3. CASE at.phase = "start" /\ prog[c].from = at.obj
    BY <1>4, <2>1, <2>3 DEF Wire
  <2>4. QED BY <1>1, <1>4, <2>1, <2>2, <2>3
<1>5. Of("sink")' = Of("sink") /\ Of("source")' = Of("source")
  BY DEF Of, Objects
<1>6. \A c \in Of("source") : Wire(n, c)' <=> Wire(n, c)
  BY DEF Wire, Val, Through, ToWire, Calls, Op, Obj, Nxt
<1>7. QED BY <1>2, <1>3, <1>4, <1>5, <1>6 DEF WireInv, Given, Shown, Val, Calls, Op, Obj

LEMMA LoadedAdvances ==
  ASSUME at.phase # "run", prog' = prog, NEW n \in Machine, LoadedInv(n) PROVE LoadedInv(n)'
BY DEF LoadedInv, Given, Shown, Val, Calls, Op, Obj, Of, Objects

\* At rest nothing is locked, and no call is under way.
LEMMA RestIsQuiet == ASSUME M \in Machine, Good(M), AtRest
                     PROVE  Len(M.stack) = 0 /\ Calls(M) = {} /\ \A o \in Objects : ~Locked(M, o)
<1>1. M.stack = <<>>
  BY MIs DEF AtRest
<1>2. Len(M.stack) = 0 /\ Calls(M) = {}
  BY <1>1 DEF Calls
<1>3. QED BY <1>2 DEF Good, Chain

\* An endpoint is updated at rest.
LEMMA UpdateAtRest ==
  ASSUME Tables, NEW m \in Machine, Good(m), m.stack = <<>>, NEW o \in Objects, prog[o].kind = "sink", NEW v \in V,
         NEW who \in Who \ {"source"}, at.phase # "run" => v # Unset, NEW n, n = hk_sink_update(m, o, v, who)
  PROVE  n \in Machine /\ Good(n) /\ SinkTakes(n, m, o, v, who)
<1>1. Len(m.stack) = 0 /\ Calls(m) = {}
  BY DEF Calls
<1>2. ~Locked(m, o)
  BY <1>1 DEF Good, Chain
<1>3. Nearly(m, IF who = "source" THEN Objects \ {o} ELSE Objects, Of("source")) /\ who \in Who /\ who # "source"
  BY DEF Good, Nearly
<1>4. QED BY <1>1, <1>2, <1>3, SinkUpdateKeeps

LEMMA NewGrows == ASSUME IInv, New, NEW s \in Objects, link.source[s] # None PROVE link'.source[s] = link.source[s]
<1>1. link.source \in [Objects -> Objects \cup {None}]
  BY DEF IInv, LinkInv, Links
<1>2. ASSUME NEW p \in Objects, NEW c \in Objects PROVE hk_sink_local_connect(p, c).source[s] = link.source[s]
  BY <1>1 DEF hk_sink_local_connect
<1>3. \A kind, name : Named(kind, name) \in SUBSET Objects
  BY DEF Named, Of
<1>4. at.obj \in Objects
  BY DEF IInv, LoadInv, Positions
<1>5. SinkLinks(at.obj).source[s] = link.source[s]
  <2> DEFINE sources == Named("source", prog[at.obj].name)
  <2>1. CASE sources # {}
    <3>1. SetMin(sources) \in Objects
      BY <1>3, <2>1, FirstObject DEF IInv
    <3>2. hk_sink_local_connect(at.obj, SetMin(sources)).source[s] = link.source[s]
      BY <1>2, <1>4, <3>1
    <3>3. QED BY <3>2 DEF SinkLinks
  <2>2. QED BY <2>1 DEF SinkLinks
<1>6. SourceLinks(at.obj).source[s] = link.source[s]
  <2> DEFINE sinks == Named("sink", prog[at.obj].name)
  <2>1. CASE sinks # {}
    <3>1. SetMin(sinks) \in Objects
      BY <1>3, <2>1, FirstObject DEF IInv
    <3>2. hk_sink_local_connect(SetMin(sinks), at.obj).source[s] = link.source[s]
      BY <1>2, <1>4, <3>1
    <3>3. QED BY <3>2 DEF SourceLinks
  <2>2. QED BY <2>1 DEF SourceLinks
<1>7. QED BY <1>5, <1>6 DEF New

LEMMA LoadStep == ASSUME DeepInv, at.phase # "run", Advance, UNCHANGED <<prog, full, link>>
                  PROVE  (IInv /\ NoDuplicate(prog, full))'
<1>1. LoadInv'
  BY LoadStays DEF DeepInv, IInv
<1>2. LinkInv'
  BY DEF DeepInv, IInv, LinkInv, Sound, Links, Objects
<1>3. QED BY <1>1, <1>2 DEF DeepInv, IInv, NoDuplicate

LEMMA NewKeeps == ASSUME DeepInv, New PROVE DeepInv'
<1>1. /\ at.phase = "new" /\ AtRest /\ Advance /\ UNCHANGED <<prog, full, thread>> /\ M' = M /\ Objects' = Objects
      /\ IInv /\ LoadInv
  BY DEF New, Loading, machine, M, Objects, DeepInv, IInv
<1> DEFINE n == M
<1>2. n \in Machine /\ Good(n) /\ Len(n.stack) = 0 /\ Calls(n) = {} /\ \A o \in Objects : ~Locked(n, o)
  BY <1>1, RestIsQuiet DEF DeepInv
<1>3. M' = n
  BY <1>1
<1>4. (IInv /\ NoDuplicate(prog, full))'
  <2>1. LoadInv'
    BY <1>1, LoadStays
  <2>2. LinkInv'
    BY <1>1, NewLinks
  <2>3. QED BY <1>1, <2>1, <2>2 DEF DeepInv, IInv, NoDuplicate
<1>5. \A s \in Objects : link.source[s] # None => link'.source[s] = link.source[s]
  BY <1>1, NewGrows
<1>6. ASSUME NEW k \in Machine, Good(k), Len(k.stack) = 0, Calls(k) = {} PROVE Good(k)'
  <2>1. Chain(k)'
    BY <1>1, <1>6 DEF Good, Chain, Calls, Locked, PadLock, Shown
  <2>2. CutInv(k)'
    <3>1. ASSUME NEW o \in k.refused PROVE OnLoop(o)'
      <4>1. PICK S \in SUBSET Objects : o \in S /\ {Driver(q) : q \in S} = S
        BY <1>6 DEF Good, CutInv, OnLoop
      <4>2. ASSUME NEW q \in S PROVE Driver(q)' = Driver(q)
        <5>1. Driver(q) \in Objects
          BY <4>1
        <5>2. None \notin Objects
          BY <1>1 DEF LoadInv, None
        <5>3. QED BY <1>1, <1>5, <5>1, <5>2 DEF Driver
      <4>3. {Driver(q)' : q \in S} = S
        BY <4>1, <4>2
      <4>4. QED BY <1>1, <4>1, <4>3 DEF OnLoop
    <3>2. QED BY <3>1 DEF CutInv
  <2>3. AgreeInv(k, Objects)'
    <3>1. \A s \in Objects : k.by[s] = "source" => /\ prog[s].kind = "sink" /\ link.source[s] # None
                                                   /\ Val(k, s) = Val(k, link.source[s])
      BY <1>6 DEF Good, AgreeInv, ToVisit
    <3>2. None' = None
      BY DEF None
    <3>3. QED BY <1>1, <1>5, <1>6, <3>1, <3>2 DEF AgreeInv, Val, Calls, None
  <2>4. WireInv(k, Of("source"))'
    BY <1>1, <1>6, WireAdvances DEF Good
  <2>5. LoadedInv(k)'
    BY <1>1, <1>6, LoadedAdvances DEF Good
  <2>6. TraceInv(k)' /\ BrokerInv(k)'
    BY <1>1, <1>6, SameTrace, SameBroker DEF Good
  <2>7. QED BY <2>1, <2>2, <2>3, <2>4, <2>5, <2>6 DEF Good
<1>7. Good(n)' /\ ThreadInv'
  <2>1. \A k \in Machine : Good(k) /\ Len(k.stack) = 0 /\ Calls(k) = {} /\ k = M' => Good(M)'
    BY <1>6
  <2>2. Good(M)'
    BY <1>2, <1>3, <2>1
  <2>3. QED BY <1>1, <2>2, ThreadStays DEF DeepInv
<1>8. QED BY <1>1, <1>2, <1>4, <1>7, MachineStays DEF DeepInv

\* What the loading of a step did holds when loading moves on.
LEMMA LoadingKeeps ==
  ASSUME DeepInv, at.phase # "run", Advance, UNCHANGED <<prog, full, link, thread>>, NEW n \in Machine, M' = n, Good(n),
         at.phase = "start" =>
           /\ \A k \in Calls(n) : Op(n, k) # "preset"
           /\ \/ prog[at.obj].kind # "sink" \/ ~Given(n, at.obj)
              \/ Shown(n, at.obj) = Val(n, at.obj) /\ \A c \in Of("source") : prog[c].from = at.obj => ToWire(n, c)
  PROVE  DeepInv'
<1>1. (IInv /\ NoDuplicate(prog, full))'
  BY LoadStep
<1>2. WireInv(n, Of("source"))'
  BY WireAdvances DEF Good, DeepInv, IInv
<1>3. LoadedInv(n)'
  BY LoadedAdvances DEF Good
<1>4. Good(n)'
  BY <1>2, <1>3, SameChain, SameCut, SameAgree, SameTrace, SameBroker DEF Good
<1>5. (M \in Machine /\ Good(M))'
  BY <1>4, MachineMoves
<1>6. QED BY <1>1, <1>5, ThreadStays DEF DeepInv

LEMMA SetupKeeps == ASSUME DeepInv, Setup PROVE DeepInv'
<1>1. /\ at.phase = "setup" /\ AtRest /\ Advance /\ UNCHANGED <<prog, full, link, thread>> /\ Tables
      /\ M \in Machine /\ Good(M) /\ LoadInv
  BY DEF Setup, Loading, DeepInv, Tables, IInv
<1>2. Len(M.stack) = 0
  BY <1>1, RestIsQuiet
<1> DEFINE o == at.obj
           v == prog[o].preset
<1>3. o \in Objects
  BY DEF DeepInv, IInv, LoadInv, Positions
<1>4. CASE v # Unset
  <2> DEFINE n == PadUpdate(M, "preset", o, v)
  <2>1. prog[o].kind = "sink" /\ v \in V
    BY <1>1, <1>3, <1>4, ProgramIs DEF V
  <2>2. ~Started(o)
    <3>1. prog[o].tile \in Nat
      BY <1>1, <1>3, ProgramIs
    <3>2. QED BY <1>1, <3>1 DEF Started
  <2>3. Becomes(n)
    BY <1>4 DEF Setup
  <2> HIDE DEF v
  <2>4. n \in Machine /\ Good(n)
    BY <1>1, <1>2, <1>3, <1>4, <2>1, <2>2, PresetKeeps DEF v
  <2> HIDE DEF n
  <2>5. M' = n
    BY <2>3, <2>4, BecomesIs
  <2>6. QED BY <1>1, <2>4, <2>5, LoadingKeeps
<1>5. CASE v = Unset
  <2>1. M' = M
    BY <1>5 DEF Setup, machine, M
  <2>2. \A n \in Machine : M' = n /\ Good(n) => DeepInv'
    BY <1>1, LoadingKeeps
  <2>3. QED BY <1>1, <2>1, <2>2
<1>6. QED BY <1>4, <1>5

LEMMA StartKeeps == ASSUME DeepInv, Start PROVE DeepInv'
<1>1. /\ at.phase = "start" /\ AtRest /\ Advance /\ UNCHANGED <<prog, full, link, thread>> /\ Tables
      /\ M \in Machine /\ Good(M) /\ LoadInv
  BY DEF Start, Loading, DeepInv, Tables, IInv
<1>2. Len(M.stack) = 0 /\ M.stack = <<>> /\ Calls(M) = {}
  BY <1>1, RestIsQuiet, MIs DEF AtRest
<1> DEFINE o == at.obj
           v == pad[o].value
<1>3. o \in Objects /\ v = Shown(M, o) /\ v \in V
  <2>1. o \in Objects
    BY DEF DeepInv, IInv, LoadInv, Positions
  <2>2. v = Shown(M, o)
    BY MIs DEF Shown
  <2>3. Shown(M, o) \in V
    BY <1>1, <2>1, MachineIs DEF Shown, Pads, Pad
  <2>4. QED BY <2>1, <2>2, <2>3
<1>4. CASE v # Unset
  <2> DEFINE n == hk_sink_update(M, o, v, "start")
  <2>1. prog[o].kind = "sink"
    <3>1. prog[o].kind # "source"
      BY <1>1, <1>3, <1>4 DEF Good, Chain
    <3>2. QED BY <1>1, <1>3, <3>1, ProgramIs
  <2>2. Becomes(n)
    BY <1>4 DEF Start
  <2> HIDE DEF v
  <2>3. n \in Machine /\ Good(n) /\ SinkTakes(n, M, o, v, "start")
    <3> DEFINE who == "start"
    <3>1. who \in Who \ {"source"}
      BY DEF Who
    <3>2. \A k : k = hk_sink_update(M, o, v, who) => k \in Machine /\ Good(k) /\ SinkTakes(k, M, o, v, who)
      <4> HIDE DEF who
      <4>1. QED BY <1>1, <1>2, <1>3, <1>4, <2>1, <3>1, UpdateAtRest
    <3>3. QED BY <3>2
  <2> HIDE DEF n
  <2>4. M' = n
    BY <2>2, <2>3, BecomesIs
  <2>5. Above(n, M) /\ Op(n, 1) = "sink" /\ Obj(n, 1) = o /\ Nxt(n, 1) = 1 /\ Shown(n, o) = v /\ Val(n, o) = v
    BY <2>3 DEF SinkTakes, Enters
  <2>6. 1 \in Calls(n) /\ \A k \in Calls(n) : k = 1
    BY <1>2, <2>5, AboveIs
  <2>7. \A c \in Of("source") : prog[c].from = o => ToWire(n, c)
    <3>1. \A c \in Of("source") : c \in Nat /\ 1 <= c
      BY <1>1 DEF Of, LoadInv
    <3>2. QED BY <2>5, <2>6, <3>1 DEF ToWire
  <2>8. QED BY <1>1, <2>3, <2>4, <2>5, <2>6, <2>7, LoadingKeeps
<1>5. CASE v = Unset
  <2>1. M' = M
    BY <1>5 DEF Start, machine, M
  <2>2. prog[o].kind # "sink" \/ ~Given(M, o)
    BY <1>1, <1>3, <1>5 DEF Good, LoadedInv, Of
  <2>3. \A n \in Machine : M' = n /\ Good(n) /\ Calls(n) = {} /\ (prog[o].kind # "sink" \/ ~Given(n, o)) => DeepInv'
    BY <1>1, LoadingKeeps
  <2>4. QED BY <1>1, <1>2, <2>1, <2>2, <2>3
<1>6. QED BY <1>4, <1>5

\* The broker and the thread of the MQTT client touch no endpoint.
LEMMA OnlyMqtt ==
  ASSUME NEW m \in Machine, NEW n \in Machine, Good(m), n.ep = m.ep, n.pad = m.pad, n.trace = m.trace, n.stack = m.stack,
         n.log = m.log, n.by = m.by, n.refused = m.refused
  PROVE  /\ Chain(n) /\ CutInv(n) /\ AgreeInv(n, Objects) /\ WireInv(n, Of("source")) /\ LoadedInv(n) /\ TraceInv(n)
         /\ (/\ n.stale = m.stale /\ n.mqtt.up = m.mqtt.up /\ n.mqtt.connected = m.mqtt.connected
             /\ n.mqtt.retained = m.mqtt.retained) => Good(n)
<1>1. \A q : /\ Val(n, q) = Val(m, q) /\ Locked(n, q) = Locked(m, q) /\ Shown(n, q) = Shown(m, q)
             /\ PadLock(n, q) = PadLock(m, q) /\ n.by[q] = m.by[q] /\ (Given(n, q) <=> Given(m, q))
  BY DEF Val, Locked, Shown, PadLock, Given
<1>2. /\ Calls(n) = Calls(m) /\ Len(n.stack) = Len(m.stack)
      /\ \A k : Op(n, k) = Op(m, k) /\ Obj(n, k) = Obj(m, k) /\ Nxt(n, k) = Nxt(m, k)
  BY DEF Calls, Op, Obj, Nxt
<1>3. Chain(n)
  BY <1>1, <1>2 DEF Good, Chain
<1>4. CutInv(n) /\ TraceInv(n)
  BY DEF Good, CutInv, TraceInv
<1>5. AgreeInv(n, Objects)
  BY <1>1, <1>2 DEF Good, AgreeInv, ToVisit
<1>6. WireInv(n, Of("source"))
  BY <1>1, <1>2 DEF Good, WireInv, Wire, ToWire
<1>7. LoadedInv(n)
  BY <1>1, <1>2 DEF Good, LoadedInv
<1>8. ASSUME n.stale = m.stale, n.mqtt.up = m.mqtt.up, n.mqtt.connected = m.mqtt.connected, n.mqtt.retained = m.mqtt.retained
      PROVE  BrokerInv(n)
  BY <1>1, <1>2, <1>8, BrokerSame DEF Good
<1>9. QED BY <1>3, <1>4, <1>5, <1>6, <1>7, <1>8 DEF Good

LEMMA PropagateKeeps == ASSUME DeepInv, Propagate PROVE DeepInv'
<1>1. stack # <<>> /\ UNCHANGED <<prog, full, at, link, thread>> /\ Tables /\ M \in Machine /\ Good(M)
  BY DEF Propagate, AtRest, DeepInv, Tables, IInv
<1> DEFINE call == Head(stack)
           n == IF call.op = "source" THEN VisitSinks(call) ELSE VisitPads(call)
<1>2. Becomes(n)
  BY DEF Propagate
<1>3. n \in Machine /\ Good(n)
  <2>1. ASSUME NEW c, c = Head(stack), c.op = "source", NEW k, k = VisitSinks(c) PROVE k \in Machine /\ Good(k)
    BY <1>1, <2>1, VisitSinksKeeps
  <2>2. ASSUME NEW c, c = Head(stack), c.op # "source", NEW k, k = VisitPads(c) PROVE k \in Machine /\ Good(k)
    BY <1>1, <2>2, VisitPadsKeeps
  <2>3. QED BY <2>1, <2>2
<1> HIDE DEF n
<1>4. M' = n
  BY <1>2, <1>3, BecomesIs
<1>5. QED BY <1>1, <1>3, <1>4, GoodStays

LEMMA SetKeeps == ASSUME DeepInv, NEW o \in Of("sink"), NEW value \in Values, Set(o, value) PROVE DeepInv'
<1>1. /\ at.phase = "run" /\ AtRest /\ UNCHANGED <<prog, full, at, link, thread>> /\ Tables /\ M \in Machine /\ Good(M)
      /\ M.stack = <<>> /\ o \in Objects /\ prog[o].kind = "sink" /\ value \in V
  BY MIs DEF Set, Running, AtRest, DeepInv, Tables, IInv, Of, V
<1> DEFINE who == "set"
           n == hk_sink_update(M, o, value, who)
<1>2. Becomes(n)
  BY DEF Set
<1>3. who \in Who \ {"source"}
  BY DEF Who
<1> HIDE DEF who
<1>4. n \in Machine /\ Good(n)
  BY <1>1, <1>3, UpdateAtRest
<1> HIDE DEF n
<1>5. M' = n
  BY <1>2, <1>4, BecomesIs
<1>6. QED BY <1>1, <1>4, <1>5, GoodStays

LEMMA MsgRecvKeeps == ASSUME DeepInv, MsgRecv PROVE DeepInv'
<1>1. /\ at.phase = "run" /\ AtRest /\ UNCHANGED <<prog, full, at, link, thread>> /\ Tables /\ M \in Machine /\ Good(M)
      /\ M.stack = <<>> /\ M.mqtt = mqtt /\ mqtt.queue # <<>> /\ LoadInv
  BY MIs DEF MsgRecv, Running, AtRest, DeepInv, Tables, IInv
<1> DEFINE msg == Head(mqtt.queue)
           B == mqtt_msg_recv(M.mqtt)
           m == [M EXCEPT !.mqtt = B]
           sinks == Named("sink", msg[1])
           n == IF sinks = {} THEN m ELSE hk_sink_update(m, SetMin(sinks), msg[2], "mqtt")
<1>2. Becomes(n)
  BY DEF MsgRecv
<1>3. M.mqtt \in Broker /\ mqtt.queue \in Seq(Message) /\ msg \in Message /\ msg[2] \in V
  <2>1. M.mqtt \in Broker
    BY <1>1, MachineIs
  <2>2. mqtt.queue \in Seq(Message)
    BY <1>1, <2>1 DEF Broker
  <2>3. msg \in Message
    BY <1>1, <2>2
  <2>4. msg[2] \in V
    BY <2>3 DEF Message
  <2>5. QED BY <2>1, <2>2, <2>3, <2>4
<1>4. /\ B \in Broker /\ B.up = M.mqtt.up /\ B.connected = M.mqtt.connected /\ B.retained = M.mqtt.retained
  <2> DEFINE left == Tail(mqtt.queue)
  <2>1. left \in Seq(Message)
    BY <1>1, <1>3
  <2>2. B = [M.mqtt EXCEPT !.queue = left]
    BY <1>1 DEF mqtt_msg_recv
  <2> HIDE DEF left
  <2>3. QED BY <1>3, <2>1, <2>2 DEF Broker
<1> HIDE DEF B
<1>5. /\ m \in Machine /\ m.mqtt = B /\ m.ep = M.ep /\ m.pad = M.pad /\ m.trace = M.trace /\ m.stack = M.stack
      /\ m.log = M.log /\ m.by = M.by /\ m.refused = M.refused /\ m.stale = M.stale
  BY <1>1, <1>4, Set_mqtt
<1> HIDE DEF m
<1>6. Good(m)
  BY <1>1, <1>4, <1>5, OnlyMqtt
<1>7. n \in Machine /\ Good(n)
  <2>1. CASE sinks = {}
    BY <1>5, <1>6, <2>1
  <2>2. CASE sinks # {}
    <3> DEFINE o == SetMin(sinks)
               v == msg[2]
               who == "mqtt"
    <3>1. o \in Objects /\ prog[o].kind = "sink"
      <4>1. sinks \in SUBSET {q \in Objects : prog[q].kind = "sink"}
        BY DEF Named, Of
      <4>2. o \in sinks
        BY <1>1, <2>2, <4>1, FirstObject
      <4>3. QED BY <4>1, <4>2
    <3>2. who \in Who \ {"source"} /\ v \in V /\ n = hk_sink_update(m, o, v, who)
      BY <1>3, <2>2 DEF Who
    <3> HIDE DEF o, v, who, n
    <3>3. QED BY <1>1, <1>5, <1>6, <3>1, <3>2, UpdateAtRest
  <2>3. QED BY <2>1, <2>2
<1> HIDE DEF n
<1>8. M' = n
  BY <1>2, <1>7, BecomesIs
<1>9. QED BY <1>1, <1>7, <1>8, GoodStays

LEMMA NextOfIs ==
  ASSUME LoadInv, NEW S \in SUBSET Objects, NEW o
  PROVE  \/ NextOf(S, o) = None /\ \A q \in S : ~(q > o)
         \/ NextOf(S, o) \in S /\ NextOf(S, o) # None /\ \A q \in S : q > o => NextOf(S, o) <= q
<1> DEFINE T == {q \in S : q > o}
<1>1. CASE T = {}
  BY <1>1 DEF NextOf
<1>2. CASE T # {}
  <2>1. T \in SUBSET Objects /\ NextOf(S, o) = SetMin(T)
    BY <1>2 DEF NextOf
  <2> HIDE DEF T
  <2>2. SetMin(T) \in T /\ \A q \in T : SetMin(T) <= q
    BY <1>2, <2>1, FirstObject
  <2>3. None \notin Objects
    BY DEF LoadInv, None
  <2>4. QED BY <2>1, <2>2, <2>3 DEF T
<1>3. QED BY <1>1, <1>2

\* The thread visits the public sources in order, then the public sinks.
LEMMA VisitIs ==
  ASSUME LoadInv, NEW o, NEW t, NEW pc \in {"read", "subscribe"}, t = Visit(pc, o)
  PROVE  /\ ThreadOK(t)
         /\ pc = "read" => \A c \in Public("source") : c > o => t.pc = "read" /\ t.obj <= c
<1>1. Public("source") \in SUBSET Objects /\ Public("sink") \in SUBSET Objects /\ Unset \in V
  BY DEF Public, Of, V
<1> DEFINE c == NextOf(Public("source"), o)
<1>2. \/ c = None /\ \A q \in Public("source") : ~(q > o)
      \/ c \in Public("source") /\ c # None /\ \A q \in Public("source") : q > o => c <= q
  BY <1>1, NextOfIs
<1>3. \A x : NextOf(Public("sink"), x) \in Public("sink") \cup {None}
  BY <1>1, NextOfIs
<1> HIDE DEF c
<1>4. CASE pc = "read" /\ c # None
  <2>1. t = [pc |-> "read", obj |-> c, value |-> Unset]
    BY <1>4 DEF Visit, c
  <2>2. QED BY <1>1, <1>2, <1>4, <2>1 DEF ThreadOK
<1>5. CASE ~(pc = "read" /\ c # None)
  <2>1. PICK x : t = [pc |-> "subscribe", obj |-> NextOf(Public("sink"), x), value |-> Unset]
    BY <1>5 DEF Visit, c
  <2>2. QED BY <1>1, <1>2, <1>3, <1>5, <2>1 DEF ThreadOK
<1>6. QED BY <1>4, <1>5

\* A step of the thread keeps the invariant if it keeps that of the broker.
LEMMA ThreadKeeps ==
  ASSUME DeepInv, Threads, mqtt' \in Broker, stale' \in SUBSET Objects, ThreadOK(thread'), mqtt'.up => mqtt'.connected,
         ~full /\ mqtt'.up => \A c \in Public("source") \ stale' :
           \/ mqtt'.retained[prog[c].name] = ep[c].value
           \/ \E k \in Calls(M) : Op(M, k) = "source" /\ Obj(M, k) = c
           \/ thread'.pc \in {"read", "publish"} /\ thread'.obj <= c
  PROVE  DeepInv'
<1>1. /\ UNCHANGED <<prog, full, at, link, ep, pad, trace, stack, log, by, refused>> /\ M \in Machine /\ Good(M)
  BY DEF Threads, Running, DeepInv
<1>2. /\ M.ep = ep /\ M.pad = pad /\ M.trace = trace /\ M.stack = stack /\ M.log = log /\ M.by = by /\ M.refused = refused
      /\ \A c : Val(M, c) = ep[c].value
  BY MIs DEF Val
<1>3. ASSUME NEW b, b = mqtt', NEW s, s = stale', NEW m, m = [M EXCEPT !.mqtt = b], NEW n, n = [m EXCEPT !.stale = s]
      PROVE  DeepInv'
  <2>1. /\ m \in Machine /\ m.mqtt = b /\ m.ep = M.ep /\ m.pad = M.pad /\ m.trace = M.trace /\ m.stack = M.stack
        /\ m.log = M.log /\ m.by = M.by /\ m.refused = M.refused
    BY <1>1, <1>3, Set_mqtt
  <2>2. /\ n \in Machine /\ n.stale = s /\ n.mqtt = b /\ n.ep = M.ep /\ n.pad = M.pad /\ n.trace = M.trace
        /\ n.stack = M.stack /\ n.log = M.log /\ n.by = M.by /\ n.refused = M.refused
    <3>1. s \in SUBSET Objects
      BY <1>3
    <3>2. n = [m EXCEPT !.stale = s]
      BY <1>3
    <3>3. /\ n \in Machine /\ n.stale = s /\ n.mqtt = m.mqtt /\ n.ep = m.ep /\ n.pad = m.pad /\ n.trace = m.trace
          /\ n.stack = m.stack /\ n.log = m.log /\ n.by = m.by /\ n.refused = m.refused
      BY <2>1, <3>1, <3>2, Set_stale
    <3>4. QED BY <2>1, <3>3
  <2>3. M' = n
    <3>1. Becomes(n)
      BY <1>1, <1>2, <1>3, <2>2 DEF Becomes
    <3>2. QED BY <2>2, <3>1, BecomesIs
  <2>4. /\ Chain(n) /\ CutInv(n) /\ AgreeInv(n, Objects) /\ WireInv(n, Of("source")) /\ LoadedInv(n) /\ TraceInv(n)
    BY <1>1, <2>2, OnlyMqtt
  <2>5. BrokerInv(n)'
    <3>1. \A c : Val(n, c) = ep[c].value
      BY <1>2, <2>2 DEF Val
    <3>2. Calls(n) = Calls(M) /\ \A k : Op(n, k) = Op(M, k) /\ Obj(n, k) = Obj(M, k)
      BY <2>2 DEF Calls, Op, Obj
    <3>3. Public("source")' = Public("source") /\ full' = full /\ prog' = prog
      BY <1>1 DEF Public, Of, Objects
    <3>4. ASSUME ~full, n.mqtt.up, NEW c \in Public("source") \ n.stale
          PROVE  n.mqtt.retained[prog[c].name] = Val(n, c) \/ ToPublish(n, c)'
      <4>1. \/ n.mqtt.retained[prog[c].name] = Val(n, c)
            \/ \E k \in Calls(n) : Op(n, k) = "source" /\ Obj(n, k) = c
            \/ thread'.pc \in {"read", "publish"} /\ thread'.obj <= c
        BY <1>3, <2>2, <3>1, <3>2, <3>4
      <4>2. QED BY <4>1 DEF ToPublish, Calls, Op, Obj
    <3>5. n.mqtt.up => n.mqtt.connected
      BY <1>3, <2>2
    <3>6. \A c : Val(n, c)' = Val(n, c)
      BY DEF Val
    <3>7. QED BY <3>3, <3>4, <3>5, <3>6 DEF BrokerInv
  <2>6. Good(n)'
    BY <1>1, <2>4, <2>5, SameChain, SameCut, SameAgree, SameWire, SameLoaded, SameTrace DEF Good
  <2>7. (M \in Machine /\ Good(M))'
    BY <1>1, <2>2, <2>3, <2>6, MachineMoves
  <2>8. ThreadInv'
    BY <1>1 DEF ThreadInv, ThreadOK, Public, Of, Objects, V
  <2>9. QED BY <1>1, <2>7, <2>8, TablesStay DEF DeepInv
<1>4. \E b, s, m, n : b = mqtt' /\ s = stale' /\ m = [M EXCEPT !.mqtt = b] /\ n = [m EXCEPT !.stale = s]
  OBVIOUS
<1>5. QED BY <1>3, <1>4

\* What the broker is known to keep before a step
LEMMA BrokerIs ==
  ASSUME DeepInv
  PROVE  /\ mqtt \in Broker /\ stale \in SUBSET Objects /\ ep \in Eps /\ (mqtt.up => mqtt.connected) /\ ThreadOK(thread) /\ LoadInv
         /\ NoDuplicate(prog, full)
         /\ ~full /\ mqtt.up => \A c \in Public("source") \ stale :
              \/ mqtt.retained[prog[c].name] = ep[c].value
              \/ \E k \in Calls(M) : Op(M, k) = "source" /\ Obj(M, k) = c
              \/ thread.pc \in {"read", "publish"} /\ thread.obj <= c
<1>1. mqtt \in Broker /\ stale \in SUBSET Objects /\ ep \in Eps
  BY MachineIs, MIs DEF DeepInv
<1>2. BrokerInv(M) /\ M.mqtt = mqtt /\ M.stale = stale /\ \A c : Val(M, c) = ep[c].value
  BY MIs DEF DeepInv, Good, Val
<1>3. QED BY <1>1, <1>2 DEF DeepInv, IInv, ThreadInv, BrokerInv, ToPublish

LEMMA OnConnectKeeps == ASSUME DeepInv, OnConnect PROVE DeepInv'
<1>1. /\ Threads /\ thread.pc = "idle" /\ mqtt' = mqtt_on_connect(mqtt) /\ thread' = Visit("read", None) /\ stale' = stale
  BY DEF OnConnect
<1>2. mqtt \in Broker /\ stale \in SUBSET Objects /\ LoadInv
  BY BrokerIs
<1>3. mqtt' \in Broker /\ mqtt'.connected
  BY <1>1, <1>2 DEF mqtt_on_connect, Broker
<1>4. ThreadOK(thread') /\ \A c \in Public("source") : c > None => thread'.pc = "read" /\ thread'.obj <= c
  BY <1>1, <1>2, VisitIs
<1>5. \A c \in Public("source") : c > None
  BY <1>2 DEF Public, Of, LoadInv, None
<1>6. QED BY <1>1, <1>2, <1>3, <1>4, <1>5, ThreadKeeps

LEMMA ReadSourceKeeps == ASSUME DeepInv, ReadSource PROVE DeepInv'
<1>1. /\ Threads /\ thread.pc = "read" /\ mqtt' = mqtt /\ stale' = stale
      /\ thread' = [thread EXCEPT !.pc = "publish", !.value = ep[thread.obj].value]
  BY DEF ReadSource
<1>2. ThreadOK(thread')
  <2>1. ThreadOK(thread) /\ ep \in Eps
    BY BrokerIs
  <2>2. thread.obj \in Objects /\ thread.obj \in Public("source")
    BY <1>1, <2>1 DEF ThreadOK, Public, Of
  <2> DEFINE v == ep[thread.obj].value
  <2>3. v \in V
    BY <2>1, <2>2 DEF Eps, Endpoint
  <2> HIDE DEF v
  <2>4. thread' = [thread EXCEPT !.pc = "publish", !.value = v]
    BY <1>1 DEF v
  <2>5. QED BY <2>1, <2>2, <2>3, <2>4 DEF ThreadOK
<1>3. thread'.pc = "publish" /\ thread'.obj = thread.obj
  <2>1. ThreadOK(thread)
    BY BrokerIs
  <2> DEFINE v == ep[thread.obj].value
  <2>2. thread' = [thread EXCEPT !.pc = "publish", !.value = v]
    BY <1>1
  <2> HIDE DEF v
  <2>3. QED BY <2>1, <2>2 DEF ThreadOK
<1>4. QED BY <1>1, <1>2, <1>3, BrokerIs, ThreadKeeps

LEMMA PublishSourceKeeps == ASSUME DeepInv, PublishSource PROVE DeepInv'
<1> DEFINE o == thread.obj
           v == thread.value
           name == prog[o].name
<1>1. /\ Threads /\ thread.pc = "publish" /\ mqtt' = mqtt_publish(mqtt, name, v) /\ thread' = Visit("read", o)
      /\ stale' = IF v # ep[o].value THEN stale \cup {o} ELSE stale \ {o}
  BY DEF PublishSource
<1>2. mqtt \in Broker /\ stale \in SUBSET Objects /\ LoadInv /\ ThreadOK(thread) /\ NoDuplicate(prog, full) /\ (mqtt.up => mqtt.connected)
  BY BrokerIs
<1>3. o \in Objects /\ o \in Public("source") /\ v \in V /\ name \in Names
  BY <1>1, <1>2, ProgramIs DEF ThreadOK, Public, Of
<1>4. /\ mqtt' \in Broker /\ mqtt'.up = mqtt.up /\ mqtt'.connected = mqtt.connected
      /\ (mqtt.up /\ mqtt.connected => mqtt'.retained[name] = v)
      /\ \A other \in Names : other # name => mqtt'.retained[other] = mqtt.retained[other]
  BY <1>1, <1>2, <1>3, PublishIs
<1>5. ThreadOK(thread') /\ \A c \in Public("source") : c > o => thread'.pc = "read" /\ thread'.obj <= c
  BY <1>1, <1>2, VisitIs
<1>6. stale' \in SUBSET Objects
  BY <1>1, <1>2, <1>3
<1>7. ASSUME ~full, mqtt'.up, NEW c \in Public("source") \ stale'
      PROVE  \/ mqtt'.retained[prog[c].name] = ep[c].value
             \/ \E k \in Calls(M) : Op(M, k) = "source" /\ Obj(M, k) = c
             \/ thread'.pc \in {"read", "publish"} /\ thread'.obj <= c
  <2>1. c \in Objects /\ prog[c].kind = "source" /\ prog[c].name \in Names /\ o \in Nat /\ c \in Nat /\ prog[o].kind = "source"
    BY <1>2, <1>3, ProgramIs DEF Public, Of, LoadInv
  <2>2. CASE c = o
    <3>1. v = ep[o].value
      BY <1>1, <1>7, <2>2
    <3>2. QED BY <1>2, <1>4, <1>7, <2>2, <3>1
  <2>3. CASE c # o
    <3>1. prog[c].name # name
      BY <1>2, <1>3, <1>7, <2>1, <2>3 DEF NoDuplicate, Objects
    <3>2. c \in Public("source") \ stale
      BY <1>1, <1>7, <2>3
    <3>3. \/ mqtt.retained[prog[c].name] = ep[c].value
          \/ \E k \in Calls(M) : Op(M, k) = "source" /\ Obj(M, k) = c
          \/ o <= c
      BY <1>4, <1>7, <3>2, BrokerIs
    <3>4. o <= c => c > o
      BY <2>1, <2>3
    <3>5. QED BY <1>4, <1>5, <2>1, <3>1, <3>3, <3>4
  <2>4. QED BY <2>2, <2>3
<1>8. QED BY <1>1, <1>2, <1>4, <1>5, <1>6, <1>7, ThreadKeeps

LEMMA SubscribeKeeps == ASSUME DeepInv, Subscribe PROVE DeepInv'
<1>1. Threads /\ thread.pc = "subscribe" /\ stale' = stale
  BY DEF Subscribe
<1>2. mqtt \in Broker /\ stale \in SUBSET Objects /\ LoadInv /\ ThreadOK(thread) /\ (mqtt.up => mqtt.connected)
  BY BrokerIs
<1>3. ASSUME mqtt' \in Broker, mqtt'.up = mqtt.up, mqtt'.connected = mqtt.connected, mqtt'.retained = mqtt.retained, ThreadOK(thread')
      PROVE  DeepInv'
  BY <1>1, <1>2, <1>3, BrokerIs, ThreadKeeps
<1>4. CASE thread.obj = None
  <2>1. thread' = [thread EXCEPT !.pc = "idle"] /\ mqtt' = mqtt
    BY <1>4 DEF Subscribe
  <2>2. ThreadOK(thread')
    BY <1>2, <2>1 DEF ThreadOK
  <2>3. QED BY <1>2, <1>3, <2>1, <2>2
<1>5. CASE thread.obj # None
  <2> DEFINE name == prog[thread.obj].name
             kept == mqtt.retained[name]
             msg == <<name, kept>>
             inbox == IF kept # Unset THEN Append(mqtt.inbox, msg) ELSE mqtt.inbox
             subscribed == mqtt.subscribed \cup {name}
  <2>1. thread' = Visit("subscribe", thread.obj) /\ mqtt' = mqtt_subscribe(mqtt, name)
    BY <1>5 DEF Subscribe
  <2>2. name \in Names
    BY <1>1, <1>2, <1>5, ProgramIs DEF ThreadOK, Public, Of
  <2>3. ThreadOK(thread')
    BY <1>2, <2>1, VisitIs
  <2>4. /\ mqtt.retained \in [Names -> V] /\ mqtt.inbox \in Seq(Message) /\ mqtt.subscribed \in SUBSET Names
    BY <1>2 DEF Broker
  <2>5. msg \in Message
    BY <2>2, <2>4 DEF Message
  <2>6. mqtt' = IF CanSend(mqtt) THEN [[mqtt EXCEPT !.subscribed = subscribed] EXCEPT !.inbox = inbox] ELSE mqtt
    BY <2>1, Zenon DEF mqtt_subscribe
  <2> HIDE DEF msg, name
  <2>7. inbox \in Seq(Message) /\ subscribed \in SUBSET Names
    BY <2>2, <2>4, <2>5
  <2> HIDE DEF inbox, subscribed
  <2>8. mqtt' \in Broker /\ mqtt'.up = mqtt.up /\ mqtt'.connected = mqtt.connected /\ mqtt'.retained = mqtt.retained
    BY <1>2, <2>6, <2>7 DEF Broker
  <2>9. QED BY <1>3, <2>3, <2>8
<1>6. QED BY <1>4, <1>5

LEMMA OnMessageKeeps == ASSUME DeepInv, OnMessage PROVE DeepInv'
<1>1. Threads /\ stale' = stale /\ thread' = thread /\ mqtt.inbox # <<>> /\ mqtt' = mqtt_on_message(mqtt)
  BY DEF OnMessage
<1>2. mqtt \in Broker /\ stale \in SUBSET Objects /\ LoadInv /\ ThreadOK(thread) /\ (mqtt.up => mqtt.connected)
  BY BrokerIs
<1> DEFINE msg == Head(mqtt.inbox)
           left == Tail(mqtt.inbox)
           queue == Append(mqtt.queue, msg)
           found == mqtt.lost \ {msg[1]}
           missed == mqtt.lost \cup {msg[1]}
<1>3. mqtt.inbox \in Seq(Message) /\ mqtt.queue \in Seq(Message) /\ mqtt.lost \in SUBSET Names
  BY <1>2 DEF Broker
<1>4. msg \in Message /\ msg[1] \in Names
  <2>1. msg \in Message
    BY <1>1, <1>3
  <2>2. QED BY <2>1 DEF Message
<1>5. mqtt' = IF Len(mqtt.queue) < QueueMax
              THEN [[[mqtt EXCEPT !.inbox = left] EXCEPT !.queue = queue] EXCEPT !.lost = found]
              ELSE [[mqtt EXCEPT !.inbox = left] EXCEPT !.lost = missed]
  BY <1>1, Zenon DEF mqtt_on_message
<1>6. left \in Seq(Message) /\ found \in SUBSET Names /\ missed \in SUBSET Names
  BY <1>1, <1>3, <1>4
<1> HIDE DEF msg
<1>7. queue \in Seq(Message)
  BY <1>3, <1>4
<1> HIDE DEF left, queue, found, missed
<1>8. mqtt' \in Broker /\ mqtt'.up = mqtt.up /\ mqtt'.connected = mqtt.connected /\ mqtt'.retained = mqtt.retained
  BY <1>2, <1>5, <1>6, <1>7 DEF Broker
<1>9. QED BY <1>1, <1>2, <1>8, BrokerIs, ThreadKeeps

LEMMA OnDisconnectKeeps == ASSUME DeepInv, OnDisconnect PROVE DeepInv'
<1>1. Threads /\ stale' = stale /\ thread' = thread /\ mqtt' = mqtt_on_disconnect(mqtt)
  BY DEF OnDisconnect
<1>2. mqtt \in Broker /\ stale \in SUBSET Objects /\ ThreadOK(thread)
  BY BrokerIs
<1> DEFINE none == {}
           no == FALSE
           empty == <<>>
<1>3. mqtt' \in Broker /\ ~mqtt'.up
  <2>1. mqtt' = [[[mqtt EXCEPT !.up = no] EXCEPT !.subscribed = none] EXCEPT !.inbox = empty]
    BY <1>1, Zenon DEF mqtt_on_disconnect
  <2>2. none \in SUBSET Names /\ empty \in Seq(Message) /\ no \in BOOLEAN /\ ~no
    OBVIOUS
  <2> HIDE DEF none, no, empty
  <2>3. QED BY <1>2, <2>1, <2>2 DEF Broker
<1>4. QED BY <1>1, <1>2, <1>3, ThreadKeeps

\* At first nothing is locked, nothing has been taken and the broker is not there.
LEMMA InitKeeps == Init => DeepInv
<1> SUFFICES ASSUME Init PROVE DeepInv
  OBVIOUS
<1>1. IInv /\ LoadInv
  BY InitLoads DEF IInv
<1>2. /\ Len(M.stack) = 0 /\ Calls(M) = {} /\ M.refused = {} /\ M.mqtt.up = FALSE
      /\ \A o \in Objects : /\ Val(M, o) = Unset /\ ~Locked(M, o) /\ Shown(M, o) = Unset /\ ~PadLock(M, o)
                            /\ ~Given(M, o) /\ M.by[o] = "nobody" /\ M.trace[o] = hk_trace_init /\ M.log[o] = <<>>
  BY MIs DEF Init, Val, Locked, Shown, PadLock, Given, Calls, MqttInit
<1>3. hk_trace_init \in Ring /\ Entries(hk_trace_init) = <<>>
  <2> DEFINE tab == [i \in Slots |-> NoEntry]
  <2>1. 0 \in Slots /\ tab \in [Slots -> V \cup {NoEntry}]
    BY Depth DEF Slots
  <2>2. hk_trace_init = [tab |-> tab, iput |-> 0, iget |-> 0]
    BY DEF hk_trace_init, Slots
  <2> HIDE DEF tab
  <2>3. hk_trace_init \in Ring /\ hk_trace_init.iput = 0 /\ hk_trace_init.iget = 0
    BY <2>1, <2>2 DEF Ring
  <2>4. Count(hk_trace_init) = 0
    BY <2>3 DEF Count, Filled
  <2>5. Entries(hk_trace_init) = [k \in 1..Count(hk_trace_init) |-> hk_trace_init.tab[Place(hk_trace_init, k)]]
    BY <2>3, RingIs
  <2>6. QED BY <2>3, <2>4, <2>5
<1>4. M \in Machine
  <2>1. ep \in Eps
    BY DEF Init, Eps, Endpoint, V
  <2>2. pad \in Pads
    BY DEF Init, Pads, Pad, V
  <2>3. trace \in Traces
    BY <1>3 DEF Init, Traces
  <2>4. stack \in Stacks
    BY DEF Init, Stacks
  <2>5. mqtt \in Broker
    BY DEF Init, MqttInit, Broker, V
  <2>6. log \in Logs
    BY DEF Init, Logs
  <2>7. by \in Givers
    BY DEF Init, Givers, Who
  <2>8. refused \in SUBSET Objects /\ stale \in SUBSET Objects
    BY DEF Init
  <2>9. QED BY <2>1, <2>2, <2>3, <2>4, <2>5, <2>6, <2>7, <2>8 DEF M, Machine
<1>5. Chain(M)
  BY <1>2 DEF Chain
<1>6. CutInv(M) /\ TraceInv(M) /\ BrokerInv(M)
  BY <1>2, <1>3 DEF CutInv, TraceInv, BrokerInv
<1>7. AgreeInv(M, Objects)
  BY <1>2 DEF AgreeInv
<1>8. WireInv(M, Of("source"))
  <2>1. \A c \in Of("source") : prog[c].from \in Objects
    BY <1>1, ProgramIs DEF Of
  <2>2. QED BY <1>2, <2>1 DEF WireInv, Of
<1>9. LoadedInv(M)
  BY <1>2 DEF LoadedInv, Of
<1>10. ThreadInv
  <2>1. thread = [pc |-> "idle", obj |-> None, value |-> Unset]
    BY DEF Init
  <2>2. QED BY <2>1 DEF ThreadInv, ThreadOK, V
<1>11. NoDuplicate(prog, full)
  BY DEF Init
<1>12. QED BY <1>1, <1>4, <1>5, <1>6, <1>7, <1>8, <1>9, <1>10, <1>11 DEF DeepInv, Good

LEMMA NextKeeps == DeepInv /\ [Next]_vars => DeepInv'
<1> SUFFICES ASSUME DeepInv, [Next]_vars PROVE DeepInv'
  OBVIOUS
<1>1. CASE UNCHANGED vars
  <2>1. M' = M /\ UNCHANGED <<prog, full, link, at, thread>>
    BY <1>1 DEF vars, machine, M
  <2>2. \A n \in Machine : M' = n /\ Good(n) => DeepInv'
    BY <2>1, GoodStays
  <2>3. QED BY <2>1, <2>2 DEF DeepInv
<1>2. ASSUME NEW o \in Of("sink"), NEW value \in Values, Set(o, value) PROVE DeepInv'
  BY <1>2, SetKeeps
<1>3. QED
  BY <1>1, <1>2, NewKeeps, SetupKeeps, StartKeeps, PropagateKeeps, MsgRecvKeeps, OnConnectKeeps, ReadSourceKeeps,
     PublishSourceKeeps, SubscribeKeeps, OnMessageKeeps, OnDisconnectKeeps DEF Next

\* What the invariant says where the properties look
LEMMA DeepImplies == DeepInv => TypeOK /\ CutsAreLoops /\ LinkedAgree /\ WiresAgree /\ TraceKept /\ BrokerCurrent
<1> SUFFICES ASSUME DeepInv PROVE TypeOK /\ CutsAreLoops /\ LinkedAgree /\ WiresAgree /\ TraceKept /\ BrokerCurrent
  OBVIOUS
<1>1. /\ LoadInv /\ LinkInv /\ M \in Machine /\ Good(M) /\ M.refused = refused /\ M.by = by /\ M.stack = stack
      /\ M.trace = trace /\ M.log = log /\ M.mqtt = mqtt /\ M.stale = stale
      /\ \A o : Val(M, o) = ep[o].value
  BY MIs DEF DeepInv, IInv, Val
<1>2. AtRest => Len(M.stack) = 0 /\ Calls(M) = {}
  BY <1>1, RestIsQuiet
<1>3. TypeOK
  <2>1. at.phase \in {"new", "setup", "start", "run"} /\ at.obj \in Objects
    BY <1>1 DEF LoadInv, Positions
  <2>2. link.source \in [Objects -> Objects \cup {None}] /\ link.sinks \in [Objects -> Seq(Objects)]
    BY <1>1 DEF LinkInv, Links
  <2>3. ep \in Eps /\ pad \in Pads /\ stack \in Stacks
    BY <1>1, MachineIs, MIs
  <2>4. ep \in [Objects -> [value : {Unset, 0, 1} \cup Values, locked : BOOLEAN]]
    BY <2>3 DEF Eps, Endpoint, V
  <2>5. pad \in [Objects -> [value : {Unset, 0, 1} \cup Values, lock : BOOLEAN]]
    BY <2>3 DEF Pads, Pad, V
  <2>6. \A k \in DOMAIN stack : stack[k].op \in {"sink", "source", "preset"} /\ stack[k].obj \in Objects
    <3>1. \A k \in DOMAIN stack : stack[k] \in Call
      BY <2>3 DEF Stacks
    <3>2. QED BY <3>1 DEF Call
  <2>7. QED BY <2>1, <2>2, <2>4, <2>5, <2>6 DEF TypeOK
<1>4. CutsAreLoops
  BY <1>1 DEF Good, CutInv, CutsAreLoops
<1>5. LinkedAgree
  <2>1. AgreeInv(M, Objects)
    BY <1>1 DEF Good
  <2>2. ASSUME AtRest, NEW s \in Of("sink"), by[s] = "source" PROVE ep[s].value = ep[link.source[s]].value
    <3>1. s \in Objects
      BY DEF Of
    <3>2. Val(M, s) = Val(M, link.source[s]) \/ ToVisit(M, s)
      BY <1>1, <2>1, <2>2, <3>1 DEF AgreeInv
    <3>3. ~ToVisit(M, s)
      BY <1>2, <2>2 DEF ToVisit
    <3>4. QED BY <1>1, <3>2, <3>3
  <2>3. QED BY <1>3, <2>2 DEF LinkedAgree
<1>6. WiresAgree
  <2>1. WireInv(M, Of("source"))
    BY <1>1 DEF Good
  <2>2. ASSUME at.phase = "run", AtRest, NEW c \in Of("source"), by[prog[c].from] # "nobody", c \notin refused
        PROVE  ep[c].value = Through(c, ep[prog[c].from].value)
    <3>1. Given(M, prog[c].from) /\ Started(prog[c].from)
      BY <1>1, <2>2 DEF Given, Started
    <3>2. Wire(M, c)
      BY <1>1, <2>1, <2>2, <3>1 DEF WireInv
    <3>3. ~ToWire(M, c)
      BY <1>2, <2>2 DEF ToWire
    <3>4. QED BY <1>1, <3>2, <3>3 DEF Wire
  <2>3. QED BY <2>2 DEF WiresAgree
<1>7. TraceKept
  <2>1. ASSUME NEW o \in Objects PROVE hk_trace_dump(trace[o]) = log[o]
    <3>1. trace[o] \in Ring /\ log[o] \in Seq(V)
      BY <1>1, MachineIs DEF Traces, Logs
    <3>2. Entries(trace[o]) = log[o]
      BY <1>1 DEF Good, TraceInv
    <3>3. QED BY <1>1, <3>1, <3>2, DumpIs
  <2>2. QED BY <2>1 DEF TraceKept
<1>8. BrokerCurrent
  BY <1>1, <1>2 DEF Good, BrokerInv, ToPublish, BrokerCurrent, Connected
<1>9. QED BY <1>3, <1>4, <1>5, <1>6, <1>7, <1>8

\* "Prevent circular endpoint update", hk_sink_update, hk_source_update and
\* hk_pad_update_input: a lock refuses an update only to an endpoint that drives itself, in
\* any program.
THEOREM OnlyLoopsAreCut == Spec => []CutsAreLoops
BY InitKeeps, NextKeeps, DeepImplies, PTL DEF Spec

\* hk_source_update: whatever loops the tiles make, a sink last set by its local source holds
\* the value of that source when the change has run its course.
THEOREM LinkedSinksFollow == Spec => []LinkedAgree
BY InitKeeps, NextKeeps, DeepImplies, PTL DEF Spec

\* hk_tile_start, hk_sink_update and hk_source_update: in any program that runs, a source that
\* no lock refused holds what its sink gave it when the change has run its course.
THEOREM WiresCarry == Spec => []WiresAgree
BY InitKeeps, NextKeeps, DeepImplies, PTL DEF Spec

\* hk_trace_push and hk_trace_dump: whatever the depth of the ring, it gives back the last
\* values that the endpoint took, in order.
THEOREM TracesRemember == Spec => []TraceKept
BY InitKeeps, NextKeeps, DeepImplies, PTL DEF Spec

\* comm_source_update_str and comm_mqtt_connected: whatever the thread of the MQTT client and
\* the event loop do between each other's steps, the broker has the present value of each
\* public source, but of those that the thread published an outdated value of.
THEOREM BrokerKeepsUp == Spec => []BrokerCurrent
BY InitKeeps, NextKeeps, DeepImplies, PTL DEF Spec
=============================================================================
