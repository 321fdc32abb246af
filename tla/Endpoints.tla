------------------------------ MODULE Endpoints -----------------------------
(***************************************************************************)
(* Sinks and sources of all tiles (core/endpoint.c, the classes sink and   *)
(* source), what the engine does with their values (core/comm.c), and the  *)
(* MQTT client that publishes them and sends values back.                  *)
(*                                                                         *)
(* Tiles are loaded one after the other, each started before the next is   *)
(* read; then the event loop runs, beside the thread of the MQTT client.   *)
(* A change runs by plain recursion from a sink through its tile to the    *)
(* sources, from a source to the sink that is linked to it, and so on; the *)
(* stack holds the calls under way.  The inside of a tile is reduced to    *)
(* which sink a source is wired to, straight or through a not (see Tile).  *)
(***************************************************************************)
EXTENDS Mqtt, Trace

CONSTANTS Programs,     \* what may be loaded, see ProgramAssumption
          Values,       \* the values that sinks receive
          MaxSets,      \* bound: values received over HKCP or WebSocket
          MaxLosses     \* bound: losses of the connection to the broker

None == 0               \* no object
\* A program: its objects tile by tile, in order.  A source is wired to the sink "from" of its
\* tile, through a not if "inv"; a sink may have a preset value, both a chart.
Program == Seq([tile : Nat, kind : {"sink", "source"}, name : Names, local : BOOLEAN, from : Nat,
                inv : BOOLEAN, chart : BOOLEAN, preset : Values \cup {Unset}])
ProgramAssumption ==
  /\ Values \subseteq Nat /\ MaxSets \in Nat /\ MaxLosses \in Nat
  /\ \A p \in Programs :
       /\ p # <<>> /\ p \in Program
       /\ \A o, q \in DOMAIN p : o <= q => p[o].tile <= p[q].tile
       /\ \A o \in DOMAIN p : p[o].kind = "source" =>
            /\ p[o].from \in DOMAIN p /\ p[o].preset = Unset
            /\ p[p[o].from].kind = "sink" /\ p[p[o].from].tile = p[o].tile
ASSUME ProgramAssumption

VARIABLES prog, full,   \* the program, and opt_full_name
          at,           \* what loads: the object, and the phase of its tile
          link,         \* local_source of the sinks, local_sinks of the sources
          ep,           \* per endpoint: its value and its lock
          pad,          \* per object: the value of the output of a sink, the lock of the input of a source
          trace,        \* the traces of the endpoints
          stack,        \* the calls under way, innermost first
          mqtt,         \* see Mqtt
          thread,       \* the callback that runs in the thread of the MQTT client
          count,        \* how often the bounded actions have happened
          log,          \* history: the values to be found in each trace
          by,           \* history: who gave a sink its value
          refused,      \* history: endpoints whose last update was refused by a lock
          stale         \* history: sources of which the thread published an outdated value

machine == <<ep, pad, trace, stack, mqtt, log, by, refused, stale>>
vars == <<prog, full, at, link, machine, thread, count>>

Objects == DOMAIN prog
Of(kind) == {o \in Objects : prog[o].kind = kind}
Public(kind) == {o \in Of(kind) : ~prog[o].local}
SetMin(S) == CHOOSE x \in S : \A y \in S : x <= y

\* No name is registered twice: hk_sink_register and hk_source_register would return NULL.
NoDuplicate(p, f) ==
  \A o, q \in DOMAIN p : (p[o].kind = p[q].kind /\ p[o].name = p[q].name
                           /\ (f => p[o].tile = p[q].tile)) => o = q

Init ==
  /\ prog \in Programs /\ full \in BOOLEAN /\ NoDuplicate(prog, full)
  /\ at = [phase |-> "new", obj |-> 1]
  /\ link = [source |-> [o \in Objects |-> None], sinks |-> [o \in Objects |-> <<>>]]
  /\ ep = [o \in Objects |-> [value |-> Unset, locked |-> FALSE]]
  /\ pad = [o \in Objects |-> [value |-> Unset, lock |-> FALSE]]
  /\ trace = [o \in Objects |-> hk_trace_init] /\ log = [o \in Objects |-> <<>>]
  /\ stack = <<>> /\ mqtt = MqttInit
  /\ thread = [pc |-> "idle", obj |-> None, value |-> Unset]
  /\ count = [sets |-> 0, losses |-> 0]
  /\ by = [o \in Objects |-> "nobody"] /\ refused = {} /\ stale = {}
-----------------------------------------------------------------------------
(* The table of endpoints                                                  *)

\* Objects are registered in order, and never removed while the engine runs.
Registered(o) == \/ at.phase # "new" /\ prog[o].tile <= prog[at.obj].tile
                 \/ o < at.obj

\* hk_sink_retrieve_by_full_name and hk_source_retrieve_by_full_name, with no name of a tile
Named(kind, name) == {o \in Of(kind) : Registered(o) /\ prog[o].name = name}

hk_sink_local_connect_Twice(sink, source) ==
  [source |-> [link.source EXCEPT ![sink] = source],
   sinks |-> [link.sinks EXCEPT ![source] = Append(@, sink)]]
hk_sink_local_connect(sink, source) ==
  IF link.source[sink] # None THEN link
  ELSE [source |-> [link.source EXCEPT ![sink] = source],
        sinks |-> [link.sinks EXCEPT ![source] = Append(@, sink)]]

\* hk_sink_register
SinkLinks(o) ==
  LET sources == Named("source", prog[o].name)
  IN IF ~full /\ ~prog[o].local /\ sources # {} THEN hk_sink_local_connect(o, SetMin(sources)) ELSE link

\* hk_source_register: a source looks for a sink only if names are full, and of any tile.
SourceLinks(o) ==
  LET sinks == Named("sink", prog[o].name)
  IN IF full /\ sinks # {} THEN hk_sink_local_connect(SetMin(sinks), o) ELSE link
-----------------------------------------------------------------------------
(* One call, from a machine to a machine                                   *)

M == [ep |-> ep, pad |-> pad, trace |-> trace, stack |-> stack, mqtt |-> mqtt,
      log |-> log, by |-> by, refused |-> refused, stale |-> stale]
Becomes(m) == /\ ep' = m.ep /\ pad' = m.pad /\ trace' = m.trace /\ stack' = m.stack
              /\ mqtt' = m.mqtt /\ log' = m.log /\ by' = m.by /\ refused' = m.refused /\ stale' = m.stale

AtRest == stack = <<>>
Push(m, op, o) == [m EXCEPT !.stack = <<[op |-> op, obj |-> o, next |-> 1]>> \o @]
Drop(m) == [m EXCEPT !.stack = Tail(@)]

\* hk_pad_update_str on the output of a sink, up to its loop
PadUpdate(m, op, o, value) == Push([m EXCEPT !.pad[o].value = value], op, o)

\* An endpoint that is not locked takes a value; its trace records it if it has a chart, the
\* trace of a sink only if no local source has one of its own.
Take(m, o, value) ==
  LET m1 == [m EXCEPT !.ep[o] = [value |-> value, locked |-> TRUE], !.refused = @ \ {o}]
  IN IF ~prog[o].chart \/ link.source[o] # None THEN m1
     ELSE [m1 EXCEPT !.trace[o] = hk_trace_push(@, value), !.log[o] = Remember(@, value)]

\* hk_sink_update, up to the loop of _event of the class sink
hk_sink_update(m, o, value, who) ==
  IF m.ep[o].locked THEN [m EXCEPT !.refused = @ \cup {o}]
  ELSE PadUpdate([Take(m, o, value) EXCEPT !.by[o] = who], "sink", o, value)

\* comm_source_update_str, once the endpoint is updated
Publish(m, o) ==
  IF prog[o].local THEN m
  ELSE [m EXCEPT !.mqtt = mqtt_publish(@, prog[o].name, m.ep[o].value), !.stale = @ \ {o}]

\* The value that reaches a source when the sink it is wired to has this one
Through(o, value) == IF ~prog[o].inv THEN value ELSE IF value \in {0, Unset} THEN 1 ELSE 0

UpdateInput_Unlocked(m, o, value) ==
  Push([m EXCEPT !.refused = @ \ {o}, !.ep[o].value = Through(o, value)], "source", o)

\* hk_pad_update_input on a source: _input of the class, comm_source_update_str and
\* hk_source_update, up to the loop over the linked sinks
UpdateInput(m, o, value) ==
  IF m.pad[o].lock THEN [m EXCEPT !.refused = @ \cup {o}]
  ELSE IF m.ep[o].locked THEN Publish([m EXCEPT !.refused = @ \cup {o}], o)
  ELSE Push([Take(m, o, Through(o, value)) EXCEPT !.pad[o].lock = TRUE], "source", o)
-----------------------------------------------------------------------------
(* Loading                                                                 *)

TileOf(o) == {q \in Objects : prog[q].tile = prog[o].tile}
Advance ==
  at' = IF at.obj + 1 \in TileOf(at.obj) THEN [at EXCEPT !.obj = @ + 1]
        ELSE CASE at.phase = "new" -> [phase |-> "setup", obj |-> SetMin(TileOf(at.obj))]
               [] at.phase = "setup" -> [phase |-> "start", obj |-> SetMin(TileOf(at.obj))]
               [] at.phase = "start" /\ at.obj < Len(prog) -> [phase |-> "new", obj |-> at.obj + 1]
               [] at.phase = "start" /\ at.obj = Len(prog) -> [phase |-> "run", obj |-> at.obj]
Loading(phase) == at.phase = phase /\ AtRest /\ Advance /\ UNCHANGED <<prog, full, thread, count>>

\* _new of the classes sink and source
New == /\ Loading("new")
       /\ link' = IF prog[at.obj].kind = "sink" THEN SinkLinks(at.obj) ELSE SourceLinks(at.obj)
       /\ UNCHANGED machine

\* hk_tile_start, first loop: an input refers to a sink, or the output of a sink has a preset.
Setup == /\ Loading("setup")
         /\ IF prog[at.obj].preset # Unset
            THEN Becomes(PadUpdate(M, "preset", at.obj, prog[at.obj].preset))
            ELSE UNCHANGED machine
         /\ UNCHANGED link

\* hk_tile_start, second loop: _start of the class sink
Start == /\ Loading("start")
         /\ IF pad[at.obj].value # Unset
            THEN Becomes(hk_sink_update(M, at.obj, pad[at.obj].value, "start"))
            ELSE UNCHANGED machine
         /\ UNCHANGED link

\* The sources whose input has been wired to the sink o
Wired(o) == {q \in Of("source") : prog[q].from = o /\ Registered(q)
                                   /\ (at.phase = "setup" /\ q \in TileOf(at.obj) => q < at.obj)}
-----------------------------------------------------------------------------
(* Running                                                                 *)

Running == at.phase = "run" /\ UNCHANGED <<prog, full, at, link>>

\* hk_sink_update_by_name, for hkcp_command_set
Set(o, value) ==
  /\ Running /\ AtRest /\ count.sets < MaxSets
  /\ Becomes(hk_sink_update(M, o, value, "set"))
  /\ count' = [count EXCEPT !.sets = @ + 1]
  /\ UNCHANGED thread

\* mqtt_msg_recv and comm_mqtt_update: the first sink of that name, if any
MsgRecv_Unlinked ==
  /\ Running /\ AtRest /\ mqtt.queue # <<>>
  /\ LET msg == Head(mqtt.queue)
         m == [M EXCEPT !.mqtt = mqtt_msg_recv(@)]
         sinks == {o \in Named("sink", msg[1]) : link.source[o] = None}
     IN Becomes(IF sinks = {} THEN m ELSE hk_sink_update(m, SetMin(sinks), msg[2], "mqtt"))
  /\ UNCHANGED <<thread, count>>
MsgRecv ==
  /\ Running /\ AtRest /\ mqtt.queue # <<>>
  /\ LET msg == Head(mqtt.queue)
         m == [M EXCEPT !.mqtt = mqtt_msg_recv(@)]
     IN Becomes(IF Named("sink", msg[1]) = {} THEN m
                ELSE hk_sink_update(m, SetMin(Named("sink", msg[1])), msg[2], "mqtt"))
  /\ UNCHANGED <<thread, count>>

\* The loop of hk_pad_update_str, then the end of hk_sink_update
VisitPads_ButLast(call) ==
  LET left == {q \in Wired(call.obj) : q >= call.next /\ \E r \in Wired(call.obj) : q < r}
      q == SetMin(left)
  IN IF left # {} THEN UpdateInput([M EXCEPT !.stack[1].next = q + 1], q, pad[call.obj].value)
     ELSE IF call.op = "sink" THEN [Drop(M) EXCEPT !.ep[call.obj].locked = FALSE]
     ELSE Drop(M)
VisitPads(call) ==
  LET left == {q \in Wired(call.obj) : q >= call.next}
      q == SetMin(left)
  IN IF left # {} THEN UpdateInput([M EXCEPT !.stack[1].next = q + 1], q, pad[call.obj].value)
     ELSE IF call.op = "sink" THEN [Drop(M) EXCEPT !.ep[call.obj].locked = FALSE]
     ELSE Drop(M)

\* The loop of hk_source_update, then the rest of comm_source_update_str
VisitSinks_StillLocked(call) ==
  LET sinks == link.sinks[call.obj]
  IN IF call.next \in DOMAIN sinks
     THEN hk_sink_update([M EXCEPT !.stack[1].next = @ + 1], sinks[call.next], ep[call.obj].value, "source")
     ELSE Publish([Drop(M) EXCEPT !.pad[call.obj].lock = FALSE], call.obj)
VisitSinks(call) ==
  LET sinks == link.sinks[call.obj]
  IN IF call.next \in DOMAIN sinks
     THEN hk_sink_update([M EXCEPT !.stack[1].next = @ + 1], sinks[call.next], ep[call.obj].value, "source")
     ELSE Publish([Drop(M) EXCEPT !.ep[call.obj].locked = FALSE, !.pad[call.obj].lock = FALSE], call.obj)

Propagate ==
  /\ ~AtRest
  /\ LET call == Head(stack)
     IN Becomes(IF call.op = "source" THEN VisitSinks(call) ELSE VisitPads(call))
  /\ UNCHANGED <<prog, full, at, link, thread, count>>
-----------------------------------------------------------------------------
(* The thread of the MQTT client                                           *)

Threads == Running /\ UNCHANGED <<ep, pad, trace, stack, log, by, refused>>
NextOf(S, o) == IF {q \in S : q > o} = {} THEN None ELSE SetMin({q \in S : q > o})

\* comm_mqtt_connected: the public sources are published, then the public sinks subscribed.
Visit(pc, o) ==
  IF pc = "read" /\ NextOf(Public("source"), o) # None
    THEN [pc |-> "read", obj |-> NextOf(Public("source"), o), value |-> Unset]
  ELSE IF pc = "read" THEN [pc |-> "subscribe", obj |-> NextOf(Public("sink"), None), value |-> Unset]
  ELSE [pc |-> "subscribe", obj |-> NextOf(Public("sink"), o), value |-> Unset]

OnConnect_Once ==
  /\ Threads /\ thread.pc = "idle" /\ ~mqtt.up
  /\ mqtt' = mqtt_on_connect(mqtt)
  /\ thread' = IF mqtt.connected THEN thread ELSE Visit("read", None)
  /\ UNCHANGED <<stale, count>>
OnConnect ==
  /\ Threads /\ thread.pc = "idle" /\ ~mqtt.up
  /\ mqtt' = mqtt_on_connect(mqtt)
  /\ thread' = Visit("read", None)
  /\ UNCHANGED <<stale, count>>

\* comm_mqtt_publish takes the value while the event loop may be changing it,
ReadSource ==
  /\ Threads /\ thread.pc = "read"
  /\ thread' = [thread EXCEPT !.pc = "publish", !.value = ep[thread.obj].value]
  /\ UNCHANGED <<mqtt, stale, count>>

\* and publishes it.
PublishSource ==
  /\ Threads /\ thread.pc = "publish"
  /\ mqtt' = mqtt_publish(mqtt, prog[thread.obj].name, thread.value)
  /\ stale' = IF thread.value # ep[thread.obj].value THEN stale \cup {thread.obj} ELSE stale \ {thread.obj}
  /\ thread' = Visit("read", thread.obj)
  /\ UNCHANGED count

Subscribe ==
  /\ Threads /\ thread.pc = "subscribe"
  /\ IF thread.obj = None
     THEN thread' = [thread EXCEPT !.pc = "idle"] /\ UNCHANGED mqtt
     ELSE /\ mqtt' = mqtt_subscribe(mqtt, prog[thread.obj].name)
          /\ thread' = Visit("subscribe", thread.obj)
  /\ UNCHANGED <<stale, count>>

OnMessage ==
  /\ Threads /\ thread.pc = "idle" /\ mqtt.inbox # <<>>
  /\ mqtt' = mqtt_on_message(mqtt)
  /\ UNCHANGED <<stale, thread, count>>

OnDisconnect ==
  /\ Threads /\ mqtt.up /\ count.losses < MaxLosses
  /\ mqtt' = mqtt_on_disconnect(mqtt)
  /\ count' = [count EXCEPT !.losses = @ + 1]
  /\ UNCHANGED <<stale, thread>>
-----------------------------------------------------------------------------
Next == \/ New \/ Setup \/ Start \/ Propagate \/ MsgRecv
        \/ \E o \in Of("sink"), value \in Values : Set(o, value)
        \/ OnConnect \/ ReadSource \/ PublishSource \/ Subscribe \/ OnMessage \/ OnDisconnect

Spec == Init /\ [][Next]_vars
-----------------------------------------------------------------------------
(* Properties                                                              *)

TypeOK ==
  /\ at.phase \in {"new", "setup", "start", "run"} /\ at.obj \in Objects
  /\ link.source \in [Objects -> Objects \cup {None}]
  /\ link.sinks \in [Objects -> Seq(Objects)]
  /\ ep \in [Objects -> [value : {Unset, 0, 1} \cup Values, locked : BOOLEAN]]
  /\ pad \in [Objects -> [value : {Unset, 0, 1} \cup Values, lock : BOOLEAN]]
  /\ \A k \in DOMAIN stack : stack[k].op \in {"sink", "source", "preset"} /\ stack[k].obj \in Objects

\* hk_sink_local_connect: a sink is on the list of the source it is connected to, once, and
\* on no other; they have the same name.
LinksOK ==
  /\ \A c \in Objects : \A j \in DOMAIN link.sinks[c] :
       /\ link.source[link.sinks[c][j]] = c
       /\ \A k \in DOMAIN link.sinks[c] : link.sinks[c][j] = link.sinks[c][k] => j = k
  /\ \A s \in Objects : link.source[s] # None =>
       /\ \E j \in DOMAIN link.sinks[link.source[s]] : link.sinks[link.source[s]][j] = s
       /\ prog[link.source[s]].name = prog[s].name

\* hk_source_update: when a change has run its course, a sink that was last set by its local
\* source holds the value of that source, whatever loops the tiles make.
LinkedAgree ==
  /\ TypeOK
  /\ AtRest => \A s \in Of("sink") : by[s] = "source" => ep[s].value = ep[link.source[s]].value

\* hk_sink_update and hk_source_update: when the tiles are started and a change has run its
\* course, every source holds what its sink gave it, unless a lock refused it.
WiresAgree ==
  (at.phase = "run" /\ AtRest) =>
    \A c \in Of("source") :
      LET s == prog[c].from
      IN (by[s] # "nobody" /\ c \notin refused) => ep[c].value = Through(c, ep[s].value)

\* hk_trace_push and hk_trace_dump: the trace of an endpoint is the last values it took, in
\* order, however often the ring went round.
TraceKept == \A o \in Objects : hk_trace_dump(trace[o]) = log[o]

\* "Prevent circular endpoint update": a lock refuses an update only to an endpoint that
\* drives itself: it is in a set of objects that is the set of their drivers, which is made of
\* rings since an object has one driver.
Driver(o) == IF prog[o].kind = "source" THEN prog[o].from ELSE link.source[o]
OnLoop(o) == \E S \in SUBSET Objects : o \in S /\ {Driver(q) : q \in S} = S
CutsAreLoops == \A o \in refused : OnLoop(o)

\* comm_source_update_str and comm_mqtt_connected: whatever the connection went through, the
\* broker keeps the present value of each public source, unless the thread of the MQTT client
\* published a value that the event loop had just replaced.
Connected == mqtt.up /\ thread.pc = "idle"
BrokerCurrent ==
  (AtRest /\ Connected /\ ~full) =>
    \A c \in Public("source") \ stale : mqtt.retained[prog[c].name] = ep[c].value

\* comm_mqtt_update: when all messages have been read, a public sink and a public source of
\* the same name hold the same value, be they linked or not and in whatever order messages,
\* losses and updates came, unless the sink was set by someone else, the queue was full or the
\* broker is not current.
Quiet == at.phase = "run" /\ AtRest /\ Connected /\ mqtt.inbox = <<>> /\ mqtt.queue = <<>>
NamesakesAgree ==
  (Quiet /\ ~full) =>
    \A s \in Public("sink"), c \in Public("source") \ stale :
      (/\ prog[s].name = prog[c].name /\ ep[c].value # Unset
       /\ by[s] # "set" /\ prog[s].name \notin mqtt.lost)
        => ep[s].value = ep[c].value
=============================================================================
