------------------------------ MODULE HkcpNode ------------------------------
(***************************************************************************)
(* The connecting side of HKCP (core/hkcp.c over os/linux/tcpio.c): one    *)
(* node per remote engine heard of, its connection, its timer, the list of *)
(* sinks it asks for, and the values it sends to the sinks that carry the  *)
(* name of a public local source.  The remote engines, which answer with   *)
(* core/hkcp_cmd.c, come and go; connections break at any time.            *)
(*                                                                         *)
(* Data is moved by whole lines: the accumulation of partial lines in      *)
(* node->rbuf is left out.  A value is its version, 0 being "never set".   *)
(***************************************************************************)
EXTENDS Naturals, Sequences, SequencesExt, FiniteSetsExt

CONSTANTS Hosts,        \* the remote engines
          NoHost,       \* the name of a free entry
          Sources,      \* the public sources of this engine
          Events,       \* those declared as events
          Configs,      \* per host, the sets of public sinks it may be started with
          Retries,      \* HKCP_NODE_CONNECT_RETRIES
          MaxVersion,   \* bound: versions of a source
          MaxLosses     \* bound: connections lost and hosts stopped

ASSUME HkcpAssumption ==
  /\ NoHost \notin Hosts /\ IsFiniteSet(Hosts) /\ Events \subseteq Sources
  /\ \A h \in Hosts : Configs[h] # {} /\ \A c \in Configs[h] : IsFiniteSet(c)
  /\ Retries \in Nat /\ MaxVersion \in Nat \ {0} /\ MaxLosses \in Nat

VARIABLES K,        \* node: the table; timers: the pending calls into hkcp.c
          pipe,     \* per entry: the lines in flight on its connection, both ways
          remote,   \* per host: running or not, and its public sinks with their versions
          value,    \* per source: its version
          losses    \* bound

vars == <<K, pipe, remote, value, losses>>

\* Entries of hkcp->nodes.  hkcp_node_add looks a host up by its name before it takes a free
\* entry, so one per host is enough.
Ids == 1..Cardinality(Hosts)
States == {"IDLE", "CONNECT", "SINKS", "READY"}

\* fd: "none" is chan.fd = -1; "up" and "broken" are a descriptor whose peer is there or gone.
FreeNode == [name |-> NoHost, state |-> "IDLE", attempts |-> 0, tag |-> 0,
             sources |-> {}, fd |-> "none", wbuf |-> <<>>]
EmptyPipe == [out |-> <<>>, in |-> <<>>]

Line(kind, name, version) == [kind |-> kind, name |-> name, version |-> version]
AskSinks == Line("sinks", "", 0)
SetSink(s) == Line("set", s, value[s])

\* The public sinks of a host just started.
Started(sinks) == [up |-> TRUE, sinks |-> [s \in sinks |-> 0]]

Init == /\ K = [node |-> [i \in Ids |-> FreeNode], timers |-> {}]
        /\ pipe = [i \in Ids |-> EmptyPipe]
        /\ remote \in {r \in [Hosts -> UNION {{Started(c) : c \in Configs[h]} : h \in Hosts}] :
                          \A h \in Hosts : DOMAIN r[h].sinks \in Configs[h]}
        /\ value = [s \in Sources |-> 1]
        /\ losses = 0

Live(k, i) == k.node[i].name # NoHost
-----------------------------------------------------------------------------
(* Timers and sockets                                                      *)

\* sys_timeout: a tag that nothing holds.
NewTag(k) == Min((1..2 * Cardinality(Hosts) + 1)
                   \ ({k.node[i].tag : i \in Ids} \cup {t.tag : t \in k.timers}))

Arm(k, i, func) ==
  [k EXCEPT !.node[i].tag = NewTag(k),
            !.timers = @ \cup {[tag |-> NewTag(k), func |-> func, node |-> i]}]

\* tcp_sock_write only queues: whether there is a connection or not.
Queue(n, line) == [n EXCEPT !.wbuf = Append(@, line)]

\* tcp_sock_shutdown.
Closed(n) == [n EXCEPT !.fd = "none", !.wbuf = <<>>]

\* What tcp_sock_write_event leaves to send once n lines went out.
Shifted_OnlyWhenDrained(buf, n) == IF n < Len(buf) THEN buf ELSE <<>>
Shifted(buf, n) == SubSeq(buf, n + 1, Len(buf))
-----------------------------------------------------------------------------
(* Nodes                                                                   *)

NodeRemove(k, i) ==
  [node |-> [k.node EXCEPT ![i] = FreeNode],
   timers |-> {t \in k.timers : k.node[i].tag = 0 \/ t.tag # k.node[i].tag}]

\* The node after tcp_sock_connect succeeded.
Connected_TagKept(n) == Queue([n EXCEPT !.fd = "up", !.state = "SINKS"], AskSinks)
Connected(n) == Queue([n EXCEPT !.fd = "up", !.tag = 0, !.state = "SINKS"], AskSinks)

Attempted_NotCounted(n) == [n EXCEPT !.state = "CONNECT"]
Attempted(n) == [n EXCEPT !.attempts = @ + 1, !.state = "CONNECT"]

GivesUp(n) == n.attempts > Retries

\* hkcp_node_connect; ok is what becomes of the (blocking) connection.
NodeConnect(k, i, ok) ==
  LET n == Attempted(k.node[i])
      k1 == [k EXCEPT !.node[i] = n]
  IN CASE ok -> [k EXCEPT !.node[i] = Connected(n)]
       [] ~ok /\ GivesUp(n) -> NodeRemove([k1 EXCEPT !.node[i].tag = 0], i)
       [] ~ok /\ ~GivesUp(n) /\ n.tag = 0 -> Arm(k1, i, "connect")
       [] ~ok /\ ~GivesUp(n) /\ n.tag # 0 -> k1

\* Its return value: the periodic timer goes on.
ConnectAgain(n, ok) == ~ok /\ ~GivesUp(Attempted(n))

\* A host can be reached only if it runs; even then the connection may fail.
Reached(h, ok) == ok \in BOOLEAN /\ (ok => remote[h].up)

\* hkcp_node_retrieve and hkcp_node_alloc: the entry for a host.
EntryFor(k, h) ==
  IF \E i \in Ids : k.node[i].name = h THEN CHOOSE i \in Ids : k.node[i].name = h
  ELSE Min({i \in Ids : ~Live(k, i)})

\* When hkcp_node_add schedules a connection.
MustConnect_Always(n) == n.tag = 0
MustConnect(n) == n.fd = "none" /\ n.tag = 0

NodeAdd(k, h) ==
  LET i == EntryFor(k, h)
      k1 == [k EXCEPT !.node[i].name = h]
  IN IF MustConnect(k1.node[i]) THEN Arm(k1, i, "connect_first") ELSE k1

\* hkcp_node_send_initial_value
SendInitial(n, s) == IF s \in Events THEN n ELSE Queue(n, SetSink(s))

\* hkcp_node_recv_sinks on the name of a sink: the local source of that name is attached
\* once, and its value sent however often the sink is listed.
SinkListed_OnlyOnce(n, s) ==
  IF s \in Sources /\ s \notin n.sources
  THEN SendInitial([n EXCEPT !.sources = @ \cup {s}], s) ELSE n
SinkListed(n, s) ==
  IF s \in Sources THEN SendInitial([n EXCEPT !.sources = @ \cup {s}], s) ELSE n

\* hkcp_node_recv_sinks on a line starting with a dot, be it the end of the list or an error.
ListEnded(k, i) ==
  IF k.node[i].sources # {} THEN [k EXCEPT !.node[i].state = "READY"]
  ELSE NodeRemove(k, i)

\* hkcp_node_recv_line
RecvLine(k, i, line) ==
  CASE k.node[i].state # "SINKS" -> k
    [] k.node[i].state = "SINKS" /\ line.kind = "sink" ->
         [k EXCEPT !.node[i] = SinkListed(@, line.name)]
    [] k.node[i].state = "SINKS" /\ line.kind # "sink" -> ListEnded(k, i)

\* tcp_sock_read_event without data: hkcp_node_event reconnects at once, then
\* tcp_sock_shutdown_ closes whatever descriptor the channel holds by now.
HungUp(k, i, ok) ==
  LET k1 == NodeConnect([k EXCEPT !.node[i].state = "IDLE", !.node[i].attempts = 0], i, ok)
  IN [k1 EXCEPT !.node[i] = Closed(@)]

\* hkcp_source_send_nodes
SendNodes(k, s, line) ==
  [k EXCEPT !.node = [i \in Ids |-> IF s \in k.node[i].sources
                                    THEN Queue(k.node[i], line) ELSE k.node[i]]]
-----------------------------------------------------------------------------
(* What the engine does                                                    *)

\* An advertisement of h is received: hk_advertise_event.
Advertised(h) == /\ Sources # {}
                 /\ K' = NodeAdd(K, h)
                 /\ UNCHANGED <<pipe, remote, value, losses>>

\* hkcp_node_connect_first, 10 ms after hkcp_node_add.
ConnectFirst(t) ==
  /\ t \in K.timers /\ t.func = "connect_first"
  /\ \E ok \in BOOLEAN :
       /\ Reached(K.node[t.node].name, ok)
       /\ K' = NodeConnect([K EXCEPT !.timers = @ \ {t}, !.node[t.node].tag = 0,
                                     !.node[t.node].attempts = 0], t.node, ok)
  /\ UNCHANGED <<pipe, remote, value, losses>>

\* hkcp_node_connect, every 5 s.
ConnectRetry(t) ==
  /\ t \in K.timers /\ t.func = "connect"
  /\ \E ok \in BOOLEAN :
       /\ Reached(K.node[t.node].name, ok)
       /\ LET k1 == NodeConnect(K, t.node, ok)
          IN K' = IF ConnectAgain(K.node[t.node], ok) THEN k1
                  ELSE [k1 EXCEPT !.timers = @ \ {t}]
  /\ UNCHANGED <<pipe, remote, value, losses>>

\* tcp_sock_write_event: the output goes out, as much of it as the kernel takes.
Flush(i) ==
  /\ K.node[i].fd = "up"
  /\ \E n \in 1..Len(K.node[i].wbuf) :
       /\ pipe' = [pipe EXCEPT ![i].out = @ \o SubSeq(K.node[i].wbuf, 1, n)]
       /\ K' = [K EXCEPT !.node[i].wbuf = Shifted(@, n)]
  /\ UNCHANGED <<remote, value, losses>>

\* hkcp_node_recv, one line.  A node removed meanwhile leaves nothing on the connection.
Receive(i) ==
  /\ K.node[i].fd # "none" /\ pipe[i].in # <<>>
  /\ K' = RecvLine(K, i, Head(pipe[i].in))
  /\ pipe' = IF K'.node[i].fd = "none" THEN [pipe EXCEPT ![i] = EmptyPipe]
             ELSE [pipe EXCEPT ![i].in = Tail(@)]
  /\ UNCHANGED <<remote, value, losses>>

HangUp(i) ==
  /\ K.node[i].fd = "broken"
  /\ \E ok \in BOOLEAN : Reached(K.node[i].name, ok) /\ K' = HungUp(K, i, ok)
  /\ pipe' = [pipe EXCEPT ![i] = EmptyPipe]
  /\ UNCHANGED <<remote, value, losses>>

\* comm_source_update_str
Update(s) ==
  /\ value[s] < MaxVersion
  /\ value' = [value EXCEPT ![s] = @ + 1]
  /\ K' = SendNodes(K, s, Line("set", s, value[s] + 1))
  /\ UNCHANGED <<pipe, remote, losses>>
-----------------------------------------------------------------------------
(* The remote engines: hkcp_command, and their life                        *)

\* hkcp_command_sinks
SinkList(sinks) == [n \in 1..Cardinality(sinks) |-> Line("sink", SetToSeq(sinks)[n], 0)]
                     \o <<Line("end", "", 0)>>

RemoteReply(h, line) ==
  CASE line.kind = "sinks" -> SinkList(DOMAIN remote[h].sinks)
    [] line.kind = "set" /\ line.name \in DOMAIN remote[h].sinks -> <<>>
    [] line.kind = "set" /\ line.name \notin DOMAIN remote[h].sinks -> <<Line("error", "", 0)>>

\* hkcp_command_set
RemoteSet(sinks, line) ==
  IF line.kind = "set" /\ line.name \in DOMAIN sinks
  THEN [sinks EXCEPT ![line.name] = line.version] ELSE sinks

RemoteReceive(i) ==
  LET h == K.node[i].name
      line == Head(pipe[i].out)
  IN /\ K.node[i].fd = "up" /\ pipe[i].out # <<>>
     /\ remote' = [remote EXCEPT ![h].sinks = RemoteSet(@, line)]
     /\ pipe' = [pipe EXCEPT ![i] = [out |-> Tail(@.out),
                                     in |-> @.in \o RemoteReply(h, line)]]
     /\ UNCHANGED <<K, value, losses>>

\* The connections to h lose their peer, and what was on its way to it.
Broken(h) ==
  /\ K' = [K EXCEPT !.node = [i \in Ids |-> IF K.node[i].name = h /\ K.node[i].fd = "up"
                                            THEN [K.node[i] EXCEPT !.fd = "broken"]
                                            ELSE K.node[i]]]
  /\ pipe' = [i \in Ids |-> IF K.node[i].name = h THEN [pipe[i] EXCEPT !.out = <<>>]
                            ELSE pipe[i]]

LoseConnection(h) ==
  /\ losses < MaxLosses /\ \E i \in Ids : K.node[i].name = h /\ K.node[i].fd = "up"
  /\ Broken(h) /\ losses' = losses + 1
  /\ UNCHANGED <<remote, value>>

RemoteStop(h) ==
  /\ losses < MaxLosses /\ remote[h].up
  /\ remote' = [remote EXCEPT ![h].up = FALSE]
  /\ Broken(h) /\ losses' = losses + 1
  /\ UNCHANGED value

RemoteStart(h) ==
  /\ ~remote[h].up
  /\ \E c \in Configs[h] : remote' = [remote EXCEPT ![h] = Started(c)]
  /\ UNCHANGED <<K, pipe, value, losses>>
-----------------------------------------------------------------------------
Timer(i) == \E t \in K.timers : t.node = i /\ (ConnectFirst(t) \/ ConnectRetry(t))
Environment == \E h \in Hosts : \/ Advertised(h) \/ LoseConnection(h)
                                \/ RemoteStop(h) \/ RemoteStart(h)

Next == \/ \E i \in Ids : Timer(i) \/ Flush(i) \/ Receive(i) \/ HangUp(i) \/ RemoteReceive(i)
        \/ \E s \in Sources : Update(s)
        \/ Environment

Spec == Init /\ [][Next]_vars

\* sys_run serves every source it finds ready, here and in the remote engines: a timer
\* fires, a readable or writable descriptor is served, a hang-up is noticed.
FairSpec == Spec /\ \A i \in Ids : /\ WF_vars(Timer(i)) /\ WF_vars(Flush(i))
                                   /\ WF_vars(Receive(i)) /\ WF_vars(HangUp(i))
                                   /\ WF_vars(RemoteReceive(i))
-----------------------------------------------------------------------------
(* Properties                                                              *)

Names == (UNION UNION {Configs[h] : h \in Hosts}) \cup Sources \cup {""}

Lines == [kind : {"sinks", "set", "sink", "end", "error"}, name : Names, version : 0..MaxVersion]

\* The tables hold what they may: in particular no node is tried more than Retries + 1 times in a row.
TypeOK ==
  /\ K.node \in [Ids -> [name : Hosts \cup {NoHost}, state : States, attempts : 0..Retries + 1,
                         tag : Nat, sources : SUBSET Sources,
                         fd : {"none", "up", "broken"}, wbuf : Seq(Lines)]]
  /\ K.timers \subseteq [tag : Nat \ {0}, func : {"connect_first", "connect"}, node : Ids]
  /\ pipe \in [Ids -> [out : Seq(Lines), in : Seq(Lines)]]
  /\ \A h \in Hosts : /\ remote[h].up \in BOOLEAN
                      /\ remote[h].sinks \in [DOMAIN remote[h].sinks -> 0..MaxVersion]
                      /\ DOMAIN remote[h].sinks \in Configs[h]
  /\ value \in [Sources -> 1..MaxVersion] /\ losses \in 0..MaxLosses

\* The timers pending are exactly those the nodes remember: none can fire for a node freed
\* meanwhile, and a node that remembers one is called again.  None is pending for a connected
\* node: hkcp_node_connect would overwrite the channel of an open socket and ask for the sinks
\* a second time.
TimersMatchNodes ==
  /\ TypeOK
  /\ \A t \in K.timers : Live(K, t.node) /\ K.node[t.node].tag = t.tag
  /\ \A i \in Ids : K.node[i].tag # 0 => \E t \in K.timers : t.tag = K.node[i].tag
  /\ \A i \in Ids : K.node[i].fd # "none" => K.node[i].tag = 0

\* When a node is ready and nothing is on its way, every sink of the remote engine that
\* carries the name of a local source (not an event) holds the present value of that
\* source, whatever was updated, lost or resent while the connections came and went.
Converged ==
  \A i \in Ids : LET n == K.node[i] IN
    (n.fd = "up" /\ n.state = "READY" /\ n.wbuf = <<>> /\ pipe[i] = EmptyPipe) =>
      \A s \in (Sources \ Events) \cap DOMAIN remote[n.name].sinks :
        remote[n.name].sinks[s] = value[s]

\* A sink of a remote engine never goes back to an older value while that engine runs.
NeverOlder ==
  [][\A h \in Hosts : (remote[h].up /\ remote'[h].up) =>
       \A s \in DOMAIN remote[h].sinks : remote'[h].sinks[s] >= remote[h].sinks[s]]_vars

\* Once nothing breaks any more, a node with a connection scheduled ends ready to serve,
\* or is forgotten.
Settles ==
  \A i \in Ids : (losses = MaxLosses /\ K.node[i].tag # 0)
                   ~> (~Live(K, i) \/ (K.node[i].fd = "up" /\ K.node[i].state = "READY"))

\* hkcp.c: "Try to reconnect immediately".  A node that was lost is connected again, or
\* will be tried again.
KeepsTrying == \A i \in Ids : Live(K, i) => (K.node[i].fd # "none" \/ K.node[i].tag # 0)
=============================================================================
