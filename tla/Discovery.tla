----------------------------- MODULE Discovery -----------------------------
(***************************************************************************)
(* Engines that find each other on a local network: a second after its     *)
(* first public endpoint is registered an engine broadcasts a request,     *)
(* whoever has public endpoints replies, and requests and replies alike    *)
(* make an engine with public sources add the sender to its HKCP nodes.    *)
(* An engine broadcasts again when it notices that its network interface   *)
(* came back, which it looks at once five seconds have passed without a    *)
(* change.  An added node is connected to and asked for its sinks, and     *)
(* removed when none of them matches a source, or when connections to it   *)
(* keep failing (module HkcpNode has the connection itself).  Datagrams    *)
(* are delivered in any order, or lost; engines stop and start.  The tiles *)
(* are loaded before the event loop runs, so a start is one step.  The     *)
(* advertising of MQTT is left out.                                        *)
(***************************************************************************)
EXTENDS Integers

CONSTANTS Sources, Sinks,    \* the engines with public sources, and with public sinks
          Others,            \* the engines without
          Feeds,             \* <<a, b>>: a public sink of b has the name of a public source of a
          MaxFaults          \* how many stops, outages, lost datagrams and failures there are

Public == Sources \cup Sinks
Engines == Public \cup Others
DiscoveryAssumption == /\ Others \cap Public = {} /\ MaxFaults \in Nat
                       /\ Feeds \subseteq Sources \X Sinks
ASSUME DiscoveryAssumption

VARIABLES running,     \* the engines that run
          up,          \* the engines whose interface is up
          listed,      \* ifs->interfaces: the engines that know an interface
          lowpass,     \* w->timeout_tag: those about to look at their interfaces
          pending,     \* adv->tag: those about to broadcast
          hears,       \* those whose UDP socket is still watched
          watches,     \* those whose netlink socket is still watched
          nodes,       \* hkcp->nodes, for each engine
          net,         \* the datagrams under way
          unsure,      \* the pairs of engines of which a datagram went lost, or a connection
                       \* was given up, and that nothing in the code will make try again
          faults

vars == <<running, up, listed, lowpass, pending, hears, watches, nodes, net,
          unsure, faults>>

Init == /\ running = {} /\ up = Engines /\ listed = {} /\ lowpass = {}
        /\ pending = {} /\ hears = {} /\ watches = {}
        /\ nodes = [e \in Engines |-> {}]
        /\ net = {} /\ unsure = {}
        /\ faults = 0
-----------------------------------------------------------------------------
Pair(a, b) == {a, b}
PairsOf(e) == {Pair(e, b) : b \in Engines}
Fault == faults < MaxFaults /\ faults' = faults + 1

\* A datagram that an interface swallows is not repeated, unless its engine knows that the
\* interface is down: it will broadcast when it is up.
Blind(e) == e \notin up /\ e \in listed
Swallowed(from, tos) == {Pair(from, to) : to \in {x \in tos \ {from} : Blind(from) \/ Blind(x)}}

\* udp_send_bcast and udp_srv_send_reply, among engines that run
Datagrams(type, from, tos) ==
  {d \in [type : {type}, from : {from}, to : tos] : from \in up /\ d.to \in up \cap running}
Send(type, from, tos, rest, known) ==
  /\ net' = rest \cup Datagrams(type, from, tos)
  /\ unsure' = known \cup Swallowed(from, tos \cap running)

\* hk_advertise: the socket is open while the engine runs, and a pending timer is renewed.
Advertise(e) == IF e \in Public THEN pending \cup {e} ELSE pending
-----------------------------------------------------------------------------
\* hk_advertise_init, udp_srv_init, netif_init, then each public endpoint is registered.
Start(e) ==
  /\ e \notin running
  /\ running' = running \cup {e}
  /\ hears' = hears \cup {e} /\ watches' = watches \cup {e}
  /\ listed' = IF e \in up THEN listed \cup {e} ELSE listed \ {e}
  /\ pending' = Advertise(e)
  /\ nodes' = [nodes EXCEPT ![e] = {}]
  /\ unsure' = unsure \ PairsOf(e)
  /\ UNCHANGED <<up, lowpass, net, faults>>

\* The engine exits or is killed.
Stop(e) ==
  /\ e \in running /\ Fault
  /\ running' = running \ {e}
  /\ lowpass' = lowpass \ {e} /\ pending' = pending \ {e}
  /\ hears' = hears \ {e} /\ watches' = watches \ {e}
  /\ nodes' = [nodes EXCEPT ![e] = {}]
  /\ UNCHANGED <<up, listed, net, unsure>>

\* hk_advertise_now
AdvertiseNow(e) ==
  /\ e \in pending /\ pending' = pending \ {e}
  /\ Send("request", e, Engines, net, unsure \ {p \in PairsOf(e) : p \subseteq up})
  /\ UNCHANGED <<running, up, listed, lowpass, hears, watches, nodes, faults>>

\* hkcp_node_add
NodeAdd(e, ip) == IF e \in Sources THEN [nodes EXCEPT ![e] = @ \cup {ip}] ELSE nodes

\* udp_srv_event, which rejects what the engine sent itself, and hk_advertise_event
FromMyself(d) == d.from = d.to
Replies_ToReplies(d) == d.to \in Public
Replies_Never(d) == FALSE
Replies(d) == d.type = "request" /\ d.to \in Public
Receive(d) ==
  /\ d.to \in running \cap up \cap hears
  /\ IF FromMyself(d) THEN net' = net \ {d} /\ UNCHANGED <<nodes, unsure>>
     ELSE /\ nodes' = NodeAdd(d.to, d.from)
          /\ Send("reply", d.to, IF Replies(d) THEN {d.from} ELSE {}, net \ {d}, unsure)
  /\ UNCHANGED <<running, up, listed, lowpass, pending, hears, watches, faults>>

\* Nobody receives it.
Miss(d) ==
  /\ d.to \notin running \cap up \cap hears
  /\ net' = net \ {d}
  /\ unsure' = IF d.to \in running THEN unsure \cup Swallowed(d.from, {d.to}) ELSE unsure
  /\ UNCHANGED <<running, up, listed, lowpass, pending, hears, watches, nodes, faults>>
Lose(d) ==
  /\ Fault
  /\ net' = net \ {d} /\ unsure' = unsure \cup {Pair(d.from, d.to)}
  /\ UNCHANGED <<running, up, listed, lowpass, pending, hears, watches, nodes>>

\* recvfrom fails, and udp_srv_event returns 0: the event loop drops the socket.
RecvFails(e) == /\ e \in hears /\ Fault
                /\ hears' = hears \ {e}
                /\ UNCHANGED <<running, up, listed, lowpass, pending, watches, nodes, net, unsure>>

\* netif_watch_event: a change of the link arms the timer again, if it is still watched.
Watched(e) == lowpass' = IF e \in watches THEN lowpass \cup {e} ELSE lowpass
LinkDown(e) == /\ e \in up /\ Fault
               /\ up' = up \ {e} /\ Watched(e)
               /\ UNCHANGED <<running, listed, pending, hears, watches, nodes, net, unsure>>
LinkUp(e) == /\ e \notin up
             /\ up' = up \cup {e} /\ Watched(e)
             /\ UNCHANGED <<running, listed, pending, hears, watches, nodes, net, unsure, faults>>

\* recvmsg fails, and netif_watch_event returns 0: the event loop drops that socket.
WatchFails(e) == /\ e \in watches /\ Fault
                 /\ watches' = watches \ {e}
                 /\ UNCHANGED <<running, up, listed, lowpass, pending, hears, nodes, net, unsure>>

\* netif_watch_process and netif_check_interfaces
Changed_OnlyDown(e) == e \notin up /\ e \in listed
Changed(e) == (e \in up) # (e \in listed)
Check(e) ==
  /\ e \in lowpass /\ lowpass' = lowpass \ {e}
  /\ IF Changed(e) /\ e \in up
     THEN listed' = listed \cup {e} /\ pending' = Advertise(e) /\ UNCHANGED unsure
     ELSE IF Changed(e)
     THEN listed' = listed \ {e} /\ unsure' = unsure \ PairsOf(e) /\ UNCHANGED pending
     ELSE UNCHANGED <<listed, pending, unsure>>
  /\ UNCHANGED <<running, up, hears, watches, nodes, net, faults>>

\* hkcp_node_recv_sinks at the end of the list of b's sinks: no source of a is attached.
Dropped(a, b) ==
  /\ {a, b} \subseteq running /\ b \in nodes[a]
  /\ <<a, b>> \notin Feeds
  /\ nodes' = [nodes EXCEPT ![a] = @ \ {b}]
  /\ UNCHANGED <<running, up, listed, lowpass, pending, hears, watches, net, unsure, faults>>

\* hkcp_node_connect has failed too often: b has stopped, an interface is down, or b refuses.
\* Only an engine that knows that its interface is down will broadcast again.
Refused(a, b) == b \in running /\ {a, b} \subseteq up
GivenUp(a, b) == IF b \in running /\ {a, b} \subseteq listed THEN {Pair(a, b)} ELSE {}
GiveUp(a, b) ==
  /\ a \in running /\ b \in nodes[a]
  /\ IF Refused(a, b) THEN Fault ELSE UNCHANGED faults
  /\ nodes' = [nodes EXCEPT ![a] = @ \ {b}]
  /\ unsure' = unsure \cup GivenUp(a, b)
  /\ UNCHANGED <<running, up, listed, lowpass, pending, hears, watches, net>>

Settle == \/ \E e \in Engines : AdvertiseNow(e) \/ Check(e)
          \/ \E d \in net : Receive(d) \/ Miss(d)
Next == \/ Settle
        \/ \E d \in net : Lose(d)
        \/ \E e \in Engines : Start(e) \/ Stop(e) \/ RecvFails(e) \/ WatchFails(e)
                            \/ LinkDown(e) \/ LinkUp(e)
        \/ \E a, b \in Engines : Dropped(a, b) \/ GiveUp(a, b)

\* Timers fire, and datagrams arrive or are lost.
Spec == Init /\ [][Next]_vars
FairSpec == Spec /\ WF_vars(Settle)
-----------------------------------------------------------------------------
TypeOK ==
  /\ running \subseteq Engines /\ up \subseteq Engines /\ listed \subseteq Engines
  /\ lowpass \subseteq running /\ pending \subseteq running \cap Public
  /\ hears \subseteq running /\ watches \subseteq running
  /\ nodes \in [Engines -> SUBSET Engines]
  /\ net \subseteq [type : {"request", "reply"}, from : Public, to : Engines]

AtRest == net = {} /\ pending = {} /\ lowpass = {}
Reachable(a, b) == {a, b} \subseteq running \cap up \cap hears \cap watches

\* At rest an engine has among its nodes every engine with a public sink for one of its public
\* sources, in whatever order they were started, stopped, cut off, refused and dropped, but for
\* those whose datagrams or connections went lost where nothing makes the code try again; and
\* it has no node without public endpoints, itself included, nor any if it has no public source
\* (hk_advertise_event, netif_check_interfaces, hkcp_node_add, hkcp_node_recv_sinks).
Discovered ==
  /\ TypeOK
  /\ \A a \in Engines : nodes[a] \subseteq (IF a \in Sources THEN Public \ {a} ELSE {})
  /\ AtRest => \A a \in Sources : \A b \in Sinks \ {a} :
                 <<a, b>> \in Feeds /\ Reachable(a, b) /\ Pair(a, b) \notin unsure => b \in nodes[a]

\* Whatever was started, stopped, cut off and lost, the exchanges end: no answer calls for
\* another one, and no timer arms itself again (hk_advertise_event, which falls through from
\* requests to replies, hk_advertise_now, netif_check_interfaces).
ComesToRest == <>[]AtRest
=============================================================================
