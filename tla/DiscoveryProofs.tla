-------------------------- MODULE DiscoveryProofs --------------------------
(***************************************************************************)
(* Engines discover each other, for any number of engines, of faults and   *)
(* of starts.                                                              *)
(***************************************************************************)
EXTENDS Discovery, TLAPS

\* An engine that does not know whether its interface is up is about to look, if it watches it.
LinkInv == \A e \in running \cap watches : (e \in up) # (e \in listed) => e \in lowpass

\* Nodes are engines that have something for it.
NodesInv == \A a \in Engines : nodes[a] \subseteq (IF a \in Sources THEN Public \ {a} ELSE {})

\* What makes a know b: it does, or a datagram under way will tell it or call for the answer
\* that tells it, or one of them is about to broadcast, or will when its interface is back.
Told(a, b) == \E d \in net : \/ d.from = b /\ d.to = a
                             \/ d.from = a /\ d.to = b /\ d.type = "request"
Due(a, b) == \/ b \in nodes[a] \/ Told(a, b)
             \/ a \in pending \/ b \in pending \/ a \notin listed \/ b \notin listed
Concerned(a, b) == {a, b} \subseteq running \cap hears /\ Pair(a, b) \notin unsure
DueInv == \A a \in Sources : \A b \in Sinks \ {a} :
            <<a, b>> \in Feeds /\ Concerned(a, b) => Due(a, b)

IInv == TypeOK /\ LinkInv /\ NodesInv /\ DueInv

\* At rest nothing is due any more (net, pending and lowpass are empty).
LEMMA InvImpliesDiscovered == IInv => Discovered
<1> SUFFICES ASSUME IInv PROVE Discovered
  OBVIOUS
<1>1. ASSUME AtRest, NEW a \in Sources, NEW b \in Sinks \ {a}, <<a, b>> \in Feeds,
             Reachable(a, b), Pair(a, b) \notin unsure
      PROVE b \in nodes[a]
  <2>1. Concerned(a, b)
    BY <1>1 DEF Reachable, Concerned
  <2>2. Due(a, b)
    BY <1>1, <2>1 DEF IInv, DueInv
  <2>3. a \in listed /\ b \in listed
    BY <1>1 DEF IInv, LinkInv, AtRest, Reachable
  <2>4. QED BY <1>1, <2>2, <2>3 DEF Due, Told, AtRest
<1>2. QED BY <1>1 DEF Discovered, IInv, NodesInv

\* Sending to some engines tells those that run and are up, and leaves the others unsure unless
\* they will broadcast when their interface is back (udp_send_bcast, udp_srv_send_reply).
LEMMA SendTells ==
  ASSUME NEW type, NEW from \in Engines, NEW tos \in SUBSET Engines, NEW rest, NEW known,
         Send(type, from, tos, rest, known),
         NEW to \in tos, to # from, to \in running, Pair(from, to) \notin unsure'
  PROVE  \/ [type |-> type, from |-> from, to |-> to] \in net'
         \/ from \notin listed \/ to \notin listed
<1>1. CASE from \in up /\ to \in up
  BY <1>1 DEF Send, Datagrams
<1>2. CASE ~(from \in up /\ to \in up)
  <2>1. SUFFICES ASSUME from \in listed, to \in listed PROVE FALSE
    OBVIOUS
  <2>2. Pair(from, to) \in Swallowed(from, tos \cap running)
    BY <1>2, <2>1 DEF Swallowed, Blind
  <2>3. QED BY <2>2 DEF Send
<1>3. QED BY <1>1, <1>2

\* The same of what was under way: it stays, and so do the doubts.
LEMMA SendKeeps ==
  ASSUME NEW type, NEW from, NEW tos, NEW rest, NEW known, Send(type, from, tos, rest, known)
  PROVE  rest \subseteq net' /\ known \subseteq unsure'
BY DEF Send

\* What is sent by an engine with public endpoints to engines is a datagram.
LEMMA SendType ==
  ASSUME NEW type \in {"request", "reply"}, NEW from \in Public, NEW tos \in SUBSET Engines,
         NEW rest \in SUBSET [type : {"request", "reply"}, from : Public, to : Engines],
         NEW known, Send(type, from, tos, rest, known)
  PROVE  net' \subseteq [type : {"request", "reply"}, from : Public, to : Engines]
BY DEF Send, Datagrams

-----------------------------------------------------------------------------
\* Every action keeps the types, LinkInv and NodesInv.
LEMMA BasicsKept == IInv /\ [Next]_vars => TypeOK' /\ LinkInv' /\ NodesInv'
<1> SUFFICES ASSUME IInv, [Next]_vars PROVE TypeOK' /\ LinkInv' /\ NodesInv'
  OBVIOUS
<1> USE DEF IInv
<1>1. ASSUME NEW e \in Engines, AdvertiseNow(e) PROVE TypeOK' /\ LinkInv' /\ NodesInv'
  <2>1. e \in Public /\ Send("request", e, Engines, net, unsure \ {p \in PairsOf(e) : p \subseteq up})
    BY <1>1 DEF AdvertiseNow, TypeOK
  <2>2. net' \subseteq [type : {"request", "reply"}, from : Public, to : Engines]
    BY <2>1, SendType DEF TypeOK
  <2>3. QED BY <1>1, <2>2 DEF AdvertiseNow, TypeOK, LinkInv, NodesInv
<1>2. ASSUME NEW e \in Engines, Check(e) PROVE TypeOK' /\ LinkInv' /\ NodesInv'
  <2>1. LinkInv'
    BY <1>2 DEF Check, Changed, LinkInv
  <2>2. TypeOK'
    BY <1>2 DEF Check, Changed, Advertise, TypeOK
  <2>3. QED BY <1>2, <2>1, <2>2 DEF Check, NodesInv
<1>3. ASSUME NEW d \in net, Receive(d) PROVE TypeOK' /\ LinkInv' /\ NodesInv'
  <2>1. d.to \in Engines /\ d.from \in Public
    BY DEF TypeOK
  <2>2. CASE FromMyself(d)
    BY <1>3, <2>2 DEF Receive, TypeOK, LinkInv, NodesInv
  <2>3. CASE ~FromMyself(d)
    <3>1. nodes' = NodeAdd(d.to, d.from)
      BY <1>3, <2>3 DEF Receive
    <3>2. nodes' \in [Engines -> SUBSET Engines] /\ NodesInv'
      BY <2>1, <2>3, <3>1 DEF NodeAdd, TypeOK, NodesInv, FromMyself, Engines, Public
    <3>3. CASE Replies(d)
      <4>1. Send("reply", d.to, {d.from}, net \ {d}, unsure) /\ d.to \in Public /\ d.from \in Engines
        BY <1>3, <2>1, <2>3, <3>3 DEF Receive, Replies, Engines
      <4>2. net' \subseteq [type : {"request", "reply"}, from : Public, to : Engines]
        BY <4>1, SendType DEF TypeOK
      <4>3. QED BY <1>3, <3>2, <4>2 DEF Receive, TypeOK, LinkInv
    <3>4. CASE ~Replies(d)
      <4>1. net' \subseteq net
        BY <1>3, <2>3, <3>4 DEF Receive, Send, Datagrams
      <4>2. QED BY <1>3, <3>2, <4>1 DEF Receive, TypeOK, LinkInv
    <3>5. QED BY <3>3, <3>4
  <2>4. QED BY <2>2, <2>3
<1>4. ASSUME NEW d \in net, Miss(d) \/ Lose(d) PROVE TypeOK' /\ LinkInv' /\ NodesInv'
  BY <1>4 DEF Miss, Lose, TypeOK, LinkInv, NodesInv
<1>5. ASSUME NEW e \in Engines, Start(e) PROVE TypeOK' /\ LinkInv' /\ NodesInv'
  BY <1>5 DEF Start, Advertise, TypeOK, LinkInv, NodesInv
<1>6. ASSUME NEW e \in Engines, Stop(e) PROVE TypeOK' /\ LinkInv' /\ NodesInv'
  BY <1>6 DEF Stop, TypeOK, LinkInv, NodesInv
<1>7. ASSUME NEW e \in Engines, RecvFails(e) PROVE TypeOK' /\ LinkInv' /\ NodesInv'
  BY <1>7 DEF RecvFails, TypeOK, LinkInv, NodesInv
<1>8. ASSUME NEW e \in Engines, WatchFails(e) \/ LinkDown(e) \/ LinkUp(e)
      PROVE  TypeOK' /\ LinkInv' /\ NodesInv'
  BY <1>8 DEF WatchFails, LinkDown, LinkUp, Watched, TypeOK, LinkInv, NodesInv
<1>9. ASSUME NEW a \in Engines, NEW b \in Engines, Dropped(a, b) \/ GiveUp(a, b)
      PROVE  TypeOK' /\ LinkInv' /\ NodesInv'
  BY <1>9 DEF Dropped, GiveUp, TypeOK, LinkInv, NodesInv
<1>10. CASE UNCHANGED vars
  BY <1>10 DEF vars, TypeOK, LinkInv, NodesInv
<1>11. QED
  BY <1>1, <1>2, <1>3, <1>4, <1>5, <1>6, <1>7, <1>8, <1>9, <1>10 DEF Next, Settle

\* Whatever happens, what makes an engine know another one is not lost: if one kind of it goes,
\* another takes its place, or the two are unsure of each other.
LEMMA DueKept == IInv /\ [Next]_vars => DueInv'
<1> SUFFICES ASSUME IInv, [Next]_vars,
                    NEW a \in Sources, NEW b \in Sinks \ {a}, <<a, b>> \in Feeds, Concerned(a, b)'
             PROVE  Due(a, b)'
  BY DEF DueInv
<1>a. a \in Engines /\ b \in Engines /\ a # b /\ a \in Public /\ b \in Public
  BY DEF Engines, Public
<1>b. Concerned(a, b) => Due(a, b)
  BY DEF IInv, DueInv
<1>c. Pair(a, b) = Pair(b, a)
  BY DEF Pair
<1> USE DEF IInv
<1>1. ASSUME NEW e \in Engines, AdvertiseNow(e) PROVE Due(a, b)'
  <2>1. Send("request", e, Engines, net, unsure \ {p \in PairsOf(e) : p \subseteq up})
    BY <1>1 DEF AdvertiseNow
  <2>2. UNCHANGED <<running, listed, hears, nodes, up>> /\ pending' = pending \ {e}
    BY <1>1 DEF AdvertiseNow
  <2>3. a \in running /\ b \in running /\ Pair(a, b) \notin unsure'
    BY <2>2 DEF Concerned
  <2>4. CASE e = a
    <3>1. \/ [type |-> "request", from |-> a, to |-> b] \in net'
          \/ a \notin listed \/ b \notin listed
      BY <1>a, <2>1, <2>3, <2>4, SendTells
    <3>2. QED BY <2>2, <3>1 DEF Due, Told
  <2>5. CASE e = b
    <3>1. \/ [type |-> "request", from |-> b, to |-> a] \in net'
          \/ a \notin listed \/ b \notin listed
      BY <1>a, <1>c, <2>1, <2>3, <2>5, SendTells
    <3>2. QED BY <2>2, <3>1 DEF Due, Told
  <2>6. CASE e # a /\ e # b
    <3>1. net \subseteq net'
      BY <2>1, SendKeeps
    <3>2. Pair(a, b) \notin PairsOf(e)
      BY <2>6 DEF Pair, PairsOf
    <3>3. Concerned(a, b)
      BY <2>1, <2>2, <3>2, SendKeeps DEF Concerned
    <3>4. QED BY <1>b, <2>2, <2>6, <3>1, <3>3 DEF Due, Told
  <2>7. QED BY <2>4, <2>5, <2>6
<1>2. ASSUME NEW e \in Engines, Check(e) PROVE Due(a, b)'
  <2>1. UNCHANGED <<running, hears, net, nodes>> /\ pending \subseteq pending'
    BY <1>2 DEF Check, Advertise
  <2>2. CASE e \in {a, b} /\ Changed(e)
    <3>1. e \notin listed' \/ e \in pending'
      BY <1>2, <1>a, <2>2 DEF Check, Advertise
    <3>2. QED BY <2>2, <3>1 DEF Due
  <2>3. CASE ~(e \in {a, b} /\ Changed(e))
    <3>1. /\ a \in listed' <=> a \in listed
          /\ b \in listed' <=> b \in listed
      BY <1>2, <2>3 DEF Check
    <3>2. Pair(a, b) \notin unsure
      BY <1>2, <2>3 DEF Check, Concerned, Pair, PairsOf
    <3>3. QED BY <1>b, <2>1, <3>1, <3>2 DEF Concerned, Due, Told
  <2>4. QED BY <2>2, <2>3
<1>3. ASSUME NEW d \in net, Receive(d) PROVE Due(a, b)'
  <2>1. UNCHANGED <<running, listed, hears, pending, up>> /\ a \in running /\ b \in running
    BY <1>3 DEF Receive, Concerned
  <2>2. /\ net \ {d} \subseteq net' /\ unsure \subseteq unsure'
        /\ ~FromMyself(d) => /\ nodes' = NodeAdd(d.to, d.from)
                             /\ Replies(d) => Send("reply", d.to, {d.from}, net \ {d}, unsure)
    BY <1>3, SendKeeps DEF Receive
  <2>3. nodes[a] \subseteq nodes'[a]
    BY <1>3, <1>a, <2>2 DEF Receive, NodeAdd, TypeOK
  <2>4. CASE d.from = b /\ d.to = a
    <3>1. b \in nodes'[a]
      BY <1>a, <2>2, <2>4 DEF FromMyself, NodeAdd, TypeOK
    <3>2. QED BY <3>1 DEF Due
  <2>5. CASE d.from = a /\ d.to = b /\ d.type = "request"
    <3>1. Send("reply", b, {a}, net \ {d}, unsure)
      BY <1>a, <2>2, <2>5 DEF FromMyself, Replies
    <3>2. Pair(b, a) \notin unsure'
      BY <1>c DEF Concerned
    <3>3. \/ [type |-> "reply", from |-> b, to |-> a] \in net'
          \/ a \notin listed \/ b \notin listed
      BY <1>a, <2>1, <3>1, <3>2, SendTells
    <3>4. QED BY <2>1, <3>3 DEF Due, Told
  <2>6. CASE ~(d.from = b /\ d.to = a) /\ ~(d.from = a /\ d.to = b /\ d.type = "request")
    <3>1. Told(a, b) => Told(a, b)'
      BY <2>2, <2>6 DEF Told
    <3>2. Concerned(a, b)
      BY <2>1, <2>2 DEF Concerned
    <3>3. QED BY <1>b, <2>1, <2>3, <3>1, <3>2 DEF Due
  <2>7. QED BY <2>4, <2>5, <2>6
<1>4. ASSUME NEW d \in net, Miss(d) PROVE Due(a, b)'
  <2>1. UNCHANGED <<running, listed, hears, pending, up, nodes>> /\ net' = net \ {d}
    BY <1>4 DEF Miss
  <2>2. Concerned(a, b)
    BY <1>4, <2>1 DEF Miss, Concerned
  <2>3. CASE d.from \in {a, b} /\ d.to \in {a, b} /\ d.from # d.to
    <3>1. d.to \in running \cap hears /\ d.to \notin up
      BY <1>4, <2>1, <2>2, <2>3 DEF Miss, Concerned
    <3>2. Pair(d.from, d.to) = Pair(a, b)
      BY <2>3 DEF Pair
    <3>3. Swallowed(d.from, {d.to}) \subseteq unsure'
      BY <1>4, <3>1 DEF Miss
    <3>4. d.to \notin listed
      BY <2>3, <3>1, <3>2, <3>3 DEF Swallowed, Blind, Concerned
    <3>5. QED BY <2>1, <2>3, <3>4 DEF Due
  <2>4. CASE ~(d.from \in {a, b} /\ d.to \in {a, b} /\ d.from # d.to)
    <3>1. Told(a, b) => Told(a, b)'
      BY <1>a, <2>1, <2>4 DEF Told
    <3>2. QED BY <1>b, <2>1, <2>2, <3>1 DEF Due
  <2>5. QED BY <2>3, <2>4
<1>5. ASSUME NEW d \in net, Lose(d) PROVE Due(a, b)'
  <2>1. UNCHANGED <<running, listed, hears, pending, nodes>> /\ net' = net \ {d}
    BY <1>5 DEF Lose
  <2>2. Concerned(a, b) /\ Pair(d.from, d.to) # Pair(a, b)
    BY <1>5, <2>1 DEF Lose, Concerned
  <2>3. Told(a, b) => Told(a, b)'
    BY <1>c, <2>1, <2>2 DEF Told
  <2>4. QED BY <1>b, <2>1, <2>2, <2>3 DEF Due
<1>6. ASSUME NEW e \in Engines, Start(e) PROVE Due(a, b)'
  <2>1. CASE e \in {a, b}
    <3>1. e \in pending'
      BY <1>6, <1>a, <2>1 DEF Start, Advertise
    <3>2. QED BY <2>1, <3>1 DEF Due
  <2>2. CASE e \notin {a, b}
    <3>1. Pair(a, b) \notin PairsOf(e)
      BY <2>2 DEF Pair, PairsOf
    <3>2. Concerned(a, b)
      BY <1>6, <2>2, <3>1 DEF Start, Concerned
    <3>3. nodes'[a] = nodes[a] /\ net' = net /\ pending \subseteq pending'
          /\ (a \in listed' <=> a \in listed) /\ (b \in listed' <=> b \in listed)
      BY <1>6, <1>a, <2>2 DEF Start, Advertise, TypeOK
    <3>4. QED BY <1>b, <3>2, <3>3 DEF Due, Told
  <2>3. QED BY <2>1, <2>2
<1>7. ASSUME NEW e \in Engines, Stop(e) PROVE Due(a, b)'
  <2>1. e \notin {a, b} /\ Concerned(a, b)
    BY <1>7 DEF Stop, Concerned
  <2>2. nodes'[a] = nodes[a]
    BY <1>7, <1>a, <2>1 DEF Stop, TypeOK
  <2>3. QED BY <1>7, <1>b, <2>1, <2>2 DEF Stop, Due, Told
<1>8. ASSUME NEW e \in Engines, RecvFails(e) \/ WatchFails(e) \/ LinkDown(e) \/ LinkUp(e)
      PROVE  Due(a, b)'
  BY <1>8, <1>b DEF RecvFails, WatchFails, LinkDown, LinkUp, Concerned, Due, Told
<1>9. ASSUME NEW x \in Engines, NEW y \in Engines, Dropped(x, y) PROVE Due(a, b)'
  <2>1. UNCHANGED <<running, listed, hears, pending, net, unsure>> /\ ~(x = a /\ y = b)
    BY <1>9 DEF Dropped
  <2>2. b \in nodes[a] => b \in nodes'[a]
    BY <1>9, <1>a, <2>1 DEF Dropped, TypeOK
  <2>3. QED BY <1>b, <2>1, <2>2 DEF Concerned, Due, Told
<1>10. ASSUME NEW x \in Engines, NEW y \in Engines, GiveUp(x, y) PROVE Due(a, b)'
  <2>1. UNCHANGED <<running, listed, hears, pending, net>>
    BY <1>10 DEF GiveUp
  <2>2. Concerned(a, b)
    BY <1>10, <2>1 DEF GiveUp, Concerned
  <2>3. CASE x = a /\ y = b
    \* Given up, the two are unsure of each other, unless one will broadcast.
    <3>1. Pair(a, b) \notin GivenUp(a, b)
      BY <1>10, <2>3 DEF GiveUp, Concerned
    <3>2. a \notin listed \/ b \notin listed
      BY <2>2, <3>1 DEF GivenUp, Concerned
    <3>3. QED BY <2>1, <3>2 DEF Due
  <2>4. CASE ~(x = a /\ y = b)
    <3>1. b \in nodes[a] => b \in nodes'[a]
      BY <1>10, <1>a, <2>4 DEF GiveUp, TypeOK
    <3>2. QED BY <1>b, <2>1, <2>2, <3>1 DEF Due, Told
  <2>5. QED BY <2>3, <2>4
<1>11. CASE UNCHANGED vars
  BY <1>11, <1>b DEF vars, Concerned, Due, Told
<1>12. QED
  BY <1>1, <1>2, <1>3, <1>4, <1>5, <1>6, <1>7, <1>8, <1>9, <1>10, <1>11 DEF Next, Settle
-----------------------------------------------------------------------------
\* Engines discover each other (hk_advertise_event, hk_advertise, netif_check_interfaces,
\* hkcp_node_add, hkcp_node_recv_sinks, hkcp_node_connect): at rest an engine has among its
\* nodes every engine with a sink for one of its sources, for any number of engines, starts,
\* removals and faults.
THEOREM EnginesDiscovered == Spec => []Discovered
<1>1. Init => IInv
  BY DEF Init, IInv, TypeOK, LinkInv, NodesInv, DueInv, Concerned
<1>2. IInv /\ [Next]_vars => IInv'
  BY BasicsKept, DueKept DEF IInv
<1>3. QED BY <1>1, <1>2, InvImpliesDiscovered, PTL DEF Spec
=============================================================================
