----------------------------- MODULE HkcpProofs -----------------------------
(***************************************************************************)
(* Theorems about the nodes of HKCP, for any number of remote engines,     *)
(* sources, retries and losses.                                            *)
(***************************************************************************)
EXTENDS HkcpNode, SequenceTheorems, FiniteSetTheorems, WellFoundedInduction, TLAPS

\* What a node sends.
Requests == [kind : {"sinks", "set"}, name : Names, version : 0..MaxVersion]

Nodes == [name : Hosts \cup {NoHost}, state : States, attempts : 0..Retries + 1,
          tag : Nat, sources : SUBSET Sources,
          fd : {"none", "up", "broken"}, wbuf : Seq(Requests)]

Timers == [tag : Nat \ {0}, func : {"connect_first", "connect"}, node : Ids]

\* An entry without a name is as it was at the start.
NodeOK(n) == n \in Nodes /\ (n.name = NoHost => n = FreeNode)

\* A set of naturals that is not empty has a least element.
LEMMA LeastNat == ASSUME NEW S \in SUBSET Nat, S # {}
                  PROVE  \E m \in S : \A n \in S : m <= n
<1> DEFINE R == {ss \in Nat \X Nat : ss[1] < ss[2]}
<1>1. IsWellFoundedOn(R, Nat)
  BY NatLessThanWellFounded DEF OpToRel
<1>2. \A m, n \in Nat : ~(<<n, m>> \in R) => m <= n
  OBVIOUS
<1> HIDE DEF R
<1>3. PICK m \in S : \A n \in S : ~(<<n, m>> \in R)
  BY <1>1, WFMin
<1>4. QED BY <1>2, <1>3

LEMMA RequestsAreLines == Requests \subseteq Lines
BY DEF Requests, Lines, Names

LEMMA MinIn == ASSUME NEW S \in SUBSET Nat, S # {} PROVE Min(S) \in S
BY LeastNat DEF Min

LEMMA FreeNodeOK == NodeOK(FreeNode)
BY HkcpAssumption DEF NodeOK, Nodes, FreeNode, States, HkcpAssumption

LEMMA ConnectedOK ==
  ASSUME NEW n, NodeOK(n), n.name # NoHost
  PROVE  NodeOK(Connected(n)) /\ Connected(n).name = n.name /\ Connected(n).tag = 0
<1>1. AskSinks \in Requests
  BY HkcpAssumption DEF AskSinks, Line, Requests, Names, HkcpAssumption
<1>2. Connected(n) = [n EXCEPT !.fd = "up", !.tag = 0, !.state = "SINKS", !.wbuf = Append(n.wbuf, AskSinks)]
  BY DEF Connected, Queue, NodeOK, Nodes
<1>3. Append(n.wbuf, AskSinks) \in Seq(Requests)
  BY <1>1 DEF NodeOK, Nodes
<1>4. n \in Nodes
  BY DEF NodeOK
<1>5. Connected(n).name = n.name /\ Connected(n).tag = 0
  BY <1>2, <1>4 DEF Nodes
<1>6. Connected(n) \in Nodes
  <2>1. Connected(n) = [name |-> n.name, state |-> "SINKS", attempts |-> n.attempts, tag |-> 0,
                        sources |-> n.sources, fd |-> "up", wbuf |-> Append(n.wbuf, AskSinks)]
    BY <1>2, <1>4 DEF Nodes
  <2>2. "SINKS" \in States /\ 0 \in Nat
    BY DEF States
  <2>3. QED BY <2>1, <2>2, <1>3, <1>4 DEF Nodes
<1>7. QED BY <1>5, <1>6 DEF NodeOK

\* The fields of a node.
LEMMA NodeFields ==
  ASSUME NEW n \in Nodes
  PROVE  n = [name |-> n.name, state |-> n.state, attempts |-> n.attempts, tag |-> n.tag,
              sources |-> n.sources, fd |-> n.fd, wbuf |-> n.wbuf]
BY DEF Nodes
-----------------------------------------------------------------------------
(* The table and the timers                                                *)

Tables == [node : [Ids -> Nodes], timers : SUBSET Timers]

\* One entry per host.
OneEntry(k) == \A i, j \in Ids :
                 k.node[i].name = k.node[j].name /\ k.node[i].name # NoHost => i = j

\* A timer is remembered by its node, a node that remembers one has one, and timers share
\* neither nodes nor tags.
Paired(k) == /\ \A t \in k.timers : k.node[t.node].tag = t.tag
             /\ \A i \in Ids : k.node[i].tag # 0 => \E t \in k.timers : t.node = i
             /\ \A t, u \in k.timers : t.node = u.node \/ t.tag = u.tag => t = u

\* A connection is tried again only Retries times.
Counted(k) == \A t \in k.timers : t.func = "connect" => k.node[t.node].attempts <= Retries

TableOK(k) == /\ k \in Tables /\ \A i \in Ids : NodeOK(k.node[i])
              /\ OneEntry(k) /\ Paired(k) /\ Counted(k)

\* No connection is scheduled for a node that has one.
Unscheduled(n) == n.fd # "none" => n.tag = 0

\* The table with another node in an entry.
Put(k, i, n) == [node |-> [k.node EXCEPT ![i] = n], timers |-> k.timers]

LEMMA TableFields ==
  ASSUME NEW k, TableOK(k)
  PROVE  /\ k = [node |-> k.node, timers |-> k.timers]
         /\ k.node \in [Ids -> Nodes] /\ k.timers \in SUBSET Timers
         /\ \A t \in k.timers : t.node \in Ids /\ t.tag \in Nat \ {0}
BY DEF TableOK, Tables, Timers

\* A node that remembers no timer has none.
LEMMA NoTimer ==
  ASSUME NEW k, TableOK(k), NEW i \in Ids, k.node[i].tag = 0
  PROVE  \A t \in k.timers : t.node # i
BY TableFields DEF TableOK, Paired

LEMMA PutOK ==
  ASSUME NEW k, TableOK(k), NEW i \in Ids, NEW n, NodeOK(n),
         n.tag = k.node[i].tag, n.tag = 0 \/ n.attempts <= Retries \/ n.attempts = k.node[i].attempts,
         \/ n.name \in {k.node[i].name, NoHost}
         \/ \A j \in Ids : k.node[j].name # n.name
  PROVE  TableOK(Put(k, i, n))
<1> DEFINE m == Put(k, i, n)
<1>1. m.node = [k.node EXCEPT ![i] = n] /\ m.timers = k.timers
  BY DEF Put
<1>2. m \in Tables
  BY TableFields DEF Put, Tables, NodeOK
<1>3. /\ k.node \in [Ids -> Nodes] /\ m.node[i] = n
      /\ \A j \in Ids \ {i} : m.node[j] = k.node[j]
      /\ \A t \in k.timers : t.node \in Ids /\ t.tag \in Nat \ {0}
  BY <1>1, TableFields
<1>4. \A j \in Ids : NodeOK(m.node[j])
  BY <1>3 DEF TableOK
<1>5. OneEntry(m)
  BY <1>3 DEF TableOK, OneEntry
<1>6. \A j \in Ids : m.node[j].tag = k.node[j].tag
  BY <1>3
<1>7. Paired(m)
  BY <1>1, <1>3, <1>6 DEF TableOK, Paired
<1>8. Counted(m)
  BY <1>1, <1>3, NoTimer DEF TableOK, Counted
<1>9. QED BY <1>2, <1>4, <1>5, <1>7, <1>8 DEF TableOK

\* The table once the timer of a node has fired for the last time or was removed.
Freed(k, i, n) == [node |-> [k.node EXCEPT ![i] = n], timers |-> {t \in k.timers : t.node # i}]

LEMMA FreedOK ==
  ASSUME NEW k, TableOK(k), NEW i \in Ids, NEW n, NodeOK(n),
         n.tag = 0, n.name \in {k.node[i].name, NoHost}
  PROVE  TableOK(Freed(k, i, n))
<1> DEFINE m == Freed(k, i, n)
<1>1. m.node = [k.node EXCEPT ![i] = n] /\ m.timers = {t \in k.timers : t.node # i}
  BY DEF Freed
<1>2. m \in Tables
  BY TableFields DEF Freed, Tables, NodeOK
<1>3. /\ k.node \in [Ids -> Nodes] /\ m.node[i] = n
      /\ \A j \in Ids \ {i} : m.node[j] = k.node[j]
      /\ \A t \in k.timers : t.node \in Ids /\ t.tag \in Nat \ {0}
  BY <1>1, TableFields
<1>4. \A j \in Ids : NodeOK(m.node[j])
  BY <1>3 DEF TableOK
<1>5. OneEntry(m)
  BY <1>3 DEF TableOK, OneEntry
<1>7. Paired(m)
  BY <1>1, <1>3 DEF TableOK, Paired
<1>8. Counted(m)
  BY <1>1, <1>3 DEF TableOK, Counted
<1>9. QED BY <1>2, <1>4, <1>5, <1>7, <1>8 DEF TableOK

LEMMA IdsFinite == IsFiniteSet(Ids) /\ Cardinality(Ids) = Cardinality(Hosts) /\ Cardinality(Hosts) \in Nat
<1>1. Cardinality(Hosts) \in Nat
  BY HkcpAssumption, FS_CardinalityType DEF HkcpAssumption
<1>2. IsFiniteSet(Ids) /\ Cardinality(Ids) = Cardinality(Hosts)
  BY <1>1, FS_Interval DEF Ids
<1>3. QED BY <1>1, <1>2

\* sys_timeout finds a tag that no timer and no node holds.
LEMMA TagIsNew ==
  ASSUME NEW k, TableOK(k)
  PROVE  /\ NewTag(k) \in Nat \ {0}
         /\ \A i \in Ids : k.node[i].tag # NewTag(k)
         /\ \A t \in k.timers : t.tag # NewTag(k)
<1> DEFINE N == Cardinality(Hosts)
           tags == {k.node[i].tag : i \in Ids}
           used == tags \cup {t.tag : t \in k.timers}
           S == (1..2 * N + 1) \ used
<1>1. N \in Nat /\ IsFiniteSet(Ids) /\ Cardinality(Ids) = N
  BY IdsFinite
<1>2. used = tags
  BY TableFields DEF TableOK, Paired
<1>3. S # {}
  <2>1. SUFFICES ASSUME 1..2 * N + 1 \subseteq tags PROVE FALSE
    BY <1>2
  <2> DEFINE f == [x \in 1..2 * N + 1 |-> CHOOSE i \in Ids : k.node[i].tag = x]
  <2>2. \A x \in 1..2 * N + 1 : f[x] \in Ids /\ k.node[f[x]].tag = x
    BY <2>1
  <2>3. IsFiniteSet(1..2 * N + 1) /\ Cardinality(1..2 * N + 1) = 2 * N + 1
    BY <1>1, FS_Interval
  <2>4. f \in [1..2 * N + 1 -> Ids]
    BY <2>2
  <2>5. N < 2 * N + 1
    BY <1>1
  <2>6. PICK x \in 1..2 * N + 1, y \in 1..2 * N + 1 : x # y /\ f[x] = f[y]
    <3>1. IsFiniteSet(1..2 * N + 1) /\ IsFiniteSet(Ids) /\ Cardinality(Ids) < Cardinality(1..2 * N + 1)
      BY <1>1, <2>3, <2>5
    <3> HIDE DEF f
    <3>2. QED BY <2>4, <3>1, FS_PigeonHole
  <2>7. QED BY <2>2, <2>6
<1>4. S \in SUBSET Nat
  BY <1>1
<1>5. NewTag(k) \in S
  BY <1>3, <1>4, MinIn DEF NewTag
<1>6. QED BY <1>4, <1>5

\* The node once a timer is scheduled for it.
Tagged(n, tag) == [n EXCEPT !.tag = tag]

LEMMA TaggedOK ==
  ASSUME NEW n, NodeOK(n), n.name # NoHost, NEW tag \in Nat
  PROVE  NodeOK(Tagged(n, tag)) /\ Tagged(n, tag).name = n.name /\ Tagged(n, tag).tag = tag
         /\ Tagged(n, tag).attempts = n.attempts
<1>1. n \in Nodes
  BY DEF NodeOK
<1>2. Tagged(n, tag) = [name |-> n.name, state |-> n.state, attempts |-> n.attempts, tag |-> tag,
                        sources |-> n.sources, fd |-> n.fd, wbuf |-> n.wbuf]
  BY <1>1 DEF Tagged, Nodes
<1>3. Tagged(n, tag) \in Nodes
  BY <1>1, <1>2 DEF Nodes
<1>4. QED BY <1>2, <1>3 DEF NodeOK

LEMMA ArmOK ==
  ASSUME NEW k, TableOK(k), NEW i \in Ids, k.node[i].name # NoHost, k.node[i].tag = 0,
         NEW func \in {"connect_first", "connect"},
         func = "connect" => k.node[i].attempts <= Retries
  PROVE  /\ TableOK(Arm(k, i, func))
         /\ Arm(k, i, func).node = [k.node EXCEPT ![i] = Tagged(k.node[i], NewTag(k))]
<1> DEFINE m == Arm(k, i, func)
           tag == NewTag(k)
           n == Tagged(k.node[i], tag)
           t0 == [tag |-> tag, func |-> func, node |-> i]
<1>1. m.node = [k.node EXCEPT ![i] = n] /\ m.timers = k.timers \cup {t0} /\ m = [node |-> m.node, timers |-> m.timers]
  <2>1. k = [node |-> k.node, timers |-> k.timers] /\ k.node \in [Ids -> Nodes]
    BY TableFields
  <2>2. m = [node |-> [k.node EXCEPT ![i] = n], timers |-> k.timers \cup {t0}]
    <3>1. m.node = [k.node EXCEPT ![i] = n]
      BY <2>1 DEF Arm, Tagged
    <3>2. m.timers = k.timers \cup {t0}
      BY <2>1 DEF Arm
    <3>3. m = [node |-> m.node, timers |-> m.timers]
      <4>1. m = [[k EXCEPT !.node = [k.node EXCEPT ![i] = n]] EXCEPT !.timers = k.timers \cup {t0}]
        BY <2>1, <3>1 DEF Arm, Tagged
      <4>2. QED BY <2>1, <4>1
    <3>4. QED BY <3>1, <3>2, <3>3
  <2>3. QED BY <2>2
<1>2. tag \in Nat \ {0} /\ (\A j \in Ids : k.node[j].tag # tag) /\ (\A t \in k.timers : t.tag # tag)
  BY TagIsNew
<1>3. NodeOK(n) /\ n.name = k.node[i].name /\ n.tag = tag /\ n.attempts = k.node[i].attempts
  BY <1>2, TaggedOK DEF TableOK
<1>4. /\ k.node \in [Ids -> Nodes] /\ m.node[i] = n
      /\ \A j \in Ids \ {i} : m.node[j] = k.node[j]
      /\ \A t \in k.timers : t.node \in Ids /\ t.tag \in Nat \ {0} /\ t.node # i
  BY <1>1, TableFields, NoTimer
<1>5. m \in Tables
  <2>1. t0 \in Timers
    BY <1>2 DEF Timers
  <2>2. m.node \in [Ids -> Nodes]
    BY <1>1, <1>3, <1>4 DEF NodeOK
  <2>3. QED BY <1>1, <2>1, <2>2, TableFields DEF Tables
<1>6. \A j \in Ids : NodeOK(m.node[j])
  BY <1>3, <1>4 DEF TableOK
<1>7. OneEntry(m)
  BY <1>3, <1>4 DEF TableOK, OneEntry
<1>8. Paired(m)
  <2>1. t0.node = i /\ t0.tag = tag
    OBVIOUS
  <2>2. \A t \in m.timers : m.node[t.node].tag = t.tag
    BY <1>1, <1>3, <1>4, <2>1 DEF TableOK, Paired
  <2>3. \A j \in Ids : m.node[j].tag # 0 => \E t \in m.timers : t.node = j
    BY <1>1, <1>4, <2>1 DEF TableOK, Paired
  <2>4. \A t, u \in m.timers : t.node = u.node \/ t.tag = u.tag => t = u
    BY <1>1, <1>2, <1>4, <2>1 DEF TableOK, Paired
  <2>5. QED BY <2>2, <2>3, <2>4 DEF Paired
<1>9. Counted(m)
  BY <1>1, <1>3, <1>4 DEF TableOK, Counted
<1>10. QED BY <1>1, <1>5, <1>6, <1>7, <1>8, <1>9 DEF TableOK
-----------------------------------------------------------------------------
(* Operations on the table                                                 *)

\* hkcp_node_retrieve and hkcp_node_alloc never fail: there is an entry per host.
LEMMA EntryFound ==
  ASSUME NEW k, TableOK(k), NEW h \in Hosts
  PROVE  /\ EntryFor(k, h) \in Ids
         /\ \/ k.node[EntryFor(k, h)].name = h
            \/ /\ k.node[EntryFor(k, h)].name = NoHost
               /\ \A j \in Ids : k.node[j].name # h
<1>1. CASE \E i \in Ids : k.node[i].name = h
  BY <1>1 DEF EntryFor
<1>2. CASE \A i \in Ids : k.node[i].name # h
  <2> DEFINE S == {i \in Ids : ~Live(k, i)}
             f == [i \in Ids |-> k.node[i].name]
  <2>1. S # {}
    <3>1. SUFFICES ASSUME S = {} PROVE FALSE
      OBVIOUS
    <3>2. \A i \in Ids : k.node[i].name \in Hosts \ {h}
      <4>1. \A i \in Ids : k.node[i].name # NoHost /\ k.node[i] \in Nodes
        BY <3>1, TableFields DEF Live
      <4>2. \A i \in Ids : k.node[i].name \in Hosts
        BY <4>1 DEF Nodes
      <4>3. QED BY <1>2, <4>2
    <3>3. f \in [Ids -> Hosts \ {h}]
      BY <3>2
    <3>4. IsFiniteSet(Hosts \ {h}) /\ Cardinality(Hosts \ {h}) = Cardinality(Hosts) - 1
      BY HkcpAssumption, FS_RemoveElement DEF HkcpAssumption
    <3>5. IsFiniteSet(Ids) /\ Cardinality(Hosts \ {h}) < Cardinality(Ids)
      BY <3>4, IdsFinite
    <3>6. PICK x \in Ids, y \in Ids : x # y /\ f[x] = f[y]
      <4> HIDE DEF f
      <4>1. QED BY <3>3, <3>4, <3>5, FS_PigeonHole
    <3>7. k.node[x].name = k.node[y].name /\ k.node[x].name # NoHost
      BY <3>1, <3>6 DEF Live
    <3>8. QED BY <3>6, <3>7 DEF TableOK, OneEntry
  <2>2. S \in SUBSET Nat
    BY DEF Ids
  <2>3. EntryFor(k, h) \in S
    BY <1>2, <2>1, <2>2, MinIn DEF EntryFor
  <2>4. QED BY <1>2, <2>3 DEF Live
<1>3. QED BY <1>1, <1>2

\* What a node may send: the request for the list of sinks, present values.
Sendable == {AskSinks} \cup {SetSink(s) : s \in Sources}

\* An entry in use is for one host until it is freed, and its output grows by a line at most.
Kept(m, n) == /\ n.name = NoHost \/ m.name \in {n.name, NoHost}
              /\ \/ m.wbuf \in {n.wbuf, <<>>}
                 \/ \E line \in Sendable : m.wbuf = Append(n.wbuf, line)

LEMMA KeptSame == \A n : Kept(n, n)
BY DEF Kept

LEMMA KeptFree == \A n : Kept(FreeNode, n)
BY DEF Kept, FreeNode

\* hkcp_node_add
LEMMA NodeAddOK ==
  ASSUME NEW k, TableOK(k), NEW h \in Hosts
  PROVE  LET m == NodeAdd(k, h) IN
           /\ TableOK(m)
           /\ \A j \in Ids : /\ m.node[j].fd = k.node[j].fd
                             /\ Unscheduled(k.node[j]) => Unscheduled(m.node[j])
                             /\ m.node[j].wbuf = k.node[j].wbuf
                             /\ m.node[j].state = k.node[j].state /\ m.node[j].sources = k.node[j].sources
                             /\ k.node[j].name = NoHost \/ m.node[j].name = k.node[j].name
<1> DEFINE i == EntryFor(k, h)
           n == [k.node[i] EXCEPT !.name = h]
           k1 == Put(k, i, n)
           m == NodeAdd(k, h)
<1>1. i \in Ids /\ (\/ k.node[i].name = h
                    \/ k.node[i].name = NoHost /\ \A j \in Ids : k.node[j].name # h)
  BY EntryFound
<1>2. k = [node |-> k.node, timers |-> k.timers] /\ k.node \in [Ids -> Nodes] /\ k.node[i] \in Nodes
  BY <1>1, TableFields
<1>3. [k EXCEPT !.node[i].name = h] = k1
  BY <1>1, <1>2 DEF Put
<1>4. n = [name |-> h, state |-> k.node[i].state, attempts |-> k.node[i].attempts, tag |-> k.node[i].tag,
           sources |-> k.node[i].sources, fd |-> k.node[i].fd, wbuf |-> k.node[i].wbuf]
  BY <1>2 DEF Nodes
<1>5. NodeOK(n)
  <2>1. h # NoHost
    BY HkcpAssumption DEF HkcpAssumption
  <2>2. n \in Nodes
    BY <1>2, <1>4 DEF Nodes
  <2>3. QED BY <1>4, <2>1, <2>2 DEF NodeOK
<1>6. TableOK(k1)
  <2>1. CASE k.node[i].name = h
    <3>1. k.node[i] = n
      BY <1>2, <1>4, <2>1, NodeFields
    <3>2. [k.node EXCEPT ![i] = n] = k.node
      BY <1>1, <1>2, <3>1
    <3>3. k1 = k
      BY <1>2, <3>2 DEF Put
    <3>4. QED BY <3>3
  <2>2. CASE k.node[i].name = NoHost /\ \A j \in Ids : k.node[j].name # h
    <3>1. k.node[i] = FreeNode
      BY <1>1, <2>2 DEF TableOK, NodeOK
    <3>2. n.tag = 0 /\ k.node[i].tag = 0 /\ n.name = h
      BY <1>4, <3>1 DEF FreeNode
    <3>3. QED BY <1>1, <1>5, <2>2, <3>2, PutOK
  <2>3. QED BY <1>1, <2>1, <2>2
<1>7. /\ k1.node[i] = n /\ n.tag = k.node[i].tag /\ n.fd = k.node[i].fd /\ n.wbuf = k.node[i].wbuf /\ n.name = h
      /\ n.state = k.node[i].state /\ n.sources = k.node[i].sources
      /\ \A j \in Ids \ {i} : k1.node[j] = k.node[j]
  BY <1>1, <1>2, <1>4 DEF Put
<1>8. CASE MustConnect(n)
  <2>1. m = Arm(k1, i, "connect_first")
    BY <1>3, <1>7, <1>8 DEF NodeAdd
  <2>2. k1.node[i].name # NoHost /\ k1.node[i].tag = 0 /\ n.fd = "none"
    BY <1>7, <1>8, HkcpAssumption DEF HkcpAssumption, MustConnect
  <2>3. TableOK(m) /\ m.node = [k1.node EXCEPT ![i] = Tagged(n, NewTag(k1))]
    BY <1>1, <1>6, <1>7, <2>1, <2>2, ArmOK
  <2>4. /\ Tagged(n, NewTag(k1)).fd = n.fd /\ Tagged(n, NewTag(k1)).wbuf = n.wbuf /\ Tagged(n, NewTag(k1)).name = h
        /\ Tagged(n, NewTag(k1)).state = n.state /\ Tagged(n, NewTag(k1)).sources = n.sources
    BY <1>4 DEF Tagged
  <2>5. m.node[i] = Tagged(n, NewTag(k1)) /\ \A j \in Ids \ {i} : m.node[j] = k.node[j]
    <3>1. k1.node \in [Ids -> Nodes]
      BY <1>6, TableFields
    <3> HIDE DEF k1, n, m
    <3>2. QED BY <1>1, <1>7, <2>3, <3>1
  <2>6. QED BY <1>1, <1>7, <2>2, <2>3, <2>4, <2>5 DEF Unscheduled
<1>9. CASE ~MustConnect(n)
  <2>1. m = k1
    BY <1>3, <1>7, <1>9 DEF NodeAdd
  <2>2. QED BY <1>1, <1>6, <1>7, <2>1 DEF Unscheduled
<1>10. QED BY <1>8, <1>9

LEMMA AttemptedOK ==
  ASSUME NEW n, NodeOK(n), n.name # NoHost, n.attempts <= Retries
  PROVE  LET a == Attempted(n) IN
           /\ NodeOK(a) /\ a.name = n.name /\ a.tag = n.tag /\ a.fd = n.fd
           /\ a.wbuf = n.wbuf /\ a.attempts = n.attempts + 1 /\ a.sources = n.sources
<1>1. n \in Nodes
  BY DEF NodeOK
<1>2. Attempted(n) = [name |-> n.name, state |-> "CONNECT", attempts |-> n.attempts + 1, tag |-> n.tag,
                      sources |-> n.sources, fd |-> n.fd, wbuf |-> n.wbuf]
  <2> DEFINE a == n.attempts + 1
  <2>1. Attempted(n) = [n EXCEPT !.attempts = a, !.state = "CONNECT"]
    BY DEF Attempted
  <2> HIDE DEF a
  <2>2. PICK b : b = [n EXCEPT !.attempts = a]
    OBVIOUS
  <2>3. b = [name |-> n.name, state |-> n.state, attempts |-> a, tag |-> n.tag,
             sources |-> n.sources, fd |-> n.fd, wbuf |-> n.wbuf]
    BY <1>1, <2>2 DEF Nodes
  <2>4. [b EXCEPT !.state = "CONNECT"]
            = [name |-> n.name, state |-> "CONNECT", attempts |-> a, tag |-> n.tag,
               sources |-> n.sources, fd |-> n.fd, wbuf |-> n.wbuf]
    BY <2>3
  <2>5. Attempted(n) = [b EXCEPT !.state = "CONNECT"]
    BY <2>1, <2>2
  <2>6. QED BY <2>4, <2>5 DEF a
<1>3. n.attempts + 1 \in 0..Retries + 1 /\ "CONNECT" \in States
  BY <1>1, HkcpAssumption DEF Nodes, States, HkcpAssumption
<1>4. Attempted(n) \in Nodes
  BY <1>1, <1>2, <1>3 DEF Nodes
<1>5. QED BY <1>2, <1>4 DEF NodeOK

LEMMA ConnectedKept ==
  ASSUME NEW n, n \in Nodes, n.name # NoHost, NEW m, m.name = n.name, m.wbuf = n.wbuf, m \in Nodes
  PROVE  Kept(Connected(m), n)
<1>1. Connected(m).name = m.name /\ Connected(m).wbuf = Append(m.wbuf, AskSinks)
  BY DEF Connected, Queue, Nodes
<1>2. QED BY <1>1 DEF Kept, Sendable

\* What hkcp_node_connect makes of a node: given up, to be tried again, or connected.
Tried(m, n, ok) ==
  \/ ~ok /\ m = FreeNode
  \/ ~ok /\ m.name = n.name /\ m.sources = n.sources /\ m.fd = n.fd /\ m.wbuf = n.wbuf
  \/ /\ ok /\ m.name = n.name /\ m.sources = n.sources
     /\ m.fd = "up" /\ m.state = "SINKS" /\ m.wbuf = Append(n.wbuf, AskSinks)

LEMMA ConnectedIs ==
  ASSUME NEW n, n \in Nodes, NEW m, m \in Nodes, m.name = n.name, m.wbuf = n.wbuf, m.sources = n.sources
  PROVE  Tried(Connected(m), n, TRUE)
<1>1. Connected(m) = [m EXCEPT !.fd = "up", !.tag = 0, !.state = "SINKS", !.wbuf = Append(m.wbuf, AskSinks)]
  BY DEF Connected, Queue, Nodes
<1>2. Connected(m) = [name |-> m.name, state |-> "SINKS", attempts |-> m.attempts, tag |-> 0,
                      sources |-> m.sources, fd |-> "up", wbuf |-> Append(m.wbuf, AskSinks)]
  BY <1>1 DEF Nodes
<1>3. QED BY <1>2 DEF Tried

\* hkcp_node_connect, for a node that remembers no timer.
LEMMA NodeConnectOK ==
  ASSUME NEW k, TableOK(k), NEW i \in Ids, k.node[i].name # NoHost, k.node[i].tag = 0,
         k.node[i].attempts <= Retries, NEW ok \in BOOLEAN
  PROVE  LET m == NodeConnect(k, i, ok) IN
           /\ TableOK(m)
           /\ \A j \in Ids \ {i} : m.node[j] = k.node[j]
           /\ Kept(m.node[i], k.node[i]) /\ Tried(m.node[i], k.node[i], ok)
           /\ k.node[i].fd = "none" => Unscheduled(m.node[i])
<1> DEFINE m == NodeConnect(k, i, ok)
           o == k.node[i]
           n == Attempted(o)
           k1 == Put(k, i, n)
<1>1. k = [node |-> k.node, timers |-> k.timers] /\ k.node \in [Ids -> Nodes] /\ o \in Nodes /\ NodeOK(o)
  BY TableFields DEF TableOK
<1>2. /\ NodeOK(n) /\ n.name = o.name /\ n.tag = 0 /\ n.fd = o.fd
      /\ n.wbuf = o.wbuf /\ n.attempts = o.attempts + 1 /\ n.sources = o.sources
  BY <1>1, AttemptedOK
<1>3. [k EXCEPT !.node[i] = n] = k1
  BY <1>1 DEF Put
<1>4. CASE ok
  <2>1. m = Put(k, i, Connected(n))
    BY <1>1, <1>4 DEF NodeConnect, Put
  <2>2. NodeOK(Connected(n)) /\ Connected(n).name = o.name /\ Connected(n).tag = 0
    BY <1>2, ConnectedOK
  <2>3. TableOK(m)
    BY <2>1, <2>2, PutOK
  <2>4. m.node[i] = Connected(n) /\ \A j \in Ids \ {i} : m.node[j] = k.node[j]
    BY <1>1, <2>1 DEF Put
  <2>5. Kept(m.node[i], o)
    BY <1>1, <1>2, <2>4, ConnectedKept DEF NodeOK
  <2>6. Tried(m.node[i], o, ok)
    BY <1>1, <1>2, <1>4, <2>4, ConnectedIs DEF NodeOK
  <2>7. QED BY <2>2, <2>3, <2>4, <2>5, <2>6 DEF Unscheduled
<1>5. CASE ~ok /\ GivesUp(n)
  <2>1. m = NodeRemove([k1 EXCEPT !.node[i].tag = 0], i)
    BY <1>3, <1>5 DEF NodeConnect
  <2>2. [k1 EXCEPT !.node[i].tag = 0].node = [k1.node EXCEPT ![i].tag = 0] /\ [k1 EXCEPT !.node[i].tag = 0].timers = k.timers
    BY DEF Put
  <2>3. k1.node = [k.node EXCEPT ![i] = n]
    BY DEF Put
  <2>4. [k1 EXCEPT !.node[i].tag = 0].node[i].tag = 0 /\ [[k1 EXCEPT !.node[i].tag = 0].node EXCEPT ![i] = FreeNode]
            = [k.node EXCEPT ![i] = FreeNode]
    <3>1. n \in Nodes
      BY <1>2 DEF NodeOK
    <3>2. [n EXCEPT !.tag = 0].tag = 0
      BY <3>1 DEF Nodes
    <3>3. QED BY <1>1, <2>2, <2>3, <3>2
  <2>5. m = Put(k, i, FreeNode)
    BY <2>1, <2>2, <2>4 DEF NodeRemove, Put
  <2>6. FreeNode.tag = 0 /\ FreeNode.name = NoHost
    BY DEF FreeNode
  <2>7. TableOK(m)
    BY <2>5, <2>6, PutOK, FreeNodeOK
  <2>8. m.node[i] = FreeNode /\ \A j \in Ids \ {i} : m.node[j] = k.node[j]
    BY <1>1, <2>5 DEF Put
  <2>9. QED BY <1>5, <2>6, <2>7, <2>8, KeptFree DEF Unscheduled, Tried
<1>6. CASE ~ok /\ ~GivesUp(n)
  <2>1. m = Arm(k1, i, "connect")
    BY <1>2, <1>3, <1>6 DEF NodeConnect
  <2>2. n.attempts <= Retries
    BY <1>1, <1>2, <1>6, HkcpAssumption DEF GivesUp, HkcpAssumption, Nodes
  <2>3. TableOK(k1)
    BY <1>2, PutOK
  <2>4. k1.node[i] = n /\ \A j \in Ids \ {i} : k1.node[j] = k.node[j]
    BY <1>1 DEF Put
  <2>5. TableOK(m) /\ m.node = [k1.node EXCEPT ![i] = Tagged(n, NewTag(k1))]
    BY <1>2, <2>1, <2>2, <2>3, <2>4, ArmOK
  <2>6. m.node[i] = Tagged(n, NewTag(k1)) /\ \A j \in Ids \ {i} : m.node[j] = k.node[j]
    BY <2>3, <2>4, <2>5, TableFields
  <2>7. n \in Nodes
    BY <1>2 DEF NodeOK
  <2>8. /\ Tagged(n, NewTag(k1)).fd = n.fd /\ Tagged(n, NewTag(k1)).wbuf = n.wbuf /\ Tagged(n, NewTag(k1)).name = n.name
        /\ Tagged(n, NewTag(k1)).sources = n.sources
    BY <2>7 DEF Tagged, Nodes
  <2>9. Kept(m.node[i], o)
    BY <1>2, <2>6, <2>8 DEF Kept
  <2>10. Tried(m.node[i], o, ok)
    BY <1>2, <1>6, <2>6, <2>8 DEF Tried
  <2>11. QED BY <1>2, <2>5, <2>6, <2>8, <2>9, <2>10 DEF Unscheduled
<1>7. QED BY <1>4, <1>5, <1>6

\* A table whose nodes keep their names, timers and attempts.
LEMMA ReworkedOK ==
  ASSUME NEW k, TableOK(k), NEW f \in [Ids -> Nodes],
         \A i \in Ids : /\ NodeOK(f[i]) /\ f[i].name = k.node[i].name
                        /\ f[i].tag = k.node[i].tag /\ f[i].attempts = k.node[i].attempts
  PROVE  TableOK([node |-> f, timers |-> k.timers])
<1> DEFINE m == [node |-> f, timers |-> k.timers]
<1>1. m.node = f /\ m.timers = k.timers
  OBVIOUS
<1>2. m \in Tables
  BY TableFields DEF Tables
<1>3. OneEntry(m)
  BY <1>1 DEF TableOK, OneEntry
<1>4. Paired(m)
  BY <1>1, TableFields DEF TableOK, Paired
<1>5. Counted(m)
  BY <1>1, TableFields DEF TableOK, Counted
<1>6. QED BY <1>1, <1>2, <1>3, <1>4, <1>5 DEF TableOK

\* hkcp_node_connect_first: the timer is gone before anything else is done.
FiredFirst(k, t, i) == [k EXCEPT !.timers = @ \ {t}, !.node[i].tag = 0, !.node[i].attempts = 0]

LEMMA ConnectFirstOK ==
  ASSUME NEW k, TableOK(k), NEW t \in k.timers, NEW ok \in BOOLEAN, NEW i, i = t.node,
         Unscheduled(k.node[i])
  PROVE  LET m == NodeConnect(FiredFirst(k, t, i), i, ok) IN
           /\ TableOK(m)
           /\ \A j \in Ids \ {i} : m.node[j] = k.node[j]
           /\ Kept(m.node[i], k.node[i]) /\ Unscheduled(m.node[i]) /\ Tried(m.node[i], k.node[i], ok)
<1> DEFINE o == k.node[i]
           n == [name |-> o.name, state |-> o.state, attempts |-> 0, tag |-> 0,
                 sources |-> o.sources, fd |-> o.fd, wbuf |-> o.wbuf]
           k0 == Freed(k, i, n)
<1>1. /\ i \in Ids /\ o.tag = t.tag /\ t.tag # 0 /\ o \in Nodes /\ NodeOK(o)
      /\ k.node \in [Ids -> Nodes] /\ k = [node |-> k.node, timers |-> k.timers]
  BY TableFields DEF TableOK, Paired
<1>2. o.name # NoHost /\ o.fd = "none"
  BY <1>1 DEF NodeOK, FreeNode, Unscheduled
<1>3. NodeOK(n) /\ n.tag = 0 /\ n.name = o.name /\ n.fd = "none" /\ n.attempts = 0
  <2>1. 0 \in 0..Retries + 1
    BY HkcpAssumption DEF HkcpAssumption
  <2>2. n \in Nodes
    BY <1>1, <2>1 DEF Nodes
  <2>3. QED BY <1>2, <2>2 DEF NodeOK
<1>4. TableOK(k0)
  BY <1>1, <1>3, FreedOK
<1>5. FiredFirst(k, t, i) = k0
  <2>1. k.timers \ {t} = {u \in k.timers : u.node # i}
    BY DEF TableOK, Paired
  <2>2. [[o EXCEPT !.tag = 0] EXCEPT !.attempts = 0] = n
    <3>1. PICK p : p = [o EXCEPT !.tag = 0]
      OBVIOUS
    <3>2. p = [name |-> o.name, state |-> o.state, attempts |-> o.attempts, tag |-> 0,
               sources |-> o.sources, fd |-> o.fd, wbuf |-> o.wbuf]
      BY <1>1, <3>1 DEF Nodes
    <3>3. [p EXCEPT !.attempts = 0] = n
      BY <3>2
    <3>4. QED BY <3>1, <3>3
  <2>3. PICK p : p = [node |-> k.node, timers |-> k.timers \ {t}]
    OBVIOUS
  <2>4. PICK q : q = [p EXCEPT !.node[i].tag = 0]
    OBVIOUS
  <2>5. q = [node |-> [k.node EXCEPT ![i] = [o EXCEPT !.tag = 0]], timers |-> k.timers \ {t}]
    BY <1>1, <2>3, <2>4
  <2>6. [q EXCEPT !.node[i].attempts = 0]
           = [node |-> [k.node EXCEPT ![i] = [[o EXCEPT !.tag = 0] EXCEPT !.attempts = 0]], timers |-> k.timers \ {t}]
    <3>1. PICK r, f : r = [o EXCEPT !.tag = 0] /\ f = [k.node EXCEPT ![i] = r]
      OBVIOUS
    <3>2. f[i] = r /\ [f EXCEPT ![i] = [r EXCEPT !.attempts = 0]] = [k.node EXCEPT ![i] = [r EXCEPT !.attempts = 0]]
      BY <1>1, <3>1
    <3>3. q.node = f /\ q = [node |-> f, timers |-> k.timers \ {t}]
      BY <2>5, <3>1
    <3>4. [q EXCEPT !.node[i].attempts = 0] = [node |-> [f EXCEPT ![i] = [r EXCEPT !.attempts = 0]], timers |-> k.timers \ {t}]
      <4>1. PICK u : u = [f EXCEPT ![i] = [r EXCEPT !.attempts = 0]]
        OBVIOUS
      <4>2. [q EXCEPT !.node[i].attempts = 0] = [q EXCEPT !.node = u]
        BY <3>2, <3>3, <4>1
      <4>3. [q EXCEPT !.node = u] = [node |-> u, timers |-> k.timers \ {t}]
        BY <3>3
      <4>4. QED BY <4>1, <4>2, <4>3
    <3>5. QED BY <3>1, <3>2, <3>4
  <2>7. [k EXCEPT !.timers = @ \ {t}] = p
    BY <1>1, <2>3
  <2>8. [k EXCEPT !.timers = @ \ {t}, !.node[i].tag = 0, !.node[i].attempts = 0]
          = [q EXCEPT !.node[i].attempts = 0]
    BY <2>4, <2>7
  <2>9. QED BY <2>1, <2>2, <2>6, <2>8 DEF Freed, FiredFirst
<1>6. k0.node[i] = n /\ \A j \in Ids \ {i} : k0.node[j] = k.node[j]
  BY <1>1 DEF Freed
<1> DEFINE m == NodeConnect(k0, i, ok)
<1>7. /\ TableOK(m)
      /\ \A j \in Ids \ {i} : m.node[j] = k.node[j]
      /\ Kept(m.node[i], n) /\ Unscheduled(m.node[i]) /\ Tried(m.node[i], n, ok)
  <2>1. k0.node[i].name # NoHost /\ k0.node[i].tag = 0 /\ k0.node[i].attempts <= Retries
    <3>1. 0 <= Retries
      BY HkcpAssumption DEF HkcpAssumption
    <3> HIDE DEF k0, n
    <3>2. QED BY <1>2, <1>3, <1>6, <3>1
  <2>2. /\ TableOK(m)
        /\ \A j \in Ids \ {i} : m.node[j] = k0.node[j]
        /\ Kept(m.node[i], k0.node[i]) /\ Tried(m.node[i], k0.node[i], ok)
        /\ k0.node[i].fd = "none" => Unscheduled(m.node[i])
    <3> HIDE DEF k0
    <3>1. QED BY <1>1, <1>4, <2>1, NodeConnectOK
  <2>3. QED
    <3> HIDE DEF k0, m, n, o
    <3>1. QED BY <1>3, <1>6, <2>2
<1>8. Kept(m.node[i], o) /\ Tried(m.node[i], o, ok)
  BY <1>3, <1>7 DEF Kept, Tried
<1>9. QED BY <1>5, <1>7, <1>8

\* hkcp_node_connect called by its timer, which sys_timer_poll removes when it returns 0.
LEMMA ConnectRetryOK ==
  ASSUME NEW k, TableOK(k), NEW t \in k.timers, t.func = "connect", NEW ok \in BOOLEAN,
         NEW i, i = t.node, Unscheduled(k.node[i])
  PROVE  LET k1 == NodeConnect(k, i, ok)
             m == IF ConnectAgain(k.node[i], ok) THEN k1 ELSE [k1 EXCEPT !.timers = @ \ {t}]
         IN /\ TableOK(m)
            /\ \A j \in Ids \ {i} : m.node[j] = k.node[j]
            /\ Kept(m.node[i], k.node[i]) /\ Unscheduled(m.node[i]) /\ Tried(m.node[i], k.node[i], ok)
<1> DEFINE o == k.node[i]
           n == Attempted(o)
           k0 == Put(k, i, n)
           k1 == NodeConnect(k, i, ok)
           m == IF ConnectAgain(o, ok) THEN k1 ELSE [k1 EXCEPT !.timers = @ \ {t}]
<1>1. /\ i \in Ids /\ o.tag = t.tag /\ t.tag # 0 /\ o \in Nodes /\ NodeOK(o)
      /\ k.node \in [Ids -> Nodes] /\ k = [node |-> k.node, timers |-> k.timers]
  BY TableFields DEF TableOK, Paired
<1>2. o.name # NoHost /\ o.fd = "none" /\ o.attempts <= Retries
  BY <1>1 DEF NodeOK, FreeNode, Unscheduled, TableOK, Counted
<1>3. /\ NodeOK(n) /\ n.name = o.name /\ n.tag = o.tag /\ n.fd = "none"
      /\ n.wbuf = o.wbuf /\ n.attempts = o.attempts + 1 /\ n.sources = o.sources
  BY <1>1, <1>2, AttemptedOK
<1>4. [k EXCEPT !.node[i] = n] = k0
  BY <1>1 DEF Put
<1>5. k.timers \ {t} = {u \in k.timers : u.node # i}
  BY DEF TableOK, Paired
<1>6. CASE ok
  <2>1. m = Freed(k, i, Connected(n))
    <3>1. k1 = [node |-> [k.node EXCEPT ![i] = Connected(n)], timers |-> k.timers]
      BY <1>1, <1>6 DEF NodeConnect
    <3>2. m = [k1 EXCEPT !.timers = @ \ {t}]
      BY <1>6 DEF ConnectAgain
    <3> HIDE DEF k1, m
    <3>3. QED BY <1>5, <3>1, <3>2 DEF Freed
  <2>2. NodeOK(Connected(n)) /\ Connected(n).name = o.name /\ Connected(n).tag = 0
    BY <1>2, <1>3, ConnectedOK
  <2>3. TableOK(m)
    BY <1>1, <2>1, <2>2, FreedOK
  <2>4. m.node[i] = Connected(n) /\ \A j \in Ids \ {i} : m.node[j] = k.node[j]
    BY <1>1, <2>1 DEF Freed
  <2>5. Kept(m.node[i], o)
    BY <1>1, <1>2, <1>3, <2>4, ConnectedKept DEF NodeOK
  <2>6. Tried(m.node[i], o, ok)
    <3>1. Tried(Connected(n), o, TRUE)
      BY <1>1, <1>3, ConnectedIs DEF NodeOK
    <3>2. ok = TRUE
      BY <1>6
    <3>3. QED BY <2>4, <3>1, <3>2
  <2>7. QED BY <2>2, <2>3, <2>4, <2>5, <2>6 DEF Unscheduled
<1>7. CASE ~ok /\ GivesUp(n)
  <2>1. k1 = NodeRemove([k0 EXCEPT !.node[i].tag = 0], i)
    BY <1>4, <1>7 DEF NodeConnect
  <2>2. /\ [k0 EXCEPT !.node[i].tag = 0].node = [k.node EXCEPT ![i] = [n EXCEPT !.tag = 0]]
        /\ [k0 EXCEPT !.node[i].tag = 0].timers = k.timers
    BY <1>1 DEF Put
  <2>3. [n EXCEPT !.tag = 0].tag = 0
    BY <1>3 DEF NodeOK, Nodes
  <2>4. k1 = [node |-> [k.node EXCEPT ![i] = FreeNode], timers |-> k.timers]
    <3>1. PICK q, r : q = [k0 EXCEPT !.node[i].tag = 0] /\ r = [n EXCEPT !.tag = 0]
      OBVIOUS
    <3>2. q.node = [k.node EXCEPT ![i] = r] /\ q.timers = k.timers /\ r.tag = 0
      BY <2>2, <2>3, <3>1
    <3>3. q.node[i].tag = 0 /\ [q.node EXCEPT ![i] = FreeNode] = [k.node EXCEPT ![i] = FreeNode]
      BY <1>1, <3>2
    <3>4. {u \in q.timers : q.node[i].tag = 0 \/ u.tag # q.node[i].tag} = k.timers
      BY <3>2, <3>3
    <3>5. k1 = NodeRemove(q, i)
      BY <2>1, <3>1
    <3>6. QED BY <3>3, <3>4, <3>5 DEF NodeRemove
  <2>5. m = [k1 EXCEPT !.timers = @ \ {t}]
    BY <1>7 DEF ConnectAgain
  <2>6. m = Freed(k, i, FreeNode)
    <3> HIDE DEF k1, m
    <3>1. QED BY <1>5, <2>4, <2>5 DEF Freed
  <2>7. FreeNode.tag = 0 /\ FreeNode.name = NoHost
    BY DEF FreeNode
  <2>8. TableOK(m)
    BY <1>1, <2>6, <2>7, FreedOK, FreeNodeOK
  <2>9. m.node[i] = FreeNode /\ \A j \in Ids \ {i} : m.node[j] = k.node[j]
    BY <1>1, <2>6 DEF Freed
  <2>10. QED BY <1>7, <2>7, <2>8, <2>9, KeptFree DEF Unscheduled, Tried
<1>8. CASE ~ok /\ ~GivesUp(n)
  <2>1. m = k0
    BY <1>1, <1>3, <1>4, <1>8 DEF NodeConnect, ConnectAgain
  <2>2. n.attempts <= Retries
    BY <1>1, <1>2, <1>3, <1>8, HkcpAssumption DEF GivesUp, HkcpAssumption, Nodes
  <2>3. TableOK(m)
    BY <1>1, <1>3, <2>1, <2>2, PutOK
  <2>4. m.node[i] = n /\ \A j \in Ids \ {i} : m.node[j] = k.node[j]
    BY <1>1, <2>1 DEF Put
  <2>5. QED BY <1>2, <1>3, <1>8, <2>3, <2>4 DEF Unscheduled, Kept, Tried
<1>9. QED BY <1>6, <1>7, <1>8

\* tcp_sock_read_event without data, then tcp_sock_shutdown_: no connection is left.
LEMMA ClosedOK ==
  ASSUME NEW n, NodeOK(n)
  PROVE  LET c == Closed(n) IN
           /\ NodeOK(c) /\ c.name = n.name /\ c.tag = n.tag /\ c.attempts = n.attempts
           /\ c.fd = "none" /\ c.wbuf = <<>> /\ c.sources = n.sources
<1>1. n \in Nodes
  BY DEF NodeOK
<1>2. Closed(n) = [name |-> n.name, state |-> n.state, attempts |-> n.attempts, tag |-> n.tag,
                   sources |-> n.sources, fd |-> "none", wbuf |-> <<>>]
  <2>1. PICK p : p = [n EXCEPT !.fd = "none"]
    OBVIOUS
  <2>2. p = [name |-> n.name, state |-> n.state, attempts |-> n.attempts, tag |-> n.tag,
             sources |-> n.sources, fd |-> "none", wbuf |-> n.wbuf]
    BY <1>1, <2>1 DEF Nodes
  <2>3. Closed(n) = [p EXCEPT !.wbuf = <<>>]
    BY <2>1 DEF Closed
  <2>4. QED BY <2>2, <2>3
<1>3. Closed(n) \in Nodes
  BY <1>1, <1>2 DEF Nodes
<1>4. n.name = NoHost => Closed(n) = FreeNode
  BY <1>2 DEF NodeOK, FreeNode
<1>5. QED BY <1>2, <1>3, <1>4 DEF NodeOK

LEMMA HungUpOK ==
  ASSUME NEW k, TableOK(k), NEW i \in Ids, Unscheduled(k.node[i]), k.node[i].fd # "none", NEW ok \in BOOLEAN
  PROVE  LET m == HungUp(k, i, ok) IN
           /\ TableOK(m)
           /\ \A j \in Ids \ {i} : m.node[j] = k.node[j]
           /\ Kept(m.node[i], k.node[i]) /\ m.node[i].fd = "none" /\ m.node[i].wbuf = <<>>
           /\ m.node[i].sources \in {{}, k.node[i].sources}
<1> DEFINE o == k.node[i]
           n == [name |-> o.name, state |-> "IDLE", attempts |-> 0, tag |-> o.tag,
                 sources |-> o.sources, fd |-> o.fd, wbuf |-> o.wbuf]
           k0 == Put(k, i, n)
           k1 == NodeConnect(k0, i, ok)
           m == HungUp(k, i, ok)
<1>1. /\ o \in Nodes /\ NodeOK(o) /\ k.node \in [Ids -> Nodes] /\ k = [node |-> k.node, timers |-> k.timers]
  BY TableFields DEF TableOK
<1>2. o.name # NoHost /\ o.tag = 0
  BY <1>1 DEF NodeOK, FreeNode, Unscheduled
<1>3. NodeOK(n) /\ n.tag = 0 /\ n.name = o.name /\ n.attempts = 0
  <2>1. 0 \in 0..Retries + 1 /\ "IDLE" \in States
    BY HkcpAssumption DEF HkcpAssumption, States
  <2>2. n \in Nodes
    BY <1>1, <2>1 DEF Nodes
  <2>3. QED BY <1>2, <2>2 DEF NodeOK
<1>4. TableOK(k0)
  BY <1>2, <1>3, PutOK
<1>5. [k EXCEPT !.node[i].state = "IDLE", !.node[i].attempts = 0] = k0
  <2>1. PICK r, f : r = [o EXCEPT !.state = "IDLE"] /\ f = [k.node EXCEPT ![i] = r]
    OBVIOUS
  <2>2. r = [name |-> o.name, state |-> "IDLE", attempts |-> o.attempts, tag |-> o.tag,
             sources |-> o.sources, fd |-> o.fd, wbuf |-> o.wbuf]
    BY <1>1, <2>1 DEF Nodes
  <2>3. [r EXCEPT !.attempts = 0] = n
    BY <2>2
  <2>4. f[i] = r /\ [f EXCEPT ![i] = n] = [k.node EXCEPT ![i] = n]
    BY <1>1, <2>1
  <2>5. PICK q : q = [k EXCEPT !.node[i].state = "IDLE"]
    OBVIOUS
  <2>6. q = [node |-> f, timers |-> k.timers]
    BY <1>1, <2>1, <2>5
  <2>7. [q EXCEPT !.node[i].attempts = 0] = [node |-> [f EXCEPT ![i] = [r EXCEPT !.attempts = 0]], timers |-> k.timers]
    BY <2>4, <2>6
  <2>8. QED BY <2>3, <2>4, <2>5, <2>7 DEF Put
<1>6. k0.node[i] = n /\ \A j \in Ids \ {i} : k0.node[j] = k.node[j]
  BY <1>1 DEF Put
<1>7. TableOK(k1) /\ (\A j \in Ids \ {i} : k1.node[j] = k0.node[j]) /\ Kept(k1.node[i], k0.node[i])
      /\ Tried(k1.node[i], k0.node[i], ok)
  <2>1. k0.node[i].name # NoHost /\ k0.node[i].tag = 0 /\ k0.node[i].attempts <= Retries
    BY <1>2, <1>3, <1>6, HkcpAssumption DEF HkcpAssumption
  <2> HIDE DEF k0
  <2>2. QED BY <1>4, <2>1, NodeConnectOK
<1>8. m = Put(k1, i, Closed(k1.node[i]))
  <2>1. m = [k1 EXCEPT !.node[i] = Closed(@)]
    BY <1>5 DEF HungUp
  <2> HIDE DEF k1, m
  <2>2. k1 = [node |-> k1.node, timers |-> k1.timers] /\ k1.node \in [Ids -> Nodes]
    BY <1>7, TableFields
  <2>3. QED BY <2>1, <2>2 DEF Put
<1> HIDE DEF k1, k0, m, n
<1>9. NodeOK(k1.node[i]) /\ k1.node \in [Ids -> Nodes]
  BY <1>7, TableFields DEF TableOK
<1> DEFINE c == Closed(k1.node[i])
<1>10. /\ NodeOK(c) /\ c.name = k1.node[i].name /\ c.tag = k1.node[i].tag /\ c.attempts = k1.node[i].attempts
       /\ c.fd = "none" /\ c.wbuf = <<>> /\ c.sources = k1.node[i].sources
  BY <1>9, ClosedOK
<1> HIDE DEF c
<1>11. TableOK(m)
  BY <1>7, <1>8, <1>10, PutOK DEF c
<1>12. m.node[i] = c /\ \A j \in Ids \ {i} : m.node[j] = k1.node[j]
  BY <1>8, <1>9 DEF Put, c
<1>13. Kept(c, o)
  BY <1>3, <1>6, <1>7, <1>10 DEF Kept
<1>14. k1.node[i].sources \in {{}, o.sources}
  <2>1. k0.node[i].sources = o.sources /\ FreeNode.sources = {}
    BY <1>6 DEF n, FreeNode
  <2>2. QED BY <1>7, <2>1 DEF Tried
<1>15. QED BY <1>6, <1>7, <1>10, <1>11, <1>12, <1>13, <1>14 DEF m

\* Present values are values.
ValuesOK == value \in [Sources -> 1..MaxVersion]

LEMMA SendableOK == ASSUME ValuesOK PROVE Sendable \subseteq Requests
<1>1. AskSinks \in Requests
  BY HkcpAssumption DEF AskSinks, Line, Requests, Names, HkcpAssumption
<1>2. ASSUME NEW s \in Sources PROVE SetSink(s) \in Requests
  <2>1. value[s] \in 0..MaxVersion
    BY HkcpAssumption DEF HkcpAssumption, ValuesOK
  <2>2. s \in Names
    BY DEF Names
  <2>3. QED BY <2>1, <2>2 DEF SetSink, Line, Requests
<1>3. QED BY <1>1, <1>2 DEF Sendable

\* A node that learns of a source, or whose output grows.
LEMMA QueueOK ==
  ASSUME NEW n, NodeOK(n), n.name # NoHost, NEW line \in Requests
  PROVE  LET q == Queue(n, line) IN
           /\ NodeOK(q) /\ q.name = n.name /\ q.tag = n.tag /\ q.attempts = n.attempts
           /\ q.fd = n.fd /\ q.wbuf = Append(n.wbuf, line) /\ q.sources = n.sources
           /\ q.state = n.state
<1>1. n \in Nodes
  BY DEF NodeOK
<1>2. Queue(n, line) = [name |-> n.name, state |-> n.state, attempts |-> n.attempts, tag |-> n.tag,
                   sources |-> n.sources, fd |-> n.fd, wbuf |-> Append(n.wbuf, line)]
  <2>1. n = [name |-> n.name, state |-> n.state, attempts |-> n.attempts, tag |-> n.tag,
             sources |-> n.sources, fd |-> n.fd, wbuf |-> n.wbuf]
    BY <1>1, NodeFields
  <2>2. PICK w : w = Append(n.wbuf, line)
    OBVIOUS
  <2>3. [n EXCEPT !.wbuf = w] = [name |-> n.name, state |-> n.state, attempts |-> n.attempts, tag |-> n.tag,
                               sources |-> n.sources, fd |-> n.fd, wbuf |-> w]
    BY <2>1
  <2>4. Queue(n, line) = [n EXCEPT !.wbuf = w]
    BY <2>2 DEF Queue
  <2>5. QED BY <2>2, <2>3, <2>4
<1>3. Append(n.wbuf, line) \in Seq(Requests)
  BY <1>1 DEF Nodes
<1>4. Queue(n, line) \in Nodes
  BY <1>1, <1>2, <1>3 DEF Nodes
<1>5. QED BY <1>2, <1>4 DEF NodeOK

\* What hkcp_node_recv_sinks makes of a node.
Learned(m, n, s) ==
  /\ m.name = n.name /\ m.fd = n.fd /\ m.state = n.state
  /\ \/ s \notin Sources /\ m.sources = n.sources /\ m.wbuf = n.wbuf
     \/ /\ s \in Sources /\ m.sources = n.sources \cup {s}
        /\ \/ s \in Events /\ m.wbuf = n.wbuf
           \/ s \notin Events /\ m.wbuf = Append(n.wbuf, SetSink(s))

Heard(m, n, line) ==
  \/ n.state # "SINKS" /\ m = n
  \/ n.state = "SINKS" /\ line.kind = "sink" /\ Learned(m, n, line.name)
  \/ n.state = "SINKS" /\ line.kind # "sink" /\ m = FreeNode
  \/ /\ n.state = "SINKS" /\ line.kind # "sink"
     /\ m.name = n.name /\ m.fd = n.fd /\ m.sources = n.sources /\ m.wbuf = n.wbuf /\ m.state = "READY"

LEMMA SinkListedOK ==
  ASSUME ValuesOK, NEW n, NodeOK(n), n.name # NoHost, NEW s
  PROVE  LET l == SinkListed(n, s) IN
           /\ NodeOK(l) /\ l.name = n.name /\ l.tag = n.tag /\ l.attempts = n.attempts /\ l.fd = n.fd
           /\ Kept(l, n) /\ Learned(l, n, s)
<1>1. CASE s \notin Sources
  BY <1>1 DEF SinkListed, Kept, Learned
<1>2. CASE s \in Sources
  <2> DEFINE p == [name |-> n.name, state |-> n.state, attempts |-> n.attempts, tag |-> n.tag,
                   sources |-> n.sources \cup {s}, fd |-> n.fd, wbuf |-> n.wbuf]
  <2>1. n \in Nodes
    BY DEF NodeOK
  <2>2. [n EXCEPT !.sources = n.sources \cup {s}] = p
    <3>1. n = [name |-> n.name, state |-> n.state, attempts |-> n.attempts, tag |-> n.tag,
               sources |-> n.sources, fd |-> n.fd, wbuf |-> n.wbuf]
      BY <2>1, NodeFields
    <3>2. QED BY <3>1
  <2>3. p \in Nodes
    BY <1>2, <2>1 DEF Nodes
  <2>4. NodeOK(p) /\ p.name # NoHost
    BY <2>3 DEF NodeOK
  <2>5. SinkListed(n, s) = SendInitial(p, s)
    BY <1>2, <2>2 DEF SinkListed
  <2>6. CASE s \in Events
    <3>1. SinkListed(n, s) = p
      BY <2>5, <2>6 DEF SendInitial
    <3>2. QED BY <1>2, <2>4, <2>6, <3>1 DEF Kept, Learned
  <2>7. CASE s \notin Events
    <3>1. SinkListed(n, s) = Queue(p, SetSink(s))
      BY <2>5, <2>7 DEF SendInitial
    <3>2. SetSink(s) \in Sendable /\ SetSink(s) \in Requests
      BY <1>2, SendableOK DEF Sendable
    <3> DEFINE q == Queue(p, SetSink(s))
    <3>3. /\ p.name = n.name /\ p.tag = n.tag /\ p.attempts = n.attempts /\ p.fd = n.fd /\ p.wbuf = n.wbuf
          /\ p.state = n.state /\ p.sources = n.sources \cup {s}
      OBVIOUS
    <3> HIDE DEF p
    <3>4. /\ NodeOK(q) /\ q.name = p.name /\ q.tag = p.tag /\ q.attempts = p.attempts
          /\ q.fd = p.fd /\ q.wbuf = Append(p.wbuf, SetSink(s)) /\ q.sources = p.sources /\ q.state = p.state
      BY <2>4, <3>2, QueueOK
    <3> HIDE DEF q
    <3>5. Kept(q, n) /\ Learned(q, n, s)
      BY <1>2, <2>7, <3>2, <3>3, <3>4 DEF Kept, Learned
    <3>6. QED BY <3>1, <3>3, <3>4, <3>5 DEF q
  <2>8. QED BY <2>6, <2>7
<1>3. QED BY <1>1, <1>2

\* hkcp_node_recv_line, on a connection: the node has no timer.
LEMMA RecvLineOK ==
  ASSUME ValuesOK, NEW k, TableOK(k), NEW i \in Ids, k.node[i].tag = 0, k.node[i].fd # "none", NEW line
  PROVE  LET m == RecvLine(k, i, line) IN
           /\ TableOK(m)
           /\ \A j \in Ids \ {i} : m.node[j] = k.node[j]
           /\ Kept(m.node[i], k.node[i]) /\ Unscheduled(m.node[i]) /\ Heard(m.node[i], k.node[i], line)
<1> DEFINE o == k.node[i]
           m == RecvLine(k, i, line)
<1>1. /\ o \in Nodes /\ NodeOK(o) /\ k.node \in [Ids -> Nodes] /\ k = [node |-> k.node, timers |-> k.timers]
  BY TableFields DEF TableOK
<1>2. o.name # NoHost
  BY <1>1 DEF NodeOK, FreeNode
<1>3. ASSUME NEW n, m = Put(k, i, n), NodeOK(n), n.tag = 0, n.name \in {o.name, NoHost}, Kept(n, o),
             Heard(n, o, line)
      PROVE  /\ TableOK(m)
             /\ \A j \in Ids \ {i} : m.node[j] = k.node[j]
             /\ Kept(m.node[i], o) /\ Unscheduled(m.node[i]) /\ Heard(m.node[i], o, line)
  <2>1. TableOK(m)
    BY <1>3, PutOK
  <2>2. m.node[i] = n /\ \A j \in Ids \ {i} : m.node[j] = k.node[j]
    BY <1>1, <1>3 DEF Put
  <2>3. QED BY <1>3, <2>1, <2>2 DEF Unscheduled
<1>4. CASE o.state # "SINKS"
  <2>1. m = k
    BY <1>4 DEF RecvLine
  <2>2. QED BY <1>4, <2>1, KeptSame DEF Unscheduled, Heard
<1>5. CASE o.state = "SINKS" /\ line.kind = "sink"
  <2>1. m = [k EXCEPT !.node[i] = SinkListed(@, line.name)]
    BY <1>5 DEF RecvLine
  <2>2. m = Put(k, i, SinkListed(o, line.name))
    BY <1>1, <2>1 DEF Put
  <2> DEFINE l == SinkListed(o, line.name)
  <2>3. NodeOK(l) /\ l.name = o.name /\ l.tag = 0 /\ Kept(l, o) /\ Learned(l, o, line.name)
    BY <1>1, <1>2, SinkListedOK
  <2> HIDE DEF l
  <2>4. Heard(l, o, line)
    BY <1>5, <2>3 DEF Heard
  <2>5. QED BY <1>3, <2>2, <2>3, <2>4 DEF l
<1>6. CASE o.state = "SINKS" /\ line.kind # "sink"
  <2>1. m = ListEnded(k, i)
    BY <1>6 DEF RecvLine
  <2>2. CASE o.sources # {}
    <3> DEFINE n == [name |-> o.name, state |-> "READY", attempts |-> o.attempts, tag |-> o.tag,
                     sources |-> o.sources, fd |-> o.fd, wbuf |-> o.wbuf]
    <3>1. [o EXCEPT !.state = "READY"] = n
      <4>1. PICK p : p = o
        OBVIOUS
      <4>2. p = [name |-> p.name, state |-> p.state, attempts |-> p.attempts, tag |-> p.tag,
                 sources |-> p.sources, fd |-> p.fd, wbuf |-> p.wbuf]
        BY <1>1, <4>1, NodeFields
      <4>3. QED BY <4>1, <4>2
    <3>2. m = Put(k, i, n)
      BY <1>1, <2>1, <2>2, <3>1 DEF ListEnded, Put
    <3>3. n \in Nodes
      BY <1>1 DEF Nodes, States
    <3>4. NodeOK(n) /\ n.tag = 0 /\ n.name = o.name /\ Kept(n, o) /\ Heard(n, o, line)
      BY <1>2, <1>6, <3>3 DEF NodeOK, Kept, Heard
    <3> HIDE DEF n
    <3>5. QED BY <1>3, <3>2, <3>4
  <2>3. CASE o.sources = {}
    <3>1. m = NodeRemove(k, i)
      BY <2>1, <2>3 DEF ListEnded
    <3>2. m = Put(k, i, FreeNode)
      BY <1>1, <3>1 DEF NodeRemove, Put
    <3>3. FreeNode.tag = 0 /\ FreeNode.name = NoHost
      BY DEF FreeNode
    <3>4. Heard(FreeNode, o, line)
      BY <1>6 DEF Heard
    <3>5. QED BY <1>3, <3>2, <3>3, <3>4, FreeNodeOK, KeptFree
  <2>4. QED BY <2>2, <2>3
<1>7. QED BY <1>4, <1>5, <1>6
-----------------------------------------------------------------------------
(* Timers and nodes                                                        *)

Engines == [up : BOOLEAN, sinks : UNION {[c -> 0..MaxVersion] : c \in UNION {Configs[h] : h \in Hosts}}]

EnginesOK == remote \in [Hosts -> Engines] /\ \A h \in Hosts : DOMAIN remote[h].sinks \in Configs[h]

PipesOK == pipe \in [Ids -> [out : Seq(Requests), in : Seq(Lines)]]

NodesInv == /\ TableOK(K) /\ \A i \in Ids : Unscheduled(K.node[i])
            /\ PipesOK /\ EnginesOK /\ ValuesOK /\ losses \in 0..MaxLosses

LEMMA NodesInvSuffices == NodesInv => TimersMatchNodes
<1>1. SUFFICES ASSUME NodesInv PROVE TimersMatchNodes
  OBVIOUS
<1>2. /\ K.node \in [Ids -> Nodes] /\ K.timers \in SUBSET Timers
      /\ \A t \in K.timers : t.node \in Ids /\ t.tag \in Nat \ {0}
  BY <1>1, TableFields DEF NodesInv
<1>3. TypeOK
  <2>1. Nodes \subseteq [name : Hosts \cup {NoHost}, state : States, attempts : 0..Retries + 1,
                         tag : Nat, sources : SUBSET Sources,
                         fd : {"none", "up", "broken"}, wbuf : Seq(Lines)]
    <3>1. Seq(Requests) \subseteq Seq(Lines)
      BY RequestsAreLines
    <3>2. QED BY <3>1 DEF Nodes
  <2>2. pipe \in [Ids -> [out : Seq(Lines), in : Seq(Lines)]]
    <3>1. Seq(Requests) \subseteq Seq(Lines)
      BY RequestsAreLines
    <3>2. QED BY <1>1, <3>1 DEF NodesInv, PipesOK
  <2>3. ASSUME NEW h \in Hosts
        PROVE  /\ remote[h].up \in BOOLEAN
               /\ remote[h].sinks \in [DOMAIN remote[h].sinks -> 0..MaxVersion]
               /\ DOMAIN remote[h].sinks \in Configs[h]
    <3>1. remote[h] \in Engines /\ DOMAIN remote[h].sinks \in Configs[h]
      BY <1>1 DEF NodesInv, EnginesOK
    <3>2. PICK c : remote[h].sinks \in [c -> 0..MaxVersion]
      BY <3>1 DEF Engines
    <3>3. QED BY <3>1, <3>2 DEF Engines
  <2>4. QED BY <1>1, <1>2, <2>1, <2>2, <2>3 DEF TypeOK, NodesInv, ValuesOK, Timers
<1>4. \A t \in K.timers : Live(K, t.node) /\ K.node[t.node].tag = t.tag
  <2>1. SUFFICES ASSUME NEW t \in K.timers PROVE Live(K, t.node) /\ K.node[t.node].tag = t.tag
    OBVIOUS
  <2>2. K.node[t.node].tag = t.tag /\ t.tag # 0 /\ NodeOK(K.node[t.node])
    BY <1>1, <1>2 DEF NodesInv, TableOK, Paired
  <2>3. QED BY <2>2 DEF NodeOK, FreeNode, Live
<1>5. \A i \in Ids : K.node[i].tag # 0 => \E t \in K.timers : t.tag = K.node[i].tag
  BY <1>1 DEF NodesInv, TableOK, Paired
<1>6. QED BY <1>1, <1>3, <1>4, <1>5 DEF TimersMatchNodes, NodesInv, Unscheduled

\* What is on its way stays so, in order, or is lost with the connection.
Piped(i) == /\ pipe'[i].out \in {pipe[i].out, <<>>}
            /\ K'.node[i].fd = "none" =>
                 pipe'[i] = EmptyPipe \/ (K.node[i].fd = "none" /\ pipe'[i] = pipe[i])

\* What the engine does on its own keeps nodes and timers together.
LEMMA TableStep ==
  ASSUME NodesInv,
         \/ \E h \in Hosts : Advertised(h)
         \/ \E i \in Ids : Timer(i) \/ Receive(i) \/ HangUp(i)
  PROVE  /\ TableOK(K')
         /\ \A i \in Ids : Unscheduled(K'.node[i]) /\ Kept(K'.node[i], K.node[i]) /\ Piped(i)
<1>1. TableOK(K) /\ (\A i \in Ids : Unscheduled(K.node[i])) /\ ValuesOK /\ PipesOK
  BY DEF NodesInv
<1>2. ASSUME NEW h \in Hosts, Advertised(h)
      PROVE  /\ TableOK(K')
             /\ \A i \in Ids : Unscheduled(K'.node[i]) /\ Kept(K'.node[i], K.node[i]) /\ Piped(i)
  <2>1. /\ TableOK(K')
        /\ \A i \in Ids : Unscheduled(K'.node[i]) /\ Kept(K'.node[i], K.node[i]) /\ K'.node[i].fd = K.node[i].fd
    BY <1>1, <1>2, NodeAddOK DEF Advertised, Kept
  <2>2. pipe' = pipe
    BY <1>2 DEF Advertised
  <2>3. QED BY <2>1, <2>2 DEF Piped
<1>3. ASSUME NEW i \in Ids, TableOK(K'), \A j \in Ids \ {i} : K'.node[j] = K.node[j],
             Kept(K'.node[i], K.node[i]), Unscheduled(K'.node[i]),
             Piped(i), \A j \in Ids \ {i} : pipe'[j] = pipe[j]
      PROVE  /\ TableOK(K')
             /\ \A j \in Ids : Unscheduled(K'.node[j]) /\ Kept(K'.node[j], K.node[j]) /\ Piped(j)
  BY <1>1, <1>3, KeptSame DEF Piped
<1>4. ASSUME NEW i \in Ids, NEW t \in K.timers, t.node = i, ConnectFirst(t)
      PROVE  /\ TableOK(K')
             /\ \A j \in Ids : Unscheduled(K'.node[j]) /\ Kept(K'.node[j], K.node[j]) /\ Piped(j)
  <2>1. PICK ok \in BOOLEAN : K' = NodeConnect(FiredFirst(K, t, i), i, ok)
    BY <1>4 DEF ConnectFirst, FiredFirst, Reached
  <2>2. TableOK(K') /\ (\A j \in Ids \ {i} : K'.node[j] = K.node[j])
        /\ Kept(K'.node[i], K.node[i]) /\ Unscheduled(K'.node[i])
    <3> DEFINE m == NodeConnect(FiredFirst(K, t, i), i, ok)
    <3>1. /\ TableOK(m)
          /\ \A j \in Ids \ {i} : m.node[j] = K.node[j]
          /\ Kept(m.node[i], K.node[i]) /\ Unscheduled(m.node[i])
      BY <1>1, <1>4, ConnectFirstOK
    <3>2. K' = m
      BY <2>1
    <3> HIDE DEF m
    <3>3. QED BY <3>1, <3>2
  <2>3. pipe' = pipe /\ K.node[i].fd = "none"
    BY <1>1, <1>4, TableFields DEF ConnectFirst, TableOK, Paired, Unscheduled
  <2>4. Piped(i)
    BY <2>3 DEF Piped
  <2>5. QED BY <1>3, <2>2, <2>3, <2>4
<1>5. ASSUME NEW i \in Ids, NEW t \in K.timers, t.node = i, ConnectRetry(t)
      PROVE  /\ TableOK(K')
             /\ \A j \in Ids : Unscheduled(K'.node[j]) /\ Kept(K'.node[j], K.node[j]) /\ Piped(j)
  <2>1. PICK ok \in BOOLEAN :
          K' = IF ConnectAgain(K.node[i], ok) THEN NodeConnect(K, i, ok)
               ELSE [NodeConnect(K, i, ok) EXCEPT !.timers = @ \ {t}]
    BY <1>5 DEF ConnectRetry
  <2>2. t.func = "connect"
    BY <1>5 DEF ConnectRetry
  <2>3. TableOK(K') /\ (\A j \in Ids \ {i} : K'.node[j] = K.node[j])
        /\ Kept(K'.node[i], K.node[i]) /\ Unscheduled(K'.node[i])
    <3> DEFINE m == IF ConnectAgain(K.node[i], ok) THEN NodeConnect(K, i, ok)
                    ELSE [NodeConnect(K, i, ok) EXCEPT !.timers = @ \ {t}]
    <3>1. /\ TableOK(m)
          /\ \A j \in Ids \ {i} : m.node[j] = K.node[j]
          /\ Kept(m.node[i], K.node[i]) /\ Unscheduled(m.node[i])
      BY <1>1, <1>5, <2>2, ConnectRetryOK
    <3>2. K' = m
      BY <2>1
    <3> HIDE DEF m
    <3>3. QED BY <3>1, <3>2
  <2>4. pipe' = pipe /\ K.node[i].fd = "none"
    BY <1>1, <1>5, TableFields DEF ConnectRetry, TableOK, Paired, Unscheduled
  <2>5. Piped(i)
    BY <2>4 DEF Piped
  <2>6. QED BY <1>3, <2>3, <2>4, <2>5
<1>6. ASSUME NEW i \in Ids, Receive(i)
      PROVE  /\ TableOK(K')
             /\ \A j \in Ids : Unscheduled(K'.node[j]) /\ Kept(K'.node[j], K.node[j]) /\ Piped(j)
  <2>1. K' = RecvLine(K, i, Head(pipe[i].in)) /\ K.node[i].fd # "none"
    BY <1>6 DEF Receive
  <2>2. K.node[i].tag = 0
    BY <1>1, <2>1 DEF Unscheduled
  <2>3. TableOK(K') /\ (\A j \in Ids \ {i} : K'.node[j] = K.node[j])
        /\ Kept(K'.node[i], K.node[i]) /\ Unscheduled(K'.node[i])
    BY <1>1, <2>1, <2>2, RecvLineOK
  <2>4. pipe' = IF K'.node[i].fd = "none" THEN [pipe EXCEPT ![i] = EmptyPipe]
                 ELSE [pipe EXCEPT ![i].in = Tail(pipe[i].in)]
    BY <1>6 DEF Receive
  <2>5. Piped(i) /\ \A j \in Ids \ {i} : pipe'[j] = pipe[j]
    BY <1>1, <2>4 DEF PipesOK, Piped, EmptyPipe
  <2>6. QED BY <1>3, <2>3, <2>5
<1>7. ASSUME NEW i \in Ids, HangUp(i)
      PROVE  /\ TableOK(K')
             /\ \A j \in Ids : Unscheduled(K'.node[j]) /\ Kept(K'.node[j], K.node[j]) /\ Piped(j)
  <2>1. PICK ok \in BOOLEAN : K' = HungUp(K, i, ok)
    BY <1>7 DEF HangUp, Reached
  <2>2. K.node[i].fd # "none"
    BY <1>7 DEF HangUp
  <2>3. TableOK(K') /\ (\A j \in Ids \ {i} : K'.node[j] = K.node[j])
        /\ Kept(K'.node[i], K.node[i]) /\ K'.node[i].fd = "none"
    BY <1>1, <2>1, <2>2, HungUpOK
  <2>4. Piped(i) /\ \A j \in Ids \ {i} : pipe'[j] = pipe[j]
    BY <1>1, <1>7 DEF HangUp, PipesOK, Piped, EmptyPipe
  <2>5. QED BY <1>3, <2>3, <2>4 DEF Unscheduled
<1>8. QED BY <1>2, <1>4, <1>5, <1>6, <1>7 DEF Timer

LEMMA SetListed ==
  ASSUME NEW S, IsFiniteSet(S)
  PROVE  Cardinality(S) \in Nat /\ \A n \in 1..Cardinality(S) : SetToSeq(S)[n] \in S
<1>1. Cardinality(S) \in Nat /\ \E f \in [1..Cardinality(S) -> S] : IsInjective(f)
  BY FS_CardinalityType DEF ExistsBijection, Bijection, Injection, IsInjective
<1>2. SetToSeq(S) \in [1..Cardinality(S) -> S]
  BY <1>1 DEF SetToSeq
<1>3. QED BY <1>1, <1>2

LEMMA OneLine == ASSUME NEW S, NEW e \in S PROVE <<e>> \in Seq(S)
OBVIOUS

\* hkcp_command_sinks
LEMMA SinkListOK ==
  ASSUME NEW h \in Hosts, NEW c \in Configs[h]
  PROVE  SinkList(c) \in Seq(Lines)
<1>1. IsFiniteSet(c) /\ 0 \in 0..MaxVersion
  BY HkcpAssumption DEF HkcpAssumption
<1>2. Cardinality(c) \in Nat /\ \A n \in 1..Cardinality(c) : SetToSeq(c)[n] \in c
  BY <1>1, SetListed
<1>3. ASSUME NEW s \in c PROVE Line("sink", s, 0) \in Lines
  <2>1. c \in UNION {Configs[g] : g \in Hosts}
    OBVIOUS
  <2>2. s \in Names
    BY <2>1 DEF Names
  <2>3. QED BY <1>1, <2>2 DEF Line, Lines
<1>4. Line("end", "", 0) \in Lines
  BY <1>1 DEF Line, Lines, Names
<1>5. [n \in 1..Cardinality(c) |-> Line("sink", SetToSeq(c)[n], 0)] \in Seq(Lines)
  BY <1>2, <1>3
<1>6. <<Line("end", "", 0)>> \in Seq(Lines)
  BY <1>4, OneLine
<1> DEFINE list == [n \in 1..Cardinality(c) |-> Line("sink", SetToSeq(c)[n], 0)]
<1>7. list \o <<Line("end", "", 0)>> \in Seq(Lines)
  <2> HIDE DEF list
  <2>1. list \in Seq(Lines)
    BY <1>5 DEF list
  <2>2. QED BY <1>6, <2>1, ConcatProperties
<1>8. QED BY <1>7 DEF SinkList

LEMMA ReplyOK ==
  ASSUME EnginesOK, NEW h \in Hosts, NEW line \in Requests
  PROVE  RemoteReply(h, line) \in Seq(Lines)
<1>1. CASE line.kind = "sinks"
  <2>1. DOMAIN remote[h].sinks \in Configs[h]
    BY DEF EnginesOK
  <2>2. RemoteReply(h, line) = SinkList(DOMAIN remote[h].sinks)
    BY <1>1 DEF RemoteReply
  <2>3. QED BY <2>1, <2>2, SinkListOK
<1>2. CASE line.kind = "set"
  <2>1. Line("error", "", 0) \in Lines
    BY HkcpAssumption DEF HkcpAssumption, Line, Lines, Names
  <2>2. RemoteReply(h, line) \in {<<>>, <<Line("error", "", 0)>>}
    BY <1>2 DEF RemoteReply
  <2>3. <<Line("error", "", 0)>> \in Seq(Lines) /\ <<>> \in Seq(Lines)
    BY <2>1, OneLine, EmptySeq
  <2>4. QED BY <2>2, <2>3
<1>3. QED BY <1>1, <1>2 DEF Requests

\* hkcp_command_set
LEMMA RemoteSetOK ==
  ASSUME EnginesOK, NEW h \in Hosts, NEW line \in Requests,
         remote' = [remote EXCEPT ![h].sinks = RemoteSet(@, line)]
  PROVE  /\ EnginesOK'
         /\ remote' = [remote EXCEPT ![h] = [up |-> remote[h].up, sinks |-> RemoteSet(remote[h].sinks, line)]]
<1>1. remote \in [Hosts -> Engines] /\ remote[h] \in Engines /\ DOMAIN remote[h].sinks \in Configs[h]
  BY DEF EnginesOK
<1>2. PICK sinks : sinks = remote[h].sinks
  OBVIOUS
<1>3. PICK c \in UNION {Configs[g] : g \in Hosts} : sinks \in [c -> 0..MaxVersion]
  BY <1>1, <1>2 DEF Engines
<1>4. line.version \in 0..MaxVersion
  BY DEF Requests
<1>5. RemoteSet(sinks, line) \in [c -> 0..MaxVersion] /\ DOMAIN RemoteSet(sinks, line) = DOMAIN sinks
  BY <1>3, <1>4 DEF RemoteSet
<1>6. remote' = [remote EXCEPT ![h] = [up |-> remote[h].up, sinks |-> RemoteSet(sinks, line)]]
  <2>1. PICK e : e = remote[h]
    OBVIOUS
  <2>2. e = [up |-> e.up, sinks |-> sinks]
    BY <1>1, <1>2, <2>1 DEF Engines
  <2>3. [e EXCEPT !.sinks = RemoteSet(sinks, line)] = [up |-> e.up, sinks |-> RemoteSet(sinks, line)]
    BY <2>2
  <2>4. remote' = [remote EXCEPT ![h] = [e EXCEPT !.sinks = RemoteSet(sinks, line)]]
    BY <1>1, <1>2, <2>1, <2>2
  <2>5. QED BY <2>1, <2>3, <2>4
<1>7. [up |-> remote[h].up, sinks |-> RemoteSet(sinks, line)] \in Engines
  BY <1>1, <1>3, <1>5 DEF Engines
<1>8. remote' \in [Hosts -> Engines]
  BY <1>1, <1>6, <1>7
<1>9. \A g \in Hosts : DOMAIN remote'[g].sinks = DOMAIN remote[g].sinks
  BY <1>1, <1>2, <1>5, <1>6
<1>10. QED BY <1>2, <1>6, <1>8, <1>9 DEF EnginesOK

LEMMA NodesInit == Init => NodesInv
<1>1. SUFFICES ASSUME Init PROVE NodesInv
  OBVIOUS
<1>2. K.node = [i \in Ids |-> FreeNode] /\ K.timers = {} /\ K = [node |-> K.node, timers |-> K.timers]
  BY <1>1 DEF Init
<1>3. FreeNode.tag = 0 /\ FreeNode.name = NoHost /\ FreeNode.fd = "none"
  BY DEF FreeNode
<1>4. TableOK(K) /\ \A i \in Ids : Unscheduled(K.node[i])
  <2>1. K \in Tables
    BY <1>2, FreeNodeOK DEF Tables, NodeOK
  <2>2. \A i \in Ids : NodeOK(K.node[i])
    BY <1>2, FreeNodeOK
  <2>3. OneEntry(K) /\ Paired(K) /\ Counted(K)
    BY <1>2, <1>3 DEF OneEntry, Paired, Counted
  <2>4. QED BY <1>2, <1>3, <2>1, <2>2, <2>3 DEF TableOK, Unscheduled
<1>5. PipesOK
  <2>1. EmptyPipe \in [out : Seq(Requests), in : Seq(Lines)]
    BY EmptySeq DEF EmptyPipe
  <2>2. QED BY <1>1, <2>1 DEF Init, PipesOK
<1>6. EnginesOK
  <2>1. /\ remote \in [Hosts -> UNION {{Started(c) : c \in Configs[h]} : h \in Hosts}]
        /\ \A h \in Hosts : DOMAIN remote[h].sinks \in Configs[h]
    BY <1>1 DEF Init
  <2>2. ASSUME NEW h \in Hosts, NEW c \in Configs[h] PROVE Started(c) \in Engines
    <3>1. [s \in c |-> 0] \in [c -> 0..MaxVersion]
      BY HkcpAssumption DEF HkcpAssumption
    <3>2. c \in UNION {Configs[g] : g \in Hosts}
      OBVIOUS
    <3>3. QED BY <3>1, <3>2 DEF Started, Engines
  <2>3. \A h \in Hosts : remote[h] \in Engines
    BY <2>1, <2>2
  <2>4. QED BY <2>1, <2>3 DEF EnginesOK
<1>7. ValuesOK /\ losses \in 0..MaxLosses
  BY <1>1, HkcpAssumption DEF Init, ValuesOK, HkcpAssumption
<1>8. QED BY <1>4, <1>5, <1>6, <1>7 DEF NodesInv

\* The peer of a host's connections goes.
LEMMA BrokenOK ==
  ASSUME NodesInv, NEW h \in Hosts, Broken(h)
  PROVE  /\ TableOK(K') /\ PipesOK'
         /\ \A i \in Ids : Unscheduled(K'.node[i]) /\ K'.node[i].name = K.node[i].name /\ K'.node[i].wbuf = K.node[i].wbuf
                          /\ (K'.node[i].fd = "none" <=> K.node[i].fd = "none")
                          /\ K'.node[i].sources = K.node[i].sources /\ K'.node[i].state = K.node[i].state
                          /\ IF K.node[i].name = h THEN K'.node[i].fd # "up" ELSE K'.node[i] = K.node[i]
<1> DEFINE f == [i \in Ids |-> IF K.node[i].name = h /\ K.node[i].fd = "up"
                             THEN [K.node[i] EXCEPT !.fd = "broken"] ELSE K.node[i]]
<1>1. K.node \in [Ids -> Nodes] /\ TableOK(K) /\ K = [node |-> K.node, timers |-> K.timers]
  BY TableFields DEF NodesInv
<1>2. K' = [node |-> f, timers |-> K.timers]
  BY <1>1 DEF Broken
<1>3. ASSUME NEW i \in Ids
      PROVE  /\ f[i] \in Nodes /\ NodeOK(f[i]) /\ f[i].name = K.node[i].name /\ f[i].tag = K.node[i].tag
             /\ f[i].attempts = K.node[i].attempts /\ f[i].wbuf = K.node[i].wbuf
             /\ (f[i].fd = "none" <=> K.node[i].fd = "none")
             /\ f[i].sources = K.node[i].sources /\ f[i].state = K.node[i].state
             /\ IF K.node[i].name = h THEN f[i].fd # "up" ELSE f[i] = K.node[i]
  <2> DEFINE o == K.node[i]
  <2>1. o \in Nodes /\ NodeOK(o)
    BY <1>1 DEF TableOK
  <2>2. CASE o.name = h /\ o.fd = "up"
    <3>1. o = [name |-> o.name, state |-> o.state, attempts |-> o.attempts, tag |-> o.tag,
               sources |-> o.sources, fd |-> o.fd, wbuf |-> o.wbuf]
      BY <2>1, NodeFields
    <3> DEFINE n == [name |-> o.name, state |-> o.state, attempts |-> o.attempts, tag |-> o.tag,
                     sources |-> o.sources, fd |-> "broken", wbuf |-> o.wbuf]
    <3>2. f[i] = n
      <4>1. PICK p : p = o
        OBVIOUS
      <4>2. [p EXCEPT !.fd = "broken"] = n
        BY <3>1, <4>1
      <4>3. f[i] = [p EXCEPT !.fd = "broken"]
        BY <2>2, <4>1
      <4>4. QED BY <4>2, <4>3
    <3>3. n \in Nodes
      BY <2>1 DEF Nodes
    <3>4. NodeOK(n)
      BY <2>2, <3>3, HkcpAssumption DEF NodeOK, HkcpAssumption
    <3>5. QED BY <2>2, <3>2, <3>3, <3>4
  <2>3. CASE ~(o.name = h /\ o.fd = "up")
    BY <2>1, <2>3
  <2>4. QED BY <2>2, <2>3
<1>4. f \in [Ids -> Nodes]
  BY <1>3
<1> HIDE DEF f
<1>5. TableOK(K')
  BY <1>1, <1>2, <1>3, <1>4, ReworkedOK
<1>6. K'.node = f
  BY <1>2
<1>7. PipesOK'
  <2>1. pipe \in [Ids -> [out : Seq(Requests), in : Seq(Lines)]]
    BY DEF NodesInv, PipesOK
  <2>2. ASSUME NEW p \in [out : Seq(Requests), in : Seq(Lines)]
        PROVE  [p EXCEPT !.out = <<>>] \in [out : Seq(Requests), in : Seq(Lines)]
    BY EmptySeq
  <2>3. pipe' = [i \in Ids |-> IF K.node[i].name = h THEN [pipe[i] EXCEPT !.out = <<>>] ELSE pipe[i]]
    BY DEF Broken
  <2>4. QED BY <2>1, <2>2, <2>3 DEF PipesOK
<1>8. QED BY <1>3, <1>5, <1>6, <1>7 DEF NodesInv, Unscheduled

\* hkcp_source_send_nodes
LEMMA UpdateOK ==
  ASSUME NodesInv, NEW s \in Sources, Update(s)
  PROVE  /\ TableOK(K')
         /\ \A i \in Ids : /\ Unscheduled(K'.node[i]) /\ K'.node[i].name = K.node[i].name
                           /\ K'.node[i].wbuf \in {K.node[i].wbuf, Append(K.node[i].wbuf, Line("set", s, value[s] + 1))}
                           /\ K'.node[i].fd = K.node[i].fd
                           /\ K'.node[i].sources = K.node[i].sources /\ K'.node[i].state = K.node[i].state
                           /\ s \in K.node[i].sources =>
                                K'.node[i].wbuf = Append(K.node[i].wbuf, Line("set", s, value[s] + 1))
                           /\ s \notin K.node[i].sources => K'.node[i].wbuf = K.node[i].wbuf
<1> DEFINE line == Line("set", s, value[s] + 1)
           f == [i \in Ids |-> IF s \in K.node[i].sources THEN Queue(K.node[i], line) ELSE K.node[i]]
<1>1. K.node \in [Ids -> Nodes] /\ TableOK(K) /\ K = [node |-> K.node, timers |-> K.timers]
  BY TableFields DEF NodesInv
<1>2. K' = [node |-> f, timers |-> K.timers]
  BY <1>1 DEF Update, SendNodes
<1>3. line \in Requests
  <2>1. value[s] + 1 \in 0..MaxVersion
    BY HkcpAssumption DEF Update, NodesInv, ValuesOK, HkcpAssumption
  <2>2. s \in Names
    BY DEF Names
  <2>3. QED BY <2>1, <2>2 DEF Requests, Line
<1> HIDE DEF line
<1>4. ASSUME NEW i \in Ids
      PROVE  /\ f[i] \in Nodes /\ NodeOK(f[i]) /\ f[i].name = K.node[i].name /\ f[i].tag = K.node[i].tag
             /\ f[i].attempts = K.node[i].attempts /\ f[i].wbuf \in {K.node[i].wbuf, Append(K.node[i].wbuf, line)}
             /\ f[i].fd = K.node[i].fd
             /\ f[i].sources = K.node[i].sources /\ f[i].state = K.node[i].state
             /\ s \in K.node[i].sources => f[i].wbuf = Append(K.node[i].wbuf, line)
             /\ s \notin K.node[i].sources => f[i].wbuf = K.node[i].wbuf
  <2>1. K.node[i] \in Nodes /\ NodeOK(K.node[i])
    BY <1>1 DEF TableOK
  <2>2. CASE s \in K.node[i].sources
    <3>1. K.node[i].name # NoHost
      BY <2>1, <2>2 DEF NodeOK, FreeNode
    <3>2. f[i] = Queue(K.node[i], line)
      BY <2>2
    <3> DEFINE q == Queue(K.node[i], line)
    <3>3. /\ NodeOK(q) /\ q.name = K.node[i].name /\ q.tag = K.node[i].tag /\ q.attempts = K.node[i].attempts
          /\ q.fd = K.node[i].fd /\ q.wbuf = Append(K.node[i].wbuf, line)
          /\ q.sources = K.node[i].sources /\ q.state = K.node[i].state
      BY <1>3, <2>1, <3>1, QueueOK
    <3> HIDE DEF q, f
    <3>4. f[i] = q
      BY <3>2 DEF q
    <3>5. QED BY <2>2, <3>3, <3>4 DEF NodeOK
  <2>3. CASE s \notin K.node[i].sources
    BY <2>1, <2>3
  <2>4. QED BY <2>2, <2>3
<1>5. f \in [Ids -> Nodes]
  BY <1>4
<1> HIDE DEF f
<1>6. TableOK(K')
  BY <1>1, <1>2, <1>4, <1>5, ReworkedOK
<1>7. K'.node = f
  BY <1>2
<1>8. QED BY <1>4, <1>6, <1>7 DEF NodesInv, Unscheduled, line

\* tcp_sock_write_event
LEMMA FlushOK ==
  ASSUME NodesInv, NEW i \in Ids, NEW n \in 1..Len(K.node[i].wbuf), K.node[i].fd = "up",
         K' = [K EXCEPT !.node[i].wbuf = Shifted(@, n)]
  PROVE  /\ TableOK(K')
         /\ \A j \in Ids : /\ Unscheduled(K'.node[j]) /\ K'.node[j].name = K.node[j].name
                           /\ K'.node[j].fd = K.node[j].fd
                           /\ K'.node[j].sources = K.node[j].sources /\ K'.node[j].state = K.node[j].state
                           /\ K'.node[j].wbuf = IF j = i THEN Shifted(K.node[i].wbuf, n) ELSE K.node[j].wbuf
<1> DEFINE o == K.node[i]
           w == Shifted(o.wbuf, n)
           m == [name |-> o.name, state |-> o.state, attempts |-> o.attempts, tag |-> o.tag,
                 sources |-> o.sources, fd |-> o.fd, wbuf |-> w]
<1>1. /\ K.node \in [Ids -> Nodes] /\ TableOK(K) /\ K = [node |-> K.node, timers |-> K.timers]
      /\ o \in Nodes /\ NodeOK(o) /\ Unscheduled(o)
  BY TableFields DEF NodesInv, TableOK
<1>2. w \in Seq(Requests)
  <2>1. o.wbuf \in Seq(Requests)
    BY <1>1 DEF Nodes
  <2>2. QED BY <2>1, LenProperties, SubSeqProperties DEF Shifted
<1> HIDE DEF w
<1>3. m \in Nodes
  BY <1>1, <1>2 DEF Nodes
<1>4. /\ NodeOK(m) /\ m.name = o.name /\ m.tag = o.tag /\ m.attempts = o.attempts /\ m.fd = o.fd /\ m.wbuf = w
      /\ m.sources = o.sources /\ m.state = o.state
  <2>1. o.name # NoHost
    BY <1>1 DEF NodeOK, FreeNode
  <2>2. QED BY <1>3, <2>1 DEF NodeOK
<1>5. K' = Put(K, i, m)
  <2>1. o = [name |-> o.name, state |-> o.state, attempts |-> o.attempts, tag |-> o.tag,
             sources |-> o.sources, fd |-> o.fd, wbuf |-> o.wbuf]
    BY <1>1, NodeFields
  <2>2. PICK p : p = o
    OBVIOUS
  <2>3. [p EXCEPT !.wbuf = w] = m
    BY <2>1, <2>2
  <2>4. K' = [node |-> [K.node EXCEPT ![i] = [p EXCEPT !.wbuf = w]], timers |-> K.timers]
    BY <1>1, <2>2 DEF w
  <2>5. QED BY <2>3, <2>4 DEF Put
<1> HIDE DEF m
<1>6. TableOK(K')
  BY <1>1, <1>4, <1>5, PutOK
<1>7. K'.node[i] = m /\ \A j \in Ids \ {i} : K'.node[j] = K.node[j]
  BY <1>1, <1>5 DEF Put
<1>8. \A j \in Ids : Unscheduled(K.node[j])
  BY DEF NodesInv
<1>9. QED BY <1>1, <1>4, <1>6, <1>7, <1>8 DEF Unscheduled, w

LEMMA NodesStep == NodesInv /\ [Next]_vars => NodesInv'
<1>1. SUFFICES ASSUME NodesInv, [Next]_vars PROVE NodesInv'
  OBVIOUS
<1>2. PipesOK /\ EnginesOK /\ ValuesOK /\ losses \in 0..MaxLosses
  BY <1>1 DEF NodesInv
<1>3. ASSUME NEW h \in Hosts, Advertised(h) PROVE NodesInv'
  BY <1>1, <1>2, <1>3, TableStep DEF NodesInv, Advertised, PipesOK, EnginesOK, ValuesOK
<1>4. ASSUME NEW i \in Ids, Timer(i) PROVE NodesInv'
  <2>1. UNCHANGED <<pipe, remote, value, losses>>
    BY <1>4 DEF Timer, ConnectFirst, ConnectRetry
  <2>2. QED BY <1>1, <1>2, <1>4, <2>1, TableStep DEF NodesInv, PipesOK, EnginesOK, ValuesOK
<1>5. ASSUME NEW i \in Ids, Flush(i) PROVE NodesInv'
  <2>1. PICK n \in 1..Len(K.node[i].wbuf) :
          /\ pipe' = [pipe EXCEPT ![i].out = @ \o SubSeq(K.node[i].wbuf, 1, n)]
          /\ K' = [K EXCEPT !.node[i].wbuf = Shifted(@, n)]
    BY <1>5 DEF Flush
  <2>2. TableOK(K') /\ \A j \in Ids : Unscheduled(K'.node[j])
    BY <1>1, <1>5, <2>1, FlushOK DEF Flush
  <2>3. K.node[i].wbuf \in Seq(Requests)
    BY <1>1, TableFields DEF NodesInv, Nodes
  <2>4. SubSeq(K.node[i].wbuf, 1, n) \in Seq(Requests)
    BY <2>3, LenProperties, SubSeqProperties
  <2>5. pipe[i].out \in Seq(Requests) /\ pipe[i] \in [out : Seq(Requests), in : Seq(Lines)]
    BY <1>2 DEF PipesOK
  <2>6. pipe[i].out \o SubSeq(K.node[i].wbuf, 1, n) \in Seq(Requests)
    BY <2>4, <2>5, ConcatProperties
  <2>7. PipesOK'
    BY <1>2, <2>1, <2>5, <2>6 DEF PipesOK
  <2>8. QED BY <1>2, <1>5, <2>2, <2>7 DEF NodesInv, EnginesOK, ValuesOK, Flush
<1>6. ASSUME NEW i \in Ids, Receive(i) PROVE NodesInv'
  <2>1. TableOK(K') /\ \A j \in Ids : Unscheduled(K'.node[j])
    BY <1>1, <1>6, TableStep
  <2>2. pipe[i] \in [out : Seq(Requests), in : Seq(Lines)] /\ pipe[i].in # <<>>
    BY <1>2, <1>6 DEF PipesOK, Receive
  <2>3. Tail(pipe[i].in) \in Seq(Lines)
    BY <2>2, HeadTailProperties
  <2>4. EmptyPipe \in [out : Seq(Requests), in : Seq(Lines)]
    BY EmptySeq DEF EmptyPipe
  <2>5. [pipe[i] EXCEPT !.in = Tail(pipe[i].in)] \in [out : Seq(Requests), in : Seq(Lines)]
    BY <2>2, <2>3
  <2>6. pipe' \in {[pipe EXCEPT ![i] = EmptyPipe], [pipe EXCEPT ![i] = [pipe[i] EXCEPT !.in = Tail(pipe[i].in)]]}
    <3>1. pipe' = IF K'.node[i].fd = "none" THEN [pipe EXCEPT ![i] = EmptyPipe]
                 ELSE [pipe EXCEPT ![i].in = Tail(pipe[i].in)]
      BY <1>6 DEF Receive
    <3>2. CASE K'.node[i].fd = "none"
      BY <3>1, <3>2
    <3>3. CASE K'.node[i].fd # "none"
      BY <1>2, <3>1, <3>3 DEF PipesOK
    <3>4. QED BY <3>2, <3>3
  <2>7. PipesOK'
    BY <1>2, <2>4, <2>5, <2>6 DEF PipesOK
  <2>8. QED BY <1>2, <1>6, <2>1, <2>7 DEF NodesInv, EnginesOK, ValuesOK, Receive
<1>7. ASSUME NEW i \in Ids, HangUp(i) PROVE NodesInv'
  <2>1. TableOK(K') /\ \A j \in Ids : Unscheduled(K'.node[j])
    BY <1>1, <1>7, TableStep
  <2>2. EmptyPipe \in [out : Seq(Requests), in : Seq(Lines)]
    BY EmptySeq DEF EmptyPipe
  <2>3. PipesOK'
    BY <1>2, <1>7, <2>2 DEF PipesOK, HangUp
  <2>4. QED BY <1>2, <1>7, <2>1, <2>3 DEF NodesInv, EnginesOK, ValuesOK, HangUp
<1>8. ASSUME NEW i \in Ids, RemoteReceive(i) PROVE NodesInv'
  <2> DEFINE h == K.node[i].name
             line == Head(pipe[i].out)
  <2>1. K.node[i] \in Nodes /\ NodeOK(K.node[i]) /\ K.node[i].fd = "up"
    BY <1>1, <1>8, TableFields DEF NodesInv, TableOK, RemoteReceive
  <2>2. h \in Hosts
    BY <2>1 DEF NodeOK, Nodes, FreeNode
  <2>3. pipe[i] \in [out : Seq(Requests), in : Seq(Lines)] /\ pipe[i].out # <<>>
    BY <1>2, <1>8 DEF PipesOK, RemoteReceive
  <2>4. line \in Requests /\ Tail(pipe[i].out) \in Seq(Requests)
    BY <2>3, HeadTailProperties
  <2> HIDE DEF line
  <2>5. RemoteReply(h, line) \in Seq(Lines)
    BY <1>2, <2>2, <2>4, ReplyOK
  <2>6. pipe[i].in \o RemoteReply(h, line) \in Seq(Lines)
    BY <2>3, <2>5, ConcatProperties
  <2>7. PipesOK'
    <3>1. pipe' = [pipe EXCEPT ![i] = [out |-> Tail(pipe[i].out), in |-> pipe[i].in \o RemoteReply(h, line)]]
      BY <1>8 DEF RemoteReceive, line
    <3>2. QED BY <1>2, <2>4, <2>6, <3>1 DEF PipesOK
  <2>8. EnginesOK'
    <3>1. remote' = [remote EXCEPT ![h].sinks = RemoteSet(@, line)]
      BY <1>8 DEF RemoteReceive, line
    <3>2. QED BY <1>2, <2>2, <2>4, <3>1, RemoteSetOK
  <2>9. QED BY <1>1, <1>8, <2>7, <2>8 DEF NodesInv, ValuesOK, RemoteReceive
<1>9. ASSUME NEW s \in Sources, Update(s) PROVE NodesInv'
  <2>1. TableOK(K') /\ \A j \in Ids : Unscheduled(K'.node[j])
    BY <1>1, <1>9, UpdateOK
  <2>2. ValuesOK'
    BY <1>2, <1>9, HkcpAssumption DEF ValuesOK, Update, HkcpAssumption
  <2>3. QED BY <1>2, <1>9, <2>1, <2>2 DEF NodesInv, PipesOK, EnginesOK, Update
<1>10. ASSUME NEW h \in Hosts, LoseConnection(h) PROVE NodesInv'
  <2>1. TableOK(K') /\ PipesOK' /\ \A j \in Ids : Unscheduled(K'.node[j])
    BY <1>1, <1>10, BrokenOK DEF LoseConnection
  <2>2. (losses \in 0..MaxLosses)'
    BY <1>2, <1>10, HkcpAssumption DEF LoseConnection, HkcpAssumption
  <2>3. QED BY <1>2, <1>10, <2>1, <2>2 DEF NodesInv, EnginesOK, ValuesOK, LoseConnection
<1>11. ASSUME NEW h \in Hosts, RemoteStop(h) PROVE NodesInv'
  <2>1. TableOK(K') /\ PipesOK' /\ \A j \in Ids : Unscheduled(K'.node[j])
    BY <1>1, <1>11, BrokenOK DEF RemoteStop
  <2>2. (losses \in 0..MaxLosses)'
    BY <1>2, <1>11, HkcpAssumption DEF RemoteStop, HkcpAssumption
  <2>3. EnginesOK'
    <3>1. remote \in [Hosts -> Engines] /\ remote[h] \in Engines
      BY <1>2 DEF EnginesOK
    <3>2. [remote[h] EXCEPT !.up = FALSE] \in Engines /\ [remote[h] EXCEPT !.up = FALSE].sinks = remote[h].sinks
      BY <3>1 DEF Engines
    <3>3. remote' = [remote EXCEPT ![h] = [remote[h] EXCEPT !.up = FALSE]]
      BY <1>11, <3>1 DEF RemoteStop
    <3>4. remote' \in [Hosts -> Engines] /\ \A g \in Hosts : remote'[g].sinks = remote[g].sinks
      BY <3>1, <3>2, <3>3
    <3>5. QED BY <1>2, <3>4 DEF EnginesOK
  <2>4. QED BY <1>2, <1>11, <2>1, <2>2, <2>3 DEF NodesInv, ValuesOK, RemoteStop
<1>12. ASSUME NEW h \in Hosts, RemoteStart(h) PROVE NodesInv'
  <2>1. PICK c \in Configs[h] : remote' = [remote EXCEPT ![h] = Started(c)]
    BY <1>12 DEF RemoteStart
  <2>2. Started(c) \in Engines /\ DOMAIN Started(c).sinks = c
    <3>1. [s \in c |-> 0] \in [c -> 0..MaxVersion]
      BY HkcpAssumption DEF HkcpAssumption
    <3>2. c \in UNION {Configs[g] : g \in Hosts}
      OBVIOUS
    <3>3. QED BY <3>1, <3>2 DEF Started, Engines
  <2>3. EnginesOK'
    BY <1>2, <2>1, <2>2 DEF EnginesOK
  <2>4. UNCHANGED <<K, pipe, value, losses>>
    BY <1>12 DEF RemoteStart
  <2>5. TableOK(K') /\ \A j \in Ids : Unscheduled(K'.node[j])
    BY <1>1, <2>4 DEF NodesInv
  <2>6. QED BY <1>2, <2>3, <2>4, <2>5 DEF NodesInv, PipesOK, ValuesOK
<1>13. CASE UNCHANGED vars
  <2>1. UNCHANGED <<K, pipe, remote, value, losses>>
    BY <1>13 DEF vars
  <2>2. TableOK(K') /\ \A j \in Ids : Unscheduled(K'.node[j])
    BY <1>1, <2>1 DEF NodesInv
  <2>3. QED BY <1>2, <2>1, <2>2 DEF NodesInv, PipesOK, EnginesOK, ValuesOK
<1>14. QED BY <1>1, <1>3, <1>4, <1>5, <1>6, <1>7, <1>8, <1>9, <1>10, <1>11, <1>12, <1>13
           DEF Next, Environment

\* Whatever engines come and go, the pending calls into hkcp.c are those of the nodes in use,
\* one per node, and none is for a node that has a connection.
THEOREM TimersAndNodes == Spec => []TimersMatchNodes
<1>1. Spec => []NodesInv
  BY NodesInit, NodesStep, PTL DEF Spec
<1>2. QED BY <1>1, NodesInvSuffices, PTL
-----------------------------------------------------------------------------
(* The lines on their way to a remote engine                               *)

Sets(q) == {a \in 1..Len(q) : q[a].kind = "set"}

\* The values for a sink go out in the order of their versions, ...
Ordered(q) == \A a, b \in Sets(q) : a < b /\ q[a].name = q[b].name => q[a].version <= q[b].version

\* ... none newer than its source has ...
NoneAhead(q, vals) == \A a \in Sets(q) : q[a].name \in Sources /\ q[a].version <= vals[q[a].name]

\* ... nor older than the sink holds.
NoneBehind(q, sinks) == \A a \in Sets(q) : q[a].name \in DOMAIN sinks => sinks[q[a].name] <= q[a].version

\* Part of a queue.
LEMMA PartOf ==
  ASSUME NEW q \in Seq(Requests), NEW p \in Seq(Requests), NEW d \in Nat,
         \A a \in 1..Len(p) : a + d \in 1..Len(q) /\ p[a] = q[a + d]
  PROVE  /\ Ordered(q) => Ordered(p)
         /\ \A vals : NoneAhead(q, vals) => NoneAhead(p, vals)
         /\ \A sinks : NoneBehind(q, sinks) => NoneBehind(p, sinks)
<1>1. \A a \in Sets(p) : a + d \in Sets(q) /\ p[a] = q[a + d] /\ a \in Nat
  BY DEF Sets
<1>2. ASSUME Ordered(q) PROVE Ordered(p)
  <2>1. SUFFICES ASSUME NEW a \in Sets(p), NEW b \in Sets(p), a < b, p[a].name = p[b].name
                 PROVE  p[a].version <= p[b].version
    BY DEF Ordered
  <2>2. a + d \in Sets(q) /\ b + d \in Sets(q) /\ a + d < b + d
    BY <1>1, <2>1
  <2>3. q[a + d].name = q[b + d].name
    BY <1>1, <2>1
  <2>4. q[a + d].version <= q[b + d].version
    BY <1>2, <2>2, <2>3 DEF Ordered
  <2>5. QED BY <1>1, <2>4
<1>3. \A vals : NoneAhead(q, vals) => NoneAhead(p, vals)
  BY <1>1 DEF NoneAhead
<1>4. \A sinks : NoneBehind(q, sinks) => NoneBehind(p, sinks)
  BY <1>1 DEF NoneBehind
<1>5. QED BY <1>2, <1>3, <1>4

\* One more line: the request for sinks, or the present value of a source.
LEMMA OneMore ==
  ASSUME NEW q \in Seq(Requests), NEW vals, Ordered(q), NoneAhead(q, vals),
         NEW line \in Requests,
         line.kind = "set" => line.name \in Sources /\ line.version = vals[line.name]
  PROVE  /\ Ordered(Append(q, line)) /\ NoneAhead(Append(q, line), vals)
         /\ \A sinks : NoneBehind(q, sinks) /\ (\A s \in DOMAIN sinks \cap Sources : sinks[s] <= vals[s])
                         => NoneBehind(Append(q, line), sinks)
<1> DEFINE p == Append(q, line)
           n == Len(q)
<1>1. /\ n \in Nat /\ Len(p) = n + 1 /\ p[n + 1] = line
      /\ \A a \in 1..n : p[a] = q[a]
  OBVIOUS
<1>2. \A a \in Sets(p) : /\ a \in Nat
                       /\ \/ a \in Sets(q) /\ a <= n /\ p[a] = q[a]
                          \/ a = n + 1 /\ p[a] = line /\ line.kind = "set"
  BY <1>1 DEF Sets
<1> HIDE DEF p
<1>3. line.kind = "set" => line.version <= vals[line.name]
  BY DEF Requests
<1>4. NoneAhead(p, vals)
  BY <1>2, <1>3 DEF NoneAhead
<1>5. Ordered(p)
  <2>1. SUFFICES ASSUME NEW a \in Sets(p), NEW b \in Sets(p), a < b, p[a].name = p[b].name
                 PROVE  p[a].version <= p[b].version
    BY DEF Ordered
  <2>2. a \in Sets(q) /\ p[a] = q[a]
    BY <1>1, <1>2, <2>1
  <2>3. CASE b \in Sets(q) /\ p[b] = q[b]
    BY <2>1, <2>2, <2>3 DEF Ordered
  <2>4. CASE p[b] = line /\ line.kind = "set"
    BY <2>1, <2>2, <2>4 DEF NoneAhead
  <2>5. QED BY <1>2, <2>3, <2>4
<1>6. ASSUME NEW sinks, NoneBehind(q, sinks), \A s \in DOMAIN sinks \cap Sources : sinks[s] <= vals[s]
      PROVE  NoneBehind(p, sinks)
  BY <1>2, <1>6 DEF NoneBehind
<1>7. QED BY <1>4, <1>5, <1>6 DEF p

\* What is left when the connection, or what waits to be written, is dropped.
LEMMA Dropped ==
  ASSUME NEW o \in Seq(Requests), NEW w \in Seq(Requests), NEW o2 \in {o, <<>>}, NEW w2 \in {w, <<>>}
  PROVE  /\ o2 \o w2 \in Seq(Requests)
         /\ Ordered(o \o w) => Ordered(o2 \o w2)
         /\ \A vals : NoneAhead(o \o w, vals) => NoneAhead(o2 \o w2, vals)
         /\ \A sinks : NoneBehind(o \o w, sinks) => NoneBehind(o2 \o w2, sinks)
<1> DEFINE q == o \o w
           p == o2 \o w2
<1>1. Len(o) \in Nat /\ Len(w) \in Nat /\ <<>> \in Seq(Requests) /\ Len(<<>>) = 0
  BY LenProperties, EmptySeq
<1>2. /\ q \in Seq(Requests) /\ Len(q) = Len(o) + Len(w)
      /\ \A a \in 1..Len(o) + Len(w) : q[a] = IF a <= Len(o) THEN o[a] ELSE w[a - Len(o)]
  BY ConcatProperties
<1>3. /\ p \in Seq(Requests) /\ Len(p) = Len(o2) + Len(w2)
      /\ \A a \in 1..Len(o2) + Len(w2) : p[a] = IF a <= Len(o2) THEN o2[a] ELSE w2[a - Len(o2)]
  <2>1. o2 \in Seq(Requests) /\ w2 \in Seq(Requests)
    BY <1>1
  <2>2. QED BY <2>1, ConcatProperties
<1> HIDE DEF p, q
<1>4. CASE o2 = o
  <2>1. Len(w2) \in Nat /\ Len(w2) <= Len(w) /\ \A a \in 1..Len(w2) : w2[a] = w[a]
    BY <1>1
  <2>2. \A a \in 1..Len(p) : a + 0 \in 1..Len(q) /\ p[a] = q[a + 0]
    <3>1. SUFFICES ASSUME NEW a \in 1..Len(p) PROVE a \in 1..Len(q) /\ p[a] = q[a] /\ a + 0 = a
      OBVIOUS
    <3>2. a \in Nat /\ 1 <= a /\ a <= Len(o) + Len(w2) /\ a \in 1..Len(o2) + Len(w2)
      BY <1>1, <1>3, <1>4, <2>1
    <3>3. a \in 1..Len(o) + Len(w)
      BY <1>1, <2>1, <3>2
    <3>4. CASE a <= Len(o)
      <4>1. p[a] = o[a]
        BY <1>3, <1>4, <3>2, <3>4
      <4>2. q[a] = o[a]
        BY <1>2, <3>3, <3>4
      <4>3. QED BY <1>2, <3>2, <3>3, <4>1, <4>2
    <3>5. CASE ~(a <= Len(o))
      <4>1. a - Len(o) \in 1..Len(w2)
        BY <1>1, <2>1, <3>2, <3>5
      <4>2. p[a] = w2[a - Len(o)] /\ q[a] = w[a - Len(o)]
        BY <1>2, <1>3, <1>4, <3>2, <3>3, <3>5
      <4>3. QED BY <1>2, <2>1, <3>2, <3>3, <4>1, <4>2
    <3>6. QED BY <3>4, <3>5
  <2>3. QED BY <1>2, <1>3, <2>2, PartOf DEF p, q
<1>5. CASE o2 = <<>>
  <2>1. Len(w2) \in Nat /\ Len(w2) <= Len(w) /\ \A a \in 1..Len(w2) : w2[a] = w[a]
    BY <1>1
  <2>2. \A a \in 1..Len(p) : a + Len(o) \in 1..Len(q) /\ p[a] = q[a + Len(o)]
    <3>1. SUFFICES ASSUME NEW a \in 1..Len(p) PROVE a + Len(o) \in 1..Len(q) /\ p[a] = q[a + Len(o)]
      OBVIOUS
    <3>2. Len(o2) = 0 /\ Len(p) = Len(w2)
      BY <1>1, <1>3, <1>5, <2>1
    <3>3. a \in Nat /\ 1 <= a /\ a <= Len(w2) /\ a \in 1..Len(o2) + Len(w2) /\ a - Len(o2) = a /\ ~(a <= Len(o2))
      BY <2>1, <3>2
    <3>4. p[a] = w2[a]
      BY <1>3, <3>3
    <3>5. a + Len(o) \in 1..Len(o) + Len(w) /\ ~(a + Len(o) <= Len(o)) /\ a + Len(o) - Len(o) = a
      BY <1>1, <2>1, <3>3
    <3>6. q[a + Len(o)] = w[a]
      BY <1>2, <3>5
    <3>7. QED BY <1>2, <2>1, <3>3, <3>4, <3>5, <3>6
  <2>3. QED BY <1>1, <1>2, <1>3, <2>2, PartOf DEF p, q
<1>6. QED BY <1>4, <1>5

LEMMA AppendLast ==
  ASSUME NEW o \in Seq(Requests), NEW w \in Seq(Requests), NEW line \in Requests
  PROVE  o \o Append(w, line) = Append(o \o w, line)
<1>1. <<line>> \in Seq(Requests) /\ o \o w \in Seq(Requests)
  BY OneLine, ConcatProperties
<1>2. Append(w, line) = w \o <<line>> /\ Append(o \o w, line) = (o \o w) \o <<line>>
  BY <1>1, AppendIsConcat
<1>3. (o \o w) \o <<line>> = o \o (w \o <<line>>)
  BY <1>1, ConcatAssociative
<1>4. QED BY <1>2, <1>3

\* What a node has to send: on the connection, then in the output buffer.
Sending(i) == pipe[i].out \o K.node[i].wbuf

SinksBehind == \A h \in Hosts : \A s \in DOMAIN remote[h].sinks \cap Sources : remote[h].sinks[s] <= value[s]

OrderInv == /\ NodesInv
            /\ \A i \in Ids : /\ K.node[i].fd = "none" => pipe[i] = EmptyPipe
                              /\ Ordered(Sending(i)) /\ NoneAhead(Sending(i), value)
                              /\ Live(K, i) => NoneBehind(Sending(i), remote[K.node[i].name].sinks)
            /\ SinksBehind

LEMMA SendingOK ==
  ASSUME NodesInv, NEW i \in Ids
  PROVE  /\ pipe[i].out \in Seq(Requests) /\ K.node[i].wbuf \in Seq(Requests) /\ Sending(i) \in Seq(Requests)
         /\ K.node[i].name \in Hosts \cup {NoHost}
<1>1. K.node[i] \in Nodes /\ pipe[i] \in [out : Seq(Requests), in : Seq(Lines)]
  BY TableFields DEF NodesInv, PipesOK
<1>2. pipe[i].out \in Seq(Requests) /\ K.node[i].wbuf \in Seq(Requests)
  BY <1>1 DEF Nodes
<1>3. QED BY <1>1, <1>2, ConcatProperties DEF Sending, Nodes

LEMMA SendableIs ==
  \A line \in Sendable : line.kind = "set" => line.name \in Sources /\ line.version = value[line.name]
<1>1. AskSinks.kind = "sinks"
  BY DEF AskSinks, Line
<1>2. \A s \in Sources : SetSink(s).name = s /\ SetSink(s).version = value[s]
  BY DEF SetSink, Line
<1>3. QED BY <1>1, <1>2 DEF Sendable

\* No line overtakes another, whatever a step of the engine or a loss drops or adds.
LEMMA QueueStep ==
  ASSUME OrderInv, NEW i \in Ids, Kept(K'.node[i], K.node[i]), pipe'[i].out \in {pipe[i].out, <<>>},
         K'.node[i].name \in Hosts \cup {NoHost}
  PROVE  LET q == pipe'[i].out \o K'.node[i].wbuf IN
           /\ Ordered(q) /\ NoneAhead(q, value)
           /\ K'.node[i].name # NoHost => NoneBehind(q, remote[K'.node[i].name].sinks)
<1> DEFINE o == pipe[i].out
           w == K.node[i].wbuf
           o2 == pipe'[i].out
           q == o2 \o K'.node[i].wbuf
<1>1. o \in Seq(Requests) /\ w \in Seq(Requests) /\ NodesInv /\ ValuesOK
  BY SendingOK DEF OrderInv, NodesInv
<1>2. PICK w2 \in {w, <<>>} : q = o2 \o w2 \/ \E line \in Sendable : q = Append(o2 \o w2, line)
  <2>1. CASE K'.node[i].wbuf \in {w, <<>>}
    BY <2>1
  <2>2. ASSUME NEW line \in Sendable, K'.node[i].wbuf = Append(w, line)
        PROVE  q = Append(o2 \o w, line)
    <3>1. line \in Requests
      BY <1>1, SendableOK
    <3>2. o2 \in Seq(Requests)
      BY <1>1, EmptySeq
    <3>3. o2 \o Append(w, line) = Append(o2 \o w, line)
      <4> HIDE DEF o, w, o2
      <4>1. QED BY <1>1, <3>1, <3>2, AppendLast
    <3>4. QED BY <2>2, <3>3
  <2>3. QED BY <2>1, <2>2 DEF Kept
<1>3. Ordered(o \o w) /\ NoneAhead(o \o w, value)
  BY DEF OrderInv, Sending
<1>4. Live(K, i) => NoneBehind(o \o w, remote[K.node[i].name].sinks)
  BY DEF OrderInv, Sending
<1> DEFINE p == o2 \o w2
<1>5. /\ p \in Seq(Requests) /\ Ordered(p) /\ NoneAhead(p, value)
      /\ Live(K, i) => NoneBehind(p, remote[K.node[i].name].sinks)
  <2>1. o2 \in {o, <<>>}
    OBVIOUS
  <2> HIDE DEF o, w, o2
  <2>2. /\ p \in Seq(Requests) /\ (Ordered(o \o w) => Ordered(p))
        /\ NoneAhead(o \o w, value) => NoneAhead(p, value)
        /\ \A sinks : NoneBehind(o \o w, sinks) => NoneBehind(p, sinks)
    BY <1>1, <2>1, Dropped
  <2>3. QED BY <1>3, <1>4, <2>2
<1>6. K.node[i].name = NoHost => p = <<>>
  <2>1. SUFFICES ASSUME K.node[i].name = NoHost PROVE p = <<>>
    OBVIOUS
  <2>2. K.node[i] = FreeNode
    BY <2>1, <1>1 DEF NodesInv, TableOK, NodeOK
  <2>3. w = <<>> /\ K.node[i].fd = "none"
    BY <2>2 DEF FreeNode
  <2>4. o = <<>>
    BY <2>3 DEF OrderInv, EmptyPipe
  <2>5. o2 = <<>> /\ w2 = <<>>
    BY <2>3, <2>4
  <2>6. QED BY <2>5, EmptySeq, ConcatEmptySeq
<1>7. K'.node[i].name # NoHost => NoneBehind(p, remote[K'.node[i].name].sinks)
  <2>1. CASE K.node[i].name = NoHost
    <3>1. Sets(p) = {}
      BY <1>6, <2>1 DEF Sets
    <3>2. QED BY <3>1 DEF NoneBehind
  <2>2. CASE K.node[i].name # NoHost
    BY <1>5, <2>2 DEF Kept, Live
  <2>3. QED BY <2>1, <2>2
<1> HIDE DEF p
<1>8. CASE q = p
  BY <1>5, <1>7, <1>8
<1>9. ASSUME NEW line \in Sendable, q = Append(p, line)
      PROVE  /\ Ordered(q) /\ NoneAhead(q, value)
             /\ K'.node[i].name # NoHost => NoneBehind(q, remote[K'.node[i].name].sinks)
  <2>1. line \in Requests /\ (line.kind = "set" => line.name \in Sources /\ line.version = value[line.name])
    BY <1>1, SendableOK, SendableIs
  <2>2. Ordered(q) /\ NoneAhead(q, value)
    BY <1>5, <1>9, <2>1, OneMore
  <2>3. ASSUME K'.node[i].name # NoHost PROVE NoneBehind(q, remote[K'.node[i].name].sinks)
    <3>1. K'.node[i].name \in Hosts
      BY <2>3
    <3>2. \A s \in DOMAIN remote[K'.node[i].name].sinks \cap Sources : remote[K'.node[i].name].sinks[s] <= value[s]
      BY <3>1 DEF OrderInv, SinksBehind
    <3>3. QED BY <1>5, <1>7, <1>9, <2>1, <2>3, <3>2, OneMore
  <2>4. QED BY <2>2, <2>3
<1>10. QED BY <1>2, <1>8, <1>9 DEF p

\* A step that writes at most a line per node, of a present value, keeps the order.
LEMMA QueuesStep ==
  ASSUME OrderInv, NodesInv', value' = value, \A h \in Hosts : remote'[h].sinks = remote[h].sinks,
         \A i \in Ids : Kept(K'.node[i], K.node[i]) /\ Piped(i)
  PROVE  OrderInv'
<1>1. ASSUME NEW i \in Ids
      PROVE  /\ K'.node[i].fd = "none" => pipe'[i] = EmptyPipe
             /\ Ordered(Sending(i)') /\ NoneAhead(Sending(i)', value)
             /\ K'.node[i].name # NoHost => NoneBehind(Sending(i)', remote'[K'.node[i].name].sinks)
  <2>1. K'.node[i].name \in Hosts \cup {NoHost}
    <3>1. K'.node[i] \in Nodes
      BY TableFields DEF NodesInv, TableOK, Tables
    <3>2. QED BY <3>1 DEF Nodes
  <2>2. pipe'[i].out \in {pipe[i].out, <<>>}
    BY DEF Piped
  <2>3. K'.node[i].fd = "none" => pipe'[i] = EmptyPipe
    BY DEF Piped, OrderInv
  <2>4. Kept(K'.node[i], K.node[i])
    OBVIOUS
  <2> DEFINE q == pipe'[i].out \o K'.node[i].wbuf
  <2>5. /\ Ordered(q) /\ NoneAhead(q, value)
        /\ K'.node[i].name # NoHost => NoneBehind(q, remote[K'.node[i].name].sinks)
    BY <2>1, <2>2, <2>4, QueueStep
  <2>6. K'.node[i].name # NoHost => remote'[K'.node[i].name].sinks = remote[K'.node[i].name].sinks
    BY <2>1
  <2>7. QED BY <2>3, <2>5, <2>6 DEF Sending
<1>2. SinksBehind'
  BY DEF OrderInv, SinksBehind
<1>3. QED BY <1>1, <1>2 DEF OrderInv, Live

LEMMA OrderInit == Init => OrderInv
<1>1. SUFFICES ASSUME Init PROVE OrderInv
  OBVIOUS
<1>2. NodesInv
  BY <1>1, NodesInit
<1>3. ASSUME NEW i \in Ids
      PROVE  /\ K.node[i].fd = "none" => pipe[i] = EmptyPipe
             /\ Ordered(Sending(i)) /\ NoneAhead(Sending(i), value)
             /\ Live(K, i) => NoneBehind(Sending(i), remote[K.node[i].name].sinks)
  <2>1. pipe[i] = EmptyPipe /\ K.node[i] = FreeNode
    BY <1>1 DEF Init
  <2>2. pipe[i].out = <<>> /\ K.node[i].wbuf = <<>>
    BY <2>1 DEF EmptyPipe, FreeNode
  <2>3. Sending(i) = <<>>
    BY <2>2, EmptySeq, ConcatEmptySeq DEF Sending
  <2>4. Sets(Sending(i)) = {}
    BY <2>3 DEF Sets
  <2>5. QED BY <2>1, <2>4 DEF Ordered, NoneAhead, NoneBehind
<1>4. SinksBehind
  <2>1. SUFFICES ASSUME NEW h \in Hosts, NEW s \in DOMAIN remote[h].sinks \cap Sources
                 PROVE  remote[h].sinks[s] <= value[s]
    BY DEF SinksBehind
  <2>2. \E c : remote[h] = Started(c)
    BY <1>1 DEF Init
  <2>3. remote[h].sinks[s] = 0
    BY <2>2 DEF Started
  <2>4. value[s] \in Nat
    BY <1>2 DEF NodesInv, ValuesOK
  <2>5. QED BY <2>3, <2>4
<1>5. QED BY <1>2, <1>3, <1>4 DEF OrderInv

\* The first line is gone, the others follow in order.
LEMMA Popped ==
  ASSUME NEW o \in Seq(Requests), o # <<>>, NEW w \in Seq(Requests)
  PROVE  LET p == Tail(o) \o w
             q == o \o w
         IN /\ p \in Seq(Requests) /\ q \in Seq(Requests)
            /\ Head(o) \in Requests /\ 1 \in 1..Len(q) /\ q[1] = Head(o) /\ Len(q) = Len(p) + 1
            /\ \A a \in 1..Len(p) : a + 1 \in 1..Len(q) /\ p[a] = q[a + 1]
<1> DEFINE p == Tail(o) \o w
           q == o \o w
           line == Head(o)
<1>1. /\ Len(o) \in Nat \ {0} /\ Len(w) \in Nat /\ line \in Requests /\ line = o[1]
      /\ Tail(o) \in Seq(Requests) /\ Len(Tail(o)) = Len(o) - 1
      /\ \A a \in 1..Len(o) - 1 : Tail(o)[a] = o[a + 1]
  BY LenProperties, EmptySeq, HeadTailProperties
<1>2. /\ q \in Seq(Requests) /\ Len(q) = Len(o) + Len(w)
      /\ \A a \in 1..Len(o) + Len(w) : q[a] = IF a <= Len(o) THEN o[a] ELSE w[a - Len(o)]
  BY ConcatProperties
<1>3. /\ p \in Seq(Requests) /\ Len(p) = Len(Tail(o)) + Len(w)
      /\ \A a \in 1..Len(Tail(o)) + Len(w) :
           p[a] = IF a <= Len(Tail(o)) THEN Tail(o)[a] ELSE w[a - Len(Tail(o))]
  BY <1>1, ConcatProperties
<1>4. 1 \in 1..Len(q) /\ q[1] = line
  BY <1>1, <1>2
<1> HIDE DEF p, q
<1>5. \A a \in 1..Len(p) : a + 1 \in 1..Len(q) /\ p[a] = q[a + 1]
  <2>1. SUFFICES ASSUME NEW a \in 1..Len(p) PROVE a + 1 \in 1..Len(q) /\ p[a] = q[a + 1]
    OBVIOUS
  <2>2. a \in Nat /\ 1 <= a /\ a <= Len(o) - 1 + Len(w) /\ a \in 1..Len(Tail(o)) + Len(w)
    BY <1>1, <1>3
  <2>3. a + 1 \in 1..Len(o) + Len(w)
    BY <1>1, <2>2
  <2>4. CASE a <= Len(o) - 1
    <3>1. p[a] = Tail(o)[a] /\ Tail(o)[a] = o[a + 1]
      BY <1>1, <1>3, <2>2, <2>4
    <3>2. q[a + 1] = o[a + 1]
      BY <1>1, <1>2, <2>2, <2>3, <2>4
    <3>3. QED BY <1>2, <2>3, <3>1, <3>2
  <2>5. CASE ~(a <= Len(o) - 1)
    <3>1. ~(a <= Len(Tail(o))) /\ a - Len(Tail(o)) = a - (Len(o) - 1)
      BY <1>1, <2>5
    <3>2. p[a] = w[a - (Len(o) - 1)]
      BY <1>3, <2>2, <3>1
    <3>3. ~(a + 1 <= Len(o)) /\ a + 1 - Len(o) = a - (Len(o) - 1)
      BY <1>1, <2>2, <2>5
    <3>4. q[a + 1] = w[a - (Len(o) - 1)]
      BY <1>2, <2>3, <3>3
    <3>5. QED BY <1>2, <2>3, <3>2, <3>4
  <2>6. QED BY <2>4, <2>5
<1>6. Len(q) = Len(p) + 1
  BY <1>1, <1>2, <1>3
<1>7. QED BY <1>1, <1>2, <1>3, <1>4, <1>5, <1>6 DEF p, q

\* What is left to send once the remote engine took a line, and its sinks then.
LEMMA Consumed ==
  ASSUME NEW o \in Seq(Requests), o # <<>>, NEW w \in Seq(Requests), NEW c, NEW sinks \in [c -> Nat], NEW vals,
         Ordered(o \o w), NoneAhead(o \o w, vals), NoneBehind(o \o w, sinks),
         \A s \in DOMAIN sinks \cap Sources : sinks[s] <= vals[s]
  PROVE  LET p == Tail(o) \o w
             r == RemoteSet(sinks, Head(o))
         IN /\ Ordered(p) /\ NoneAhead(p, vals) /\ NoneBehind(p, r) /\ DOMAIN r = c
            /\ \A s \in DOMAIN r \cap Sources : r[s] <= vals[s]
            /\ \A s \in c : sinks[s] <= r[s]
<1> DEFINE p == Tail(o) \o w
           q == o \o w
           line == Head(o)
           r == RemoteSet(sinks, line)
<1>1. /\ p \in Seq(Requests) /\ q \in Seq(Requests)
      /\ line \in Requests /\ 1 \in 1..Len(q) /\ q[1] = line
      /\ \A a \in 1..Len(p) : a + 1 \in 1..Len(q) /\ p[a] = q[a + 1]
  BY Popped
<1> HIDE DEF p, q
<1>6. Ordered(q) /\ NoneAhead(q, vals) /\ NoneBehind(q, sinks)
  BY DEF q
<1>7. Ordered(p) /\ NoneAhead(p, vals) /\ NoneBehind(p, sinks)
  BY <1>1, <1>6, PartOf
<1>8. line.kind = "set" => 1 \in Sets(q)
  BY <1>1 DEF Sets
<1> HIDE DEF line
<1>9. DOMAIN sinks = c /\ \A s \in c : sinks[s] \in Nat
  OBVIOUS
<1>10. CASE line.kind = "set" /\ line.name \in c
  <2>1. r = [sinks EXCEPT ![line.name] = line.version]
    BY <1>9, <1>10 DEF RemoteSet
  <2>2. DOMAIN r = c /\ r[line.name] = line.version /\ \A s \in c \ {line.name} : r[s] = sinks[s]
    BY <1>9, <1>10, <2>1
  <2> HIDE DEF r
  <2>3. line.name \in Sources /\ line.version <= vals[line.name] /\ sinks[line.name] <= line.version
    BY <1>1, <1>6, <1>8, <1>9, <1>10 DEF NoneAhead, NoneBehind
  <2>4. \A s \in DOMAIN r \cap Sources : r[s] <= vals[s]
    BY <1>9, <2>2, <2>3
  <2>5. \A s \in c : sinks[s] <= r[s]
    BY <1>9, <2>2, <2>3
  <2>6. NoneBehind(p, r)
    <3>1. SUFFICES ASSUME NEW a \in Sets(p), p[a].name \in c PROVE r[p[a].name] <= p[a].version
      BY <2>2 DEF NoneBehind
    <3>2. a \in Nat /\ 1 < a + 1 /\ a + 1 \in Sets(q) /\ p[a] = q[a + 1]
      <4>1. a \in 1..Len(p) /\ p[a].kind = "set"
        BY DEF Sets
      <4>2. a + 1 \in 1..Len(q) /\ p[a] = q[a + 1]
        BY <1>1, <4>1
      <4>3. QED BY <4>1, <4>2 DEF Sets
    <3>3. CASE p[a].name = line.name
      BY <1>1, <1>6, <1>8, <1>10, <2>2, <3>2, <3>3 DEF Ordered
    <3>4. CASE p[a].name # line.name
      BY <1>7, <1>9, <2>2, <3>1, <3>4 DEF NoneBehind
    <3>5. QED BY <3>3, <3>4
  <2>7. QED BY <1>7, <2>2, <2>4, <2>5, <2>6 DEF p, line, r
<1>11. CASE ~(line.kind = "set" /\ line.name \in c)
  <2>1. r = sinks
    BY <1>9, <1>11 DEF RemoteSet
  <2>2. \A s \in c : sinks[s] <= sinks[s]
    BY <1>9
  <2> HIDE DEF r
  <2>3. QED BY <1>7, <1>9, <2>1, <2>2 DEF p, line, r
<1>12. QED BY <1>10, <1>11

NeverBack == \A h \in Hosts : \A s \in DOMAIN remote[h].sinks : remote[h].sinks[s] <= remote'[h].sinks[s]

LEMMA SinksAreVersions ==
  ASSUME EnginesOK, NEW h \in Hosts
  PROVE  remote[h].sinks \in [DOMAIN remote[h].sinks -> Nat]
<1>1. remote[h] \in Engines
  BY DEF EnginesOK
<1>2. PICK c : remote[h].sinks \in [c -> 0..MaxVersion]
  BY <1>1 DEF Engines
<1>3. 0..MaxVersion \subseteq Nat
  OBVIOUS
<1>4. QED BY <1>2, <1>3

\* hkcp_command_set
LEMMA RemoteReceiveStep ==
  ASSUME OrderInv, NodesInv', NEW i \in Ids, RemoteReceive(i)
  PROVE  OrderInv' /\ NeverBack
<1> DEFINE h == K.node[i].name
           o == pipe[i].out
           w == K.node[i].wbuf
           line == Head(o)
           sinks == remote[h].sinks
           r == RemoteSet(sinks, line)
<1>1. /\ NodesInv /\ EnginesOK /\ OneEntry(K) /\ K.node[i].fd = "up" /\ o # <<>>
      /\ o \in Seq(Requests) /\ w \in Seq(Requests)
  BY SendingOK DEF OrderInv, NodesInv, TableOK, RemoteReceive
<1>2. h \in Hosts /\ Live(K, i)
  <2>1. K.node[i] \in Nodes /\ NodeOK(K.node[i])
    BY <1>1, TableFields DEF NodesInv, TableOK
  <2>2. QED BY <1>1, <2>1 DEF NodeOK, Nodes, FreeNode, Live
<1>3. line \in Requests
  BY <1>1, HeadTailProperties
<1>4. sinks \in [DOMAIN sinks -> Nat]
  BY <1>1, <1>2, SinksAreVersions
<1>5. /\ Ordered(o \o w) /\ NoneAhead(o \o w, value) /\ NoneBehind(o \o w, sinks)
      /\ \A s \in DOMAIN sinks \cap Sources : sinks[s] <= value[s]
  BY <1>2 DEF OrderInv, Sending, SinksBehind
<1>6. /\ Ordered(Tail(o) \o w) /\ NoneAhead(Tail(o) \o w, value) /\ NoneBehind(Tail(o) \o w, r)
      /\ DOMAIN r = DOMAIN sinks /\ \A s \in DOMAIN r \cap Sources : r[s] <= value[s]
      /\ \A s \in DOMAIN sinks : sinks[s] <= r[s]
  <2> HIDE DEF o, w, sinks
  <2>1. QED BY <1>1, <1>4, <1>5, Consumed DEF line, r
<1>7. remote' = [remote EXCEPT ![h] = [up |-> remote[h].up, sinks |-> r]]
  <2>1. remote' = [remote EXCEPT ![h].sinks = RemoteSet(@, line)]
    BY DEF RemoteReceive
  <2> HIDE DEF line
  <2>2. QED BY <1>1, <1>2, <1>3, <2>1, RemoteSetOK
<1>8. remote'[h].sinks = r /\ \A g \in Hosts \ {h} : remote'[g] = remote[g]
  BY <1>1, <1>2, <1>7 DEF EnginesOK
<1>9. UNCHANGED <<K, value>> /\ pipe'[i].out = Tail(o) /\ \A j \in Ids \ {i} : pipe'[j] = pipe[j]
  BY <1>1 DEF RemoteReceive, NodesInv, PipesOK
<1> HIDE DEF r
<1>10. ASSUME NEW j \in Ids
       PROVE  /\ K.node[j].fd = "none" => pipe'[j] = EmptyPipe
              /\ Ordered(Sending(j)') /\ NoneAhead(Sending(j)', value)
              /\ Live(K, j) => NoneBehind(Sending(j)', remote'[K.node[j].name].sinks)
  <2>1. CASE j = i
    <3>1. Sending(j)' = Tail(o) \o w
      BY <1>9, <2>1 DEF Sending
    <3>2. QED BY <1>1, <1>6, <1>8, <2>1, <3>1
  <2>2. CASE j # i
    <3>1. Sending(j)' = Sending(j) /\ pipe'[j] = pipe[j]
      BY <1>9, <2>2 DEF Sending
    <3>2. Live(K, j) => K.node[j].name \in Hosts \ {h}
      BY <1>1, <1>2, <2>2, SendingOK DEF OneEntry, Live
    <3>3. QED BY <1>8, <3>1, <3>2 DEF OrderInv
  <2>3. QED BY <2>1, <2>2
<1>11. SinksBehind'
  <2>1. SUFFICES ASSUME NEW g \in Hosts, NEW s \in DOMAIN remote'[g].sinks \cap Sources
                 PROVE  remote'[g].sinks[s] <= value[s]
    BY <1>9 DEF SinksBehind
  <2>2. CASE g = h
    BY <1>6, <1>8, <2>2
  <2>3. CASE g # h
    BY <1>8, <2>3 DEF OrderInv, SinksBehind
  <2>4. QED BY <2>2, <2>3
<1>12. NeverBack
  <2>1. SUFFICES ASSUME NEW g \in Hosts, NEW s \in DOMAIN remote[g].sinks
                 PROVE  remote[g].sinks[s] <= remote'[g].sinks[s]
    BY DEF NeverBack
  <2>2. CASE g = h
    BY <1>6, <1>8, <2>2
  <2>3. CASE g # h
    <3>1. remote[g].sinks[s] \in Nat
      BY <1>1, SinksAreVersions
    <3>2. QED BY <1>8, <2>3, <3>1
  <2>4. QED BY <2>2, <2>3
<1>13. OrderInv'
  BY <1>9, <1>10, <1>11 DEF OrderInv, Live
<1>14. QED BY <1>12, <1>13

\* hkcp_source_send_nodes
LEMMA UpdateStep ==
  ASSUME OrderInv, NodesInv', NEW s \in Sources, Update(s)
  PROVE  OrderInv'
<1> DEFINE line == Line("set", s, value[s] + 1)
<1>1. /\ NodesInv /\ ValuesOK /\ remote' = remote /\ pipe' = pipe
      /\ value' = [value EXCEPT ![s] = value[s] + 1] /\ value[s] < MaxVersion
  BY DEF OrderInv, NodesInv, Update
<1>2. \A t \in Sources : value[t] \in Nat /\ value'[t] \in Nat /\ value[t] <= value'[t]
  BY <1>1 DEF ValuesOK
<1>3. /\ line \in Requests /\ line.kind = "set" /\ line.name = s /\ line.version = value'[s]
  <2>1. value[s] + 1 \in 0..MaxVersion /\ value'[s] = value[s] + 1
    BY <1>1, HkcpAssumption DEF ValuesOK, HkcpAssumption
  <2>2. s \in Names
    BY DEF Names
  <2>3. QED BY <2>1, <2>2 DEF Requests, Line
<1>4. SinksBehind'
  <2>1. SUFFICES ASSUME NEW g \in Hosts, NEW t \in DOMAIN remote[g].sinks \cap Sources
                 PROVE  remote[g].sinks[t] <= value'[t]
    BY <1>1 DEF SinksBehind
  <2>2. remote[g].sinks[t] \in Nat /\ remote[g].sinks[t] <= value[t]
    BY <1>1, SinksAreVersions DEF OrderInv, NodesInv, SinksBehind
  <2>3. QED BY <1>2, <2>2
<1>5. ASSUME NEW i \in Ids
      PROVE  /\ K'.node[i].fd = "none" => pipe'[i] = EmptyPipe
             /\ Ordered(Sending(i)') /\ NoneAhead(Sending(i)', value')
             /\ K'.node[i].name # NoHost => NoneBehind(Sending(i)', remote'[K'.node[i].name].sinks)
  <2> DEFINE o == pipe[i].out
             w == K.node[i].wbuf
             q == o \o w
  <2>1. /\ K'.node[i].name = K.node[i].name /\ K'.node[i].fd = K.node[i].fd
        /\ K'.node[i].wbuf \in {w, Append(w, line)}
    BY <1>1, UpdateOK
  <2>2. /\ o \in Seq(Requests) /\ w \in Seq(Requests) /\ q \in Seq(Requests)
        /\ K.node[i].name \in Hosts \cup {NoHost}
    BY <1>1, SendingOK DEF Sending
  <2>3. /\ Ordered(q) /\ NoneAhead(q, value)
        /\ Live(K, i) => NoneBehind(q, remote[K.node[i].name].sinks)
    BY DEF OrderInv, Sending
  <2> HIDE DEF line
  <2>4. Sending(i)' \in {q, Append(q, line)}
    <3>1. Sending(i)' = o \o K'.node[i].wbuf
      BY <1>1 DEF Sending
    <3>2. o \o Append(w, line) = Append(q, line)
      BY <1>3, <2>2, AppendLast
    <3>3. QED BY <2>1, <3>1, <3>2
  <2> HIDE DEF q
  <2>5. NoneAhead(q, value')
    <3>1. SUFFICES ASSUME NEW a \in Sets(q) PROVE q[a].name \in Sources /\ q[a].version <= value'[q[a].name]
      BY DEF NoneAhead
    <3>2. q[a] \in Requests
      BY <2>2 DEF Sets
    <3>3. q[a].version \in Nat
      BY <3>2 DEF Requests
    <3>4. q[a].name \in Sources /\ q[a].version <= value[q[a].name]
      BY <2>3 DEF NoneAhead
    <3>5. QED BY <1>2, <3>3, <3>4
  <2>6. Ordered(Append(q, line)) /\ NoneAhead(Append(q, line), value')
    BY <1>3, <2>2, <2>3, <2>5, OneMore
  <2>7. ASSUME K.node[i].name # NoHost
        PROVE  /\ NoneBehind(q, remote[K.node[i].name].sinks)
               /\ NoneBehind(Append(q, line), remote[K.node[i].name].sinks)
    <3> DEFINE sinks == remote[K.node[i].name].sinks
    <3>1. NoneBehind(q, sinks)
      BY <2>3, <2>7 DEF Live
    <3>2. \A t \in DOMAIN sinks \cap Sources : sinks[t] <= value'[t]
      BY <1>1, <1>4, <2>2, <2>7 DEF SinksBehind
    <3> HIDE DEF sinks
    <3>3. NoneBehind(Append(q, line), sinks)
      BY <1>3, <2>2, <2>3, <2>5, <3>1, <3>2, OneMore
    <3>4. QED BY <3>1, <3>3 DEF sinks
  <2>8. K'.node[i].fd = "none" => pipe'[i] = EmptyPipe
    BY <1>1, <2>1 DEF OrderInv
  <2>9. QED BY <1>1, <2>1, <2>3, <2>4, <2>5, <2>6, <2>7, <2>8
<1>6. QED BY <1>4, <1>5 DEF OrderInv, Live

\* tcp_sock_write_event: what is still to send stays in order behind what went out.
LEMMA FlushStep ==
  ASSUME OrderInv, NodesInv', NEW i \in Ids, Flush(i)
  PROVE  OrderInv'
<1> DEFINE w == K.node[i].wbuf
<1>1. PICK n \in 1..Len(w) :
        /\ pipe' = [pipe EXCEPT ![i].out = @ \o SubSeq(w, 1, n)]
        /\ K' = [K EXCEPT !.node[i].wbuf = Shifted(@, n)]
  BY DEF Flush
<1>2. NodesInv /\ K.node[i].fd = "up" /\ UNCHANGED <<remote, value>>
  BY DEF OrderInv, Flush
<1>3. \A j \in Ids : /\ K'.node[j].name = K.node[j].name /\ K'.node[j].fd = K.node[j].fd
                     /\ K'.node[j].wbuf = IF j = i THEN Shifted(w, n) ELSE K.node[j].wbuf
  BY <1>1, <1>2, FlushOK
<1>4. w \in Seq(Requests) /\ pipe[i].out \in Seq(Requests)
  BY <1>2, SendingOK
<1>5. /\ pipe'[i].out = pipe[i].out \o SubSeq(w, 1, n)
      /\ \A j \in Ids \ {i} : pipe'[j] = pipe[j]
  BY <1>1, <1>2 DEF NodesInv, PipesOK
<1>6. SubSeq(w, 1, n) \o SubSeq(w, n + 1, Len(w)) = w
  BY <1>4
<1>7. Sending(i)' = Sending(i)
  <2> DEFINE u == SubSeq(w, 1, n)
             v == SubSeq(w, n + 1, Len(w))
             o == pipe[i].out
  <2>1. u \in Seq(Requests) /\ v \in Seq(Requests)
    BY <1>4, LenProperties, SubSeqProperties
  <2>2. Sending(i)' = (o \o u) \o v
    BY <1>3, <1>5 DEF Sending, Shifted
  <2>3. (o \o u) \o v = o \o (u \o v)
    <3> HIDE DEF u, v, o
    <3>1. o \in Seq(Requests)
      BY <1>4 DEF o
    <3>2. QED BY <2>1, <3>1, ConcatAssociative
  <2>4. QED BY <1>6, <2>2, <2>3 DEF Sending
<1>8. \A j \in Ids : /\ Sending(j)' = Sending(j)
                     /\ K'.node[j].fd = "none" => pipe'[j] = pipe[j]
  BY <1>2, <1>3, <1>5, <1>7 DEF Sending
<1>9. QED BY <1>2, <1>3, <1>8 DEF OrderInv, Live, SinksBehind

LEMMA BrokenKeeps ==
  ASSUME OrderInv, NEW h \in Hosts, Broken(h)
  PROVE  \A i \in Ids : Kept(K'.node[i], K.node[i]) /\ Piped(i)
<1>1. SUFFICES ASSUME NEW i \in Ids PROVE Kept(K'.node[i], K.node[i]) /\ Piped(i)
  OBVIOUS
<1>2. /\ K'.node[i].name = K.node[i].name /\ K'.node[i].wbuf = K.node[i].wbuf
      /\ K'.node[i].fd = "none" <=> K.node[i].fd = "none"
  BY BrokenOK DEF OrderInv
<1>3. pipe'[i] = pipe[i] \/ pipe'[i] = [pipe[i] EXCEPT !.out = <<>>]
  BY DEF Broken
<1>4. pipe[i] \in [out : Seq(Requests), in : Seq(Lines)]
  BY DEF OrderInv, NodesInv, PipesOK
<1>5. pipe'[i].out \in {pipe[i].out, <<>>}
  BY <1>3, <1>4
<1>6. K.node[i].fd = "none" => pipe'[i] = EmptyPipe
  BY <1>3 DEF OrderInv, EmptyPipe
<1>7. QED BY <1>2, <1>5, <1>6 DEF Kept, Piped

LEMMA OrderStep == OrderInv /\ [Next]_vars => OrderInv'
<1>1. SUFFICES ASSUME OrderInv, [Next]_vars PROVE OrderInv'
  OBVIOUS
<1>2. NodesInv /\ NodesInv'
  BY <1>1, NodesStep DEF OrderInv
<1>3. ASSUME \/ \E h \in Hosts : Advertised(h)
             \/ \E i \in Ids : Timer(i) \/ Receive(i) \/ HangUp(i)
      PROVE  OrderInv'
  <2>1. UNCHANGED <<remote, value>>
    BY <1>3 DEF Advertised, Timer, ConnectFirst, ConnectRetry, Receive, HangUp
  <2>2. \A i \in Ids : Kept(K'.node[i], K.node[i]) /\ Piped(i)
    BY <1>2, <1>3, TableStep
  <2>3. QED BY <1>1, <1>2, <2>1, <2>2, QueuesStep
<1>4. ASSUME NEW h \in Hosts, LoseConnection(h) PROVE OrderInv'
  BY <1>1, <1>2, <1>4, BrokenKeeps, QueuesStep DEF LoseConnection
<1>5. ASSUME NEW h \in Hosts, RemoteStop(h) PROVE OrderInv'
  <2>1. \A g \in Hosts : remote'[g].sinks = remote[g].sinks
    <3>1. remote \in [Hosts -> Engines] /\ remote[h] \in Engines
      BY <1>2 DEF NodesInv, EnginesOK
    <3>2. [remote[h] EXCEPT !.up = FALSE].sinks = remote[h].sinks
      BY <3>1 DEF Engines
    <3>3. remote' = [remote EXCEPT ![h] = [remote[h] EXCEPT !.up = FALSE]]
      BY <1>5, <3>1 DEF RemoteStop
    <3>4. QED BY <3>1, <3>2, <3>3
  <2>2. QED BY <1>1, <1>2, <1>5, <2>1, BrokenKeeps, QueuesStep DEF RemoteStop
<1>6. ASSUME NEW h \in Hosts, RemoteStart(h) PROVE OrderInv'
  <2>1. PICK c \in Configs[h] : remote' = [remote EXCEPT ![h] = Started(c)]
    BY <1>6 DEF RemoteStart
  <2>2. UNCHANGED <<K, pipe, value>>
    BY <1>6 DEF RemoteStart
  <2>3. /\ remote'[h].sinks = [s \in c |-> 0]
        /\ \A g \in Hosts \ {h} : remote'[g].sinks = remote[g].sinks
    BY <1>2, <2>1 DEF NodesInv, EnginesOK, Started
  <2>4. SinksBehind'
    BY <1>1, <1>2, <2>2, <2>3 DEF OrderInv, SinksBehind, NodesInv, ValuesOK
  <2>5. ASSUME NEW i \in Ids, Live(K, i)
        PROVE  NoneBehind(Sending(i), remote'[K.node[i].name].sinks)
    <3>1. K.node[i].name \in Hosts /\ Sending(i) \in Seq(Requests)
      BY <1>2, <2>5, SendingOK DEF Live
    <3>2. CASE K.node[i].name = h
      <4>1. SUFFICES ASSUME NEW a \in Sets(Sending(i)) PROVE 0 <= Sending(i)[a].version
        BY <2>3, <3>2 DEF NoneBehind
      <4>2. Sending(i)[a] \in Requests
        BY <3>1 DEF Sets
      <4>3. QED BY <4>2 DEF Requests
    <3>3. CASE K.node[i].name # h
      BY <1>1, <2>3, <2>5, <3>1, <3>3 DEF OrderInv
    <3>4. QED BY <3>2, <3>3
  <2>6. QED BY <1>1, <1>2, <2>2, <2>4, <2>5 DEF OrderInv, Live, Sending
<1>7. CASE UNCHANGED vars
  BY <1>1, <1>2, <1>7 DEF vars, OrderInv, Live, Sending, SinksBehind
<1>8. QED BY <1>1, <1>2, <1>3, <1>4, <1>5, <1>6, <1>7, RemoteReceiveStep, UpdateStep, FlushStep
          DEF Next, Environment

\* A value never overtakes a newer one on its way to a sink of a remote engine, not through
\* lost connections, lines dropped, lists of sinks asked for again or engines restarted.
THEOREM SinksNeverGoBack == Spec => NeverOlder
<1>1. ASSUME OrderInv, [Next]_vars
      PROVE  [\A h \in Hosts : (remote[h].up /\ remote'[h].up) =>
                \A s \in DOMAIN remote[h].sinks : remote'[h].sinks[s] >= remote[h].sinks[s]]_vars
  <2>1. SUFFICES ASSUME Next, NEW h \in Hosts, remote[h].up, remote'[h].up,
                        NEW s \in DOMAIN remote[h].sinks
                 PROVE  remote'[h].sinks[s] >= remote[h].sinks[s]
    BY <1>1
  <2>2. EnginesOK /\ EnginesOK'
    BY <1>1, NodesStep DEF OrderInv, NodesInv
  <2>3. remote[h].sinks[s] \in Nat
    BY <2>2, SinksAreVersions
  <2>4. CASE \E i \in Ids : RemoteReceive(i)
    <3>1. remote[h].sinks[s] <= remote'[h].sinks[s]
      BY <1>1, <2>4, NodesStep, RemoteReceiveStep DEF OrderInv, NeverBack
    <3>2. QED BY <2>3, <3>1
  <2>5. ASSUME ~\E i \in Ids : RemoteReceive(i) PROVE remote'[h] = remote[h]
    <3>1. CASE UNCHANGED remote
      BY <3>1
    <3>2. ASSUME NEW g \in Hosts, RemoteStop(g) PROVE remote'[h] = remote[h]
      <4>1. remote' = [remote EXCEPT ![g].up = FALSE]
        BY <3>2 DEF RemoteStop
      <4>2. remote'[g].up = FALSE
        BY <2>2, <4>1 DEF EnginesOK, Engines
      <4>3. QED BY <2>1, <2>2, <4>1, <4>2 DEF EnginesOK
    <3>3. ASSUME NEW g \in Hosts, RemoteStart(g) PROVE remote'[h] = remote[h]
      BY <2>1, <2>2, <3>3 DEF RemoteStart, EnginesOK
    <3>4. QED BY <2>1, <2>5, <3>1, <3>2, <3>3
              DEF Next, Environment, Timer, ConnectFirst, ConnectRetry, Flush, Receive, HangUp, Update,
                  Advertised, LoseConnection
  <2>6. QED BY <2>3, <2>4, <2>5
<1>2. Spec => []OrderInv
  BY OrderInit, OrderStep, PTL DEF Spec
<1>3. QED BY <1>1, <1>2, PTL DEF Spec, NeverOlder

-----------------------------------------------------------------------------
(* The values that arrive                                                  *)

Asks(q) == {a \in 1..Len(q) : q[a].kind = "sinks"}
Among(q, c) == \A a \in Sets(q) : q[a].name \in c
Carries(q, s, v) == \E a \in Sets(q) : q[a].name = s /\ q[a].version = v

\* The node knows of no other sinks than those the remote engine has.
Known(n, q, p, c) ==
  /\ n.sources \subseteq c /\ Among(q, c)
  /\ \A a \in 1..Len(p) : p[a].kind \in {"sink", "end"} /\ (p[a].kind = "sink" => p[a].name \in c)

\* The last value of a source is in its sink, or on its way.
Served(n, q, sinks, vals, s) == s \in n.sources /\ (sinks[s] = vals[s] \/ Carries(q, s, vals[s]))

ToServe(sinks) == (Sources \ Events) \cap DOMAIN sinks

\* A connected node has asked for the sinks, ...
Asking(n, q, p) == n.state = "SINKS" /\ p = <<>> /\ \E a \in 1..Len(q) : Asks(q) = {a}

\* ... or is being told of them, and serves those it was told of, ...
Told(p, s) == \E a \in 1..Len(p) : p[a].kind = "sink" /\ p[a].name = s
Ended(p) == p # <<>> /\ \A a \in 1..Len(p) : p[a].kind = "end" <=> a = Len(p)
Listing(n, q, p, sinks, vals) ==
  /\ n.state = "SINKS" /\ Asks(q) = {} /\ Ended(p)
  /\ \A s \in ToServe(sinks) : Served(n, q, sinks, vals, s) \/ Told(p, s)

\* ... or serves them all.
Serving(n, q, p, sinks, vals) ==
  /\ n.state = "READY" /\ Asks(q) = {} /\ p = <<>>
  /\ \A s \in ToServe(sinks) : Served(n, q, sinks, vals, s)

NodeServes(n, q, p, host, vals) ==
  /\ Known(n, q, p, DOMAIN host.sinks)
  /\ n.fd = "none" => Asks(q) = {}
  /\ n.fd = "up" => /\ host.up
                    /\ \/ Asking(n, q, p) \/ Listing(n, q, p, host.sinks, vals)
                       \/ Serving(n, q, p, host.sinks, vals)

Serves(i) == Live(K, i) => NodeServes(K.node[i], Sending(i), pipe[i].in, remote[K.node[i].name], value)

ServeInv == OrderInv /\ \A i \in Ids : Serves(i)

\* One more line to send.
LEMMA Longer ==
  ASSUME NEW q \in Seq(Requests), NEW line \in Requests
  PROVE  LET r == Append(q, line) IN
           /\ line.kind = "sinks" /\ Asks(q) = {} => Len(q) + 1 \in 1..Len(r) /\ Asks(r) = {Len(q) + 1}
           /\ line.kind = "set" => Asks(r) = Asks(q) /\ Carries(r, line.name, line.version)
           /\ \A c : Among(q, c) /\ (line.kind = "set" => line.name \in c) => Among(r, c)
           /\ \A s, v : Carries(q, s, v) => Carries(r, s, v)
           /\ Len(r) = Len(q) + 1
<1> DEFINE r == Append(q, line)
           n == Len(q)
<1>1. /\ n \in Nat /\ Len(r) = n + 1 /\ r[n + 1] = line
      /\ \A a \in 1..n : r[a] = q[a]
  OBVIOUS
<1> HIDE DEF r
<1>2. Asks(r) = Asks(q) \cup (IF line.kind = "sinks" THEN {n + 1} ELSE {})
  BY <1>1 DEF Asks
<1>3. Sets(r) = Sets(q) \cup (IF line.kind = "set" THEN {n + 1} ELSE {})
  BY <1>1 DEF Sets
<1>4. \A a \in Sets(q) : a \in Sets(r) /\ r[a] = q[a]
  BY <1>1, <1>3 DEF Sets
<1>5. \A s, v : Carries(q, s, v) => Carries(r, s, v)
  BY <1>4 DEF Carries
<1>6. \A c : Among(q, c) /\ (line.kind = "set" => line.name \in c) => Among(r, c)
  BY <1>1, <1>3, <1>4 DEF Among
<1>7. line.kind = "set" => Carries(r, line.name, line.version)
  BY <1>1, <1>3 DEF Carries
<1>8. n + 1 \in 1..Len(r)
  BY <1>1
<1>9. QED BY <1>1, <1>2, <1>5, <1>6, <1>7, <1>8 DEF r

\* A line less: q is p after line.
After(p, line, q) == /\ p \in Seq(Requests) /\ q \in Seq(Requests) /\ line \in Requests
                     /\ Len(q) = Len(p) + 1 /\ q[1] = line /\ \A a \in 1..Len(p) : p[a] = q[a + 1]

LEMMA Shorter ==
  ASSUME NEW p, NEW q, NEW line, After(p, line, q)
  PROVE  /\ line.kind = "sinks" => /\ Asks(q) # {}
                                  /\ \A a : Asks(q) = {a} => Asks(p) = {}
         /\ line.kind = "set" => /\ Asks(q) = {} => Asks(p) = {}
                                 /\ \A a : Asks(q) = {a} => \E b \in 1..Len(p) : Asks(p) = {b}
                                 /\ \A c : Among(q, c) => line.name \in c
         /\ \A c : Among(q, c) => Among(p, c)
         /\ \A s, v : Carries(q, s, v) =>
              Carries(p, s, v) \/ (line.kind = "set" /\ line.name = s /\ line.version = v)
<1> DEFINE m == Len(p)
<1>1. m \in Nat /\ Len(q) = m + 1 /\ q[1] = line /\ \A a \in 1..m : p[a] = q[a + 1]
  BY DEF After
<1>2. \A b \in 1..m + 1 : b = 1 \/ (b - 1 \in 1..m /\ b - 1 + 1 = b)
  BY <1>1
<1>3. \A a \in 1..m : a + 1 \in 1..m + 1 /\ a + 1 # 1
  BY <1>1
<1> HIDE DEF m
<1>4. \A b \in Asks(q) : b = 1 \/ b - 1 \in Asks(p)
  BY <1>1, <1>2 DEF Asks, m
<1>5. \A a \in Asks(p) : a + 1 \in Asks(q) /\ a + 1 # 1
  BY <1>1, <1>3 DEF Asks, m
<1>6. 1 \in Asks(q) <=> line.kind = "sinks"
  BY <1>1 DEF Asks
<1>7. \A b \in Sets(q) : (b = 1 /\ q[b] = line /\ line.kind = "set") \/ (b - 1 \in Sets(p) /\ p[b - 1] = q[b])
  BY <1>1, <1>2 DEF Sets, m
<1>8. \A a \in Sets(p) : a + 1 \in Sets(q) /\ p[a] = q[a + 1]
  BY <1>1, <1>3 DEF Sets, m
<1>9. line.kind = "set" => 1 \in Sets(q)
  BY <1>1 DEF Sets
<1>10. ASSUME line.kind = "set", NEW a, Asks(q) = {a} PROVE \E b \in 1..Len(p) : Asks(p) = {b}
  <2>1. a \in Asks(q) /\ a # 1 /\ a - 1 \in Asks(p)
    BY <1>4, <1>6, <1>10
  <2>2. a - 1 \in 1..Len(p) /\ a \in Int
    BY <2>1 DEF Asks
  <2>3. \A b \in Asks(p) : b \in Int /\ b + 1 = a
    BY <1>5, <1>10 DEF Asks
  <2>4. \A b \in Asks(p) : b = a - 1
    BY <2>2, <2>3
  <2>5. QED BY <2>1, <2>2, <2>4
<1>11. Asks(q) = {} => Asks(p) = {}
  BY <1>5
<1>12. ASSUME line.kind = "sinks", NEW a, Asks(q) = {a} PROVE Asks(p) = {}
  BY <1>5, <1>6, <1>12
<1>13. \A c : Among(q, c) => Among(p, c) /\ (line.kind = "set" => line.name \in c)
  BY <1>1, <1>8, <1>9 DEF Among
<1>14. \A s, v : Carries(q, s, v) =>
              Carries(p, s, v) \/ (line.kind = "set" /\ line.name = s /\ line.version = v)
  BY <1>7 DEF Carries
<1>15. QED BY <1>6, <1>10, <1>11, <1>12, <1>13, <1>14

\* The table after a step.
LEMMA LiveNode ==
  ASSUME OrderInv, NEW i \in Ids
  PROVE  /\ K.node[i] \in Nodes /\ pipe[i].in \in Seq(Lines) /\ pipe[i] = [out |-> pipe[i].out, in |-> pipe[i].in]
         /\ K.node[i].fd # "none" => Live(K, i)
         /\ Live(K, i) => K.node[i].name \in Hosts
         /\ ~Live(K, i) => K.node[i] = FreeNode
         /\ K.node[i].fd = "none" => pipe[i] = EmptyPipe /\ pipe[i].out = <<>> /\ pipe[i].in = <<>>
                                     /\ Sending(i) = K.node[i].wbuf
<1>1. NodeOK(K.node[i]) /\ K.node[i] \in Nodes /\ pipe[i] \in [out : Seq(Requests), in : Seq(Lines)]
  BY TableFields DEF OrderInv, NodesInv, PipesOK, TableOK
<1>2. K.node[i].fd = "none" => pipe[i] = EmptyPipe /\ pipe[i].out = <<>> /\ pipe[i].in = <<>>
  BY DEF OrderInv, EmptyPipe
<1>3. K.node[i].wbuf \in Seq(Requests)
  BY <1>1 DEF Nodes
<1>4. pipe[i].out = <<>> => Sending(i) = K.node[i].wbuf
  BY <1>3, ConcatEmptySeq DEF Sending
<1>5. QED BY <1>1, <1>2, <1>4 DEF NodeOK, Nodes, FreeNode, Live

\* An entry of which nothing changes but its timer and its attempts.
LEMMA Unmoved ==
  ASSUME NEW i \in Ids, Serves(i), value' = value,
         K'.node[i].name = K.node[i].name, K'.node[i].state = K.node[i].state, K'.node[i].fd = K.node[i].fd,
         K'.node[i].sources = K.node[i].sources, Sending(i)' = Sending(i), pipe'[i].in = pipe[i].in,
         Live(K, i) => remote'[K.node[i].name] = remote[K.node[i].name]
  PROVE  Serves(i)'
<1>1. SUFFICES ASSUME Live(K, i)
               PROVE  NodeServes(K'.node[i], Sending(i), pipe[i].in, remote[K.node[i].name], value)
  BY DEF Serves, Live
<1>2. NodeServes(K.node[i], Sending(i), pipe[i].in, remote[K.node[i].name], value)
  BY <1>1 DEF Serves
<1>3. QED BY <1>2 DEF NodeServes, Known, Asking, Listing, Serving, Served

\* An entry that is not connected.
LEMMA Idle ==
  ASSUME NEW n, NEW q, NEW host, NEW vals, n.fd = "none", Asks(q) = {}, n.sources \subseteq DOMAIN host.sinks,
         Among(q, DOMAIN host.sinks)
  PROVE  NodeServes(n, q, <<>>, host, vals)
BY DEF NodeServes, Known

LEMMA Nothing == Asks(<<>>) = {} /\ Sets(<<>>) = {} /\ (\A c : Among(<<>>, c)) /\ \A s, v : ~Carries(<<>>, s, v)
BY DEF Asks, Sets, Among, Carries

\* hkcp_node_add
LEMMA AdvertisedServes ==
  ASSUME ServeInv, OrderInv', NEW h \in Hosts, Advertised(h)
  PROVE  \A i \in Ids : Serves(i)'
<1>1. SUFFICES ASSUME NEW i \in Ids PROVE Serves(i)'
  OBVIOUS
<1>2. UNCHANGED <<pipe, remote, value>> /\ K' = NodeAdd(K, h) /\ TableOK(K)
  BY DEF Advertised, ServeInv, OrderInv, NodesInv
<1>3. /\ K'.node[i].fd = K.node[i].fd /\ K'.node[i].wbuf = K.node[i].wbuf
      /\ K'.node[i].state = K.node[i].state /\ K'.node[i].sources = K.node[i].sources
      /\ K.node[i].name = NoHost \/ K'.node[i].name = K.node[i].name
  BY <1>2, NodeAddOK
<1>4. Sending(i)' = Sending(i)
  BY <1>2, <1>3 DEF Sending
<1>5. CASE Live(K, i)
  <2>1. K'.node[i].name = K.node[i].name
    BY <1>3, <1>5 DEF Live
  <2>2. Serves(i) /\ pipe'[i].in = pipe[i].in /\ remote'[K.node[i].name] = remote[K.node[i].name]
    BY <1>2 DEF ServeInv
  <2>3. QED BY <1>2, <1>3, <1>4, <2>1, <2>2, Unmoved
<1>6. CASE ~Live(K, i)
  <2>1. K.node[i] = FreeNode /\ K.node[i].fd = "none" /\ K.node[i].wbuf = <<>> /\ K.node[i].sources = {}
    <3>1. OrderInv
      BY DEF ServeInv
    <3>2. K.node[i] = FreeNode
      BY <1>6, <3>1, LiveNode
    <3>3. QED BY <3>2 DEF FreeNode
  <2>2. Sending(i) = <<>> /\ pipe[i].in = <<>>
    BY <2>1, LiveNode DEF ServeInv
  <2>3. NodeServes(K'.node[i], <<>>, <<>>, remote[K'.node[i].name], value)
    BY <1>3, <2>1, Idle, Nothing
  <2>4. QED BY <1>2, <1>4, <2>2, <2>3 DEF Serves
<1>7. QED BY <1>5, <1>6

\* hkcp_node_connect, called by one of its timers
LEMMA TriedServes ==
  ASSUME ServeInv, OrderInv', NEW i \in Ids, K.node[i].fd = "none", NEW ok \in BOOLEAN,
         Reached(K.node[i].name, ok), Tried(K'.node[i], K.node[i], ok),
         UNCHANGED <<pipe, remote, value>>, Live(K, i)
  PROVE  Serves(i)'
<1> DEFINE n == K.node[i]
           q == Sending(i)
           host == remote[n.name]
<1>1. /\ NodeServes(n, q, <<>>, host, value) /\ pipe[i].in = <<>> /\ pipe[i].out = <<>> /\ q = n.wbuf
      /\ q \in Seq(Requests)
  <2>1. OrderInv /\ NodesInv /\ Serves(i)
    BY DEF ServeInv, OrderInv
  <2>2. pipe[i].in = <<>> /\ pipe[i].out = <<>> /\ q = n.wbuf /\ q \in Seq(Requests)
    BY <2>1, LiveNode, SendingOK
  <2>3. QED BY <2>1, <2>2 DEF Serves
<1>2. /\ n.sources \subseteq DOMAIN host.sinks /\ Among(q, DOMAIN host.sinks) /\ Asks(q) = {}
  BY <1>1 DEF NodeServes, Known
<1>3. pipe'[i].in = <<>> /\ Sending(i)' = K'.node[i].wbuf
  <2>1. K'.node[i].wbuf \in Seq(Requests)
    <3>1. K'.node[i] \in Nodes
      BY TableFields DEF OrderInv, NodesInv
    <3>2. QED BY <3>1 DEF Nodes
  <2>2. QED BY <1>1, <2>1, ConcatEmptySeq DEF Sending
<1>4. CASE K'.node[i] = FreeNode
  BY <1>4 DEF Serves, Live, FreeNode
<1>5. CASE ~ok /\ K'.node[i].name = n.name /\ K'.node[i].sources = n.sources /\ K'.node[i].fd = n.fd
              /\ K'.node[i].wbuf = n.wbuf
  <2>1. NodeServes(K'.node[i], q, <<>>, host, value)
    BY <1>2, <1>5, Idle
  <2>2. QED BY <1>1, <1>3, <1>5, <2>1 DEF Serves
<1>6. CASE /\ ok /\ K'.node[i].name = n.name /\ K'.node[i].sources = n.sources
           /\ K'.node[i].fd = "up" /\ K'.node[i].state = "SINKS" /\ K'.node[i].wbuf = Append(n.wbuf, AskSinks)
  <2> DEFINE r == Append(q, AskSinks)
  <2>1. AskSinks \in Requests /\ AskSinks.kind = "sinks"
    BY SendableOK DEF Sendable, ServeInv, OrderInv, NodesInv, AskSinks, Line
  <2>2. Len(q) + 1 \in 1..Len(r) /\ Asks(r) = {Len(q) + 1} /\ Among(r, DOMAIN host.sinks)
    BY <1>1, <1>2, <2>1, Longer
  <2> HIDE DEF r
  <2>3. NodeServes(K'.node[i], r, <<>>, host, value)
    <3>1. host.up
      BY <1>6 DEF Reached
    <3>2. Asking(K'.node[i], r, <<>>)
      BY <1>6, <2>2 DEF Asking
    <3>3. Known(K'.node[i], r, <<>>, DOMAIN host.sinks)
      BY <1>2, <1>6, <2>2 DEF Known
    <3>4. QED BY <1>6, <3>1, <3>2, <3>3 DEF NodeServes
  <2>4. QED BY <1>1, <1>3, <1>6, <2>3 DEF Serves, r
<1>7. QED BY <1>4, <1>5, <1>6 DEF Tried

\* hkcp_node_event: an entry that lost its connection has nothing to send.
LEMMA HungUpServes ==
  ASSUME ServeInv, OrderInv', NEW i \in Ids, HangUp(i)
  PROVE  Serves(i)'
<1>1. PICK ok \in BOOLEAN : K' = HungUp(K, i, ok)
  BY DEF HangUp, Reached
<1>2. /\ TableOK(K) /\ Unscheduled(K.node[i]) /\ K.node[i].fd # "none" /\ pipe' = [pipe EXCEPT ![i] = EmptyPipe]
      /\ UNCHANGED <<remote, value>> /\ pipe \in [Ids -> [out : Seq(Requests), in : Seq(Lines)]]
  BY DEF HangUp, ServeInv, OrderInv, NodesInv, PipesOK
<1>3. /\ Kept(K'.node[i], K.node[i]) /\ K'.node[i].fd = "none" /\ K'.node[i].wbuf = <<>>
      /\ K'.node[i].sources \in {{}, K.node[i].sources}
  BY <1>1, <1>2, HungUpOK
<1>4. Sending(i)' = <<>> /\ pipe'[i].in = <<>>
  BY <1>2, <1>3 DEF Sending, EmptyPipe
<1>5. ASSUME K'.node[i].name # NoHost
      PROVE  NodeServes(K'.node[i], <<>>, <<>>, remote[K'.node[i].name], value)
  <2>1. Live(K, i) /\ K'.node[i].name = K.node[i].name
    BY <1>2, <1>3, <1>5, LiveNode DEF Kept, ServeInv, Live
  <2>2. K.node[i].sources \subseteq DOMAIN remote[K.node[i].name].sinks
    BY <2>1 DEF ServeInv, Serves, NodeServes, Known
  <2>3. QED BY <1>3, <2>1, <2>2, Idle, Nothing
<1>6. QED BY <1>2, <1>4, <1>5 DEF Serves, Live

\* hkcp_node_recv_line on the first line of p, of which t is the rest.
LEMMA HeardServes ==
  ASSUME NEW n, NEW m, NEW q \in Seq(Requests), NEW r, NEW p, NEW t, NEW line, NEW host, ValuesOK,
         NodeServes(n, q, p, host, value), Heard(m, n, line), m # FreeNode, n.fd # "none",
         m.wbuf = n.wbuf => r = q,
         \A s \in Sources : m.wbuf = Append(n.wbuf, SetSink(s)) => r = Append(q, SetSink(s)),
         p # <<>>, line = p[1], Len(p) \in Nat, Len(p) = Len(t) + 1, Len(t) \in Nat, Len(t) = 0 => t = <<>>,
         \A a \in 1..Len(t) : t[a] = p[a + 1]
  PROVE  NodeServes(m, r, t, host, value)
<1> DEFINE c == DOMAIN host.sinks
<1>1. n.sources \subseteq c /\ Among(q, c) /\ \A a \in 1..Len(p) : p[a].kind \in {"sink", "end"} /\ (p[a].kind = "sink" => p[a].name \in c)
  BY DEF NodeServes, Known
<1>2. /\ 1 \in 1..Len(p) /\ \A a \in 1..Len(t) : a + 1 \in 1..Len(p) /\ t[a] = p[a + 1]
      /\ \A b \in 1..Len(p) : b = 1 \/ (b - 1 \in 1..Len(t) /\ t[b - 1] = p[b])
  OBVIOUS
<1>3. line.kind \in {"sink", "end"} /\ (line.kind = "sink" => line.name \in c)
  BY <1>1, <1>2
<1>4. \A a \in 1..Len(t) : t[a].kind \in {"sink", "end"} /\ (t[a].kind = "sink" => t[a].name \in c)
  BY <1>1, <1>2
<1>5. \A s : Told(p, s) => Told(t, s) \/ (line.kind = "sink" /\ line.name = s)
  BY <1>2 DEF Told
<1>6. ASSUME n.state # "SINKS", m = n PROVE NodeServes(m, r, t, host, value)
  <2>1. r = q /\ Known(m, r, t, c)
    BY <1>1, <1>4, <1>6 DEF Known
  <2>2. m.fd # "up"
    BY <1>6 DEF NodeServes, Asking, Listing, Serving
  <2>3. QED BY <1>6, <2>1, <2>2 DEF NodeServes
<1>7. ASSUME n.state = "SINKS", line.kind # "sink", m.fd = n.fd, m.sources = n.sources, m.wbuf = n.wbuf, m.state = "READY"
      PROVE  NodeServes(m, r, t, host, value)
  <2>1. r = q /\ Known(m, r, t, c)
    BY <1>1, <1>4, <1>7 DEF Known
  <2>2. ASSUME m.fd = "up" PROVE host.up /\ Serving(m, r, t, host.sinks, value)
    <3>1. host.up /\ Listing(n, q, p, host.sinks, value)
      BY <1>7, <2>2 DEF NodeServes, Asking, Serving
    <3>2. Len(p) = 1 /\ t = <<>>
      BY <1>2, <1>3, <1>7, <3>1 DEF Listing, Ended
    <3>3. \A s : ~Told(p, s)
      BY <1>7, <3>2 DEF Told
    <3>4. QED BY <1>7, <2>1, <3>1, <3>2, <3>3 DEF Listing, Serving, Served
  <2>3. QED BY <1>7, <2>1, <2>2 DEF NodeServes
<1>8. ASSUME n.state = "SINKS", line.kind = "sink", Learned(m, n, line.name)
      PROVE  NodeServes(m, r, t, host, value)
  <2> DEFINE s == line.name
             l == SetSink(s)
  <2>1. /\ m.fd = n.fd /\ m.state = n.state /\ s \in c
        /\ m.sources = n.sources \/ (s \in Sources /\ m.sources = n.sources \cup {s})
        /\ s \in Sources => s \in m.sources
        /\ r = q \/ (s \in Sources /\ r = Append(q, l))
        /\ s \in Sources \ Events => r = Append(q, l)
    <3>1. /\ m.fd = n.fd /\ m.state = n.state /\ s \in c
          /\ \/ s \notin Sources /\ m.sources = n.sources /\ m.wbuf = n.wbuf
             \/ /\ s \in Sources /\ m.sources = n.sources \cup {s}
                /\ \/ s \in Events /\ m.wbuf = n.wbuf
                   \/ s \notin Events /\ m.wbuf = Append(n.wbuf, l)
      BY <1>3, <1>8 DEF Learned
    <3>2. s \in Sources /\ m.wbuf = Append(n.wbuf, l) => r = Append(q, l)
      OBVIOUS
    <3> HIDE DEF l, s
    <3>3. QED BY <3>1, <3>2
  <2>2. s \in Sources => l \in Requests /\ l.kind = "set" /\ l.name = s /\ l.version = value[s]
    BY SendableOK DEF Sendable, SetSink, Line
  <2> HIDE DEF l, s
  <2>3. /\ Asks(r) = Asks(q) /\ Among(r, c) /\ (\A u, v : Carries(q, u, v) => Carries(r, u, v))
        /\ s \in Sources \ Events => Carries(r, s, value[s])
    <3>1. CASE r = q /\ ~(s \in Sources \ Events)
      BY <1>1, <3>1
    <3>2. CASE s \in Sources /\ r = Append(q, l)
      <4>1. l \in Requests /\ l.kind = "set" /\ l.name \in c /\ l.name = s /\ l.version = value[s]
        BY <2>1, <2>2, <3>2
      <4>2. /\ Asks(r) = Asks(q) /\ Carries(r, l.name, l.version)
            /\ Among(q, c) /\ (l.kind = "set" => l.name \in c) => Among(r, c)
            /\ \A u, v : Carries(q, u, v) => Carries(r, u, v)
        BY <3>2, <4>1, Longer
      <4>3. QED BY <1>1, <4>1, <4>2
    <3>3. QED BY <2>1, <3>1, <3>2
  <2>4. Known(m, r, t, c)
    BY <1>1, <1>4, <2>1, <2>3 DEF Known
  <2>5. ASSUME m.fd = "up" PROVE host.up /\ Listing(m, r, t, host.sinks, value)
    <3>1. host.up /\ Listing(n, q, p, host.sinks, value)
      BY <1>8, <2>1, <2>5 DEF NodeServes, Asking, Serving
    <3>2. Ended(t)
      <4>1. Len(p) # 1
        BY <1>2, <1>8, <3>1 DEF Listing, Ended
      <4>2. Len(t) # 0 /\ t # <<>>
        BY <4>1
      <4>3. \A a \in 1..Len(t) : t[a].kind = "end" <=> a = Len(t)
        <5>1. SUFFICES ASSUME NEW a \in 1..Len(t) PROVE t[a].kind = "end" <=> a = Len(t)
          OBVIOUS
        <5>2. a + 1 \in 1..Len(p) /\ t[a] = p[a + 1] /\ (a + 1 = Len(p) <=> a = Len(t))
          BY <1>2
        <5>3. QED BY <3>1, <5>2 DEF Listing, Ended
      <4>4. QED BY <4>2, <4>3 DEF Ended
    <3>3. ASSUME NEW u \in ToServe(host.sinks) PROVE Served(m, r, host.sinks, value, u) \/ Told(t, u)
      <4>1. Served(n, q, host.sinks, value, u) \/ Told(p, u)
        BY <3>1 DEF Listing
      <4>2. Served(n, q, host.sinks, value, u) => Served(m, r, host.sinks, value, u)
        BY <2>1, <2>3 DEF Served
      <4>3. CASE u = s
        <5>1. s \in Sources \ Events
          BY <4>3 DEF ToServe
        <5>2. QED BY <2>1, <2>3, <4>3, <5>1 DEF Served
      <4>4. CASE u # s
        BY <1>5, <4>1, <4>2, <4>4 DEF s
      <4>5. QED BY <4>3, <4>4
    <3>4. QED BY <1>8, <2>1, <2>3, <3>1, <3>2, <3>3 DEF Listing
  <2>6. m.fd # "none"
    BY <2>1
  <2>7. QED BY <2>4, <2>5, <2>6 DEF NodeServes
<1>9. QED BY <1>6, <1>7, <1>8 DEF Heard

\* hkcp_node_recv
LEMMA ReceiveServes ==
  ASSUME ServeInv, OrderInv', NEW i \in Ids, Receive(i)
  PROVE  Serves(i)'
<1> DEFINE n == K.node[i]
           m == K'.node[i]
           o == pipe[i].out
           p == pipe[i].in
           t == Tail(p)
           line == Head(p)
           host == remote[n.name]
           q == Sending(i)
           r == o \o m.wbuf
<1>1. /\ OrderInv /\ Serves(i) /\ NodesInv /\ ValuesOK /\ TableOK(K) /\ n.fd # "none" /\ p # <<>>
      /\ n.tag = 0 /\ K' = RecvLine(K, i, line) /\ UNCHANGED <<remote, value>>
      /\ pipe' = IF m.fd = "none" THEN [pipe EXCEPT ![i] = EmptyPipe] ELSE [pipe EXCEPT ![i].in = t]
      /\ pipe \in [Ids -> [out : Seq(Requests), in : Seq(Lines)]]
  BY DEF ServeInv, OrderInv, NodesInv, PipesOK, Receive, Unscheduled
<1>2. Heard(m, n, line)
  BY <1>1, RecvLineOK
<1>3. Live(K, i) /\ NodeServes(n, q, p, host, value)
  BY <1>1, LiveNode DEF Serves
<1>4. CASE m = FreeNode
  BY <1>4 DEF Serves, Live, FreeNode
<1>5. ASSUME m # FreeNode PROVE Serves(i)'
  <2>1. m.fd = n.fd /\ m.name = n.name
    BY <1>2, <1>5 DEF Heard, Learned
  <2>2. pipe'[i] = [pipe[i] EXCEPT !.in = t]
    BY <1>1, <2>1
  <2>3. pipe'[i].in = t /\ pipe'[i].out = o
    BY <1>1, <2>2
  <2>4. Sending(i)' = r
    BY <2>3 DEF Sending
  <2>5. o \in Seq(Requests) /\ n.wbuf \in Seq(Requests) /\ q \in Seq(Requests)
    BY <1>1, SendingOK
  <2>6. m.wbuf = n.wbuf => r = q
    BY DEF Sending
  <2>7. \A s \in Sources : m.wbuf = Append(n.wbuf, SetSink(s)) => r = Append(q, SetSink(s))
    <3>1. SUFFICES ASSUME NEW s \in Sources, m.wbuf = Append(n.wbuf, SetSink(s)) PROVE r = Append(q, SetSink(s))
      OBVIOUS
    <3>2. SetSink(s) \in Requests
      BY <1>1, SendableOK DEF Sendable
    <3>3. o \o Append(n.wbuf, SetSink(s)) = Append(o \o n.wbuf, SetSink(s))
      BY <2>5, <3>2, AppendLast
    <3>4. QED BY <3>1, <3>3 DEF Sending
  <2>8. /\ Len(p) \in Nat /\ Len(t) \in Nat /\ Len(p) = Len(t) + 1 /\ line = p[1]
        /\ Len(t) = 0 => t = <<>>
        /\ \A a \in 1..Len(t) : t[a] = p[a + 1]
    <3>1. p \in Seq(Lines)
      BY <1>1
    <3> HIDE DEF p
    <3>2. t \in Seq(Lines) /\ Len(p) \in Nat \ {0} /\ Len(t) = Len(p) - 1
      BY <1>1, <3>1, LenProperties, EmptySeq, HeadTailProperties
    <3>3. line = p[1] /\ \A a \in 1..Len(t) : t[a] = p[a + 1]
      BY <1>1, <3>1, <3>2, HeadTailProperties
    <3>4. Len(t) = 0 => t = <<>>
      BY <3>2, EmptySeq
    <3>5. QED BY <3>2, <3>3, <3>4
  <2> HIDE DEF n, m, p, t, line, host, q, r
  <2>9. NodeServes(m, r, t, host, value)
    BY <1>1, <1>2, <1>3, <1>5, <2>5, <2>6, <2>7, <2>8, HeardServes
  <2>10. QED BY <1>1, <2>1, <2>3, <2>4, <2>9 DEF Serves, m, n, host
<1>6. QED BY <1>4, <1>5

\* hkcp_source_send_nodes: an entry that serves a source is sent its new value.
LEMMA UpdateServes ==
  ASSUME ServeInv, OrderInv', NEW s \in Sources, Update(s)
  PROVE  \A i \in Ids : Serves(i)'
<1>1. SUFFICES ASSUME NEW i \in Ids, Live(K, i) PROVE Serves(i)'
  <2>1. NodesInv
    BY DEF ServeInv, OrderInv
  <2>2. \A i \in Ids : K'.node[i].name = K.node[i].name
    BY <2>1, UpdateOK
  <2>3. QED BY <2>2 DEF Serves, Live
<1> DEFINE n == K.node[i]
           m == K'.node[i]
           o == pipe[i].out
           p == pipe[i].in
           line == Line("set", s, value[s] + 1)
           host == remote[n.name]
           q == Sending(i)
           r == o \o m.wbuf
           c == DOMAIN host.sinks
<1>2. /\ OrderInv /\ NodesInv /\ UNCHANGED <<pipe, remote>> /\ value[s] < MaxVersion /\ value \in [Sources -> 1..MaxVersion]
      /\ value' = [value EXCEPT ![s] = value[s] + 1] /\ NodeServes(n, q, p, host, value)
  BY <1>1 DEF ServeInv, Serves, OrderInv, NodesInv, ValuesOK, Update
<1>3. /\ m.name = n.name /\ m.fd = n.fd /\ m.sources = n.sources /\ m.state = n.state
      /\ s \in n.sources => m.wbuf = Append(n.wbuf, line)
      /\ s \notin n.sources => m.wbuf = n.wbuf
  BY <1>2, UpdateOK
<1>4. line \in Requests /\ line.kind = "set" /\ line.name = s /\ line.version = value'[s]
  <2>1. value[s] + 1 \in 0..MaxVersion /\ value'[s] = value[s] + 1
    BY <1>2, HkcpAssumption DEF HkcpAssumption
  <2>2. s \in Names
    BY DEF Names
  <2>3. QED BY <2>1, <2>2 DEF Requests, Line
<1>5. \A u \in Sources \ {s} : value'[u] = value[u]
  BY <1>2
<1>6. o \in Seq(Requests) /\ n.wbuf \in Seq(Requests) /\ q \in Seq(Requests) /\ q = o \o n.wbuf
  BY <1>2, SendingOK DEF Sending
<1> HIDE DEF line
<1>7. (s \in n.sources => r = Append(q, line)) /\ (s \notin n.sources => r = q)
  BY <1>3, <1>4, <1>6, AppendLast
<1>8. Sending(i)' = r
  BY <1>2 DEF Sending
<1> HIDE DEF n, m, o, p, host, q, r
<1>9. /\ Among(q, c) => Among(r, c)
      /\ Asks(r) = Asks(q) /\ \A u, v : Carries(q, u, v) => Carries(r, u, v)
      /\ s \in n.sources => Carries(r, s, value'[s])
  <2>1. CASE s \in n.sources
    <3>1. line.name \in c
      BY <1>2, <1>4, <2>1 DEF NodeServes, Known
    <3>2. /\ Asks(Append(q, line)) = Asks(q) /\ Carries(Append(q, line), line.name, line.version)
          /\ \A d : Among(q, d) /\ (line.kind = "set" => line.name \in d) => Among(Append(q, line), d)
          /\ \A u, v : Carries(q, u, v) => Carries(Append(q, line), u, v)
      BY <1>4, <1>6, Longer
    <3>3. r = Append(q, line)
      BY <1>7, <2>1
    <3>4. QED BY <1>4, <3>1, <3>2, <3>3
  <2>2. CASE s \notin n.sources
    BY <1>7, <2>2
  <2>3. QED BY <2>1, <2>2
<1>10. \A u \in Sources : Served(n, q, host.sinks, value, u) => Served(m, r, host.sinks, value', u)
  BY <1>3, <1>5, <1>9 DEF Served
<1>11. Known(m, r, p, c)
  BY <1>2, <1>3, <1>9 DEF NodeServes, Known
<1>12. Len(q) <= Len(r) /\ Len(q) \in Nat /\ Len(r) \in Nat
  BY <1>4, <1>6, <1>7
<1>13. ASSUME m.fd = "up"
       PROVE  /\ host.up
              /\ \/ Asking(m, r, p) \/ Listing(m, r, p, host.sinks, value') \/ Serving(m, r, p, host.sinks, value')
  <2>1. host.up /\ (Asking(n, q, p) \/ Listing(n, q, p, host.sinks, value) \/ Serving(n, q, p, host.sinks, value))
    BY <1>2, <1>3, <1>13 DEF NodeServes
  <2>2. Asking(n, q, p) => Asking(m, r, p)
    BY <1>3, <1>9, <1>12 DEF Asking
  <2>3. ToServe(host.sinks) \subseteq Sources
    BY DEF ToServe
  <2>4. Listing(n, q, p, host.sinks, value) => Listing(m, r, p, host.sinks, value')
    BY <1>3, <1>9, <1>10, <2>3 DEF Listing
  <2>5. Serving(n, q, p, host.sinks, value) => Serving(m, r, p, host.sinks, value')
    BY <1>3, <1>9, <1>10, <2>3 DEF Serving
  <2>6. QED BY <2>1, <2>2, <2>4, <2>5
<1>14. NodeServes(m, r, p, host, value')
  BY <1>2, <1>3, <1>9, <1>11, <1>13 DEF NodeServes
<1>15. QED BY <1>2, <1>3, <1>8, <1>14 DEF Serves, m, n, host, p

\* A set in a sequence is there entirely.
LEMMA AllListed ==
  ASSUME NEW S, IsFiniteSet(S)
  PROVE  \A s \in S : \E a \in 1..Cardinality(S) : SetToSeq(S)[a] = s
<1> DEFINE n == Cardinality(S)
<1>1. n \in Nat /\ \E f \in [1..n -> S] : IsInjective(f)
  BY FS_CardinalityType DEF ExistsBijection, Bijection, Injection, IsInjective
<1>2. SetToSeq(S) \in [1..n -> S] /\ IsInjective(SetToSeq(S))
  BY <1>1 DEF SetToSeq
<1>3. SetToSeq(S) \in Injection(1..n, S)
  BY <1>2 DEF Injection, IsInjective
<1>4. Cardinality(1..n) = n
  BY <1>1, FS_Interval
<1>5. SetToSeq(S) \in Surjection(1..n, S)
  <2>1. Cardinality(1..n) = Cardinality(S) <=> SetToSeq(S) \in Surjection(1..n, S)
    BY <1>3, FS_Injection
  <2>2. QED BY <1>4, <2>1
<1>6. QED BY <1>5 DEF Surjection

\* A sequence and one element more.
LEMMA OneAfter ==
  ASSUME NEW T, NEW l \in Seq(T), NEW e \in T
  PROVE  /\ Len(l) \in Nat /\ Len(l \o <<e>>) = Len(l) + 1 /\ (l \o <<e>>)[Len(l) + 1] = e
         /\ \A a \in 1..Len(l) : (l \o <<e>>)[a] = l[a]
<1>1. l \o <<e>> = Append(l, e)
  BY AppendIsConcat
<1>2. /\ Len(l) \in Nat /\ Len(Append(l, e)) = Len(l) + 1 /\ Append(l, e)[Len(l) + 1] = e
      /\ \A a \in 1..Len(l) : Append(l, e)[a] = l[a]
  OBVIOUS
<1>3. QED BY <1>1, <1>2

\* The list of sinks, as it was asked for.
LEMMA SinksListed ==
  ASSUME NEW h \in Hosts, NEW c \in Configs[h]
  PROVE  LET p == SinkList(c) IN
           /\ p \in Seq(Lines) /\ Ended(p) /\ \A s \in c : Told(p, s)
           /\ \A a \in 1..Len(p) : p[a].kind \in {"sink", "end"} /\ (p[a].kind = "sink" => p[a].name \in c)
<1>1. PICK n, f : n = Cardinality(c) /\ f = SetToSeq(c)
  OBVIOUS
<1>2. IsFiniteSet(c)
  BY HkcpAssumption DEF HkcpAssumption
<1>3. n \in Nat
  BY <1>1, <1>2, SetListed
<1>4. (\A a \in 1..n : f[a] \in c) /\ \A s \in c : \E a \in 1..n : f[a] = s
  BY <1>1, <1>2, SetListed, AllListed
<1> DEFINE line(s) == [kind |-> "sink", name |-> s, version |-> 0]
           end == [kind |-> "end", name |-> "", version |-> 0]
           list == [a \in 1..n |-> line(f[a])]
           T == {line(s) : s \in c} \cup {end}
           p == list \o <<end>>
<1>5. p = SinkList(c)
  BY <1>1 DEF SinkList, Line
<1>6. list \in Seq(T) /\ Len(list) = n
  <2>1. \A a \in 1..n : line(f[a]) \in T
    BY <1>4
  <2> HIDE DEF T, line
  <2>2. QED BY <1>3, <2>1
<1>7. \A a \in 1..n : list[a].kind = "sink" /\ list[a].name = f[a]
  OBVIOUS
<1>8. end \in T /\ end.kind = "end"
  OBVIOUS
<1> HIDE DEF list, end, T
<1>9. Len(p) = n + 1 /\ p[n + 1] = end /\ \A a \in 1..n : p[a] = list[a]
  BY <1>6, <1>8, OneAfter
<1> HIDE DEF p
<1>10. \A a \in 1..Len(p) : a \in 1..n \/ a = n + 1
  BY <1>3, <1>9
<1>11. n + 1 \in 1..Len(p) /\ \A a \in 1..n : a # n + 1 /\ a \in 1..Len(p)
  BY <1>3, <1>9
<1>12. p[n + 1].kind = "end" /\ \A a \in 1..n : p[a].kind = "sink" /\ p[a].name = f[a]
  BY <1>7, <1>8, <1>9
<1>13. Ended(p)
  <2>1. p # <<>>
    BY <1>3, <1>9
  <2>2. \A a \in 1..Len(p) : p[a].kind = "end" <=> a = Len(p)
    BY <1>9, <1>10, <1>11, <1>12
  <2>3. QED BY <2>1, <2>2 DEF Ended
<1>14. \A s \in c : Told(p, s)
  BY <1>4, <1>11, <1>12 DEF Told
<1>15. \A a \in 1..Len(p) : p[a].kind \in {"sink", "end"} /\ (p[a].kind = "sink" => p[a].name \in c)
  BY <1>4, <1>10, <1>12
<1>16. p \in Seq(Lines)
  BY <1>5, SinkListOK
<1>17. QED BY <1>5, <1>13, <1>14, <1>15, <1>16

\* What a remote engine answers to a line it can understand.
Answer(c, line) == IF line.kind = "sinks" THEN SinkList(c) ELSE <<>>

\* hkcp_command: the sinks are listed, or one of them takes the value sent.
LEMMA TakenServes ==
  ASSUME NEW h \in Hosts, NEW c \in Configs[h], NEW sinks \in [c -> Nat], NEW vals, \A s \in Sources : vals[s] \in Nat,
         NEW host, NEW host2, host2.up = host.up, host.sinks = sinks,
         NEW o \in Seq(Requests), o # <<>>, NEW w \in Seq(Requests), host2.sinks = RemoteSet(sinks, Head(o)),
         NEW n, NEW in \in Seq(Lines), n.fd = "up",
         NodeServes(n, o \o w, in, host, vals), NoneAhead(o \o w, vals), NoneBehind(o \o w, sinks)
  PROVE  NodeServes(n, Tail(o) \o w, in \o Answer(c, Head(o)), host2, vals)
<1>1. PICK p, q, line, r : p = Tail(o) \o w /\ q = o \o w /\ line = Head(o) /\ r = RemoteSet(sinks, line)
  OBVIOUS
<1>2. /\ p \in Seq(Requests) /\ q \in Seq(Requests) /\ line \in Requests /\ 1 \in 1..Len(q) /\ q[1] = line
      /\ Len(q) = Len(p) + 1 /\ \A a \in 1..Len(p) : p[a] = q[a + 1]
  BY <1>1, Popped
<1>3. /\ line.kind = "sinks" => /\ Asks(q) # {}
                                /\ \A a : Asks(q) = {a} => Asks(p) = {}
      /\ line.kind = "set" => /\ Asks(q) = {} => Asks(p) = {}
                              /\ \A a : Asks(q) = {a} => \E b \in 1..Len(p) : Asks(p) = {b}
                              /\ \A d : Among(q, d) => line.name \in d
      /\ \A d : Among(q, d) => Among(p, d)
      /\ \A s, v : Carries(q, s, v) =>
           Carries(p, s, v) \/ (line.kind = "set" /\ line.name = s /\ line.version = v)
  <2>1. After(p, line, q)
    BY <1>2 DEF After
  <2>2. QED BY <2>1, Shorter
<1>4. /\ host.up /\ n.sources \subseteq c /\ Among(q, c)
      /\ \A a \in 1..Len(in) : in[a].kind \in {"sink", "end"} /\ (in[a].kind = "sink" => in[a].name \in c)
      /\ Asking(n, q, in) \/ Listing(n, q, in, sinks, vals) \/ Serving(n, q, in, sinks, vals)
  BY <1>1 DEF NodeServes, Known
<1>5. DOMAIN sinks = c /\ \A s \in c : sinks[s] \in Nat
  OBVIOUS
<1>6. CASE line.kind = "sinks"
  <2>1. r = sinks
    BY <1>1, <1>6 DEF RemoteSet
  <2>2. n.state = "SINKS" /\ in = <<>> /\ Asks(p) = {}
    BY <1>3, <1>4, <1>6 DEF Asking, Listing, Serving
  <2>3. PICK list : list = SinkList(c)
    OBVIOUS
  <2>4. /\ list \in Seq(Lines) /\ Ended(list) /\ \A s \in c : Told(list, s)
        /\ \A a \in 1..Len(list) : list[a].kind \in {"sink", "end"} /\ (list[a].kind = "sink" => list[a].name \in c)
    BY <2>3, SinksListed
  <2>5. in \o Answer(c, line) = list
    BY <1>6, <2>2, <2>3, <2>4, ConcatEmptySeq DEF Answer
  <2>6. Listing(n, p, list, sinks, vals)
    BY <1>5, <2>2, <2>4 DEF Listing, ToServe
  <2>7. Known(n, p, list, c)
    BY <1>3, <1>4, <2>4 DEF Known
  <2>8. NodeServes(n, p, list, host2, vals)
    BY <1>1, <1>4, <1>5, <2>1, <2>6, <2>7 DEF NodeServes
  <2>9. QED BY <1>1, <2>5, <2>8
<1>7. CASE line.kind = "set"
  <2>1. line.name \in c
    BY <1>3, <1>4, <1>7
  <2>2. r = [sinks EXCEPT ![line.name] = line.version]
    BY <1>1, <1>5, <1>7, <2>1 DEF RemoteSet
  <2>3. DOMAIN r = c /\ r[line.name] = line.version /\ \A s \in c \ {line.name} : r[s] = sinks[s]
    BY <1>5, <2>1, <2>2
  <2>4. line.name \in Sources /\ sinks[line.name] <= line.version /\ line.version <= vals[line.name] /\ line.version \in Nat
    <3>1. 1 \in Sets(q)
      BY <1>2, <1>7 DEF Sets
    <3>2. NoneAhead(q, vals) /\ NoneBehind(q, sinks)
      BY <1>1
    <3>3. line.version \in Nat
      BY <1>2, HkcpAssumption DEF Requests, HkcpAssumption
    <3>4. QED BY <1>2, <1>5, <2>1, <3>1, <3>2, <3>3 DEF NoneAhead, NoneBehind
  <2>5. ASSUME NEW s \in Sources \cap c, Served(n, q, sinks, vals, s) PROVE Served(n, p, r, vals, s)
    <3>1. CASE sinks[s] = vals[s] /\ s # line.name
      BY <2>3, <2>5, <3>1 DEF Served
    <3>2. CASE sinks[s] = vals[s] /\ s = line.name
      <4>1. line.version = vals[s]
        BY <1>5, <2>1, <2>4, <3>2
      <4>2. QED BY <2>3, <2>5, <3>2, <4>1 DEF Served
    <3>3. CASE Carries(q, s, vals[s])
      <4>1. Carries(p, s, vals[s]) \/ (line.name = s /\ line.version = vals[s])
        BY <1>3, <3>3
      <4>2. QED BY <2>3, <2>5, <4>1 DEF Served
    <3>4. QED BY <2>5, <3>1, <3>2, <3>3 DEF Served
  <2>6. ToServe(r) = ToServe(sinks) /\ ToServe(sinks) \subseteq Sources \cap c
    BY <1>5, <2>3 DEF ToServe
  <2>7. Asking(n, q, in) => Asking(n, p, in)
    BY <1>3, <1>7 DEF Asking
  <2>8. Listing(n, q, in, sinks, vals) => Listing(n, p, in, r, vals)
    BY <1>3, <1>7, <2>5, <2>6 DEF Listing
  <2>9. Serving(n, q, in, sinks, vals) => Serving(n, p, in, r, vals)
    BY <1>3, <1>7, <2>5, <2>6 DEF Serving
  <2>10. Known(n, p, in, c)
    BY <1>3, <1>4 DEF Known
  <2>11. NodeServes(n, p, in, host2, vals)
    BY <1>1, <1>4, <2>3, <2>7, <2>8, <2>9, <2>10 DEF NodeServes
  <2>12. in \o Answer(c, line) = in
    BY <1>7, ConcatEmptySeq DEF Answer
  <2>13. QED BY <1>1, <2>11, <2>12
<1>8. QED BY <1>2, <1>6, <1>7 DEF Requests

\* hkcp_command
LEMMA RemoteReceiveServes ==
  ASSUME ServeInv, NEW i \in Ids, RemoteReceive(i)
  PROVE  \A j \in Ids : Serves(j)'
<1> DEFINE h == K.node[i].name
           o == pipe[i].out
           w == K.node[i].wbuf
           p == pipe[i].in
           line == Head(o)
           sinks == remote[h].sinks
           c == DOMAIN sinks
           r == RemoteSet(sinks, line)
<1>1. /\ OrderInv /\ NodesInv /\ EnginesOK /\ OneEntry(K) /\ K.node[i].fd = "up" /\ o # <<>> /\ ValuesOK
      /\ o \in Seq(Requests) /\ w \in Seq(Requests) /\ p \in Seq(Lines)
      /\ pipe \in [Ids -> [out : Seq(Requests), in : Seq(Lines)]]
  BY SendingOK DEF ServeInv, OrderInv, NodesInv, PipesOK, TableOK, RemoteReceive
<1>2. h \in Hosts /\ Live(K, i)
  BY <1>1, LiveNode
<1>3. line \in Requests
  BY <1>1, HeadTailProperties
<1>4. sinks \in [c -> Nat] /\ c \in Configs[h]
  BY <1>1, <1>2, SinksAreVersions DEF EnginesOK
<1>5. remote' = [remote EXCEPT ![h] = [up |-> remote[h].up, sinks |-> r]]
  <2>1. remote' = [remote EXCEPT ![h].sinks = RemoteSet(@, line)]
    BY DEF RemoteReceive
  <2> HIDE DEF line
  <2>2. QED BY <1>1, <1>2, <1>3, <2>1, RemoteSetOK
<1>6. remote'[h] = [up |-> remote[h].up, sinks |-> r] /\ \A g \in Hosts \ {h} : remote'[g] = remote[g]
  BY <1>1, <1>2, <1>5 DEF EnginesOK
<1>7. UNCHANGED <<K, value>> /\ pipe' = [pipe EXCEPT ![i] = [out |-> Tail(o), in |-> p \o RemoteReply(h, line)]]
  BY <1>1 DEF RemoteReceive
<1>8. ASSUME NEW j \in Ids \ {i} PROVE Serves(j)'
  <2>1. pipe'[j] = pipe[j]
    BY <1>1, <1>7, <1>8
  <2>2. Live(K, j) => K.node[j].name \in Hosts \ {h}
    BY <1>1, <1>2, <1>8, LiveNode DEF OneEntry, Live
  <2>3. Serves(j) /\ Sending(j)' = Sending(j)
    BY <1>7, <2>1 DEF ServeInv, Sending
  <2>4. QED BY <1>6, <1>7, <2>1, <2>2, <2>3, Unmoved
<1>9. Serves(i)'
  <2>1. NodeServes(K.node[i], o \o w, p, remote[h], value)
    BY <1>2 DEF ServeInv, Serves, Sending
  <2>2. NoneAhead(o \o w, value) /\ NoneBehind(o \o w, sinks)
    BY <1>1, <1>2 DEF OrderInv, Sending
  <2>3. RemoteReply(h, line) = Answer(c, line)
    <3>1. line.kind = "set" => line.name \in c
      <4>1. Among(o \o w, c)
        BY <2>1 DEF NodeServes, Known
      <4>2. After(Tail(o) \o w, line, o \o w)
        BY <1>1, Popped DEF After
      <4>3. QED BY <4>1, <4>2, Shorter
    <3>2. line.kind \in {"sinks", "set"}
      BY <1>3 DEF Requests
    <3> HIDE DEF line
    <3>3. QED BY <3>1, <3>2 DEF RemoteReply, Answer
  <2>4. remote'[h].up = remote[h].up /\ remote'[h].sinks = r
    BY <1>6
  <2>5. \A s \in Sources : value[s] \in Nat
    BY <1>1 DEF ValuesOK
  <2>6. NodeServes(K.node[i], Tail(o) \o w, p \o Answer(c, line), remote'[h], value)
    <3>1. PICK n, x, y, in : n = K.node[i] /\ x = o /\ y = w /\ in = p
      OBVIOUS
    <3>2. PICK e, f, d : e = remote[h] /\ f = remote'[h] /\ d = c
      OBVIOUS
    <3>3. NodeServes(n, Tail(x) \o y, in \o Answer(d, Head(x)), f, value)
      <4>1. /\ d \in Configs[h] /\ e.sinks \in [d -> Nat] /\ f.up = e.up /\ f.sinks = RemoteSet(e.sinks, Head(x))
            /\ x \in Seq(Requests) /\ x # <<>> /\ y \in Seq(Requests) /\ in \in Seq(Lines) /\ n.fd = "up"
            /\ NodeServes(n, x \o y, in, e, value) /\ NoneAhead(x \o y, value) /\ NoneBehind(x \o y, e.sinks)
        BY <1>1, <1>4, <2>1, <2>2, <2>4, <3>1, <3>2
      <4>2. QED BY <1>2, <2>5, <4>1, TakenServes
    <3>4. QED BY <3>1, <3>2, <3>3
  <2>7. pipe'[i].out = Tail(o) /\ pipe'[i].in = p \o Answer(c, line)
    BY <1>1, <1>7, <2>3
  <2>8. Sending(i)' = Tail(o) \o w
    BY <1>7, <2>7 DEF Sending
  <2>9. QED BY <1>7, <2>6, <2>7, <2>8 DEF Serves
<1>10. QED BY <1>8, <1>9

\* tcp_sock_write_event
LEMMA FlushServes ==
  ASSUME ServeInv, NEW i \in Ids, Flush(i)
  PROVE  \A j \in Ids : Serves(j)'
<1> DEFINE w == K.node[i].wbuf
           o == pipe[i].out
<1>1. PICK n \in 1..Len(w) :
        /\ pipe' = [pipe EXCEPT ![i].out = @ \o SubSeq(w, 1, n)]
        /\ K' = [K EXCEPT !.node[i].wbuf = Shifted(@, n)]
  BY DEF Flush
<1>2. NodesInv /\ K.node[i].fd = "up" /\ UNCHANGED <<remote, value>>
  BY DEF ServeInv, OrderInv, Flush
<1>3. \A j \in Ids : /\ K'.node[j].name = K.node[j].name /\ K'.node[j].fd = K.node[j].fd
                     /\ K'.node[j].sources = K.node[j].sources /\ K'.node[j].state = K.node[j].state
                     /\ K'.node[j].wbuf = IF j = i THEN Shifted(w, n) ELSE K.node[j].wbuf
  BY <1>1, <1>2, FlushOK
<1>4. w \in Seq(Requests) /\ o \in Seq(Requests)
  BY <1>2, SendingOK
<1>5. /\ pipe'[i].out = o \o SubSeq(w, 1, n) /\ pipe'[i].in = pipe[i].in
      /\ \A j \in Ids \ {i} : pipe'[j] = pipe[j]
  BY <1>1, <1>2 DEF NodesInv, PipesOK
<1>6. SubSeq(w, 1, n) \o SubSeq(w, n + 1, Len(w)) = w
  BY <1>4
<1>7. Sending(i)' = Sending(i)
  <2> DEFINE u == SubSeq(w, 1, n)
             v == SubSeq(w, n + 1, Len(w))
  <2>1. u \in Seq(Requests) /\ v \in Seq(Requests)
    BY <1>4, LenProperties, SubSeqProperties
  <2>2. Sending(i)' = (o \o u) \o v
    BY <1>3, <1>5 DEF Sending, Shifted
  <2>3. (o \o u) \o v = o \o (u \o v)
    <3> HIDE DEF u, v, o
    <3>1. o \in Seq(Requests)
      BY <1>4 DEF o
    <3>2. QED BY <2>1, <3>1, ConcatAssociative
  <2>4. QED BY <1>6, <2>2, <2>3 DEF Sending
<1>8. ASSUME NEW j \in Ids PROVE Serves(j)'
  <2>1. Sending(j)' = Sending(j) /\ pipe'[j].in = pipe[j].in
    BY <1>3, <1>5, <1>7 DEF Sending
  <2>2. Serves(j)
    BY DEF ServeInv
  <2>3. QED BY <1>2, <1>3, <2>1, <2>2, Unmoved
<1>9. QED BY <1>8

\* The end of a sequence holds no more than the whole.
LEMMA EndOf ==
  ASSUME NEW o \in Seq(Requests), NEW w \in Seq(Requests), NEW c, Among(o \o w, c)
  PROVE  Among(w, c)
<1>1. /\ Len(o) \in Nat /\ Len(w) \in Nat /\ Len(o \o w) = Len(o) + Len(w)
      /\ \A a \in 1..Len(o) + Len(w) : (o \o w)[a] = IF a <= Len(o) THEN o[a] ELSE w[a - Len(o)]
  BY LenProperties, ConcatProperties
<1>2. PICK q : q = o \o w
  OBVIOUS
<1>3. SUFFICES ASSUME NEW a \in 1..Len(w), w[a].kind = "set" PROVE w[a].name \in c
  BY DEF Among, Sets
<1>4. a + Len(o) \in 1..Len(o) + Len(w) /\ ~(a + Len(o) <= Len(o)) /\ a + Len(o) - Len(o) = a
  BY <1>1
<1>5. a + Len(o) \in 1..Len(q) /\ q[a + Len(o)] = w[a]
  BY <1>1, <1>2, <1>4
<1>6. a + Len(o) \in Sets(q)
  BY <1>3, <1>5 DEF Sets
<1>7. QED BY <1>2, <1>5, <1>6 DEF Among

\* The connections to h are lost, and h may stop.
LEMMA BrokenServes ==
  ASSUME ServeInv, OrderInv', NEW h \in Hosts, Broken(h), value' = value,
         remote' = remote \/ remote' = [remote EXCEPT ![h].up = FALSE]
  PROVE  \A i \in Ids : Serves(i)'
<1>1. NodesInv /\ EnginesOK /\ pipe \in [Ids -> [out : Seq(Requests), in : Seq(Lines)]]
  BY DEF ServeInv, OrderInv, NodesInv, PipesOK
<1>2. \A g \in Hosts : remote'[g].sinks = remote[g].sinks /\ (g # h => remote'[g] = remote[g])
  <2>1. remote \in [Hosts -> Engines]
    BY <1>1 DEF EnginesOK
  <2>2. CASE remote' = remote
    BY <2>2
  <2>3. CASE remote' = [remote EXCEPT ![h].up = FALSE]
    <3>1. \A e \in Engines : [e EXCEPT !.up = FALSE].sinks = e.sinks
      BY DEF Engines
    <3>2. remote'[h] = [remote[h] EXCEPT !.up = FALSE] /\ \A g \in Hosts \ {h} : remote'[g] = remote[g]
      BY <2>1, <2>3
    <3>3. QED BY <2>1, <3>1, <3>2
  <2>4. QED BY <2>2, <2>3
<1>3. SUFFICES ASSUME NEW i \in Ids PROVE Serves(i)'
  OBVIOUS
<1> DEFINE n == K.node[i]
           m == K'.node[i]
<1>4. /\ m.name = n.name /\ m.wbuf = n.wbuf /\ (m.fd = "none" <=> n.fd = "none")
      /\ m.sources = n.sources /\ m.state = n.state
      /\ IF n.name = h THEN m.fd # "up" ELSE m = n
  BY <1>1, BrokenOK
<1>5. pipe'[i] = IF n.name = h THEN [pipe[i] EXCEPT !.out = <<>>] ELSE pipe[i]
  BY <1>1 DEF Broken
<1>6. CASE n.name # h
  <2>1. pipe'[i] = pipe[i] /\ m = n /\ Serves(i)
    BY <1>4, <1>5, <1>6 DEF ServeInv
  <2>2. Sending(i)' = Sending(i)
    BY <2>1 DEF Sending
  <2>3. Live(K, i) => remote'[n.name] = remote[n.name]
    BY <1>2, <1>6, LiveNode DEF ServeInv
  <2>4. QED BY <2>1, <2>2, <2>3, Unmoved
<1>7. CASE n.name = h
  <2>1. pipe'[i].out = <<>> /\ pipe'[i].in = pipe[i].in
    BY <1>1, <1>5, <1>7
  <2>2. pipe[i].out \in Seq(Requests) /\ n.wbuf \in Seq(Requests)
    BY <1>1, SendingOK
  <2>3. Sending(i)' = n.wbuf
    BY <1>4, <2>1, <2>2, ConcatEmptySeq DEF Sending
  <2>4. Live(K, i) /\ NodeServes(n, Sending(i), pipe[i].in, remote[h], value)
    BY <1>7, HkcpAssumption DEF ServeInv, Serves, Live, HkcpAssumption
  <2>5. PICK c : c = DOMAIN remote[h].sinks
    OBVIOUS
  <2>6. Known(n, n.wbuf, pipe[i].in, c)
    <3>1. Known(n, Sending(i), pipe[i].in, c)
      BY <2>4, <2>5 DEF NodeServes
    <3>2. Among(n.wbuf, c)
      BY <2>2, <3>1, EndOf DEF Known, Sending
    <3>3. QED BY <3>1, <3>2 DEF Known
  <2>7. n.fd = "none" => Asks(n.wbuf) = {}
    BY <2>4, LiveNode DEF NodeServes, ServeInv
  <2>8. NodeServes(m, n.wbuf, pipe[i].in, remote'[h], value)
    BY <1>2, <1>4, <1>7, <2>5, <2>6, <2>7 DEF NodeServes, Known
  <2>9. QED BY <1>4, <1>7, <2>1, <2>3, <2>8 DEF Serves
<1>8. QED BY <1>6, <1>7

\* A host that keeps its sinks starts: nothing is connected to it.
LEMMA RemoteStartServes ==
  ASSUME ServeInv, NEW h \in Hosts, RemoteStart(h), \A c, d \in Configs[h] : c = d
  PROVE  \A i \in Ids : Serves(i)'
<1>1. /\ NodesInv /\ EnginesOK /\ ~remote[h].up /\ UNCHANGED <<K, pipe, value>>
  BY DEF ServeInv, OrderInv, NodesInv, RemoteStart
<1>2. PICK c \in Configs[h] : remote' = [remote EXCEPT ![h] = Started(c)]
  BY DEF RemoteStart
<1>3. remote \in [Hosts -> Engines] /\ DOMAIN remote[h].sinks = c
  BY <1>1 DEF EnginesOK
<1>4. remote'[h].up = TRUE /\ DOMAIN remote'[h].sinks = c /\ \A g \in Hosts \ {h} : remote'[g] = remote[g]
  BY <1>2, <1>3 DEF Started
<1>5. ASSUME NEW i \in Ids PROVE Serves(i)'
  <2>1. Sending(i)' = Sending(i) /\ Serves(i)
    BY <1>1 DEF Sending, ServeInv
  <2>2. CASE Live(K, i) /\ K.node[i].name = h
    <3>1. NodeServes(K.node[i], Sending(i), pipe[i].in, remote[h], value)
      BY <2>1, <2>2 DEF Serves
    <3>2. K.node[i].fd # "up"
      BY <1>1, <3>1 DEF NodeServes
    <3>3. NodeServes(K.node[i], Sending(i), pipe[i].in, remote'[h], value)
      BY <1>3, <1>4, <3>1, <3>2 DEF NodeServes
    <3>4. QED BY <1>1, <2>1, <2>2, <3>3 DEF Serves
  <2>3. CASE ~(Live(K, i) /\ K.node[i].name = h)
    <3>1. Live(K, i) => remote'[K.node[i].name] = remote[K.node[i].name]
      BY <1>4, <2>3, LiveNode DEF ServeInv
    <3>2. QED BY <1>1, <2>1, <3>1, Unmoved
  <2>4. QED BY <2>2, <2>3
<1>6. QED BY <1>5

\* The timer of an entry is that of no other, and the entry is not connected.
LEMMA TimerServes ==
  ASSUME ServeInv, OrderInv', NEW i \in Ids, Timer(i)
  PROVE  \A j \in Ids : Serves(j)'
<1>1. TableOK(K) /\ NodesInv /\ \A j \in Ids : Unscheduled(K.node[j])
  BY DEF ServeInv, OrderInv, NodesInv
<1>2. PICK t \in K.timers : t.node = i /\ (ConnectFirst(t) \/ ConnectRetry(t))
  BY DEF Timer
<1>3. /\ UNCHANGED <<pipe, remote, value>> /\ K.node[i].fd = "none" /\ Live(K, i)
  <2>1. K.node[i].tag # 0
    BY <1>1, <1>2, TableFields DEF TableOK, Paired
  <2>2. K.node[i].fd = "none"
    BY <1>1, <2>1 DEF Unscheduled
  <2>3. K.node[i].name # NoHost
    BY <1>1, <2>1 DEF TableOK, NodeOK, FreeNode
  <2>4. QED BY <1>2, <2>2, <2>3 DEF ConnectFirst, ConnectRetry, Live
<1>4. \E ok \in BOOLEAN : /\ Reached(K.node[i].name, ok) /\ Tried(K'.node[i], K.node[i], ok)
                          /\ \A j \in Ids \ {i} : K'.node[j] = K.node[j]
  <2>1. CASE ConnectFirst(t)
    <3>1. PICK ok \in BOOLEAN : K' = NodeConnect(FiredFirst(K, t, i), i, ok) /\ Reached(K.node[i].name, ok)
      BY <1>2, <2>1 DEF ConnectFirst, FiredFirst, Reached
    <3> DEFINE m == NodeConnect(FiredFirst(K, t, i), i, ok)
    <3>2. Tried(m.node[i], K.node[i], ok) /\ \A j \in Ids \ {i} : m.node[j] = K.node[j]
      BY <1>1, <1>2, ConnectFirstOK
    <3>3. K' = m
      BY <3>1
    <3> HIDE DEF m
    <3>4. QED BY <3>1, <3>2, <3>3
  <2>2. CASE ConnectRetry(t)
    <3>1. PICK ok \in BOOLEAN :
            /\ K' = IF ConnectAgain(K.node[i], ok) THEN NodeConnect(K, i, ok)
                    ELSE [NodeConnect(K, i, ok) EXCEPT !.timers = @ \ {t}]
            /\ Reached(K.node[i].name, ok) /\ t.func = "connect"
      BY <1>2, <2>2 DEF ConnectRetry, Reached
    <3> DEFINE m == IF ConnectAgain(K.node[i], ok) THEN NodeConnect(K, i, ok)
                    ELSE [NodeConnect(K, i, ok) EXCEPT !.timers = @ \ {t}]
    <3>2. Tried(m.node[i], K.node[i], ok) /\ \A j \in Ids \ {i} : m.node[j] = K.node[j]
      <4>1. /\ TableOK(m)
            /\ \A j \in Ids \ {i} : m.node[j] = K.node[j]
            /\ Kept(m.node[i], K.node[i]) /\ Unscheduled(m.node[i]) /\ Tried(m.node[i], K.node[i], ok)
        BY <1>1, <1>2, <3>1, ConnectRetryOK
      <4>2. QED BY <4>1
    <3>3. K' = m
      BY <3>1
    <3> HIDE DEF m
    <3>4. QED BY <3>1, <3>2, <3>3
  <2>3. QED BY <1>2, <2>1, <2>2
<1>5. Serves(i)'
  BY <1>3, <1>4, TriedServes
<1>6. ASSUME NEW j \in Ids \ {i} PROVE Serves(j)'
  <2>1. K'.node[j] = K.node[j] /\ Serves(j)
    BY <1>4 DEF ServeInv
  <2>2. Sending(j)' = Sending(j)
    BY <1>3, <2>1 DEF Sending
  <2>3. QED BY <1>3, <2>1, <2>2, Unmoved
<1>7. QED BY <1>5, <1>6

\* What the loop does for one connection leaves the others alone.
LEMMA OneConnection ==
  ASSUME ServeInv, OrderInv', NEW i \in Ids, Receive(i) \/ HangUp(i)
  PROVE  \A j \in Ids : Serves(j)'
<1>1. NodesInv /\ PipesOK /\ TableOK(K) /\ ValuesOK /\ Unscheduled(K.node[i])
  BY DEF ServeInv, OrderInv, NodesInv
<1>2. UNCHANGED <<remote, value>> /\ \A j \in Ids \ {i} : K'.node[j] = K.node[j] /\ pipe'[j] = pipe[j]
  <2>1. CASE Receive(i)
    <3>1. K' = RecvLine(K, i, Head(pipe[i].in)) /\ K.node[i].fd # "none" /\ K.node[i].tag = 0
      BY <1>1, <2>1 DEF Receive, Unscheduled
    <3>2. pipe' = IF K'.node[i].fd = "none" THEN [pipe EXCEPT ![i] = EmptyPipe]
                   ELSE [pipe EXCEPT ![i].in = Tail(pipe[i].in)]
      BY <2>1 DEF Receive
    <3>3. \A j \in Ids \ {i} : K'.node[j] = K.node[j]
      BY <1>1, <3>1, RecvLineOK
    <3>4. QED BY <1>1, <2>1, <3>2, <3>3 DEF PipesOK, Receive
  <2>2. CASE HangUp(i)
    <3>1. PICK ok \in BOOLEAN : K' = HungUp(K, i, ok)
      BY <2>2 DEF HangUp, Reached
    <3>2. K.node[i].fd # "none"
      BY <2>2 DEF HangUp
    <3>3. \A j \in Ids \ {i} : K'.node[j] = K.node[j]
      BY <1>1, <3>1, <3>2, HungUpOK
    <3>4. QED BY <1>1, <2>2, <3>3 DEF PipesOK, HangUp
  <2>3. QED BY <2>1, <2>2
<1>3. Serves(i)'
  BY ReceiveServes, HungUpServes
<1>4. ASSUME NEW j \in Ids \ {i} PROVE Serves(j)'
  <2>1. K'.node[j] = K.node[j] /\ pipe'[j] = pipe[j] /\ Serves(j)
    BY <1>2 DEF ServeInv
  <2>2. Sending(j)' = Sending(j)
    BY <2>1 DEF Sending
  <2>3. QED BY <1>2, <2>1, <2>2, Unmoved
<1>5. QED BY <1>3, <1>4

\* Every host has the same public sinks whenever it is started.
SinksStay == \A h \in Hosts : \A c, d \in Configs[h] : c = d

LEMMA ServeStep == ASSUME SinksStay PROVE ServeInv /\ [Next]_vars => ServeInv'
<1>1. SUFFICES ASSUME ServeInv, [Next]_vars PROVE ServeInv'
  OBVIOUS
<1>2. OrderInv'
  BY <1>1, OrderStep DEF ServeInv
<1>3. SUFFICES \A i \in Ids : Serves(i)'
  BY <1>2 DEF ServeInv
<1>4. ASSUME NEW h \in Hosts, LoseConnection(h) PROVE \A i \in Ids : Serves(i)'
  BY <1>1, <1>2, <1>4, BrokenServes DEF LoseConnection
<1>5. ASSUME NEW h \in Hosts, RemoteStop(h) PROVE \A i \in Ids : Serves(i)'
  BY <1>1, <1>2, <1>5, BrokenServes DEF RemoteStop
<1>6. ASSUME NEW h \in Hosts, RemoteStart(h) PROVE \A i \in Ids : Serves(i)'
  BY <1>1, <1>6, RemoteStartServes DEF SinksStay
<1>7. ASSUME UNCHANGED vars PROVE \A i \in Ids : Serves(i)'
  BY <1>1, <1>7, Unmoved DEF vars, ServeInv, Sending
<1>8. ASSUME NEW h \in Hosts, Advertised(h) PROVE \A i \in Ids : Serves(i)'
  BY <1>1, <1>2, <1>8, AdvertisedServes
<1>9. ASSUME NEW i \in Ids, Timer(i) \/ Flush(i) \/ Receive(i) \/ HangUp(i) \/ RemoteReceive(i)
      PROVE  \A j \in Ids : Serves(j)'
  BY <1>1, <1>2, <1>9, TimerServes, FlushServes, OneConnection, RemoteReceiveServes
<1>10. ASSUME NEW s \in Sources, Update(s) PROVE \A i \in Ids : Serves(i)'
  BY <1>1, <1>2, <1>10, UpdateServes
<1>11. QED BY <1>1, <1>4, <1>5, <1>6, <1>7, <1>8, <1>9, <1>10 DEF Next, Environment

\* Nothing is left to send, and the node is ready: it serves every sink it can, and no value
\* is on its way, so that each is there.
LEMMA ServeInvSuffices == ServeInv => Converged
<1>1. SUFFICES ASSUME ServeInv, NEW i \in Ids, K.node[i].fd = "up", K.node[i].state = "READY",
                      K.node[i].wbuf = <<>>, pipe[i] = EmptyPipe,
                      NEW s \in (Sources \ Events) \cap DOMAIN remote[K.node[i].name].sinks
               PROVE  remote[K.node[i].name].sinks[s] = value[s]
  BY DEF Converged
<1> DEFINE n == K.node[i]
           host == remote[n.name]
<1>2. Sending(i) = <<>> /\ pipe[i].in = <<>>
  BY <1>1, EmptySeq, ConcatEmptySeq DEF Sending, EmptyPipe
<1>3. NodeServes(n, <<>>, <<>>, host, value)
  BY <1>1, <1>2, LiveNode DEF ServeInv, Serves
<1>4. Serving(n, <<>>, <<>>, host.sinks, value)
  BY <1>1, <1>3 DEF NodeServes, Asking, Listing
<1>5. QED BY <1>1, <1>4, Nothing DEF Serving, Served, ToServe

\* When a node is ready and nothing is on its way, the sinks of its remote engine that carry
\* the name of a local source hold the present values: nothing that was updated while the
\* connection was down, being set up or breaking is forgotten.  The engines may stop and start
\* as they please, but with the same public sinks.
THEOREM SinksConverge == SinksStay => (Spec => []Converged)
<1>1. SUFFICES ASSUME SinksStay PROVE Spec => []Converged
  OBVIOUS
<1>2. Init => ServeInv
  <2>1. SUFFICES ASSUME Init PROVE ServeInv
    OBVIOUS
  <2>2. \A i \in Ids : ~Live(K, i)
    BY <2>1 DEF Init, Live, FreeNode
  <2>3. QED BY <2>1, <2>2, OrderInit DEF ServeInv, Serves
<1>3. ServeInv /\ [Next]_vars => ServeInv'
  BY <1>1, ServeStep
<1>4. QED BY <1>2, <1>3, ServeInvSuffices, PTL DEF Spec
=============================================================================
