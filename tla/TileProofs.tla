----------------------------- MODULE TileProofs -----------------------------
(***************************************************************************)
(* Theorems about the nets of a tile, for every set of pads and any number *)
(* of nets; then about tiles: loading and setting up a tile is one way of  *)
(* wiring pads among those that Nets allows, so that what is proved of the *)
(* nets holds of every tile.  Then about what runs through a tile: what    *)
(* each method does to pads and calls, why a loop of objects is cut, and   *)
(* why the values agree when a change has run its course.                  *)
(***************************************************************************)
EXTENDS Tile, FiniteSetTheorems, WellFoundedInduction, TLAPS

\* A set of naturals that is not empty has a least element.
LEMMA LeastNat == ASSUME NEW S \in SUBSET Nat, S # {}
                  PROVE  \E m \in S : \A n \in S : m <= n
<1> DEFINE R == {ss \in Nat \X Nat : ss[1] < ss[2]}
<1>1. IsWellFoundedOn(R, Nat)
  BY NatLessThanWellFounded DEF OpToRel
<1>2. \A m, n \in Nat : ~(<<n, m>> \in R) => m <= n
  OBVIOUS
<1> HIDE DEF R
<1>3. PICK m \in S : \A n \in S : ~(<<n, m>> \in R)
  BY <1>1, WFMin
<1>4. QED BY <1>2, <1>3

\* The search for a freed entry of the table finds one if there is one.
LEMMA FirstOfIn == ASSUME NEW S \in SUBSET Nat, S # {} PROVE FirstOf(S) \in S
BY LeastNat DEF FirstOf

LEMMA FreedEntry ==
  ASSUME NEW w, Sound(w), FreedEntries(w) # {}
  PROVE  /\ FirstOf(FreedEntries(w)) \in DOMAIN w.table
         /\ w.id[w.table[FirstOf(FreedEntries(w))]] = 0
         /\ w.table[FirstOf(FreedEntries(w))] \in DOMAIN w.pads
<1>1. FreedEntries(w) \in SUBSET Nat /\ w.table \in Seq(Nat)
  BY DEF FreedEntries, Sound, Wirings
<1>2. FirstOf(FreedEntries(w)) \in FreedEntries(w)
  BY <1>1, FirstOfIn
<1>3. QED BY <1>2 DEF FreedEntries, Sound, Numbered

\* What hk_net_create leaves: one more net in use, with no pad.
LEMMA CreateSound ==
  ASSUME NEW w, Sound(w)
  PROVE  LET c == NetCreate(w)
             n == NetCreated(w)
         IN /\ Sound(c) /\ c.net = w.net
            /\ n \in DOMAIN c.pads /\ c.pads[n] = <<>> /\ c.id[n] # 0
<1> DEFINE c == NetCreate(w)
           n == NetCreated(w)
           f == FirstOf(FreedEntries(w))
<1>0. /\ w \in Wirings /\ DOMAIN w.id = DOMAIN w.pads
      /\ w.pads \in Seq(Seq(Pads)) /\ w.id \in Seq(Nat) /\ w.table \in Seq(Nat)
      /\ Len(w.id) = Len(w.pads) /\ Len(w.table) \in Nat /\ Len(w.pads) \in Nat
  BY DEF Sound, Wirings
<1>1. c.net = w.net /\ c.table = Append(w.table, n)
  BY DEF NetCreate
<1>5. ASSUME n \in Nat
      PROVE  /\ DOMAIN c.table = DOMAIN w.table \cup {Len(w.table) + 1}
             /\ c.table[Len(w.table) + 1] = n
             /\ \A i \in DOMAIN w.table : c.table[i] = w.table[i]
  BY <1>0, <1>1, <1>5
<1>2. CASE FreedEntries(w) # {}
  <2>1. n = w.table[f] /\ n \in DOMAIN w.pads /\ f \in DOMAIN w.table /\ w.id[n] = 0
    BY <1>2, FreedEntry DEF NetCreated
  <2>2. c.pads = w.pads /\ c.id = [w.id EXCEPT ![n] = f]
    BY <1>2 DEF NetCreate
  <2>3. c \in Wirings /\ DOMAIN c.id = DOMAIN c.pads
    <3>1. n \in Nat /\ f \in Nat
      BY <2>1, <1>0
    <3>2. c.table \in Seq(Nat) /\ c.id \in Seq(Nat)
      BY <3>1, <2>1, <2>2, <1>0, <1>1
    <3>3. c = [net |-> c.net, pads |-> c.pads, id |-> c.id, table |-> c.table]
      BY DEF NetCreate
    <3>4. QED BY <3>2, <3>3, <2>2, <1>0, <1>1 DEF Wirings
  <2>4. Listed(c) /\ Pointed(c)
    BY <1>1, <2>2 DEF Sound, Listed, Pointed
  <2>5. w.pads[n] = <<>> /\ f # 0
    <3>1. w.pads[n] = <<>>
      BY SMTT(30), <2>1 DEF Sound, Numbered
    <3>2. f # 0
      BY SMTT(30), <2>1, <1>0
    <3>3. QED BY <3>1, <3>2
  <2>6. Numbered(c)
    <3>1. n \in Nat
      BY <2>1, <1>0
    <3>2. c.id[n] = f /\ \A m \in DOMAIN w.pads : m # n => c.id[m] = w.id[m]
      BY <2>1, <2>2, <1>0
    <3>3. QED BY <3>1, <3>2, <1>5, <2>1, <2>2, <2>5 DEF Sound, Numbered
  <2>7. QED BY <1>0, <1>1, <2>1, <2>2, <2>3, <2>4, <2>5, <2>6 DEF Sound
<1>3. CASE FreedEntries(w) = {}
  <2>1. n = Len(w.pads) + 1
    BY <1>3 DEF NetCreated
  <2>2. c.pads = Append(w.pads, <<>>) /\ c.id = Append(w.id, Len(w.table) + 1)
    BY <1>3 DEF NetCreate
  <2>3. c \in Wirings /\ DOMAIN c.id = DOMAIN c.pads
    <3>1. c.table \in Seq(Nat) /\ c.id \in Seq(Nat) /\ c.pads \in Seq(Seq(Pads))
      BY <2>1, <2>2, <1>0, <1>1
    <3>2. c = [net |-> c.net, pads |-> c.pads, id |-> c.id, table |-> c.table]
      BY DEF NetCreate
    <3>3. DOMAIN c.id = 1..(Len(w.pads) + 1) /\ DOMAIN c.pads = 1..(Len(w.pads) + 1)
      BY <2>2, <1>0
    <3>4. c.net \in [Pads -> Nat]
      BY <1>0, <1>1 DEF Wirings
    <3>5. QED BY <3>1, <3>2, <3>3, <3>4 DEF Wirings
  <2>4. /\ DOMAIN c.pads = DOMAIN w.pads \cup {n}
        /\ n \notin DOMAIN w.pads /\ c.pads[n] = <<>> /\ c.id[n] = Len(w.table) + 1
        /\ \A m \in DOMAIN w.pads : c.pads[m] = w.pads[m] /\ c.id[m] = w.id[m]
    BY SMTT(30), <2>1, <2>2, <1>0
  <2>5. Listed(c) /\ Pointed(c)
    BY <1>1, <2>4 DEF Sound, Listed, Pointed
  <2>6. Numbered(c)
    <3>1. n \in Nat /\ Len(w.table) + 1 # 0
      BY <2>1, <1>0
    <3>2. ASSUME NEW i \in DOMAIN c.table PROVE c.table[i] \in DOMAIN c.pads
      BY <3>1, <1>5, <2>4 DEF Sound, Numbered
    <3>3. ASSUME NEW m \in DOMAIN w.pads
          PROVE  IF c.id[m] = 0 THEN c.pads[m] = <<>>
                 ELSE c.id[m] \in DOMAIN c.table /\ c.table[c.id[m]] = m
      BY <3>1, <1>5, <2>4 DEF Sound, Numbered
    <3>4. c.id[n] \in DOMAIN c.table /\ c.table[c.id[n]] = n
      BY <3>1, <1>5, <2>4
    <3>5. QED BY <3>2, <3>3, <3>4, <2>4 DEF Numbered
  <2>7. QED BY <1>0, <1>1, <2>3, <2>4, <2>5, <2>6 DEF Sound
<1>4. QED BY <1>2, <1>3

\* Where the elements of a sequence are after an element, or a sequence, is added to it.
LEMMA AppendAt ==
  ASSUME NEW S, NEW s \in Seq(S), NEW e \in S
  PROVE  /\ Append(s, e) \in Seq(S)
         /\ DOMAIN Append(s, e) = DOMAIN s \cup {Len(s) + 1}
         /\ Len(s) + 1 \notin DOMAIN s /\ Append(s, e)[Len(s) + 1] = e
         /\ \A k \in DOMAIN s : Append(s, e)[k] = s[k]
OBVIOUS

LEMMA ConcatAt ==
  ASSUME NEW S, NEW a \in Seq(S), NEW b \in Seq(S)
  PROVE  /\ a \o b \in Seq(S)
         /\ \A k \in DOMAIN (a \o b) : \/ k \in DOMAIN a /\ (a \o b)[k] = a[k]
                                       \/ \E j \in DOMAIN b : k = Len(a) + j /\ (a \o b)[k] = b[j]
         /\ \A k \in DOMAIN a : k \in DOMAIN (a \o b) /\ (a \o b)[k] = a[k]
         /\ \A j \in DOMAIN b : Len(a) + j \in DOMAIN (a \o b) /\ (a \o b)[Len(a) + j] = b[j]
<1>1. /\ Len(a) \in Nat /\ Len(b) \in Nat /\ DOMAIN a = 1..Len(a) /\ DOMAIN b = 1..Len(b)
      /\ a \o b \in Seq(S) /\ Len(a \o b) = Len(a) + Len(b)
      /\ DOMAIN (a \o b) = 1..(Len(a) + Len(b))
  OBVIOUS
<1>2. ASSUME NEW k \in DOMAIN a PROVE k \in DOMAIN (a \o b) /\ (a \o b)[k] = a[k]
  BY <1>1
<1>3. ASSUME NEW j \in DOMAIN b PROVE Len(a) + j \in DOMAIN (a \o b) /\ (a \o b)[Len(a) + j] = b[j]
  BY <1>1
<1>4. ASSUME NEW k \in DOMAIN (a \o b)
      PROVE  \/ k \in DOMAIN a /\ (a \o b)[k] = a[k]
             \/ \E j \in DOMAIN b : k = Len(a) + j /\ (a \o b)[k] = b[j]
  <2>1. CASE k <= Len(a)
    BY <2>1, <1>1
  <2>2. CASE k > Len(a)
    <3>1. k - Len(a) \in DOMAIN b /\ k = Len(a) + (k - Len(a))
      BY <2>2, <1>1
    <3>2. QED BY <3>1, <1>3
  <2>3. QED BY <2>1, <2>2, <1>1
<1>5. QED BY <1>1, <1>2, <1>3, <1>4

\* A net in use takes a pad that has none.
LEMMA ListingSound ==
  ASSUME NEW w, Sound(w), NEW n \in DOMAIN w.pads, w.id[n] # 0,
         NEW p \in Pads, w.net[p] = 0
  PROVE  Sound(Listing(w, n, p))
<1> DEFINE c == Listing(w, n, p)
<1>0. /\ w \in Wirings /\ DOMAIN w.id = DOMAIN w.pads
      /\ w.net \in [Pads -> Nat] /\ w.pads \in Seq(Seq(Pads)) /\ w.pads[n] \in Seq(Pads)
      /\ n \in Nat /\ n # 0
  BY DEF Sound, Wirings
<1>1. /\ c.net = [w.net EXCEPT ![p] = n] /\ c.pads = [w.pads EXCEPT ![n] = Append(@, p)]
      /\ c.id = w.id /\ c.table = w.table
  BY DEF Listing
<1>2. /\ c.pads[n] = Append(w.pads[n], p) /\ DOMAIN c.pads = DOMAIN w.pads
      /\ \A m \in DOMAIN w.pads : m # n => c.pads[m] = w.pads[m]
      /\ c.pads \in Seq(Seq(Pads))
  <2>1. Append(w.pads[n], p) \in Seq(Pads)
    BY <1>0
  <2>2. QED BY <2>1, <1>0, <1>1
<1>3. /\ DOMAIN c.pads[n] = DOMAIN w.pads[n] \cup {Len(w.pads[n]) + 1}
      /\ Len(w.pads[n]) + 1 \notin DOMAIN w.pads[n]
      /\ c.pads[n][Len(w.pads[n]) + 1] = p
      /\ \A k \in DOMAIN w.pads[n] : c.pads[n][k] = w.pads[n][k]
  <2>1. PICK s \in Seq(Pads) : s = w.pads[n]
    BY <1>0
  <2>2. c.pads[n] = Append(s, p)
    BY <2>1, <1>2
  <2>3. /\ DOMAIN Append(s, p) = DOMAIN s \cup {Len(s) + 1}
        /\ Len(s) + 1 \notin DOMAIN s /\ Append(s, p)[Len(s) + 1] = p
        /\ \A k \in DOMAIN s : Append(s, p)[k] = s[k]
    BY AppendAt
  <2>4. QED BY <2>1, <2>2, <2>3
<1>4. /\ c.net \in [Pads -> Nat] /\ c.net[p] = n
      /\ \A q \in Pads : q # p => c.net[q] = w.net[q]
  BY <1>0, <1>1
<1>5. \A m \in DOMAIN w.pads : \A k \in DOMAIN w.pads[m] :
        w.pads[m][k] \in Pads /\ w.pads[m][k] # p /\ w.net[w.pads[m][k]] = m
  <2>1. ASSUME NEW m \in DOMAIN w.pads, NEW k \in DOMAIN w.pads[m]
        PROVE  w.pads[m][k] \in Pads /\ w.net[w.pads[m][k]] = m /\ m # 0
    <3>1. w.pads[m] \in Seq(Pads) /\ m # 0
      BY <1>0
    <3>2. QED BY <3>1 DEF Sound, Listed
  <2>2. QED BY <2>1
<1>6. c \in Wirings /\ DOMAIN c.id = DOMAIN c.pads
  <2>1. c = [net |-> c.net, pads |-> c.pads, id |-> c.id, table |-> c.table]
    BY DEF Listing
  <2>2. QED BY <2>1, <1>0, <1>1, <1>2, <1>4 DEF Wirings
<1>7. Listed(c)
  <2>1. ASSUME NEW m \in DOMAIN w.pads, m # n, NEW k \in DOMAIN w.pads[m]
        PROVE  /\ c.net[c.pads[m][k]] = m
               /\ \A l \in DOMAIN c.pads[m] : c.pads[m][l] = c.pads[m][k] => l = k
    <3>1. c.pads[m] = w.pads[m] /\ c.net[w.pads[m][k]] = w.net[w.pads[m][k]]
      BY <2>1, <1>2, <1>4, <1>5
    <3>2. QED BY <3>1, <1>5 DEF Sound, Listed
  <2>2. ASSUME NEW k \in DOMAIN c.pads[n]
        PROVE  /\ c.net[c.pads[n][k]] = n
               /\ \A l \in DOMAIN c.pads[n] : c.pads[n][l] = c.pads[n][k] => l = k
    BY <1>3, <1>4, <1>5 DEF Sound, Listed
  <2>3. QED BY <2>1, <2>2, <1>2 DEF Listed
<1>8. Pointed(c)
  <2>1. ASSUME NEW q \in Pads, q # p, c.net[q] # 0
        PROVE  c.net[q] \in DOMAIN c.pads /\ \E k \in DOMAIN c.pads[c.net[q]] : c.pads[c.net[q]][k] = q
    <3>1. w.net[q] # 0 /\ c.net[q] = w.net[q]
      BY <2>1, <1>4
    <3>2. w.net[q] \in DOMAIN w.pads
      BY <3>1 DEF Sound, Pointed
    <3>3. PICK k \in DOMAIN w.pads[w.net[q]] : w.pads[w.net[q]][k] = q
      BY <3>1 DEF Sound, Pointed
    <3>4. CASE w.net[q] = n
      <4>1. k \in DOMAIN c.pads[n] /\ c.pads[n][k] = q
        BY <3>3, <3>4, <1>3
      <4>2. QED BY <3>1, <3>2, <3>4, <4>1, <1>2
    <3>5. CASE w.net[q] # n
      <4>1. c.pads[w.net[q]] = w.pads[w.net[q]]
        BY <3>2, <3>5, <1>2
      <4>2. QED BY <3>1, <3>2, <3>3, <4>1, <1>2
    <3>6. QED BY <3>4, <3>5
  <2>2. c.net[p] \in DOMAIN c.pads /\ \E k \in DOMAIN c.pads[c.net[p]] : c.pads[c.net[p]][k] = p
    BY <1>2, <1>3, <1>4
  <2>3. QED BY <2>1, <2>2 DEF Pointed
<1>9. Numbered(c)
  BY SMTT(30), <1>1, <1>2 DEF Sound, Numbered
<1>10. QED BY <1>6, <1>7, <1>8, <1>9 DEF Sound

LEMMA ConnectSound ==
  ASSUME NEW w, Sound(w), NEW n \in DOMAIN w.pads, w.id[n] # 0, NEW p \in Pads
  PROVE  Sound(NetConnect(w, n, p)) /\ NetConnect(w, n, p).id = w.id
         /\ DOMAIN NetConnect(w, n, p).pads = DOMAIN w.pads
<1>1. CASE w.net[p] = 0
  <2>1. NetConnect(w, n, p) = Listing(w, n, p)
    BY <1>1 DEF NetConnect
  <2>2. Listing(w, n, p).id = w.id /\ DOMAIN Listing(w, n, p).pads = DOMAIN w.pads
    BY DEF Listing
  <2>3. QED BY <1>1, <2>1, <2>2, ListingSound
<1>2. CASE w.net[p] # 0
  BY <1>2 DEF NetConnect
<1>3. QED BY <1>1, <1>2

\* Two nets in use become one.
LEMMA MergeSound ==
  ASSUME NEW w, Sound(w), NEW n \in DOMAIN w.pads, NEW m \in DOMAIN w.pads,
         w.id[n] # 0
  PROVE  Sound(NetMerge(w, n, m))
<1> DEFINE c == NetMerge(w, n, m)
<1>0. /\ w \in Wirings /\ DOMAIN w.id = DOMAIN w.pads
      /\ w.net \in [Pads -> Nat] /\ w.pads \in Seq(Seq(Pads))
      /\ w.id \in Seq(Nat) /\ n \in Nat /\ m \in Nat /\ n # 0 /\ m # 0
  BY DEF Sound, Wirings
<1>1. PICK a, b \in Seq(Pads) : a = w.pads[n] /\ b = w.pads[m]
  BY <1>0
<1>a. CASE n = m
  BY <1>a DEF NetMerge
<1>b. CASE n # m
  <2>1. /\ c.net = [p \in Pads |-> IF \E k \in DOMAIN b : b[k] = p THEN n ELSE w.net[p]]
        /\ c.pads = [w.pads EXCEPT ![n] = a \o b, ![m] = <<>>]
        /\ c.id = [w.id EXCEPT ![m] = 0] /\ c.table = w.table
    BY <1>b, <1>1 DEF NetMerge
  <2>2. /\ c.pads[n] = a \o b /\ c.pads[m] = <<>> /\ DOMAIN c.pads = DOMAIN w.pads
        /\ \A x \in DOMAIN w.pads : x \notin {n, m} => c.pads[x] = w.pads[x]
        /\ c.pads \in Seq(Seq(Pads))
    <3>1. PICK ab \in Seq(Pads) : ab = a \o b
      BY ConcatAt
    <3>2. <<>> \in Seq(Pads)
      OBVIOUS
    <3>3. c.pads = [w.pads EXCEPT ![n] = ab, ![m] = <<>>]
      BY <2>1, <3>1
    <3>4. QED BY SMTT(30), <3>1, <3>2, <3>3, <1>0, <1>b
  <2>3. ASSUME NEW x \in DOMAIN w.pads, NEW k \in DOMAIN w.pads[x]
        PROVE  /\ w.pads[x][k] \in Pads /\ w.net[w.pads[x][k]] = x
               /\ \A l \in DOMAIN w.pads[x] : w.pads[x][l] = w.pads[x][k] => l = k
    <3>1. w.pads[x] \in Seq(Pads)
      BY <1>0
    <3>2. QED BY <3>1 DEF Sound, Listed
  <2>4. ASSUME NEW p \in Pads
        PROVE  /\ (\E k \in DOMAIN b : b[k] = p) <=> w.net[p] = m
               /\ c.net[p] = IF w.net[p] = m THEN n ELSE w.net[p]
    <3>1. (\E k \in DOMAIN b : b[k] = p) => w.net[p] = m
      BY <2>3, <1>1
    <3>2. w.net[p] = m => \E k \in DOMAIN b : b[k] = p
      BY <1>0, <1>1 DEF Sound, Pointed
    <3>3. QED BY <3>1, <3>2, <2>1
  <2>5. /\ \A k \in DOMAIN (a \o b) : \/ k \in DOMAIN a /\ (a \o b)[k] = a[k]
                                      \/ \E j \in DOMAIN b : k = Len(a) + j /\ (a \o b)[k] = b[j]
        /\ \A k \in DOMAIN a : k \in DOMAIN (a \o b) /\ (a \o b)[k] = a[k]
        /\ \A j \in DOMAIN b : Len(a) + j \in DOMAIN (a \o b) /\ (a \o b)[Len(a) + j] = b[j]
    BY ConcatAt
  <2>6. c \in Wirings /\ DOMAIN c.id = DOMAIN c.pads
    <3>1. c = [net |-> c.net, pads |-> c.pads, id |-> c.id, table |-> c.table]
      BY <1>b DEF NetMerge
    <3>2. c.net \in [Pads -> Nat]
      BY <1>0, <2>1
    <3>3. c.id \in Seq(Nat) /\ DOMAIN c.id = DOMAIN w.id
      BY <1>0, <2>1
    <3>4. QED BY <3>1, <3>2, <3>3, <2>1, <2>2, <1>0 DEF Wirings
  <2>7. Listed(c)
    <3>1. ASSUME NEW x \in DOMAIN w.pads, x \notin {n, m}, NEW k \in DOMAIN c.pads[x]
          PROVE  /\ c.net[c.pads[x][k]] = x
                 /\ \A l \in DOMAIN c.pads[x] : c.pads[x][l] = c.pads[x][k] => l = k
      <4>1. c.pads[x] = w.pads[x]
        BY <3>1, <2>2
      <4>2. c.net[w.pads[x][k]] = x
        BY <4>1, <3>1, <2>3, <2>4
      <4>3. QED BY <4>1, <4>2, <2>3
    <3>2. ASSUME NEW k \in DOMAIN a PROVE a[k] \in Pads /\ w.net[a[k]] = n
      BY <2>3, <1>1
    <3>3. ASSUME NEW j \in DOMAIN b PROVE b[j] \in Pads /\ w.net[b[j]] = m
      BY <2>3, <1>1
    <3>4. ASSUME NEW k \in DOMAIN (a \o b) PROVE c.net[(a \o b)[k]] = n
      BY <3>2, <3>3, <2>4, <2>5, <1>b
    <3>6. ASSUME NEW k \in DOMAIN (a \o b), NEW l \in DOMAIN (a \o b), (a \o b)[l] = (a \o b)[k]
          PROVE  l = k
      <4>1. /\ \A i, j \in DOMAIN a : a[i] = a[j] => i = j
            /\ \A i, j \in DOMAIN b : b[i] = b[j] => i = j
        BY <2>3, <1>1
      <4>2. \A i \in DOMAIN a : \A j \in DOMAIN b : a[i] # b[j]
        BY <3>2, <3>3, <1>b
      <4>3. CASE k \in DOMAIN a /\ (a \o b)[k] = a[k]
        BY <4>1, <4>2, <4>3, <3>6, <2>5
      <4>4. CASE \E j \in DOMAIN b : k = Len(a) + j /\ (a \o b)[k] = b[j]
        <5>1. PICK i \in DOMAIN b : k = Len(a) + i /\ (a \o b)[k] = b[i]
          BY <4>4
        <5>2. PICK j \in DOMAIN b : l = Len(a) + j /\ (a \o b)[l] = b[j]
          BY <5>1, <4>2, <3>6, <2>5
        <5>3. i = j
          BY <5>1, <5>2, <4>1, <3>6
        <5>4. QED BY <5>1, <5>2, <5>3
      <4>5. QED BY <4>3, <4>4, <2>5
    <3>5. QED
      <4>1. \A k \in DOMAIN c.pads[n] : c.net[c.pads[n][k]] = n
        BY <3>4, <2>2
      <4>2. \A k, l \in DOMAIN c.pads[n] : c.pads[n][l] = c.pads[n][k] => l = k
        BY <3>6, <2>2
      <4>3. DOMAIN c.pads[m] = {}
        BY <2>2
      <4>4. QED BY <3>1, <4>1, <4>2, <4>3, <2>2 DEF Listed
  <2>8. Pointed(c)
    <3>1. SUFFICES ASSUME NEW p \in Pads, c.net[p] # 0
                   PROVE  /\ c.net[p] \in DOMAIN c.pads
                          /\ \E k \in DOMAIN c.pads[c.net[p]] : c.pads[c.net[p]][k] = p
      BY DEF Pointed
    <3>2. w.net[p] # 0
      BY <3>1, <2>4, <1>0
    <3>3. PICK k \in DOMAIN w.pads[w.net[p]] : w.pads[w.net[p]][k] = p
      BY <3>2 DEF Sound, Pointed
    <3>4. w.net[p] \in DOMAIN w.pads
      BY <3>2 DEF Sound, Pointed
    <3>5. CASE w.net[p] = m
      <4>1. c.net[p] = n /\ k \in DOMAIN b /\ b[k] = p
        BY <3>3, <3>5, <2>4, <1>1
      <4>2. Len(a) + k \in DOMAIN (a \o b) /\ (a \o b)[Len(a) + k] = p
        BY <4>1, <2>5
      <4>3. QED BY <4>1, <4>2, <2>2
    <3>6. CASE w.net[p] = n
      <4>1. c.net[p] = n /\ k \in DOMAIN (a \o b) /\ (a \o b)[k] = p
        BY <3>3, <3>6, <2>4, <2>5, <1>1, <1>b
      <4>2. QED BY <4>1, <2>2
    <3>7. CASE w.net[p] \notin {n, m}
      <4>1. c.net[p] = w.net[p]
        BY <3>2, <3>7, <2>4
      <4>2. c.pads[w.net[p]] = w.pads[w.net[p]] /\ w.net[p] \in DOMAIN c.pads
        BY <3>4, <3>7, <2>2
      <4>3. QED BY <3>3, <4>1, <4>2
    <3>8. QED BY <3>5, <3>6, <3>7
  <2>9. Numbered(c)
    <3>1. c.id[m] = 0 /\ \A x \in DOMAIN w.id : x # m => c.id[x] = w.id[x]
      BY <2>1, <1>0
    <3>2. ASSUME NEW x \in DOMAIN c.pads
          PROVE  IF c.id[x] = 0 THEN c.pads[x] = <<>>
                 ELSE c.id[x] \in DOMAIN c.table /\ c.table[c.id[x]] = x
      <4>1. CASE x = m
        BY <4>1, <3>1, <2>2
      <4>2. CASE x = n
        BY <4>2, <3>1, <2>1, <2>2, <1>0, <1>b DEF Sound, Numbered
      <4>3. CASE x \notin {n, m}
        <5>1. x \in DOMAIN w.pads /\ c.id[x] = w.id[x] /\ c.pads[x] = w.pads[x]
          BY <4>3, <3>1, <2>2, <1>0
        <5>2. QED BY <5>1, <2>1 DEF Sound, Numbered
      <4>4. QED BY <4>1, <4>2, <4>3
    <3>3. QED BY <3>2, <2>1, <2>2 DEF Sound, Numbered
  <2>10. QED BY <2>6, <2>7, <2>8, <2>9 DEF Sound
<1>2. QED BY <1>a, <1>b

\* A pad with a net has one that is in use.
LEMMA NetInUse ==
  ASSUME NEW w, Sound(w), NEW p \in Pads, w.net[p] # 0
  PROVE  w.net[p] \in DOMAIN w.pads /\ w.id[w.net[p]] # 0 /\ w.net[p] \in Nat
<1>1. w.net[p] \in DOMAIN w.pads /\ \E k \in DOMAIN w.pads[w.net[p]] : w.pads[w.net[p]][k] = p
  BY DEF Sound, Pointed
<1>2. w.pads[w.net[p]] # <<>>
  BY <1>1
<1>3. w.net[p] \in Nat
  BY DEF Sound, Wirings
<1>4. QED BY <1>1, <1>2, <1>3 DEF Sound, Numbered

LEMMA ObjNetSound ==
  ASSUME NEW w, Sound(w), NEW p \in Pads, NEW q \in Pads
  PROVE  Sound(ObjNet(w, p, q))
<1>1. CASE w.net[p] # 0 /\ w.net[q] # 0
  <2>1. ObjNet(w, p, q) = NetMerge(w, w.net[p], w.net[q])
    BY <1>1 DEF ObjNet
  <2>2. QED BY <1>1, <2>1, NetInUse, MergeSound
<1>2. CASE w.net[p] # 0 /\ w.net[q] = 0
  <2>1. ObjNet(w, p, q) = NetConnect(w, w.net[p], q)
    BY <1>2 DEF ObjNet
  <2>2. QED BY <1>2, <2>1, NetInUse, ConnectSound
<1>3. CASE w.net[p] = 0 /\ w.net[q] # 0
  <2>1. ObjNet(w, p, q) = NetConnect(w, w.net[q], p)
    BY <1>3 DEF ObjNet
  <2>2. QED BY <1>3, <2>1, NetInUse, ConnectSound
<1>4. CASE w.net[p] = 0 /\ w.net[q] = 0
  <2>1. PICK c, n : c = NetCreate(w) /\ n = NetCreated(w)
    OBVIOUS
  <2>2. ObjNet(w, p, q) = NetConnect(NetConnect(c, n, p), n, q)
    BY <1>4, <2>1 DEF ObjNet
  <2>3. Sound(c) /\ n \in DOMAIN c.pads /\ c.id[n] # 0
    BY <2>1, CreateSound
  <2>4. PICK d : d = NetConnect(c, n, p)
    OBVIOUS
  <2>5. Sound(d) /\ n \in DOMAIN d.pads /\ d.id[n] # 0
    BY <2>3, <2>4, ConnectSound
  <2>6. Sound(NetConnect(d, n, q))
    BY <2>5, ConnectSound
  <2>7. QED BY <2>2, <2>4, <2>6
<1>5. QED BY <1>1, <1>2, <1>3, <1>4

LEMMA WiringAtInit == NetsInit => WiringOK
<1>1. NoWiring \in Wirings /\ DOMAIN NoWiring.id = DOMAIN NoWiring.pads
  BY DEF NoWiring, Wirings
<1>2. /\ DOMAIN NoWiring.pads = {} /\ DOMAIN NoWiring.table = {}
      /\ \A p \in Pads : NoWiring.net[p] = 0
  BY DEF NoWiring
<1>3. Sound(NoWiring)
  BY <1>1, <1>2 DEF Sound, Listed, Pointed, Numbered
<1>4. QED BY <1>3 DEF NetsInit, WiringOK

LEMMA WiringStep == WiringOK /\ [NetsNext]_wiring => WiringOK'
<1>1. SUFFICES ASSUME Sound(wiring), [NetsNext]_wiring
               PROVE  Sound(wiring')
  BY DEF WiringOK
<1>2. CASE Create
  BY <1>1, <1>2, CreateSound DEF Create
<1>3. ASSUME NEW p \in Pads, NEW n \in DOMAIN wiring.id, Attach(n, p)
      PROVE  Sound(wiring')
  <2>1. n \in DOMAIN wiring.pads
    BY <1>1 DEF Sound
  <2>2. QED BY <1>1, <1>3, <2>1, ConnectSound DEF Attach
<1>4. ASSUME NEW p \in Pads, NEW q \in Pads, Refer(p, q)
      PROVE  Sound(wiring')
  BY <1>1, <1>4, ObjNetSound DEF Refer
<1>5. CASE UNCHANGED wiring
  BY <1>1, <1>5
<1>6. QED BY <1>1, <1>2, <1>3, <1>4, <1>5 DEF NetsNext

\* However a tile creates, merges and recycles its nets (hk_net_create, hk_net_connect,
\* hk_net_merge, hk_obj_net), pads and nets agree on who is wired to whom.
THEOREM WiringSound == NetsSpec => []WiringOK
BY WiringAtInit, WiringStep, PTL DEF NetsSpec
-----------------------------------------------------------------------------
(* The nets keep the promise of PadGroups                                  *)

\* The groups that the pointers f of the pads make.
GroupsBy(f) == {{p \in Pads : f[p] = f[q]} : q \in {r \in Pads : f[r] # 0}}

\* From the pointers f to the pointers g is a step of PadGroups, or none.
Gathers(f, g) == \/ GroupsBy(g) = GroupsBy(f)
                 \/ \E G \in GroupsBy(g) :
                      /\ G \subseteq Pads
                      /\ \A h \in GroupsBy(f) : h \cap G = {} \/ h \subseteq G
                      /\ GroupsBy(g) = {h \in GroupsBy(f) : h \cap G = {}} \cup {G}

\* Pointing the pads of whole groups, and pads without a net, to one net n that no other
\* pad points to, gathers them.
LEMMA Gathered ==
  ASSUME NEW f \in [Pads -> Nat], NEW g \in [Pads -> Nat], NEW n \in Nat, n # 0,
         NEW G, G = {p \in Pads : g[p] = n}, G # {},
         \A p \in Pads : p \notin G => g[p] = f[p],
         \A p \in G : \A q \in Pads : f[p] # 0 /\ f[q] = f[p] => q \in G
  PROVE  Gathers(f, g)
<1>1. G \in GroupsBy(g)
  <2>1. PICK p \in G : TRUE
    OBVIOUS
  <2>2. p \in Pads /\ g[p] = n
    OBVIOUS
  <2>3. G = {q \in Pads : g[q] = g[p]}
    BY <2>2
  <2>4. QED BY <2>2, <2>3 DEF GroupsBy
<1>2. \A h \in GroupsBy(f) : h \cap G = {} \/ h \subseteq G
  BY DEF GroupsBy
<1>3. ASSUME NEW h \in GroupsBy(f), h \cap G = {} PROVE h \in GroupsBy(g)
  <2>1. PICK q \in Pads : f[q] # 0 /\ h = {p \in Pads : f[p] = f[q]}
    BY DEF GroupsBy
  <2>2. q \notin G /\ g[q] = f[q]
    BY <2>1, <1>3
  <2>3. \A p \in Pads : g[p] = g[q] <=> f[p] = f[q]
    BY <2>1, <2>2, <1>3
  <2>4. QED BY <2>1, <2>2, <2>3 DEF GroupsBy
<1>4. ASSUME NEW h \in GroupsBy(g), h # G PROVE h \in GroupsBy(f) /\ h \cap G = {}
  <2>1. PICK q \in Pads : g[q] # 0 /\ h = {p \in Pads : g[p] = g[q]}
    BY DEF GroupsBy
  <2>2. q \notin G /\ g[q] = f[q] /\ g[q] # n
    BY <2>1, <1>4
  <2>3. h \cap G = {}
    BY <2>1, <2>2
  <2>4. ASSUME NEW p \in Pads PROVE g[p] = g[q] <=> f[p] = f[q]
    <3>1. CASE p \notin G
      BY <2>2, <3>1
    <3>2. CASE p \in G
      <4>1. g[p] = n /\ f[q] # 0
        BY <3>2, <2>1, <2>2
      <4>2. f[q] # f[p]
        BY <3>2, <4>1, <2>2
      <4>3. QED BY <4>1, <4>2, <2>2
    <3>3. QED BY <3>1, <3>2
  <2>5. h = {p \in Pads : f[p] = f[q]}
    BY <2>1, <2>4
  <2>6. QED BY <2>1, <2>2, <2>3, <2>5 DEF GroupsBy
<1>5. GroupsBy(g) \subseteq {h \in GroupsBy(f) : h \cap G = {}} \cup {G}
  BY <1>4
<1>6. {h \in GroupsBy(f) : h \cap G = {}} \cup {G} \subseteq GroupsBy(g)
  BY <1>1, <1>3
<1>7. G \subseteq Pads
  OBVIOUS
<1>8. GroupsBy(g) = {h \in GroupsBy(f) : h \cap G = {}} \cup {G}
  BY <1>5, <1>6
<1>9. QED BY <1>1, <1>2, <1>7, <1>8 DEF Gathers

LEMMA ConnectGathers ==
  ASSUME NEW w, Sound(w), NEW n \in DOMAIN w.pads, NEW p \in Pads
  PROVE  Gathers(w.net, NetConnect(w, n, p).net)
<1>1. w.net \in [Pads -> Nat] /\ n \in Nat /\ n # 0
  BY DEF Sound, Wirings
<1>2. CASE w.net[p] # 0
  BY <1>2 DEF NetConnect, Gathers
<1>3. CASE w.net[p] = 0
  <2>1. PICK g \in [Pads -> Nat] : g = [w.net EXCEPT ![p] = n]
    BY <1>1
  <2>2. NetConnect(w, n, p).net = g
    BY <1>3, <2>1 DEF NetConnect, Listing
  <2>3. PICK G : G = {q \in Pads : g[q] = n}
    OBVIOUS
  <2>4. /\ p \in G /\ \A q \in Pads : q # p => (g[q] = w.net[q] /\ (q \in G <=> w.net[q] = n))
    BY <1>1, <2>1, <2>3
  <2>5. \A q \in Pads : q \notin G => g[q] = w.net[q]
    BY <2>4
  <2>6. \A q \in G : \A r \in Pads : w.net[q] # 0 /\ w.net[r] = w.net[q] => r \in G
    BY <2>3, <2>4, <1>3
  <2>7. QED BY <1>1, <2>1, <2>2, <2>3, <2>4, <2>5, <2>6, Gathered
<1>4. QED BY <1>2, <1>3

LEMMA MergeGathers ==
  ASSUME NEW w, Sound(w), NEW n \in DOMAIN w.pads, NEW m \in DOMAIN w.pads, w.id[n] # 0,
         NEW p \in Pads, w.net[p] = n
  PROVE  Gathers(w.net, NetMerge(w, n, m).net)
<1>1. w.net \in [Pads -> Nat] /\ n \in Nat /\ n # 0 /\ m \in Nat /\ m # 0
  BY DEF Sound, Wirings
<1>2. CASE n = m
  BY <1>2 DEF NetMerge, Gathers
<1>3. CASE n # m
  <2>1. PICK g : g = NetMerge(w, n, m).net
    OBVIOUS
  <2>2. g = [q \in Pads |-> IF \E k \in DOMAIN w.pads[m] : w.pads[m][k] = q THEN n ELSE w.net[q]]
    BY <1>3, <2>1 DEF NetMerge
  <2>3. ASSUME NEW q \in Pads
        PROVE  (\E k \in DOMAIN w.pads[m] : w.pads[m][k] = q) <=> w.net[q] = m
    BY <1>1 DEF Sound, Listed, Pointed
  <2>4. g \in [Pads -> Nat] /\ \A q \in Pads : g[q] = IF w.net[q] = m THEN n ELSE w.net[q]
    BY <1>1, <2>2, <2>3
  <2>5. PICK G : G = {q \in Pads : g[q] = n}
    OBVIOUS
  <2>6. \A q \in Pads : q \in G <=> w.net[q] \in {n, m}
    BY <2>4, <2>5
  <2>7. p \in G
    BY <2>6
  <2>8. PICK f \in [Pads -> Nat] : f = w.net
    BY <1>1
  <2>9. \A q \in Pads : q \notin G => g[q] = f[q]
    BY <2>4, <2>6, <2>8
  <2>10. \A q \in G : \A r \in Pads : f[q] # 0 /\ f[r] = f[q] => r \in G
    BY <2>5, <2>6, <2>8
  <2>11. Gathers(f, g)
    BY <1>1, <2>4, <2>5, <2>7, <2>9, <2>10, Gathered
  <2>12. QED BY <2>1, <2>8, <2>11
<1>4. QED BY <1>2, <1>3

LEMMA ObjNetGathers ==
  ASSUME NEW w, Sound(w), NEW p \in Pads, NEW q \in Pads
  PROVE  Gathers(w.net, ObjNet(w, p, q).net)
<1>1. CASE w.net[p] # 0 /\ w.net[q] # 0
  <2>1. ObjNet(w, p, q) = NetMerge(w, w.net[p], w.net[q])
    BY <1>1 DEF ObjNet
  <2>2. QED BY <1>1, <2>1, NetInUse, MergeGathers
<1>2. CASE w.net[p] # 0 /\ w.net[q] = 0
  <2>1. ObjNet(w, p, q) = NetConnect(w, w.net[p], q)
    BY <1>2 DEF ObjNet
  <2>2. QED BY <1>2, <2>1, NetInUse, ConnectGathers
<1>3. CASE w.net[p] = 0 /\ w.net[q] # 0
  <2>1. ObjNet(w, p, q) = NetConnect(w, w.net[q], p)
    BY <1>3 DEF ObjNet
  <2>2. QED BY <1>3, <2>1, NetInUse, ConnectGathers
<1>4. CASE w.net[p] = 0 /\ w.net[q] = 0
  <2>1. PICK c, n : c = NetCreate(w) /\ n = NetCreated(w)
    OBVIOUS
  <2>2. ObjNet(w, p, q) = NetConnect(NetConnect(c, n, p), n, q)
    BY <1>4, <2>1 DEF ObjNet
  <2>3. Sound(c) /\ c.net = w.net /\ n \in DOMAIN c.pads /\ c.pads[n] = <<>>
    BY <2>1, CreateSound
  <2>4. w.net \in [Pads -> Nat] /\ n \in Nat /\ n # 0
    BY SMTT(30), <2>3 DEF Sound, Wirings
  <2>5. \A r \in Pads : w.net[r] # n
    <3>1. ASSUME NEW r \in Pads, w.net[r] = n PROVE FALSE
      <4>1. \E k \in DOMAIN c.pads[n] : c.pads[n][k] = r
        BY <3>1, <2>3, <2>4 DEF Sound, Pointed
      <4>2. QED BY <4>1, <2>3
    <3>2. QED BY <3>1
  <2>6. PICK g \in [Pads -> Nat] : g = [r \in Pads |-> IF r \in {p, q} THEN n ELSE w.net[r]]
    BY <2>4
  <2>7. NetConnect(c, n, p).net = [w.net EXCEPT ![p] = n]
    BY <1>4, <2>3 DEF NetConnect, Listing
  <2>8. NetConnect(NetConnect(c, n, p), n, q).net = g
    <3>1. PICK d : d = NetConnect(c, n, p)
      OBVIOUS
    <3>2. CASE p = q
      <4>1. d.net[q] # 0
        BY <3>1, <3>2, <2>4, <2>7
      <4>2. NetConnect(d, n, q) = d
        BY <4>1 DEF NetConnect
      <4>3. [w.net EXCEPT ![p] = n] = g
        BY <3>2, <2>4, <2>6
      <4>4. QED BY <4>2, <4>3, <3>1, <2>7
    <3>3. CASE p # q
      <4>1. d.net = [w.net EXCEPT ![p] = n] /\ d.net[q] = 0
        BY <3>1, <3>3, <1>4, <2>4, <2>7
      <4>2. NetConnect(d, n, q).net = [d.net EXCEPT ![q] = n]
        BY <4>1 DEF NetConnect, Listing
      <4>3. [[w.net EXCEPT ![p] = n] EXCEPT ![q] = n] = g
        BY <3>3, <2>4, <2>6
      <4>4. QED BY <4>1, <4>2, <4>3, <3>1
    <3>4. QED BY <3>2, <3>3
  <2>9. PICK G : G = {r \in Pads : g[r] = n}
    OBVIOUS
  <2>10. \A r \in Pads : r \in G <=> r \in {p, q}
    BY <2>5, <2>6, <2>9
  <2>11. p \in G /\ \A r \in G : w.net[r] = 0
    BY <2>9, <2>10, <1>4
  <2>12. \A r \in Pads : r \notin G => g[r] = w.net[r]
    BY <2>6, <2>10
  <2>13. PICK f \in [Pads -> Nat] : f = w.net
    BY <2>4
  <2>14. \A r \in G : \A s \in Pads : f[r] # 0 /\ f[s] = f[r] => s \in G
    BY <2>11, <2>13
  <2>15. \A r \in Pads : r \notin G => g[r] = f[r]
    BY <2>12, <2>13
  <2>16. Gathers(f, g)
    <3>1. G # {}
      BY <2>11
    <3>2. QED BY <2>4, <2>9, <2>14, <2>15, <3>1, Gathered
  <2>17. ObjNet(w, p, q).net = g
    BY <2>1, <2>2, <2>8
  <2>18. QED BY <2>13, <2>16, <2>17
<1>5. QED BY <1>1, <1>2, <1>3, <1>4

\* The nets of mod.c do what PadGroups says: whatever is created, merged and recycled, the
\* groups of pads only grow together.
THEOREM NetsImplementGroups == NetsSpec => GroupsKept
<1> DEFINE groups == {{p \in Pads : wiring.net[p] = wiring.net[q]} :
                         q \in {r \in Pads : wiring.net[r] # 0}}
<1>1. groups = GroupsBy(wiring.net) /\ groups' = GroupsBy(wiring'.net)
  BY DEF GroupsBy
<1>2. NetsInit => Groups!Init
  <2>1. SUFFICES ASSUME NetsInit PROVE groups = {}
    BY DEF Groups!Init
  <2>2. \A p \in Pads : wiring.net[p] = 0
    BY <2>1 DEF NetsInit, NoWiring
  <2>3. QED BY <2>2
<1>3. WiringOK /\ [NetsNext]_wiring => [Groups!Next]_groups
  <2>1. SUFFICES ASSUME Sound(wiring), [NetsNext]_wiring
                 PROVE  Gathers(wiring.net, wiring'.net)
    BY <1>1 DEF WiringOK, Gathers, Groups!Next, Groups!Gather
  <2>2. CASE Create
    <3>1. wiring'.net = wiring.net
      BY <2>1, <2>2, CreateSound DEF Create
    <3>2. QED BY <3>1 DEF Gathers
  <2>3. ASSUME NEW p \in Pads, NEW n \in DOMAIN wiring.id, Attach(n, p)
        PROVE  Gathers(wiring.net, wiring'.net)
    <3>1. n \in DOMAIN wiring.pads
      BY <2>1 DEF Sound
    <3>2. QED BY <2>1, <2>3, <3>1, ConnectGathers DEF Attach
  <2>4. ASSUME NEW p \in Pads, NEW q \in Pads, Refer(p, q)
        PROVE  Gathers(wiring.net, wiring'.net)
    BY <2>1, <2>4, ObjNetGathers DEF Refer
  <2>5. CASE UNCHANGED wiring
    BY <2>5 DEF Gathers
  <2>6. QED BY <2>1, <2>2, <2>3, <2>4, <2>5 DEF NetsNext
<1>4. QED BY <1>2, <1>3, WiringSound, PTL DEF NetsSpec, GroupsKept, Groups!Spec

\* What the abstract specification is worth: its groups are disjoint ...
LEMMA GroupsDisjoint == Groups!Spec => []Groups!Disjoint
<1> DEFINE groups == {{p \in Pads : wiring.net[p] = wiring.net[q]} :
                         q \in {r \in Pads : wiring.net[r] # 0}}
<1>1. Groups!Init => Groups!Disjoint
  BY DEF Groups!Init, Groups!Disjoint
<1>2. ASSUME NEW old, NEW new, NEW g, g \subseteq Pads,
             old \subseteq SUBSET Pads, \A h, k \in old : h \cap k # {} => h = k,
             \A h \in old : h \cap g = {} \/ h \subseteq g,
             new = {h \in old : h \cap g = {}} \cup {g}
      PROVE  new \subseteq SUBSET Pads /\ \A h, k \in new : h \cap k # {} => h = k
  BY <1>2
<1>3. Groups!Disjoint /\ [Groups!Next]_groups => Groups!Disjoint'
  <2>1. SUFFICES ASSUME Groups!Disjoint, [Groups!Next]_groups PROVE Groups!Disjoint'
    OBVIOUS
  <2>2. PICK old, new : old = groups /\ new = groups'
    OBVIOUS
  <2>3. old \subseteq SUBSET Pads /\ \A h, k \in old : h \cap k # {} => h = k
    BY <2>1, <2>2 DEF Groups!Disjoint
  <2>4. CASE new = old
    BY <2>2, <2>3, <2>4 DEF Groups!Disjoint
  <2>5. CASE \E g : /\ g \subseteq Pads /\ \A h \in old : h \cap g = {} \/ h \subseteq g
                   /\ new = {h \in old : h \cap g = {}} \cup {g}
    <3>1. new \subseteq SUBSET Pads /\ \A h, k \in new : h \cap k # {} => h = k
      BY <1>2, <2>3, <2>5
    <3>2. QED BY <2>2, <3>1 DEF Groups!Disjoint
  <2>6. QED BY <2>1, <2>2, <2>4, <2>5 DEF Groups!Next, Groups!Gather
<1>4. QED BY <1>1, <1>3, PTL DEF Groups!Spec

\* ... and only grow together.
LEMMA GroupsNeverParted == Groups!Spec => Groups!NeverParted
<1> DEFINE groups == {{p \in Pads : wiring.net[p] = wiring.net[q]} :
                         q \in {r \in Pads : wiring.net[r] # 0}}
<1>1. ASSUME NEW old, NEW new, NEW g, \A h \in old : h \cap g = {} \/ h \subseteq g,
             new = {h \in old : h \cap g = {}} \cup {g}
      PROVE  \A h \in old : \E k \in new : h \subseteq k
  BY <1>1
<1>2. [Groups!Next]_groups => [\A g \in groups : \E h \in groups' : g \subseteq h]_groups
  <2>1. SUFFICES ASSUME Groups!Next PROVE \A g \in groups : \E h \in groups' : g \subseteq h
    OBVIOUS
  <2>2. PICK old, new : old = groups /\ new = groups'
    OBVIOUS
  <2>3. \E g : /\ \A h \in old : h \cap g = {} \/ h \subseteq g
               /\ new = {h \in old : h \cap g = {}} \cup {g}
    BY <2>1, <2>2 DEF Groups!Next, Groups!Gather
  <2>4. \A h \in old : \E k \in new : h \subseteq k
    BY <1>1, <2>3
  <2>5. QED BY <2>2, <2>4
<1>3. QED BY <1>2, PTL DEF Groups!Spec, Groups!NeverParted
-----------------------------------------------------------------------------
(* Tiles                                                                   *)

\* A [nets] line attaches its pads to the last net of the table.
LastNet(w) == w.table[Len(w.table)]

LineInv == (at.phase = "load" /\ at.pos # 0) =>
             Len(wiring.table) # 0 /\ LastNet(wiring) \in DOMAIN wiring.id /\ wiring.id[LastNet(wiring)] # 0

AtOK == at \in [phase : {"load", "setup", "start", "run"}, line : Nat, pos : Nat]

LoadInv == WiringOK /\ tile \in Tiles /\ AtOK /\ LineInv

LEMMA CreatePushes ==
  ASSUME NEW w, Sound(w)
  PROVE  LET c == NetCreate(w) IN
           Len(c.table) # 0 /\ LastNet(c) \in DOMAIN c.id /\ c.id[LastNet(c)] # 0
<1>1. PICK c, n : c = NetCreate(w) /\ n = NetCreated(w)
  OBVIOUS
<1>2. Sound(c) /\ n \in DOMAIN c.pads /\ c.id[n] # 0
  BY <1>1, CreateSound
<1>3. c.table = Append(w.table, n) /\ w.table \in Seq(Nat)
  BY <1>1 DEF NetCreate, Sound, Wirings
<1>4. n \in Nat /\ DOMAIN c.id = DOMAIN c.pads
  BY <1>2 DEF Sound, Wirings
<1>5. Len(c.table) # 0 /\ c.table[Len(c.table)] = n
  BY <1>3, <1>4
<1>6. QED BY <1>1, <1>2, <1>4, <1>5 DEF LastNet

\* Connecting a pad leaves the table and the ids alone.
LEMMA ConnectKeeps ==
  ASSUME NEW w, NEW n, NEW p
  PROVE  NetConnect(w, n, p).table = w.table /\ NetConnect(w, n, p).id = w.id
BY DEF NetConnect, Listing

\* The assumption, for the tile loaded
LEMMA TileIs ==
  ASSUME tile \in Tiles
  PROVE  /\ \A o \in DOMAIN tile.class : /\ tile.class[o] \in Classes
                                         /\ \A name \in PadNames(tile.class[o]) : <<o, name>> \in Pads
         /\ \A p \in PadsOf(tile) : tile.class[p[1]] \in {"not", "source"} => p[2] \in PadNames(tile.class[p[1]])
         /\ \A i \in DOMAIN tile.order : tile.order[i] \in DOMAIN tile.class
         /\ tile.lines \in Seq(Seq(PadsOf(tile)))
         /\ \A i \in DOMAIN tile.setup : /\ tile.setup[i].pad \in PadsOf(tile)
                                         /\ tile.setup[i].ref \in PadsOf(tile) \cup {NoPad}
                                         /\ tile.setup[i].preset \in {0, 1} \cup Values
BY TileAssumption, Zenon DEF TileAssumption

LEMMA LinePad ==
  ASSUME tile \in Tiles, NEW i \in DOMAIN tile.lines, NEW k \in DOMAIN tile.lines[i]
  PROVE  tile.lines[i][k] \in PadsOf(tile) /\ tile.lines[i][k] \in Pads /\ k # 0
<1>1. PICK S : S = PadsOf(tile)
  OBVIOUS
<1>2. tile.lines \in Seq(Seq(S))
  BY <1>1, TileIs
<1>3. tile.lines[i] \in Seq(S)
  BY <1>2
<1>4. tile.lines[i][k] \in S /\ k # 0
  BY <1>3
<1>5. QED BY <1>1, <1>4 DEF PadsOf

LEMMA InitLoads == Init => NetsInit /\ LoadInv
<1>1. SUFFICES ASSUME Init PROVE NetsInit /\ LoadInv
  OBVIOUS
<1>2. NetsInit /\ tile \in Tiles /\ AtOK /\ at.pos = 0
  BY <1>1 DEF Init, AtOK
<1>3. WiringOK
  BY <1>2, WiringAtInit
<1>4. QED BY <1>2, <1>3 DEF LoadInv, LineInv

\* A step of the tile is a step of its nets, or leaves them alone.
LEMMA StepWires == LoadInv /\ [Next]_vars => [NetsNext]_wiring
<1>1. SUFFICES ASSUME LoadInv, [Next]_vars PROVE [NetsNext]_wiring
  OBVIOUS
<1>2. tile \in Tiles /\ Sound(wiring)
  BY <1>1 DEF LoadInv, WiringOK
<1>3. CASE LoadNet
  <2>1. CASE at.pos = 0 /\ wiring' = NetCreate(wiring)
    BY <2>1 DEF NetsNext, Create
  <2>2. CASE /\ at.pos \in DOMAIN tile.lines[at.line]
             /\ wiring' = NetConnect(wiring, wiring.table[Len(wiring.table)], tile.lines[at.line][at.pos])
    <3>1. at.phase = "load" /\ at.line \in DOMAIN tile.lines
      BY <1>3 DEF LoadNet
    <3>2. tile.lines[at.line][at.pos] \in Pads
      BY <1>2, <2>2, <3>1, LinePad
    <3>3. at.pos # 0
      BY <1>2, <2>2, <3>1, LinePad
    <3>4. Attach(LastNet(wiring), tile.lines[at.line][at.pos]) /\ LastNet(wiring) \in DOMAIN wiring.id
      BY <1>1, <2>2, <3>1, <3>3 DEF LoadInv, LineInv, Attach, LastNet
    <3>5. QED BY <3>2, <3>4 DEF NetsNext
  <2>3. QED BY <1>3, <2>1, <2>2 DEF LoadNet
<1>4. CASE Setup
  <2>1. CASE UNCHANGED wiring
    BY <2>1
  <2>2. CASE /\ tile.setup[at.line].ref # NoPad
             /\ wiring' = ObjNet(wiring, tile.setup[at.line].pad, tile.setup[at.line].ref)
    <3>1. tile.setup[at.line].pad \in Pads /\ tile.setup[at.line].ref \in Pads
      BY <1>2, <1>4, <2>2, TileIs DEF PadsOf, Setup
    <3>2. QED BY <2>2, <3>1 DEF NetsNext, Refer
  <2>3. QED BY <1>4, <2>1, <2>2 DEF Setup
<1>5. CASE Loaded \/ IsSetUp \/ IsStarted
  BY <1>5 DEF Loaded, IsSetUp, IsStarted, NextPhase
<1>6. CASE Start \/ Propagate
  BY <1>6 DEF Start, Propagate
<1>7. CASE \E o \in Of("sink"), value \in Values : Receive(o, value)
  BY <1>7 DEF Receive
<1>8. CASE UNCHANGED vars
  BY <1>8 DEF vars
<1>9. QED BY <1>1, <1>3, <1>4, <1>5, <1>6, <1>7, <1>8 DEF Next

LEMMA LineKept == LoadInv /\ [Next]_vars => (AtOK /\ LineInv)'
<1>1. SUFFICES ASSUME LoadInv, [Next]_vars PROVE (AtOK /\ LineInv)'
  OBVIOUS
<1>2. tile \in Tiles /\ Sound(wiring) /\ AtOK /\ LineInv
  BY <1>1 DEF LoadInv, WiringOK
<1>3. CASE LoadNet
  <2>1. AtOK'
    <3>1. at.line + 1 \in Nat /\ at.pos + 1 \in Nat
      BY <1>2 DEF AtOK
    <3>2. at' = [phase |-> "load", line |-> at.line + 1, pos |-> 0] \/ at' = [at EXCEPT !.pos = at.pos + 1]
      BY <1>3 DEF LoadNet
    <3>3. QED BY <1>2, <3>1, <3>2 DEF AtOK
  <2>2. CASE wiring' = NetCreate(wiring)
    <3>1. LineInv'
      BY <1>2, <2>2, CreatePushes DEF LineInv
    <3>2. QED BY <2>1, <3>1
  <2>3. CASE /\ at.pos \in DOMAIN tile.lines[at.line]
             /\ wiring' = NetConnect(wiring, wiring.table[Len(wiring.table)], tile.lines[at.line][at.pos])
    <3>1. at.phase = "load" /\ at.line \in DOMAIN tile.lines
      BY <1>3 DEF LoadNet
    <3>2. at.pos # 0
      BY <1>2, <2>3, <3>1, LinePad
    <3>3. wiring'.table = wiring.table /\ wiring'.id = wiring.id
      BY <2>3, ConnectKeeps
    <3>4. LineInv'
      BY <1>2, <3>1, <3>2, <3>3 DEF LineInv, LastNet
    <3>5. QED BY <2>1, <3>4
  <2>4. QED BY <1>3, <2>2, <2>3 DEF LoadNet
<1>4. CASE Setup
  <2>1. at.phase = "setup" /\ at' = [at EXCEPT !.line = @ + 1]
    BY <1>4 DEF Setup
  <2>2. QED BY <1>2, <2>1 DEF AtOK, LineInv
<1>5. CASE Loaded \/ IsSetUp \/ IsStarted
  <2>1. PICK to \in {"setup", "start", "run"} : at' = [phase |-> to, line |-> 1, pos |-> 0]
    BY <1>5 DEF Loaded, IsSetUp, IsStarted, NextPhase
  <2>2. at'.phase = to /\ at'.line = 1 /\ at'.pos = 0
    BY <2>1
  <2>3. AtOK'
    BY <2>1 DEF AtOK
  <2>4. QED BY <2>2, <2>3 DEF LineInv
<1>6. CASE Start
  <2>1. at.phase = "start" /\ at' = [at EXCEPT !.line = @ + 1]
    BY <1>6 DEF Start
  <2>2. QED BY <1>2, <2>1 DEF AtOK, LineInv
<1>7. CASE Propagate \/ \E o \in Of("sink"), value \in Values : Receive(o, value)
  BY <1>2, <1>7 DEF Propagate, Receive, AtOK, LineInv, LastNet
<1>8. CASE UNCHANGED vars
  BY <1>2, <1>8 DEF vars, AtOK, LineInv, LastNet
<1>9. QED BY <1>1, <1>3, <1>4, <1>5, <1>6, <1>7, <1>8 DEF Next

\* No step loads another tile.
LEMMA TileKept == [Next]_vars => tile' = tile
BY DEF Next, LoadNet, Loaded, Setup, IsSetUp, Start, IsStarted, Propagate, Receive, NextPhase, vars

\* Loading a tile, setting its objects up and running it (hk_tile_load_net, hk_obj_setup) does
\* to the nets only what Nets describes.
THEOREM TileWiresNets == Spec => NetsSpec
<1>1. LoadInv /\ [Next]_vars => LoadInv'
  BY StepWires, LineKept, TileKept, WiringStep DEF LoadInv
<1>2. QED BY InitLoads, StepWires, <1>1, PTL DEF Spec, NetsSpec

\* In every tile, whatever its lines, references and presets, pads and nets agree on who is
\* wired to whom, at any time.
THEOREM TileWiringSound == Spec => []WiringOK
BY TileWiresNets, WiringSound, PTL

\* In every tile, pads that were wired together stay so.
THEOREM TileKeepsGroups == Spec => GroupsKept
BY TileWiresNets, NetsImplementGroups, PTL

\* In every tile, a pad is wired to one group of pads at most: no pad is driven through two nets.
THEOREM PadsInOneGroup == Spec => []Groups!Disjoint
BY TileKeepsGroups, GroupsDisjoint, PTL DEF GroupsKept

\* In every tile, no step separates pads that were wired together, neither the merging of
\* nets nor the reuse of a freed one.
THEOREM PadsNeverParted == Spec => Groups!NeverParted
BY TileKeepsGroups, GroupsNeverParted, PTL DEF GroupsKept
-----------------------------------------------------------------------------
(* The machine that runs a tile                                            *)

Given == {0, 1} \cup Values
Texts == {Unset} \cup Given

PadState == [value : Texts, lock : BOOLEAN, state : {-1} \cup Given]
ObjState == [refresh : BOOLEAN, started : BOOLEAN, ep : Texts]
Strings == [text : Texts, of : Pads \cup {NoPad}]
Calls == [op : {"visit", "unlock", "output"}, pad : Pads, value : Strings, i : Nat \ {0}]

Machine == [pad : [Pads -> PadState], obj : [DOMAIN tile.class -> ObjState], stack : Seq(Calls),
            fresh : SUBSET Pads, warned : BOOLEAN]

Mux(p) == tile.class[p[1]] = "mux"

\* What the calls under way are about
CallOK(m, c) ==
  /\ c.pad[1] \in DOMAIN tile.class /\ Read(m, c.value) \in Given
  /\ c.op = "unlock" => ~IsOut(c.pad)
  /\ c.op = "visit" => wiring.net[c.pad] # 0 /\ (IsOut(c.pad) \/ Mux(c.pad))
  /\ c.op = "output" => Mux(c.pad)

\* An input whose handler runs is locked, but for a mux, and runs once.
Unlocks(m, k, p) == m.stack[k].op = "unlock" /\ m.stack[k].pad = p
LockInv(m) == \A p \in Pads : ~Mux(p) => \A k \in DOMAIN m.stack : Unlocks(m, k, p) =>
                m.pad[p].lock /\ \A j \in DOMAIN m.stack : Unlocks(m, j, p) => j = k

Fine(m) == m \in Machine /\ (\A k \in DOMAIN m.stack : CallOK(m, m.stack[k])) /\ LockInv(m)
-----------------------------------------------------------------------------
(* What a call does to the machine                                         *)

LEMMA MachineIs ==
  ASSUME NEW m \in Machine
  PROVE  /\ m = [pad |-> m.pad, obj |-> m.obj, stack |-> m.stack, fresh |-> m.fresh, warned |-> m.warned]
         /\ m.pad \in [Pads -> PadState] /\ m.obj \in [DOMAIN tile.class -> ObjState] /\ m.stack \in Seq(Calls)
         /\ m.fresh \in SUBSET Pads /\ m.warned \in BOOLEAN
BY DEF Machine

LEMMA FrontIs ==
  ASSUME NEW S, NEW s \in Seq(S), NEW c \in S
  PROVE  /\ <<c>> \o s \in Seq(S) /\ DOMAIN (<<c>> \o s) = 1..(Len(s) + 1) /\ DOMAIN s = 1..Len(s) /\ Len(s) \in Nat
         /\ (<<c>> \o s)[1] = c /\ \A k \in DOMAIN s : (<<c>> \o s)[k + 1] = s[k]
         /\ \A k \in DOMAIN (<<c>> \o s) : k = 1 \/ (k - 1 \in DOMAIN s /\ (<<c>> \o s)[k] = s[k - 1])
OBVIOUS

LEMMA TailIs ==
  ASSUME NEW S, NEW s \in Seq(S), s # <<>>
  PROVE  /\ Tail(s) \in Seq(S) /\ 1 \in DOMAIN s /\ Head(s) = s[1] /\ s[1] \in S /\ DOMAIN s = 1..Len(s)
         /\ \A k \in DOMAIN Tail(s) : k + 1 \in DOMAIN s /\ Tail(s)[k] = s[k + 1] /\ k \in Nat \ {0}
         /\ \A k \in DOMAIN s : k # 1 => k - 1 \in DOMAIN Tail(s) /\ Tail(s)[k - 1] = s[k]
OBVIOUS

\* The calls of m, one further down, under a new one
Above(n, m, c) == /\ n.stack = <<c>> \o m.stack
                  /\ 1 \in DOMAIN n.stack /\ n.stack[1] = c
                  /\ \A k \in DOMAIN m.stack : k + 1 \in DOMAIN n.stack /\ n.stack[k + 1] = m.stack[k] /\ k \in Nat \ {0}
                  /\ \A k \in DOMAIN n.stack : k \in Nat \ {0} /\ (k = 1 \/ (k - 1 \in DOMAIN m.stack /\ n.stack[k] = m.stack[k - 1]))

LEMMA PushIs ==
  ASSUME NEW m \in Machine, NEW op \in {"visit", "unlock", "output"}, NEW p \in Pads, NEW s \in Strings,
         NEW n, n = Push(m, op, p, s)
  PROVE  /\ n \in Machine /\ n.pad = m.pad /\ n.obj = m.obj /\ n.fresh = m.fresh /\ n.warned = m.warned
         /\ Above(n, m, [op |-> op, pad |-> p, value |-> s, i |-> 1])
<1> DEFINE c == [op |-> op, pad |-> p, value |-> s, i |-> 1]
<1>1. c \in Calls
  BY DEF Calls
<1>2. n = [m EXCEPT !.stack = <<c>> \o m.stack]
  BY DEF Push
<1> HIDE DEF c
<1>3. m.stack \in Seq(Calls) /\ <<c>> \o m.stack \in Seq(Calls)
  BY <1>1, MachineIs, FrontIs
<1>4. n \in Machine /\ n.pad = m.pad /\ n.obj = m.obj /\ n.fresh = m.fresh /\ n.warned = m.warned /\ n.stack = <<c>> \o m.stack
  <2> DEFINE z == <<c>> \o m.stack
  <2>1. z \in Seq(Calls) /\ n = [m EXCEPT !.stack = z]
    BY <1>2, <1>3
  <2> HIDE DEF z
  <2>2. n \in Machine /\ n.pad = m.pad /\ n.obj = m.obj /\ n.fresh = m.fresh /\ n.warned = m.warned /\ n.stack = z
    BY <2>1 DEF Machine
  <2>3. QED BY <2>2 DEF z
<1>5. Above(n, m, c)
  <2>1. PICK t : t = m.stack /\ t \in Seq(Calls)
    BY <1>3
  <2>2. /\ DOMAIN (<<c>> \o t) = 1..(Len(t) + 1) /\ DOMAIN t = 1..Len(t) /\ Len(t) \in Nat
        /\ (<<c>> \o t)[1] = c /\ \A k \in DOMAIN t : (<<c>> \o t)[k + 1] = t[k]
        /\ \A k \in DOMAIN (<<c>> \o t) : k = 1 \/ (k - 1 \in DOMAIN t /\ (<<c>> \o t)[k] = t[k - 1])
    BY <1>1, <2>1, FrontIs
  <2>3. n.stack = <<c>> \o t
    BY <1>4, <2>1
  <2>4. QED BY <2>1, <2>2, <2>3 DEF Above
<1>6. QED BY <1>4, <1>5 DEF c

\* hk_pad_update_str, up to its loop: the pad p takes the string s.
Takes(n, m, p, s) ==
  /\ n \in Machine /\ n.obj = m.obj /\ n.warned = m.warned
  /\ n.fresh = IF at.phase = "setup" THEN m.fresh ELSE m.fresh \cup {p}
  /\ \A q \in Pads : q # p => n.pad[q] = m.pad[q]
  /\ n.pad[p].value = Read(m, s) /\ n.pad[p].state = m.pad[p].state
  /\ m.pad[p].lock => n.pad[p].lock
  /\ IF wiring.net[p] = 0 THEN n.stack = m.stack
     ELSE n.pad[p].lock /\ Above(n, m, [op |-> "visit", pad |-> p, value |-> s, i |-> 1])

LEMMA UpdateIs ==
  ASSUME NEW m \in Machine, NEW p \in Pads, NEW s \in Strings, Read(m, s) \in Given,
         NEW n, n = Update(m, p, s)
  PROVE  Takes(n, m, p, s)
<1> DEFINE f == IF at.phase = "setup" THEN m.fresh ELSE m.fresh \cup {p}
           v == Read(m, s)
           a == [m.pad[p] EXCEPT !.value = v]
           b == [m.pad EXCEPT ![p] = a]
           m0 == [m EXCEPT !.pad[p].value = Read(m, s), !.fresh = IF at.phase = "setup" THEN @ ELSE @ \cup {p}]
           m1 == [m EXCEPT !.pad = b, !.fresh = f]
<1>0. n = IF wiring.net[p] = 0 THEN m0 ELSE Push([m0 EXCEPT !.pad[p].lock = TRUE], "visit", p, s)
  BY DEF Update
<1>1. m0 = m1
  BY Zenon
<1> HIDE DEF m0
<1>2. /\ a \in PadState /\ a.value = v /\ a.lock = m.pad[p].lock /\ a.state = m.pad[p].state /\ f \in SUBSET Pads
  <2>1. m.pad[p] \in PadState /\ v \in Texts /\ m.fresh \in SUBSET Pads
    BY MachineIs DEF Texts
  <2> HIDE DEF v
  <2>2. QED BY <2>1 DEF PadState
<1>3. b \in [Pads -> PadState] /\ b[p] = a /\ \A q \in Pads : q # p => b[q] = m.pad[q]
  <2>1. m.pad \in [Pads -> PadState]
    BY MachineIs
  <2> HIDE DEF a
  <2>2. QED BY <1>2, <2>1
<1> HIDE DEF a, b, f
<1>4. m1 \in Machine /\ m1.pad = b /\ m1.obj = m.obj /\ m1.stack = m.stack /\ m1.fresh = f /\ m1.warned = m.warned
  BY <1>2, <1>3 DEF Machine
<1>5. n = IF wiring.net[p] = 0 THEN m1 ELSE Push([m1 EXCEPT !.pad[p].lock = TRUE], "visit", p, s)
  BY <1>0, <1>1
<1> HIDE DEF m1
<1>6. CASE wiring.net[p] = 0
  <2>1. n = m1
    BY <1>5, <1>6
  <2>2. QED BY <1>2, <1>3, <1>4, <1>6, <2>1 DEF Takes, f, v
<1>7. CASE wiring.net[p] # 0
  <2> DEFINE c == [a EXCEPT !.lock = TRUE]
             d == [b EXCEPT ![p] = c]
             m2 == [m1 EXCEPT !.pad = d]
  <2>1. n = Push(m2, "visit", p, s)
    <3>1. [m1 EXCEPT !.pad[p].lock = TRUE] = m2
      BY <1>3, <1>4, Zenon
    <3>2. QED BY <1>5, <1>7, <3>1, Zenon
  <2>2. c \in PadState /\ c.value = v /\ c.lock = TRUE /\ c.state = m.pad[p].state
    BY <1>2 DEF PadState
  <2>3. d \in [Pads -> PadState] /\ d[p] = c /\ \A q \in Pads : q # p => d[q] = m.pad[q]
    <3> HIDE DEF c
    <3>1. QED BY <1>3, <2>2
  <2> HIDE DEF c, d
  <2>4. m2 \in Machine /\ m2.pad = d /\ m2.obj = m.obj /\ m2.stack = m.stack /\ m2.fresh = f /\ m2.warned = m.warned
    BY <1>4, <2>3 DEF Machine
  <2> HIDE DEF m2
  <2>5. /\ n \in Machine /\ n.pad = d /\ n.obj = m.obj /\ n.fresh = f /\ n.warned = m.warned
        /\ Above(n, m2, [op |-> "visit", pad |-> p, value |-> s, i |-> 1])
    BY <2>1, <2>4, PushIs
  <2>6. Above(n, m, [op |-> "visit", pad |-> p, value |-> s, i |-> 1])
    BY <2>4, <2>5 DEF Above
  <2>7. QED BY <1>7, <2>2, <2>3, <2>5, <2>6 DEF Takes, f, v
<1>8. QED BY <1>6, <1>7

\* Two machines between which only what pads and objects hold differs
Sets(n, m) == /\ n \in Machine /\ n.stack = m.stack /\ n.fresh = m.fresh /\ n.warned = m.warned
              /\ \A q \in Pads : n.pad[q].value = m.pad[q].value /\ n.pad[q].lock = m.pad[q].lock

\* The handler of the input p is entered ...
Enters(n, m, p, s) ==
  /\ n \in Machine /\ n.obj = m.obj /\ n.fresh = m.fresh /\ n.warned = m.warned
  /\ \A q \in Pads : q # p => n.pad[q] = m.pad[q]
  /\ n.pad[p].value = m.pad[p].value /\ n.pad[p].state = m.pad[p].state /\ n.pad[p].lock
  /\ Above(n, m, [op |-> "unlock", pad |-> p, value |-> s, i |-> 1])

\* ... a call returns, and may free the lock of its pad ...
Returns(n, m) ==
  /\ m.stack # <<>> /\ n \in Machine /\ n.obj = m.obj /\ n.fresh = m.fresh /\ n.warned = m.warned
  /\ \A q \in Pads : q # m.stack[1].pad => n.pad[q] = m.pad[q]
  /\ n.pad[m.stack[1].pad].value = m.pad[m.stack[1].pad].value /\ n.pad[m.stack[1].pad].state = m.pad[m.stack[1].pad].state
  /\ \A k \in DOMAIN n.stack : k \in Nat \ {0} /\ k + 1 \in DOMAIN m.stack /\ n.stack[k] = m.stack[k + 1]
  /\ \A k \in DOMAIN m.stack : k = 1 \/ (k - 1 \in DOMAIN n.stack /\ n.stack[k - 1] = m.stack[k])

\* ... or moves on in its loop.
Moves(n, m, i) ==
  /\ m.stack # <<>> /\ n \in Machine /\ n.pad = m.pad /\ n.obj = m.obj /\ n.fresh = m.fresh /\ n.warned = m.warned
  /\ DOMAIN n.stack = DOMAIN m.stack /\ 1 \in DOMAIN m.stack /\ n.stack[1] = [m.stack[1] EXCEPT !.i = i]
  /\ \A k \in DOMAIN m.stack : k \in Nat \ {0} /\ (k # 1 => n.stack[k] = m.stack[k])

WithPad(m, p, a) == [m EXCEPT !.pad = [m.pad EXCEPT ![p] = a]]

LEMMA PadIs ==
  ASSUME NEW m \in Machine, NEW p \in Pads, NEW a \in PadState, NEW n, n = WithPad(m, p, a)
  PROVE  /\ n \in Machine /\ n.obj = m.obj /\ n.stack = m.stack /\ n.fresh = m.fresh /\ n.warned = m.warned
         /\ n.pad[p] = a /\ \A q \in Pads : q # p => n.pad[q] = m.pad[q]
<1> DEFINE b == [m.pad EXCEPT ![p] = a]
<1>1. b \in [Pads -> PadState] /\ b[p] = a /\ \A q \in Pads : q # p => b[q] = m.pad[q]
  BY MachineIs
<1>2. n = [m EXCEPT !.pad = b]
  BY DEF WithPad
<1> HIDE DEF b
<1>3. QED BY <1>1, <1>2 DEF Machine

WithState(m, p, x) == [m EXCEPT !.pad[p].state = x]

LEMMA StateSets ==
  ASSUME NEW m \in Machine, NEW p \in Pads, NEW x \in {-1} \cup Given, NEW n, n = WithState(m, p, x)
  PROVE  /\ Sets(n, m) /\ n.obj = m.obj /\ n.pad[p].state = x /\ \A q \in Pads : q # p => n.pad[q] = m.pad[q]
<1> DEFINE a == [m.pad[p] EXCEPT !.state = x]
<1>1. n = WithPad(m, p, a)
  BY Zenon DEF WithState, WithPad
<1>2. m.pad[p] \in PadState
  BY MachineIs
<1>3. a \in PadState /\ a.value = m.pad[p].value /\ a.lock = m.pad[p].lock /\ a.state = x
  BY <1>2 DEF PadState
<1> HIDE DEF a
<1>4. QED BY <1>1, <1>3, PadIs DEF Sets

WithObj(m, o, x) == [m EXCEPT !.obj = [m.obj EXCEPT ![o] = x]]

LEMMA ObjSets ==
  ASSUME NEW m \in Machine, NEW o \in DOMAIN tile.class, NEW x \in ObjState, NEW n, n = WithObj(m, o, x)
  PROVE  Sets(n, m) /\ n.pad = m.pad /\ n.obj[o] = x /\ \A a \in DOMAIN tile.class : a # o => n.obj[a] = m.obj[a]
<1> DEFINE b == [m.obj EXCEPT ![o] = x]
<1>1. b \in [DOMAIN tile.class -> ObjState] /\ b[o] = x /\ \A a \in DOMAIN tile.class : a # o => b[a] = m.obj[a]
  BY MachineIs
<1>2. n = [m EXCEPT !.obj = b]
  BY DEF WithObj
<1> HIDE DEF b
<1>3. n \in Machine /\ n.pad = m.pad /\ n.obj = b /\ n.stack = m.stack /\ n.fresh = m.fresh /\ n.warned = m.warned
  BY <1>1, <1>2 DEF Machine
<1>4. QED BY <1>1, <1>3 DEF Sets

\* The lock of a pad
WithLock(m, p) == [m EXCEPT !.pad[p].lock = TRUE]
Without(m, p) == [m EXCEPT !.pad[p].lock = FALSE]

LEMMA LocksIs ==
  ASSUME NEW m \in Machine, NEW p \in Pads, NEW n, n = WithLock(m, p) \/ n = Without(m, p)
  PROVE  /\ n \in Machine /\ n.obj = m.obj /\ n.stack = m.stack /\ n.fresh = m.fresh /\ n.warned = m.warned
         /\ \A q \in Pads : q # p => n.pad[q] = m.pad[q]
         /\ n.pad[p].value = m.pad[p].value /\ n.pad[p].state = m.pad[p].state
         /\ n = WithLock(m, p) => n.pad[p].lock
<1>1. m.pad[p] \in PadState
  BY MachineIs
<1>2. CASE n = WithLock(m, p)
  <2> DEFINE a == [m.pad[p] EXCEPT !.lock = TRUE]
  <2>1. n = WithPad(m, p, a)
    BY <1>2, Zenon DEF WithLock, WithPad
  <2>2. a \in PadState /\ a.value = m.pad[p].value /\ a.state = m.pad[p].state /\ a.lock
    BY <1>1 DEF PadState
  <2> HIDE DEF a
  <2>3. QED BY <2>1, <2>2, PadIs
<1>3. CASE n = Without(m, p) /\ n # WithLock(m, p)
  <2> DEFINE a == [m.pad[p] EXCEPT !.lock = FALSE]
  <2>1. n = WithPad(m, p, a)
    BY <1>3, Zenon DEF Without, WithPad
  <2>2. a \in PadState /\ a.value = m.pad[p].value /\ a.state = m.pad[p].state
    BY <1>1 DEF PadState
  <2> HIDE DEF a
  <2>3. QED BY <1>3, <2>1, <2>2, PadIs
<1>4. QED BY <1>2, <1>3

LEMMA AboveSame == ASSUME NEW n, NEW k, NEW m, NEW c, Above(n, k, c), k.stack = m.stack PROVE Above(n, m, c)
BY DEF Above

LEMMA EntersIs ==
  ASSUME NEW m \in Machine, NEW p \in Pads, NEW s \in Strings, NEW n, n = Push([m EXCEPT !.pad[p].lock = TRUE], "unlock", p, s)
  PROVE  Enters(n, m, p, s)
<1> DEFINE k == WithLock(m, p)
<1>1. n = Push(k, "unlock", p, s)
  BY DEF WithLock
<1>2. /\ k \in Machine /\ k.obj = m.obj /\ k.stack = m.stack /\ k.fresh = m.fresh /\ k.warned = m.warned
      /\ \A q \in Pads : q # p => k.pad[q] = m.pad[q]
      /\ k.pad[p].value = m.pad[p].value /\ k.pad[p].state = m.pad[p].state /\ k.pad[p].lock
  BY LocksIs
<1> HIDE DEF k
<1>3. /\ n \in Machine /\ n.pad = k.pad /\ n.obj = k.obj /\ n.fresh = k.fresh /\ n.warned = k.warned
      /\ Above(n, k, [op |-> "unlock", pad |-> p, value |-> s, i |-> 1])
  BY <1>1, <1>2, PushIs
<1>4. Above(n, m, [op |-> "unlock", pad |-> p, value |-> s, i |-> 1])
  BY <1>2, <1>3, AboveSame
<1>5. QED BY <1>2, <1>3, <1>4 DEF Enters

LEMMA DropIs ==
  ASSUME NEW m \in Machine, m.stack # <<>>, NEW n, n = Drop(m)
  PROVE  Returns(n, m) /\ n.pad = m.pad /\ m.stack[1] \in Calls /\ Head(m.stack) = m.stack[1]
<1> DEFINE t == Tail(m.stack)
<1>1. PICK s \in Seq(Calls) : s = m.stack
  BY MachineIs
<1>2. /\ Tail(s) \in Seq(Calls) /\ 1 \in DOMAIN s /\ Head(s) = s[1] /\ s[1] \in Calls
      /\ \A k \in DOMAIN Tail(s) : k + 1 \in DOMAIN s /\ Tail(s)[k] = s[k + 1] /\ k \in Nat \ {0}
      /\ \A k \in DOMAIN s : k # 1 => k - 1 \in DOMAIN Tail(s) /\ Tail(s)[k - 1] = s[k]
  BY <1>1, TailIs
<1>3. n = [m EXCEPT !.stack = t] /\ t = Tail(s)
  BY <1>1 DEF Drop
<1> HIDE DEF t
<1>4. n \in Machine /\ n.pad = m.pad /\ n.obj = m.obj /\ n.stack = t /\ n.fresh = m.fresh /\ n.warned = m.warned
  BY <1>2, <1>3 DEF Machine
<1>5. QED BY <1>1, <1>2, <1>3, <1>4 DEF Returns

LEMMA ReturnsIs ==
  ASSUME NEW m \in Machine, m.stack # <<>>, NEW p, p = m.stack[1].pad, NEW n, n = Without(Drop(m), p)
  PROVE  Returns(n, m)
<1> DEFINE k == Drop(m)
<1>1. Returns(k, m) /\ k.pad = m.pad /\ m.stack[1] \in Calls
  BY DropIs
<1>2. p \in Pads /\ k \in Machine /\ n = Without(k, p)
  BY <1>1 DEF Calls, Returns
<1> HIDE DEF k
<1>3. /\ n \in Machine /\ n.obj = k.obj /\ n.stack = k.stack /\ n.fresh = k.fresh /\ n.warned = k.warned
      /\ \A q \in Pads : q # p => n.pad[q] = k.pad[q]
      /\ n.pad[p].value = k.pad[p].value /\ n.pad[p].state = k.pad[p].state
  BY <1>2, LocksIs
<1>4. PICK x : x = k
  OBVIOUS
<1>5. /\ m.stack # <<>> /\ n \in Machine /\ n.obj = m.obj /\ n.fresh = m.fresh /\ n.warned = m.warned
      /\ \A q \in Pads : q # p => n.pad[q] = m.pad[q]
      /\ n.pad[p].value = m.pad[p].value /\ n.pad[p].state = m.pad[p].state
  BY <1>1, <1>3, <1>4 DEF Returns
<1>6. /\ \A j \in DOMAIN n.stack : j \in Nat \ {0} /\ j + 1 \in DOMAIN m.stack /\ n.stack[j] = m.stack[j + 1]
      /\ \A j \in DOMAIN m.stack : j = 1 \/ (j - 1 \in DOMAIN n.stack /\ n.stack[j - 1] = m.stack[j])
  <2>1. n.stack = x.stack /\ Returns(x, m)
    BY <1>1, <1>3, <1>4
  <2>2. QED BY <2>1 DEF Returns
<1>7. QED BY <1>5, <1>6, Zenon DEF Returns

LEMMA MovesIs ==
  ASSUME NEW m \in Machine, m.stack # <<>>, NEW i \in Nat \ {0}, NEW n, n = [m EXCEPT !.stack[1].i = i]
  PROVE  Moves(n, m, i)
<1>1. PICK s \in Seq(Calls) : s = m.stack
  BY MachineIs
<1>2. 1 \in DOMAIN s /\ s[1] \in Calls /\ DOMAIN s = 1..Len(s) /\ Len(s) \in Nat
  BY <1>1
<1> DEFINE c == [s[1] EXCEPT !.i = i]
           t == [s EXCEPT ![1] = c]
<1>3. c \in Calls
  BY <1>2 DEF Calls
<1>4. n = [m EXCEPT !.stack = t]
  BY <1>1, Zenon
<1> HIDE DEF c
<1>5. t \in Seq(Calls) /\ DOMAIN t = DOMAIN s /\ t[1] = c /\ \A k \in DOMAIN s : k # 1 => t[k] = s[k]
  BY <1>2, <1>3
<1> HIDE DEF t
<1>6. n \in Machine /\ n.pad = m.pad /\ n.obj = m.obj /\ n.stack = t /\ n.fresh = m.fresh /\ n.warned = m.warned
  BY <1>4, <1>5 DEF Machine
<1>7. QED BY <1>1, <1>2, <1>5, <1>6 DEF Moves, c
-----------------------------------------------------------------------------
(* The calls under way stay in order                                       *)

LEMMA CallKept ==
  ASSUME NEW m, NEW n, NEW c \in Calls, CallOK(m, c),
         \A q \in Pads : n.pad[q].value = m.pad[q].value \/ n.pad[q].value \in Given
  PROVE  CallOK(n, c)
<1>1. c.value.of = NoPad \/ c.value.of \in Pads
  BY DEF Calls, Strings
<1>2. Read(n, c.value) \in Given
  BY <1>1 DEF CallOK, Read
<1>3. QED BY <1>2 DEF CallOK

LEMMA StackIs == ASSUME NEW m \in Machine, NEW k \in DOMAIN m.stack PROVE m.stack[k] \in Calls /\ m.stack[k].pad \in Pads
<1>1. m.stack \in Seq(Calls)
  BY MachineIs
<1>2. m.stack[k] \in Calls
  BY <1>1
<1>3. QED BY <1>2 DEF Calls

LEMMA SetsFine == ASSUME NEW m, Fine(m), NEW n, Sets(n, m) PROVE Fine(n)
<1>1. ASSUME NEW k \in DOMAIN n.stack PROVE CallOK(n, n.stack[k])
  BY <1>1, StackIs, CallKept DEF Fine, Sets
<1>2. LockInv(n)
  BY DEF Fine, Sets, LockInv, Unlocks
<1>3. QED BY <1>1, <1>2 DEF Fine, Sets

\* A call that is not one of an input handler begins.
LEMMA AboveFine ==
  ASSUME NEW m, Fine(m), NEW n \in Machine, NEW c \in Calls, Above(n, m, c), c.op # "unlock", CallOK(n, c),
         \A q \in Pads : n.pad[q].value = m.pad[q].value \/ n.pad[q].value \in Given,
         \A q \in Pads : m.pad[q].lock => n.pad[q].lock
  PROVE  Fine(n)
<1>1. ASSUME NEW k \in DOMAIN n.stack PROVE CallOK(n, n.stack[k])
  <2>1. CASE k = 1
    BY <2>1 DEF Above
  <2>2. CASE k - 1 \in DOMAIN m.stack /\ n.stack[k] = m.stack[k - 1]
    BY <2>2, StackIs, CallKept DEF Fine
  <2>3. QED BY <1>1, <2>1, <2>2 DEF Above
<1>2. ASSUME NEW p \in Pads, NEW k \in DOMAIN n.stack, Unlocks(n, k, p)
      PROVE  k - 1 \in DOMAIN m.stack /\ Unlocks(m, k - 1, p) /\ k \in Nat
  BY <1>2 DEF Above, Unlocks
<1>3. LockInv(n)
  <2>1. SUFFICES ASSUME NEW p \in Pads, ~Mux(p), NEW k \in DOMAIN n.stack, Unlocks(n, k, p)
                 PROVE  n.pad[p].lock /\ \A j \in DOMAIN n.stack : Unlocks(n, j, p) => j = k
    BY DEF LockInv
  <2>2. k - 1 \in DOMAIN m.stack /\ Unlocks(m, k - 1, p) /\ k \in Nat
    BY <1>2, <2>1
  <2>3. m.pad[p].lock /\ \A j \in DOMAIN m.stack : Unlocks(m, j, p) => j = k - 1
    BY <2>1, <2>2 DEF Fine, LockInv
  <2>4. ASSUME NEW j \in DOMAIN n.stack, Unlocks(n, j, p) PROVE j = k
    <3>1. j - 1 \in DOMAIN m.stack /\ Unlocks(m, j - 1, p) /\ j \in Nat
      BY <1>2, <2>4
    <3>2. j - 1 = k - 1
      BY <2>3, <3>1
    <3>3. QED BY <2>2, <3>1, <3>2
  <2>5. QED BY <2>3, <2>4
<1>4. QED BY <1>1, <1>3 DEF Fine

LEMMA TakesFine ==
  ASSUME NEW m, Fine(m), NEW p \in Pads, p[1] \in DOMAIN tile.class, IsOut(p) \/ Mux(p),
         NEW s \in Strings, Read(m, s) \in Given, NEW n, Takes(n, m, p, s)
  PROVE  Fine(n)
<1>1. /\ \A q \in Pads : n.pad[q].value = m.pad[q].value \/ n.pad[q].value \in Given
      /\ \A q \in Pads : m.pad[q].lock => n.pad[q].lock
      /\ n \in Machine
  BY DEF Takes
<1>2. CASE wiring.net[p] = 0
  <2>1. n.stack = m.stack
    BY <1>2 DEF Takes
  <2>2. ASSUME NEW k \in DOMAIN n.stack PROVE CallOK(n, n.stack[k])
    BY <1>1, <2>1, <2>2, StackIs, CallKept DEF Fine
  <2>3. LockInv(n)
    BY <1>1, <2>1 DEF Fine, LockInv, Unlocks
  <2>4. QED BY <1>1, <2>2, <2>3 DEF Fine
<1>3. CASE wiring.net[p] # 0
  <2> DEFINE c == [op |-> "visit", pad |-> p, value |-> s, i |-> 1]
  <2>1. c \in Calls /\ c.op = "visit" /\ c.pad = p /\ c.value = s
    BY DEF Calls
  <2>2. Above(n, m, c)
    BY <1>3 DEF Takes
  <2> HIDE DEF c
  <2>3. Read(n, s) \in Given
    <3>1. s.of = NoPad \/ s.of \in Pads
      BY DEF Strings
    <3>2. QED BY <1>1, <3>1 DEF Read
  <2>4. CallOK(n, c)
    BY <1>3, <2>1, <2>3 DEF CallOK
  <2>5. QED BY <1>1, <2>1, <2>2, <2>4, AboveFine
<1>4. QED BY <1>2, <1>3

\* The handler of an input that was not locked begins.
LEMMA EntersFine ==
  ASSUME NEW m, Fine(m), NEW p \in Pads, p[1] \in DOMAIN tile.class, ~IsOut(p), ~m.pad[p].lock,
         NEW s \in Strings, Read(m, s) \in Given, NEW n, Enters(n, m, p, s)
  PROVE  Fine(n)
<1> DEFINE c == [op |-> "unlock", pad |-> p, value |-> s, i |-> 1]
<1>1. /\ \A q \in Pads : n.pad[q].value = m.pad[q].value
      /\ \A q \in Pads : m.pad[q].lock => n.pad[q].lock
      /\ n \in Machine /\ n.pad[p].lock /\ Above(n, m, c)
  BY DEF Enters
<1>2. c \in Calls /\ c.op = "unlock" /\ c.pad = p /\ c.value = s
  BY DEF Calls
<1> HIDE DEF c
<1>3. CallOK(n, c)
  <2>1. Read(n, s) \in Given
    <3>1. s.of = NoPad \/ s.of \in Pads
      BY DEF Strings
    <3>2. QED BY <1>1, <3>1 DEF Read
  <2>2. QED BY <1>2, <2>1 DEF CallOK
<1>4. ASSUME NEW k \in DOMAIN n.stack PROVE CallOK(n, n.stack[k])
  <2>1. CASE k = 1
    BY <1>1, <1>3, <2>1 DEF Above
  <2>2. CASE k - 1 \in DOMAIN m.stack /\ n.stack[k] = m.stack[k - 1]
    BY <1>1, <2>2, StackIs, CallKept DEF Fine
  <2>3. QED BY <1>1, <1>4, <2>1, <2>2 DEF Above
<1>5. ASSUME NEW q \in Pads, NEW k \in DOMAIN n.stack, Unlocks(n, k, q)
      PROVE  \/ k = 1 /\ q = p
             \/ k - 1 \in DOMAIN m.stack /\ Unlocks(m, k - 1, q) /\ k \in Nat
  BY <1>1, <1>2, <1>5 DEF Above, Unlocks
<1>6. LockInv(n)
  <2>1. SUFFICES ASSUME NEW q \in Pads, ~Mux(q), NEW k \in DOMAIN n.stack, Unlocks(n, k, q)
                 PROVE  n.pad[q].lock /\ \A j \in DOMAIN n.stack : Unlocks(n, j, q) => j = k
    BY DEF LockInv
  <2>2. CASE q = p
    <3>1. \A j \in DOMAIN m.stack : ~Unlocks(m, j, p)
      BY <2>1, <2>2 DEF Fine, LockInv
    <3>2. \A j \in DOMAIN n.stack : Unlocks(n, j, p) => j = 1
      BY <1>5, <3>1
    <3>3. QED BY <1>1, <2>1, <2>2, <3>2
  <2>3. CASE q # p
    <3>1. k - 1 \in DOMAIN m.stack /\ Unlocks(m, k - 1, q) /\ k \in Nat
      BY <1>5, <2>1, <2>3
    <3>2. m.pad[q].lock /\ \A j \in DOMAIN m.stack : Unlocks(m, j, q) => j = k - 1
      BY <2>1, <3>1 DEF Fine, LockInv
    <3>3. ASSUME NEW j \in DOMAIN n.stack, Unlocks(n, j, q) PROVE j = k
      <4>1. j - 1 \in DOMAIN m.stack /\ Unlocks(m, j - 1, q) /\ j \in Nat
        BY <1>5, <2>3, <3>3
      <4>2. j - 1 = k - 1
        BY <3>2, <4>1
      <4>3. QED BY <3>1, <4>1, <4>2
    <3>4. QED BY <1>1, <3>2, <3>3
  <2>4. QED BY <2>2, <2>3
<1>7. QED BY <1>1, <1>4, <1>6 DEF Fine

LEMMA ReturnsFine == ASSUME NEW m, Fine(m), NEW n, Returns(n, m) PROVE Fine(n)
<1>1. m \in Machine /\ n \in Machine /\ 1 \in DOMAIN m.stack
  <2>1. m \in Machine /\ n \in Machine /\ m.stack \in Seq(Calls) /\ m.stack # <<>>
    BY MachineIs DEF Fine, Returns
  <2>2. QED BY <2>1
<1>2. m.stack[1].pad \in Pads /\ CallOK(m, m.stack[1]) /\ m.stack[1] \in Calls
  BY <1>1, StackIs DEF Fine
<1>3. \A q \in Pads : n.pad[q].value = m.pad[q].value
  BY <1>2 DEF Returns
<1>4. ASSUME NEW k \in DOMAIN n.stack PROVE CallOK(n, n.stack[k])
  <2>1. k + 1 \in DOMAIN m.stack /\ n.stack[k] = m.stack[k + 1]
    BY DEF Returns
  <2>2. QED BY <1>1, <1>3, <2>1, StackIs, CallKept DEF Fine
<1>5. ASSUME NEW p \in Pads, NEW k \in DOMAIN n.stack, Unlocks(n, k, p)
      PROVE  k + 1 \in DOMAIN m.stack /\ Unlocks(m, k + 1, p) /\ k \in Nat \ {0} /\ ~IsOut(p)
  <2>1. k + 1 \in DOMAIN m.stack /\ n.stack[k] = m.stack[k + 1] /\ k \in Nat \ {0}
    BY DEF Returns
  <2>2. CallOK(m, m.stack[k + 1])
    BY <2>1 DEF Fine
  <2>3. QED BY <1>5, <2>1, <2>2 DEF Unlocks, CallOK
<1>6. LockInv(n)
  <2>1. SUFFICES ASSUME NEW p \in Pads, ~Mux(p), NEW k \in DOMAIN n.stack, Unlocks(n, k, p)
                 PROVE  n.pad[p].lock /\ \A j \in DOMAIN n.stack : Unlocks(n, j, p) => j = k
    BY DEF LockInv
  <2>2. k + 1 \in DOMAIN m.stack /\ Unlocks(m, k + 1, p) /\ k \in Nat \ {0} /\ ~IsOut(p)
    BY <1>5, <2>1
  <2>3. m.pad[p].lock /\ \A j \in DOMAIN m.stack : Unlocks(m, j, p) => j = k + 1
    BY <2>1, <2>2 DEF Fine, LockInv
  <2>4. p # m.stack[1].pad
    <3>1. CASE m.stack[1].op = "unlock" /\ p = m.stack[1].pad
      <4>1. Unlocks(m, 1, p)
        BY <3>1 DEF Unlocks
      <4>2. 1 = k + 1
        BY <1>1, <2>3, <4>1
      <4>3. QED BY <2>2, <4>2
    <3>2. CASE m.stack[1].op # "unlock"
      BY <1>2, <2>1, <2>2, <3>2 DEF CallOK, Calls
    <3>3. QED BY <3>1, <3>2
  <2>5. n.pad[p].lock
    BY <2>3, <2>4 DEF Returns
  <2>6. ASSUME NEW j \in DOMAIN n.stack, Unlocks(n, j, p) PROVE j = k
    <3>1. j + 1 \in DOMAIN m.stack /\ Unlocks(m, j + 1, p) /\ j \in Nat \ {0}
      BY <1>5, <2>6
    <3>2. j + 1 = k + 1
      BY <2>3, <3>1
    <3>3. QED BY <2>2, <3>1, <3>2
  <2>7. QED BY <2>5, <2>6
<1>7. QED BY <1>1, <1>4, <1>6 DEF Fine

LEMMA MovesFine == ASSUME NEW m, Fine(m), NEW i \in Nat \ {0}, NEW n, Moves(n, m, i) PROVE Fine(n)
<1>1. \A k \in DOMAIN m.stack : m.stack[k] \in Calls
  BY StackIs DEF Fine
<1>2. ASSUME NEW k \in DOMAIN n.stack
      PROVE  /\ k \in DOMAIN m.stack /\ n.stack[k].op = m.stack[k].op /\ n.stack[k].pad = m.stack[k].pad
             /\ n.stack[k].value = m.stack[k].value
  <2>1. k \in DOMAIN m.stack
    BY DEF Moves
  <2>2. CASE k = 1
    BY <1>1, <2>1, <2>2 DEF Moves, Calls
  <2>3. CASE k # 1
    BY <2>1, <2>3 DEF Moves
  <2>4. QED BY <2>1, <2>2, <2>3
<1>3. ASSUME NEW k \in DOMAIN n.stack PROVE CallOK(n, n.stack[k])
  <2>1. CallOK(m, m.stack[k])
    BY <1>2 DEF Fine
  <2>2. n.pad = m.pad
    BY DEF Moves
  <2>3. QED BY <1>2, <2>1, <2>2 DEF CallOK, Read
<1>4. LockInv(n)
  <2>1. n.pad = m.pad /\ DOMAIN n.stack = DOMAIN m.stack
    BY DEF Moves
  <2>2. QED BY <1>2, <2>1 DEF Fine, LockInv, Unlocks
<1>5. QED BY <1>3, <1>4 DEF Fine, Moves
-----------------------------------------------------------------------------
(* The methods of the classes                                              *)

LEMMA WarnedFine == ASSUME NEW m, Fine(m), NEW n, n = [m EXCEPT !.warned = TRUE] PROVE Fine(n)
<1>1. m \in Machine
  BY DEF Fine
<1>2. n \in Machine /\ n.pad = m.pad /\ n.stack = m.stack
  BY <1>1 DEF Machine
<1>3. \A k \in DOMAIN n.stack : CallOK(n, n.stack[k])
  BY <1>2 DEF Fine, CallOK, Read
<1>4. LockInv(n)
  BY <1>2 DEF Fine, LockInv, Unlocks
<1>5. QED BY <1>2, <1>3, <1>4 DEF Fine

\* A call of a mux that is to update its output
LEMMA OutputFine ==
  ASSUME NEW m, Fine(m), NEW p \in Pads, p[1] \in DOMAIN tile.class, Mux(p),
         NEW s \in Strings, Read(m, s) \in Given, NEW n, n = Push(m, "output", p, s)
  PROVE  Fine(n) /\ n.pad = m.pad
<1> DEFINE c == [op |-> "output", pad |-> p, value |-> s, i |-> 1]
<1>1. m \in Machine
  BY DEF Fine
<1>2. n \in Machine /\ n.pad = m.pad /\ Above(n, m, c)
  BY <1>1, PushIs
<1>3. c \in Calls /\ c.op = "output" /\ c.pad = p /\ c.value = s
  BY DEF Calls
<1> HIDE DEF c
<1>4. CallOK(n, c)
  BY <1>2, <1>3 DEF CallOK, Read
<1>5. QED BY <1>2, <1>3, <1>4, AboveFine

LEMMA OwnIs == ASSUME NEW v \in Given PROVE Own(v) \in Strings /\ \A m : Read(m, Own(v)) = v
BY DEF Own, Strings, Read, Texts

LEMMA OutIs == ASSUME NEW o PROVE IsOut(Out(o)) /\ Out(o)[1] = o
BY DEF IsOut, Out

LEMMA BitIs == ASSUME NEW b PROVE Bit(b) \in {0, 1} /\ Bit(b) \in Given
BY DEF Bit, Given

LEMMA GateOutIs == ASSUME NEW m, NEW o PROVE GateOut(m, o) \in {0, 1} /\ GateOut(m, o) \in Given
<1> DEFINE raw == IF tile.class[o] = "and" THEN \A p \in Inputs(o) : m.pad[p].state # 0
                  ELSE \E p \in Inputs(o) : m.pad[p].state # 0
<1>1. GateOut(m, o) = IF o \in tile.inv THEN Bit(~raw) ELSE Bit(raw)
  BY DEF GateOut
<1> HIDE DEF raw
<1>2. QED BY <1>1, BitIs

\* The update of an output
LEMMA OutFine ==
  ASSUME NEW m, Fine(m), NEW o \in DOMAIN tile.class, Out(o) \in Pads, NEW v \in Given,
         NEW n, n = Update(m, Out(o), Own(v))
  PROVE  Fine(n)
<1>1. Own(v) \in Strings /\ Read(m, Own(v)) = v
  BY OwnIs
<1>2. m \in Machine /\ IsOut(Out(o)) /\ Out(o)[1] = o
  BY OutIs DEF Fine
<1> DEFINE s == Own(v)
           p == Out(o)
<1>3. s \in Strings /\ Read(m, s) \in Given /\ n = Update(m, p, s) /\ p \in Pads /\ IsOut(p) /\ p[1] \in DOMAIN tile.class
  BY <1>1, <1>2
<1> HIDE DEF s, p
<1>4. Takes(n, m, p, s)
  BY <1>2, <1>3, UpdateIs
<1>5. QED BY <1>3, <1>4, TakesFine

\* What GateUpdate does before it updates the output
Refreshed(m, o) == [m EXCEPT !.obj[o].refresh = FALSE]
Gated(m, o) == WithState(Refreshed(m, o), Out(o), GateOut(m, o))

LEMMA RefreshIs ==
  ASSUME NEW m \in Machine, NEW o \in DOMAIN tile.class, NEW n, n = Refreshed(m, o)
  PROVE  Sets(n, m) /\ n.pad = m.pad
<1> DEFINE x == [m.obj[o] EXCEPT !.refresh = FALSE]
<1>1. m.obj[o] \in ObjState
  BY MachineIs
<1>2. x \in ObjState
  BY <1>1 DEF ObjState
<1>3. n = WithObj(m, o, x)
  BY Zenon DEF WithObj, Refreshed
<1> HIDE DEF x
<1>4. QED BY <1>2, <1>3, ObjSets

LEMMA GatedIs ==
  ASSUME NEW m \in Machine, NEW o \in DOMAIN tile.class, Out(o) \in Pads, NEW n, n = Gated(m, o)
  PROVE  /\ Sets(n, m) /\ n.pad[Out(o)].state = GateOut(m, o)
         /\ \A q \in Pads : q # Out(o) => n.pad[q] = m.pad[q]
<1> DEFINE k == Refreshed(m, o)
           g == GateOut(m, o)
<1>1. Sets(k, m) /\ k.pad = m.pad
  BY RefreshIs
<1>2. g \in {-1} \cup Given /\ n = WithState(k, Out(o), g)
  BY GateOutIs DEF Gated
<1> HIDE DEF k, g
<1>3. k \in Machine
  BY <1>1 DEF Sets
<1>4. PICK p \in Pads : p = Out(o)
  OBVIOUS
<1>5. n = WithState(k, p, g)
  BY <1>2, <1>4
<1>6. Sets(n, k) /\ n.pad[p].state = g /\ \A q \in Pads : q # p => n.pad[q] = k.pad[q]
  BY <1>2, <1>3, <1>5, StateSets
<1>7. QED BY <1>1, <1>4, <1>6 DEF Sets, g

GatedBoth(m, o) == [m EXCEPT !.obj[o].refresh = FALSE, !.pad[Out(o)].state = GateOut(m, o)]

LEMMA GatedIsBoth ==
  ASSUME NEW m \in Machine, NEW o \in DOMAIN tile.class
  PROVE  GatedBoth(m, o) = Gated(m, o)
<1> DEFINE q == Out(o)
           g == GateOut(m, o)
           k == Refreshed(m, o)
           A == [m.obj EXCEPT ![o] = [m.obj[o] EXCEPT !.refresh = FALSE]]
           b == [m.pad EXCEPT ![q] = [m.pad[q] EXCEPT !.state = g]]
<1>1. k.pad = m.pad
  BY RefreshIs
<1>2. k = [m EXCEPT !.obj = A]
  BY Zenon DEF Refreshed
<1>3. Gated(m, o) = [k EXCEPT !.pad[q].state = g]
  BY Zenon DEF Gated, WithState
<1>5. GatedBoth(m, o) = [m EXCEPT !.obj = A, !.pad = b]
  BY Zenon DEF GatedBoth
<1> HIDE DEF k, q, g
<1>4. [k EXCEPT !.pad[q].state = g] = [k EXCEPT !.pad = b]
  BY <1>1, Zenon
<1> HIDE DEF A, b
<1>6. [k EXCEPT !.pad = b] = [m EXCEPT !.obj = A, !.pad = b]
  BY <1>2, MachineIs
<1>7. QED BY <1>3, <1>4, <1>5, <1>6, Zenon

LEMMA GateUpdateIs ==
  ASSUME NEW m \in Machine, NEW o \in DOMAIN tile.class
  PROVE  GateUpdate(m, o) = IF GateOut(m, o) # m.pad[Out(o)].state \/ m.obj[o].refresh
                            THEN Update(Gated(m, o), Out(o), Own(GateOut(m, o))) ELSE m
<1>1. GateUpdate(m, o) = IF GateOut(m, o) # m.pad[Out(o)].state \/ m.obj[o].refresh
                         THEN Update(GatedBoth(m, o), Out(o), Own(GateOut(m, o))) ELSE m
  BY Zenon DEF GateUpdate, GatedBoth
<1>2. QED BY <1>1, GatedIsBoth, Zenon

LEMMA GateFine ==
  ASSUME NEW m, Fine(m), NEW o \in DOMAIN tile.class, Out(o) \in Pads, NEW n, n = GateUpdate(m, o)
  PROVE  Fine(n)
<1> DEFINE k == Gated(m, o)
           g == GateOut(m, o)
<1>1. m \in Machine
  BY DEF Fine
<1>2. g \in Given /\ Sets(k, m)
  BY <1>1, GateOutIs, GatedIs
<1>3. n = m \/ n = Update(k, Out(o), Own(g))
  BY <1>1, GateUpdateIs
<1> HIDE DEF k, g
<1>4. Fine(k)
  BY <1>2, SetsFine
<1>5. QED BY <1>2, <1>3, <1>4, OutFine

\* The input whose value a mux shows, if it shows one
LEMMA MuxUpdateIs ==
  ASSUME NEW m \in Machine, NEW o, NEW n, n = MuxUpdate(m, o), n # m
  PROVE  \E p \in Pads : /\ p[1] = o /\ ~IsOut(p) /\ p[2] # "sel" /\ m.pad[p].value \in Given
                         /\ HeldBy(p) \in Strings /\ Read(m, HeldBy(p)) = m.pad[p].value
                         /\ n = Update(m, Out(o), HeldBy(p))
<1> DEFINE sel == m.pad[<<o, "sel">>].state
           name == DataPads[sel + 1]
           p == <<o, name>>
<1>1. sel + 1 \in DOMAIN DataPads /\ p \in Pads /\ m.pad[p].value # Unset /\ n = Update(m, Out(o), HeldBy(p))
  BY DEF MuxUpdate
<1>2. \A k \in DOMAIN DataPads : DataPads[k] \in {"in0", "in1", "in2", "in3"}
  BY DEF DataPads
<1>3. name \in {"in0", "in1", "in2", "in3"}
  BY <1>1, <1>2
<1> HIDE DEF name
<1>4. p[1] = o /\ p[2] = name /\ p # NoPad
  BY <1>3 DEF NoPad
<1> HIDE DEF p
<1>5. m.pad[p] \in PadState
  BY <1>1, MachineIs
<1>6. m.pad[p].value \in Given
  BY <1>1, <1>5 DEF PadState, Texts
<1>7. HeldBy(p) \in Strings /\ Read(m, HeldBy(p)) = m.pad[p].value
  BY <1>1, <1>4 DEF HeldBy, Strings, Read, Texts
<1>8. QED BY <1>1, <1>3, <1>4, <1>6, <1>7 DEF IsOut

LEMMA MuxFine ==
  ASSUME NEW m, Fine(m), NEW o \in DOMAIN tile.class, Out(o) \in Pads, NEW n, n = MuxUpdate(m, o)
  PROVE  Fine(n)
<1>1. m \in Machine
  BY DEF Fine
<1>2. CASE n # m
  <2>1. PICK p \in Pads : /\ m.pad[p].value \in Given /\ HeldBy(p) \in Strings /\ Read(m, HeldBy(p)) = m.pad[p].value
                          /\ n = Update(m, Out(o), HeldBy(p))
    BY <1>1, <1>2, MuxUpdateIs
  <2> DEFINE s == HeldBy(p)
             q == Out(o)
  <2>2. s \in Strings /\ Read(m, s) \in Given /\ n = Update(m, q, s) /\ q \in Pads /\ IsOut(q) /\ q[1] \in DOMAIN tile.class
    BY <2>1, OutIs
  <2> HIDE DEF s, q
  <2>3. Takes(n, m, q, s)
    BY <1>1, <2>2, UpdateIs
  <2>4. QED BY <2>2, <2>3, TakesFine
<1>3. QED BY <1>2

LEMMA CmpFine ==
  ASSUME NEW m, Fine(m), NEW o \in DOMAIN tile.class, Out(o) \in Pads, NEW n, n = CmpUpdate(m, o)
  PROVE  Fine(n)
<1> DEFINE x == CmpOut(m, o)
           k == WithState(m, Out(o), x)
<1>1. m \in Machine
  BY DEF Fine
<1>2. m.pad[Out(o)].state \in {-1} \cup Given
  BY <1>1, MachineIs DEF PadState
<1>3. x \in {-1} \cup Given
  BY <1>2 DEF CmpOut, Given
<1>4. n = IF (x # m.pad[Out(o)].state \/ m.pad[Out(o)].state < 0) /\ m.obj[o].started /\ x >= 0
          THEN Update(k, Out(o), Own(x)) ELSE k
  BY Zenon DEF CmpUpdate, WithState
<1> HIDE DEF x
<1>5. Sets(k, m)
  BY <1>1, <1>3, StateSets
<1> HIDE DEF k
<1>6. Fine(k)
  BY <1>5, SetsFine
<1>7. CASE n = k
  BY <1>6, <1>7
<1>8. CASE x >= 0 /\ n = Update(k, Out(o), Own(x))
  <2>1. x \in Given
    BY <1>3, <1>8
  <2>2. QED BY <1>6, <1>8, <2>1, OutFine
<1>9. QED BY <1>4, <1>7, <1>8

\* Every object has the pads of its class.
LEMMA HasPads ==
  ASSUME tile \in Tiles, NEW o \in DOMAIN tile.class
  PROVE  /\ tile.class[o] \in Classes
         /\ tile.class[o] # "source" => Out(o) \in Pads
         /\ tile.class[o] = "mux" => <<o, "sel">> \in Pads
         /\ tile.class[o] = "cmp" => <<o, "in">> \in Pads /\ <<o, "ref">> \in Pads
<1>1. tile.class[o] \in Classes /\ \A name \in PadNames(tile.class[o]) : <<o, name>> \in Pads
  BY TileIs
<1>2. tile.class[o] # "source" => "out" \in PadNames(tile.class[o])
  BY <1>1 DEF PadNames, Classes
<1>3. tile.class[o] = "mux" => "sel" \in PadNames(tile.class[o])
  BY DEF PadNames
<1>4. tile.class[o] = "cmp" => "in" \in PadNames(tile.class[o]) /\ "ref" \in PadNames(tile.class[o])
  BY DEF PadNames
<1>5. QED BY <1>1, <1>2, <1>3, <1>4 DEF Out

LEMMA SameValues ==
  ASSUME NEW m, NEW n, NEW s \in Strings, \A q \in Pads : n.pad[q].value = m.pad[q].value
  PROVE  Read(n, s) = Read(m, s)
BY DEF Read, Strings

LEMMA StateFine ==
  ASSUME NEW m, Fine(m), NEW p \in Pads, NEW x \in {-1} \cup Given, NEW n, n = WithState(m, p, x)
  PROVE  Fine(n) /\ n.pad[p].state = x
<1>1. Sets(n, m) /\ n.pad[p].state = x
  BY StateSets DEF Fine
<1>2. QED BY <1>1, SetsFine

\* The endpoint of an object takes a value.
Shown(m, o, v) == [m EXCEPT !.obj[o].ep = v]

LEMMA ShownIs ==
  ASSUME NEW m, Fine(m), NEW o \in DOMAIN tile.class, NEW v \in Given, NEW n, n = Shown(m, o, v)
  PROVE  Fine(n) /\ Sets(n, m) /\ n.pad = m.pad /\ n.obj[o].ep = v
<1> DEFINE x == [m.obj[o] EXCEPT !.ep = v]
<1>1. m \in Machine /\ m.obj[o] \in ObjState
  BY MachineIs DEF Fine
<1>2. x \in ObjState /\ x.ep = v
  BY <1>1 DEF ObjState, Texts
<1>3. n = WithObj(m, o, x)
  BY Zenon DEF WithObj, Shown
<1> HIDE DEF x
<1>4. Sets(n, m) /\ n.pad = m.pad /\ n.obj[o] = x
  BY <1>1, <1>2, <1>3, ObjSets
<1>5. QED BY <1>2, <1>4, SetsFine

\* What the input method of the class comes to
NotZero(v) == Bit(v # 0)
IsZero(v) == Bit(v = 0)

LEMMA InputIs ==
  ASSUME NEW m, NEW p, tile.class[p[1]] \in Classes, NEW s, NEW n, n = Input(m, p, s)
  PROVE  /\ tile.class[p[1]] \in {"and", "or"} => n = GateUpdate(WithState(m, p, NotZero(Read(m, s))), p[1])
         /\ tile.class[p[1]] = "not" => n = Update(WithState(m, p, IsZero(Read(m, s))), Out(p[1]), Own(IsZero(Read(m, s))))
         /\ tile.class[p[1]] = "cmp" => n = CmpUpdate(WithState(m, p, Read(m, s)), p[1])
         /\ tile.class[p[1]] = "mux" /\ p[2] = "sel" => n = MuxUpdate(WithState(m, p, Read(m, s)), p[1])
         /\ tile.class[p[1]] = "mux" /\ p[2] # "sel" => n = Update(Push(m, "output", p, s), p, s)
         /\ tile.class[p[1]] = "source" => n = Shown(m, p[1], Read(m, s))
         /\ tile.class[p[1]] = "sink" => n = m
<1> DEFINE v == Read(m, s)
           o == p[1]
           ws(x) == [m EXCEPT !.pad[p].state = x]
           k == [m EXCEPT !.obj[o].ep = v]
<1>1. \A x : ws(x) = WithState(m, p, x)
  BY DEF WithState
<1>2. k = Shown(m, o, v)
  BY DEF Shown
<1>3. n = CASE tile.class[o] \in {"and", "or"} -> GateUpdate(ws(Bit(v # 0)), o)
            [] tile.class[o] = "not" -> Update(ws(Bit(v = 0)), Out(o), Own(Bit(v = 0)))
            [] tile.class[o] = "cmp" -> CmpUpdate(ws(v), o)
            [] tile.class[o] = "mux" /\ p[2] = "sel" -> MuxUpdate(ws(v), o)
            [] tile.class[o] = "mux" /\ p[2] # "sel" -> Update(Push(m, "output", p, s), p, s)
            [] tile.class[o] = "source" -> k
            [] OTHER -> m
  BY Zenon DEF Input
<1> HIDE DEF ws, k
<1> DEFINE n1 == GateUpdate(ws(Bit(v # 0)), o)
           n2 == Update(ws(Bit(v = 0)), Out(o), Own(Bit(v = 0)))
           n3 == CmpUpdate(ws(v), o)
           n4 == MuxUpdate(ws(v), o)
           n5 == Update(Push(m, "output", p, s), p, s)
           class == tile.class[o]
<1>4. n = CASE class \in {"and", "or"} -> n1 [] class = "not" -> n2 [] class = "cmp" -> n3
            [] class = "mux" /\ p[2] = "sel" -> n4 [] class = "mux" /\ p[2] # "sel" -> n5
            [] class = "source" -> k [] OTHER -> m
  BY <1>3, Zenon
<1>5. class \in Classes
  OBVIOUS
<1> HIDE DEF n1, n2, n3, n4, n5, class
<1>6. /\ class \in {"and", "or"} => n = n1
      /\ class = "not" => n = n2
      /\ class = "cmp" => n = n3
      /\ class = "mux" /\ p[2] = "sel" => n = n4
      /\ class = "mux" /\ p[2] # "sel" => n = n5
      /\ class = "source" => n = k
      /\ class = "sink" => n = m
  BY <1>4, <1>5 DEF Classes
<1>7. QED BY <1>1, <1>2, <1>6, Zenon DEF n1, n2, n3, n4, n5, class, v, o, NotZero, IsZero

LEMMA InputFine ==
  ASSUME tile \in Tiles, NEW m, Fine(m), NEW p \in Pads, p[1] \in DOMAIN tile.class, ~IsOut(p),
         NEW s \in Strings, Read(m, s) \in Given, NEW n, n = Input(m, p, s)
  PROVE  Fine(n)
<1> DEFINE o == p[1]
           v == Read(m, s)
           a == NotZero(v)
           b == IsZero(v)
<1>1. /\ a \in {-1} \cup Given /\ b \in {-1} \cup Given /\ b \in Given /\ v \in {-1} \cup Given /\ v \in Given
      /\ m \in Machine /\ o \in DOMAIN tile.class
  BY BitIs DEF Fine, NotZero, IsZero
<1>2. /\ tile.class[o] \in Classes
      /\ tile.class[o] # "source" => Out(o) \in Pads
  BY <1>1, HasPads
<1>3. /\ tile.class[o] \in {"and", "or"} => n = GateUpdate(WithState(m, p, a), o)
      /\ tile.class[o] = "not" => n = Update(WithState(m, p, b), Out(o), Own(b))
      /\ tile.class[o] = "cmp" => n = CmpUpdate(WithState(m, p, v), o)
      /\ tile.class[o] = "mux" /\ p[2] = "sel" => n = MuxUpdate(WithState(m, p, v), o)
      /\ tile.class[o] = "mux" /\ p[2] # "sel" => n = Update(Push(m, "output", p, s), p, s)
      /\ tile.class[o] = "source" => n = Shown(m, o, v)
      /\ tile.class[o] = "sink" => n = m
  BY <1>2, InputIs
<1>4. v = Read(m, s)
  OBVIOUS
<1> HIDE DEF a, b, v, o
<1>5. CASE tile.class[o] \in {"and", "or"}
  <2>1. PICK k : k = WithState(m, p, a)
    OBVIOUS
  <2>2. Fine(k)
    BY <1>1, <2>1, StateFine
  <2>3. n = GateUpdate(k, o) /\ Out(o) \in Pads
    BY <1>2, <1>3, <1>5, <2>1
  <2>4. QED BY <1>1, <2>2, <2>3, GateFine
<1>6. CASE tile.class[o] = "not"
  <2>1. PICK k : k = WithState(m, p, b)
    OBVIOUS
  <2>2. Fine(k)
    BY <1>1, <2>1, StateFine
  <2>3. n = Update(k, Out(o), Own(b)) /\ Out(o) \in Pads
    BY <1>2, <1>3, <1>6, <2>1
  <2>4. QED BY <1>1, <2>2, <2>3, OutFine
<1>7. CASE tile.class[o] = "cmp"
  <2>1. PICK k : k = WithState(m, p, v)
    OBVIOUS
  <2>2. Fine(k)
    BY <1>1, <2>1, StateFine
  <2>3. n = CmpUpdate(k, o) /\ Out(o) \in Pads
    BY <1>2, <1>3, <1>7, <2>1
  <2>4. QED BY <1>1, <2>2, <2>3, CmpFine
<1>8. CASE tile.class[o] = "mux" /\ p[2] = "sel"
  <2>1. PICK k : k = WithState(m, p, v)
    OBVIOUS
  <2>2. Fine(k)
    BY <1>1, <2>1, StateFine
  <2>3. n = MuxUpdate(k, o) /\ Out(o) \in Pads
    BY <1>2, <1>3, <1>8, <2>1
  <2>4. QED BY <1>1, <2>2, <2>3, MuxFine
<1>9. CASE tile.class[o] = "mux" /\ p[2] # "sel"
  <2>1. PICK k : k = Push(m, "output", p, s)
    OBVIOUS
  <2>2. Mux(p) /\ Read(m, s) \in Given
    BY <1>9 DEF Mux, o
  <2>3. Fine(k) /\ k.pad = m.pad
    BY <2>1, <2>2, OutputFine
  <2>4. Read(k, s) \in Given /\ k \in Machine
    BY <2>2, <2>3 DEF Read, Fine
  <2>5. n = Update(k, p, s)
    BY <1>3, <1>9, <2>1
  <2>6. Takes(n, k, p, s)
    BY <2>4, <2>5, UpdateIs
  <2>7. QED BY <2>2, <2>3, <2>4, <2>6, TakesFine
<1>10. CASE tile.class[o] = "source"
  <2>1. n = Shown(m, o, v)
    BY <1>3, <1>10
  <2>2. QED BY <1>1, <2>1, ShownIs
<1>11. CASE tile.class[o] = "sink"
  BY <1>3, <1>11
<1>12. QED BY <1>2, <1>5, <1>6, <1>7, <1>8, <1>9, <1>10, <1>11 DEF Classes

LEMMA UpdateInputFine ==
  ASSUME tile \in Tiles, NEW m, Fine(m), NEW p \in Pads, p[1] \in DOMAIN tile.class, ~IsOut(p),
         NEW s \in Strings, Read(m, s) \in Given, NEW n, n = UpdateInput(m, p, s)
  PROVE  Fine(n)
<1>1. CASE m.pad[p].lock
  <2>1. n = [m EXCEPT !.warned = TRUE]
    BY <1>1 DEF UpdateInput
  <2>2. QED BY <2>1, WarnedFine
<1>2. CASE ~m.pad[p].lock
  <2>1. PICK k : k = Push([m EXCEPT !.pad[p].lock = TRUE], "unlock", p, s)
    OBVIOUS
  <2>2. n = Input(k, p, s)
    BY <1>2, <2>1, Zenon DEF UpdateInput
  <2>3. Enters(k, m, p, s)
    BY <2>1, EntersIs DEF Fine
  <2>4. Fine(k)
    BY <1>2, <2>3, EntersFine
  <2>5. Read(k, s) = Read(m, s)
    BY <2>3, SameValues DEF Enters
  <2>6. QED BY <2>2, <2>4, <2>5, InputFine
<1>3. QED BY <1>1, <1>2

LEMMA SinkFine ==
  ASSUME NEW m, Fine(m), NEW o \in DOMAIN tile.class, Out(o) \in Pads, NEW v \in Given,
         NEW n, n = SinkUpdate(m, o, v)
  PROVE  Fine(n)
<1>1. PICK k : k = Shown(m, o, v)
  OBVIOUS
<1>2. Fine(k)
  BY <1>1, ShownIs
<1>3. n = Update(k, Out(o), Own(v))
  BY <1>1, Zenon DEF SinkUpdate, Shown
<1>4. QED BY <1>2, <1>3, OutFine

\* A cmp is started.
Begun(m, o) == [m EXCEPT !.obj[o].started = TRUE]

LEMMA BegunIs ==
  ASSUME NEW m, Fine(m), NEW o \in DOMAIN tile.class, NEW n, n = Begun(m, o)
  PROVE  Fine(n) /\ Sets(n, m) /\ n.pad = m.pad
<1> DEFINE x == [m.obj[o] EXCEPT !.started = TRUE]
<1>1. m \in Machine /\ m.obj[o] \in ObjState
  BY MachineIs DEF Fine
<1>2. x \in ObjState
  BY <1>1 DEF ObjState
<1>3. n = WithObj(m, o, x)
  BY Zenon DEF WithObj, Begun
<1> HIDE DEF x
<1>4. Sets(n, m) /\ n.pad = m.pad
  BY <1>1, <1>2, <1>3, ObjSets
<1>5. QED BY <1>4, SetsFine

\* What the start method of the class comes to
LEMMA StartIs ==
  ASSUME NEW m, NEW o, NEW n, n = StartObject(m, o)
  PROVE  \/ tile.class[o] \in {"and", "or"} /\ n = GateUpdate(m, o)
         \/ tile.class[o] = "mux" /\ n = MuxUpdate(m, o)
         \/ /\ tile.class[o] = "cmp" /\ m.pad[Out(o)].state >= 0
            /\ n = Update(Begun(m, o), Out(o), Own(m.pad[Out(o)].state))
         \/ tile.class[o] = "cmp" /\ n = Begun(m, o)
         \/ /\ tile.class[o] = "sink" /\ m.pad[Out(o)].value # Unset
            /\ n = SinkUpdate(m, o, m.pad[Out(o)].value)
         \/ /\ n = m /\ tile.class[o] \notin {"and", "or", "mux"}
            /\ tile.class[o] = "sink" => m.pad[Out(o)].value = Unset
<1> DEFINE k == [m EXCEPT !.obj[o].started = TRUE]
           n1 == GateUpdate(m, o)
           n2 == MuxUpdate(m, o)
           n3 == Update(k, Out(o), Own(m.pad[Out(o)].state))
           n5 == SinkUpdate(m, o, m.pad[Out(o)].value)
           ge == m.pad[Out(o)].state >= 0
           lt == m.pad[Out(o)].state < 0
           v == m.pad[Out(o)].value
           class == tile.class[o]
<1>1. n = CASE class \in {"and", "or"} -> n1 [] class = "mux" -> n2
            [] class = "cmp" /\ ge -> n3 [] class = "cmp" /\ lt -> k
            [] class = "sink" /\ v # Unset -> n5 [] OTHER -> m
  BY Zenon DEF StartObject
<1>2. k = Begun(m, o)
  BY DEF Begun
<1> HIDE DEF k, n1, n2, n3, n5, ge, lt, v, class
<1>3. \/ class \in {"and", "or"} /\ n = n1
      \/ class = "mux" /\ n = n2
      \/ class = "cmp" /\ ge /\ n = n3
      \/ class = "cmp" /\ n = k
      \/ class = "sink" /\ v # Unset /\ n = n5
      \/ n = m /\ class \notin {"and", "or", "mux"} /\ (class = "sink" => v = Unset)
  BY <1>1
<1>4. QED BY <1>2, <1>3, Zenon DEF n1, n2, n3, n5, ge, v, class

LEMMA StartFine ==
  ASSUME tile \in Tiles, NEW m, Fine(m), NEW o \in DOMAIN tile.class, NEW n, n = StartObject(m, o)
  PROVE  Fine(n)
<1>1. tile.class[o] # "source" => Out(o) \in Pads
  BY HasPads
<1>2. m \in Machine
  BY DEF Fine
<1>3. CASE tile.class[o] \in {"and", "or"} /\ n = GateUpdate(m, o)
  BY <1>1, <1>3, GateFine
<1>4. CASE tile.class[o] = "mux" /\ n = MuxUpdate(m, o)
  BY <1>1, <1>4, MuxFine
<1>5. CASE /\ tile.class[o] = "cmp" /\ m.pad[Out(o)].state >= 0
           /\ n = Update(Begun(m, o), Out(o), Own(m.pad[Out(o)].state))
  <2>1. PICK k, v : k = Begun(m, o) /\ v = m.pad[Out(o)].state
    OBVIOUS
  <2>2. Fine(k) /\ Out(o) \in Pads
    BY <1>1, <1>5, <2>1, BegunIs
  <2>3. m.pad[Out(o)] \in PadState
    BY <1>2, <2>2, MachineIs
  <2>4. v \in Given
    BY <1>5, <2>1, <2>3 DEF PadState
  <2>5. n = Update(k, Out(o), Own(v))
    BY <1>5, <2>1
  <2>6. QED BY <2>2, <2>4, <2>5, OutFine
<1>6. CASE n = Begun(m, o)
  BY <1>6, BegunIs
<1>7. CASE /\ tile.class[o] = "sink" /\ m.pad[Out(o)].value # Unset
           /\ n = SinkUpdate(m, o, m.pad[Out(o)].value)
  <2>1. PICK v : v = m.pad[Out(o)].value
    OBVIOUS
  <2>2. Out(o) \in Pads
    BY <1>1, <1>7
  <2>3. m.pad[Out(o)] \in PadState
    BY <1>2, <2>2, MachineIs
  <2>4. v \in Given /\ n = SinkUpdate(m, o, v)
    BY <1>7, <2>1, <2>3 DEF PadState, Texts
  <2>5. QED BY <2>2, <2>4, SinkFine
<1>8. CASE n = m
  BY <1>8
<1>9. QED BY <1>3, <1>4, <1>5, <1>6, <1>7, <1>8, StartIs
-----------------------------------------------------------------------------
(* A step of the loop of hk_pad_update_str                                 *)

\* Only pads of objects of the tile are wired.
NetsInTile == \A p \in Pads : wiring.net[p] # 0 => p[1] \in DOMAIN tile.class

\* The list that a visit runs through, and what is left of it
ListOf(c) == wiring.pads[wiring.net[c.pad]]

LEMMA ListIs ==
  ASSUME WiringOK, NetsInTile, NEW c \in Calls, wiring.net[c.pad] # 0
  PROVE  /\ ListOf(c) \in Seq(Pads) /\ ToVisit(c) \in SUBSET Nat
         /\ \A k \in DOMAIN ListOf(c) : /\ ListOf(c)[k] \in Pads /\ wiring.net[ListOf(c)[k]] = wiring.net[c.pad]
                                        /\ ListOf(c)[k][1] \in DOMAIN tile.class
         /\ \A p \in Pads : wiring.net[p] = wiring.net[c.pad] => \E k \in DOMAIN ListOf(c) : ListOf(c)[k] = p
         /\ \A k : k \in ToVisit(c) <=> k \in DOMAIN ListOf(c) /\ k >= c.i /\ ListOf(c)[k] # c.pad /\ ~IsOut(ListOf(c)[k])
<1> DEFINE list == ListOf(c)
<1>1. c.pad \in Pads /\ c.i \in Nat \ {0}
  BY DEF Calls
<1>2. wiring.net[c.pad] \in DOMAIN wiring.pads /\ wiring.pads \in Seq(Seq(Pads))
  BY <1>1 DEF WiringOK, Sound, Pointed, Wirings
<1>3. list \in Seq(Pads)
  BY <1>2 DEF ListOf
<1>4. ASSUME NEW k \in DOMAIN list
      PROVE  list[k] \in Pads /\ wiring.net[list[k]] = wiring.net[c.pad]
  <2>1. list[k] \in Pads
    BY <1>3
  <2>2. QED BY <1>2, <2>1 DEF WiringOK, Sound, Listed, ListOf
<1>5. \A p \in Pads : wiring.net[p] = wiring.net[c.pad] => \E k \in DOMAIN list : list[k] = p
  BY DEF WiringOK, Sound, Pointed, ListOf
<1>6. ToVisit(c) = {k \in c.i..Len(list) : list[k] # c.pad /\ ~IsOut(list[k])}
  BY DEF ToVisit, ListOf
<1>7. DOMAIN list = 1..Len(list) /\ Len(list) \in Nat
  BY <1>3
<1> HIDE DEF list
<1>8. /\ ToVisit(c) \in SUBSET Nat
      /\ \A k : k \in ToVisit(c) <=> k \in DOMAIN list /\ k >= c.i /\ list[k] # c.pad /\ ~IsOut(list[k])
  BY <1>1, <1>6, <1>7
<1>9. \A k \in DOMAIN list : list[k][1] \in DOMAIN tile.class
  BY <1>4 DEF NetsInTile
<1>10. QED BY <1>3, <1>4, <1>5, <1>8, <1>9 DEF list

LEMMA FirstOfLeast == ASSUME NEW S \in SUBSET Nat, S # {} PROVE FirstOf(S) \in S /\ \A j \in S : FirstOf(S) <= j
BY LeastNat DEF FirstOf

\* A visit ends, or moves on and updates an input.
LEMMA VisitIs ==
  ASSUME WiringOK, NetsInTile, NEW m \in Machine, m = M, m.stack # <<>>, NEW c, c = Head(m.stack),
         wiring.net[c.pad] # 0, NEW n, n = Visit(c)
  PROVE  /\ c = m.stack[1] /\ c \in Calls
         /\ \/ ToVisit(c) = {} /\ n = Without(Drop(m), c.pad)
            \/ \E k \in DOMAIN ListOf(c), x \in Machine :
                 /\ k \in ToVisit(c) /\ \A j \in ToVisit(c) : k <= j
                 /\ Moves(x, m, k + 1) /\ k \in Nat
                 /\ n = UpdateInput(x, ListOf(c)[k], c.value)
<1>1. c = m.stack[1] /\ c \in Calls
  BY DropIs
<1>2. CASE ToVisit(c) = {}
  <2>1. n = [Drop(m) EXCEPT !.pad[c.pad].lock = FALSE]
    BY <1>2, Zenon DEF Visit
  <2>2. QED BY <1>1, <1>2, <2>1 DEF Without
<1>3. CASE ToVisit(c) # {}
  <2>1. PICK k : k = FirstOf(ToVisit(c))
    OBVIOUS
  <2>2. PICK x : x = [m EXCEPT !.stack[1].i = k + 1]
    OBVIOUS
  <2>3. k \in ToVisit(c) /\ (\A j \in ToVisit(c) : k <= j) /\ k \in DOMAIN ListOf(c) /\ k \in Nat
    BY <1>1, <1>3, <2>1, ListIs, FirstOfLeast
  <2>4. n = UpdateInput(x, ListOf(c)[k], c.value)
    BY <1>3, <2>1, <2>2, Zenon DEF Visit, ListOf
  <2>5. PICK i \in Nat \ {0} : i = k + 1
    BY <2>3
  <2>6. x = [m EXCEPT !.stack[1].i = i]
    BY <2>2, <2>5, Zenon
  <2>7. Moves(x, m, i)
    BY <2>6, MovesIs
  <2>8. Moves(x, m, k + 1) /\ x \in Machine
    BY <2>5, <2>7 DEF Moves
  <2>9. QED BY <1>1, <2>3, <2>4, <2>8
<1>4. QED BY <1>2, <1>3

LEMMA VisitFine ==
  ASSUME tile \in Tiles, WiringOK, NetsInTile, NEW m, Fine(m), m = M, m.stack # <<>>,
         Head(m.stack).op = "visit", NEW n, n = Visit(Head(m.stack))
  PROVE  Fine(n)
<1>1. PICK c : c = Head(m.stack)
  OBVIOUS
<1>2. m \in Machine /\ n = Visit(c) /\ c.op = "visit"
  BY <1>1 DEF Fine
<1>3. c = m.stack[1] /\ c \in Calls /\ 1 \in DOMAIN m.stack
  <2>1. m.stack \in Seq(Calls)
    BY <1>2, MachineIs
  <2>2. QED BY <1>1, <2>1
<1>4. wiring.net[c.pad] # 0 /\ Read(m, c.value) \in Given /\ c.value \in Strings
  BY <1>2, <1>3 DEF Fine, CallOK, Calls
<1>5. CASE n = Without(Drop(m), c.pad)
  <2>1. Returns(n, m)
    BY <1>2, <1>3, <1>5, ReturnsIs
  <2>2. QED BY <2>1, ReturnsFine
<1>6. CASE \E k \in DOMAIN ListOf(c), x \in Machine :
             /\ k \in ToVisit(c) /\ \A j \in ToVisit(c) : k <= j
             /\ Moves(x, m, k + 1) /\ k \in Nat
             /\ n = UpdateInput(x, ListOf(c)[k], c.value)
  <2>1. PICK k \in DOMAIN ListOf(c), x \in Machine :
             /\ k \in ToVisit(c) /\ Moves(x, m, k + 1) /\ k \in Nat
             /\ n = UpdateInput(x, ListOf(c)[k], c.value)
    BY <1>6
  <2>2. PICK i \in Nat \ {0} : i = k + 1
    BY <2>1
  <2>3. Fine(x)
    BY <2>1, <2>2, MovesFine
  <2>4. Read(x, c.value) = Read(m, c.value)
    BY <2>1 DEF Moves, Read
  <2>5. PICK p : p = ListOf(c)[k]
    OBVIOUS
  <2>6. p \in Pads /\ p[1] \in DOMAIN tile.class /\ ~IsOut(p)
    BY <1>3, <1>4, <2>1, <2>5, ListIs
  <2>7. n = UpdateInput(x, p, c.value)
    BY <2>1, <2>5
  <2>8. QED BY <1>4, <2>3, <2>4, <2>6, <2>7, UpdateInputFine
<1>7. QED BY <1>1, <1>2, <1>4, <1>5, <1>6, VisitIs

\* The nets of w hold only pads of the tile.
Holds(w) == \A p \in Pads : w.net[p] # 0 => p[1] \in DOMAIN tile.class

LEMMA ConnectHolds ==
  ASSUME NEW w, w.net \in [Pads -> Nat], Holds(w), NEW n \in Nat, NEW p \in PadsOf(tile)
  PROVE  Holds(NetConnect(w, n, p)) /\ NetConnect(w, n, p).net \in [Pads -> Nat]
<1>1. p \in Pads /\ p[1] \in DOMAIN tile.class
  BY DEF PadsOf
<1>2. PICK c : c = NetConnect(w, n, p)
  OBVIOUS
<1>3. c.net = w.net \/ c.net = [w.net EXCEPT ![p] = n]
  BY <1>2 DEF NetConnect, Listing
<1>4. c.net \in [Pads -> Nat] /\ \A q \in Pads : q # p => c.net[q] = w.net[q]
  BY <1>3
<1>5. Holds(c)
  BY <1>1, <1>4 DEF Holds
<1>6. QED BY <1>2, <1>4, <1>5

LEMMA ObjNetHolds ==
  ASSUME NEW w, Sound(w), Holds(w), NEW p \in PadsOf(tile), NEW q \in PadsOf(tile)
  PROVE  Holds(ObjNet(w, p, q))
<1>1. p \in Pads /\ q \in Pads /\ w.net \in [Pads -> Nat]
  BY DEF PadsOf, Sound, Wirings
<1>2. CASE w.net[p] # 0 /\ w.net[q] # 0
  <2>1. PICK c, n, m : c = ObjNet(w, p, q) /\ n = w.net[p] /\ m = w.net[q]
    OBVIOUS
  <2>2. c = NetMerge(w, n, m)
    BY <1>2, <2>1 DEF ObjNet
  <2>3. n \in DOMAIN w.pads /\ m \in DOMAIN w.pads /\ m # 0
    BY <1>1, <1>2, <2>1, NetInUse
  <2>4. ASSUME NEW k \in DOMAIN w.pads[m] PROVE w.net[w.pads[m][k]] = m
    BY <2>3, <2>4 DEF Sound, Listed
  <2>5. c.net = w.net \/ c.net = [r \in Pads |-> IF \E k \in DOMAIN w.pads[m] : w.pads[m][k] = r THEN n ELSE w.net[r]]
    BY <2>2 DEF NetMerge
  <2>6. \A r \in Pads : c.net[r] # 0 => w.net[r] # 0
    BY <2>3, <2>4, <2>5
  <2>7. QED BY <2>1, <2>6 DEF Holds
<1>3. CASE w.net[p] # 0 /\ w.net[q] = 0
  <2>1. ObjNet(w, p, q) = NetConnect(w, w.net[p], q)
    BY <1>3 DEF ObjNet
  <2>2. QED BY <1>1, <2>1, ConnectHolds
<1>4. CASE w.net[p] = 0 /\ w.net[q] # 0
  <2>1. ObjNet(w, p, q) = NetConnect(w, w.net[q], p)
    BY <1>4 DEF ObjNet
  <2>2. QED BY <1>1, <2>1, ConnectHolds
<1>5. CASE w.net[p] = 0 /\ w.net[q] = 0
  <2>1. PICK c, n : c = NetCreate(w) /\ n = NetCreated(w)
    OBVIOUS
  <2>2. ObjNet(w, p, q) = NetConnect(NetConnect(c, n, p), n, q)
    BY <1>5, <2>1 DEF ObjNet
  <2>3. Sound(c) /\ n \in DOMAIN c.pads /\ c.net = w.net
    BY <2>1, CreateSound
  <2>4. n \in Nat /\ Holds(c)
    BY <2>3 DEF Sound, Wirings, Holds
  <2>5. PICK d : d = NetConnect(c, n, p)
    OBVIOUS
  <2>6. Holds(d) /\ d.net \in [Pads -> Nat]
    BY <1>1, <2>3, <2>4, <2>5, ConnectHolds
  <2>7. Holds(NetConnect(d, n, q))
    BY <2>4, <2>6, ConnectHolds
  <2>8. QED BY <2>2, <2>5, <2>7
<1>6. QED BY <1>2, <1>3, <1>4, <1>5

LEMMA HoldsKept == ASSUME LoadInv, NetsInTile, [Next]_vars PROVE Holds(wiring')
<1>1. Sound(wiring) /\ Holds(wiring) /\ tile \in Tiles
  BY DEF LoadInv, WiringOK, NetsInTile, Holds
<1>2. CASE wiring' = wiring
  BY <1>1, <1>2
<1>3. CASE LoadNet
  <2>1. CASE wiring' = NetCreate(wiring)
    BY <1>1, <2>1 DEF NetCreate, Holds
  <2>2. CASE /\ at.pos \in DOMAIN tile.lines[at.line]
             /\ wiring' = NetConnect(wiring, wiring.table[Len(wiring.table)], tile.lines[at.line][at.pos])
    <3>1. at.phase = "load" /\ at.line \in DOMAIN tile.lines
      BY <1>3 DEF LoadNet
    <3>2. tile.lines[at.line][at.pos] \in PadsOf(tile) /\ at.pos # 0
      BY <1>1, <2>2, <3>1, LinePad
    <3>3. LastNet(wiring) \in DOMAIN wiring.id
      BY <3>1, <3>2 DEF LoadInv, LineInv
    <3>4. wiring.table[Len(wiring.table)] \in Nat /\ wiring.net \in [Pads -> Nat]
      BY <1>1, <3>3 DEF Sound, Wirings, LastNet
    <3>5. QED BY <1>1, <2>2, <3>2, <3>4, ConnectHolds
  <2>3. QED BY <1>3, <2>1, <2>2 DEF LoadNet
<1>4. CASE Setup
  <2>1. CASE /\ tile.setup[at.line].ref # NoPad /\ at.line \in DOMAIN tile.setup
             /\ wiring' = ObjNet(wiring, tile.setup[at.line].pad, tile.setup[at.line].ref)
    <3>1. tile.setup[at.line].pad \in PadsOf(tile) /\ tile.setup[at.line].ref \in PadsOf(tile)
      BY <1>1, <2>1, TileIs
    <3>2. QED BY <1>1, <2>1, <3>1, ObjNetHolds
  <2>2. QED BY <1>2, <1>4, <2>1 DEF Setup
<1>5. CASE Loaded \/ IsSetUp \/ IsStarted
  BY <1>2, <1>5 DEF Loaded, IsSetUp, IsStarted, NextPhase
<1>6. CASE Start \/ Propagate \/ UNCHANGED vars
  BY <1>2, <1>6 DEF Start, Propagate, vars
<1>7. CASE \E o \in Of("sink"), value \in Values : Receive(o, value)
  BY <1>2, <1>7 DEF Receive
<1>8. QED BY <1>3, <1>4, <1>5, <1>6, <1>7 DEF Next
-----------------------------------------------------------------------------
(* The tile is always fine                                                 *)

TileInv == LoadInv /\ NetsInTile /\ (at.phase = "load" => AtRest) /\ Fine(M)

WithValue(m, p, v) == [m EXCEPT !.pad[p].value = v]

LEMMA ValueFine ==
  ASSUME NEW m, Fine(m), NEW p \in Pads, NEW v \in Given, NEW n, n = WithValue(m, p, v)
  PROVE  Fine(n)
<1> DEFINE a == [m.pad[p] EXCEPT !.value = v]
<1>1. m \in Machine /\ m.pad[p] \in PadState
  BY MachineIs DEF Fine
<1>2. n = WithPad(m, p, a)
  BY Zenon DEF WithPad, WithValue
<1>3. a \in PadState /\ a.value = v /\ a.lock = m.pad[p].lock
  BY <1>1 DEF PadState, Texts
<1> HIDE DEF a
<1>4. /\ n \in Machine /\ n.stack = m.stack /\ n.pad[p] = a /\ \A q \in Pads : q # p => n.pad[q] = m.pad[q]
  BY <1>1, <1>2, <1>3, PadIs
<1>5. \A q \in Pads : /\ n.pad[q].value = m.pad[q].value \/ n.pad[q].value \in Given
                      /\ n.pad[q].lock = m.pad[q].lock
  BY <1>3, <1>4, Zenon
<1>6. ASSUME NEW k \in DOMAIN n.stack PROVE CallOK(n, n.stack[k])
  BY <1>1, <1>4, <1>5, <1>6, StackIs, CallKept DEF Fine
<1>7. LockInv(n)
  BY <1>4, <1>5 DEF Fine, LockInv, Unlocks
<1>8. QED BY <1>4, <1>6, <1>7 DEF Fine

LEMMA MIs == /\ M.pad = pad /\ M.obj = obj /\ M.stack = stack /\ M.fresh = fresh /\ M.warned = warned
BY DEF M

LEMMA BecomesIs ==
  ASSUME NEW n \in Machine, Becomes(n)
  PROVE  M' = n
<1>1. n = [pad |-> n.pad, obj |-> n.obj, stack |-> n.stack, fresh |-> n.fresh, warned |-> n.warned]
  BY MachineIs
<1>2. pad' = n.pad /\ obj' = n.obj /\ stack' = n.stack /\ fresh' = n.fresh /\ warned' = n.warned
  BY DEF Becomes
<1>3. QED BY <1>1, <1>2 DEF M

LEMMA FineNext ==
  ASSUME NEW n, Fine(n), Becomes(n), tile' = tile, wiring' = wiring
  PROVE  Fine(M)'
<1>1. M' = n
  BY BecomesIs DEF Fine
<1>2. Fine(M') = Fine(n)
  BY <1>1
<1>3. QED
  BY <1>1 DEF Fine, Machine, ObjState, CallOK, LockInv, Unlocks, Mux, IsOut, Read, Calls, Strings, PadState, Given, Texts

LEMMA RestFine ==
  ASSUME Fine(M), AtRest, UNCHANGED machine, tile' = tile
  PROVE  Fine(M)'
<1>1. M' = M /\ M.stack = <<>>
  BY DEF machine, M, AtRest
<1>2. M \in Machine
  BY DEF Fine
<1>3. (M \in Machine)'
  BY <1>1, <1>2 DEF Machine, ObjState, Calls, Strings, PadState, Given, Texts
<1>4. DOMAIN M'.stack = {}
  BY <1>1
<1>5. QED BY <1>3, <1>4 DEF Fine, LockInv

LEMMA StayFine ==
  ASSUME Fine(M), UNCHANGED machine, tile' = tile, wiring' = wiring
  PROVE  Fine(M)'
<1>1. Becomes(M)
  BY DEF Becomes, machine, M
<1>2. QED BY <1>1, FineNext

LEMMA InitFine == Init => Fine(M)
<1>1. SUFFICES ASSUME Init PROVE Fine(M)
  OBVIOUS
<1>2. pad \in [Pads -> PadState]
  <2>1. \A p \in Pads : [value |-> Unset, lock |-> FALSE, state |-> IF IsOut(p) /\ p[1] \in Of("cmp") THEN -1 ELSE 0] \in PadState
    BY DEF PadState, Texts, Given
  <2>2. QED BY <1>1, <2>1 DEF Init
<1>3. obj \in [DOMAIN tile.class -> ObjState]
  <2>1. [refresh |-> TRUE, started |-> FALSE, ep |-> Unset] \in ObjState
    BY DEF ObjState, Texts
  <2>2. QED BY <1>1, <2>1 DEF Init
<1>4. stack = <<>> /\ fresh \in SUBSET Pads /\ warned \in BOOLEAN
  BY <1>1 DEF Init
<1>5. M \in Machine /\ DOMAIN M.stack = {}
  BY <1>2, <1>3, <1>4 DEF M, Machine
<1>6. QED BY <1>5 DEF Fine, LockInv

LEMMA PropagateFine ==
  ASSUME TileInv, Propagate
  PROVE  \E n : Fine(n) /\ Becomes(n)
<1>1. PICK m : m = M
  OBVIOUS
<1>2. Fine(m) /\ m.stack = stack /\ m.stack # <<>> /\ m \in Machine /\ tile \in Tiles /\ WiringOK /\ NetsInTile
  BY <1>1, MIs DEF TileInv, LoadInv, Fine, Propagate, AtRest
<1>3. PICK call : call = Head(stack)
  OBVIOUS
<1>4. call = m.stack[1] /\ call \in Calls /\ CallOK(m, call)
  <2>1. 1 \in DOMAIN m.stack /\ call = m.stack[1] /\ call \in Calls
    <3>1. m.stack \in Seq(Calls)
      BY <1>2, MachineIs
    <3>2. QED BY <1>2, <1>3, <3>1
  <2>2. QED BY <1>2, <2>1 DEF Fine
<1>5. CASE call.op = "visit" /\ Becomes(Visit(call))
  <2>1. PICK n : n = Visit(call)
    OBVIOUS
  <2>2. Fine(n)
    BY <1>1, <1>2, <1>3, <1>5, <2>1, VisitFine
  <2>3. QED BY <1>5, <2>1, <2>2
<1>6. CASE call.op = "unlock" /\ Becomes([Drop(M) EXCEPT !.pad[call.pad].lock = FALSE])
  <2>1. PICK p, n : p = m.stack[1].pad /\ n = Without(Drop(m), p)
    OBVIOUS
  <2>2. Returns(n, m)
    BY <1>2, <2>1, ReturnsIs
  <2>3. Fine(n)
    BY <1>2, <2>2, ReturnsFine
  <2>4. n = [Drop(M) EXCEPT !.pad[call.pad].lock = FALSE]
    BY <1>1, <1>4, <2>1 DEF Without
  <2>5. QED BY <1>6, <2>3, <2>4
<1>7. CASE call.op = "output" /\ Becomes(MuxUpdate(Drop(M), call.pad[1]))
  <2>1. PICK k, o, n : k = Drop(m) /\ o = call.pad[1] /\ n = MuxUpdate(k, o)
    OBVIOUS
  <2>2. Returns(k, m)
    BY <1>2, <2>1, DropIs
  <2>3. Fine(k)
    BY <1>2, <2>2, ReturnsFine
  <2>4. o \in DOMAIN tile.class /\ tile.class[o] = "mux"
    BY <1>4, <1>7, <2>1 DEF CallOK, Mux
  <2>5. Out(o) \in Pads
    BY <1>2, <2>4, HasPads
  <2>6. Fine(n)
    BY <2>1, <2>3, <2>4, <2>5, MuxFine
  <2>7. QED BY <1>1, <1>7, <2>1, <2>6
<1>8. QED BY <1>3, <1>5, <1>6, <1>7 DEF Propagate

LEMMA SetupFine ==
  ASSUME TileInv, Setup
  PROVE  \/ wiring' = wiring /\ \E n : Fine(n) /\ Becomes(n)
         \/ UNCHANGED machine
<1>1. PICK prop : prop = tile.setup[at.line]
  OBVIOUS
<1>2. PICK p, m, v : p = prop.pad /\ m = M /\ v = prop.preset
  OBVIOUS
<1>3. Fine(m) /\ tile \in Tiles /\ m \in Machine /\ at.line \in DOMAIN tile.setup
  BY <1>2 DEF TileInv, LoadInv, Fine, Setup
<1>4. p \in PadsOf(tile) /\ v \in Given
  BY <1>1, <1>2, <1>3, TileIs DEF Given
<1>5. p \in Pads /\ p[1] \in DOMAIN tile.class
  BY <1>4 DEF PadsOf
<1>6. CASE /\ wiring' = wiring
           /\ Becomes(IF IsOut(p) THEN Update(m, p, Own(v))
                      ELSE UpdateInput([m EXCEPT !.pad[p].value = v], p, Own(v)))
  <2>1. PICK s : s = Own(v)
    OBVIOUS
  <2>2. s \in Strings /\ \A k : Read(k, s) \in Given
    BY <1>4, <2>1, OwnIs
  <2>3. CASE IsOut(p)
    <3>1. PICK n : n = Update(m, p, s)
      OBVIOUS
    <3>2. Takes(n, m, p, s)
      BY <1>3, <1>5, <2>2, <3>1, UpdateIs
    <3>3. Fine(n)
      BY <1>3, <1>5, <2>2, <2>3, <3>2, TakesFine
    <3>4. QED BY <1>6, <2>1, <2>3, <3>1, <3>3
  <2>4. CASE ~IsOut(p)
    <3>1. PICK k : k = WithValue(m, p, v)
      OBVIOUS
    <3>2. PICK n : n = UpdateInput(k, p, s)
      OBVIOUS
    <3>3. Fine(k)
      BY <1>3, <1>4, <1>5, <3>1, ValueFine
    <3>4. Fine(n)
      BY <1>3, <1>5, <2>2, <2>4, <3>2, <3>3, UpdateInputFine
    <3>5. Becomes(n)
      BY <1>6, <2>1, <2>4, <3>1, <3>2 DEF WithValue
    <3>6. QED BY <1>6, <3>4, <3>5
  <2>5. QED BY <2>3, <2>4
<1>7. CASE UNCHANGED machine
  BY <1>7
<1>8. QED BY <1>1, <1>2, <1>6, <1>7 DEF Setup

LEMMA TileInvStep == TileInv /\ [Next]_vars => TileInv'
<1>1. SUFFICES ASSUME TileInv, [Next]_vars PROVE TileInv'
  OBVIOUS
<1>2. LoadInv /\ tile \in Tiles /\ NetsInTile /\ Fine(M) /\ AtOK
  BY <1>1 DEF TileInv, LoadInv
<1>3. LoadInv' /\ tile' = tile
  BY <1>1, <1>2, StepWires, LineKept, TileKept, WiringStep DEF LoadInv
<1>4. NetsInTile'
  BY <1>1, <1>2, <1>3, HoldsKept DEF Holds, NetsInTile
<1>5. (at.phase = "load" => AtRest)' /\ Fine(M)'
  <2>1. CASE LoadNet
    <3>1. UNCHANGED machine /\ AtRest
      BY <1>1, <2>1 DEF LoadNet, TileInv
    <3>2. Fine(M)'
      BY <1>2, <1>3, <3>1, RestFine
    <3>3. QED BY <3>1, <3>2 DEF AtRest, machine
  <2>2. CASE Loaded \/ IsSetUp \/ IsStarted
    <3>1. UNCHANGED machine /\ AtRest
      BY <2>2 DEF Loaded, IsSetUp, IsStarted, NextPhase
    <3>2. Fine(M)'
      BY <1>2, <1>3, <3>1, RestFine
    <3>3. QED BY <3>1, <3>2 DEF AtRest, machine
  <2>3. CASE Setup
    <3>1. at'.phase = "setup" /\ AtRest
      BY <1>2, <2>3 DEF Setup, AtOK
    <3>2. CASE wiring' = wiring /\ \E n : Fine(n) /\ Becomes(n)
      BY <1>3, <3>1, <3>2, FineNext
    <3>3. CASE UNCHANGED machine
      BY <1>2, <1>3, <3>1, <3>3, RestFine
    <3>4. QED BY <1>1, <2>3, <3>2, <3>3, SetupFine
  <2>4. CASE Start
    <3>1. at'.phase = "start" /\ wiring' = wiring
      BY <1>2, <2>4 DEF Start, AtOK
    <3>2. PICK o, n : o = tile.order[at.line] /\ n = StartObject(M, o)
      OBVIOUS
    <3>3. o \in DOMAIN tile.class /\ Becomes(n)
      BY <1>2, <2>4, <3>2, TileIs DEF Start
    <3>4. Fine(n)
      BY <1>2, <3>2, <3>3, StartFine
    <3>5. QED BY <1>3, <3>1, <3>3, <3>4, FineNext
  <2>5. CASE \E o \in Of("sink"), value \in Values : Receive(o, value)
    <3>1. PICK o \in Of("sink"), v \in Values : Receive(o, v)
      BY <2>5
    <3>2. PICK n : n = SinkUpdate(M, o, v)
      OBVIOUS
    <3>3. at' = at /\ at.phase = "run" /\ wiring' = wiring /\ Becomes(n)
      BY <3>1, <3>2 DEF Receive
    <3>4. o \in DOMAIN tile.class /\ tile.class[o] = "sink" /\ v \in Given
      BY DEF Of, Given
    <3>5. Out(o) \in Pads
      BY <1>2, <3>4, HasPads
    <3>6. Fine(n)
      BY <1>2, <3>2, <3>4, <3>5, SinkFine
    <3>7. QED BY <1>3, <3>3, <3>6, FineNext
  <2>6. CASE Propagate
    <3>1. at' = at /\ wiring' = wiring /\ ~AtRest
      BY <2>6 DEF Propagate
    <3>2. Fine(M)'
      BY <1>1, <1>3, <2>6, <3>1, PropagateFine, FineNext
    <3>3. QED BY <1>1, <3>1, <3>2 DEF TileInv
  <2>7. CASE UNCHANGED vars
    <3>1. UNCHANGED machine /\ wiring' = wiring /\ at' = at /\ stack' = stack
      BY <2>7 DEF vars, machine
    <3>2. Fine(M)'
      BY <1>2, <1>3, <3>1, StayFine
    <3>3. QED BY <1>1, <3>1, <3>2 DEF TileInv, AtRest
  <2>8. QED BY <1>1, <2>1, <2>2, <2>3, <2>4, <2>5, <2>6, <2>7 DEF Next
<1>6. QED BY <1>3, <1>4, <1>5 DEF TileInv

LEMMA TileInvInit == Init => TileInv
<1>1. SUFFICES ASSUME Init PROVE TileInv
  OBVIOUS
<1>2. LoadInv /\ Fine(M) /\ NetsInit
  BY <1>1, InitLoads, InitFine
<1>3. NetsInTile /\ AtRest
  BY <1>1, <1>2 DEF NetsInit, NoWiring, NetsInTile, Init, AtRest
<1>4. QED BY <1>2, <1>3 DEF TileInv

LEMMA FineCuts == TileInv => LoopsCut
<1>1. SUFFICES ASSUME TileInv PROVE LoopsCut
  OBVIOUS
<1>2. Fine(M) /\ AtOK /\ M \in Machine
  BY <1>1 DEF TileInv, LoadInv, Fine
<1>3. /\ M.pad = pad /\ M.obj = obj /\ M.stack = stack /\ M.fresh = fresh /\ M.warned = warned
  BY MIs
<1>4. TypeOK
  <2>1. \A k \in DOMAIN stack : stack[k] \in Calls /\ Read(M, stack[k].value) \in Given
    BY <1>2, <1>3, StackIs DEF Fine, CallOK
  <2>2. pad \in [Pads -> PadState] /\ obj \in [DOMAIN tile.class -> ObjState] /\ fresh \in SUBSET Pads /\ warned \in BOOLEAN
    BY <1>2, <1>3, MachineIs
  <2>3. PadState = [value : {Unset, 0, 1} \cup Values, state : {-1, 0, 1} \cup Values, lock : BOOLEAN]
    <3>1. Texts = {Unset, 0, 1} \cup Values /\ {-1} \cup Given = {-1, 0, 1} \cup Values
      BY DEF Texts, Given
    <3>2. QED BY <3>1 DEF PadState
  <2>4. ObjState = [refresh : BOOLEAN, started : BOOLEAN, ep : {Unset, 0, 1} \cup Values]
    <3>1. Texts = {Unset, 0, 1} \cup Values
      BY DEF Texts, Given
    <3>2. QED BY <3>1 DEF ObjState
  <2>5. at.phase \in {"load", "setup", "start", "run"} /\ at.line \in Nat /\ at.pos \in Nat
    BY <1>2 DEF AtOK
  <2>6. \A k \in DOMAIN stack : /\ stack[k].op \in {"visit", "unlock", "output"} /\ stack[k].pad \in Pads
                                /\ Read(M, stack[k].value) \in {0, 1} \cup Values
    BY <2>1 DEF Calls, Given
  <2>7. QED BY <2>2, <2>3, <2>4, <2>5, <2>6 DEF TypeOK
<1>5. ASSUME NEW p \in Pads, Entered(p) > 1 PROVE tile.class[p[1]] = "mux"
  <2>1. SUFFICES ASSUME ~Mux(p) PROVE FALSE
    BY DEF Mux
  <2>2. PICK S : S = {k \in DOMAIN stack : stack[k].op = "unlock" /\ stack[k].pad = p}
    OBVIOUS
  <2>3. \A j, k \in S : j = k
    BY <1>2, <1>3, <2>1, <2>2 DEF Fine, LockInv, Unlocks
  <2>4. S = {} \/ \E k : S = {k}
    BY <2>3
  <2>5. Cardinality(S) \in {0, 1}
    BY <2>4, FS_EmptySet, FS_Singleton
  <2>6. QED BY <1>5, <2>2, <2>5 DEF Entered
<1>6. QED BY <1>4, <1>5 DEF LoopsCut

\* In every tile, whatever values its sinks receive: pads, endpoints and calls hold what they
\* may, and the handler of an input (hk_pad_update_input) is not entered again before it has
\* returned, but for those of a mux: a loop of objects is cut.
THEOREM LoopsAreCut == Spec => []LoopsCut
BY TileInvInit, TileInvStep, FineCuts, PTL DEF Spec
-----------------------------------------------------------------------------
(* How the values come to agree.  While calls are under way, an input that *)
(* does not hold what the output of its net holds is still to be visited,  *)
(* and an output that was sent again before its first round was over will  *)
(* meet the input that this round is at, which is locked, and be reported. *)

Visits(m, k, out) == m.stack[k].op = "visit" /\ m.stack[k].pad = out

\* No call hands on the buffer of a pad.
Plain(m) == \A k \in DOMAIN m.stack : m.stack[k].value.of = NoPad

\* A round that is interrupted is at the input whose handler runs above it.
IsAt(c, p) == \E i \in Nat \ {0} : i \in DOMAIN ListOf(c) /\ c.i = i + 1 /\ ListOf(c)[i] = p
Busy(m) == \A k \in DOMAIN m.stack : k # 1 /\ m.stack[k].op = "visit" =>
             m.stack[k - 1].op = "unlock" /\ IsAt(m.stack[k], m.stack[k - 1].pad)

\* Two rounds of an output: the one that began later is behind.
Twice(m, out, j, k) == j < k /\ Visits(m, j, out) /\ Visits(m, k, out)
Nested(m) == \A out \in Pads : \A j, k \in DOMAIN m.stack : Twice(m, out, j, k) => m.stack[j].i < m.stack[k].i
Doomed(m) == \E out \in Pads : \E j, k \in DOMAIN m.stack : Twice(m, out, j, k)

\* A round hands on what its output holds.
Carried(m) == \A k \in DOMAIN m.stack : m.stack[k].op = "visit" => m.stack[k].value.text = m.pad[m.stack[k].pad].value

Rcvd(m, p, v) ==
  /\ tile.class[p[1]] \in {"and", "or"} => m.pad[p].state = NotZero(v)
  /\ tile.class[p[1]] = "not" => m.pad[p].state = IsZero(v)
  /\ tile.class[p[1]] = "cmp" => m.pad[p].state = v
  /\ tile.class[p[1]] = "source" => m.obj[p[1]].ep = v

ToCome(m, out, p) == \E k \in DOMAIN m.stack : Visits(m, k, out) /\
                       \E i \in DOMAIN ListOf(m.stack[k]) : i >= m.stack[k].i /\ ListOf(m.stack[k])[i] = p

\* Inputs, but for those in E, agree with the outputs set since all was wired.
Agrees(m, E) == \A out \in m.fresh : IsOut(out) =>
                  \A p \in Driven(out) \ E : Rcvd(m, p, m.pad[out].value) \/ ToCome(m, out, p)

\* Outputs of objects, but for those in X, are what their inputs make of them.
Shows(m, o) == tile.class[o] \in {"and", "or"} /\ Out(o) \in m.fresh => m.pad[Out(o)].value = m.pad[Out(o)].state
MadeOf(m, o) == Out(o) \in m.fresh =>
                  /\ tile.class[o] \in {"and", "or"} => m.pad[Out(o)].state = GateOut(m, o)
                  /\ tile.class[o] = "not" => \A p \in Inputs(o) : m.pad[Out(o)].value = m.pad[p].state
Made(m, X) == \A o \in DOMAIN tile.class \ X : Shows(m, o) /\ MadeOf(m, o)

FreshOK(m) == /\ \A p \in m.fresh : p[1] \in DOMAIN tile.class
              /\ at.phase \in {"load", "setup"} => m.fresh = {}

Follows(m, E, X) == /\ Plain(m) /\ Busy(m) /\ FreshOK(m) /\ Made(m, X)
                    /\ ~m.warned => Nested(m) /\ (Doomed(m) \/ (Carried(m) /\ Agrees(m, E)))

\* A call may begin that is not one of an input handler.
Open(m) == 1 \in DOMAIN m.stack => m.stack[1].op # "visit"
-----------------------------------------------------------------------------
(* A call begins                                                           *)

LEMMA AbovePlain ==
  ASSUME NEW m, NEW n, NEW c, Above(n, m, c), Plain(m), c.value.of = NoPad
  PROVE  Plain(n)
BY DEF Above, Plain

LEMMA AboveBusy ==
  ASSUME NEW m \in Machine, NEW n, NEW c, Above(n, m, c), Busy(m),
         1 \in DOMAIN m.stack /\ m.stack[1].op = "visit" => c.op = "unlock" /\ IsAt(m.stack[1], c.pad)
  PROVE  Busy(n)
<1>1. SUFFICES ASSUME NEW k \in DOMAIN n.stack, k # 1, n.stack[k].op = "visit"
               PROVE  n.stack[k - 1].op = "unlock" /\ IsAt(n.stack[k], n.stack[k - 1].pad)
  BY DEF Busy
<1>2. k \in Nat \ {0} /\ k - 1 \in DOMAIN m.stack /\ n.stack[k] = m.stack[k - 1]
  BY <1>1 DEF Above
<1>3. CASE k - 1 = 1
  <2>1. n.stack[k - 1] = c
    BY <1>3 DEF Above
  <2>2. QED BY <1>1, <1>2, <1>3, <2>1
<1>4. CASE k - 1 # 1
  <2>1. m.stack[k - 1 - 1].op = "unlock" /\ IsAt(m.stack[k - 1], m.stack[k - 1 - 1].pad)
    BY <1>1, <1>2, <1>4 DEF Busy
  <2>2. PICK s \in Seq(Calls) : s = m.stack
    BY MachineIs
  <2>3. k - 1 - 1 \in DOMAIN m.stack
    BY <1>2, <1>4, <2>2
  <2>4. n.stack[k - 1] = m.stack[k - 1 - 1]
    <3>1. PICK j \in DOMAIN m.stack : j = k - 1 - 1
      BY <2>3
    <3>2. n.stack[j + 1] = m.stack[j] /\ j + 1 = k - 1
      BY <1>2, <3>1 DEF Above
    <3>3. QED BY <3>1, <3>2
  <2>5. QED BY <1>2, <2>1, <2>4
<1>5. QED BY <1>3, <1>4

LEMMA AboveNested ==
  ASSUME NEW m, NEW n, NEW c, Above(n, m, c), Nested(m), Busy(n), c.i = 1
  PROVE  Nested(n)
<1>1. SUFFICES ASSUME NEW out \in Pads, NEW j \in DOMAIN n.stack, NEW k \in DOMAIN n.stack, Twice(n, out, j, k)
               PROVE  n.stack[j].i < n.stack[k].i
  BY DEF Nested
<1>2. j \in Nat \ {0} /\ k \in Nat \ {0} /\ j < k /\ k # 1
  BY <1>1 DEF Above, Twice
<1>3. CASE j = 1
  <2>1. n.stack[j].i = 1
    BY <1>3 DEF Above
  <2>2. IsAt(n.stack[k], n.stack[k - 1].pad)
    BY <1>1, <1>2 DEF Busy, Twice, Visits
  <2>3. QED BY <2>1, <2>2 DEF IsAt
<1>4. CASE j # 1
  <2>1. /\ j - 1 \in DOMAIN m.stack /\ n.stack[j] = m.stack[j - 1]
        /\ k - 1 \in DOMAIN m.stack /\ n.stack[k] = m.stack[k - 1]
    BY <1>2, <1>4 DEF Above
  <2>2. Twice(m, out, j - 1, k - 1)
    BY <1>1, <1>2, <2>1 DEF Twice, Visits
  <2>3. QED BY <2>1, <2>2 DEF Nested
<1>5. QED BY <1>3, <1>4

LEMMA AboveDoomed == ASSUME NEW m, NEW n, NEW c, Above(n, m, c), Doomed(m) PROVE Doomed(n)
<1>1. PICK out \in Pads, j \in DOMAIN m.stack, k \in DOMAIN m.stack : Twice(m, out, j, k)
  BY DEF Doomed
<1>2. /\ j + 1 \in DOMAIN n.stack /\ n.stack[j + 1] = m.stack[j] /\ j \in Nat
      /\ k + 1 \in DOMAIN n.stack /\ n.stack[k + 1] = m.stack[k] /\ k \in Nat
  BY DEF Above
<1>3. Twice(n, out, j + 1, k + 1)
  BY <1>1, <1>2 DEF Twice, Visits
<1>4. QED BY <1>2, <1>3 DEF Doomed

LEMMA AboveToCome ==
  ASSUME NEW m, NEW n, NEW c, Above(n, m, c), NEW out, NEW p, ToCome(m, out, p)
  PROVE  ToCome(n, out, p)
<1>1. PICK k \in DOMAIN m.stack : Visits(m, k, out) /\
        \E i \in DOMAIN ListOf(m.stack[k]) : i >= m.stack[k].i /\ ListOf(m.stack[k])[i] = p
  BY DEF ToCome
<1>2. k + 1 \in DOMAIN n.stack /\ n.stack[k + 1] = m.stack[k]
  BY DEF Above
<1>3. Visits(n, k + 1, out)
  BY <1>1, <1>2 DEF Visits
<1>4. QED BY <1>1, <1>2, <1>3 DEF ToCome

\* What GateOut looks at
LEMMA GateOutSame ==
  ASSUME NEW m, NEW n, NEW o, \A p \in Inputs(o) : n.pad[p].state = m.pad[p].state
  PROVE  GateOut(n, o) = GateOut(m, o)
BY DEF GateOut

\* Machines that differ in nothing that Made looks at, but for the objects of X
LEMMA MadeSame ==
  ASSUME NEW m, NEW n, NEW X, Made(m, X),
         \A o \in DOMAIN tile.class \ X : /\ Out(o) \in n.fresh => Out(o) \in m.fresh
                                          /\ Out(o) \in m.fresh => /\ n.pad[Out(o)].value = m.pad[Out(o)].value
                                                                    /\ n.pad[Out(o)].state = m.pad[Out(o)].state
                                          /\ \A p \in Inputs(o) : n.pad[p].state = m.pad[p].state
  PROVE  Made(n, X)
<1>1. SUFFICES ASSUME NEW o \in DOMAIN tile.class \ X PROVE Shows(n, o) /\ MadeOf(n, o)
  BY DEF Made
<1>2. Shows(m, o) /\ MadeOf(m, o) /\ GateOut(n, o) = GateOut(m, o)
  BY GateOutSame DEF Made
<1>3. QED BY <1>2 DEF Shows, MadeOf

LEMMA InputsIs == ASSUME NEW o, NEW p \in Inputs(o) PROVE p \in Pads /\ ~IsOut(p) /\ p[1] = o
BY DEF Inputs

LEMMA AboveCarried ==
  ASSUME NEW m \in Machine, NEW n, NEW c, Above(n, m, c), Carried(m),
         \A q \in Pads : n.pad[q].value = m.pad[q].value \/ \A k \in DOMAIN m.stack : ~Visits(m, k, q),
         c.op = "visit" => c.value.text = n.pad[c.pad].value
  PROVE  Carried(n)
<1>1. SUFFICES ASSUME NEW k \in DOMAIN n.stack, n.stack[k].op = "visit"
               PROVE  n.stack[k].value.text = n.pad[n.stack[k].pad].value
  BY DEF Carried
<1>2. CASE k = 1
  BY <1>1, <1>2 DEF Above
<1>3. CASE k # 1
  <2>1. PICK j : j = k - 1 /\ j \in DOMAIN m.stack /\ n.stack[k] = m.stack[j]
    BY <1>3 DEF Above
  <2>2. m.stack[j].pad \in Pads /\ Visits(m, j, m.stack[j].pad)
    BY <1>1, <2>1, StackIs DEF Visits
  <2>3. n.pad[m.stack[j].pad].value = m.pad[m.stack[j].pad].value
    BY <2>1, <2>2
  <2>4. m.stack[j].value.text = m.pad[m.stack[j].pad].value
    BY <2>1, <2>2 DEF Carried, Visits
  <2>5. QED BY <2>1, <2>3, <2>4
<1>4. QED BY <1>2, <1>3

LEMMA RcvdSame ==
  ASSUME NEW m, NEW n, NEW p, NEW v, Rcvd(m, p, v), n.pad[p].state = m.pad[p].state,
         tile.class[p[1]] = "source" => n.obj[p[1]].ep = m.obj[p[1]].ep
  PROVE  Rcvd(n, p, v)
BY DEF Rcvd

LEMMA DrivenIs ==
  ASSUME NEW out \in Pads, IsOut(out), NEW p \in Driven(out)
  PROVE  /\ p \in Pads /\ ~IsOut(p) /\ wiring.net[p] = wiring.net[out] /\ wiring.net[out] # 0
         /\ \A q \in Pads : IsOut(q) /\ wiring.net[q] = wiring.net[p] => q = out
BY DEF Driven

LEMMA EnterFollows ==
  ASSUME NEW m \in Machine, NEW n, NEW p \in Pads, ~IsOut(p), NEW s, s.of = NoPad, Enters(n, m, p, s),
         NEW E, NEW X, Follows(m, E, X),
         1 \in DOMAIN m.stack /\ m.stack[1].op = "visit" => IsAt(m.stack[1], p)
  PROVE  Follows(n, E, X) /\ Open(n)
<1>1. PICK c : c = [op |-> "unlock", pad |-> p, value |-> s, i |-> 1]
  OBVIOUS
<1>2. c.op = "unlock" /\ c.pad = p /\ c.value = s /\ c.i = 1 /\ Above(n, m, c)
  BY <1>1 DEF Enters
<1>3. /\ n.obj = m.obj /\ n.fresh = m.fresh /\ n.warned = m.warned /\ m.fresh \in SUBSET Pads
      /\ \A q \in Pads : n.pad[q].value = m.pad[q].value /\ n.pad[q].state = m.pad[q].state
      /\ \A q \in Pads : IsOut(q) => n.pad[q] = m.pad[q]
  BY MachineIs DEF Enters
<1>4. Plain(n) /\ Busy(n) /\ FreshOK(n)
  BY <1>2, <1>3, AbovePlain, AboveBusy DEF Follows, FreshOK
<1>5. Made(n, X)
  <2>1. ASSUME NEW o \in DOMAIN tile.class \ X
        PROVE  /\ Out(o) \in n.fresh => Out(o) \in m.fresh
               /\ Out(o) \in m.fresh => /\ n.pad[Out(o)].value = m.pad[Out(o)].value
                                         /\ n.pad[Out(o)].state = m.pad[Out(o)].state
               /\ \A q \in Inputs(o) : n.pad[q].state = m.pad[q].state
    BY <1>3, OutIs, InputsIs
  <2>2. QED BY <2>1, MadeSame DEF Follows
<1>6. ASSUME ~n.warned PROVE Nested(n) /\ (Doomed(n) \/ (Carried(n) /\ Agrees(n, E)))
  <2>1. Nested(m) /\ (Doomed(m) \/ (Carried(m) /\ Agrees(m, E)))
    BY <1>3, <1>6 DEF Follows
  <2>2. Nested(n)
    BY <1>2, <1>4, <2>1, AboveNested
  <2>3. CASE Doomed(m)
    BY <1>2, <2>2, <2>3, AboveDoomed
  <2>4. CASE Carried(m) /\ Agrees(m, E)
    <3>1. Carried(n)
      BY <1>2, <1>3, <2>4, AboveCarried
    <3>2. ASSUME NEW out \in n.fresh, IsOut(out), NEW q \in Driven(out) \ E
          PROVE  Rcvd(n, q, n.pad[out].value) \/ ToCome(n, out, q)
      <4>1. Rcvd(m, q, m.pad[out].value) \/ ToCome(m, out, q)
        BY <1>3, <2>4, <3>2 DEF Agrees
      <4>2. q \in Pads /\ out \in Pads /\ n.pad[out].value = m.pad[out].value /\ n.pad[q].state = m.pad[q].state
        BY <1>3, <3>2, DrivenIs
      <4>3. QED BY <1>2, <1>3, <4>1, <4>2, RcvdSame, AboveToCome
    <3>3. QED BY <2>2, <3>1, <3>2 DEF Agrees
  <2>5. QED BY <2>1, <2>3, <2>4
<1>7. Open(n)
  BY <1>2 DEF Above, Open
<1>8. QED BY <1>4, <1>5, <1>6, <1>7 DEF Follows

LEMMA OutOf ==
  ASSUME tile \in Tiles, NEW p \in Pads, IsOut(p)
  PROVE  p = Out(p[1])
<1>1. p = <<p[1], p[2]>>
  BY TileAssumption DEF TileAssumption
<1>2. QED BY <1>1 DEF IsOut, Out

\* An output takes a value: its net is gone through.
LEMMA TakeFollows ==
  ASSUME tile \in Tiles, WiringOK, NetsInTile, at.phase # "load", NEW m \in Machine, Fine(m), NEW n,
         NEW p \in Pads, IsOut(p), p[1] \in DOMAIN tile.class,
         NEW s \in Strings, s.of = NoPad, Takes(n, m, p, s), Open(m), Follows(m, {}, {p[1]})
  PROVE  Follows(n, {}, {p[1]})
<1>1. PICK c : c = [op |-> "visit", pad |-> p, value |-> s, i |-> 1]
  OBVIOUS
<1>2. c.op = "visit" /\ c.pad = p /\ c.value = s /\ c.i = 1 /\ (wiring.net[p] # 0 => Above(n, m, c)) /\ c \in Calls
  BY <1>1 DEF Takes, Calls
<1>3. /\ n.obj = m.obj /\ n.warned = m.warned /\ m.fresh \in SUBSET Pads
      /\ \A q \in Pads : n.pad[q].state = m.pad[q].state
      /\ \A q \in Pads : q # p => n.pad[q] = m.pad[q]
      /\ n.pad[p].value = s.text
      /\ n.fresh = m.fresh \/ (n.fresh = m.fresh \cup {p} /\ at.phase # "setup")
  BY MachineIs DEF Takes, Read
<1>4. FreshOK(n)
  BY <1>3 DEF Follows, FreshOK
<1>5. Made(n, {p[1]})
  <2>1. ASSUME NEW o \in DOMAIN tile.class \ {p[1]}
        PROVE  /\ Out(o) \in n.fresh => Out(o) \in m.fresh
               /\ Out(o) \in m.fresh => /\ n.pad[Out(o)].value = m.pad[Out(o)].value
                                         /\ n.pad[Out(o)].state = m.pad[Out(o)].state
               /\ \A q \in Inputs(o) : n.pad[q].state = m.pad[q].state
    <3>1. Out(o) # p
      BY <2>1, OutIs
    <3>2. QED BY <1>3, <3>1, InputsIs
  <2>2. QED BY <2>1, MadeSame DEF Follows
<1>6. CASE wiring.net[p] = 0
  <2>1. n.stack = m.stack
    BY <1>6 DEF Takes
  <2>2. Plain(n) /\ Busy(n)
    BY <2>1 DEF Follows, Plain, Busy
  <2>3. ASSUME ~n.warned PROVE Nested(n) /\ (Doomed(n) \/ (Carried(n) /\ Agrees(n, {})))
    <3>1. Nested(m) /\ (Doomed(m) \/ (Carried(m) /\ Agrees(m, {})))
      BY <1>3, <2>3 DEF Follows
    <3>2. Nested(n)
      BY <2>1, <3>1 DEF Nested, Twice, Visits
    <3>3. CASE Doomed(m)
      BY <2>1, <3>2, <3>3 DEF Doomed, Twice, Visits
    <3>4. CASE Carried(m) /\ Agrees(m, {})
      <4>1. ASSUME NEW k \in DOMAIN m.stack, m.stack[k].op = "visit" PROVE m.stack[k].pad # p /\ m.stack[k].pad \in Pads
        BY <1>6, <4>1, StackIs DEF Fine, CallOK
      <4>2. Carried(n)
        BY <1>3, <2>1, <3>4, <4>1 DEF Carried
      <4>3. ASSUME NEW out \in n.fresh, IsOut(out), NEW q \in Driven(out) \ {}
            PROVE  Rcvd(n, q, n.pad[out].value) \/ ToCome(n, out, q)
        <5>1. q \in Pads /\ out \in Pads /\ out # p /\ out \in m.fresh
          BY <1>3, <1>6, <4>3, DrivenIs
        <5>2. Rcvd(m, q, m.pad[out].value) \/ ToCome(m, out, q)
          BY <3>4, <4>3, <5>1 DEF Agrees
        <5>3. n.pad[out].value = m.pad[out].value /\ n.pad[q].state = m.pad[q].state
          BY <1>3, <5>1
        <5>4. ToCome(m, out, q) => ToCome(n, out, q)
          BY <2>1 DEF ToCome, Visits
        <5>5. QED BY <1>3, <5>2, <5>3, <5>4, RcvdSame
      <4>4. QED BY <3>2, <4>2, <4>3 DEF Agrees
    <3>5. QED BY <3>1, <3>3, <3>4
  <2>4. QED BY <1>4, <1>5, <2>2, <2>3 DEF Follows
<1>7. CASE wiring.net[p] # 0
  <2>1. Above(n, m, c)
    BY <1>2, <1>7
  <2>2. Plain(n) /\ Busy(n)
    BY <1>2, <2>1, AbovePlain, AboveBusy DEF Follows, Open
  <2>3. ASSUME ~n.warned PROVE Nested(n) /\ (Doomed(n) \/ (Carried(n) /\ Agrees(n, {})))
    <3>1. Nested(m) /\ (Doomed(m) \/ (Carried(m) /\ Agrees(m, {})))
      BY <1>3, <2>3 DEF Follows
    <3>2. Nested(n)
      BY <1>2, <2>1, <2>2, <3>1, AboveNested
    <3>3. CASE Doomed(m)
      BY <2>1, <3>2, <3>3, AboveDoomed
    <3>4. CASE \E k \in DOMAIN m.stack : Visits(m, k, p)
      <4>1. PICK k \in DOMAIN m.stack : Visits(m, k, p)
        BY <3>4
      <4>2. /\ k + 1 \in DOMAIN n.stack /\ n.stack[k + 1] = m.stack[k] /\ k \in Nat \ {0}
            /\ 1 \in DOMAIN n.stack /\ n.stack[1] = c
        BY <2>1 DEF Above
      <4>3. Twice(n, p, 1, k + 1)
        BY <1>2, <4>1, <4>2 DEF Twice, Visits
      <4>4. QED BY <3>2, <4>2, <4>3 DEF Doomed
    <3>5. CASE Carried(m) /\ Agrees(m, {}) /\ \A k \in DOMAIN m.stack : ~Visits(m, k, p)
      <4>1. Carried(n)
        BY <1>2, <1>3, <2>1, <3>5, AboveCarried
      <4>2. ASSUME NEW out \in n.fresh, IsOut(out), NEW q \in Driven(out) \ {}
            PROVE  Rcvd(n, q, n.pad[out].value) \/ ToCome(n, out, q)
        <5>1. q \in Pads /\ out \in Pads /\ (out \in m.fresh \/ out = p) /\ wiring.net[q] = wiring.net[out]
          BY <1>3, <4>2, DrivenIs
        <5>2. CASE out = p
          <6>1. PICK i \in DOMAIN ListOf(c) : ListOf(c)[i] = q
            BY <1>2, <1>7, <5>1, <5>2, ListIs
          <6>2. i >= c.i
            BY <1>2, <1>7, <6>1, ListIs
          <6>3. 1 \in DOMAIN n.stack /\ n.stack[1] = c /\ Visits(n, 1, p)
            BY <1>2, <2>1 DEF Above, Visits
          <6>4. QED BY <5>2, <6>1, <6>2, <6>3 DEF ToCome
        <5>3. CASE out # p
          <6>1. Rcvd(m, q, m.pad[out].value) \/ ToCome(m, out, q)
            BY <3>5, <4>2, <5>1, <5>3 DEF Agrees
          <6>2. n.pad[out].value = m.pad[out].value /\ n.pad[q].state = m.pad[q].state
            BY <1>3, <5>1, <5>3
          <6>3. QED BY <1>3, <2>1, <6>1, <6>2, RcvdSame, AboveToCome
        <5>4. QED BY <5>2, <5>3
      <4>3. QED BY <3>2, <4>1, <4>2 DEF Agrees
    <3>6. QED BY <3>1, <3>3, <3>4, <3>5
  <2>4. QED BY <1>4, <1>5, <2>2, <2>3 DEF Follows
<1>8. QED BY <1>6, <1>7

-----------------------------------------------------------------------------
(* A call ends, or goes on                                                 *)

\* The calls of m below the first are those of n.
Below(n, m) == /\ n.obj = m.obj /\ n.fresh = m.fresh /\ n.warned = m.warned
               /\ \A q \in Pads : n.pad[q].value = m.pad[q].value /\ n.pad[q].state = m.pad[q].state
               /\ \A k \in DOMAIN n.stack : k \in Nat \ {0} /\ k + 1 \in DOMAIN m.stack /\ n.stack[k] = m.stack[k + 1]
               /\ \A k \in DOMAIN m.stack : k \in Nat \ {0} /\ (k = 1 \/ (k - 1 \in DOMAIN n.stack /\ n.stack[k - 1] = m.stack[k]))

LEMMA ReturnsBelow == ASSUME NEW m \in Machine, NEW n, Returns(n, m) PROVE Below(n, m) /\ 1 \in DOMAIN m.stack
<1>1. PICK s \in Seq(Calls) : s = m.stack
  BY MachineIs
<1>2. DOMAIN s = 1..Len(s) /\ Len(s) \in Nat /\ s # <<>>
  BY <1>1 DEF Returns
<1>3. 1 \in DOMAIN m.stack /\ \A k \in DOMAIN m.stack : k \in Nat \ {0}
  BY <1>1, <1>2
<1>4. QED BY <1>3 DEF Returns, Below

\* The round of an output that is over: it is the only one, unless the loop was reported.
Over(c) == \A i \in DOMAIN ListOf(c) : i >= c.i => ListOf(c)[i] = c.pad \/ IsOut(ListOf(c)[i])

LEMMA VisitsOut ==
  ASSUME NEW m, Fine(m), Of("mux") = {}, NEW k \in DOMAIN m.stack
  PROVE  /\ m.stack[k].op \in {"visit", "unlock"} /\ m.stack[k] \in Calls /\ m.stack[k].pad \in Pads
         /\ m.stack[k].op = "visit" => IsOut(m.stack[k].pad) /\ wiring.net[m.stack[k].pad] # 0
         /\ m.stack[k].op = "unlock" => ~IsOut(m.stack[k].pad)
<1>1. CallOK(m, m.stack[k]) /\ m.stack[k] \in Calls /\ m.stack[k].pad \in Pads
  BY StackIs DEF Fine
<1>2. ~Mux(m.stack[k].pad)
  BY <1>1 DEF CallOK, Mux, Of
<1>3. QED BY <1>1, <1>2 DEF CallOK, Calls

LEMMA BelowDoomed ==
  ASSUME NEW m, NEW n, Below(n, m), NEW out \in Pads, NEW j \in DOMAIN m.stack, NEW k \in DOMAIN m.stack,
         Twice(m, out, j, k), j # 1
  PROVE  Doomed(n)
<1>1. j \in Nat \ {0} /\ k \in Nat \ {0} /\ j < k
  BY DEF Below, Twice
<1>2. /\ j - 1 \in DOMAIN n.stack /\ n.stack[j - 1] = m.stack[j]
      /\ k - 1 \in DOMAIN n.stack /\ n.stack[k - 1] = m.stack[k]
  BY <1>1 DEF Below
<1>3. Twice(n, out, j - 1, k - 1)
  BY <1>1, <1>2 DEF Twice, Visits
<1>4. QED BY <1>2, <1>3 DEF Doomed

LEMMA ReturnFollows ==
  ASSUME Of("mux") = {}, NEW m \in Machine, Fine(m), NEW n, Returns(n, m), Follows(m, {}, {}),
         m.stack[1].op = "visit" => Over(m.stack[1])
  PROVE  Follows(n, {}, {})
<1>1. Below(n, m) /\ 1 \in DOMAIN m.stack /\ m.fresh \in SUBSET Pads
  BY MachineIs, ReturnsBelow
<1>2. PICK c : c = m.stack[1]
  OBVIOUS
<1>3. Plain(n) /\ FreshOK(n)
  BY <1>1 DEF Follows, Plain, FreshOK, Below
<1>4. Busy(n)
  <2>1. SUFFICES ASSUME NEW k \in DOMAIN n.stack, k # 1, n.stack[k].op = "visit"
                 PROVE  n.stack[k - 1].op = "unlock" /\ IsAt(n.stack[k], n.stack[k - 1].pad)
    BY DEF Busy
  <2>2. k \in Nat \ {0} /\ k + 1 \in DOMAIN m.stack /\ n.stack[k] = m.stack[k + 1] /\ k + 1 # 1 /\ k + 1 - 1 = k
    BY <1>1 DEF Below
  <2>3. m.stack[k].op = "unlock" /\ IsAt(m.stack[k + 1], m.stack[k].pad)
    BY <2>1, <2>2 DEF Follows, Busy
  <2>4. n.stack[k - 1] = m.stack[k]
    <3>1. PICK s \in Seq(Calls) : s = m.stack
      BY MachineIs
    <3>2. k \in DOMAIN m.stack
      BY <2>2, <3>1
    <3>3. QED BY <1>1, <2>1, <3>2 DEF Below
  <2>5. QED BY <2>2, <2>3, <2>4
<1>5. Made(n, {})
  <2>1. ASSUME NEW o \in DOMAIN tile.class \ {}
        PROVE  /\ Out(o) \in n.fresh => Out(o) \in m.fresh
               /\ Out(o) \in m.fresh => /\ n.pad[Out(o)].value = m.pad[Out(o)].value
                                        /\ n.pad[Out(o)].state = m.pad[Out(o)].state
               /\ \A q \in Inputs(o) : n.pad[q].state = m.pad[q].state
    BY <1>1, InputsIs DEF Below
  <2>2. QED BY <2>1, MadeSame DEF Follows
<1>6. ASSUME ~n.warned PROVE Nested(n) /\ (Doomed(n) \/ (Carried(n) /\ Agrees(n, {})))
  <2>1. Nested(m) /\ (Doomed(m) \/ (Carried(m) /\ Agrees(m, {}))) /\ Busy(m)
    BY <1>1, <1>6 DEF Follows, Below
  <2>2. Nested(n)
    <3>1. SUFFICES ASSUME NEW out \in Pads, NEW j \in DOMAIN n.stack, NEW k \in DOMAIN n.stack, Twice(n, out, j, k)
                   PROVE  n.stack[j].i < n.stack[k].i
      BY DEF Nested
    <3>2. /\ j + 1 \in DOMAIN m.stack /\ n.stack[j] = m.stack[j + 1] /\ j \in Nat
          /\ k + 1 \in DOMAIN m.stack /\ n.stack[k] = m.stack[k + 1] /\ k \in Nat
      BY <1>1 DEF Below
    <3>3. Twice(m, out, j + 1, k + 1)
      BY <3>1, <3>2 DEF Twice, Visits
    <3>4. QED BY <2>1, <3>2, <3>3 DEF Nested
  <2>3. CASE Doomed(m)
    <3>1. PICK out \in Pads, j \in DOMAIN m.stack, k \in DOMAIN m.stack : Twice(m, out, j, k)
      BY <2>3 DEF Doomed
    <3>2. j # 1
      <4>1. SUFFICES ASSUME j = 1 PROVE FALSE
        OBVIOUS
      <4>2. /\ c.op = "visit" /\ c.pad = out /\ IsOut(out) /\ m.stack[k].op = "visit" /\ m.stack[k].pad = out
            /\ c.i \in Nat /\ m.stack[k].i \in Nat /\ k \in Nat \ {0} /\ k # 1 /\ c.i < m.stack[k].i
        BY <1>1, <1>2, <2>1, <3>1, <4>1, VisitsOut DEF Twice, Visits, Calls, Below, Nested
      <4>3. m.stack[k - 1].op = "unlock" /\ IsAt(m.stack[k], m.stack[k - 1].pad)
        BY <2>1, <4>2 DEF Busy
      <4>4. ~IsOut(m.stack[k - 1].pad)
        <5>1. PICK s \in Seq(Calls) : s = m.stack
          BY MachineIs
        <5>2. k - 1 \in DOMAIN m.stack
          BY <4>2, <5>1
        <5>3. QED BY <4>3, <5>2, VisitsOut
      <4>5. PICK i \in Nat \ {0} : /\ i \in DOMAIN ListOf(m.stack[k]) /\ m.stack[k].i = i + 1
                                   /\ ListOf(m.stack[k])[i] = m.stack[k - 1].pad
        BY <4>3 DEF IsAt
      <4>6. ListOf(m.stack[k]) = ListOf(c) /\ i >= c.i
        BY <4>2, <4>5 DEF ListOf
      <4>7. QED BY <1>2, <4>2, <4>4, <4>5, <4>6 DEF Over
    <3>3. QED BY <1>1, <2>2, <3>1, <3>2, BelowDoomed
  <2>4. CASE Carried(m) /\ Agrees(m, {})
    <3>1. Carried(n)
      <4>1. ASSUME NEW k \in DOMAIN n.stack, n.stack[k].op = "visit"
            PROVE  n.stack[k].value.text = n.pad[n.stack[k].pad].value
        <5>1. PICK j \in DOMAIN m.stack : n.stack[k] = m.stack[j]
          BY <1>1 DEF Below
        <5>2. m.stack[j].value.text = m.pad[m.stack[j].pad].value /\ m.stack[j].pad \in Pads
          BY <2>4, <4>1, <5>1, StackIs DEF Carried
        <5>3. QED BY <1>1, <5>1, <5>2 DEF Below
      <4>2. QED BY <4>1 DEF Carried
    <3>2. ASSUME NEW out \in n.fresh, IsOut(out), NEW q \in Driven(out) \ {}
          PROVE  Rcvd(n, q, n.pad[out].value) \/ ToCome(n, out, q)
      <4>1. out \in m.fresh /\ out \in Pads /\ q \in Pads /\ ~IsOut(q) /\ n.pad[out].value = m.pad[out].value /\ n.pad[q].state = m.pad[q].state
        BY <1>1, <3>2, DrivenIs DEF Below
      <4>2. CASE Rcvd(m, q, m.pad[out].value)
        BY <1>1, <4>1, <4>2, RcvdSame DEF Below
      <4>3. CASE ToCome(m, out, q)
        <5>1. PICK k \in DOMAIN m.stack : Visits(m, k, out) /\
                \E i \in DOMAIN ListOf(m.stack[k]) : i >= m.stack[k].i /\ ListOf(m.stack[k])[i] = q
          BY <4>3 DEF ToCome
        <5>2. k # 1
          BY <1>2, <3>2, <4>1, <5>1 DEF Over, Visits
        <5>3. PICK j \in DOMAIN n.stack : n.stack[j] = m.stack[k]
          BY <1>1, <5>2 DEF Below
        <5>4. Visits(n, j, out)
          BY <5>1, <5>3 DEF Visits
        <5>5. QED BY <5>1, <5>3, <5>4 DEF ToCome
      <4>4. QED BY <2>4, <3>2, <4>1, <4>2, <4>3 DEF Agrees
    <3>3. QED BY <2>2, <3>1, <3>2 DEF Agrees
  <2>5. QED BY <2>1, <2>3, <2>4
<1>7. QED BY <1>3, <1>4, <1>5, <1>6 DEF Follows

LEMMA MovesCalls ==
  ASSUME NEW m \in Machine, NEW i, NEW x, Moves(x, m, i)
  PROVE  /\ DOMAIN x.stack = DOMAIN m.stack /\ 1 \in DOMAIN m.stack /\ x.stack[1].i = i
         /\ \A k \in DOMAIN m.stack : /\ k \in Nat \ {0} /\ x.stack[k].op = m.stack[k].op /\ x.stack[k].pad = m.stack[k].pad
                                      /\ x.stack[k].value = m.stack[k].value /\ ListOf(x.stack[k]) = ListOf(m.stack[k])
                                      /\ k # 1 => x.stack[k].i = m.stack[k].i
<1>1. DOMAIN x.stack = DOMAIN m.stack /\ 1 \in DOMAIN m.stack /\ x.stack[1] = [m.stack[1] EXCEPT !.i = i]
      /\ \A k \in DOMAIN m.stack : k \in Nat \ {0} /\ (k # 1 => x.stack[k] = m.stack[k])
  BY DEF Moves
<1>2. m.stack[1] \in Calls
  BY <1>1, StackIs
<1>3. /\ x.stack[1].i = i /\ x.stack[1].op = m.stack[1].op /\ x.stack[1].pad = m.stack[1].pad
      /\ x.stack[1].value = m.stack[1].value
  BY <1>1, <1>2 DEF Calls
<1>4. QED BY <1>1, <1>3 DEF ListOf

\* The input p is to be told v, which is what its net has.
Sent(m, p, v) == ~m.warned => Doomed(m) \/ \A out \in m.fresh : IsOut(out) /\ p \in Driven(out) => m.pad[out].value = v

LEMMA MoveKeeps ==
  ASSUME NEW m \in Machine, NEW i, NEW x, Moves(x, m, i), NEW E, NEW X, Follows(m, E, X)
  PROVE  Plain(x) /\ Busy(x) /\ FreshOK(x) /\ Made(x, X)
<1>1. /\ DOMAIN x.stack = DOMAIN m.stack
      /\ \A k \in DOMAIN m.stack : /\ k \in Nat \ {0} /\ x.stack[k].op = m.stack[k].op /\ x.stack[k].pad = m.stack[k].pad
                                   /\ x.stack[k].value = m.stack[k].value /\ ListOf(x.stack[k]) = ListOf(m.stack[k])
                                   /\ k # 1 => x.stack[k].i = m.stack[k].i
  BY MovesCalls
<1>2. x.pad = m.pad /\ x.obj = m.obj /\ x.fresh = m.fresh /\ x.warned = m.warned
  BY DEF Moves
<1>3. Plain(x)
  BY <1>1 DEF Follows, Plain
<1>4. Busy(x)
  <2>1. SUFFICES ASSUME NEW k \in DOMAIN x.stack, k # 1, x.stack[k].op = "visit"
                 PROVE  x.stack[k - 1].op = "unlock" /\ IsAt(x.stack[k], x.stack[k - 1].pad)
    BY DEF Busy
  <2>2. m.stack[k - 1].op = "unlock" /\ IsAt(m.stack[k], m.stack[k - 1].pad)
    BY <1>1, <2>1 DEF Follows, Busy
  <2>3. k - 1 \in DOMAIN m.stack
    <3>1. PICK s \in Seq(Calls) : s = m.stack
      BY MachineIs
    <3>2. QED BY <1>1, <2>1, <3>1
  <2>4. QED BY <1>1, <2>1, <2>2, <2>3 DEF IsAt
<1>5. FreshOK(x)
  BY <1>2 DEF Follows, FreshOK
<1>6. Made(x, X)
  BY <1>2, MadeSame DEF Follows
<1>7. QED BY <1>3, <1>4, <1>5, <1>6

LEMMA MoveFollows ==
  ASSUME Of("mux") = {}, WiringOK, NetsInTile, NEW m \in Machine, Fine(m), Follows(m, {}, {}),
         NEW c, c = m.stack[1], c.op = "visit", 1 \in DOMAIN m.stack,
         NEW k \in ToVisit(c), \A j \in ToVisit(c) : k <= j,
         NEW p \in Pads, p = ListOf(c)[k], ~m.pad[p].lock,
         NEW x, Moves(x, m, k + 1)
  PROVE  Follows(x, {p}, {}) /\ IsAt(x.stack[1], p) /\ Sent(x, p, c.value.text)
<1>1. /\ DOMAIN x.stack = DOMAIN m.stack /\ x.stack[1].i = k + 1
      /\ \A j \in DOMAIN m.stack : /\ j \in Nat \ {0} /\ x.stack[j].op = m.stack[j].op /\ x.stack[j].pad = m.stack[j].pad
                                   /\ x.stack[j].value = m.stack[j].value /\ ListOf(x.stack[j]) = ListOf(m.stack[j])
                                   /\ j # 1 => x.stack[j].i = m.stack[j].i
  BY MovesCalls
<1>2. x.pad = m.pad /\ x.obj = m.obj /\ x.fresh = m.fresh /\ x.warned = m.warned /\ m.fresh \in SUBSET Pads
  BY MachineIs DEF Moves
<1>3. c \in Calls /\ c.pad \in Pads /\ IsOut(c.pad) /\ wiring.net[c.pad] # 0 /\ c.i \in Nat \ {0}
  BY VisitsOut DEF Calls
<1>4. /\ k \in Nat \ {0} /\ k \in DOMAIN ListOf(c) /\ k >= c.i /\ ~IsOut(p) /\ wiring.net[p] = wiring.net[c.pad]
      /\ \A j \in DOMAIN ListOf(c) : j \in Nat \ {0} /\ (j >= c.i /\ j < k => j \notin ToVisit(c))
      /\ \A j : j \in ToVisit(c) <=> j \in DOMAIN ListOf(c) /\ j >= c.i /\ ListOf(c)[j] # c.pad /\ ~IsOut(ListOf(c)[j])
  <2>1. /\ ListOf(c) \in Seq(Pads) /\ ToVisit(c) \in SUBSET Nat
        /\ \A j \in DOMAIN ListOf(c) : wiring.net[ListOf(c)[j]] = wiring.net[c.pad]
        /\ \A j : j \in ToVisit(c) <=> j \in DOMAIN ListOf(c) /\ j >= c.i /\ ListOf(c)[j] # c.pad /\ ~IsOut(ListOf(c)[j])
    BY <1>3, ListIs
  <2>2. \A j \in DOMAIN ListOf(c) : j \in Nat \ {0}
    BY <2>1
  <2>3. QED BY <2>1, <2>2
<1>5. IsAt(x.stack[1], p)
  BY <1>1, <1>4 DEF IsAt
<1>6. Plain(x) /\ Busy(x) /\ FreshOK(x) /\ Made(x, {})
  BY MoveKeeps
<1>7. ASSUME ~x.warned PROVE Nested(x) /\ (Doomed(x) \/ (Carried(x) /\ Agrees(x, {p})))
  <2>1. Nested(m) /\ (Doomed(m) \/ (Carried(m) /\ Agrees(m, {}))) /\ Busy(m)
    BY <1>2, <1>7 DEF Follows
  <2>2. Nested(x)
    <3>1. SUFFICES ASSUME NEW out \in Pads, NEW a \in DOMAIN x.stack, NEW b \in DOMAIN x.stack, Twice(x, out, a, b)
                   PROVE  x.stack[a].i < x.stack[b].i
      BY DEF Nested
    <3>2. Twice(m, out, a, b)
      BY <1>1, <3>1 DEF Twice, Visits
    <3>3. m.stack[a].i < m.stack[b].i /\ a \in Nat \ {0} /\ b \in Nat \ {0} /\ b # 1
      BY <1>1, <2>1, <3>1, <3>2 DEF Nested, Twice
    <3>4. CASE a # 1
      BY <1>1, <3>1, <3>3, <3>4
    <3>5. CASE a = 1
      <4>1. m.stack[b].op = "visit" /\ m.stack[b].pad = out /\ c.pad = out
        BY <3>2, <3>5 DEF Twice, Visits
      <4>2. m.stack[b - 1].op = "unlock" /\ IsAt(m.stack[b], m.stack[b - 1].pad)
        BY <1>1, <2>1, <3>1, <3>3, <4>1 DEF Busy
      <4>3. b - 1 \in DOMAIN m.stack
        <5>1. PICK s \in Seq(Calls) : s = m.stack
          BY MachineIs
        <5>2. QED BY <1>1, <3>1, <3>3, <5>1
      <4>4. PICK i \in Nat \ {0} : /\ i \in DOMAIN ListOf(m.stack[b]) /\ m.stack[b].i = i + 1
                                   /\ ListOf(m.stack[b])[i] = m.stack[b - 1].pad
        BY <4>2 DEF IsAt
      <4>5. ListOf(m.stack[b]) = ListOf(c)
        BY <4>1 DEF ListOf
      <4>6. PICK q \in Pads : q = m.stack[b - 1].pad
        BY <4>3, VisitsOut
      <4>7. ~IsOut(q) /\ m.pad[q].lock
        <5>1. ~IsOut(q) /\ CallOK(m, m.stack[b - 1])
          BY <4>2, <4>3, <4>6, VisitsOut DEF Fine
        <5>2. ~Mux(q) /\ Unlocks(m, b - 1, q)
          BY <4>2, <4>6, <5>1 DEF CallOK, Mux, Of, Unlocks
        <5>3. QED BY <4>3, <5>1, <5>2 DEF Fine, LockInv
      <4>8. i >= c.i
        BY <1>3, <3>3, <3>5, <4>4
      <4>9. i \in ToVisit(c)
        BY <1>3, <1>4, <4>4, <4>5, <4>6, <4>7, <4>8
      <4>10. k < i
        BY <1>4, <4>4, <4>5, <4>6, <4>7, <4>9
      <4>11. QED BY <1>1, <1>4, <3>1, <3>3, <3>5, <4>4, <4>10
    <3>6. QED BY <3>4, <3>5
  <2>3. CASE Doomed(m)
    <3>1. PICK out \in Pads, a \in DOMAIN m.stack, b \in DOMAIN m.stack : Twice(m, out, a, b)
      BY <2>3 DEF Doomed
    <3>2. Twice(x, out, a, b)
      BY <1>1, <3>1 DEF Twice, Visits
    <3>3. QED BY <1>1, <2>2, <3>2 DEF Doomed
  <2>4. CASE Carried(m) /\ Agrees(m, {})
    <3>1. Carried(x)
      BY <1>1, <1>2, <2>4 DEF Carried
    <3>2. ASSUME NEW out \in x.fresh, IsOut(out), NEW q \in Driven(out) \ {p}
          PROVE  Rcvd(x, q, x.pad[out].value) \/ ToCome(x, out, q)
      <4>1. out \in m.fresh /\ out \in Pads /\ q \in Pads /\ ~IsOut(q) /\ q # p /\ q \in Driven(out) \ {}
        BY <1>2, <3>2, DrivenIs
      <4>2. CASE Rcvd(m, q, m.pad[out].value)
        BY <1>2, <4>2, RcvdSame
      <4>3. CASE ToCome(m, out, q)
        <5>1. PICK a \in DOMAIN m.stack : Visits(m, a, out) /\
                \E i \in DOMAIN ListOf(m.stack[a]) : i >= m.stack[a].i /\ ListOf(m.stack[a])[i] = q
          BY <4>3 DEF ToCome
        <5>2. PICK i \in DOMAIN ListOf(m.stack[a]) : i >= m.stack[a].i /\ ListOf(m.stack[a])[i] = q
          BY <5>1
        <5>3. Visits(x, a, out)
          BY <1>1, <5>1 DEF Visits
        <5>4. CASE a # 1
          <6>1. x.stack[a].i = m.stack[a].i /\ ListOf(x.stack[a]) = ListOf(m.stack[a])
            BY <1>1, <5>4
          <6>2. QED BY <1>1, <5>2, <5>3, <6>1 DEF ToCome
        <5>5. CASE a = 1
          <6>1. i \in ToVisit(c) /\ i # k
            BY <1>3, <1>4, <4>1, <5>1, <5>2, <5>5 DEF Visits
          <6>2. i >= k + 1
            BY <1>4, <6>1
          <6>3. QED BY <1>1, <5>2, <5>3, <5>5, <6>2 DEF ToCome
        <5>6. QED BY <5>4, <5>5
      <4>4. QED BY <2>4, <3>2, <4>1, <4>2, <4>3 DEF Agrees
    <3>3. QED BY <2>2, <3>1, <3>2 DEF Agrees
  <2>5. QED BY <2>1, <2>3, <2>4
<1>8. Sent(x, p, c.value.text)
  <2>1. SUFFICES ASSUME ~x.warned, ~Doomed(x), NEW out \in x.fresh, IsOut(out), p \in Driven(out)
                 PROVE  x.pad[out].value = c.value.text
    BY DEF Sent
  <2>2. Carried(x)
    BY <1>7, <2>1
  <2>3. c.value.text = x.pad[c.pad].value
    BY <1>1, <2>2 DEF Carried
  <2>4. out = c.pad
    BY <1>2, <1>3, <1>4, <2>1, DrivenIs
  <2>5. QED BY <2>3, <2>4
<1>9. QED BY <1>5, <1>6, <1>7, <1>8 DEF Follows
-----------------------------------------------------------------------------
(* What the methods of the classes do between two calls                    *)

\* The input p takes the value v ...
Hears(n, m, p, v) ==
  /\ Sets(n, m) /\ Rcvd(n, p, v)
  /\ \A q \in Pads : q # p => n.pad[q].state = m.pad[q].state
  /\ \A o \in DOMAIN tile.class : tile.class[o] = "source" /\ o # p[1] => n.obj[o].ep = m.obj[o].ep

\* ... and the object o works out what comes of it.
Works(n, m, o) ==
  /\ Sets(n, m)
  /\ \A q \in Pads : q # Out(o) => n.pad[q].state = m.pad[q].state
  /\ \A a \in DOMAIN tile.class : tile.class[a] = "source" => n.obj[a].ep = m.obj[a].ep

LEMMA SameCalls ==
  ASSUME NEW m, NEW n, Sets(n, m)
  PROVE  /\ Plain(m) => Plain(n)
         /\ Busy(m) => Busy(n)
         /\ FreshOK(m) => FreshOK(n)
         /\ Nested(m) => Nested(n)
         /\ Doomed(m) => Doomed(n)
         /\ Open(m) => Open(n)
         /\ \A out, p : ToCome(m, out, p) => ToCome(n, out, p)
<1>1. n.stack = m.stack /\ n.fresh = m.fresh
  BY DEF Sets
<1>2. Plain(m) => Plain(n)
  BY <1>1 DEF Plain
<1>3. Busy(m) => Busy(n)
  BY <1>1 DEF Busy
<1>4. FreshOK(m) => FreshOK(n)
  BY <1>1 DEF FreshOK
<1>5. Nested(m) => Nested(n)
  BY <1>1 DEF Nested, Twice, Visits
<1>6. Doomed(m) => Doomed(n)
  BY <1>1 DEF Doomed, Twice, Visits
<1>7. Open(m) => Open(n)
  BY <1>1 DEF Open
<1>8. ASSUME NEW out, NEW p, ToCome(m, out, p) PROVE ToCome(n, out, p)
  BY <1>1, <1>8 DEF ToCome, Visits
<1>9. QED BY <1>2, <1>3, <1>4, <1>5, <1>6, <1>7, <1>8

LEMMA SameCarried == ASSUME NEW m \in Machine, NEW n, Sets(n, m), Carried(m) PROVE Carried(n)
<1>1. ASSUME NEW k \in DOMAIN n.stack, n.stack[k].op = "visit"
      PROVE  n.stack[k].value.text = n.pad[n.stack[k].pad].value
  <2>1. n.stack = m.stack /\ k \in DOMAIN m.stack
    BY DEF Sets
  <2>2. m.stack[k].pad \in Pads /\ m.stack[k].value.text = m.pad[m.stack[k].pad].value
    BY <1>1, <2>1, StackIs DEF Carried
  <2>3. QED BY <2>1, <2>2 DEF Sets
<1>2. QED BY <1>1 DEF Carried

\* A source and a not have one input.
LEMMA OneInput ==
  ASSUME tile \in Tiles, NEW p \in Pads, NEW q \in Pads, ~IsOut(p), ~IsOut(q), p[1] = q[1], p[1] \in DOMAIN tile.class,
         tile.class[p[1]] \in {"not", "source"}
  PROVE  p = q
<1>1. p \in PadsOf(tile) /\ q \in PadsOf(tile)
  BY DEF PadsOf
<1>2. p[2] \in PadNames(tile.class[p[1]]) /\ q[2] \in PadNames(tile.class[p[1]]) /\ p = <<p[1], p[2]>> /\ q = <<q[1], q[2]>>
  BY <1>1, TileAssumption DEF TileAssumption
<1>3. p[2] = "in" /\ q[2] = "in"
  BY <1>2 DEF PadNames, IsOut
<1>4. QED BY <1>2, <1>3

LEMMA HearFollows ==
  ASSUME tile \in Tiles, NetsInTile, NEW m \in Machine, NEW p \in Pads, ~IsOut(p), p[1] \in DOMAIN tile.class, NEW v,
         Follows(m, {p}, {}), Sent(m, p, v), NEW n, Hears(n, m, p, v)
  PROVE  Follows(n, {}, {p[1]}) /\ Shows(n, p[1]) /\ (Open(m) => Open(n))
<1>1. /\ Sets(n, m) /\ n.fresh = m.fresh /\ n.warned = m.warned /\ m.fresh \in SUBSET Pads
      /\ \A q \in Pads : n.pad[q].value = m.pad[q].value
      /\ \A q \in Pads : q # p => n.pad[q].state = m.pad[q].state
  BY MachineIs DEF Hears, Sets
<1>2. Plain(n) /\ Busy(n) /\ FreshOK(n) /\ (Open(m) => Open(n))
  BY <1>1, SameCalls DEF Follows
<1>3. Made(n, {p[1]}) /\ Shows(n, p[1])
  <2>1. \A o : Out(o) # p
    BY OutIs
  <2>2. Shows(n, p[1])
    <3>1. Shows(m, p[1])
      BY DEF Follows, Made
    <3>2. QED BY <1>1, <2>1, <3>1 DEF Shows
  <2>3. ASSUME NEW o \in DOMAIN tile.class \ {p[1]}
        PROVE  /\ Out(o) \in n.fresh => Out(o) \in m.fresh
               /\ Out(o) \in m.fresh => /\ n.pad[Out(o)].value = m.pad[Out(o)].value
                                        /\ n.pad[Out(o)].state = m.pad[Out(o)].state
               /\ \A q \in Inputs(o) : n.pad[q].state = m.pad[q].state
    BY <1>1, <2>1, InputsIs
  <2>4. Made(m, {p[1]})
    BY DEF Follows, Made
  <2>5. QED BY <2>2, <2>3, <2>4, MadeSame
<1>4. ASSUME ~n.warned PROVE Nested(n) /\ (Doomed(n) \/ (Carried(n) /\ Agrees(n, {})))
  <2>1. Nested(m) /\ (Doomed(m) \/ (Carried(m) /\ Agrees(m, {p}))) /\ ~m.warned
    BY <1>1, <1>4 DEF Follows
  <2>2. CASE Doomed(m)
    BY <1>1, <2>1, <2>2, SameCalls
  <2>3. CASE ~Doomed(m)
    <3>1. Nested(n) /\ Carried(n)
      BY <1>1, <2>1, <2>3, SameCalls, SameCarried
    <3>2. ASSUME NEW out \in n.fresh, IsOut(out), NEW q \in Driven(out) \ {}
          PROVE  Rcvd(n, q, n.pad[out].value) \/ ToCome(n, out, q)
      <4>1. out \in m.fresh /\ out \in Pads /\ q \in Pads /\ q \in Driven(out) /\ ~IsOut(q) /\ n.pad[out].value = m.pad[out].value
        BY <1>1, <3>2, DrivenIs
      <4>2. CASE q = p
        <5>1. m.pad[out].value = v
          BY <2>1, <2>3, <3>2, <4>1, <4>2 DEF Sent
        <5>2. QED BY <4>1, <4>2, <5>1 DEF Hears
      <4>3. CASE q # p
        <5>1. Rcvd(m, q, m.pad[out].value) \/ ToCome(m, out, q)
          BY <2>1, <2>3, <3>2, <4>1, <4>3 DEF Agrees
        <5>2. CASE Rcvd(m, q, m.pad[out].value)
          <6>1. ASSUME tile.class[q[1]] = "source" PROVE n.obj[q[1]].ep = m.obj[q[1]].ep
            <7>1. q[1] \in DOMAIN tile.class
              BY <3>2, <4>1, DrivenIs DEF NetsInTile
            <7>2. q[1] # p[1]
              BY <4>1, <4>3, <6>1, <7>1, OneInput
            <7>3. QED BY <6>1, <7>1, <7>2 DEF Hears
          <6>2. QED BY <1>1, <4>1, <4>3, <5>2, <6>1, RcvdSame
        <5>3. CASE ToCome(m, out, q)
          BY <1>1, <5>3, SameCalls
        <5>4. QED BY <5>1, <5>2, <5>3
      <4>4. QED BY <4>2, <4>3
    <3>3. QED BY <3>1, <3>2 DEF Agrees
  <2>4. QED BY <2>2, <2>3
<1>5. QED BY <1>2, <1>3, <1>4 DEF Follows

LEMMA WorkFollows ==
  ASSUME NEW m \in Machine, NEW o \in DOMAIN tile.class, NEW E, Follows(m, E, {o}), NEW n, Works(n, m, o), NetsInTile
  PROVE  Follows(n, E, {o}) /\ (Open(m) => Open(n))
<1>1. /\ Sets(n, m) /\ n.fresh = m.fresh /\ n.warned = m.warned /\ m.fresh \in SUBSET Pads
      /\ \A q \in Pads : n.pad[q].value = m.pad[q].value
      /\ \A q \in Pads : q # Out(o) => n.pad[q].state = m.pad[q].state
      /\ \A q \in Pads : ~IsOut(q) => n.pad[q].state = m.pad[q].state
  BY MachineIs, OutIs DEF Works, Sets
<1>2. Plain(n) /\ Busy(n) /\ FreshOK(n) /\ (Open(m) => Open(n))
  BY <1>1, SameCalls DEF Follows
<1>3. Made(n, {o})
  <2>1. ASSUME NEW a \in DOMAIN tile.class \ {o}
        PROVE  /\ Out(a) \in n.fresh => Out(a) \in m.fresh
               /\ Out(a) \in m.fresh => /\ n.pad[Out(a)].value = m.pad[Out(a)].value
                                        /\ n.pad[Out(a)].state = m.pad[Out(a)].state
               /\ \A q \in Inputs(a) : n.pad[q].state = m.pad[q].state
    <3>1. Out(a) # Out(o)
      BY OutIs
    <3>2. QED BY <1>1, <3>1, InputsIs
  <2>2. QED BY <2>1, MadeSame DEF Follows
<1>4. ASSUME ~n.warned PROVE Nested(n) /\ (Doomed(n) \/ (Carried(n) /\ Agrees(n, E)))
  <2>1. Nested(m) /\ (Doomed(m) \/ (Carried(m) /\ Agrees(m, E)))
    BY <1>1, <1>4 DEF Follows
  <2>2. CASE Doomed(m)
    BY <1>1, <2>1, <2>2, SameCalls
  <2>3. CASE Carried(m) /\ Agrees(m, E)
    <3>1. Nested(n) /\ Carried(n)
      BY <1>1, <2>1, <2>3, SameCalls, SameCarried
    <3>2. ASSUME NEW out \in n.fresh, IsOut(out), NEW q \in Driven(out) \ E
          PROVE  Rcvd(n, q, n.pad[out].value) \/ ToCome(n, out, q)
      <4>1. out \in m.fresh /\ out \in Pads /\ q \in Pads /\ ~IsOut(q) /\ n.pad[out].value = m.pad[out].value
            /\ wiring.net[q] # 0
        BY <1>1, <3>2, DrivenIs
      <4>2. Rcvd(m, q, m.pad[out].value) \/ ToCome(m, out, q)
        BY <2>3, <3>2, <4>1 DEF Agrees
      <4>3. tile.class[q[1]] = "source" => n.obj[q[1]].ep = m.obj[q[1]].ep
        BY <4>1 DEF NetsInTile, Works
      <4>4. QED BY <1>1, <4>1, <4>2, <4>3, SameCalls, RcvdSame
    <3>3. QED BY <3>1, <3>2 DEF Agrees
  <2>4. QED BY <2>1, <2>2, <2>3
<1>5. QED BY <1>2, <1>3, <1>4 DEF Follows

\* What X excepts is put right.
LEMMA MadeFollows ==
  ASSUME NEW m, NEW o, NEW E, Follows(m, E, {o}), Shows(m, o), MadeOf(m, o)
  PROVE  Follows(m, E, {})
BY DEF Follows, Made

\* A tile that runs, or is being set up, and has no mux
Simple == tile \in Tiles /\ WiringOK /\ NetsInTile /\ at.phase # "load" /\ Of("mux") = {}

\* The output of o takes the value v.
Updated(n, m, o, v) ==
  /\ Follows(n, {}, {o}) /\ n.pad[Out(o)].value = v /\ n.pad[Out(o)].state = m.pad[Out(o)].state
  /\ \A q \in Pads : q # Out(o) => n.pad[q] = m.pad[q]

LEMMA OutFollows ==
  ASSUME Simple, NEW m, Fine(m), Open(m), NEW o \in DOMAIN tile.class, Out(o) \in Pads, Follows(m, {}, {o}),
         NEW v \in Given, NEW n, n = Update(m, Out(o), Own(v))
  PROVE  Updated(n, m, o, v)
<1>1. PICK s, p : s = Own(v) /\ p = Out(o)
  OBVIOUS
<1>2. s \in Strings /\ s.of = NoPad /\ s.text = v /\ Read(m, s) = v
  BY <1>1, OwnIs DEF Own
<1>3. m \in Machine /\ p \in Pads /\ IsOut(p) /\ p[1] = o
  BY <1>1, OutIs DEF Fine
<1>4. Takes(n, m, p, s)
  BY <1>1, <1>2, <1>3, UpdateIs
<1>5. Follows(n, {}, {o})
  BY <1>2, <1>3, <1>4, TakeFollows DEF Simple
<1>6. QED BY <1>1, <1>2, <1>4, <1>5 DEF Takes, Updated

\* An object that is neither a gate nor a not is as it is.
LEMMA OtherMade ==
  ASSUME NEW m, NEW o, NEW E, Follows(m, E, {o}), tile.class[o] \notin {"and", "or", "not"}
  PROVE  Follows(m, E, {})
BY MadeFollows DEF Shows, MadeOf

LEMMA RefreshEp ==
  ASSUME NEW m \in Machine, NEW o \in DOMAIN tile.class, NEW n, n = Refreshed(m, o), NEW a \in DOMAIN tile.class
  PROVE  n.obj[a].ep = m.obj[a].ep
<1> DEFINE x == [m.obj[o] EXCEPT !.refresh = FALSE]
<1>1. m.obj[o] \in ObjState
  BY MachineIs
<1>2. x \in ObjState /\ x.ep = m.obj[o].ep
  BY <1>1 DEF ObjState
<1>3. n = WithObj(m, o, x)
  BY Zenon DEF WithObj, Refreshed
<1> HIDE DEF x
<1>4. QED BY <1>2, <1>3, ObjSets

LEMMA BegunEp ==
  ASSUME NEW m \in Machine, NEW o \in DOMAIN tile.class, NEW n, n = Begun(m, o), NEW a \in DOMAIN tile.class
  PROVE  n.obj[a].ep = m.obj[a].ep
<1> DEFINE x == [m.obj[o] EXCEPT !.started = TRUE]
<1>1. m.obj[o] \in ObjState
  BY MachineIs
<1>2. x \in ObjState /\ x.ep = m.obj[o].ep
  BY <1>1 DEF ObjState
<1>3. n = WithObj(m, o, x)
  BY Zenon DEF WithObj, Begun
<1> HIDE DEF x
<1>4. QED BY <1>2, <1>3, ObjSets

LEMMA ShownEp ==
  ASSUME NEW m \in Machine, NEW o \in DOMAIN tile.class, NEW v \in Given, NEW n, n = Shown(m, o, v),
         NEW a \in DOMAIN tile.class, a # o
  PROVE  n.obj[a] = m.obj[a]
<1> DEFINE x == [m.obj[o] EXCEPT !.ep = v]
<1>1. m.obj[o] \in ObjState
  BY MachineIs
<1>2. x \in ObjState
  BY <1>1 DEF ObjState, Texts
<1>3. n = WithObj(m, o, x)
  BY Zenon DEF WithObj, Shown
<1> HIDE DEF x
<1>4. QED BY <1>2, <1>3, ObjSets

LEMMA StateWorks ==
  ASSUME NEW m \in Machine, NEW o \in DOMAIN tile.class, Out(o) \in Pads, NEW x \in {-1} \cup Given,
         NEW n, n = WithState(m, Out(o), x)
  PROVE  Works(n, m, o)
<1>1. PICK p \in Pads : p = Out(o)
  OBVIOUS
<1>2. /\ Sets(n, m) /\ n.obj = m.obj /\ n.pad[p].state = x /\ \A q \in Pads : q # p => n.pad[q] = m.pad[q]
  BY <1>1, StateSets
<1>3. QED BY <1>1, <1>2 DEF Works

LEMMA WorksTwice == ASSUME NEW k, NEW m, NEW n, NEW o, Works(k, m, o), Works(n, k, o) PROVE Works(n, m, o)
BY DEF Works, Sets

LEMMA GatedWorks ==
  ASSUME NEW m \in Machine, NEW o \in DOMAIN tile.class, Out(o) \in Pads, NEW n, n = Gated(m, o)
  PROVE  Works(n, m, o)
<1>1. PICK k, g : k = Refreshed(m, o) /\ g = GateOut(m, o)
  OBVIOUS
<1>2. Sets(k, m) /\ k.pad = m.pad /\ \A a \in DOMAIN tile.class : k.obj[a].ep = m.obj[a].ep
  BY <1>1, RefreshIs, RefreshEp
<1>3. Works(k, m, o)
  BY <1>2 DEF Works
<1>4. k \in Machine /\ n = WithState(k, Out(o), g) /\ g \in {-1} \cup Given
  BY <1>1, <1>2, GateOutIs DEF Gated, Sets
<1>5. Works(n, k, o)
  BY <1>4, StateWorks
<1>6. QED BY <1>3, <1>5, WorksTwice

LEMMA GateFollows ==
  ASSUME Simple, NEW m, Fine(m), Open(m), NEW o \in DOMAIN tile.class, Out(o) \in Pads, Follows(m, {}, {o}),
         tile.class[o] \in {"and", "or"}, Shows(m, o), NEW n, n = GateUpdate(m, o)
  PROVE  Follows(n, {}, {})
<1>1. m \in Machine
  BY DEF Fine
<1>2. PICK g : g = GateOut(m, o)
  OBVIOUS
<1>3. CASE n = m /\ g = m.pad[Out(o)].state
  <2>1. MadeOf(m, o)
    BY <1>2, <1>3 DEF MadeOf
  <2>2. QED BY <1>3, <2>1, MadeFollows
<1>4. CASE n = Update(Gated(m, o), Out(o), Own(g))
  <2>1. PICK k : k = Gated(m, o)
    OBVIOUS
  <2>2. /\ Sets(k, m) /\ k.pad[Out(o)].state = g /\ g \in Given
        /\ \A q \in Pads : q # Out(o) => k.pad[q] = m.pad[q]
    BY <1>1, <1>2, <2>1, GatedIs, GateOutIs
  <2>3. Fine(k) /\ Follows(k, {}, {o}) /\ Open(k)
    BY <1>1, <2>1, <2>2, SetsFine, GatedWorks, WorkFollows DEF Simple
  <2>4. n = Update(k, Out(o), Own(g))
    BY <1>4, <2>1
  <2>5. /\ Follows(n, {}, {o}) /\ n.pad[Out(o)].value = g /\ n.pad[Out(o)].state = g
        /\ \A q \in Pads : q # Out(o) => n.pad[q] = k.pad[q]
    <3>1. Fine(k) /\ Follows(k, {}, {o}) /\ Open(k)
      BY <2>3
    <3>2. g \in Given /\ k.pad[Out(o)].state = g
      BY <2>2
    <3>3. Updated(n, k, o, g)
      BY <2>4, <3>1, <3>2, OutFollows
    <3>4. QED BY <3>2, <3>3 DEF Updated
  <2>6. GateOut(n, o) = g
    <3>1. ASSUME NEW q \in Inputs(o) PROVE n.pad[q].state = m.pad[q].state
      <4>1. q \in Pads /\ q # Out(o)
        BY InputsIs, OutIs
      <4>2. n.pad[q] = k.pad[q] /\ k.pad[q] = m.pad[q]
        BY <2>2, <2>5, <4>1
      <4>3. QED BY <4>2
    <3>2. QED BY <1>2, <3>1, GateOutSame
  <2>7. Shows(n, o) /\ MadeOf(n, o)
    BY <2>5, <2>6 DEF Shows, MadeOf
  <2>8. QED BY <2>5, <2>7, MadeFollows
<1>5. QED BY <1>1, <1>2, <1>3, <1>4, GateUpdateIs

LEMMA NotFollows ==
  ASSUME Simple, NEW m, Fine(m), Open(m), NEW p \in Pads, ~IsOut(p), NEW o \in DOMAIN tile.class, o = p[1],
         Out(o) \in Pads, Follows(m, {}, {o}), tile.class[o] = "not",
         NEW b \in Given, m.pad[p].state = b, NEW n, n = Update(m, Out(o), Own(b))
  PROVE  Follows(n, {}, {})
<1>1. /\ Follows(n, {}, {o}) /\ n.pad[Out(o)].value = b
      /\ \A q \in Pads : q # Out(o) => n.pad[q] = m.pad[q]
  <2>1. Updated(n, m, o, b)
    BY OutFollows
  <2>2. QED BY <2>1 DEF Updated
<1>2. ASSUME NEW q \in Inputs(o) PROVE n.pad[q].state = b
  <2>1. q = p
    BY InputsIs, OneInput DEF Simple
  <2>2. QED BY <1>1, <2>1, OutIs
<1>3. Shows(n, o) /\ MadeOf(n, o)
  BY <1>1, <1>2 DEF Shows, MadeOf
<1>4. QED BY <1>1, <1>3, MadeFollows

LEMMA CmpFollows ==
  ASSUME Simple, NEW m, Fine(m), Open(m), NEW o \in DOMAIN tile.class, Out(o) \in Pads, Follows(m, {}, {o}),
         tile.class[o] = "cmp", NEW n, n = CmpUpdate(m, o)
  PROVE  Follows(n, {}, {})
<1> DEFINE x == CmpOut(m, o)
           k == WithState(m, Out(o), x)
<1>1. m \in Machine
  BY DEF Fine
<1>2. m.pad[Out(o)].state \in {-1} \cup Given
  BY <1>1, MachineIs DEF PadState
<1>3. x \in {-1} \cup Given
  BY <1>2 DEF CmpOut, Given
<1>4. n = IF (x # m.pad[Out(o)].state \/ m.pad[Out(o)].state < 0) /\ m.obj[o].started /\ x >= 0
          THEN Update(k, Out(o), Own(x)) ELSE k
  BY Zenon DEF CmpUpdate, WithState
<1> HIDE DEF x
<1>5. Works(k, m, o)
  BY <1>1, <1>3, StateWorks
<1> HIDE DEF k
<1>6. Fine(k) /\ Follows(k, {}, {o}) /\ Open(k)
  BY <1>1, <1>5, SetsFine, WorkFollows DEF Simple, Works
<1>7. CASE n = k
  BY <1>6, <1>7, OtherMade
<1>8. CASE x >= 0 /\ n = Update(k, Out(o), Own(x))
  <2>1. x \in Given
    BY <1>3, <1>8
  <2>2. Follows(n, {}, {o})
    <3>1. Updated(n, k, o, x)
      BY <1>6, <1>8, <2>1, OutFollows
    <3>2. QED BY <3>1 DEF Updated
  <2>3. QED BY <2>2, OtherMade
<1>9. QED BY <1>4, <1>7, <1>8

LEMMA StateHears ==
  ASSUME NEW m \in Machine, NEW p \in Pads, NEW v, NEW x \in {-1} \cup Given, NEW n, n = WithState(m, p, x),
         tile.class[p[1]] \in {"and", "or"} => x = NotZero(v),
         tile.class[p[1]] = "not" => x = IsZero(v),
         tile.class[p[1]] = "cmp" => x = v,
         tile.class[p[1]] # "source"
  PROVE  Hears(n, m, p, v)
<1>1. /\ Sets(n, m) /\ n.obj = m.obj /\ n.pad[p].state = x /\ \A q \in Pads : q # p => n.pad[q] = m.pad[q]
  BY StateSets
<1>2. QED BY <1>1 DEF Hears, Rcvd

LEMMA ShownHears ==
  ASSUME NEW m, Fine(m), NEW p \in Pads, p[1] \in DOMAIN tile.class, tile.class[p[1]] = "source",
         NEW v \in Given, NEW n, n = Shown(m, p[1], v)
  PROVE  Hears(n, m, p, v)
<1>1. m \in Machine
  BY DEF Fine
<1>2. Sets(n, m) /\ n.pad = m.pad /\ n.obj[p[1]].ep = v
  BY ShownIs
<1>3. \A a \in DOMAIN tile.class : a # p[1] => n.obj[a] = m.obj[a]
  BY <1>1, ShownEp
<1>4. QED BY <1>2, <1>3 DEF Hears, Rcvd

\* The handler of the input p is told v.
LEMMA InputFollows ==
  ASSUME Simple, NEW m, Fine(m), Open(m), NEW p \in Pads, p[1] \in DOMAIN tile.class, ~IsOut(p),
         NEW s \in Strings, NEW v \in Given, Read(m, s) = v, Follows(m, {p}, {}), Sent(m, p, v),
         NEW n, n = Input(m, p, s)
  PROVE  Follows(n, {}, {})
<1>1. PICK o, a, b : o = p[1] /\ a = NotZero(v) /\ b = IsZero(v)
  OBVIOUS
<1>2. /\ a \in {-1} \cup Given /\ b \in {-1} \cup Given /\ b \in Given /\ v \in {-1} \cup Given
      /\ m \in Machine /\ o \in DOMAIN tile.class /\ tile \in Tiles /\ NetsInTile
  BY <1>1, BitIs DEF Fine, NotZero, IsZero, Simple
<1>3. /\ tile.class[o] \in Classes /\ tile.class[o] # "mux"
      /\ tile.class[o] # "source" => Out(o) \in Pads
  BY <1>2, HasPads DEF Simple, Of
<1>4. /\ tile.class[o] \in {"and", "or"} => n = GateUpdate(WithState(m, p, a), o)
      /\ tile.class[o] = "not" => n = Update(WithState(m, p, b), Out(o), Own(b))
      /\ tile.class[o] = "cmp" => n = CmpUpdate(WithState(m, p, v), o)
      /\ tile.class[o] = "source" => n = Shown(m, o, v)
      /\ tile.class[o] = "sink" => n = m
  BY <1>1, <1>3, InputIs
<1>5. ASSUME NEW k, Hears(k, m, p, v)
      PROVE  Fine(k) /\ Follows(k, {}, {o}) /\ Shows(k, o) /\ Open(k)
  BY <1>1, <1>2, <1>5, HearFollows, SetsFine DEF Hears
<1>6. CASE tile.class[o] \in {"and", "or"}
  <2>1. PICK k : k = WithState(m, p, a)
    OBVIOUS
  <2>2. Hears(k, m, p, v)
    BY <1>1, <1>2, <1>6, <2>1, StateHears
  <2>3. Fine(k) /\ Follows(k, {}, {o}) /\ Shows(k, o) /\ Open(k)
    BY <1>5, <2>2
  <2>4. n = GateUpdate(k, o) /\ Out(o) \in Pads
    BY <1>3, <1>4, <1>6, <2>1
  <2>5. QED BY <1>2, <1>6, <2>3, <2>4, GateFollows
<1>7. CASE tile.class[o] = "not"
  <2>1. PICK k : k = WithState(m, p, b)
    OBVIOUS
  <2>2. Hears(k, m, p, v)
    BY <1>1, <1>2, <1>7, <2>1, StateHears
  <2>3. Fine(k) /\ Follows(k, {}, {o}) /\ Open(k)
    BY <1>5, <2>2
  <2>4. k.pad[p].state = b
    BY <1>1, <1>7, <2>2 DEF Hears, Rcvd
  <2>5. n = Update(k, Out(o), Own(b)) /\ Out(o) \in Pads
    BY <1>3, <1>4, <1>7, <2>1
  <2>6. QED BY <1>1, <1>2, <1>7, <2>3, <2>4, <2>5, NotFollows
<1>8. CASE tile.class[o] = "cmp"
  <2>1. PICK k : k = WithState(m, p, v)
    OBVIOUS
  <2>2. Hears(k, m, p, v)
    BY <1>1, <1>2, <1>8, <2>1, StateHears
  <2>3. Fine(k) /\ Follows(k, {}, {o}) /\ Open(k)
    BY <1>5, <2>2
  <2>4. n = CmpUpdate(k, o) /\ Out(o) \in Pads
    BY <1>3, <1>4, <1>8, <2>1
  <2>5. QED BY <1>2, <1>8, <2>3, <2>4, CmpFollows
<1>9. CASE tile.class[o] = "source"
  <2>1. Hears(n, m, p, v)
    BY <1>1, <1>2, <1>4, <1>9, ShownHears
  <2>2. QED BY <1>5, <1>9, <2>1, OtherMade
<1>10. CASE tile.class[o] = "sink"
  <2>1. Hears(m, m, p, v)
    BY <1>1, <1>2, <1>10 DEF Hears, Sets, Rcvd
  <2>2. Follows(m, {}, {o})
    BY <1>5, <2>1
  <2>3. QED BY <1>4, <1>10, <2>2, OtherMade
<1>11. QED BY <1>3, <1>6, <1>7, <1>8, <1>9, <1>10 DEF Classes

LEMMA WarnedFollows ==
  ASSUME NEW m \in Machine, Plain(m), Busy(m), FreshOK(m), NEW X, Made(m, X), NEW E,
         NEW n, n = [m EXCEPT !.warned = TRUE]
  PROVE  Follows(n, E, X)
<1>1. n.pad = m.pad /\ n.obj = m.obj /\ n.stack = m.stack /\ n.fresh = m.fresh /\ n.warned
  BY MachineIs
<1>2. Plain(n) /\ Busy(n) /\ FreshOK(n)
  BY <1>1 DEF Plain, Busy, FreshOK
<1>3. Made(n, X)
  BY <1>1, MadeSame
<1>4. QED BY <1>1, <1>2, <1>3 DEF Follows

LEMMA UpdateInputFollows ==
  ASSUME Simple, NEW m, Fine(m), NEW p \in Pads, p[1] \in DOMAIN tile.class, ~IsOut(p),
         NEW s \in Strings, s.of = NoPad, s.text \in Given, NEW n, n = UpdateInput(m, p, s),
         Plain(m), Busy(m), FreshOK(m), Made(m, {}),
         ~m.pad[p].lock => /\ Follows(m, {p}, {}) /\ Sent(m, p, s.text)
                           /\ 1 \in DOMAIN m.stack /\ m.stack[1].op = "visit" => IsAt(m.stack[1], p)
  PROVE  Follows(n, {}, {})
<1>1. m \in Machine /\ \A k : Read(k, s) = s.text
  BY DEF Fine, Read
<1>2. CASE m.pad[p].lock
  <2>1. n = [m EXCEPT !.warned = TRUE]
    BY <1>2 DEF UpdateInput
  <2>2. QED BY <1>1, <2>1, WarnedFollows
<1>3. CASE ~m.pad[p].lock
  <2>1. PICK k : k = Push([m EXCEPT !.pad[p].lock = TRUE], "unlock", p, s)
    OBVIOUS
  <2>2. n = Input(k, p, s)
    BY <1>3, <2>1, Zenon DEF UpdateInput
  <2>3. Enters(k, m, p, s)
    BY <1>1, <2>1, EntersIs
  <2>4. Fine(k)
    BY <1>1, <1>3, <2>3, EntersFine
  <2>5. Follows(k, {p}, {}) /\ Open(k)
    BY <1>1, <1>3, <2>3, EnterFollows
  <2>6. Sent(k, p, s.text)
    <3>1. /\ k.fresh = m.fresh /\ k.warned = m.warned /\ m.fresh \in SUBSET Pads
          /\ \A q \in Pads : k.pad[q].value = m.pad[q].value
          /\ \E c : Above(k, m, c)
      BY <1>1, <2>3, MachineIs DEF Enters
    <3>2. Doomed(m) => Doomed(k)
      BY <3>1, AboveDoomed
    <3>3. QED BY <1>3, <3>1, <3>2 DEF Sent
  <2>7. QED BY <1>1, <2>2, <2>4, <2>5, <2>6, InputFollows
<1>4. QED BY <1>2, <1>3

LEMMA VisitFollows ==
  ASSUME Simple, NEW m, Fine(m), m = M, m.stack # <<>>, Follows(m, {}, {}),
         Head(m.stack).op = "visit", NEW n, n = Visit(Head(m.stack))
  PROVE  Follows(n, {}, {})
<1>1. PICK c : c = Head(m.stack)
  OBVIOUS
<1>2. m \in Machine /\ n = Visit(c) /\ c.op = "visit" /\ WiringOK /\ NetsInTile /\ Of("mux") = {} /\ tile \in Tiles
  BY <1>1 DEF Fine, Simple
<1>3. c = m.stack[1] /\ c \in Calls /\ 1 \in DOMAIN m.stack
  <2>1. m.stack \in Seq(Calls)
    BY <1>2, MachineIs
  <2>2. QED BY <1>1, <2>1
<1>4. /\ wiring.net[c.pad] # 0 /\ c.value \in Strings /\ c.value.of = NoPad /\ c.value.text \in Given
  BY <1>2, <1>3 DEF Fine, CallOK, Calls, Follows, Plain, Read
<1>5. CASE ToVisit(c) = {} /\ n = Without(Drop(m), c.pad)
  <2>1. Returns(n, m)
    BY <1>2, <1>3, <1>5, ReturnsIs
  <2>2. Over(c)
    BY <1>2, <1>3, <1>4, <1>5, ListIs DEF Over
  <2>3. QED BY <1>2, <1>3, <2>1, <2>2, ReturnFollows
<1>6. CASE \E k \in DOMAIN ListOf(c), x \in Machine :
             /\ k \in ToVisit(c) /\ \A j \in ToVisit(c) : k <= j
             /\ Moves(x, m, k + 1) /\ k \in Nat
             /\ n = UpdateInput(x, ListOf(c)[k], c.value)
  <2>1. PICK k \in DOMAIN ListOf(c), x \in Machine :
             /\ k \in ToVisit(c) /\ \A j \in ToVisit(c) : k <= j
             /\ Moves(x, m, k + 1) /\ k \in Nat
             /\ n = UpdateInput(x, ListOf(c)[k], c.value)
    BY <1>6
  <2>2. PICK i \in Nat \ {0} : i = k + 1
    BY <2>1
  <2>3. Moves(x, m, i)
    BY <2>1, <2>2
  <2>4. Fine(x)
    BY <2>2, <2>3, MovesFine
  <2>5. PICK p : p = ListOf(c)[k]
    OBVIOUS
  <2>6. p \in Pads /\ p[1] \in DOMAIN tile.class /\ ~IsOut(p)
    BY <1>2, <1>3, <1>4, <2>1, <2>5, ListIs
  <2>7. n = UpdateInput(x, p, c.value)
    BY <2>1, <2>5
  <2>8. Plain(x) /\ Busy(x) /\ FreshOK(x) /\ Made(x, {}) /\ x.pad = m.pad
    <3>1. Plain(x) /\ Busy(x) /\ FreshOK(x) /\ Made(x, {})
      BY <1>2, <2>3, MoveKeeps
    <3>2. x.pad = m.pad
      BY <2>3 DEF Moves
    <3>3. QED BY <3>1, <3>2
  <2>9. ASSUME ~x.pad[p].lock PROVE Follows(x, {p}, {}) /\ Sent(x, p, c.value.text) /\ IsAt(x.stack[1], p)
    BY <1>2, <1>3, <2>1, <2>5, <2>6, <2>8, <2>9, MoveFollows
  <2>10. QED BY <1>4, <2>4, <2>6, <2>7, <2>8, <2>9, UpdateInputFollows
<1>7. QED BY <1>1, <1>2, <1>4, <1>5, <1>6, VisitIs

\* What X excepts may hold as well.
LEMMA FollowsBut == ASSUME NEW m, NEW E, NEW X, Follows(m, E, {}) PROVE Follows(m, E, X)
BY DEF Follows, Made

LEMMA SinkFollows ==
  ASSUME Simple, NEW m, Fine(m), Open(m), NEW o \in DOMAIN tile.class, Out(o) \in Pads, tile.class[o] = "sink",
         Follows(m, {}, {}), NEW v \in Given, NEW n, n = SinkUpdate(m, o, v)
  PROVE  Follows(n, {}, {})
<1>1. PICK k : k = Shown(m, o, v)
  OBVIOUS
<1>2. m \in Machine /\ NetsInTile
  BY DEF Fine, Simple
<1>3. Fine(k) /\ Sets(k, m) /\ k.pad = m.pad
  BY <1>1, ShownIs
<1>4. \A a \in DOMAIN tile.class : a # o => k.obj[a] = m.obj[a]
  BY <1>1, <1>2, ShownEp
<1>5. Works(k, m, o)
  BY <1>3, <1>4 DEF Works
<1>6. Follows(k, {}, {o}) /\ Open(k)
  BY <1>2, <1>5, FollowsBut, WorkFollows
<1>7. n = Update(k, Out(o), Own(v))
  BY <1>1, Zenon DEF SinkUpdate, Shown
<1>8. Follows(n, {}, {o})
  <2>1. Updated(n, k, o, v)
    BY <1>3, <1>6, <1>7, OutFollows
  <2>2. QED BY <2>1 DEF Updated
<1>9. QED BY <1>8, OtherMade

LEMMA BegunWorks ==
  ASSUME NEW m, Fine(m), NEW o \in DOMAIN tile.class, NEW n, n = Begun(m, o)
  PROVE  Fine(n) /\ Works(n, m, o) /\ n.pad = m.pad
<1>1. m \in Machine
  BY DEF Fine
<1>2. Fine(n) /\ Sets(n, m) /\ n.pad = m.pad
  BY BegunIs
<1>3. \A a \in DOMAIN tile.class : n.obj[a].ep = m.obj[a].ep
  BY <1>1, BegunEp
<1>4. QED BY <1>2, <1>3 DEF Works

LEMMA StartFollows ==
  ASSUME Simple, NEW m, Fine(m), Open(m), Follows(m, {}, {}), NEW o \in DOMAIN tile.class, NEW n, n = StartObject(m, o)
  PROVE  Follows(n, {}, {})
<1>1. tile.class[o] # "source" => Out(o) \in Pads
  BY HasPads DEF Simple
<1>2. m \in Machine /\ tile.class[o] # "mux" /\ NetsInTile /\ Follows(m, {}, {o})
  BY FollowsBut DEF Fine, Simple, Of
<1>3. CASE tile.class[o] \in {"and", "or"} /\ n = GateUpdate(m, o)
  <2>1. Shows(m, o)
    BY DEF Follows, Made
  <2>2. QED BY <1>1, <1>2, <1>3, <2>1, GateFollows
<1>4. CASE tile.class[o] = "cmp" /\ n = Begun(m, o)
  <2>1. Follows(n, {}, {o})
    BY <1>2, <1>4, BegunWorks, WorkFollows
  <2>2. QED BY <1>4, <2>1, OtherMade
<1>5. CASE /\ tile.class[o] = "cmp" /\ m.pad[Out(o)].state >= 0
           /\ n = Update(Begun(m, o), Out(o), Own(m.pad[Out(o)].state))
  <2>1. PICK k, v : k = Begun(m, o) /\ v = m.pad[Out(o)].state
    OBVIOUS
  <2>2. Fine(k) /\ Works(k, m, o) /\ Out(o) \in Pads
    BY <1>1, <1>5, <2>1, BegunWorks
  <2>3. Follows(k, {}, {o}) /\ Open(k)
    BY <1>2, <2>2, WorkFollows
  <2>4. m.pad[Out(o)] \in PadState
    BY <1>2, <2>2, MachineIs
  <2>5. v \in Given
    BY <1>5, <2>1, <2>4 DEF PadState
  <2>6. n = Update(k, Out(o), Own(v))
    BY <1>5, <2>1
  <2>7. Follows(n, {}, {o})
    <3>1. Updated(n, k, o, v)
      BY <2>2, <2>3, <2>5, <2>6, OutFollows
    <3>2. QED BY <3>1 DEF Updated
  <2>8. QED BY <1>5, <2>7, OtherMade
<1>6. CASE /\ tile.class[o] = "sink" /\ m.pad[Out(o)].value # Unset
           /\ n = SinkUpdate(m, o, m.pad[Out(o)].value)
  <2>1. PICK v : v = m.pad[Out(o)].value
    OBVIOUS
  <2>2. Out(o) \in Pads
    BY <1>1, <1>6
  <2>3. m.pad[Out(o)] \in PadState
    BY <1>2, <2>2, MachineIs
  <2>4. v \in Given /\ n = SinkUpdate(m, o, v)
    BY <1>6, <2>1, <2>3 DEF PadState, Texts
  <2>5. QED BY <1>6, <2>2, <2>4, SinkFollows
<1>7. CASE n = m
  BY <1>7
<1>8. QED BY <1>2, <1>3, <1>4, <1>5, <1>6, <1>7, StartIs

LEMMA RestFollows ==
  ASSUME NEW m, m.stack = <<>>, m.fresh = {}, NEW E, NEW X
  PROVE  Follows(m, E, X)
<1>1. DOMAIN m.stack = {}
  OBVIOUS
<1>2. Plain(m) /\ Busy(m) /\ Nested(m) /\ Carried(m)
  BY <1>1 DEF Plain, Busy, Nested, Carried
<1>3. FreshOK(m) /\ Made(m, X) /\ Agrees(m, E)
  BY DEF FreshOK, Made, Shows, MadeOf, Agrees
<1>4. QED BY <1>2, <1>3 DEF Follows

\* A preset of an output, or of an input
LEMMA PresetFollows ==
  ASSUME Simple, at.phase = "setup", NEW m, Fine(m), m.stack = <<>>, Follows(m, {}, {}),
         NEW p \in PadsOf(tile), NEW v \in Given, NEW n,
         n = IF IsOut(p) THEN Update(m, p, Own(v)) ELSE UpdateInput(WithValue(m, p, v), p, Own(v))
  PROVE  Follows(n, {}, {})
<1>1. /\ m.fresh = {} /\ m \in Machine /\ p \in Pads /\ p[1] \in DOMAIN tile.class
      /\ tile \in Tiles /\ WiringOK /\ NetsInTile
  BY DEF Follows, FreshOK, Fine, PadsOf, Simple
<1>2. PICK s : s = Own(v)
  OBVIOUS
<1>3. s \in Strings /\ s.of = NoPad /\ s.text = v /\ (\A k : Read(k, s) = v) /\ s.text \in Given
  BY <1>2, OwnIs DEF Own
<1>4. CASE IsOut(p)
  <2>1. n = Update(m, p, s)
    BY <1>2, <1>4
  <2>2. Takes(n, m, p, s)
    BY <1>1, <1>3, <2>1, UpdateIs
  <2>3. Follows(m, {}, {p[1]}) /\ Open(m)
    BY FollowsBut DEF Open
  <2>4. Follows(n, {}, {p[1]})
    BY <1>1, <1>3, <1>4, <2>2, <2>3, TakeFollows DEF Simple
  <2>5. n.fresh = {}
    BY <1>1, <2>2 DEF Takes
  <2>6. QED BY <2>4, <2>5, MadeFollows DEF Shows, MadeOf
<1>5. CASE ~IsOut(p)
  <2>1. PICK k : k = WithValue(m, p, v)
    OBVIOUS
  <2>2. Fine(k) /\ k.stack = <<>> /\ k.fresh = {}
    <3>1. Fine(k)
      BY <1>1, <2>1, ValueFine
    <3>2. k = [m EXCEPT !.pad[p].value = v]
      BY <2>1 DEF WithValue
    <3>3. k.stack = m.stack /\ k.fresh = m.fresh
      BY <1>1, <3>2, MachineIs
    <3>4. QED BY <1>1, <3>1, <3>3
  <2>3. n = UpdateInput(k, p, s)
    BY <1>2, <1>5, <2>1
  <2>4. Follows(k, {p}, {}) /\ Follows(k, {}, {}) /\ Sent(k, p, s.text)
    BY <2>2, RestFollows DEF Sent
  <2>5. Plain(k) /\ Busy(k) /\ FreshOK(k) /\ Made(k, {})
    BY <2>4 DEF Follows
  <2>6. ~(1 \in DOMAIN k.stack)
    BY <2>2
  <2>7. QED BY <1>1, <1>3, <1>5, <2>2, <2>3, <2>4, <2>5, <2>6, UpdateInputFollows
<1>6. QED BY <1>4, <1>5
-----------------------------------------------------------------------------
(* The values follow, in every tile without a mux                          *)

SettleInv == Of("mux") = {} => Follows(M, {}, {})

LEMMA FollowsNext ==
  ASSUME NEW n \in Machine, Becomes(n), tile' = tile, wiring' = wiring, Follows(n, {}, {}),
         at'.phase \in {"load", "setup"} => n.fresh = {}
  PROVE  Follows(M, {}, {})'
<1>1. M' = n
  BY BecomesIs
<1>2. Plain(M)' /\ Busy(M)' /\ FreshOK(M)'
  <2>1. Plain(M)'
    BY <1>1 DEF Follows, Plain
  <2>2. Busy(M)'
    BY <1>1 DEF Follows, Busy, IsAt, ListOf
  <2>3. FreshOK(M)'
    BY <1>1 DEF Follows, FreshOK
  <2>4. QED BY <2>1, <2>2, <2>3
<1>3. Made(M, {})'
  <2>1. Made(n, {})
    BY DEF Follows
  <2>2. ASSUME NEW o PROVE GateOut(M, o)' = GateOut(n, o)
    BY <1>1 DEF GateOut, Inputs, IsOut
  <2>3. ASSUME NEW o \in DOMAIN tile.class PROVE Shows(M, o)' /\ MadeOf(M, o)'
    <3>1. Shows(n, o) /\ MadeOf(n, o)
      BY <2>1 DEF Made
    <3>2. Shows(M, o)'
      BY <1>1, <3>1 DEF Shows
    <3>3. MadeOf(M, o)'
      BY <1>1, <2>2, <3>1 DEF MadeOf, Inputs, IsOut
    <3>4. QED BY <3>2, <3>3
  <2>4. QED BY <2>3 DEF Made
<1>4. (Nested(n) => Nested(M)') /\ (Doomed(n) => Doomed(M)') /\ (Carried(n) => Carried(M)')
  BY <1>1 DEF Nested, Doomed, Twice, Visits, Carried
<1>5. Agrees(n, {}) => Agrees(M, {})'
  <2>1. ASSUME NEW out PROVE Driven(out)' = Driven(out)
    BY <1>1 DEF Driven, IsOut
  <2>2. ASSUME NEW p, NEW v PROVE Rcvd(n, p, v) => Rcvd(M, p, v)'
    BY <1>1 DEF Rcvd, NotZero, IsZero, Bit
  <2>3. ASSUME NEW out, NEW p PROVE ToCome(n, out, p) => ToCome(M, out, p)'
    BY <1>1 DEF ToCome, Visits, ListOf
  <2>4. QED BY <1>1, <2>1, <2>2, <2>3 DEF Agrees, IsOut
<1>6. QED BY <1>1, <1>2, <1>3, <1>4, <1>5 DEF Follows

LEMMA RestNext ==
  ASSUME stack' = <<>>, fresh' = {}
  PROVE  Follows(M, {}, {})'
<1>1. M'.stack = <<>> /\ M'.fresh = {} /\ DOMAIN M'.stack = {}
  BY DEF M
<1>2. Plain(M)' /\ Busy(M)' /\ Nested(M)' /\ Carried(M)'
  BY <1>1 DEF Plain, Busy, Nested, Carried
<1>3. FreshOK(M)' /\ Made(M, {})' /\ Agrees(M, {})'
  BY <1>1 DEF FreshOK, Made, Shows, MadeOf, Agrees
<1>4. QED BY <1>2, <1>3 DEF Follows

LEMMA PropagateFollows ==
  ASSUME TileInv, Of("mux") = {}, Follows(M, {}, {}), Propagate
  PROVE  \E n \in Machine : Follows(n, {}, {}) /\ Becomes(n) /\ at.phase # "load"
<1>1. PICK m : m = M
  OBVIOUS
<1>2. /\ Fine(m) /\ m.stack = stack /\ m.stack # <<>> /\ m \in Machine /\ Follows(m, {}, {})
      /\ tile \in Tiles /\ WiringOK /\ NetsInTile /\ at.phase # "load"
  BY <1>1, MIs DEF TileInv, LoadInv, Fine, Propagate, AtRest
<1>3. Simple
  BY <1>2 DEF Simple
<1>4. PICK call : call = Head(stack)
  OBVIOUS
<1>5. call = m.stack[1] /\ call \in Calls /\ CallOK(m, call)
  <2>1. 1 \in DOMAIN m.stack /\ call = m.stack[1] /\ call \in Calls
    <3>1. m.stack \in Seq(Calls)
      BY <1>2, MachineIs
    <3>2. QED BY <1>2, <1>4, <3>1
  <2>2. QED BY <1>2, <2>1 DEF Fine
<1>6. CASE call.op = "visit" /\ Becomes(Visit(call))
  <2>1. PICK n : n = Visit(call)
    OBVIOUS
  <2>2. Fine(n)
    BY <1>1, <1>2, <1>4, <1>6, <2>1, VisitFine
  <2>3. Follows(n, {}, {})
    BY <1>1, <1>2, <1>3, <1>4, <1>6, <2>1, VisitFollows
  <2>4. QED BY <1>2, <1>6, <2>1, <2>2, <2>3 DEF Fine
<1>7. CASE call.op = "unlock" /\ Becomes([Drop(M) EXCEPT !.pad[call.pad].lock = FALSE])
  <2>1. PICK p, n : p = m.stack[1].pad /\ n = Without(Drop(m), p)
    OBVIOUS
  <2>2. Returns(n, m)
    BY <1>2, <2>1, ReturnsIs
  <2>3. Follows(n, {}, {}) /\ n \in Machine
    BY <1>2, <1>5, <1>7, <2>2, ReturnFollows DEF Returns
  <2>4. n = [Drop(M) EXCEPT !.pad[call.pad].lock = FALSE]
    BY <1>1, <1>5, <2>1 DEF Without
  <2>5. QED BY <1>2, <1>7, <2>3, <2>4
<1>8. CASE call.op = "output"
  BY <1>5, <1>8 DEF CallOK, Mux, Of
<1>9. QED BY <1>4, <1>6, <1>7, <1>8 DEF Propagate

LEMMA SetupFollows ==
  ASSUME TileInv, Of("mux") = {}, Follows(M, {}, {}), Setup
  PROVE  \/ wiring' = wiring /\ \E n \in Machine : Follows(n, {}, {}) /\ Becomes(n)
         \/ UNCHANGED machine
<1>1. PICK prop, p, m, v : prop = tile.setup[at.line] /\ p = prop.pad /\ m = M /\ v = prop.preset
  OBVIOUS
<1>2. /\ Fine(m) /\ tile \in Tiles /\ m \in Machine /\ at.line \in DOMAIN tile.setup /\ m.stack = <<>>
      /\ at.phase = "setup" /\ WiringOK /\ NetsInTile /\ Follows(m, {}, {})
  BY <1>1, MIs DEF TileInv, LoadInv, Fine, Setup, AtRest
<1>3. p \in PadsOf(tile) /\ v \in Given
  BY <1>1, <1>2, TileIs DEF Given
<1>4. Simple
  BY <1>2 DEF Simple
<1>5. CASE /\ wiring' = wiring
           /\ Becomes(IF IsOut(p) THEN Update(m, p, Own(v))
                      ELSE UpdateInput([m EXCEPT !.pad[p].value = v], p, Own(v)))
  <2>1. PICK n : n = IF IsOut(p) THEN Update(m, p, Own(v)) ELSE UpdateInput(WithValue(m, p, v), p, Own(v))
    OBVIOUS
  <2>2. Follows(n, {}, {})
    BY <1>2, <1>3, <1>4, <2>1, PresetFollows
  <2>3. n = IF IsOut(p) THEN Update(m, p, Own(v)) ELSE UpdateInput([m EXCEPT !.pad[p].value = v], p, Own(v))
    BY <2>1, Zenon DEF WithValue
  <2>4. n \in Machine
    <3>1. PICK s : s = Own(v)
      OBVIOUS
    <3>2. s \in Strings /\ \A k : Read(k, s) \in Given
      BY <1>3, <3>1, OwnIs
    <3>3. p \in Pads /\ p[1] \in DOMAIN tile.class
      BY <1>3 DEF PadsOf
    <3>4. CASE IsOut(p)
      <4>1. n = Update(m, p, s)
        BY <2>1, <3>1, <3>4
      <4>2. Takes(n, m, p, s)
        BY <1>2, <3>2, <3>3, <4>1, UpdateIs
      <4>3. QED BY <4>2 DEF Takes
    <3>5. CASE ~IsOut(p)
      <4>1. PICK k : k = WithValue(m, p, v)
        OBVIOUS
      <4>2. Fine(k)
        BY <1>2, <1>3, <3>3, <4>1, ValueFine
      <4>3. n = UpdateInput(k, p, s)
        BY <2>1, <3>1, <3>5, <4>1
      <4>4. Fine(n)
        BY <1>2, <3>2, <3>3, <3>5, <4>2, <4>3, UpdateInputFine
      <4>5. QED BY <4>4 DEF Fine
    <3>6. QED BY <3>4, <3>5
  <2>5. Becomes(n)
    BY <1>5, <2>3
  <2>6. QED BY <1>5, <2>2, <2>4, <2>5
<1>6. CASE UNCHANGED machine
  BY <1>6
<1>7. QED BY <1>1, <1>5, <1>6 DEF Setup

LEMMA SettleStep == TileInv /\ SettleInv /\ [Next]_vars => SettleInv'
<1>1. SUFFICES ASSUME TileInv, Follows(M, {}, {}), Of("mux") = {}, [Next]_vars PROVE Follows(M, {}, {})'
  <2>1. ASSUME TileInv, SettleInv, [Next]_vars PROVE tile' = tile
    BY <2>1, TileKept DEF TileInv, LoadInv
  <2>2. QED BY <1>1, <2>1 DEF SettleInv, Of
<1>2. tile' = tile /\ tile \in Tiles /\ WiringOK /\ NetsInTile /\ Fine(M) /\ M \in Machine /\ AtOK
  BY <1>1, TileKept DEF TileInv, LoadInv, Fine
<1>3. FreshOK(M) /\ M.stack = stack /\ M.fresh = fresh
  BY <1>1, MIs DEF Follows
<1>4. UNCHANGED machine => Becomes(M)
  BY DEF Becomes, machine, M
<1>5. CASE LoadNet
  <2>1. stack = <<>> /\ fresh = {} /\ UNCHANGED machine
    BY <1>1, <1>3, <1>5 DEF LoadNet, TileInv, AtRest, FreshOK
  <2>2. QED BY <2>1, RestNext DEF machine
<1>6. CASE Loaded \/ IsSetUp \/ IsStarted
  <2>1. UNCHANGED machine /\ wiring' = wiring
    BY <1>6 DEF Loaded, IsSetUp, IsStarted, NextPhase
  <2>2. at'.phase \in {"load", "setup"} => fresh = {}
    BY <1>3, <1>6 DEF Loaded, IsSetUp, IsStarted, NextPhase, FreshOK
  <2>3. QED BY <1>1, <1>2, <1>3, <1>4, <2>1, <2>2, FollowsNext
<1>7. CASE Setup
  <2>1. at.phase = "setup" /\ at'.phase = "setup" /\ stack = <<>> /\ fresh = {}
    BY <1>2, <1>3, <1>7 DEF Setup, AtRest, AtOK, FreshOK
  <2>2. CASE wiring' = wiring /\ \E n \in Machine : Follows(n, {}, {}) /\ Becomes(n)
    <3>1. PICK n \in Machine : Follows(n, {}, {}) /\ Becomes(n)
      BY <2>2
    <3>2. n.fresh = {}
      BY <2>1, <3>1 DEF Follows, FreshOK
    <3>3. QED BY <1>2, <2>2, <3>1, <3>2, FollowsNext
  <2>3. CASE UNCHANGED machine
    BY <2>1, <2>3, RestNext DEF machine
  <2>4. QED BY <1>1, <1>7, <2>2, <2>3, SetupFollows
<1>8. CASE Start
  <2>1. at.phase = "start" /\ at'.phase = "start" /\ wiring' = wiring /\ stack = <<>>
    BY <1>2, <1>8 DEF Start, AtRest, AtOK
  <2>2. PICK o, m, n : o = tile.order[at.line] /\ m = M /\ n = StartObject(m, o)
    OBVIOUS
  <2>3. o \in DOMAIN tile.class /\ Becomes(n)
    BY <1>2, <1>8, <2>2, TileIs DEF Start
  <2>4. Simple /\ Fine(m) /\ Open(m) /\ Follows(m, {}, {})
    BY <1>1, <1>2, <1>3, <2>1, <2>2 DEF Simple, Open
  <2>5. Follows(n, {}, {}) /\ n \in Machine
    BY <1>2, <2>2, <2>3, <2>4, StartFine, StartFollows DEF Fine
  <2>6. QED BY <1>2, <2>1, <2>3, <2>5, FollowsNext
<1>9. CASE \E o \in Of("sink"), value \in Values : Receive(o, value)
  <2>1. PICK o \in Of("sink"), v \in Values : Receive(o, v)
    BY <1>9
  <2>2. PICK m, n : m = M /\ n = SinkUpdate(m, o, v)
    OBVIOUS
  <2>3. at' = at /\ at.phase = "run" /\ wiring' = wiring /\ Becomes(n) /\ stack = <<>>
    BY <2>1, <2>2 DEF Receive, AtRest
  <2>4. o \in DOMAIN tile.class /\ tile.class[o] = "sink" /\ v \in Given
    BY DEF Of, Given
  <2>5. Out(o) \in Pads
    BY <1>2, <2>4, HasPads
  <2>6. Simple /\ Fine(m) /\ Open(m) /\ Follows(m, {}, {})
    BY <1>1, <1>2, <1>3, <2>2, <2>3 DEF Simple, Open
  <2>7. Follows(n, {}, {}) /\ n \in Machine
    BY <2>2, <2>4, <2>5, <2>6, SinkFine, SinkFollows DEF Fine
  <2>8. QED BY <1>2, <2>3, <2>7, FollowsNext
<1>10. CASE Propagate
  <2>1. at' = at /\ wiring' = wiring
    BY <1>10 DEF Propagate
  <2>2. PICK n \in Machine : Follows(n, {}, {}) /\ Becomes(n) /\ at.phase # "load"
    BY <1>1, <1>10, PropagateFollows
  <2>3. at'.phase \in {"load", "setup"} => n.fresh = {}
    BY <2>1, <2>2 DEF Follows, FreshOK
  <2>4. QED BY <1>2, <2>1, <2>2, <2>3, FollowsNext
<1>11. CASE UNCHANGED vars
  <2>1. UNCHANGED machine /\ wiring' = wiring /\ at' = at
    BY <1>11 DEF vars
  <2>2. at'.phase \in {"load", "setup"} => fresh = {}
    BY <1>3, <2>1 DEF FreshOK
  <2>3. QED BY <1>1, <1>2, <1>3, <1>4, <2>1, <2>2, FollowsNext
<1>12. QED BY <1>1, <1>5, <1>6, <1>7, <1>8, <1>9, <1>10, <1>11 DEF Next

LEMMA SettleInit == Init => SettleInv
<1>1. SUFFICES ASSUME Init PROVE Follows(M, {}, {})
  BY DEF SettleInv
<1>2. M.stack = <<>> /\ M.fresh = {}
  BY <1>1, MIs DEF Init
<1>3. QED BY <1>2, RestFollows

LEMMA FollowsSettles ==
  ASSUME TileInv, SettleInv
  PROVE  Of("mux") = {} => Settled /\ RingsReported
<1>1. SUFFICES ASSUME Of("mux") = {}, AtRest, ~warned PROVE AllSettled
  BY DEF Settled, RingsReported
<1>2. PICK m : m = M
  OBVIOUS
<1>3. /\ m \in Machine /\ Fine(m) /\ Follows(m, {}, {}) /\ tile \in Tiles /\ NetsInTile /\ DOMAIN m.stack = {}
      /\ m.pad = pad /\ m.obj = obj /\ m.fresh = fresh /\ m.warned = warned /\ fresh \in SUBSET Pads
  BY <1>1, <1>2, MIs, MachineIs DEF TileInv, LoadInv, Fine, SettleInv, AtRest
<1>4. Agrees(m, {}) /\ FreshOK(m) /\ Made(m, {})
  BY <1>1, <1>3 DEF Follows, Doomed
<1>5. ASSUME NEW out \in fresh, IsOut(out), NEW p \in Driven(out) PROVE Received(p, pad[out].value)
  <2>1. Rcvd(m, p, pad[out].value)
    BY <1>3, <1>4, <1>5 DEF Agrees, ToCome
  <2>2. p[1] \in DOMAIN tile.class
    BY <1>3, <1>5, DrivenIs DEF NetsInTile
  <2>3. tile.class[p[1]] # "mux"
    BY <1>1, <2>2 DEF Of
  <2>4. QED BY <1>3, <2>1, <2>3 DEF Rcvd, Received, NotZero, IsZero
<1>6. ASSUME NEW out \in fresh, IsOut(out) PROVE Computed(out[1])
  <2>1. PICK o : o = out[1]
    OBVIOUS
  <2>2. o \in DOMAIN tile.class /\ Out(o) = out
    BY <1>3, <1>4, <1>6, <2>1, OutOf DEF FreshOK
  <2>3. Shows(m, o) /\ MadeOf(m, o) /\ tile.class[o] # "mux"
    BY <1>1, <1>4, <2>2 DEF Made, Of
  <2>4. QED BY <1>2, <1>3, <1>6, <2>1, <2>2, <2>3 DEF Shows, MadeOf, Computed
<1>7. QED BY <1>5, <1>6 DEF AllSettled

\* In every tile without a mux, whatever its loops and the order its nets are read in: when
\* the calls of a change have all returned (hk_pad_update_str) and no locked input was hit,
\* every input holds what the output of its net holds, and every gate shows what its inputs make.
THEOREM ChangesSettle == Spec => [](Of("mux") = {} => Settled /\ RingsReported)
BY TileInvInit, TileInvStep, SettleInit, SettleStep, FollowsSettles, PTL DEF Spec
=============================================================================
