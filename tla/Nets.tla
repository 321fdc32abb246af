------------------------------- MODULE Nets -------------------------------
(***************************************************************************)
(* The nets of a tile (core/mod.c): who is wired to whom.  A net is known  *)
(* by its rank of allocation, the address that malloc gave it.  Nets are   *)
(* created by the lines of the [nets] section and by pads that refer to    *)
(* one another; merging two nets frees one, which a later creation takes   *)
(* up again.                                                               *)
(***************************************************************************)
EXTENDS Naturals, Sequences

CONSTANT Pads           \* the pads of the objects of the tile

VARIABLE wiring         \* net: pad->net (0: none); pads, id: the nets; table: tile->nets

Wirings == [net : [Pads -> Nat], pads : Seq(Seq(Pads)), id : Seq(Nat), table : Seq(Nat)]

NoWiring == [net |-> [p \in Pads |-> 0], pads |-> <<>>, id |-> <<>>, table |-> <<>>]
-----------------------------------------------------------------------------
(* The functions of mod.c, from a wiring to a wiring                       *)

\* The entries of the table that hold a freed net.
FreedEntries(w) == {i \in DOMAIN w.table : w.id[w.table[i]] = 0}

FirstOf(S) == CHOOSE i \in S : \A j \in S : i <= j

\* The net that hk_net_create returns, recycled or new...
NetCreated(w) == IF FreedEntries(w) # {} THEN w.table[FirstOf(FreedEntries(w))]
                 ELSE Len(w.pads) + 1

\* ...and what it does.  The net is pushed on the table in both cases.
NetCreate(w) ==
  [net |-> w.net,
   pads |-> IF FreedEntries(w) # {} THEN w.pads ELSE Append(w.pads, <<>>),
   id |-> IF FreedEntries(w) # {}
          THEN [w.id EXCEPT ![NetCreated(w)] = FirstOf(FreedEntries(w))]
          ELSE Append(w.id, Len(w.table) + 1),
   table |-> Append(w.table, NetCreated(w))]

\* A pad is put on a net.
Listing(w, n, p) == [net |-> [w.net EXCEPT ![p] = n],
                     pads |-> [w.pads EXCEPT ![n] = Append(@, p)],
                     id |-> w.id, table |-> w.table]

\* hk_net_connect refuses a pad that has a net.
NetConnect_Unchecked(w, n, p) == Listing(w, n, p)
NetConnect(w, n, p) == IF w.net[p] # 0 THEN w ELSE Listing(w, n, p)

\* hk_net_merge: the pads of m move to n, one after the other, and m is freed.
NetMerge_PadsKept(w, n, m) ==
  IF n = m THEN w
  ELSE [net |-> w.net,
        pads |-> [w.pads EXCEPT ![n] = @ \o w.pads[m], ![m] = <<>>],
        id |-> [w.id EXCEPT ![m] = 0], table |-> w.table]
NetMerge(w, n, m) ==
  IF n = m THEN w
  ELSE [net |-> [p \in Pads |-> IF \E k \in DOMAIN w.pads[m] : w.pads[m][k] = p
                                THEN n ELSE w.net[p]],
        pads |-> [w.pads EXCEPT ![n] = @ \o w.pads[m], ![m] = <<>>],
        id |-> [w.id EXCEPT ![m] = 0], table |-> w.table]

\* hk_obj_net: the pad p refers to the pad q.
ObjNet(w, p, q) ==
  CASE w.net[p] # 0 /\ w.net[q] # 0 -> NetMerge(w, w.net[p], w.net[q])
    [] w.net[p] # 0 /\ w.net[q] = 0 -> NetConnect(w, w.net[p], q)
    [] w.net[p] = 0 /\ w.net[q] # 0 -> NetConnect(w, w.net[q], p)
    [] w.net[p] = 0 /\ w.net[q] = 0 ->
         NetConnect(NetConnect(NetCreate(w), NetCreated(w), p), NetCreated(w), q)
-----------------------------------------------------------------------------
(* Any tile wires its pads by these three operations.                      *)

NetsInit == wiring = NoWiring

\* The beginning of a [nets] line, and one pad of it.
Create == wiring' = NetCreate(wiring)
Attach(n, p) == wiring.id[n] # 0 /\ wiring' = NetConnect(wiring, n, p)
Refer(p, q) == wiring' = ObjNet(wiring, p, q)

NetsNext == \/ Create
            \/ \E p \in Pads : \/ \E n \in DOMAIN wiring.id : Attach(n, p)
                               \/ \E q \in Pads : Refer(p, q)

NetsSpec == NetsInit /\ [][NetsNext]_wiring
-----------------------------------------------------------------------------
(* Properties                                                              *)

\* A net lists a pad once, and only pads that point back to it.
Listed(w) == \A n \in DOMAIN w.pads : \A k \in DOMAIN w.pads[n] :
               /\ w.net[w.pads[n][k]] = n
               /\ \A l \in DOMAIN w.pads[n] : w.pads[n][l] = w.pads[n][k] => l = k

\* A pad that points to a net is listed by it.
Pointed(w) == \A p \in Pads : w.net[p] # 0 =>
                w.net[p] \in DOMAIN w.pads /\ \E k \in DOMAIN w.pads[w.net[p]] : w.pads[w.net[p]][k] = p

\* A freed net lists nothing; one in use is the entry of the table that its id tells.
Numbered(w) == /\ \A i \in DOMAIN w.table : w.table[i] \in DOMAIN w.pads
               /\ \A n \in DOMAIN w.pads :
                    IF w.id[n] = 0 THEN w.pads[n] = <<>>
                    ELSE w.id[n] \in DOMAIN w.table /\ w.table[w.id[n]] = n

Sound(w) == /\ w \in Wirings /\ DOMAIN w.id = DOMAIN w.pads
            /\ Listed(w) /\ Pointed(w) /\ Numbered(w)

\* However nets are created, merged and recycled, the pointers of the pads and the lists of
\* the nets agree, no freed net is pointed to, and no two nets share an id.
WiringOK == Sound(wiring)

\* The nets keep the promise of PadGroups.
Groups == INSTANCE PadGroups WITH
            groups <- {{p \in Pads : wiring.net[p] = wiring.net[q]} :
                         q \in {r \in Pads : wiring.net[r] # 0}}
GroupsKept == Groups!Spec
=============================================================================
