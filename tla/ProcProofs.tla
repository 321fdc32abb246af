----------------------------- MODULE ProcProofs -----------------------------
(***************************************************************************)
(* The table of child processes and the objects that own them agree, for   *)
(* any number of entries, processes, objects and starts.                   *)
(*                                                                         *)
(* A table Q is read through the operators below; what each function of    *)
(* proc.c does to them is stated once.                                     *)
(***************************************************************************)
EXTENDS Proc, FiniteSetTheorems, WellFoundedInduction, TLAPS

Used(Q, e) == Q.procs[e].state # "FREE"
Running(Q, e) == Q.procs[e].state = "RUN"
Pid(Q, e) == Q.procs[e].pid
WatchedPid(Q, e) == Q.procs[e].sigchld
Owner(Q, e) == Q.procs[e].user
Known(Q, p) == Q.os[p] # "none"
Watches(Q, e, p) == [pid |-> p, proc |-> e] \in Q.watch

Table == {Q \in ProcType : IsFiniteSet(Q.timers)}

\* Of the table alone: an entry in use has the pid of a process the kernel knows, which no
\* other entry has, watches that pid and no other, and has an owner.
Sound(Q) ==
  /\ \A e \in Entries : Used(Q, e) => /\ Pid(Q, e) \in Pids /\ Known(Q, Pid(Q, e))
                                      /\ WatchedPid(Q, e) = Pid(Q, e) /\ Owner(Q, e) \in Users
  /\ \A e \in Entries : ~Used(Q, e) => WatchedPid(Q, e) = 0
  /\ \A e, f \in Entries : Used(Q, e) /\ Used(Q, f) /\ Pid(Q, e) = Pid(Q, f) => e = f
  /\ \A e \in Entries, p \in Pids : Watches(Q, e, p) <=> Used(Q, e) /\ Pid(Q, e) = p

\* Of the table and the objects: the owner of an entry in use points to it.
Owned(Q, ob) == \A e \in Entries : Used(Q, e) => ob[Owner(Q, e)].proc = e

ObjType == [Users -> [enable : BOOLEAN, proc : 0..NPROCS, respawn : BOOLEAN]]

IInv == TypeOK /\ IsFiniteSet(P.timers) /\ Sound(P) /\ Owned(P, obj)
-----------------------------------------------------------------------------
(* Tables                                                                  *)

LEMMA TableIs == ASSUME NEW Q \in Table
                 PROVE  /\ Q = [procs |-> Q.procs, timers |-> Q.timers, watch |-> Q.watch, os |-> Q.os, halted |-> Q.halted]
                        /\ Q.procs \in [Entries -> Entry] /\ Q.timers \in SUBSET Timer /\ IsFiniteSet(Q.timers)
                        /\ Q.watch \in SUBSET [pid : Pids, proc : Entries]
                        /\ Q.os \in [Pids -> {"none", "running", "zombie"}] /\ Q.halted \in BOOLEAN
BY DEF Table, ProcType

LEMMA IsTable == ASSUME NEW g \in [Entries -> Entry], NEW T \in SUBSET Timer, IsFiniteSet(T),
                        NEW W \in SUBSET [pid : Pids, proc : Entries],
                        NEW O \in [Pids -> {"none", "running", "zombie"}], NEW h \in BOOLEAN
                 PROVE  [procs |-> g, timers |-> T, watch |-> W, os |-> O, halted |-> h] \in Table
BY DEF Table, ProcType

LEMMA EntryIs == ASSUME NEW Q \in Table, NEW e \in Entries
                 PROVE  /\ Q.procs[e] \in Entry /\ Pid(Q, e) \in Pids \cup {0} /\ WatchedPid(Q, e) \in Pids \cup {0}
                        /\ Owner(Q, e) \in Users \cup {NoUser} /\ Q.procs[e].state \in {"FREE", "RUN", "KILL"}
                        /\ Q.procs[e].timeout_tag \in Nat /\ Q.procs[e].out \in BOOLEAN
<1>1. Q.procs[e] \in Entry
  BY TableIs
<1>2. QED BY <1>1 DEF Entry, Pid, WatchedPid, Owner

\* A table that differs in its timers, and in whether an entry runs or is being killed
Similar(Q, R) == /\ \A e \in Entries : /\ Used(R, e) <=> Used(Q, e)
                                      /\ Pid(R, e) = Pid(Q, e) /\ WatchedPid(R, e) = WatchedPid(Q, e)
                                      /\ Owner(R, e) = Owner(Q, e)
                 /\ \A e \in Entries, p \in Pids : Watches(R, e, p) <=> Watches(Q, e, p)
                 /\ \A p \in Pids : Known(Q, p) <=> Known(R, p)

LEMMA SimilarSound == ASSUME NEW Q, NEW R, NEW ob, Similar(Q, R), Sound(Q), Owned(Q, ob)
                      PROVE  Sound(R) /\ Owned(R, ob)
BY DEF Similar, Sound, Owned

LEMMA SimilarTwice == ASSUME NEW Q, NEW R, NEW S, Similar(Q, R), Similar(R, S) PROVE Similar(Q, S)
BY DEF Similar

\* A table that differs in its timers and in the entry e, which is of the same process
Retimed(Q, R, e) == /\ R \in Table /\ Similar(Q, R) /\ R.watch = Q.watch
                    /\ \A f \in Entries \ {e} : R.procs[f] = Q.procs[f]

\* A table without the process of the entry e
Without(Q, R, e) == /\ ~Used(R, e) /\ WatchedPid(R, e) = 0
                    /\ \A f \in Entries \ {e} : /\ Used(R, f) <=> Used(Q, f)
                                               /\ Pid(R, f) = Pid(Q, f) /\ WatchedPid(R, f) = WatchedPid(Q, f)
                                               /\ Owner(R, f) = Owner(Q, f)
                    /\ \A f \in Entries, p \in Pids : Watches(R, f, p) <=> Watches(Q, f, p) /\ f # e
                    /\ \A p \in Pids : Known(Q, p) /\ (Used(Q, e) => p # Pid(Q, e)) => Known(R, p)

LEMMA WithoutSound == ASSUME NEW Q, NEW R, NEW e \in Entries, Without(Q, R, e), Sound(Q) PROVE Sound(R)
<1>1. ASSUME NEW f \in Entries, Used(R, f)
      PROVE  /\ f # e /\ Used(Q, f) /\ Pid(R, f) = Pid(Q, f) /\ Pid(R, f) \in Pids /\ WatchedPid(R, f) = Pid(R, f)
             /\ Owner(R, f) \in Users /\ Known(Q, Pid(Q, f)) /\ (Used(Q, e) => Pid(Q, f) # Pid(Q, e))
  BY <1>1 DEF Without, Sound
<1>2. ASSUME NEW f \in Entries, Used(R, f) PROVE Known(R, Pid(R, f))
  BY <1>1, <1>2 DEF Without
<1>3. \A f \in Entries : ~Used(R, f) => WatchedPid(R, f) = 0
  BY DEF Without, Sound
<1>4. \A f, g \in Entries : Used(R, f) /\ Used(R, g) /\ Pid(R, f) = Pid(R, g) => f = g
  BY <1>1 DEF Sound
<1>5. ASSUME NEW f \in Entries, NEW p \in Pids PROVE Watches(R, f, p) <=> Used(R, f) /\ Pid(R, f) = p
  <2>1. Watches(R, f, p) <=> Used(Q, f) /\ Pid(Q, f) = p /\ f # e
    BY DEF Without, Sound
  <2>2. QED BY <1>1, <2>1 DEF Without
<1>6. QED BY <1>1, <1>2, <1>3, <1>4, <1>5 DEF Sound

\* The objects know of it, or are told.
LEMMA WithoutOwned ==
  ASSUME NEW Q, NEW R, NEW e \in Entries, NEW ob, Without(Q, R, e), Owned(Q, ob) PROVE Owned(R, ob)
BY DEF Without, Owned

LEMMA ToldIs == ASSUME NEW ob \in ObjType, NEW o \in Users
                PROVE  /\ Told(ob, o) \in ObjType /\ Told(ob, o)[o].proc = 0
                       /\ \A x \in Users : x # o => Told(ob, o)[x] = ob[x]
<1> DEFINE r == ob[o].respawn \/ o \in Respawning
           x == [ob[o] EXCEPT !.proc = 0, !.respawn = r]
<1>1. r \in BOOLEAN
  OBVIOUS
<1>2. Told(ob, o) = [ob EXCEPT ![o] = x]
  BY DEF Told, ObjType
<1> HIDE DEF r
<1>3. 0 \in 0..NPROCS
  BY ProcAssumption
<1>4. ob[o] \in [enable : BOOLEAN, proc : 0..NPROCS, respawn : BOOLEAN]
  BY DEF ObjType
<1>5. x \in [enable : BOOLEAN, proc : 0..NPROCS, respawn : BOOLEAN] /\ x.proc = 0
  BY <1>1, <1>3, <1>4
<1> HIDE DEF x
<1>6. QED BY <1>2, <1>5 DEF ObjType

LEMMA WithoutTold ==
  ASSUME NEW Q, NEW R, NEW e \in Entries, NEW ob \in ObjType, Without(Q, R, e), Owned(Q, ob), Sound(Q), Used(Q, e)
  PROVE  Owned(R, Told(ob, Owner(Q, e))) /\ Told(ob, Owner(Q, e)) \in ObjType
<1>1. Owner(Q, e) \in Users /\ ob[Owner(Q, e)].proc = e
  BY DEF Sound, Owned
<1>2. ASSUME NEW f \in Entries, Used(R, f) PROVE Told(ob, Owner(Q, e))[Owner(R, f)].proc = f
  <2>1. f # e /\ Used(Q, f) /\ Owner(R, f) = Owner(Q, f)
    BY <1>2 DEF Without
  <2>2. ob[Owner(Q, f)].proc = f /\ Owner(Q, f) \in Users
    BY <2>1 DEF Owned, Sound
  <2>3. Owner(Q, f) # Owner(Q, e)
    BY <1>1, <2>1, <2>2
  <2>4. QED BY <1>1, <2>1, <2>2, <2>3, ToldIs
<1>3. QED BY <1>1, <1>2, ToldIs DEF Owned
-----------------------------------------------------------------------------
(* What the functions of proc.c do to a table                              *)

\* A set of naturals that is not empty has a least element.
LEMMA LeastNat == ASSUME NEW S \in SUBSET Nat, S # {}
                  PROVE  \E m \in S : \A n \in S : m <= n
<1> DEFINE R == {ss \in Nat \X Nat : ss[1] < ss[2]}
<1>1. IsWellFoundedOn(R, Nat)
  BY NatLessThanWellFounded DEF OpToRel
<1>2. \A m, n \in Nat : ~(<<n, m>> \in R) => m <= n
  OBVIOUS
<1> HIDE DEF R
<1>3. PICK m \in S : \A n \in S : ~(<<n, m>> \in R)
  BY <1>1, WFMin
<1>4. QED BY <1>2, <1>3

LEMMA LeastIs == ASSUME NEW S \in SUBSET Nat, S # {} PROVE Least(S) \in S
BY LeastNat DEF Least

\* sys_timeout finds a tag that nothing refers to.
LEMMA NewTagIs ==
  ASSUME NEW Q \in Table
  PROVE  Least(1..(Cardinality(TagsInUse(Q)) + 1) \ TagsInUse(Q)) \in Nat \ {0}
<1> DEFINE A == {t.tag : t \in Q.timers}
           B == {Q.procs[e].timeout_tag : e \in Entries}
           n == Cardinality(TagsInUse(Q))
<1>1. IsFiniteSet(A)
  <2>1. [t \in Q.timers |-> t.tag] \in Surjection(Q.timers, A)
    BY DEF Surjection
  <2>2. QED BY <2>1, TableIs, FS_Surjection DEF ExistsSurjection
<1>2. IsFiniteSet(B)
  <2>1. IsFiniteSet(Entries)
    BY ProcAssumption, FS_Interval DEF Entries
  <2>2. [e \in Entries |-> Q.procs[e].timeout_tag] \in Surjection(Entries, B)
    BY DEF Surjection
  <2>3. QED BY <2>1, <2>2, FS_Surjection DEF ExistsSurjection
<1>3. IsFiniteSet(TagsInUse(Q))
  BY <1>1, <1>2, FS_Union DEF TagsInUse
<1>4. n \in Nat
  BY <1>3, FS_CardinalityType
<1>5. 1..(n + 1) \ TagsInUse(Q) # {}
  <2>1. SUFFICES ASSUME 1..(n + 1) \subseteq TagsInUse(Q) PROVE FALSE
    OBVIOUS
  <2>2. Cardinality(1..(n + 1)) <= n
    BY <1>3, <2>1, FS_Subset
  <2>3. Cardinality(1..(n + 1)) = n + 1
    BY <1>4, FS_Interval
  <2>4. QED BY <1>4, <2>2, <2>3
<1>6. 1..(n + 1) \ TagsInUse(Q) \in SUBSET Nat
  BY <1>4
<1>7. Least(1..(n + 1) \ TagsInUse(Q)) \in 1..(n + 1)
  BY <1>5, <1>6, LeastIs
<1>8. QED BY <1>4, <1>7

\* A change of an entry that keeps whether it is used, its pid, its watch and its owner
LEMMA EntryChanged ==
  ASSUME NEW Q \in Table, NEW e \in Entries, NEW x \in Entry, NEW T \in SUBSET Timer, IsFiniteSet(T),
         x.state # "FREE" <=> Used(Q, e), x.pid = Pid(Q, e), x.sigchld = WatchedPid(Q, e), x.user = Owner(Q, e)
  PROVE  LET R == [procs |-> [Q.procs EXCEPT ![e] = x], timers |-> T, watch |-> Q.watch, os |-> Q.os, halted |-> Q.halted]
         IN Retimed(Q, R, e)
<1> DEFINE g == [Q.procs EXCEPT ![e] = x]
           R == [procs |-> g, timers |-> T, watch |-> Q.watch, os |-> Q.os, halted |-> Q.halted]
<1>1. g \in [Entries -> Entry] /\ g[e] = x /\ \A f \in Entries \ {e} : g[f] = Q.procs[f]
  BY TableIs
<1> HIDE DEF g
<1>2. R \in Table
  BY <1>1, TableIs, IsTable
<1>3. R.procs = g /\ R.watch = Q.watch /\ R.os = Q.os
  OBVIOUS
<1> HIDE DEF R
<1>4. ASSUME NEW f \in Entries
      PROVE  /\ Used(R, f) <=> Used(Q, f)
             /\ Pid(R, f) = Pid(Q, f) /\ WatchedPid(R, f) = WatchedPid(Q, f) /\ Owner(R, f) = Owner(Q, f)
  <2>1. CASE f = e
    BY <1>1, <1>3, <2>1 DEF Used, Pid, WatchedPid, Owner
  <2>2. CASE f # e
    BY <1>1, <1>3, <2>2 DEF Used, Pid, WatchedPid, Owner
  <2>3. QED BY <2>1, <2>2
<1>5. QED BY <1>1, <1>2, <1>3, <1>4 DEF R, g, Retimed, Similar, Watches, Known

LEMMA SameTimers == ASSUME NEW Q \in Table, NEW T \in SUBSET Timer, IsFiniteSet(T)
                    PROVE  [Q EXCEPT !.timers = T] \in Table /\ Similar(Q, [Q EXCEPT !.timers = T])
<1> DEFINE R == [procs |-> Q.procs, timers |-> T, watch |-> Q.watch, os |-> Q.os, halted |-> Q.halted]
<1>1. [Q EXCEPT !.timers = T] = R
  BY TableIs
<1>2. R \in Table
  BY TableIs, IsTable
<1>3. R.procs = Q.procs /\ R.watch = Q.watch /\ R.os = Q.os
  OBVIOUS
<1> HIDE DEF R
<1>4. QED BY <1>1, <1>2, <1>3 DEF Similar, Used, Pid, WatchedPid, Owner, Watches, Known

LEMMA TagChanged ==
  ASSUME NEW Q \in Table, NEW e \in Entries, NEW T, NEW tag
  PROVE  [Q EXCEPT !.timers = T, !.procs[e].timeout_tag = tag]
           = [procs |-> [Q.procs EXCEPT ![e] = [Q.procs[e] EXCEPT !.timeout_tag = tag]], timers |-> T,
              watch |-> Q.watch, os |-> Q.os, halted |-> Q.halted]
<1> DEFINE g == [Q.procs EXCEPT ![e] = [Q.procs[e] EXCEPT !.timeout_tag = tag]]
<1>1. [Q EXCEPT !.timers = T, !.procs[e].timeout_tag = tag] = [Q EXCEPT !.timers = T, !.procs = g]
  BY Zenon
<1> HIDE DEF g
<1>2. [Q EXCEPT !.timers = T, !.procs = g]
        = [procs |-> g, timers |-> T, watch |-> Q.watch, os |-> Q.os, halted |-> Q.halted]
  <2>1. PICK p, t, w, o, h : Q = [procs |-> p, timers |-> t, watch |-> w, os |-> o, halted |-> h]
    BY TableIs
  <2>2. [Q EXCEPT !.timers = T, !.procs = g] = [[Q EXCEPT !.timers = T] EXCEPT !.procs = g]
    OBVIOUS
  <2>3. [Q EXCEPT !.timers = T] = [procs |-> p, timers |-> T, watch |-> w, os |-> o, halted |-> h]
    BY <2>1
  <2>4. [[procs |-> p, timers |-> T, watch |-> w, os |-> o, halted |-> h] EXCEPT !.procs = g]
          = [procs |-> g, timers |-> T, watch |-> w, os |-> o, halted |-> h]
    OBVIOUS
  <2>5. w = Q.watch /\ o = Q.os /\ h = Q.halted
    BY <2>1
  <2>6. QED BY <2>2, <2>3, <2>4, <2>5
<1>3. QED BY <1>1, <1>2 DEF g

LEMMA ArmTimerIs ==
  ASSUME NEW Q \in Table, NEW e \in Entries, NEW fn \in {"hangup", "kill"}, NEW ticks \in Nat
  PROVE  LET R == ArmTimer(Q, e, fn, ticks)
         IN /\ Retimed(Q, R, e) /\ R.procs[e].state = Q.procs[e].state
            /\ \E t \in Timer : t.proc = e /\ t.tag = R.procs[e].timeout_tag /\ R.timers = Q.timers \cup {t}
<1> DEFINE tag == Least(1..(Cardinality(TagsInUse(Q)) + 1) \ TagsInUse(Q))
           t == [tag |-> tag, fn |-> fn, proc |-> e, left |-> ticks]
           x == [Q.procs[e] EXCEPT !.timeout_tag = tag]
           T == Q.timers \cup {t}
<1>1. tag \in Nat \ {0}
  BY NewTagIs
<1>2. ArmTimer(Q, e, fn, ticks) = [Q EXCEPT !.timers = T, !.procs[e].timeout_tag = tag]
  BY DEF ArmTimer
<1> HIDE DEF tag
<1>3. t \in Timer /\ t.proc = e /\ t.tag = tag
  BY <1>1 DEF Timer
<1> HIDE DEF t
<1>4. T \in SUBSET Timer /\ IsFiniteSet(T)
  BY <1>3, TableIs, FS_AddElement
<1>5. /\ x \in Entry /\ x.state = Q.procs[e].state /\ x.pid = Pid(Q, e) /\ x.sigchld = WatchedPid(Q, e) /\ x.user = Owner(Q, e)
      /\ x.timeout_tag = tag
  BY <1>1, EntryIs DEF Entry, Pid, WatchedPid, Owner
<1> HIDE DEF T
<1>6. [Q EXCEPT !.timers = T, !.procs[e].timeout_tag = tag]
        = [procs |-> [Q.procs EXCEPT ![e] = x], timers |-> T, watch |-> Q.watch, os |-> Q.os, halted |-> Q.halted]
  BY TagChanged
<1> HIDE DEF x
<1> DEFINE R == [procs |-> [Q.procs EXCEPT ![e] = x], timers |-> T, watch |-> Q.watch, os |-> Q.os, halted |-> Q.halted]
<1>7. Retimed(Q, R, e)
  BY <1>4, <1>5, EntryChanged DEF Used
<1>8. R.procs[e] = x /\ R.timers = T
  BY TableIs
<1> HIDE DEF R
<1>9. QED BY <1>2, <1>3, <1>5, <1>6, <1>7, <1>8 DEF R, T

LEMMA TimeoutCancelIs == ASSUME NEW Q \in Table, NEW e \in Entries
                         PROVE  LET R == TimeoutCancel(Q, e)
                                IN /\ Retimed(Q, R, e) /\ R.os = Q.os /\ R.procs[e].state = Q.procs[e].state
                                   /\ R.procs[e].timeout_tag = 0
                                   /\ R.timers = {t \in Q.timers : t.tag # Q.procs[e].timeout_tag}
<1> DEFINE T == {t \in Q.timers : t.tag # Q.procs[e].timeout_tag}
           x == [Q.procs[e] EXCEPT !.timeout_tag = 0]
           R == [procs |-> [Q.procs EXCEPT ![e] = x], timers |-> T, watch |-> Q.watch, os |-> Q.os, halted |-> Q.halted]
<1>1. T \in SUBSET Timer /\ IsFiniteSet(T)
  BY TableIs, FS_Subset
<1>2. /\ x \in Entry /\ x.state = Q.procs[e].state /\ x.pid = Pid(Q, e) /\ x.sigchld = WatchedPid(Q, e) /\ x.user = Owner(Q, e)
      /\ x.timeout_tag = 0
  BY EntryIs DEF Entry, Pid, WatchedPid, Owner
<1>3. TimeoutCancel(Q, e) = R
  BY TagChanged DEF TimeoutCancel
<1> HIDE DEF T, x
<1>4. Retimed(Q, R, e)
  BY <1>1, <1>2, EntryChanged DEF Used
<1>5. R.os = Q.os /\ R.procs[e] = x /\ R.timers = T
  BY TableIs
<1> HIDE DEF R
<1>6. QED BY <1>2, <1>3, <1>4, <1>5 DEF T

LEMMA ProcsSet == ASSUME NEW Q \in Table, NEW g
                  PROVE  [Q EXCEPT !.procs = g]
                           = [procs |-> g, timers |-> Q.timers, watch |-> Q.watch, os |-> Q.os, halted |-> Q.halted]
<1>1. PICK p, t, w, o, h : Q = [procs |-> p, timers |-> t, watch |-> w, os |-> o, halted |-> h]
  BY TableIs
<1>2. [Q EXCEPT !.procs = g] = [procs |-> g, timers |-> t, watch |-> w, os |-> o, halted |-> h]
  BY <1>1
<1>3. t = Q.timers /\ w = Q.watch /\ o = Q.os /\ h = Q.halted
  BY <1>1
<1>4. QED BY <1>2, <1>3

LEMMA EntrySet ==
  ASSUME NEW Q \in Table, NEW e \in Entries, NEW x \in Entry,
         x.state # "FREE" <=> Used(Q, e), x.pid = Pid(Q, e), x.sigchld = WatchedPid(Q, e), x.user = Owner(Q, e)
  PROVE  LET R == [Q EXCEPT !.procs = [Q.procs EXCEPT ![e] = x]]
         IN Retimed(Q, R, e) /\ R.procs[e] = x /\ R.timers = Q.timers
<1> DEFINE R == [Q EXCEPT !.procs = [Q.procs EXCEPT ![e] = x]]
           S == [procs |-> [Q.procs EXCEPT ![e] = x], timers |-> Q.timers, watch |-> Q.watch, os |-> Q.os, halted |-> Q.halted]
<1>1. R = S
  BY ProcsSet
<1>2. Retimed(Q, S, e)
  BY EntryChanged, TableIs
<1>3. S.procs[e] = x /\ S.timers = Q.timers
  BY TableIs
<1>4. QED BY <1>1, <1>2, <1>3

LEMMA FiredIs == ASSUME NEW Q \in Table, NEW t \in Q.timers
                 PROVE  LET R == Fired(Q, t)
                        IN /\ Retimed(Q, R, t.proc) /\ R.timers = Q.timers \ {t}
                           /\ R.procs[t.proc].state = Q.procs[t.proc].state
<1> DEFINE T == Q.timers \ {t}
           e == t.proc
           x == [Q.procs[e] EXCEPT !.timeout_tag = 0]
           R == [procs |-> [Q.procs EXCEPT ![e] = x], timers |-> T, watch |-> Q.watch, os |-> Q.os, halted |-> Q.halted]
<1>1. T \in SUBSET Timer /\ IsFiniteSet(T) /\ e \in Entries
  BY TableIs, FS_Subset DEF Timer
<1>2. Fired(Q, t) = [Q EXCEPT !.timers = T, !.procs[e].timeout_tag = 0]
  BY DEF Fired
<1> HIDE DEF T, e
<1>3. x \in Entry /\ x.state = Q.procs[e].state /\ x.pid = Pid(Q, e) /\ x.sigchld = WatchedPid(Q, e) /\ x.user = Owner(Q, e)
  BY <1>1, EntryIs DEF Entry, Pid, WatchedPid, Owner
<1>4. [Q EXCEPT !.timers = T, !.procs[e].timeout_tag = 0] = R
  BY <1>1, TagChanged
<1> HIDE DEF x
<1>5. Retimed(Q, R, e)
  BY <1>1, <1>3, EntryChanged DEF Used
<1>6. R.procs[e] = x /\ R.timers = T
  BY <1>1, TableIs
<1> HIDE DEF R
<1>7. QED BY <1>2, <1>3, <1>4, <1>5, <1>6 DEF T, e

LEMMA TickTimersIs == ASSUME NEW Q \in Table
                      PROVE  TickTimers(Q) \in Table /\ Similar(Q, TickTimers(Q))
<1> DEFINE tick(t) == [t EXCEPT !.left = IF @ = 0 THEN 0 ELSE @ - 1]
           T == {tick(t) : t \in Q.timers}
<1>1. TickTimers(Q) = [Q EXCEPT !.timers = T]
  BY DEF TickTimers
<1>2. \A t \in Timer : tick(t) \in Timer
  BY DEF Timer
<1>3. T \in SUBSET Timer
  BY <1>2, TableIs
<1> HIDE DEF tick
<1>4. [t \in Q.timers |-> tick(t)] \in Surjection(Q.timers, T)
  BY DEF Surjection
<1>5. IsFiniteSet(T)
  BY <1>4, TableIs, FS_Surjection DEF ExistsSurjection
<1> HIDE DEF T
<1>6. QED BY <1>1, <1>3, <1>5, SameTimers

LEMMA StdoutEofIs == ASSUME NEW Q \in Table, NEW e \in Entries
                     PROVE  StdoutEof(Q, e) \in Table /\ Similar(Q, StdoutEof(Q, e))
<1> DEFINE x == [Q.procs[e] EXCEPT !.out = FALSE]
           R == [Q EXCEPT !.procs = [Q.procs EXCEPT ![e] = x]]
<1>1. x \in Entry /\ x.state = Q.procs[e].state /\ x.pid = Pid(Q, e) /\ x.sigchld = WatchedPid(Q, e) /\ x.user = Owner(Q, e)
  BY EntryIs DEF Entry, Pid, WatchedPid, Owner
<1>2. [Q EXCEPT !.procs[e].out = FALSE] = R
  BY Zenon
<1> HIDE DEF x
<1>3. R \in Table /\ Similar(Q, R)
  BY <1>1, EntrySet DEF Used, Retimed
<1> HIDE DEF R
<1>4. TimeoutCancel(R, e) \in Table /\ Similar(R, TimeoutCancel(R, e))
  BY <1>3, TimeoutCancelIs DEF Retimed
<1>5. StdoutEof(Q, e) = ArmTimer(TimeoutCancel(R, e), e, "hangup", HangupTicks)
  BY <1>2 DEF StdoutEof
<1>6. /\ StdoutEof(Q, e) \in Table /\ Similar(TimeoutCancel(R, e), StdoutEof(Q, e))
  BY <1>4, <1>5, ArmTimerIs, ProcAssumption DEF Retimed
<1>7. QED BY <1>3, <1>4, <1>6, SimilarTwice

LEMMA StopSentIs ==
  ASSUME NEW Q \in Table, NEW e \in Entries
  PROVE  LET R == StopSent(Q, e)
         IN /\ Retimed(Q, R, e)
            /\ IF Running(Q, e)
               THEN /\ R.procs[e].state = "KILL"
                    /\ \E t \in Timer : t.proc = e /\ t.tag = R.procs[e].timeout_tag /\ R.timers = Q.timers \cup {t}
               ELSE R = Q
<1>1. CASE Running(Q, e)
  <2> DEFINE x == [Q.procs[e] EXCEPT !.state = "KILL"]
             R == [Q EXCEPT !.procs = [Q.procs EXCEPT ![e] = x]]
             S == StopSent(Q, e)
  <2>1. x \in Entry /\ x.state = "KILL" /\ x.pid = Pid(Q, e) /\ x.sigchld = WatchedPid(Q, e) /\ x.user = Owner(Q, e)
    BY EntryIs DEF Entry, Pid, WatchedPid, Owner
  <2>2. [Q EXCEPT !.procs[e].state = "KILL"] = R
    BY Zenon
  <2> HIDE DEF x
  <2>3. Retimed(Q, R, e) /\ R.procs[e] = x /\ R.timers = Q.timers
    BY <1>1, <2>1, EntrySet DEF Used, Running
  <2> HIDE DEF R
  <2>4. S = ArmTimer(R, e, "kill", KillTicks)
    BY <1>1, <2>2 DEF StopSent, KillTimerOf, Running
  <2>5. /\ Retimed(R, S, e) /\ S.procs[e].state = R.procs[e].state
        /\ \E t \in Timer : t.proc = e /\ t.tag = S.procs[e].timeout_tag /\ S.timers = R.timers \cup {t}
    <3>1. R \in Table
      BY <2>3 DEF Retimed
    <3>2. KillTicks \in Nat /\ "kill" \in {"hangup", "kill"}
      BY ProcAssumption
    <3> HIDE DEF S
    <3>3. QED BY <2>4, <3>1, <3>2, ArmTimerIs
  <2>6. Retimed(Q, S, e)
    BY <2>3, <2>5, SimilarTwice DEF Retimed
  <2>7. QED BY <1>1, <2>1, <2>3, <2>5, <2>6
<1>2. CASE ~Running(Q, e)
  <2>1. StopSent(Q, e) = Q
    BY <1>2 DEF StopSent, Running
  <2>2. QED BY <1>2, <2>1 DEF Similar, Retimed
<1>3. QED BY <1>1, <1>2

LEMMA StopAllIs == ASSUME NEW Q \in Table
                   PROVE  StopAll(Q) \in Table /\ Similar(Q, StopAll(Q))
<1> DEFINE g == [e \in Entries |-> StopSent(Q, e).procs[e]]
           R == [procs |-> g, timers |-> Q.timers, watch |-> Q.watch, os |-> Q.os, halted |-> Q.halted]
<1>1. StopAll(Q) = R
  BY ProcsSet DEF StopAll
<1>2. ASSUME NEW e \in Entries
      PROVE  /\ StopSent(Q, e).procs[e] \in Entry /\ g[e] = StopSent(Q, e).procs[e]
  BY StopSentIs, EntryIs DEF Retimed
<1>3. g \in [Entries -> Entry]
  BY <1>2
<1>4. R \in Table
  BY <1>3, TableIs, IsTable
<1>5. R.procs = g /\ R.watch = Q.watch /\ R.os = Q.os
  OBVIOUS
<1> HIDE DEF g, R
<1>6. ASSUME NEW e \in Entries
      PROVE  /\ Used(R, e) <=> Used(Q, e)
             /\ Pid(R, e) = Pid(Q, e) /\ WatchedPid(R, e) = WatchedPid(Q, e) /\ Owner(R, e) = Owner(Q, e)
  <2>1. Similar(Q, StopSent(Q, e)) /\ R.procs[e] = StopSent(Q, e).procs[e]
    BY <1>2, <1>5, StopSentIs DEF Retimed
  <2>2. QED BY <2>1 DEF Similar, Used, Pid, WatchedPid, Owner
<1>7. QED BY <1>1, <1>4, <1>5, <1>6 DEF Similar, Watches, Known

\* The kernel's side: a process that is known stays known until it is reaped.
LEMMA OsSet == ASSUME NEW Q \in Table, NEW p \in Pids, NEW s \in {"none", "running", "zombie"}, NEW R,
                      R = [Q EXCEPT !.os[p] = s]
               PROVE  /\ R \in Table /\ R.procs = Q.procs /\ R.watch = Q.watch /\ R.timers = Q.timers
                      /\ R.os[p] = s /\ \A q \in Pids : q # p => R.os[q] = Q.os[q]
<1> DEFINE O == [Q.os EXCEPT ![p] = s]
           S == [procs |-> Q.procs, timers |-> Q.timers, watch |-> Q.watch, os |-> O, halted |-> Q.halted]
<1>1. O \in [Pids -> {"none", "running", "zombie"}] /\ O[p] = s /\ \A q \in Pids : q # p => O[q] = Q.os[q]
  BY TableIs
<1>2. R = [Q EXCEPT !.os = O]
  BY Zenon
<1> HIDE DEF O
<1>3. [Q EXCEPT !.os = O] = S
  <2>1. PICK g, t, w, o, h : Q = [procs |-> g, timers |-> t, watch |-> w, os |-> o, halted |-> h]
    BY TableIs
  <2>2. [Q EXCEPT !.os = O] = [procs |-> g, timers |-> t, watch |-> w, os |-> O, halted |-> h]
    BY <2>1
  <2>3. t = Q.timers /\ w = Q.watch /\ g = Q.procs /\ h = Q.halted
    BY <2>1
  <2>4. QED BY <2>2, <2>3
<1>4. S \in Table
  BY <1>1, TableIs, IsTable
<1>5. QED BY <1>1, <1>2, <1>3, <1>4

LEMMA ExitedIs == ASSUME NEW Q \in Table, NEW p \in Pids, Q.os[p] = "running"
                  PROVE  LET R == Exited(Q, p)
                         IN R \in Table /\ Similar(Q, R) /\ R.procs = Q.procs /\ R.watch = Q.watch /\ R.timers = Q.timers
<1> DEFINE R == Exited(Q, p)
           z == "zombie"
<1>1. R = [Q EXCEPT !.os[p] = z] /\ z \in {"none", "running", "zombie"} /\ z # "none"
  BY DEF Exited
<1> HIDE DEF R, z
<1>2. /\ R \in Table /\ R.procs = Q.procs /\ R.watch = Q.watch /\ R.timers = Q.timers
      /\ R.os[p] = z /\ \A q \in Pids : q # p => R.os[q] = Q.os[q]
  BY <1>1, OsSet
<1>3. \A q \in Pids : Known(Q, q) <=> Known(R, q)
  BY <1>1, <1>2 DEF Known
<1>4. R \in Table /\ Similar(Q, R)
  BY <1>2, <1>3 DEF Similar, Used, Pid, WatchedPid, Owner, Watches
<1>5. QED BY <1>2, <1>4 DEF R

LEMMA SigKillIs == ASSUME NEW Q \in Table, NEW p \in Pids \cup {0}
                   PROVE  LET R == SigKill(Q, p)
                          IN R \in Table /\ Similar(Q, R) /\ R.procs = Q.procs /\ R.watch = Q.watch /\ R.timers = Q.timers
<1>1. CASE p = 0
  <2> DEFINE y == TRUE
             R == [procs |-> Q.procs, timers |-> Q.timers, watch |-> Q.watch, os |-> Q.os, halted |-> y]
  <2>0. SigKill(Q, p) = [Q EXCEPT !.halted = y] /\ y \in BOOLEAN
    BY <1>1 DEF SigKill
  <2> HIDE DEF y
  <2>1. [Q EXCEPT !.halted = y] = R
    <3>1. PICK g, t, w, o, h : Q = [procs |-> g, timers |-> t, watch |-> w, os |-> o, halted |-> h]
      BY TableIs
    <3>2. [Q EXCEPT !.halted = y] = [procs |-> g, timers |-> t, watch |-> w, os |-> o, halted |-> y]
      BY <3>1
    <3>3. t = Q.timers /\ w = Q.watch /\ g = Q.procs /\ o = Q.os
      BY <3>1
    <3>4. QED BY <3>2, <3>3
  <2>2. R \in Table
    BY <2>0, TableIs, IsTable
  <2>3. R.procs = Q.procs /\ R.watch = Q.watch /\ R.os = Q.os /\ R.timers = Q.timers
    OBVIOUS
  <2>4. SigKill(Q, p) = R
    BY <2>0, <2>1
  <2> HIDE DEF R
  <2>5. QED BY <2>2, <2>3, <2>4 DEF Similar, Used, Pid, WatchedPid, Owner, Watches, Known
<1>2. CASE p # 0 /\ Q.os[p] = "running"
  <2>1. SigKill(Q, p) = Exited(Q, p) /\ p \in Pids
    BY <1>2 DEF SigKill, Exited
  <2>2. QED BY <1>2, <2>1, ExitedIs
<1>3. CASE p # 0 /\ Q.os[p] # "running"
  BY <1>3 DEF SigKill, Similar
<1>4. QED BY <1>1, <1>2, <1>3

\* What is left when the entry e is freed and its watch removed
Removed(Q, R, e) == /\ ~Used(R, e) /\ WatchedPid(R, e) = 0
                    /\ \A f \in Entries \ {e} : R.procs[f] = Q.procs[f]
                    /\ \A f \in Entries, p \in Pids :
                         Watches(R, f, p) <=> Watches(Q, f, p) /\ ~(f = e /\ p = WatchedPid(Q, e))
                    /\ \A p \in Pids : Known(Q, p) /\ (Used(Q, e) => p # Pid(Q, e)) => Known(R, p)

LEMMA RemovedIs == ASSUME NEW Q, NEW R, NEW e \in Entries, Sound(Q), Removed(Q, R, e) PROVE Without(Q, R, e)
<1>1. ASSUME NEW f \in Entries \ {e}
      PROVE  /\ Used(R, f) <=> Used(Q, f)
             /\ Pid(R, f) = Pid(Q, f) /\ WatchedPid(R, f) = WatchedPid(Q, f) /\ Owner(R, f) = Owner(Q, f)
  BY DEF Removed, Used, Pid, WatchedPid, Owner
<1>2. ASSUME NEW f \in Entries, NEW p \in Pids PROVE Watches(R, f, p) <=> Watches(Q, f, p) /\ f # e
  <2>1. Watches(Q, e, p) => p = WatchedPid(Q, e)
    BY DEF Sound
  <2>2. QED BY <2>1 DEF Removed
<1>3. QED BY <1>1, <1>2 DEF Removed, Without

LEMMA TermRemoveIs ==
  ASSUME NEW Q \in Table, NEW e \in Entries, NEW R, R = TermRemove(Q, e)
  PROVE  R \in Table /\ Removed(Q, R, e) /\ R.os = Q.os /\ R.timers = {t \in Q.timers : t.tag # Q.procs[e].timeout_tag}
<1> DEFINE C == TimeoutCancel(Q, e)
           W == WatchesLeft(Q, e)
           x == [C.procs[e] EXCEPT !.state = "FREE", !.out = FALSE, !.sigchld = 0, !.user = NoUser]
           g == [C.procs EXCEPT ![e] = x]
           S == [procs |-> g, timers |-> C.timers, watch |-> W, os |-> C.os, halted |-> C.halted]
<1>0. R = [C EXCEPT !.watch = W, !.procs[e] = x]
  BY DEF TermRemove
<1>1. /\ C \in Table /\ Similar(Q, C) /\ C.watch = Q.watch /\ C.os = Q.os
      /\ \A f \in Entries \ {e} : C.procs[f] = Q.procs[f]
      /\ C.timers = {t \in Q.timers : t.tag # Q.procs[e].timeout_tag}
  BY TimeoutCancelIs DEF Retimed
<1>2. W \in SUBSET [pid : Pids, proc : Entries]
  BY TableIs DEF WatchesLeft
<1> HIDE DEF C
<1>3. x \in Entry /\ x.state = "FREE" /\ x.sigchld = 0
  <2> DEFINE c == C.procs[e]
             y1 == [c EXCEPT !.state = "FREE"]
             y2 == [y1 EXCEPT !.out = FALSE]
             y3 == [y2 EXCEPT !.sigchld = 0]
             y4 == [y3 EXCEPT !.user = NoUser]
  <2>1. c \in Entry
    BY <1>1, EntryIs
  <2> HIDE DEF c
  <2>2. y1 \in Entry /\ y1.state = "FREE"
    BY <2>1 DEF Entry
  <2>3. y2 \in Entry /\ y2.state = y1.state
    BY <2>2 DEF Entry
  <2>4. y3 \in Entry /\ y3.state = y2.state /\ y3.sigchld = 0
    BY <2>3 DEF Entry
  <2>5. y4 \in Entry /\ y4.state = y3.state /\ y4.sigchld = y3.sigchld
    BY <2>4 DEF Entry
  <2>6. x = y4
    BY DEF c
  <2>7. QED BY <2>2, <2>3, <2>4, <2>5, <2>6
<1> HIDE DEF x
<1>4. R = S
  <2>1. PICK p, t, w, o, h : C = [procs |-> p, timers |-> t, watch |-> w, os |-> o, halted |-> h]
    BY <1>1, TableIs
  <2>2. R = [C EXCEPT !.watch = W, !.procs = g]
    BY <1>0, Zenon
  <2> HIDE DEF W, g
  <2>3. R = [[C EXCEPT !.watch = W] EXCEPT !.procs = g]
    BY <2>2
  <2>4. [C EXCEPT !.watch = W] = [procs |-> p, timers |-> t, watch |-> W, os |-> o, halted |-> h]
    BY <2>1
  <2>5. [[procs |-> p, timers |-> t, watch |-> W, os |-> o, halted |-> h] EXCEPT !.procs = g]
          = [procs |-> g, timers |-> t, watch |-> W, os |-> o, halted |-> h]
    OBVIOUS
  <2>6. t = C.timers /\ o = C.os /\ h = C.halted
    BY <2>1
  <2>7. QED BY <2>3, <2>4, <2>5, <2>6
<1>5. g \in [Entries -> Entry] /\ g[e] = x /\ \A f \in Entries \ {e} : g[f] = Q.procs[f]
  BY <1>1, <1>3, TableIs
<1> HIDE DEF g
<1>6. S \in Table
  BY <1>1, <1>2, <1>5, TableIs, IsTable
<1>7. S.procs = g /\ S.watch = W /\ S.os = Q.os /\ S.timers = C.timers
  BY <1>1
<1> HIDE DEF S
<1>8. ASSUME NEW f \in Entries, NEW p \in Pids
      PROVE  Watches(S, f, p) <=> Watches(Q, f, p) /\ ~(f = e /\ p = WatchedPid(Q, e))
  <2>1. W = Q.watch \ {[pid |-> WatchedPid(Q, e), proc |-> e]}
    BY DEF WatchesLeft, WatchedPid
  <2>2. [pid |-> p, proc |-> f] = [pid |-> WatchedPid(Q, e), proc |-> e] <=> f = e /\ p = WatchedPid(Q, e)
    OBVIOUS
  <2> HIDE DEF W
  <2>3. QED BY <1>7, <2>1, <2>2 DEF Watches
<1>9. QED BY <1>1, <1>3, <1>4, <1>5, <1>6, <1>7, <1>8 DEF Removed, Used, WatchedPid, Known

\* hk_proc_kill_timeout
LEMMA KillTimeoutIs ==
  ASSUME NEW Q \in Table, NEW t \in Q.timers, NEW ob, Sound(Q), Owned(Q, ob)
  PROVE  KillTimeout(Q, t) \in Table /\ Sound(KillTimeout(Q, t)) /\ Owned(KillTimeout(Q, t), ob)
<1> DEFINE F == Fired(Q, t)
           K == SigKill(F, Q.procs[t.proc].pid)
           R == TermRemove(K, t.proc)
<1>1. t.proc \in Entries
  BY TableIs DEF Timer
<1>2. F \in Table /\ Similar(Q, F)
  BY FiredIs DEF Retimed
<1>3. Q.procs[t.proc].pid \in Pids \cup {0}
  BY <1>1, EntryIs DEF Pid
<1> HIDE DEF F
<1>4. K \in Table /\ Similar(F, K)
  BY <1>2, <1>3, SigKillIs
<1> HIDE DEF K
<1>5. Sound(K) /\ Owned(K, ob)
  BY <1>2, <1>4, SimilarTwice, SimilarSound
<1>6. R \in Table /\ Removed(K, R, t.proc)
  BY <1>1, <1>4, TermRemoveIs
<1> HIDE DEF R
<1>7. Sound(R) /\ Owned(R, ob)
  BY <1>1, <1>5, <1>6, RemovedIs, WithoutSound, WithoutOwned
<1>8. QED BY <1>6, <1>7 DEF R, K, F, KillTimeout

\* The beginning of hk_proc_sigchld: the process is reaped, its entry forgets its pid.
LEMMA SigchldHeadIs ==
  ASSUME NEW Q \in Table, NEW e \in Entries, NEW p \in Pids, NEW R, R = SigchldHead(Reaped(Q, p), e)
  PROVE  /\ R \in Table /\ R.watch = Q.watch /\ \A q \in Pids : q # p => R.os[q] = Q.os[q]
         /\ \A f \in Entries \ {e} : R.procs[f] = Q.procs[f]
         /\ R.procs[e].state = Q.procs[e].state /\ WatchedPid(R, e) = WatchedPid(Q, e) /\ Owner(R, e) = Owner(Q, e)
         /\ R.procs[e].timeout_tag = 0 /\ R.timers = {t \in Q.timers : t.tag # Q.procs[e].timeout_tag}
<1> DEFINE z == "none"
           A == Reaped(Q, p)
           x == [A.procs[e] EXCEPT !.pid = 0]
           B == [A EXCEPT !.procs = [A.procs EXCEPT ![e] = x]]
<1>1. A = [Q EXCEPT !.os[p] = z] /\ z \in {"none", "running", "zombie"}
  BY DEF Reaped
<1> HIDE DEF z, A
<1>2. /\ A \in Table /\ A.procs = Q.procs /\ A.watch = Q.watch /\ A.timers = Q.timers
      /\ \A q \in Pids : q # p => A.os[q] = Q.os[q]
  BY <1>1, OsSet
<1>3. R = TimeoutCancel(B, e)
  <2>1. [A EXCEPT !.procs[e].pid = 0] = B
    BY Zenon
  <2>2. QED BY <2>1 DEF SigchldHead, A
<1>4. /\ x \in Entry /\ x.sigchld = WatchedPid(Q, e) /\ x.state = Q.procs[e].state /\ x.user = Owner(Q, e)
      /\ x.timeout_tag = Q.procs[e].timeout_tag
  BY <1>2, EntryIs DEF Entry, WatchedPid, Owner
<1> HIDE DEF x
<1>5. /\ B \in Table /\ B.watch = Q.watch /\ B.os = A.os /\ B.procs[e] = x /\ B.timers = Q.timers
      /\ \A f \in Entries \ {e} : B.procs[f] = Q.procs[f]
  <2> DEFINE g == [A.procs EXCEPT ![e] = x]
  <2>1. g \in [Entries -> Entry] /\ g[e] = x /\ \A f \in Entries \ {e} : g[f] = Q.procs[f]
    BY <1>2, <1>4, TableIs
  <2> HIDE DEF g
  <2>2. B = [procs |-> g, timers |-> A.timers, watch |-> A.watch, os |-> A.os, halted |-> A.halted]
    BY <1>2, ProcsSet DEF g
  <2> HIDE DEF B
  <2>3. B \in Table
    BY <1>2, <2>1, <2>2, TableIs, IsTable
  <2>4. B.procs = g /\ B.watch = A.watch /\ B.os = A.os /\ B.timers = A.timers
    BY <2>2
  <2>5. QED BY <1>2, <2>1, <2>3, <2>4
<1> HIDE DEF B
<1>6. /\ Retimed(B, R, e) /\ R.os = B.os /\ R.procs[e].state = B.procs[e].state /\ R.procs[e].timeout_tag = 0
      /\ R.timers = {t \in B.timers : t.tag # B.procs[e].timeout_tag}
  BY <1>3, <1>5, TimeoutCancelIs
<1>7. R \in Table /\ R.watch = B.watch /\ WatchedPid(R, e) = WatchedPid(B, e) /\ Owner(R, e) = Owner(B, e)
      /\ \A f \in Entries \ {e} : R.procs[f] = B.procs[f]
  BY <1>6 DEF Retimed, Similar
<1>8. WatchedPid(B, e) = x.sigchld /\ Owner(B, e) = x.user
  BY <1>5 DEF WatchedPid, Owner
<1>9. QED BY <1>2, <1>4, <1>5, <1>6, <1>7, <1>8

\* The end of hk_proc_sigchld: the entry of the process is freed.
LEMMA SigchldIs ==
  ASSUME NEW Q \in Table, NEW e \in Entries, NEW p \in Pids, Sound(Q), Used(Q, e), Pid(Q, e) = p, NEW R,
         R = TermRemove(SigchldHead(Reaped(Q, p), e), e)
  PROVE  R \in Table /\ Without(Q, R, e)
<1> DEFINE C == SigchldHead(Reaped(Q, p), e)
<1>1. /\ C \in Table /\ C.watch = Q.watch /\ WatchedPid(C, e) = WatchedPid(Q, e)
      /\ \A q \in Pids : q # p => C.os[q] = Q.os[q]
      /\ \A f \in Entries \ {e} : C.procs[f] = Q.procs[f]
  BY SigchldHeadIs
<1> HIDE DEF C
<1>2. R \in Table /\ Removed(C, R, e) /\ R.os = C.os
  BY <1>1, TermRemoveIs DEF C
<1>3. Removed(Q, R, e)
  BY <1>1, <1>2 DEF Removed, Known, Watches
<1>4. QED BY <1>2, <1>3, RemovedIs

\* hk_proc_start
LEMMA StartTable ==
  ASSUME NEW Q \in Table, Recyclable(Q) # {}, NEW pid \in Pids, NEW o \in Users, NEW R, R = Start(Q, pid, o)
  PROVE  LET e == FreeEntry(Q)
         IN /\ e \in Entries /\ ~Used(Q, e)
            /\ R \in Table /\ R.timers = Q.timers
            /\ Running(R, e) /\ Pid(R, e) = pid /\ WatchedPid(R, e) = pid /\ Owner(R, e) = o
            /\ \A f \in Entries \ {e} : R.procs[f] = Q.procs[f]
            /\ \A q \in Pids : Known(R, q) <=> Known(Q, q) \/ q = pid
            /\ \A f \in Entries, p \in Pids : Watches(R, f, p) <=> Watches(Q, f, p) \/ (f = e /\ p = pid)
<1> DEFINE e == FreeEntry(Q)
           x == [state |-> "RUN", pid |-> pid, timeout_tag |-> 0, sigchld |-> pid, out |-> TRUE, user |-> o]
           g == [Q.procs EXCEPT ![e] = x]
           W == Q.watch \cup {[pid |-> pid, proc |-> e]}
           z == "running"
           A == [Q EXCEPT !.procs = g]
           B == [A EXCEPT !.watch = W]
<1>1. e \in Entries /\ ~Used(Q, e)
  <2>1. Recyclable(Q) \in SUBSET Nat
    BY ProcAssumption DEF Recyclable, Entries
  <2>2. e \in Recyclable(Q)
    BY <2>1, LeastIs DEF FreeEntry
  <2>3. QED BY <2>2 DEF Recyclable, Used
<1>2. pid # 0
  BY ProcAssumption
<1>3. R = [B EXCEPT !.os[pid] = z] /\ z \in {"none", "running", "zombie"} /\ z # "none"
  <2>1. Set(Q, e, x) = A
    BY Zenon DEF Set
  <2>2. R = [A EXCEPT !.watch = Q.watch \cup {[pid |-> pid, proc |-> e]}, !.os[pid] = "running"]
    <3>1. R = [Set(Q, e, x) EXCEPT !.watch = @ \cup {[pid |-> pid, proc |-> e]}, !.os[pid] = "running"]
      BY DEF Start
    <3>2. A.watch = Q.watch
      BY ProcsSet
    <3> HIDE DEF A, x, e
    <3>3. QED BY <2>1, <3>1, <3>2
  <2> HIDE DEF A
  <2>3. [A EXCEPT !.watch = W, !.os[pid] = z] = [[A EXCEPT !.watch = W] EXCEPT !.os[pid] = z]
    OBVIOUS
  <2>4. QED BY <2>2, <2>3
<1>4. x \in Entry /\ x.state = "RUN" /\ x.pid = pid /\ x.sigchld = pid /\ x.user = o
  <2>1. TRUE \in BOOLEAN /\ "RUN" \in {"FREE", "RUN", "KILL"} /\ 0 \in Nat
    OBVIOUS
  <2>2. QED BY <1>2, <2>1 DEF Entry
<1> HIDE DEF x, e, z
<1>5. g \in [Entries -> Entry] /\ g[e] = x /\ \A f \in Entries \ {e} : g[f] = Q.procs[f]
  BY <1>1, <1>4, TableIs
<1>6. W \in SUBSET [pid : Pids, proc : Entries]
  BY <1>1, <1>2, TableIs
<1> HIDE DEF g, W
<1>7. A = [procs |-> g, timers |-> Q.timers, watch |-> Q.watch, os |-> Q.os, halted |-> Q.halted]
  BY ProcsSet
<1> HIDE DEF A
<1>8. B = [procs |-> g, timers |-> Q.timers, watch |-> W, os |-> Q.os, halted |-> Q.halted]
  BY <1>7
<1> HIDE DEF B
<1>9. B \in Table
  BY <1>5, <1>6, <1>8, TableIs, IsTable
<1>10. B.procs = g /\ B.watch = W /\ B.os = Q.os /\ B.timers = Q.timers
  BY <1>8
<1>11. /\ R \in Table /\ R.procs = g /\ R.watch = W /\ R.timers = Q.timers
       /\ R.os[pid] = z /\ \A q \in Pids : q # pid => R.os[q] = Q.os[q]
  BY <1>2, <1>3, <1>9, <1>10, OsSet
<1>12. Running(R, e) /\ Pid(R, e) = pid /\ WatchedPid(R, e) = pid /\ Owner(R, e) = o
  BY <1>4, <1>5, <1>11 DEF Running, Pid, WatchedPid, Owner
<1>13. \A f \in Entries \ {e} : R.procs[f] = Q.procs[f]
  BY <1>5, <1>11
<1>14. \A q \in Pids : Known(R, q) <=> Known(Q, q) \/ q = pid
  BY <1>2, <1>3, <1>11 DEF Known
<1>15. ASSUME NEW f \in Entries, NEW p \in Pids PROVE Watches(R, f, p) <=> Watches(Q, f, p) \/ (f = e /\ p = pid)
  <2>1. [pid |-> p, proc |-> f] = [pid |-> pid, proc |-> e] <=> f = e /\ p = pid
    OBVIOUS
  <2>2. QED BY <1>11, <2>1 DEF Watches, W
<1>16. QED BY <1>1, <1>2, <1>11, <1>12, <1>13, <1>14, <1>15 DEF e

LEMMA StartIs ==
  ASSUME NEW Q \in Table, Recyclable(Q) # {}, NEW pid \in UnusedPids(Q), NEW o \in Users, NEW ob \in ObjType,
         Sound(Q), Owned(Q, ob), ob[o].proc = 0, NEW R, R = Start(Q, pid, o),
         NEW ob2, ob2 = [ob EXCEPT ![o].proc = FreeEntry(Q)]
  PROVE  R \in Table /\ Sound(R) /\ Owned(R, ob2) /\ ob2 \in ObjType
<1> DEFINE e == FreeEntry(Q)
<1>0. pid \in Pids /\ ~Known(Q, pid)
  BY DEF UnusedPids, Known
<1>1. /\ e \in Entries /\ ~Used(Q, e) /\ pid \in Pids /\ ~Known(Q, pid) /\ R \in Table
      /\ Used(R, e) /\ Pid(R, e) = pid /\ WatchedPid(R, e) = pid /\ Owner(R, e) = o
      /\ \A f \in Entries \ {e} : R.procs[f] = Q.procs[f]
      /\ \A q \in Pids : Known(R, q) <=> Known(Q, q) \/ q = pid
      /\ \A f \in Entries, p \in Pids : Watches(R, f, p) <=> Watches(Q, f, p) \/ (f = e /\ p = pid)
  BY <1>0, StartTable DEF Used, Running
<1> HIDE DEF e
<1>2. ASSUME NEW f \in Entries \ {e}
       PROVE  /\ Used(R, f) <=> Used(Q, f)
              /\ Pid(R, f) = Pid(Q, f) /\ WatchedPid(R, f) = WatchedPid(Q, f) /\ Owner(R, f) = Owner(Q, f)
  BY <1>1 DEF Used, Pid, WatchedPid, Owner
<1>3. ASSUME NEW f \in Entries, Used(Q, f)
       PROVE  f # e /\ Pid(Q, f) \in Pids /\ Pid(Q, f) # pid /\ Known(Q, Pid(Q, f)) /\ Owner(Q, f) \in Users
              /\ Owner(Q, f) # o /\ WatchedPid(Q, f) = Pid(Q, f) /\ ob[Owner(Q, f)].proc = f
  <2>1. f # 0
    BY ProcAssumption DEF Entries
  <2>2. QED BY <1>1, <1>3, <2>1 DEF Sound, Owned
<1>4. Sound(R)
  <2>1. ASSUME NEW f \in Entries, Used(R, f)
        PROVE  Pid(R, f) \in Pids /\ Known(R, Pid(R, f)) /\ WatchedPid(R, f) = Pid(R, f) /\ Owner(R, f) \in Users
    <3>1. CASE f = e
      BY <1>1, <3>1
    <3>2. CASE f # e
      BY <1>2, <1>3, <1>1, <2>1, <3>2
    <3>3. QED BY <3>1, <3>2
  <2>2. ASSUME NEW f \in Entries, ~Used(R, f) PROVE WatchedPid(R, f) = 0
    BY <1>1, <1>2, <2>2 DEF Sound
  <2>3. ASSUME NEW f \in Entries, NEW h \in Entries, Used(R, f), Used(R, h), Pid(R, f) = Pid(R, h) PROVE f = h
    <3>1. \A k \in Entries : Used(R, k) /\ k # e => Used(Q, k) /\ Pid(R, k) = Pid(Q, k) /\ Pid(R, k) # pid
      BY <1>2, <1>3
    <3>2. QED BY <1>1, <2>3, <3>1 DEF Sound
  <2>4. ASSUME NEW f \in Entries, NEW p \in Pids PROVE Watches(R, f, p) <=> Used(R, f) /\ Pid(R, f) = p
    <3>1. Watches(Q, f, p) <=> Used(Q, f) /\ Pid(Q, f) = p
      BY DEF Sound
    <3>2. CASE f = e
      BY <1>1, <3>1, <3>2
    <3>3. CASE f # e
      BY <1>2, <1>1, <3>1, <3>3
    <3>4. QED BY <3>2, <3>3
  <2>5. QED BY <2>1, <2>2, <2>3, <2>4 DEF Sound
<1>5. ob2 \in ObjType /\ ob2[o].proc = e /\ \A u \in Users : u # o => ob2[u] = ob[u]
  <2> DEFINE y == [ob[o] EXCEPT !.proc = e]
  <2>1. ob2 = [ob EXCEPT ![o] = y]
    BY DEF e, ObjType
  <2>2. e \in 0..NPROCS
    BY <1>1, ProcAssumption DEF Entries
  <2>3. y \in [enable : BOOLEAN, proc : 0..NPROCS, respawn : BOOLEAN] /\ y.proc = e
    BY <2>2 DEF ObjType
  <2> HIDE DEF y
  <2>4. QED BY <2>1, <2>3 DEF ObjType
<1>6. Owned(R, ob2)
  BY <1>1, <1>2, <1>3, <1>5 DEF Owned
<1>7. QED BY <1>1, <1>4, <1>5, <1>6
-----------------------------------------------------------------------------
(* The steps of the program                                                *)

Good(Q, ob) == Q \in Table /\ ob \in ObjType /\ Sound(Q) /\ Owned(Q, ob)

LEMMA IInvIs == IInv <=> Good(P, obj) /\ phase \in {"timers", "wait", "done"} /\ starts \in 0..MaxStarts
BY DEF IInv, TypeOK, Good, Table, ObjType

\* The pads and the respawn timer of an object do not matter to the table.
SameProcs(ob, ob1) == ob1 \in ObjType /\ \A u \in Users : ob1[u].proc = ob[u].proc

LEMMA SameProcsGood == ASSUME NEW Q, NEW ob, NEW ob1, Good(Q, ob), SameProcs(ob, ob1) PROVE Good(Q, ob1)
BY DEF Good, SameProcs, Owned, Sound

LEMMA SimilarGood == ASSUME NEW Q, NEW R, NEW ob, Good(Q, ob), R \in Table, Similar(Q, R) PROVE Good(R, ob)
BY SimilarSound DEF Good

LEMMA StopProcGood ==
  ASSUME NEW Q, NEW e \in Entries, NEW ob, Good(Q, ob), StopProc(Q, e, ob) PROVE Good(P', obj')
<1>1. CASE P' = StopSent(Q, e) /\ obj' = ob
  <2>1. StopSent(Q, e) \in Table /\ Similar(Q, StopSent(Q, e))
    BY StopSentIs DEF Good, Retimed
  <2>2. Good(StopSent(Q, e), ob)
    BY <2>1, SimilarGood
  <2>3. QED BY <1>1, <2>2
<1>2. CASE Q.procs[e].state = "RUN" /\ P' = TermRemove(Q, e) /\ obj' = Told(ob, Q.procs[e].user)
  <2>1. Used(Q, e) /\ Q \in Table /\ Sound(Q) /\ Owned(Q, ob) /\ ob \in ObjType
    BY <1>2 DEF Used, Good
  <2> DEFINE R == TermRemove(Q, e)
  <2>2. R \in Table /\ Removed(Q, R, e)
    BY <2>1, TermRemoveIs
  <2> HIDE DEF R
  <2>3. Without(Q, R, e)
    BY <2>1, <2>2, RemovedIs
  <2>4. Sound(R) /\ Owned(R, Told(ob, Owner(Q, e))) /\ Told(ob, Owner(Q, e)) \in ObjType
    BY <2>1, <2>3, WithoutSound, WithoutTold
  <2>5. QED BY <1>2, <2>2, <2>4 DEF Good, R, Owner
<1>3. QED BY <1>1, <1>2 DEF StopProc

LEMMA StartObjGood ==
  ASSUME NEW o \in Users, NEW ob, Good(P, ob), StartObj(o, ob), starts \in 0..MaxStarts
  PROVE  Good(P', obj') /\ starts' \in 0..MaxStarts
<1>1. CASE obj' = ob /\ UNCHANGED <<P, starts>>
  BY <1>1
<1>2. CASE /\ ob[o].proc = 0 /\ starts < MaxStarts /\ Recyclable(P) # {}
           /\ \E pid \in UnusedPids(P) : P' = Start(P, pid, o)
           /\ obj' = [ob EXCEPT ![o].proc = FreeEntry(P)]
           /\ starts' = starts + 1
  <2>1. PICK pid \in UnusedPids(P) : P' = Start(P, pid, o)
    BY <1>2
  <2>2. P \in Table /\ ob \in ObjType /\ Sound(P) /\ Owned(P, ob)
    BY DEF Good
  <2>3. P' \in Table /\ Sound(P') /\ Owned(P', obj') /\ obj' \in ObjType
    BY <1>2, <2>1, <2>2, StartIs
  <2>4. starts' \in 0..MaxStarts
    BY <1>2, ObjAssumption
  <2>5. QED BY <2>3, <2>4 DEF Good
<1>3. QED BY <1>1, <1>2 DEF StartObj

LEMMA EnableStep == ASSUME NEW o \in Users, Good(P, obj), starts \in 0..MaxStarts, Enable(o)
                    PROVE  Good(P', obj') /\ starts' \in 0..MaxStarts
<1> DEFINE ob == [obj EXCEPT ![o].enable = TRUE]
<1>1. SameProcs(obj, ob)
  <2> DEFINE y == [obj[o] EXCEPT !.enable = TRUE]
  <2>1. obj \in ObjType
    BY DEF Good
  <2>2. y \in [enable : BOOLEAN, proc : 0..NPROCS, respawn : BOOLEAN] /\ y.proc = obj[o].proc
    BY <2>1 DEF ObjType
  <2>3. ob = [obj EXCEPT ![o] = y]
    BY Zenon
  <2> HIDE DEF y
  <2>4. QED BY <2>1, <2>2, <2>3 DEF ObjType, SameProcs
<1>2. Good(P, ob)
  BY <1>1, SameProcsGood
<1>3. StartObj(o, ob)
  BY DEF Enable
<1>4. QED BY <1>2, <1>3, StartObjGood

LEMMA DisableStep == ASSUME NEW o \in Users, Good(P, obj), Disable(o)
                     PROVE  Good(P', obj')
<1> DEFINE ob == [obj EXCEPT ![o].enable = FALSE, ![o].respawn = FALSE]
<1>0. obj \in ObjType
  BY DEF Good
<1>1. SameProcs(obj, ob)
  <2> DEFINE y == [obj[o] EXCEPT !.enable = FALSE, !.respawn = FALSE]
  <2>2. y \in [enable : BOOLEAN, proc : 0..NPROCS, respawn : BOOLEAN] /\ y.proc = obj[o].proc
    BY <1>0 DEF ObjType
  <2>3. ob = [obj EXCEPT ![o] = y]
    BY <1>0 DEF ObjType
  <2> HIDE DEF y
  <2>4. QED BY <1>0, <2>2, <2>3 DEF ObjType, SameProcs
<1>2. Good(P, ob)
  BY <1>1, SameProcsGood
<1>3. \/ obj[o].proc # 0 /\ StopProc(P, obj[o].proc, ob)
      \/ obj' = ob /\ P' = P
  BY DEF Disable
<1>4. obj[o].proc # 0 => obj[o].proc \in Entries
  BY <1>0, ProcAssumption DEF ObjType, Entries
<1> HIDE DEF ob
<1>5. QED BY <1>2, <1>3, <1>4, StopProcGood

LEMMA RespawnStep == ASSUME NEW o \in Users, Good(P, obj), starts \in 0..MaxStarts, Respawn(o)
                     PROVE  Good(P', obj') /\ starts' \in 0..MaxStarts
<1> DEFINE ob == [obj EXCEPT ![o].respawn = FALSE]
<1>1. SameProcs(obj, ob)
  <2> DEFINE y == [obj[o] EXCEPT !.respawn = FALSE]
  <2>1. obj \in ObjType
    BY DEF Good
  <2>2. y \in [enable : BOOLEAN, proc : 0..NPROCS, respawn : BOOLEAN] /\ y.proc = obj[o].proc
    BY <2>1 DEF ObjType
  <2>3. ob = [obj EXCEPT ![o] = y]
    BY Zenon
  <2> HIDE DEF y
  <2>4. QED BY <2>1, <2>2, <2>3 DEF ObjType, SameProcs
<1>2. Good(P, ob)
  BY <1>1, SameProcsGood
<1>3. StartObj(o, ob) \/ (obj' = ob /\ UNCHANGED <<P, starts>>)
  BY DEF Respawn
<1> HIDE DEF ob
<1>4. QED BY <1>2, <1>3, StartObjGood

LEMMA HangupStep == ASSUME Good(P, obj), HangupTimeout PROVE Good(P', obj')
<1>1. PICK t \in P.timers : StopProc(Fired(P, t), t.proc, obj)
  BY DEF HangupTimeout, DueTimers
<1>2. P \in Table
  BY DEF Good
<1>3. t.proc \in Entries
  BY <1>2, TableIs DEF Timer
<1>4. Good(Fired(P, t), obj)
  BY <1>2, FiredIs, SimilarGood DEF Retimed
<1>5. QED BY <1>1, <1>3, <1>4, StopProcGood

LEMMA KillTimeoutStep == ASSUME Good(P, obj), KillTimeoutFires PROVE Good(P', obj')
<1>1. PICK t \in P.timers : P' = KillTimeout(P, t)
  BY DEF KillTimeoutFires, DueTimers
<1>2. P \in Table /\ obj \in ObjType /\ Sound(P) /\ Owned(P, obj)
  BY DEF Good
<1>3. P' \in Table /\ Sound(P') /\ Owned(P', obj)
  BY <1>1, <1>2, KillTimeoutIs
<1>4. obj' = obj
  BY DEF KillTimeoutFires
<1>5. QED BY <1>2, <1>3, <1>4 DEF Good

LEMMA ReapStep == ASSUME NEW p \in Pids, Good(P, obj), Reap(p) PROVE Good(P', obj')
<1>1. P \in Table /\ obj \in ObjType /\ Sound(P) /\ Owned(P, obj)
  BY DEF Good
<1>2. ASSUME NEW e \in Entries PROVE e \in Watchers(P, p) <=> Used(P, e) /\ Pid(P, e) = p
  <2>1. Watches(P, e, p) <=> Used(P, e) /\ Pid(P, e) = p
    BY <1>1 DEF Sound
  <2>2. e \in Watchers(P, p) <=> Watches(P, e, p)
    <3>1. P.watch \in SUBSET [pid : Pids, proc : Entries]
      BY <1>1, TableIs
    <3>2. \A w \in P.watch : w = [pid |-> w.pid, proc |-> w.proc]
      BY <3>1
    <3>3. QED BY <3>2 DEF Watchers, Watches
  <2>3. QED BY <2>1, <2>2
<1>3. \A e \in Watchers(P, p) : e \in Entries
  BY <1>1, TableIs DEF Watchers
<1>4. CASE Watchers(P, p) = {}
  <2> DEFINE z == "none"
             R == Reaped(P, p)
  <2>1. R = [P EXCEPT !.os[p] = z] /\ z \in {"none", "running", "zombie"}
    BY DEF Reaped
  <2> HIDE DEF z, R
  <2>2. /\ R \in Table /\ R.procs = P.procs /\ R.watch = P.watch
        /\ \A q \in Pids : q # p => R.os[q] = P.os[q]
    BY <1>1, <2>1, OsSet
  <2>3. \A e \in Entries : Used(P, e) => Pid(P, e) # p
    BY <1>2, <1>4
  <2>4. \A e \in Entries : /\ Used(R, e) <=> Used(P, e)
                           /\ Pid(R, e) = Pid(P, e) /\ WatchedPid(R, e) = WatchedPid(P, e) /\ Owner(R, e) = Owner(P, e)
    BY <2>2 DEF Used, Pid, WatchedPid, Owner
  <2>5. \A e \in Entries, q \in Pids : Watches(R, e, q) <=> Watches(P, e, q)
    BY <2>2 DEF Watches
  <2>6. \A q \in Pids : q # p => (Known(R, q) <=> Known(P, q))
    BY <2>2 DEF Known
  <2>7. Sound(R)
    BY <1>1, <2>3, <2>4, <2>5, <2>6 DEF Sound
  <2>8. Owned(R, obj)
    BY <1>1, <2>4 DEF Owned
  <2>9. P' = R /\ obj' = obj
    BY <1>4 DEF Reap, R
  <2>10. QED BY <1>1, <2>2, <2>7, <2>8, <2>9 DEF Good
<1>5. CASE Watchers(P, p) # {}
  <2>1. PICK e \in Watchers(P, p) : IF P.procs[e].pid = p
                                    THEN /\ P' = TermRemove(SigchldHead(Reaped(P, p), e), e)
                                         /\ obj' = Told(obj, P.procs[e].user)
                                    ELSE /\ P' = [Reaped(P, p) EXCEPT !.watch = @ \ {[pid |-> p, proc |-> e]}]
                                         /\ UNCHANGED obj
    BY <1>5 DEF Reap
  <2>2. e \in Entries /\ Used(P, e) /\ Pid(P, e) = p
    BY <1>2, <1>3
  <2>3. P' = TermRemove(SigchldHead(Reaped(P, p), e), e) /\ obj' = Told(obj, Owner(P, e))
    BY <2>1, <2>2 DEF Pid, Owner
  <2>4. P' \in Table /\ Without(P, P', e)
    BY <1>1, <2>2, <2>3, SigchldIs
  <2>5. Sound(P')
    BY <1>1, <2>2, <2>4, WithoutSound
  <2>6. Owned(P', obj') /\ obj' \in ObjType
    BY <1>1, <2>2, <2>3, <2>4, WithoutTold
  <2>7. QED BY <2>4, <2>5, <2>6 DEF Good
<1>6. QED BY <1>4, <1>5

LEMMA PollStep == ASSUME NEW ticks, Good(P, obj), Poll(ticks) PROVE Good(P', obj')
<1>1. obj' = obj /\ (P' = TickTimers(P) \/ P' = P)
  BY DEF Poll
<1>2. Good(TickTimers(P), obj)
  BY TickTimersIs, SimilarGood DEF Good
<1>3. QED BY <1>1, <1>2

LEMMA EofStep == ASSUME NEW e \in Entries, Good(P, obj), Eof(e) PROVE Good(P', obj')
<1>1. Good(StdoutEof(P, e), obj)
  BY StdoutEofIs, SimilarGood DEF Good
<1>2. QED BY <1>1 DEF Eof

LEMMA QuitStep == ASSUME Good(P, obj), Quit PROVE Good(P', obj')
<1>1. Good(StopAll(P), obj)
  BY StopAllIs, SimilarGood DEF Good
<1>2. QED BY <1>1 DEF Quit

LEMMA ChildExitStep == ASSUME NEW p \in Pids, Good(P, obj), ChildExit(p) PROVE Good(P', obj')
<1>1. Good(Exited(P, p), obj)
  BY ExitedIs, SimilarGood DEF Good, ChildExit
<1>2. QED BY <1>1 DEF ChildExit

LEMMA NoProcsIs == /\ NoProcs \in Table /\ NoProcs.timers = {}
                   /\ \A e \in Entries : ~Used(NoProcs, e) /\ WatchedPid(NoProcs, e) = 0
                   /\ \A e \in Entries, p \in Pids : ~Watches(NoProcs, e, p)
<1> DEFINE b == FALSE
           t == "FREE"
           B == [state |-> t, pid |-> 0, timeout_tag |-> 0, sigchld |-> 0, out |-> b, user |-> NoUser]
           g == [e \in Entries |-> B]
           n == "none"
           O == [p \in Pids |-> n]
           T == {}
           Q == NoProcs
<1>1. Q = [procs |-> g, timers |-> T, watch |-> {}, os |-> O, halted |-> b]
  BY DEF NoProcs, Blank
<1>2. b \in BOOLEAN /\ n \in {"none", "running", "zombie"} /\ t \in {"FREE", "RUN", "KILL"} /\ t = "FREE"
  OBVIOUS
<1> HIDE DEF b, n, t, Q
<1>3. B \in Entry /\ B.state = "FREE" /\ B.sigchld = 0
  BY <1>2 DEF Entry
<1> HIDE DEF B
<1>4. g \in [Entries -> Entry] /\ O \in [Pids -> {"none", "running", "zombie"}] /\ \A e \in Entries : g[e] = B
  BY <1>2, <1>3
<1>5. T \in SUBSET Timer /\ IsFiniteSet(T) /\ T \in SUBSET [pid : Pids, proc : Entries]
  BY FS_EmptySet
<1> HIDE DEF g, O
<1>6. Q \in Table
  BY <1>1, <1>2, <1>4, <1>5, IsTable
<1>7. Q.procs = g /\ Q.watch = {} /\ Q.timers = {}
  BY <1>1
<1>8. \A e \in Entries : ~Used(Q, e) /\ WatchedPid(Q, e) = 0
  BY <1>3, <1>4, <1>7 DEF Used, WatchedPid
<1>9. \A e \in Entries, p \in Pids : ~Watches(Q, e, p)
  BY <1>7 DEF Watches
<1>10. QED BY <1>6, <1>7, <1>8, <1>9 DEF Q

LEMMA InitGood == Init => IInv
<1> SUFFICES ASSUME Init PROVE IInv
  OBVIOUS
<1> DEFINE y == [enable |-> FALSE, proc |-> 0, respawn |-> FALSE]
<1>1. P = NoProcs /\ obj = [u \in Users |-> y]
  BY DEF Init
<1>2. P \in Table /\ Sound(P) /\ Owned(P, obj)
  BY <1>1, NoProcsIs DEF Sound, Owned
<1>3. y \in [enable : BOOLEAN, proc : 0..NPROCS, respawn : BOOLEAN]
  BY ProcAssumption
<1> HIDE DEF y
<1>4. obj \in ObjType
  BY <1>1, <1>3 DEF ObjType
<1>5. phase \in {"timers", "wait", "done"} /\ starts \in 0..MaxStarts
  BY ObjAssumption DEF Init
<1>6. QED BY <1>2, <1>4, <1>5, IInvIs DEF Good

LEMMA NextGood == IInv /\ [Next]_vars => IInv'
<1> SUFFICES ASSUME IInv, [Next]_vars PROVE IInv'
  OBVIOUS
<1>1. Good(P, obj) /\ phase \in {"timers", "wait", "done"} /\ starts \in 0..MaxStarts
  BY IInvIs
<1>2. SUFFICES Good(P', obj') /\ phase' \in {"timers", "wait", "done"} /\ starts' \in 0..MaxStarts
  <2>1. IInv' <=> Good(P', obj') /\ phase' \in {"timers", "wait", "done"} /\ starts' \in 0..MaxStarts
    BY DEF IInv, TypeOK, Good, Table, ObjType
  <2>2. QED BY <2>1
<1>3. CASE HangupTimeout
  BY <1>1, <1>3, HangupStep DEF HangupTimeout
<1>4. CASE KillTimeoutFires
  BY <1>1, <1>4, KillTimeoutStep DEF KillTimeoutFires
<1>5. ASSUME NEW p \in Pids, Reap(p) PROVE Good(P', obj') /\ phase' = phase /\ starts' = starts
  BY <1>1, <1>5, ReapStep DEF Reap
<1>6. CASE WaitDone
  BY <1>1, <1>6 DEF WaitDone
<1>7. ASSUME NEW ticks \in BOOLEAN, Poll(ticks) PROVE Good(P', obj') /\ phase' = "wait" /\ starts' = starts
  BY <1>1, <1>7, PollStep DEF Poll
<1>8. ASSUME NEW o \in Users, Enable(o) PROVE Good(P', obj') /\ phase' = phase /\ starts' \in 0..MaxStarts
  BY <1>1, <1>8, EnableStep DEF Enable
<1>9. ASSUME NEW o \in Users, Disable(o) PROVE Good(P', obj') /\ phase' = phase /\ starts' = starts
  BY <1>1, <1>9, DisableStep DEF Disable
<1>10. ASSUME NEW o \in Users, Respawn(o) PROVE Good(P', obj') /\ phase' = phase /\ starts' \in 0..MaxStarts
  BY <1>1, <1>10, RespawnStep DEF Respawn
<1>11. ASSUME NEW e \in Entries, Eof(e) PROVE Good(P', obj') /\ phase' = phase /\ starts' = starts
  BY <1>1, <1>11, EofStep DEF Eof
<1>12. ASSUME NEW p \in Pids, ChildExit(p) PROVE Good(P', obj') /\ phase' = phase /\ starts' = starts
  BY <1>1, <1>12, ChildExitStep DEF ChildExit
<1>13. CASE Quit
  BY <1>1, <1>13, QuitStep DEF Quit
<1>14. CASE UNCHANGED vars
  BY <1>1, <1>14 DEF vars
<1>15. QED BY <1>1, <1>3, <1>4, <1>5, <1>6, <1>7, <1>8, <1>9, <1>10, <1>11, <1>12, <1>13, <1>14 DEF Next, LoopStep

LEMMA Always == Spec => []IInv
BY InitGood, NextGood, PTL DEF Spec

\* The owner of every process in use points to its entry (CallbackOwner): start, stop, the
\* timers and the death of a child, with entries and pids recycled, never leave an object
\* with two processes, nor a process whose cb_term would reach an object that forgot it.
THEOREM ProcessesAreOwned == Spec => []CallbackOwner
<1>1. IInv => CallbackOwner
  <2> SUFFICES ASSUME IInv PROVE CallbackOwner
    OBVIOUS
  <2>1. TypeOK /\ Sound(P) /\ Owned(P, obj)
    BY DEF IInv
  <2>2. ASSUME NEW e \in Entries, Active(e) PROVE P.procs[e].user \in Users /\ obj[P.procs[e].user].proc = e
    <3>1. Owner(P, e) \in Users /\ obj[Owner(P, e)].proc = e
      BY <2>1, <2>2 DEF Active, Used, Sound, Owned
    <3>2. QED BY <3>1 DEF Owner
  <2>3. QED BY <2>1, <2>2 DEF CallbackOwner
<1>2. QED BY <1>1, Always, PTL

\* The SIGCHLD sources are exactly those of the entries in use (WatchedWhileUsed), so that
\* waitpid's answer for a pid is told to the entry of that process.
THEOREM DeathsAreHeard == Spec => []WatchedWhileUsed
<1>1. IInv => WatchedWhileUsed
  <2> SUFFICES ASSUME IInv PROVE WatchedWhileUsed
    OBVIOUS
  <2>1. P \in Table /\ Sound(P)
    BY IInvIs DEF Good
  <2>2. P.watch \in SUBSET [pid : Pids, proc : Entries]
    BY <2>1, TableIs
  <2>3. ASSUME NEW w \in P.watch
        PROVE  w.proc \in Entries /\ Active(w.proc) /\ w = [pid |-> P.procs[w.proc].pid, proc |-> w.proc]
    <3>1. w.proc \in Entries /\ w.pid \in Pids /\ w = [pid |-> w.pid, proc |-> w.proc]
      BY <2>2
    <3>2. Watches(P, w.proc, w.pid)
      BY <3>1 DEF Watches
    <3>3. Used(P, w.proc) /\ Pid(P, w.proc) = w.pid
      BY <2>1, <3>1, <3>2 DEF Sound
    <3>4. QED BY <3>1, <3>3 DEF Used, Active, Pid
  <2>4. ASSUME NEW e \in Entries, Active(e) PROVE [pid |-> P.procs[e].pid, proc |-> e] \in P.watch
    <3>1. Used(P, e) /\ Pid(P, e) \in Pids
      BY <2>1, <2>4 DEF Used, Active, Sound
    <3>2. Watches(P, e, Pid(P, e))
      BY <2>1, <3>1 DEF Sound
    <3>3. QED BY <3>2 DEF Watches, Pid
  <2> DEFINE U == {f \in Entries : Active(f)}
  <2>5. P.watch = {[pid |-> P.procs[e].pid, proc |-> e] : e \in U}
    BY <2>3, <2>4
  <2>6. QED BY <2>5 DEF WatchedWhileUsed
<1>2. QED BY <1>1, Always, PTL
=============================================================================
