--------------------------- MODULE LauncherProofs ---------------------------
EXTENDS Launcher, ProcProofs

(***************************************************************************)
(* What Launcher.tla promises, for every number of table entries, of       *)
(* requests in flight, of retries and of process identifiers.  The table   *)
(* of the launcher's children is the one of os/linux/proc.c, hence the     *)
(* lemmas of ProcProofs on what each of its functions does to it.          *)
(*                                                                         *)
(* The argument.  RunHasEngine, NeverStuck and BrokerRestarts each tie a   *)
(* flag of the launcher to an entry of that table, which its own handlers  *)
(* and the timers and signals of proc.c change: none is inductive.         *)
(* LauncherInv adds to them that the table is tidy (an entry in use has an *)
(* owner, a watch is for an entry in use, a timer is the only one of an    *)
(* entry being killed), that a pointer of the launcher is to a process of  *)
(* that owner which nothing has asked to stop, and that a launcher which   *)
(* says HELLO or RETRY has a request or a delay that will bring it on.     *)
(***************************************************************************)

\* Of the table: an entry in use has an owner, only entries in use are watched, and a timer
\* is the only one of an entry that is being killed and knows it.
Tidy(Q) ==
  /\ \A e \in Entries : Used(Q, e) => Owner(Q, e) \in Users
  /\ \A e \in Entries, p \in Pids : Watches(Q, e, p) => Used(Q, e) /\ p = WatchedPid(Q, e)
  /\ \A t \in Q.timers : /\ Q.procs[t.proc].state = "KILL" /\ Q.procs[t.proc].timeout_tag = t.tag
                         /\ \A u \in Q.timers : u.proc = t.proc => u = t

Has(Q, u) == \E e \in Entries : Used(Q, e) /\ Owner(Q, e) = u

\* A pointer of the launcher to a process of u
Held(Q, e, u) == e # 0 => Running(Q, e) /\ Owner(Q, e) = u

\* There is a broker that the launcher has already stopped.
Stopping(l) == \E e \in Entries : Used(l.P, e) /\ Owner(l.P, e) = broker /\ e # l.mqtt_proc

Fit(l) ==
  /\ Tidy(l.P) /\ Held(l.P, l.engine_proc, engine) /\ Held(l.P, l.mqtt_proc, broker)
  /\ l.state = "RUN" => l.engine_proc # 0
  /\ l.online /\ ~l.lost /\ l.state = "RESTART" => Has(l.P, engine)
  /\ l.mqtt_restart /\ ~l.mqtt_lost => Stopping(l)

Waits(l) == l.online /\ ~l.lost /\ l.state \in {"HELLO", "RETRY"} =>
              l.hello > 0 \/ \E r \in DOMAIN l.reqs : l.reqs[r].kind # "none"

\* The state of a launcher that may have n requests in flight
RunType(n) ==
  [state : {"HELLO", "RETRY", "RUN", "RESTART"}, online : BOOLEAN, fallback : BOOLEAN,
   engine_proc : 0..NPROCS, ping : BOOLEAN, hello : 0..2, mqtt_proc : 0..NPROCS,
   mqtt_restart : BOOLEAN, mqtt_retry_count : 0..MQTT_MAX_RETRIES+1, mqtt_timers : 0..2, mqtt_lost : BOOLEAN,
   opt_no_mqtt : BOOLEAN, MaxTiles : 0..1, reqs : [1..n -> RequestType], lost : BOOLEAN, P : Table]

Sane(l, n) == l \in RunType(n) /\ Fit(l) /\ Waits(l)

LauncherInv == \E n \in Nat \ {0} : Sane(L, n)
-----------------------------------------------------------------------------
(* What the functions of proc.c do to a tidy table                         *)

\* Nothing that Tidy speaks of
SameEntries(Q, R) == R \in Table /\ R.procs = Q.procs /\ R.watch = Q.watch /\ R.timers = Q.timers

LEMMA SameIs == ASSUME NEW Q, NEW R, SameEntries(Q, R)
                PROVE  /\ Tidy(Q) => Tidy(R)
                       /\ \A e, u : /\ Held(Q, e, u) => Held(R, e, u)
                                    /\ Used(R, e) <=> Used(Q, e)
                                    /\ Owner(R, e) = Owner(Q, e)
                       /\ \A u : Has(Q, u) => Has(R, u)
BY DEF SameEntries, Tidy, Held, Has, Used, Running, Owner, WatchedPid, Watches

LEMMA TidyStart ==
  ASSUME NEW Q \in Table, Tidy(Q), Recyclable(Q) # {}, NEW pid \in Pids, NEW o \in Users, NEW R, R = Start(Q, pid, o)
  PROVE  /\ R \in Table /\ Tidy(R) /\ FreeEntry(Q) \in Entries /\ ~Used(Q, FreeEntry(Q)) /\ Held(R, FreeEntry(Q), o)
         /\ \A f \in Entries : Used(Q, f) => R.procs[f] = Q.procs[f]
<1> DEFINE e == FreeEntry(Q)
<1>1. /\ e \in Entries /\ ~Used(Q, e) /\ R \in Table /\ R.timers = Q.timers
      /\ Running(R, e) /\ WatchedPid(R, e) = pid /\ Owner(R, e) = o
      /\ \A f \in Entries \ {e} : R.procs[f] = Q.procs[f]
      /\ \A f \in Entries, p \in Pids : Watches(R, f, p) <=> Watches(Q, f, p) \/ (f = e /\ p = pid)
  BY StartTable
<1> HIDE DEF e
<1>2. ASSUME NEW f \in Entries, f # e
      PROVE  (Used(R, f) <=> Used(Q, f)) /\ Owner(R, f) = Owner(Q, f) /\ WatchedPid(R, f) = WatchedPid(Q, f)
  BY <1>1, <1>2 DEF Used, Owner, WatchedPid
<1>3. ASSUME NEW t \in R.timers
      PROVE  /\ R.procs[t.proc].state = "KILL" /\ R.procs[t.proc].timeout_tag = t.tag
             /\ \A u \in R.timers : u.proc = t.proc => u = t
  <2>1. t \in Q.timers /\ t.proc \in Entries
    BY <1>1, TableIs DEF Timer
  <2>2. Q.procs[t.proc].state = "KILL"
    BY <2>1 DEF Tidy
  <2>3. t.proc # e
    BY <1>1, <2>2 DEF Used
  <2>4. R.procs[t.proc] = Q.procs[t.proc]
    BY <1>1, <2>1, <2>3
  <2>5. QED BY <1>1, <2>1, <2>4 DEF Tidy
<1>4. ASSUME NEW f \in Entries, NEW p \in Pids, Watches(R, f, p) PROVE Used(R, f) /\ p = WatchedPid(R, f)
  <2>1. CASE f = e
    <3>1. ~Watches(Q, e, p)
      BY <1>1 DEF Tidy
    <3>2. QED BY <1>1, <1>4, <2>1, <3>1 DEF Running, Used
  <2>2. CASE f # e
    BY <1>1, <1>2, <1>4, <2>2 DEF Tidy
  <2>3. QED BY <2>1, <2>2
<1>5. ASSUME NEW f \in Entries, Used(R, f) PROVE Owner(R, f) \in Users
  BY <1>1, <1>2, <1>5 DEF Tidy
<1>6. Tidy(R)
  BY <1>3, <1>4, <1>5 DEF Tidy
<1>7. QED BY <1>1, <1>6 DEF e, Held

LEMMA TidyRemove ==
  ASSUME NEW Q \in Table, Tidy(Q), NEW e \in Entries, NEW R, R = TermRemove(Q, e)
  PROVE  R \in Table /\ Tidy(R) /\ ~Used(R, e) /\ \A f \in Entries : f # e => R.procs[f] = Q.procs[f]
<1>1. R \in Table /\ Removed(Q, R, e) /\ R.timers = {t \in Q.timers : t.tag # Q.procs[e].timeout_tag}
  BY TermRemoveIs
<1>2. ~Used(R, e) /\ \A f \in Entries : f # e => R.procs[f] = Q.procs[f]
  BY <1>1 DEF Removed
<1>3. ASSUME NEW f \in Entries, f # e
      PROVE  (Used(R, f) <=> Used(Q, f)) /\ Owner(R, f) = Owner(Q, f) /\ WatchedPid(R, f) = WatchedPid(Q, f)
  BY <1>2, <1>3 DEF Used, Owner, WatchedPid
<1>4. ASSUME NEW t \in R.timers
      PROVE  /\ R.procs[t.proc].state = "KILL" /\ R.procs[t.proc].timeout_tag = t.tag
             /\ \A u \in R.timers : u.proc = t.proc => u = t
  <2>1. t \in Q.timers /\ t.proc \in Entries /\ t.proc # e
    BY <1>1, TableIs DEF Timer, Tidy
  <2>2. QED BY <1>1, <1>2, <2>1 DEF Tidy
<1>5. ASSUME NEW f \in Entries, NEW p \in Pids, Watches(R, f, p) PROVE Used(R, f) /\ p = WatchedPid(R, f)
  <2>1. Watches(Q, f, p) /\ ~(f = e /\ p = WatchedPid(Q, e))
    BY <1>1, <1>5 DEF Removed
  <2>2. f # e /\ Used(Q, f) /\ p = WatchedPid(Q, f)
    BY <2>1 DEF Tidy
  <2>3. QED BY <1>3, <2>2
<1>6. ASSUME NEW f \in Entries, Used(R, f) PROVE Owner(R, f) \in Users
  BY <1>2, <1>3, <1>6 DEF Tidy
<1>7. QED BY <1>1, <1>2, <1>4, <1>5, <1>6 DEF Tidy

\* A change of the entry e and of the timers, as long as those of e go with it
LEMMA TidyRetimed ==
  ASSUME NEW Q \in Table, Tidy(Q), NEW e \in Entries, NEW R \in Table, R.watch = Q.watch,
         \A f \in Entries : f # e => R.procs[f] = Q.procs[f],
         Used(R, e) <=> Used(Q, e), Owner(R, e) = Owner(Q, e), WatchedPid(R, e) = WatchedPid(Q, e),
         \A t \in R.timers : t.proc # e => t \in Q.timers,
         \A t \in R.timers : t.proc = e => /\ R.procs[e].state = "KILL" /\ R.procs[e].timeout_tag = t.tag
                                           /\ \A u \in R.timers : u.proc = e => u = t
  PROVE  Tidy(R)
<1>1. ASSUME NEW f \in Entries
      PROVE  (Used(R, f) <=> Used(Q, f)) /\ Owner(R, f) = Owner(Q, f) /\ WatchedPid(R, f) = WatchedPid(Q, f)
  BY DEF Used, Owner, WatchedPid
<1>2. \A f \in Entries, p \in Pids : Watches(R, f, p) <=> Watches(Q, f, p)
  BY DEF Watches
<1>3. ASSUME NEW t \in R.timers
      PROVE  /\ R.procs[t.proc].state = "KILL" /\ R.procs[t.proc].timeout_tag = t.tag
             /\ \A u \in R.timers : u.proc = t.proc => u = t
  <2>1. t.proc \in Entries
    BY TableIs DEF Timer
  <2>2. CASE t.proc = e
    BY <2>2
  <2>3. CASE t.proc # e
    BY <2>1, <2>3 DEF Tidy
  <2>4. QED BY <2>2, <2>3
<1>4. QED BY <1>1, <1>2, <1>3 DEF Tidy

\* hk_proc_stop, of a process that runs
LEMMA TidyStop ==
  ASSUME NEW Q \in Table, Tidy(Q), NEW e \in Entries, Running(Q, e), NEW R, R = StopSent(Q, e)
  PROVE  R \in Table /\ Tidy(R) /\ Used(R, e) /\ Owner(R, e) = Owner(Q, e) /\ \A f \in Entries : f # e => R.procs[f] = Q.procs[f]
<1>1. Retimed(Q, R, e) /\ R.procs[e].state = "KILL"
  BY StopSentIs
<1>2. PICK t \in Timer : t.proc = e /\ t.tag = R.procs[e].timeout_tag /\ R.timers = Q.timers \cup {t}
  BY StopSentIs
<1>3. /\ R \in Table /\ R.watch = Q.watch /\ \A f \in Entries : f # e => R.procs[f] = Q.procs[f]
      /\ Used(R, e) <=> Used(Q, e)
      /\ Owner(R, e) = Owner(Q, e) /\ WatchedPid(R, e) = WatchedPid(Q, e)
  BY <1>1 DEF Retimed, Similar
<1>4. \A u \in Q.timers : u.proc # e
  BY DEF Tidy, Running
<1>5. Tidy(R)
  BY <1>1, <1>2, <1>3, <1>4, TidyRetimed
<1>6. QED BY <1>1, <1>3, <1>5 DEF Used

\* hk_proc_stop, when kill failed
LEMMA TidyKill ==
  ASSUME NEW Q \in Table, Tidy(Q), NEW e \in Entries, Running(Q, e), NEW R, R = [Q EXCEPT !.procs[e].state = "KILL"]
  PROVE  R \in Table /\ Tidy(R) /\ \A f \in Entries : f # e => R.procs[f] = Q.procs[f]
<1> DEFINE x == [Q.procs[e] EXCEPT !.state = "KILL"]
<1>1. x \in Entry /\ x.state = "KILL" /\ x.pid = Pid(Q, e) /\ x.sigchld = WatchedPid(Q, e) /\ x.user = Owner(Q, e)
  BY EntryIs DEF Entry, Pid, WatchedPid, Owner
<1>2. R = [Q EXCEPT !.procs = [Q.procs EXCEPT ![e] = x]]
  BY Zenon
<1> HIDE DEF x
<1>3. Retimed(Q, R, e) /\ R.procs[e] = x /\ R.timers = Q.timers
  <2>1. x.state # "FREE" <=> Used(Q, e)
    BY <1>1 DEF Used, Running
  <2> DEFINE S == [Q EXCEPT !.procs = [Q.procs EXCEPT ![e] = x]]
  <2>2. Retimed(Q, S, e) /\ S.procs[e] = x /\ S.timers = Q.timers
    BY <1>1, <2>1, EntrySet
  <2> HIDE DEF S
  <2>3. QED BY <1>2, <2>2 DEF S
<1>4. /\ R \in Table /\ R.watch = Q.watch /\ \A f \in Entries : f # e => R.procs[f] = Q.procs[f]
      /\ Used(R, e) <=> Used(Q, e)
      /\ Owner(R, e) = Owner(Q, e) /\ WatchedPid(R, e) = WatchedPid(Q, e)
  BY <1>3 DEF Retimed, Similar
<1>5. \A u \in Q.timers : u.proc # e
  BY DEF Tidy, Running
<1>6. Tidy(R)
  BY ZenonT(30), <1>3, <1>4, <1>5, TidyRetimed
<1>7. QED BY <1>4, <1>6

\* The beginning of hk_proc_sigchld
LEMMA TidyHead ==
  ASSUME NEW Q \in Table, Tidy(Q), NEW e \in Entries, NEW p \in Pids, NEW R, R = SigchldHead(Reaped(Q, p), e)
  PROVE  /\ R \in Table /\ Tidy(R) /\ R.procs[e].state = Q.procs[e].state /\ Owner(R, e) = Owner(Q, e)
         /\ \A f \in Entries : f # e => R.procs[f] = Q.procs[f]
<1>1. /\ R \in Table /\ R.watch = Q.watch
      /\ \A f \in Entries : f # e => R.procs[f] = Q.procs[f]
      /\ R.procs[e].state = Q.procs[e].state /\ WatchedPid(R, e) = WatchedPid(Q, e) /\ Owner(R, e) = Owner(Q, e)
      /\ R.timers = {t \in Q.timers : t.tag # Q.procs[e].timeout_tag}
  BY SigchldHeadIs
<1>2. \A t \in R.timers : t \in Q.timers /\ t.proc # e
  BY <1>1 DEF Tidy
<1>3. Tidy(R)
  BY <1>1, <1>2, TidyRetimed DEF Used
<1>4. QED BY <1>1, <1>3

\* hk_proc_kill_timeout
LEMMA TidyKillTimeout ==
  ASSUME NEW Q \in Table, Tidy(Q), NEW t \in Q.timers, NEW R, R = KillTimeout(Q, t)
  PROVE  /\ t.proc \in Entries /\ Q.procs[t.proc].state = "KILL"
         /\ R \in Table /\ Tidy(R) /\ ~Used(R, t.proc) /\ \A f \in Entries : f # t.proc => R.procs[f] = Q.procs[f]
<1> DEFINE F == Fired(Q, t)
           K == SigKill(F, Q.procs[t.proc].pid)
<1>1. t.proc \in Entries /\ Q.procs[t.proc].state = "KILL" /\ \A u \in Q.timers : u.proc = t.proc => u = t
  BY TableIs DEF Timer, Tidy
<1>2. Retimed(Q, F, t.proc) /\ F.timers = Q.timers \ {t} /\ F.procs[t.proc].state = Q.procs[t.proc].state
  BY FiredIs
<1>3. Q.procs[t.proc].pid \in Pids \cup {0}
  BY <1>1, EntryIs DEF Pid
<1> HIDE DEF F
<1>4. /\ F \in Table /\ F.watch = Q.watch /\ \A f \in Entries : f # t.proc => F.procs[f] = Q.procs[f]
      /\ Used(F, t.proc) <=> Used(Q, t.proc)
      /\ Owner(F, t.proc) = Owner(Q, t.proc) /\ WatchedPid(F, t.proc) = WatchedPid(Q, t.proc)
  BY <1>1, <1>2 DEF Retimed, Similar
<1>5. \A u \in F.timers : u \in Q.timers /\ u.proc # t.proc
  BY <1>1, <1>2
<1>6. Tidy(F)
  BY <1>1, <1>4, <1>5, TidyRetimed
<1>7. SameEntries(F, K)
  BY <1>3, <1>4, SigKillIs DEF SameEntries
<1>8. K \in Table /\ Tidy(K) /\ K.procs = F.procs
  BY <1>6, <1>7, SameIs DEF SameEntries
<1>9. R = TermRemove(K, t.proc)
  BY DEF KillTimeout, F
<1> HIDE DEF K
<1>10. R \in Table /\ Tidy(R) /\ ~Used(R, t.proc) /\ \A f \in Entries : f # t.proc => R.procs[f] = K.procs[f]
  BY <1>1, <1>8, <1>9, TidyRemove
<1>11. QED BY <1>1, <1>4, <1>8, <1>10
-----------------------------------------------------------------------------
(* The functions of the launcher                                           *)

World(w, n) == /\ w.pe \in Pids \cup {0} /\ w.pm \in Pids \cup {0} /\ w.sent \in BOOLEAN
               /\ w.req \in 0..n

LEMMA PointersIs == ASSUME NEW n, NEW l \in RunType(n)
                    PROVE  /\ l.P \in Table
                           /\ l.engine_proc # 0 => l.engine_proc \in Entries
                           /\ l.mqtt_proc # 0 => l.mqtt_proc \in Entries
BY ProcAssumption DEF RunType, Entries

\* The fields that Fit reads, but for the state
SameView(l, m) ==
  /\ SameEntries(l.P, m.P) /\ m.engine_proc = l.engine_proc /\ m.mqtt_proc = l.mqtt_proc
  /\ m.mqtt_restart = l.mqtt_restart /\ m.mqtt_lost = l.mqtt_lost /\ m.online = l.online

LEMMA SameViewFit ==
  ASSUME NEW l, NEW m, Fit(l), SameView(l, m),
         m.state = "RUN" => m.engine_proc # 0,
         m.online /\ ~m.lost /\ m.state = "RESTART" => Has(l.P, engine)
  PROVE  Fit(m)
<1>1. /\ Tidy(m.P) /\ Held(m.P, m.engine_proc, engine) /\ Held(m.P, m.mqtt_proc, broker)
      /\ Has(l.P, engine) => Has(m.P, engine)
      /\ \A e : (Used(m.P, e) <=> Used(l.P, e)) /\ Owner(m.P, e) = Owner(l.P, e)
  BY SameIs DEF Fit, SameView
<1>2. Stopping(l) => Stopping(m)
  BY <1>1 DEF Stopping, SameView
<1>3. QED BY <1>1, <1>2 DEF Fit, SameView

\* hello_retry always leaves something to wait for.
LEMMA HelloRetryIs ==
  ASSUME NEW n, NEW l \in RunType(n), NEW m, m = HelloRetry(l)
  PROVE  /\ m \in RunType(n) /\ m.state = "RETRY" /\ SameView(l, m) /\ Waits(m) /\ m.lost = l.lost
         /\ Fit(l) => Fit(m)
<1>1. CASE l.online
  <2>1. m = [l EXCEPT !.state = "RETRY", !.hello = More(@)]
    BY <1>1 DEF HelloRetry
  <2> DEFINE h == More(l.hello)
  <2>0. h \in 0..2 /\ h > 0 /\ m = [l EXCEPT !.state = "RETRY", !.hello = h]
    BY <2>1 DEF RunType, More
  <2> HIDE DEF h
  <2>2. /\ m \in RunType(n) /\ m.state = "RETRY" /\ m.hello > 0 /\ m.P = l.P /\ m.engine_proc = l.engine_proc
        /\ m.mqtt_proc = l.mqtt_proc /\ m.mqtt_restart = l.mqtt_restart /\ m.mqtt_lost = l.mqtt_lost
        /\ m.online = l.online /\ m.lost = l.lost
    BY <2>0 DEF RunType
  <2>3. SameView(l, m) /\ Waits(m)
    BY <2>2, PointersIs DEF SameView, SameEntries, Waits
  <2>4. QED BY <2>2, <2>3, SameViewFit
<1>2. CASE ~l.online
  <2> DEFINE q == [l.P EXCEPT !.halted = TRUE]
  <2>1. m = [l EXCEPT !.state = "RETRY", !.P = q]
    BY <1>2, Zenon DEF HelloRetry
  <2>2. q \in Table /\ SameEntries(l.P, q)
    BY PointersIs DEF Table, ProcType, SameEntries
  <2> HIDE DEF q
  <2>3. /\ m \in RunType(n) /\ m.state = "RETRY" /\ m.P = q /\ m.engine_proc = l.engine_proc
        /\ m.mqtt_proc = l.mqtt_proc /\ m.mqtt_restart = l.mqtt_restart /\ m.mqtt_lost = l.mqtt_lost
        /\ m.online = l.online /\ m.lost = l.lost
    BY <2>1, <2>2 DEF RunType
  <2>4. SameView(l, m) /\ Waits(m)
    BY <1>2, <2>2, <2>3 DEF SameView, Waits
  <2>5. QED BY <2>3, <2>4, SameViewFit
<1>3. QED BY <1>1, <1>2 DEF RunType

\* The entries in use are left as they are.
Kept(Q, R) == \A e \in Entries : Used(Q, e) => R.procs[e] = Q.procs[e]

LEMMA KeptIs == ASSUME NEW Q, NEW R, Kept(Q, R)
                PROVE  /\ \A e \in Entries : Used(Q, e) => Used(R, e) /\ Owner(R, e) = Owner(Q, e)
                       /\ \A e \in Entries : \A u : Held(Q, e, u) => Held(R, e, u)
                       /\ \A u : Has(Q, u) => Has(R, u)
BY DEF Kept, Used, Owner, Held, Has, Running

\* hello_retry once there is no engine
LEMMA EngineGone ==
  ASSUME NEW n, NEW l \in RunType(n), Fit(l), NEW m, m = HelloRetry([l EXCEPT !.engine_proc = 0])
  PROVE  /\ m \in RunType(n) /\ Fit(m) /\ Waits(m) /\ Kept(l.P, m.P) /\ m.mqtt_proc = l.mqtt_proc
         /\ m.state = "RETRY" /\ m.engine_proc = 0
<1> DEFINE k == [l EXCEPT !.engine_proc = 0]
<1>1. /\ k \in RunType(n) /\ k.P = l.P /\ k.engine_proc = 0
      /\ k.mqtt_proc = l.mqtt_proc /\ k.mqtt_restart = l.mqtt_restart /\ k.mqtt_lost = l.mqtt_lost
  BY ProcAssumption DEF RunType
<1>2. m = HelloRetry(k)
  OBVIOUS
<1> HIDE DEF k
<1>3. m \in RunType(n) /\ m.state = "RETRY" /\ SameView(k, m) /\ Waits(m)
  BY <1>1, <1>2, HelloRetryIs
<1>4. /\ SameEntries(l.P, m.P) /\ m.engine_proc = 0 /\ m.mqtt_proc = l.mqtt_proc
      /\ m.mqtt_restart = l.mqtt_restart /\ m.mqtt_lost = l.mqtt_lost
  BY <1>1, <1>3 DEF SameView
<1>5. /\ Tidy(m.P) /\ Held(m.P, m.mqtt_proc, broker) /\ Kept(l.P, m.P)
      /\ \A e : (Used(m.P, e) <=> Used(l.P, e)) /\ Owner(m.P, e) = Owner(l.P, e)
  BY <1>4, SameIs DEF Fit, Kept, SameEntries
<1>6. Stopping(l) => Stopping(m)
  BY <1>4, <1>5 DEF Stopping
<1>7. Fit(m)
  BY <1>3, <1>4, <1>5, <1>6 DEF Fit, Held
<1>8. QED BY <1>3, <1>4, <1>5, <1>7

LEMMA EngineStartNowIs ==
  ASSUME NEW n, NEW l \in RunType(n), Fit(l), NEW w, w.pe \in Pids \cup {0}, NEW m, m = EngineStartNow(l, w)
  PROVE  /\ m \in RunType(n) /\ Fit(m) /\ Waits(m) /\ Kept(l.P, m.P) /\ m.mqtt_proc = l.mqtt_proc
         /\ m.state # "RESTART" /\ (m.engine_proc \in Entries => ~Used(l.P, m.engine_proc))
<1>1. CASE w.pe # 0 /\ Recyclable(l.P) # {}
  <2> DEFINE q == Start(l.P, w.pe, engine)
             e == FreeEntry(l.P)
             b == l.ping \/ (l.online /\ ~l.fallback)
  <2>1. m = [l EXCEPT !.P = q, !.engine_proc = e, !.state = "RUN", !.ping = b]
    BY <1>1, Zenon DEF EngineStartNow
  <2>2. l.P \in Table /\ Tidy(l.P) /\ w.pe \in Pids /\ engine \in Users /\ b \in BOOLEAN
    BY <1>1, LauncherAssumption DEF Fit, RunType
  <2>3. q \in Table /\ Tidy(q) /\ e \in Entries /\ ~Used(l.P, e) /\ Held(q, e, engine) /\ Kept(l.P, q)
    BY <1>1, <2>2, TidyStart DEF Kept
  <2> HIDE DEF q, e, b
  <2>4. e \in 0..NPROCS /\ e # 0
    BY <2>3, ProcAssumption DEF Entries
  <2>5. /\ m \in RunType(n) /\ m.state = "RUN" /\ m.P = q /\ m.engine_proc = e
        /\ m.mqtt_proc = l.mqtt_proc /\ m.mqtt_restart = l.mqtt_restart /\ m.mqtt_lost = l.mqtt_lost
    BY <2>1, <2>2, <2>3, <2>4 DEF RunType
  <2>6. Held(q, l.mqtt_proc, broker)
    BY <2>3, KeptIs, PointersIs DEF Fit, Held
  <2>7. Stopping(l) => Stopping(m)
    BY <2>3, <2>5, KeptIs DEF Stopping
  <2>8. Fit(m)
    BY <2>3, <2>4, <2>5, <2>6, <2>7 DEF Fit
  <2>9. QED BY <2>3, <2>5, <2>8 DEF Waits
<1>2. CASE ~(w.pe # 0 /\ Recyclable(l.P) # {})
  <2>1. m = HelloRetry([l EXCEPT !.engine_proc = 0])
    BY <1>2 DEF EngineStartNow
  <2>2. 0 \notin Entries
    BY DEF Entries
  <2>3. QED BY <2>1, <2>2, EngineGone
<1>3. QED BY <1>1, <1>2

\* The fields that Waits reads
SameWait(l, m) == /\ m.state = l.state /\ m.hello = l.hello /\ m.reqs = l.reqs
                  /\ m.online = l.online /\ m.lost = l.lost

LEMMA SameWaitIs == ASSUME NEW l, NEW m, SameWait(l, m), Waits(l) PROVE Waits(m)
BY DEF SameWait, Waits

\* engine_terminated, when an engine ends: nothing points to its entry any more.
LEMMA EngineTerminatedIs ==
  ASSUME NEW n, NEW l \in RunType(n), Fit(l), NEW w, w.pe \in Pids \cup {0}, NEW m, m = EngineTerminated(l, w),
         NEW e \in Entries, Used(l.P, e)
  PROVE  /\ m \in RunType(n) /\ Fit(m) /\ (Waits(l) => Waits(m)) /\ Kept(l.P, m.P) /\ m.mqtt_proc = l.mqtt_proc
         /\ m.state # "RESTART" /\ m.engine_proc # e
<1> DEFINE k == [l EXCEPT !.ping = FALSE]
<1>1. /\ k \in RunType(n) /\ k.P = l.P /\ k.engine_proc = l.engine_proc /\ SameWait(l, k)
      /\ k.mqtt_proc = l.mqtt_proc /\ k.mqtt_restart = l.mqtt_restart /\ k.mqtt_lost = l.mqtt_lost
  BY DEF RunType, SameWait
<1>2. m = CASE l.engine_proc = 0 /\ l.state = "RESTART" -> EngineStartNow(k, w)
            [] l.engine_proc = 0 /\ l.state # "RESTART" -> k
            [] OTHER -> HelloRetry([k EXCEPT !.engine_proc = 0])
  BY DEF EngineTerminated
<1> HIDE DEF k
<1>3. SameView(l, k)
  BY <1>1, PointersIs DEF SameView, SameEntries, SameWait
<1>4. Fit(k)
  BY <1>1, <1>3, SameViewFit DEF Fit, SameWait
<1>5. e # 0
  BY DEF Entries
<1>6. CASE l.engine_proc = 0 /\ l.state = "RESTART"
  <2>1. m = EngineStartNow(k, w)
    BY <1>2, <1>6
  <2>2. QED BY <1>1, <1>4, <2>1, EngineStartNowIs
<1>7. CASE l.engine_proc = 0 /\ l.state # "RESTART"
  <2>1. m = k
    BY <1>2, <1>7
  <2>2. Waits(l) => Waits(m)
    BY <1>1, <2>1, SameWaitIs
  <2>3. QED BY <1>1, <1>4, <1>5, <1>7, <2>1, <2>2 DEF Kept, SameWait
<1>8. CASE l.engine_proc # 0
  <2>1. m = HelloRetry([k EXCEPT !.engine_proc = 0])
    BY <1>2, <1>8
  <2>2. QED BY <1>1, <1>4, <1>5, <2>1, EngineGone
<1>9. QED BY <1>6, <1>7, <1>8

\* The end of hk_proc_sigchld, or of a hk_proc_stop that failed: the entry is freed.
LEMMA RemoveIs ==
  ASSUME NEW n, NEW l \in RunType(n), Fit(l), NEW e \in Entries, e # l.engine_proc, e # l.mqtt_proc,
         l.online /\ ~l.lost /\ l.state = "RESTART" => \E f \in Entries : f # e /\ Used(l.P, f) /\ Owner(l.P, f) = engine,
         l.mqtt_restart /\ ~l.mqtt_lost =>
           \E f \in Entries : f # e /\ Used(l.P, f) /\ Owner(l.P, f) = broker /\ f # l.mqtt_proc,
         NEW m, m = [l EXCEPT !.P = TermRemove(@, e)]
  PROVE  m \in RunType(n) /\ Fit(m) /\ SameWait(l, m) /\ m.engine_proc = l.engine_proc
<1> DEFINE q == TermRemove(l.P, e)
<1>1. q \in Table /\ Tidy(q) /\ ~Used(q, e) /\ \A f \in Entries : f # e => q.procs[f] = l.P.procs[f]
  <2>1. l.P \in Table /\ Tidy(l.P)
    BY PointersIs DEF Fit
  <2>2. q = TermRemove(l.P, e)
    OBVIOUS
  <2> HIDE DEF q
  <2>3. QED BY SMTT(30), <2>1, <2>2, TidyRemove
<1>2. m = [l EXCEPT !.P = q]
  OBVIOUS
<1> HIDE DEF q
<1>3. /\ m \in RunType(n) /\ m.P = q /\ m.engine_proc = l.engine_proc /\ SameWait(l, m)
      /\ m.mqtt_proc = l.mqtt_proc /\ m.mqtt_restart = l.mqtt_restart /\ m.mqtt_lost = l.mqtt_lost
  BY <1>1, <1>2 DEF RunType, SameWait
<1>4. \A f \in Entries : f # e => (Used(q, f) <=> Used(l.P, f)) /\ Owner(q, f) = Owner(l.P, f)
  BY <1>1 DEF Used, Owner
<1>5. Held(q, l.engine_proc, engine) /\ Held(q, l.mqtt_proc, broker)
  BY <1>1, PointersIs DEF Fit, Held, Owner, Running
<1>6. l.online /\ ~l.lost /\ l.state = "RESTART" => Has(q, engine)
  BY <1>4 DEF Has
<1>7. l.mqtt_restart /\ ~l.mqtt_lost => Stopping(m)
  BY <1>3, <1>4 DEF Stopping
<1>8. Fit(m)
  BY <1>1, <1>3, <1>5, <1>6, <1>7 DEF Fit, SameWait
<1>9. QED BY <1>3, <1>8

LEMMA EngineStopIs ==
  ASSUME NEW n, NEW l \in RunType(n), Fit(l), l.state # "RUN", NEW w, w.sent \in BOOLEAN, NEW m, m = EngineStop(l, w)
  PROVE  m \in RunType(n) /\ Fit(m) /\ (m.state = l.state \/ Waits(m))
<1> DEFINE e == l.engine_proc
<1>1. CASE e = 0
  BY <1>1 DEF EngineStop
<1>2. CASE e # 0
  <2>0. 0 \in 0..NPROCS
    BY ProcAssumption
  <2>1. l.P \in Table /\ Tidy(l.P) /\ e \in Entries /\ Running(l.P, e) /\ Owner(l.P, e) = engine
    BY <1>2, PointersIs DEF Fit, Held
  <2>2. e # l.mqtt_proc /\ \A f \in Entries : Owner(l.P, f) = broker => f # e
    BY <2>1, LauncherAssumption DEF Fit, Held, Entries
  <2>3. CASE w.sent
    <3> DEFINE q == StopSent(l.P, e)
    <3>1. m = [l EXCEPT !.P = q, !.engine_proc = 0]
      BY <1>2, <2>3 DEF EngineStop, ProcStop
    <3>2. q \in Table /\ Tidy(q) /\ Used(q, e) /\ Owner(q, e) = engine /\ \A f \in Entries : f # e => q.procs[f] = l.P.procs[f]
      BY <2>1, TidyStop
    <3> HIDE DEF q
    <3>3. /\ m \in RunType(n) /\ m.P = q /\ m.engine_proc = 0 /\ m.state = l.state /\ m.mqtt_proc = l.mqtt_proc
          /\ m.mqtt_restart = l.mqtt_restart /\ m.mqtt_lost = l.mqtt_lost
      BY <2>0, <3>1, <3>2 DEF RunType
    <3>4. Held(q, l.mqtt_proc, broker)
      BY <2>2, <3>2, PointersIs DEF Fit, Held, Owner, Running
    <3>5. Has(q, engine)
      BY <2>1, <3>2 DEF Has
    <3>6. Stopping(l) => Stopping(m)
      BY <2>2, <3>2, <3>3 DEF Stopping, Used, Owner
    <3>7. Fit(m)
      BY <3>2, <3>3, <3>4, <3>5, <3>6 DEF Fit, Held
    <3>8. QED BY <3>3, <3>7
  <2>4. CASE ~w.sent
    <3> DEFINE q == [l.P EXCEPT !.procs[e].state = "KILL"]
               l0 == [l EXCEPT !.P = q]
               k == [l EXCEPT !.P = q, !.ping = FALSE, !.engine_proc = 0]
               l1 == EngineTerminated(l0, w)
               l2 == [l1 EXCEPT !.P = TermRemove(@, e)]
    <3>1. l.P.procs[e].state = "RUN" /\ [l EXCEPT !.P.procs[e].state = "KILL"] = l0
      BY <2>1, Zenon DEF Running
    <3>2. m = [l2 EXCEPT !.engine_proc = 0]
      BY <1>2, <2>4, <3>1 DEF EngineStop, ProcStop
    <3>3. q \in Table /\ Tidy(q) /\ \A f \in Entries : f # e => q.procs[f] = l.P.procs[f]
      BY <2>1, TidyKill
    <3> HIDE DEF q
    <3>4. /\ k \in RunType(n) /\ k.P = q /\ k.engine_proc = 0 /\ k.mqtt_proc = l.mqtt_proc
          /\ k.mqtt_restart = l.mqtt_restart /\ k.mqtt_lost = l.mqtt_lost
      BY <2>0, <3>3 DEF RunType
    <3>5. l1 = HelloRetry(k)
      <4>1. l0.engine_proc # 0
        BY <1>2 DEF RunType
      <4>2. l1 = HelloRetry([[l0 EXCEPT !.ping = FALSE] EXCEPT !.engine_proc = 0])
        BY <4>1 DEF EngineTerminated
      <4>3. QED BY <4>2
    <3> HIDE DEF k, l1
    <3>6. l1 \in RunType(n) /\ l1.state = "RETRY" /\ SameView(k, l1) /\ Waits(l1)
      BY <3>4, <3>5, HelloRetryIs
    <3>7. /\ SameEntries(q, l1.P) /\ l1.engine_proc = 0 /\ l1.mqtt_proc = l.mqtt_proc
          /\ l1.mqtt_restart = l.mqtt_restart /\ l1.mqtt_lost = l.mqtt_lost
      BY <3>4, <3>6 DEF SameView
    <3>8. Held(q, l.mqtt_proc, broker)
      BY <2>2, <3>3, PointersIs DEF Fit, Held, Owner, Running
    <3>9. l.mqtt_restart /\ ~l.mqtt_lost =>
            \E f \in Entries : f # e /\ Used(l1.P, f) /\ Owner(l1.P, f) = broker /\ f # l1.mqtt_proc
      BY <2>2, <3>3, <3>7 DEF Fit, Stopping, Used, Owner, SameEntries
    <3>10. Fit(l1)
      BY <3>3, <3>6, <3>7, <3>8, <3>9, SameIs DEF Fit, Held, Stopping
    <3>11. l2 \in RunType(n) /\ Fit(l2) /\ SameWait(l1, l2) /\ l2.engine_proc = 0
      BY <1>2, <2>1, <2>2, <3>6, <3>7, <3>9, <3>10, RemoveIs
    <3> HIDE DEF l2
    <3>12. m = l2
      BY <3>2, <3>11 DEF RunType
    <3>13. QED BY <3>6, <3>11, <3>12, SameWaitIs
  <2>5. QED BY <2>3, <2>4
<1>3. QED BY <1>1, <1>2

LEMMA EngineStartIs ==
  ASSUME NEW n, NEW l \in RunType(n), Fit(l), NEW ready \in BOOLEAN, NEW w, World(w, n), NEW m, m = EngineStart(l, ready, w)
  PROVE  m \in RunType(n) /\ Fit(m) /\ Waits(m)
<1> DEFINE k == [l EXCEPT !.state = "RESTART"]
<1>1. CASE ~ready
  BY <1>1, HelloRetryIs DEF EngineStart
<1>2. CASE ready /\ l.engine_proc # 0
  <2>1. /\ k \in RunType(n) /\ k.state = "RESTART" /\ k.P = l.P /\ k.engine_proc = l.engine_proc
        /\ k.mqtt_proc = l.mqtt_proc /\ k.mqtt_restart = l.mqtt_restart /\ k.mqtt_lost = l.mqtt_lost /\ k.online = l.online
    BY DEF RunType
  <2>2. m = EngineStop(k, w)
    BY <1>2 DEF EngineStart
  <2> HIDE DEF k
  <2>3. SameView(l, k)
    BY <2>1, PointersIs DEF SameView, SameEntries
  <2>4. Has(l.P, engine)
    BY <1>2, PointersIs DEF Fit, Held, Has, Running, Used
  <2>5. Fit(k)
    BY <2>1, <2>3, <2>4, SameViewFit
  <2>6. m \in RunType(n) /\ Fit(m) /\ (m.state = "RESTART" \/ Waits(m))
    BY <2>1, <2>2, <2>5, EngineStopIs DEF World
  <2>7. QED BY <2>6 DEF Waits
<1>3. CASE ready /\ l.engine_proc = 0
  <2>1. m = EngineStartNow(l, w)
    BY <1>3 DEF EngineStart
  <2>2. QED BY <2>1, EngineStartNowIs DEF World
<1>4. QED BY <1>1, <1>2, <1>3

LEMMA MqttStartNowIs ==
  ASSUME NEW n, NEW l \in RunType(n), Fit(l), NEW w, w.pm \in Pids \cup {0}, NEW m, m = MqttStartNow(l, w)
  PROVE  /\ m \in RunType(n) /\ Fit(m) /\ SameWait(l, m) /\ Kept(l.P, m.P) /\ m.engine_proc = l.engine_proc
         /\ m.mqtt_restart = l.mqtt_restart /\ (m.mqtt_proc \in Entries => ~Used(l.P, m.mqtt_proc))
<1>1. CASE w.pm # 0 /\ Recyclable(l.P) # {}
  <2> DEFINE q == Start(l.P, w.pm, broker)
             e == FreeEntry(l.P)
  <2>1. m = [l EXCEPT !.P = q, !.mqtt_proc = e]
    BY <1>1, Zenon DEF MqttStartNow
  <2>2. l.P \in Table /\ Tidy(l.P) /\ w.pm \in Pids /\ broker \in Users
    BY <1>1, LauncherAssumption DEF Fit, RunType
  <2>3. q \in Table /\ Tidy(q) /\ e \in Entries /\ ~Used(l.P, e) /\ Held(q, e, broker) /\ Kept(l.P, q)
    BY <1>1, <2>2, TidyStart DEF Kept
  <2> HIDE DEF q, e
  <2>4. e \in 0..NPROCS
    BY <2>3, ProcAssumption DEF Entries
  <2>5. /\ m \in RunType(n) /\ m.P = q /\ m.mqtt_proc = e /\ SameWait(l, m) /\ m.engine_proc = l.engine_proc
        /\ m.mqtt_restart = l.mqtt_restart /\ m.mqtt_lost = l.mqtt_lost
    BY <2>1, <2>3, <2>4 DEF RunType, SameWait
  <2>6. Held(q, l.engine_proc, engine) /\ (Has(l.P, engine) => Has(q, engine))
    BY <2>3, KeptIs, PointersIs DEF Fit, Held
  <2>7. Stopping(l) => Stopping(m)
    BY <2>3, <2>5, KeptIs DEF Stopping
  <2>8. Fit(m)
    BY <2>3, <2>5, <2>6, <2>7 DEF Fit, SameWait
  <2>9. QED BY <2>3, <2>5, <2>8
<1>2. CASE ~(w.pm # 0 /\ Recyclable(l.P) # {})
  <2>1. m = [l EXCEPT !.mqtt_proc = 0]
    BY <1>2 DEF MqttStartNow
  <2>2. /\ m \in RunType(n) /\ m.P = l.P /\ m.mqtt_proc = 0 /\ SameWait(l, m) /\ m.engine_proc = l.engine_proc
        /\ m.mqtt_restart = l.mqtt_restart /\ m.mqtt_lost = l.mqtt_lost
    BY <2>1, ProcAssumption DEF RunType, SameWait
  <2>3. 0 \notin Entries
    BY DEF Entries
  <2>4. Stopping(l) => Stopping(m)
    BY <2>2, <2>3 DEF Stopping
  <2>5. Fit(m)
    BY <2>2, <2>4 DEF Fit, Held, SameWait
  <2>6. QED BY <2>2, <2>3, <2>5 DEF Kept
<1>3. QED BY <1>1, <1>2

\* mqtt_terminated, of the broker that the launcher points to
LEMMA MqttStopped ==
  ASSUME NEW n, NEW l \in RunType(n), l.mqtt_proc # 0, NEW w, NEW m, m = MqttTerminated(l, w)
  PROVE  /\ m \in RunType(n) /\ m.P = l.P /\ m.engine_proc = l.engine_proc /\ m.mqtt_proc = 0
         /\ m.mqtt_restart = l.mqtt_restart /\ m.mqtt_lost = l.mqtt_lost /\ SameWait(l, m)
<1>1. \E c \in 0..MQTT_MAX_RETRIES+1, t \in 0..2 :
        m = [l EXCEPT !.mqtt_proc = 0, !.mqtt_retry_count = c, !.mqtt_timers = t]
  <2>1. CASE l.mqtt_retry_count < MQTT_MAX_RETRIES
    <3> DEFINE c == l.mqtt_retry_count + 1
               t == More(l.mqtt_timers)
    <3>1. m = [l EXCEPT !.mqtt_proc = 0, !.mqtt_retry_count = c, !.mqtt_timers = t]
      BY <2>1 DEF MqttTerminated
    <3>2. c \in 0..MQTT_MAX_RETRIES+1 /\ t \in 0..2
      BY <2>1, LauncherAssumption DEF RunType, More
    <3> HIDE DEF c, t
    <3>3. QED BY <3>1, <3>2
  <2>2. CASE ~(l.mqtt_retry_count < MQTT_MAX_RETRIES)
    <3> DEFINE c == MQTT_MAX_RETRIES + 1
               t == l.mqtt_timers
    <3>1. m = [l EXCEPT !.mqtt_proc = 0, !.mqtt_retry_count = c]
      BY <2>2 DEF MqttTerminated
    <3>2. c \in 0..MQTT_MAX_RETRIES+1 /\ t \in 0..2
      BY LauncherAssumption DEF RunType
    <3> HIDE DEF c
    <3>3. m = [l EXCEPT !.mqtt_proc = 0, !.mqtt_retry_count = c, !.mqtt_timers = t]
      BY <3>1 DEF RunType
    <3>4. QED BY <3>2, <3>3
  <2>3. QED BY <2>1, <2>2
<1>2. 0 \in 0..NPROCS
  BY ProcAssumption
<1>3. QED BY ZenonT(30), <1>1, <1>2 DEF RunType, SameWait

\* mqtt_terminated, when the broker of the entry e ends: a restart that is still owed is
\* owed to another one.
LEMMA MqttTerminatedIs ==
  ASSUME NEW n, NEW l \in RunType(n), Fit(l), NEW w, w.pm \in Pids \cup {0}, NEW m, m = MqttTerminated(l, w),
         NEW e \in Entries, Used(l.P, e)
  PROVE  /\ m \in RunType(n) /\ Fit(m) /\ SameWait(l, m) /\ Kept(l.P, m.P) /\ m.engine_proc = l.engine_proc
         /\ m.mqtt_proc # e
         /\ m.mqtt_restart /\ ~m.mqtt_lost =>
              \E f \in Entries : f # e /\ Used(m.P, f) /\ Owner(m.P, f) = broker /\ f # m.mqtt_proc
<1>0. e # 0 /\ 0 \in 0..NPROCS
  BY ProcAssumption DEF Entries
<1>1. CASE l.mqtt_proc = 0 /\ l.mqtt_restart
  <2> DEFINE k == [l EXCEPT !.mqtt_restart = FALSE]
  <2>1. /\ k \in RunType(n) /\ k.P = l.P /\ k.engine_proc = l.engine_proc /\ k.mqtt_proc = l.mqtt_proc
        /\ k.mqtt_restart = FALSE /\ k.mqtt_lost = l.mqtt_lost /\ SameWait(l, k)
    BY DEF RunType, SameWait
  <2>2. m = MqttStartNow(k, w)
    BY <1>1 DEF MqttTerminated
  <2> HIDE DEF k
  <2>3. Fit(k)
    BY <2>1 DEF Fit, SameWait
  <2>4. /\ m \in RunType(n) /\ Fit(m) /\ SameWait(k, m) /\ Kept(k.P, m.P) /\ m.engine_proc = k.engine_proc
        /\ m.mqtt_restart = FALSE /\ (m.mqtt_proc \in Entries => ~Used(k.P, m.mqtt_proc))
    BY <2>1, <2>2, <2>3, MqttStartNowIs
  <2>5. QED BY <2>1, <2>4 DEF SameWait
<1>2. CASE l.mqtt_proc = 0 /\ ~l.mqtt_restart
  <2>1. m = l
    BY <1>2 DEF MqttTerminated
  <2>2. QED BY <1>0, <1>2, <2>1 DEF SameWait, Kept
<1>3. CASE l.mqtt_proc # 0
  <2>2. /\ m \in RunType(n) /\ m.P = l.P /\ m.engine_proc = l.engine_proc /\ m.mqtt_proc = 0
        /\ m.mqtt_restart = l.mqtt_restart /\ m.mqtt_lost = l.mqtt_lost /\ SameWait(l, m)
    BY <1>3, MqttStopped
  <2>3. 0 \notin Entries
    BY DEF Entries
  <2>4. Stopping(l) => Stopping(m)
    BY <2>2, <2>3 DEF Stopping
  <2>5. Fit(m)
    BY <2>2, <2>4 DEF Fit, Held, SameWait
  <2>6. m.mqtt_restart /\ ~m.mqtt_lost =>
          \E f \in Entries : f # e /\ Used(m.P, f) /\ Owner(m.P, f) = broker /\ f # m.mqtt_proc
    <3>1. CASE e = l.mqtt_proc
      BY <2>2, <2>3, <3>1 DEF Fit, Stopping
    <3>2. CASE e # l.mqtt_proc
      BY <1>3, <2>2, <3>2, PointersIs DEF Fit, Held, Running, Used
    <3>3. QED BY <3>1, <3>2
  <2>7. QED BY <1>0, <2>2, <2>5, <2>6 DEF Kept
<1>4. QED BY <1>1, <1>2, <1>3

LEMMA MqttStopIs ==
  ASSUME NEW n, NEW l \in RunType(n), Fit(l), NEW restart \in BOOLEAN, NEW w, w.sent \in BOOLEAN,
         NEW m, m = MqttStop(l, restart, w)
  PROVE  m \in RunType(n) /\ Fit(m)
<1> DEFINE e == l.mqtt_proc
<1>1. CASE e = 0
  BY <1>1 DEF MqttStop
<1>2. CASE e # 0
  <2>0. 0 \in 0..NPROCS /\ 0 \notin Entries
    BY ProcAssumption DEF Entries
  <2>1. l.P \in Table /\ Tidy(l.P) /\ e \in Entries /\ Running(l.P, e) /\ Owner(l.P, e) = broker
    BY <1>2, PointersIs DEF Fit, Held
  <2>2. e # l.engine_proc /\ \A f \in Entries : Owner(l.P, f) = engine => f # e
    BY <2>1, LauncherAssumption DEF Fit, Held, Entries
  <2> DEFINE l0 == [l EXCEPT !.mqtt_restart = restart]
  <2>3. l0 \in RunType(n) /\ l0.mqtt_proc = e /\ l0.P = l.P
    BY DEF RunType
  <2>4. CASE w.sent
    <3> DEFINE q == StopSent(l.P, e)
    <3>1. m = [l EXCEPT !.mqtt_restart = restart, !.P = q, !.mqtt_proc = 0]
      <4>1. ProcStop(l0, e, w, MqttTerminated) = [l0 EXCEPT !.P = q]
        BY <2>3, <2>4 DEF ProcStop
      <4>2. m = [[l0 EXCEPT !.P = q] EXCEPT !.mqtt_proc = 0, !.mqtt_lost = @ \/ FALSE]
        BY <1>2, <2>4, <4>1 DEF MqttStop
      <4> HIDE DEF q
      <4>3. QED BY <4>2 DEF RunType
    <3>2. q \in Table /\ Tidy(q) /\ Used(q, e) /\ Owner(q, e) = broker /\ \A f \in Entries : f # e => q.procs[f] = l.P.procs[f]
      BY <2>1, TidyStop
    <3> HIDE DEF q
    <3>3. /\ m \in RunType(n) /\ m.P = q /\ m.engine_proc = l.engine_proc /\ m.mqtt_proc = 0 /\ SameWait(l, m)
      BY <2>0, <3>1, <3>2 DEF RunType, SameWait
    <3>4. Held(q, l.engine_proc, engine) /\ (Has(l.P, engine) => Has(q, engine))
      BY <2>2, <3>2, PointersIs DEF Fit, Held, Has, Owner, Running, Used
    <3>5. Stopping(m)
      BY <2>0, <2>1, <3>2, <3>3 DEF Stopping
    <3>6. QED BY <3>2, <3>3, <3>4, <3>5 DEF Fit, Held, SameWait
  <2>5. CASE ~w.sent
    <3> DEFINE q == [l.P EXCEPT !.procs[e].state = "KILL"]
               k == [l0 EXCEPT !.P = q]
               l1 == MqttTerminated(k, w)
               r == TermRemove(l1.P, e)
    <3>1. l.P.procs[e].state = "RUN" /\ [l0 EXCEPT !.P.procs[e].state = "KILL"] = k
      BY <2>1, <2>3, Zenon DEF Running
    <3>2. m = [[l1 EXCEPT !.P = r] EXCEPT !.mqtt_proc = 0, !.mqtt_lost = @ \/ TRUE]
      BY <1>2, <2>3, <2>5, <3>1 DEF MqttStop, ProcStop
    <3>3. q \in Table /\ Tidy(q) /\ \A f \in Entries : f # e => q.procs[f] = l.P.procs[f]
      BY <2>1, TidyKill
    <3> HIDE DEF q
    <3>4. k \in RunType(n) /\ k.P = q /\ k.engine_proc = l.engine_proc /\ k.mqtt_proc = e /\ SameWait(l, k)
      BY <2>3, <3>3 DEF RunType, SameWait
    <3> HIDE DEF k
    <3>5. l1 \in RunType(n) /\ l1.P = q /\ l1.engine_proc = l.engine_proc /\ SameWait(l, l1)
      <4>1. l1 \in RunType(n) /\ l1.P = k.P /\ l1.engine_proc = k.engine_proc /\ SameWait(k, l1)
        BY <1>2, <3>4, MqttStopped
      <4>2. QED BY <3>4, <4>1 DEF SameWait
    <3> HIDE DEF l1
    <3>6. r \in Table /\ Tidy(r) /\ ~Used(r, e) /\ \A f \in Entries : f # e => r.procs[f] = q.procs[f]
      BY <2>1, <3>3, <3>5, TidyRemove
    <3> HIDE DEF r
    <3>7. /\ m \in RunType(n) /\ m.P = r /\ m.engine_proc = l.engine_proc /\ m.mqtt_proc = 0 /\ m.mqtt_lost
          /\ SameWait(l, m)
      BY ZenonT(30), <2>0, <3>2, <3>5, <3>6 DEF RunType, SameWait
    <3>8. Held(r, l.engine_proc, engine) /\ (Has(l.P, engine) => Has(r, engine))
      BY <2>2, <3>3, <3>6, PointersIs DEF Fit, Held, Has, Owner, Running, Used
    <3>9. QED BY <3>6, <3>7, <3>8 DEF Fit, Held, SameWait
  <2>6. QED BY <2>4, <2>5
<1>3. QED BY <1>1, <1>2

LEMMA MqttUpdateIs ==
  ASSUME NEW n, NEW l \in RunType(n), Fit(l), NEW c \in RequestType, NEW w, World(w, n), NEW m, m = MqttUpdate(l, c, w)
  PROVE  m \in RunType(n) /\ Fit(m)
<1>1. w.sent \in BOOLEAN /\ w.pm \in Pids \cup {0}
  BY DEF World
<1>2. \/ m = l
      \/ m = MqttStop(l, FALSE, w)
      \/ m = MqttStop(l, TRUE, w)
      \/ m = MqttStartNow(l, w)
  <2> DEFINE g1 == l.opt_no_mqtt
             g2 == ~l.opt_no_mqtt /\ ~c.is_broker
             g3 == c.is_broker /\ l.mqtt_proc = 0
             g4 == c.is_broker /\ l.mqtt_proc # 0 /\ c.restart_broker
             A == MqttStop(l, FALSE, w)
             B == MqttStartNow(l, w)
             C == MqttStop(l, TRUE, w)
  <2>1. m = CASE g1 -> l [] g2 -> A [] g3 -> B [] g4 -> C [] OTHER -> l
    BY DEF MqttUpdate
  <2>2. m \in {l, A, B, C}
    <3> HIDE DEF g1, g2, g3, g4, A, B, C
    <3>1. QED BY <2>1
  <2>3. QED BY <2>2
<1>3. ASSUME NEW restart \in BOOLEAN PROVE MqttStop(l, restart, w) \in RunType(n) /\ Fit(MqttStop(l, restart, w))
  BY <1>1, MqttStopIs
<1>4. MqttStartNow(l, w) \in RunType(n) /\ Fit(MqttStartNow(l, w))
  BY <1>1, MqttStartNowIs
<1>5. QED BY <1>2, <1>3, <1>4

LEMMA RequestIs ==
  ASSUME NEW n, NEW l \in RunType(n), Fit(l), NEW c \in RequestType, c.kind # "none", NEW w, w.req \in 0..n,
         NEW m, m = Request(l, c, w)
  PROVE  m \in RunType(n) /\ Fit(m) /\ Waits(m)
<1>1. CASE w.req # 0
  <2> DEFINE s == [l.reqs EXCEPT ![w.req] = c]
  <2>0. w.req \in 1..n
    BY <1>1, SMT
  <2>1. s \in [1..n -> RequestType] /\ s[w.req] = c /\ w.req \in DOMAIN s
    BY <2>0 DEF RunType
  <2>2. m = [l EXCEPT !.reqs = s]
    BY <1>1, Zenon DEF Request
  <2> HIDE DEF s
  <2>3. m \in RunType(n) /\ SameView(l, m) /\ m.state = l.state /\ m.lost = l.lost /\ m.reqs = s
    BY <2>1, <2>2, PointersIs DEF RunType, SameView, SameEntries
  <2>4. Fit(m)
    BY <2>3, SameViewFit DEF Fit, SameView
  <2>5. QED BY <2>1, <2>3, <2>4 DEF Waits
<1>2. CASE w.req = 0
  <2>1. m = [l EXCEPT !.lost = TRUE]
    BY <1>2 DEF Request
  <2>2. m \in RunType(n) /\ SameView(l, m) /\ m.state = l.state /\ m.lost
    BY <2>1, PointersIs DEF RunType, SameView, SameEntries
  <2>3. Fit(m)
    BY <2>2, SameViewFit DEF Fit, SameView
  <2>4. QED BY <2>2, <2>3 DEF Waits
<1>3. QED BY <1>1, <1>2

LEMMA AppRequestIs ==
  ASSUME NEW n, NEW l \in RunType(n), Fit(l), NEW c \in RequestType, NEW w, World(w, n), NEW m, m = AppRequest(l, c, w)
  PROVE  m \in RunType(n) /\ Fit(m) /\ Waits(m)
<1>0. c.tiles = 0 \/ c.tiles = 1
  BY DEF RequestType
<1>1. CASE c.tiles > 0
  <2> DEFINE d == [c EXCEPT !.kind = "app", !.restart_engine = TRUE]
  <2>1. d \in RequestType /\ d.kind # "none"
    BY DEF RequestType
  <2>2. m = Request(l, d, w)
    <3>1. ~(c.tiles = 0)
      BY <1>1
    <3>2. QED BY <1>1, <3>1, Zenon DEF AppRequest
  <2> HIDE DEF d
  <2>3. QED BY <2>1, <2>2, RequestIs DEF World
<1>2. CASE c.tiles = 0 /\ (l.state # "RUN" \/ c.restart_engine)
  <2>1. m = EngineStart(l, TRUE, w)
    <3>1. ~(c.tiles > 0)
      BY <1>2
    <3>2. QED BY <1>2, <3>1, Zenon DEF AppRequest
  <2>2. ASSUME NEW ready \in BOOLEAN, m = EngineStart(l, ready, w) PROVE m \in RunType(n) /\ Fit(m) /\ Waits(m)
    BY <2>2, EngineStartIs
  <2>3. QED BY <2>1, <2>2
<1>3. CASE c.tiles = 0 /\ ~(l.state # "RUN" \/ c.restart_engine)
  <2>1. m = [l EXCEPT !.ping = TRUE]
    BY <1>3 DEF AppRequest
  <2>2. /\ m \in RunType(n) /\ m.state = l.state /\ m.lost = l.lost /\ m.P = l.P /\ m.online = l.online
        /\ m.engine_proc = l.engine_proc /\ m.mqtt_proc = l.mqtt_proc
        /\ m.mqtt_restart = l.mqtt_restart /\ m.mqtt_lost = l.mqtt_lost
    BY <2>1 DEF RunType
  <2>3. m.state = "RUN"
    BY <1>3, <2>2
  <2>4. SameView(l, m)
    BY <2>2, PointersIs DEF SameView, SameEntries
  <2>5. Fit(m)
    BY <2>2, <2>3, <2>4, SameViewFit DEF Fit
  <2>6. QED BY <2>2, <2>3, <2>5 DEF Waits
<1>4. QED BY <1>0, <1>1, <1>2, <1>3

LEMMA CertRequestIs ==
  ASSUME NEW n, NEW l \in RunType(n), Fit(l), NEW c \in RequestType, NEW w, World(w, n), NEW m, m = CertRequest(l, c, w)
  PROVE  m \in RunType(n) /\ Fit(m) /\ Waits(m)
<1>1. CASE c.certs > 0
  <2> DEFINE d == [c EXCEPT !.kind = "cert", !.restart_engine = TRUE, !.restart_broker = c.is_broker]
  <2>1. d \in RequestType /\ d.kind # "none"
    BY DEF RequestType
  <2>2. m = Request(l, d, w)
    BY <1>1 DEF CertRequest
  <2> HIDE DEF d
  <2>3. QED BY <2>1, <2>2, RequestIs DEF World
<1>2. CASE ~(c.certs > 0)
  <2> DEFINE k == MqttUpdate(l, c, w)
  <2>1. k \in RunType(n) /\ Fit(k)
    BY MqttUpdateIs
  <2>2. m = AppRequest(k, c, w)
    BY <1>2 DEF CertRequest
  <2> HIDE DEF k
  <2>3. QED BY <2>1, <2>2, AppRequestIs
<1>3. QED BY <1>1, <1>2

LEMMA NoRequestIs == NoRequest \in RequestType
<1>1. "none" \in {"none", "hello", "cert", "app"} /\ 0 \in 0..1 /\ FALSE \in BOOLEAN
  OBVIOUS
<1>2. QED BY <1>1 DEF NoRequest, RequestType

LEMMA HelloIs == Hello \in RequestType /\ Hello.kind # "none"
BY NoRequestIs DEF Hello, RequestType

LEMMA HelloRequestIs ==
  ASSUME NEW n, NEW l \in RunType(n), Fit(l), NEW req \in 0..n, NEW m, m = HelloRequest(l, [req |-> req])
  PROVE  m \in RunType(n) /\ Fit(m) /\ Waits(m)
<1> DEFINE k == IF l.state # "RUN" THEN [l EXCEPT !.state = "HELLO", !.fallback = FALSE]
                                   ELSE [l EXCEPT !.fallback = FALSE]
           w == [req |-> req]
<1>1. m = Request(k, Hello, w) /\ w.req \in 0..n
  BY DEF HelloRequest
<1>2. k \in RunType(n) /\ SameView(l, k) /\ (k.state = "HELLO" \/ (l.state = "RUN" /\ k.state = "RUN"))
  <2>1. CASE l.state # "RUN"
    BY <2>1, PointersIs DEF RunType, SameView, SameEntries
  <2>2. CASE l.state = "RUN"
    BY <2>2, PointersIs DEF RunType, SameView, SameEntries
  <2>3. QED BY <2>1, <2>2
<1> HIDE DEF k, w
<1>3. Fit(k)
  BY <1>2, SameViewFit DEF Fit, SameView
<1>4. Hello \in RequestType /\ Hello.kind # "none"
  BY HelloIs
<1>5. QED BY <1>1, <1>2, <1>3, <1>4, RequestIs

LEMMA HelloOfflineIs ==
  ASSUME NEW n, NEW l \in RunType(n), Fit(l), NEW cache, NEW w, World(w, n), NEW m, m = HelloOffline(l, cache, w)
  PROVE  m \in RunType(n) /\ Fit(m) /\ Waits(m)
<1> DEFINE k == [l EXCEPT !.fallback = TRUE]
           ready == cache = "usable"
           j == EngineStart(k, ready, w)
<1>1. k \in RunType(n) /\ SameView(l, k) /\ k.state = l.state /\ k.lost = l.lost
  BY PointersIs DEF RunType, SameView, SameEntries
<1>2. m = HelloRetry(IF l.state # "RUN" /\ cache # "none" THEN j ELSE l)
  BY DEF HelloOffline
<1> HIDE DEF k
<1>3. Fit(k)
  BY <1>1, SameViewFit DEF Fit, SameView
<1>4. j \in RunType(n) /\ Fit(j)
  BY <1>1, <1>3, EngineStartIs
<1> HIDE DEF j
<1>5. QED BY <1>2, <1>4, HelloRetryIs

LEMMA HelloDeniedIs ==
  ASSUME NEW n, NEW l \in RunType(n), Fit(l), NEW w, World(w, n), NEW m, m = HelloDenied(l, w)
  PROVE  m \in RunType(n) /\ Fit(m) /\ Waits(m)
<1> DEFINE k == [l EXCEPT !.state = "HELLO"]
           j == EngineStop(k, w)
<1>1. k \in RunType(n) /\ SameView(l, k) /\ k.state = "HELLO"
  BY PointersIs DEF RunType, SameView, SameEntries
<1>2. m = HelloRetry(j)
  BY DEF HelloDenied
<1> HIDE DEF k
<1>3. Fit(k)
  BY <1>1, SameViewFit
<1>4. j \in RunType(n) /\ Fit(j)
  BY <1>1, <1>3, EngineStopIs DEF World
<1> HIDE DEF j
<1>5. QED BY <1>2, <1>4, HelloRetryIs
-----------------------------------------------------------------------------
(* The steps of the launcher                                               *)

LEMMA WorldsIs == ASSUME NEW n \in Nat, L \in RunType(n), NEW r \in 0..n, NEW w \in Worlds(r) PROVE World(w, n)
<1>1. w.pe \in EnginePids /\ w.pm \in BrokerPids /\ w.sent \in Signals /\ w.req \in {0, r}
  BY DEF Worlds
<1>2. Lowest(UnusedPids(L.P)) \subseteq Pids /\ Highest(UnusedPids(L.P)) \subseteq Pids
  BY DEF Lowest, Highest, UnusedPids
<1>3. w.pe \in Pids \cup {0} /\ w.pm \in Pids \cup {0}
  BY <1>1, <1>2 DEF EnginePids, BrokerPids
<1>4. w.sent \in BOOLEAN
  BY <1>1 DEF Signals
<1>5. w.req \in 0..n
  BY <1>1
<1>6. QED BY <1>3, <1>4, <1>5 DEF World

\* The launcher once the response to a request is in
LEMMA AnsweredIs ==
  ASSUME NEW n \in Nat, Sane(L, n), NEW r \in 1..n, NEW l, l = [L EXCEPT !.reqs[r] = NoRequest]
  PROVE  l \in RunType(n) /\ Fit(l) /\ SameView(L, l) /\ l.state = L.state /\ l.lost = L.lost
<1> DEFINE s == [L.reqs EXCEPT ![r] = NoRequest]
<1>1. NoRequest \in RequestType
  BY NoRequestIs
<1>2. s \in [1..n -> RequestType]
  BY <1>1 DEF Sane, RunType
<1>3. l = [L EXCEPT !.reqs = s]
  BY Zenon
<1> HIDE DEF s
<1>4. l \in RunType(n) /\ SameView(L, l) /\ l.state = L.state /\ l.lost = L.lost
  BY <1>2, <1>3, PointersIs DEF Sane, RunType, SameView, SameEntries
<1>5. Fit(L)
  BY DEF Sane
<1>6. /\ l.state = "RUN" => l.engine_proc # 0
      /\ l.online /\ ~l.lost /\ l.state = "RESTART" => Has(L.P, engine)
  BY <1>4, <1>5 DEF Fit, SameView
<1>7. Fit(l)
  BY <1>4, <1>5, <1>6, SameViewFit
<1>8. QED BY <1>4, <1>7

LEMMA ResponsesSane ==
  ASSUME NEW n \in Nat \ {0}, Sane(L, n), NEW r \in 1..n,
         AcceptResponse(r) \/ OfflineResponse(r) \/ DeniedResponse(r) \/ BadResponse(r)
           \/ DownloadResponse(r) \/ DownloadFailed(r) \/ RequestLost(r)
  PROVE  Sane(L', n)
<1> DEFINE l == [L EXCEPT !.reqs[r] = NoRequest]
<1>1. l \in RunType(n) /\ Fit(l) /\ SameView(L, l) /\ l.state = L.state /\ l.lost = L.lost
  BY AnsweredIs
<1>2. L \in RunType(n) /\ r \in 0..n /\ 0 \in 0..n
  BY DEF Sane
<1>3. CASE AcceptResponse(r)
  <2>1. PICK w \in Worlds(r), c \in Contexts : L' = CertRequest(l, c, w)
    BY <1>3, Zenon DEF AcceptResponse, Response
  <2>2. c \in RequestType
    <3>1. L.MaxTiles \in 0..1 /\ L.opt_no_mqtt \in BOOLEAN
      BY <1>2 DEF RunType
    <3>2. 0..L.MaxTiles \subseteq 0..1 /\ {FALSE, ~L.opt_no_mqtt} \subseteq BOOLEAN
      BY <3>1
    <3>3. QED BY <3>2 DEF Contexts, RequestType
  <2>3. World(w, n)
    BY <1>2, WorldsIs
  <2> HIDE DEF l
  <2>4. QED BY <1>1, <2>1, <2>2, <2>3, CertRequestIs DEF Sane
<1>4. CASE OfflineResponse(r)
  <2>1. PICK w \in Worlds(0), cache \in {"none", "usable", "stale"} : L' = HelloOffline(l, cache, w)
    BY <1>4, Zenon DEF OfflineResponse, Response
  <2>2. World(w, n)
    BY <1>2, WorldsIs
  <2> HIDE DEF l
  <2>3. QED BY <1>1, <2>1, <2>2, HelloOfflineIs DEF Sane
<1>5. CASE DeniedResponse(r)
  <2>1. PICK w \in Worlds(0) : L' = HelloDenied(l, w)
    BY <1>5, Zenon DEF DeniedResponse, Response
  <2>2. World(w, n)
    BY <1>2, WorldsIs
  <2> HIDE DEF l
  <2>3. QED BY <1>1, <2>1, <2>2, HelloDeniedIs DEF Sane
<1>6. CASE BadResponse(r) \/ DownloadFailed(r) \/ RequestLost(r)
  <2> DEFINE k == [l EXCEPT !.lost = TRUE]
  <2>1. L' = HelloRetry(l) \/ L' = k
    <3>1. CASE BadResponse(r)
      BY <3>1, Zenon DEF BadResponse, Response, HelloBad, HelloEmpty
    <3>2. CASE DownloadFailed(r)
      BY <3>2, Zenon DEF DownloadFailed, Response
    <3>3. CASE RequestLost(r)
      BY <3>3, <1>2 DEF RequestLost, RunType
    <3>4. QED BY <1>6, <3>1, <3>2, <3>3
  <2> HIDE DEF l
  <2>2. k \in RunType(n) /\ SameView(l, k) /\ k.state = l.state /\ k.lost
    BY <1>1, PointersIs DEF RunType, SameView, SameEntries
  <2> HIDE DEF k
  <2>3. Fit(k)
    BY <1>1, <2>2, SameViewFit DEF Fit, SameView
  <2>4. Sane(k, n)
    BY <2>2, <2>3 DEF Sane, Waits
  <2>5. QED BY <1>1, <2>1, <2>4, HelloRetryIs DEF Sane
<1>7. CASE DownloadResponse(r)
  <2> DEFINE c == L.reqs[r]
  <2>1. PICK w \in Worlds(r) : \/ L' = CertRequest(l, [c EXCEPT !.certs = 0], w)
                               \/ L' = AppRequest(l, [c EXCEPT !.tiles = 0], w)
    BY <1>7, Zenon DEF DownloadResponse, Response, CertResponse, AppResponse
  <2>2. c \in RequestType
    BY <1>2 DEF RunType
  <2> HIDE DEF c
  <2>3. [c EXCEPT !.certs = 0] \in RequestType /\ [c EXCEPT !.tiles = 0] \in RequestType
    BY <2>2 DEF RequestType
  <2>4. World(w, n)
    BY <1>2, WorldsIs
  <2> HIDE DEF l
  <2>5. QED BY <1>1, <2>1, <2>3, <2>4, CertRequestIs, AppRequestIs DEF Sane
<1>8. QED BY <1>3, <1>4, <1>5, <1>6, <1>7

LEMMA TimersSane ==
  ASSUME NEW n \in Nat \ {0}, Sane(L, n), PingTimer \/ HelloTimer \/ MqttTimer PROVE Sane(L', n)
<1>1. L \in RunType(n) /\ Fit(L) /\ DOMAIN L.reqs = 1..n
  BY DEF Sane, RunType
<1>2. \A r \in FreeSlots(L) : {0, r} \subseteq 0..n
  BY <1>1 DEF FreeSlots, Slots
<1>3. CASE PingTimer
  <2> DEFINE l == [L EXCEPT !.ping = FALSE]
  <2>1. PICK req \in 0..n : L' = HelloRequest(l, [req |-> req])
    BY <1>2, <1>3, Zenon DEF PingTimer
  <2>2. l \in RunType(n) /\ SameView(L, l) /\ l.state = L.state /\ l.lost = L.lost
    BY <1>1, PointersIs DEF RunType, SameView, SameEntries
  <2> HIDE DEF l
  <2>3. Fit(l)
    BY <1>1, <2>2, SameViewFit DEF Fit, SameView
  <2>4. QED BY <2>1, <2>2, <2>3, HelloRequestIs DEF Sane
<1>4. CASE HelloTimer
  <2>1. PICK req \in 0..n, h \in Less(L.hello) : L' = HelloRequest([L EXCEPT !.hello = h], [req |-> req])
    BY <1>2, <1>4, Zenon DEF HelloTimer
  <2> DEFINE l == [L EXCEPT !.hello = h]
  <2>2. h \in 0..2
    BY <1>1, <1>4 DEF Less, HelloTimer, RunType
  <2>3. l \in RunType(n) /\ SameView(L, l) /\ l.state = L.state /\ l.lost = L.lost
    BY <1>1, <2>2, PointersIs DEF RunType, SameView, SameEntries
  <2>4. L' = HelloRequest(l, [req |-> req])
    BY <2>1
  <2> HIDE DEF l
  <2>5. Fit(l)
    BY <1>1, <2>3, SameViewFit DEF Fit, SameView
  <2>6. QED BY <2>3, <2>4, <2>5, HelloRequestIs DEF Sane
<1>5. CASE MqttTimer
  <2>1. PICK pid \in BrokerPids, h \in Less(L.mqtt_timers) : L' = MqttStartNow([L EXCEPT !.mqtt_timers = h], [pm |-> pid])
    BY <1>5, Zenon DEF MqttTimer
  <2> DEFINE l == [L EXCEPT !.mqtt_timers = h]
             w == [pm |-> pid]
  <2>2. h \in 0..2
    BY <1>1, <1>5 DEF Less, MqttTimer, RunType
  <2>3. pid \in Pids \cup {0}
    BY DEF BrokerPids, Highest, UnusedPids
  <2>4. l \in RunType(n) /\ SameView(L, l) /\ SameWait(L, l)
    BY <1>1, <2>2, PointersIs DEF RunType, SameView, SameEntries, SameWait
  <2>5. L' = MqttStartNow(l, w) /\ w.pm \in Pids \cup {0}
    BY <2>1, <2>3
  <2> HIDE DEF l, w
  <2>6. Fit(l)
    BY <1>1, <2>4, SameViewFit DEF Fit, SameView, SameWait
  <2>7. L' \in RunType(n) /\ Fit(L') /\ SameWait(l, L')
    BY <2>4, <2>5, <2>6, MqttStartNowIs
  <2>8. Waits(L')
    BY <2>4, <2>7, SameWaitIs DEF Sane
  <2>9. QED BY <2>7, <2>8 DEF Sane
<1>6. QED BY <1>3, <1>4, <1>5

\* A kill timeout is of a process that nothing points to any more.
LEMMA KillTimerSane == ASSUME NEW n \in Nat \ {0}, Sane(L, n), KillTimer PROVE Sane(L', n)
<1>1. L \in RunType(n) /\ Fit(L) /\ Waits(L)
  BY DEF Sane
<1>2. L.P \in Table /\ Tidy(L.P)
  BY <1>1, PointersIs DEF Fit
<1>3. PICK t \in L.P.timers : L' = [L EXCEPT !.P = KillTimeout(@, t),
                                             !.lost = @ \/ L.P.procs[t.proc].user = engine,
                                             !.mqtt_lost = @ \/ L.P.procs[t.proc].user = broker]
  BY DEF KillTimer
<1> DEFINE q == KillTimeout(L.P, t)
           e == t.proc
           el == L.lost \/ L.P.procs[e].user = engine
           ml == L.mqtt_lost \/ L.P.procs[e].user = broker
<1>4. L' = [L EXCEPT !.P = q, !.lost = el, !.mqtt_lost = ml]
  BY <1>3
<1>5. /\ e \in Entries /\ L.P.procs[e].state = "KILL"
      /\ q \in Table /\ Tidy(q) /\ ~Used(q, e) /\ \A f \in Entries : f # e => q.procs[f] = L.P.procs[f]
  BY <1>2, TidyKillTimeout
<1>6. /\ el \in BOOLEAN /\ (el <=> L.lost \/ Owner(L.P, e) = engine)
      /\ ml \in BOOLEAN /\ (ml <=> L.mqtt_lost \/ Owner(L.P, e) = broker)
  BY <1>1 DEF RunType, Owner
<1> HIDE DEF q, el, ml
<1>7. /\ L' \in RunType(n) /\ L'.P = q /\ L'.lost = el /\ L'.mqtt_lost = ml
      /\ L'.engine_proc = L.engine_proc /\ L'.mqtt_proc = L.mqtt_proc /\ L'.mqtt_restart = L.mqtt_restart
      /\ L'.state = L.state /\ L'.online = L.online /\ L'.hello = L.hello /\ L'.reqs = L.reqs
  BY <1>1, <1>4, <1>5, <1>6 DEF RunType
<1>8. Held(q, L.engine_proc, engine) /\ Held(q, L.mqtt_proc, broker)
  BY <1>1, <1>5, PointersIs DEF Fit, Held, Running, Owner
<1>9. \A f \in Entries : f # e => (Used(q, f) <=> Used(L.P, f)) /\ Owner(q, f) = Owner(L.P, f)
  BY <1>5 DEF Used, Owner
<1>10. L.online /\ ~el /\ L.state = "RESTART" => Has(q, engine)
  BY <1>1, <1>6, <1>9 DEF Fit, Has
<1>11. L.mqtt_restart /\ ~ml => Stopping(L')
  BY <1>1, <1>6, <1>7, <1>9 DEF Fit, Stopping
<1>12. Fit(L')
  BY <1>1, <1>5, <1>7, <1>8, <1>10, <1>11 DEF Fit
<1>13. Waits(L')
  BY <1>1, <1>6, <1>7 DEF Waits
<1>14. QED BY <1>7, <1>12, <1>13 DEF Sane

\* A change of the table that keeps its entries, watches and timers
LEMMA SameEntriesSane ==
  ASSUME NEW n \in Nat \ {0}, Sane(L, n), NEW q, SameEntries(L.P, q), L' = [L EXCEPT !.P = q]
  PROVE  Sane(L', n)
<1>1. L \in RunType(n) /\ Fit(L) /\ Waits(L) /\ q \in Table
  BY DEF Sane, SameEntries
<1>2. /\ L' \in RunType(n) /\ L'.P = q /\ SameWait(L, L')
      /\ L'.engine_proc = L.engine_proc /\ L'.mqtt_proc = L.mqtt_proc
      /\ L'.mqtt_restart = L.mqtt_restart /\ L'.mqtt_lost = L.mqtt_lost
  BY <1>1 DEF RunType, SameWait
<1>3. SameView(L, L')
  BY <1>2 DEF SameView, SameWait
<1>4. Fit(L')
  BY <1>1, <1>2, <1>3, SameViewFit DEF Fit, SameWait
<1>5. QED BY <1>1, <1>2, <1>4, SameWaitIs DEF Sane

\* hk_proc_sigchld, of an entry that watches the process
LEMMA SigchldSane ==
  ASSUME NEW n \in Nat \ {0}, Sane(L, n), NEW p \in Pids, NEW e \in Entries, Used(L.P, e), NEW w, World(w, n),
         L' = Sigchld(e, p, w)
  PROVE  Sane(L', n)
<1> DEFINE q == SigchldHead(Reaped(L.P, p), e)
           l == [L EXCEPT !.P = q]
           told == IF L.P.procs[e].user = engine THEN EngineTerminated(l, w) ELSE MqttTerminated(l, w)
<1>1. L \in RunType(n) /\ Fit(L) /\ Waits(L) /\ w.pe \in Pids \cup {0} /\ w.pm \in Pids \cup {0}
  BY DEF Sane, World
<1>2. L.P \in Table /\ Tidy(L.P)
  BY <1>1, PointersIs DEF Fit
<1>3. L' = [told EXCEPT !.P = TermRemove(@, e)]
  BY DEF Sigchld
<1>4. /\ q \in Table /\ Tidy(q) /\ q.procs[e].state = L.P.procs[e].state /\ Owner(q, e) = Owner(L.P, e)
      /\ \A f \in Entries : f # e => q.procs[f] = L.P.procs[f]
  BY <1>2, TidyHead
<1> HIDE DEF q
<1>5. /\ l \in RunType(n) /\ l.P = q /\ SameWait(L, l)
      /\ l.engine_proc = L.engine_proc /\ l.mqtt_proc = L.mqtt_proc
      /\ l.mqtt_restart = L.mqtt_restart /\ l.mqtt_lost = L.mqtt_lost
  BY <1>1, <1>4 DEF RunType, SameWait
<1>6. told = IF Owner(L.P, e) = engine THEN EngineTerminated(l, w) ELSE MqttTerminated(l, w)
  BY DEF Owner
<1> HIDE DEF l, told
<1>7. \A f \in Entries : (Used(q, f) <=> Used(L.P, f)) /\ (Running(q, f) <=> Running(L.P, f)) /\ Owner(q, f) = Owner(L.P, f)
  BY <1>4 DEF Used, Running, Owner
<1>8. /\ Held(q, L.engine_proc, engine) /\ Held(q, L.mqtt_proc, broker)
      /\ Has(L.P, engine) => Has(q, engine)
  BY <1>1, <1>7, PointersIs DEF Fit, Held, Has
<1>9. Stopping(L) => Stopping(l)
  BY <1>5, <1>7 DEF Stopping
<1>10. Fit(l) /\ Waits(l)
  BY <1>1, <1>4, <1>5, <1>8, <1>9, SameWaitIs DEF Fit, SameWait
<1>11. Used(l.P, e) /\ Owner(l.P, e) \in {engine, broker}
  BY <1>2, <1>5, <1>7, LauncherAssumption DEF Tidy
<1>12. CASE Owner(L.P, e) = engine
  <2>1. told = EngineTerminated(l, w)
    BY <1>6, <1>12
  <2>2. /\ told \in RunType(n) /\ Fit(told) /\ Waits(told) /\ Kept(l.P, told.P) /\ told.mqtt_proc = l.mqtt_proc
        /\ told.state # "RESTART" /\ told.engine_proc # e
    BY <1>1, <1>5, <1>10, <1>11, <2>1, EngineTerminatedIs
  <2>3. Owner(told.P, e) = engine
    BY <1>5, <1>7, <1>11, <1>12, <2>2, KeptIs
  <2>4. e # told.mqtt_proc
    BY <2>2, <2>3, LauncherAssumption DEF Fit, Held, Entries
  <2>5. told.mqtt_restart /\ ~told.mqtt_lost =>
          \E f \in Entries : f # e /\ Used(told.P, f) /\ Owner(told.P, f) = broker /\ f # told.mqtt_proc
    BY <2>2, <2>3, LauncherAssumption DEF Fit, Stopping
  <2>6. L' \in RunType(n) /\ Fit(L') /\ SameWait(told, L')
    BY <1>3, <2>2, <2>4, <2>5, RemoveIs
  <2>7. QED BY <2>2, <2>6, SameWaitIs DEF Sane
<1>13. CASE Owner(L.P, e) # engine
  <2>1. told = MqttTerminated(l, w)
    BY <1>6, <1>13
  <2>2. /\ told \in RunType(n) /\ Fit(told) /\ SameWait(l, told) /\ Kept(l.P, told.P) /\ told.engine_proc = l.engine_proc
        /\ told.mqtt_proc # e
        /\ told.mqtt_restart /\ ~told.mqtt_lost =>
             \E f \in Entries : f # e /\ Used(told.P, f) /\ Owner(told.P, f) = broker /\ f # told.mqtt_proc
    BY <1>1, <1>5, <1>10, <1>11, <2>1, MqttTerminatedIs
  <2>3. Owner(told.P, e) = broker
    BY <1>5, <1>7, <1>11, <1>13, <2>2, KeptIs
  <2>4. e # told.engine_proc
    BY <2>2, <2>3, LauncherAssumption DEF Fit, Held, Entries
  <2>5. told.online /\ ~told.lost /\ told.state = "RESTART" =>
          \E f \in Entries : f # e /\ Used(told.P, f) /\ Owner(told.P, f) = engine
    BY <2>2, <2>3, LauncherAssumption DEF Fit, Has
  <2>6. L' \in RunType(n) /\ Fit(L') /\ SameWait(told, L')
    BY <1>3, <2>2, <2>4, <2>5, RemoveIs
  <2>7. QED BY <1>10, <2>2, <2>6, SameWaitIs DEF Sane
<1>14. QED BY <1>12, <1>13

LEMMA ChildrenSane ==
  ASSUME NEW n \in Nat \ {0}, Sane(L, n), NEW p \in Pids, ChildReaped(p) \/ ChildEnds(p) PROVE Sane(L', n)
<1>1. L \in RunType(n) /\ L.P \in Table /\ Tidy(L.P) /\ 0 \in 0..n
  BY PointersIs DEF Sane, Fit
<1>2. CASE ChildEnds(p)
  <2>1. L' = [L EXCEPT !.P = Exited(L.P, p)] /\ L.P.os[p] = "running"
    BY <1>2 DEF ChildEnds
  <2> DEFINE q == Exited(L.P, p)
  <2>2. SameEntries(L.P, q)
    BY <1>1, <2>1, ExitedIs DEF SameEntries
  <2> HIDE DEF q
  <2>3. QED BY <2>1, <2>2, SameEntriesSane DEF q
<1>3. CASE ChildReaped(p) /\ Watchers(L.P, p) = {}
  <2> DEFINE z == "none"
             q == Reaped(L.P, p)
  <2>1. L' = [L EXCEPT !.P = q]
    BY <1>3 DEF ChildReaped
  <2>2. q = [L.P EXCEPT !.os[p] = z] /\ z \in {"none", "running", "zombie"}
    BY DEF Reaped
  <2> HIDE DEF q, z
  <2>3. SameEntries(L.P, q)
    BY <1>1, <2>2, OsSet DEF SameEntries
  <2>4. QED BY <2>1, <2>3, SameEntriesSane
<1>4. CASE ChildReaped(p) /\ Watchers(L.P, p) # {}
  <2>1. PICK e \in Watchers(L.P, p), w \in Worlds(0) : L' = Sigchld(e, p, w)
    BY <1>4 DEF ChildReaped
  <2>2. PICK x \in L.P.watch : x.pid = p /\ e = x.proc
    BY DEF Watchers
  <2>3. x = [pid |-> p, proc |-> e] /\ e \in Entries
    BY <1>1, <2>2, TableIs
  <2>4. Used(L.P, e)
    BY <1>1, <2>3 DEF Tidy, Watches
  <2>5. World(w, n)
    BY <1>1, WorldsIs
  <2>6. QED BY <2>1, <2>3, <2>4, <2>5, SigchldSane
<1>5. QED BY <1>2, <1>3, <1>4
-----------------------------------------------------------------------------
(* The theorems                                                            *)

LEMMA LauncherInitInv == LauncherInit => LauncherInv
<1> SUFFICES ASSUME LauncherInit PROVE LauncherInv
  OBVIOUS
<1>1. PICK opt \in Setups : \/ L = [Idle(opt) EXCEPT !.reqs[1] = Hello]
                            \/ L = [Idle(opt) EXCEPT !.hello = 1]
                            \/ \E pid \in Pids : L = EngineStartNow([Idle(opt) EXCEPT !.online = FALSE], [pe |-> pid])
  BY DEF LauncherInit
<1> DEFINE n == opt.MaxReq
           s == [r \in 1..n |-> NoRequest]
           i == Idle(opt)
<1>2. n \in Nat \ {0} /\ opt.opt_no_mqtt \in BOOLEAN /\ opt.MaxTiles \in 0..1
  BY LauncherAssumption
<1>3. s \in [1..n -> RequestType] /\ 1 \in DOMAIN s
  BY <1>2, NoRequestIs
<1>4. NoProcs \in Table /\ Tidy(NoProcs)
  BY NoProcsIs DEF Tidy
<1>5. /\ i = [state |-> "HELLO", online |-> TRUE, fallback |-> FALSE, engine_proc |-> 0, ping |-> FALSE,
              hello |-> 0, mqtt_proc |-> 0, mqtt_restart |-> FALSE, mqtt_retry_count |-> 0,
              mqtt_timers |-> 0, mqtt_lost |-> FALSE, opt_no_mqtt |-> opt.opt_no_mqtt, MaxTiles |-> opt.MaxTiles,
              reqs |-> s, lost |-> FALSE, P |-> NoProcs]
  BY DEF Idle
<1> HIDE DEF n, i
<1>6. 0 \in 0..NPROCS /\ 0 \in 0..MQTT_MAX_RETRIES+1 /\ 0 \in 0..2 /\ 1 \in 0..2 /\ "HELLO" \in {"HELLO", "RETRY", "RUN", "RESTART"}
      /\ TRUE \in BOOLEAN /\ FALSE \in BOOLEAN
  BY ProcAssumption, LauncherAssumption
<1>7. /\ i \in RunType(n) /\ i.state = "HELLO" /\ i.reqs = s /\ i.P = NoProcs /\ i.engine_proc = 0 /\ i.mqtt_proc = 0
      /\ i.mqtt_restart = FALSE
  <2> HIDE DEF s
  <2>1. QED BY <1>2, <1>3, <1>4, <1>5, <1>6 DEF RunType
<1>8. ASSUME NEW k \in RunType(n), k.state = "HELLO", k.P = NoProcs, k.engine_proc = 0, k.mqtt_proc = 0, k.mqtt_restart = FALSE
      PROVE  Fit(k)
  BY <1>4, <1>8 DEF Fit, Held
<1>9. CASE L = [i EXCEPT !.reqs[1] = Hello]
  <2> DEFINE h == [s EXCEPT ![1] = Hello]
  <2>1. Hello \in RequestType /\ Hello.kind # "none"
    BY HelloIs
  <2>2. h \in [1..n -> RequestType] /\ h[1] = Hello /\ 1 \in DOMAIN h
    BY <1>3, <2>1
  <2>3. L = [i EXCEPT !.reqs = h]
    BY <1>7, <1>9, Zenon
  <2> HIDE DEF h
  <2>4. /\ L \in RunType(n) /\ L.state = "HELLO" /\ L.reqs = h /\ L.P = NoProcs /\ L.engine_proc = 0 /\ L.mqtt_proc = 0
        /\ L.mqtt_restart = FALSE
    BY <1>7, <2>2, <2>3 DEF RunType
  <2>5. Fit(L) /\ Waits(L)
    BY <1>8, <2>1, <2>2, <2>4 DEF Waits
  <2>6. QED BY <1>2, <2>4, <2>5 DEF LauncherInv, Sane
<1>10. CASE L = [i EXCEPT !.hello = 1]
  <2>1. /\ L \in RunType(n) /\ L.state = "HELLO" /\ L.hello = 1 /\ L.P = NoProcs /\ L.engine_proc = 0 /\ L.mqtt_proc = 0
        /\ L.mqtt_restart = FALSE
    BY <1>6, <1>7, <1>10 DEF RunType
  <2>2. Fit(L)
    BY <1>8, <2>1
  <2>3. L.hello > 0
    BY <2>1
  <2>4. Waits(L)
    BY <2>3, Zenon DEF Waits
  <2>5. QED BY <1>2, <2>1, <2>2, <2>4 DEF LauncherInv, Sane
<1>11. CASE \E pid \in Pids : L = EngineStartNow([i EXCEPT !.online = FALSE], [pe |-> pid])
  <2>1. PICK pid \in Pids : L = EngineStartNow([i EXCEPT !.online = FALSE], [pe |-> pid])
    BY <1>11
  <2> DEFINE k == [i EXCEPT !.online = FALSE]
             w == [pe |-> pid]
  <2>2. /\ k \in RunType(n) /\ k.state = "HELLO" /\ k.P = NoProcs /\ k.engine_proc = 0 /\ k.mqtt_proc = 0
        /\ k.mqtt_restart = FALSE
    BY <1>7 DEF RunType
  <2>3. L = EngineStartNow(k, w) /\ w.pe \in Pids \cup {0}
    BY <2>1
  <2> HIDE DEF k, w
  <2>4. QED BY <1>2, <1>8, <2>2, <2>3, EngineStartNowIs DEF LauncherInv, Sane
<1>12. QED BY <1>1, <1>9, <1>10, <1>11 DEF i

LEMMA LauncherNextInv == LauncherInv /\ [LauncherNext]_L => LauncherInv'
<1> SUFFICES ASSUME LauncherInv, [LauncherNext]_L PROVE LauncherInv'
  OBVIOUS
<1>1. PICK n \in Nat \ {0} : Sane(L, n)
  BY DEF LauncherInv
<1>2. SUFFICES Sane(L', n)
  BY DEF LauncherInv, Sane, Fit, Waits, Tidy, Held, Has, Stopping, Used, Running, Owner, WatchedPid, Watches
<1>3. Slots = 1..n
  BY <1>1 DEF Slots, Sane, RunType
<1>4. CASE PingTimer \/ HelloTimer \/ MqttTimer
  BY <1>1, <1>4, TimersSane
<1>5. CASE KillTimer
  BY <1>1, <1>5, KillTimerSane
<1>6. ASSUME NEW r \in Slots,
             AcceptResponse(r) \/ OfflineResponse(r) \/ DeniedResponse(r) \/ BadResponse(r)
               \/ DownloadResponse(r) \/ DownloadFailed(r) \/ RequestLost(r)
      PROVE  Sane(L', n)
  BY <1>1, <1>3, <1>6, ResponsesSane
<1>7. ASSUME NEW p \in Pids, ChildReaped(p) \/ ChildEnds(p) PROVE Sane(L', n)
  BY <1>1, <1>7, ChildrenSane
<1>8. CASE L' = L
  BY <1>1, <1>8
<1>9. QED BY <1>4, <1>5, <1>6, <1>7, <1>8 DEF LauncherNext

LEMMA LauncherAlways == LauncherSpec => []LauncherInv
BY LauncherInitInv, LauncherNextInv, PTL DEF LauncherSpec

\* Whatever the platform answers, and however the processes end or refuse to (RunHasEngine):
\* in ST_RUN the launcher has an engine to stop, and its state is well formed, P included.
THEOREM EngineInRun == LauncherSpec => []RunHasEngine
<1>1. LauncherInv => RunHasEngine
  <2> SUFFICES ASSUME NEW n \in Nat \ {0}, Sane(L, n) PROVE RunHasEngine
    BY DEF LauncherInv
  <2>1. L \in RunType(n) /\ Fit(L)
    BY DEF Sane
  <2>2. L.P \in ProcType /\ Slots = 1..n
    BY <2>1 DEF RunType, Table, Slots
  <2>3. LauncherTypeOK
    BY <2>1, <2>2 DEF RunType, LauncherTypeOK
  <2>4. QED BY <2>1, <2>3 DEF RunHasEngine, Fit
<1>2. QED BY <1>1, LauncherAlways, PTL

\* The launcher always has something to act on (NeverStuck): hello_retry's timer, a request
\* in flight or an engine whose end it will be told, unless a request was lost.
THEOREM AlwaysAwaits == LauncherSpec => []NeverStuck
<1>1. LauncherInv => NeverStuck
  <2> SUFFICES ASSUME NEW n \in Nat \ {0}, Sane(L, n), L.online, ~L.lost
               PROVE  \/ L.hello > 0
                      \/ \E r \in Slots : L.reqs[r].kind # "none"
                      \/ UserActive(engine)
    BY DEF LauncherInv, NeverStuck
  <2>1. L \in RunType(n) /\ Fit(L) /\ Waits(L)
    BY DEF Sane
  <2>2. CASE L.state \in {"HELLO", "RETRY"}
    BY <2>1, <2>2 DEF Waits, Slots
  <2>3. CASE L.state = "RESTART"
    BY <2>1, <2>3 DEF Fit, Has, Used, Owner, UserActive
  <2>4. CASE L.state = "RUN"
    BY <2>1, <2>4, PointersIs DEF Fit, Held, Running, Owner, UserActive
  <2>5. L.state \in {"HELLO", "RETRY", "RUN", "RESTART"}
    BY <2>1 DEF RunType
  <2>6. QED BY <2>2, <2>3, <2>4, <2>5
<1>2. QED BY <1>1, LauncherAlways, PTL

\* A restart of the broker that mqtt_stop asked for waits for a broker that is still there
\* (BrokerRestarts), so that mqtt_terminated will come and honour it.
THEOREM RestartIsOwed == LauncherSpec => []BrokerRestarts
<1>1. LauncherInv => BrokerRestarts
  <2> SUFFICES ASSUME NEW n \in Nat \ {0}, Sane(L, n) PROVE BrokerRestarts
    BY DEF LauncherInv
  <2>1. QED BY DEF Sane, Fit, Stopping, Used, Owner, BrokerRestarts, UserActive
<1>2. QED BY <1>1, LauncherAlways, PTL
=============================================================================
