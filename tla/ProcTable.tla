----------------------------- MODULE ProcTable -----------------------------
(***************************************************************************)
(* The child processes of os/linux/proc.c, as operators on a record P:     *)
(*   P.procs    the table of entries (hk_proc_t), recycled when FREE       *)
(*   P.timers   the timers hk_proc armed with sys_timeout, with the ticks  *)
(*              left before they are due                                   *)
(*   P.watch    the SIGCHLD sources: which entry watches which pid         *)
(*   P.os       what the kernel knows of each pid                          *)
(*   P.halted   kill(0, SIGKILL) reached the program itself                *)
(* An operator is one function of proc.c; the modules that use them (Proc, *)
(* Launcher) call the owner's callback where the code does.  A tag is the  *)
(* least number nothing refers to, since sys.c never hands one out twice.  *)
(* Left out: stdin, stderr and the contents of the output.                 *)
(***************************************************************************)
EXTENDS Integers, FiniteSets

CONSTANTS Pids,          \* process ids
          NPROCS,        \* entries: more than can be used at a time
          Users,         \* the owners of processes (user_data)
          NoUser,
          HangupTicks,   \* 100 ms
          KillTicks      \* 1000 ms

ASSUME ProcAssumption == /\ NPROCS \in Nat \ {0}
                         /\ Pids \subseteq Nat \ {0}
                         /\ HangupTicks \in Nat /\ KillTicks \in Nat
                         /\ NoUser \notin Users
-----------------------------------------------------------------------------
Entries == 1..NPROCS

\* out: the stdout channel is watched.  sigchld is the pid whose watch sigchld_tag names.
Entry == [state : {"FREE", "RUN", "KILL"}, pid : Pids \cup {0}, timeout_tag : Nat,
          sigchld : Pids \cup {0}, out : BOOLEAN, user : Users \cup {NoUser}]

Blank == [state |-> "FREE", pid |-> 0, timeout_tag |-> 0, sigchld |-> 0, out |-> FALSE,
          user |-> NoUser]

Timer == [tag : Nat \ {0}, fn : {"hangup", "kill"}, proc : Entries, left : Nat]

NoProcs == [procs |-> [e \in Entries |-> Blank], timers |-> {}, watch |-> {},
            os |-> [p \in Pids |-> "none"], halted |-> FALSE]

ProcType == [procs : [Entries -> Entry], timers : SUBSET Timer,
             watch : SUBSET [pid : Pids, proc : Entries],
             os : [Pids -> {"none", "running", "zombie"}], halted : BOOLEAN]

Least(S) == CHOOSE n \in S : \A m \in S : n <= m

Set(P, e, entry) == [P EXCEPT !.procs[e] = entry]
-----------------------------------------------------------------------------
(* Timers.                                                                 *)

TagsInUse(P) == {t.tag : t \in P.timers} \cup {P.procs[e].timeout_tag : e \in Entries}

\* proc->timeout_tag = sys_timeout(...): a tag that was there before is overwritten.
ArmTimer(P, e, fn, ticks) ==
  LET tag == Least(1..(Cardinality(TagsInUse(P)) + 1) \ TagsInUse(P))
  IN [P EXCEPT !.timers = @ \cup {[tag |-> tag, fn |-> fn, proc |-> e, left |-> ticks]},
               !.procs[e].timeout_tag = tag]

\* hk_proc_timeout_cancel: only the timer whose tag is in the entry.
TimeoutCancel(P, e) ==
  [P EXCEPT !.timers = {t \in @ : t.tag # P.procs[e].timeout_tag},
            !.procs[e].timeout_tag = 0]
-----------------------------------------------------------------------------
(* Entries.                                                                *)

\* hk_proc_find_free, or the entry hk_proc_add appends.
Recyclable_NotRunning(P) == {e \in Entries : P.procs[e].state # "RUN"}
Recyclable(P) == {e \in Entries : P.procs[e].state = "FREE"}
FreeEntry(P) == Least(Recyclable(P))

UnusedPids(P) == {p \in Pids : P.os[p] = "none"}

\* hk_proc_start: the entry is wiped, whatever timers still point to it.
Start(P, pid, user) ==
  LET e == FreeEntry(P)
  IN [Set(P, e, [state |-> "RUN", pid |-> pid, timeout_tag |-> 0, sigchld |-> pid,
                 out |-> TRUE, user |-> user])
      EXCEPT !.watch = @ \cup {[pid |-> pid, proc |-> e]}, !.os[pid] = "running"]

\* hk_proc_term and hk_proc_remove.
WatchesLeft_All(P, e) == P.watch
WatchesLeft(P, e) == P.watch \ {[pid |-> P.procs[e].sigchld, proc |-> e]}

TermRemove(P, e) ==
  LET Q == TimeoutCancel(P, e)
  IN [Q EXCEPT !.watch = WatchesLeft(P, e),
               !.procs[e] = [@ EXCEPT !.state = "FREE", !.out = FALSE, !.sigchld = 0,
                                      !.user = NoUser]]

\* hk_proc_stop when the signal could be sent.  Without effect unless the entry is in RUN.
KillTimerOf_Hangup == "hangup"
KillTimerOf == "kill"
StopSent(P, e) ==
  IF P.procs[e].state = "RUN"
  THEN ArmTimer([P EXCEPT !.procs[e].state = "KILL"], e, KillTimerOf, KillTicks)
  ELSE P

\* hk_proc_quit when every signal could be sent: the loop is over, no timer will fire.
StopAll(P) == [P EXCEPT !.procs = [e \in Entries |-> StopSent(P, e).procs[e]]]

\* kill(pid, SIGKILL), with the pid an entry holds: 0 is the program's own group.
SigKill(P, pid) ==
  CASE pid = 0 -> [P EXCEPT !.halted = TRUE]
    [] pid # 0 /\ P.os[pid] = "running" -> [P EXCEPT !.os[pid] = "zombie"]
    [] OTHER -> P

\* A timer that fired is gone, and hk_proc_hangup_timeout or hk_proc_kill_timeout forgets
\* whatever tag the entry holds.
Fired(P, t) == [P EXCEPT !.timers = @ \ {t}, !.procs[t.proc].timeout_tag = 0]

\* hk_proc_kill_timeout: the owner is not told.
KillTimeout(P, t) ==
  TermRemove(SigKill(Fired(P, t), P.procs[t.proc].pid), t.proc)

\* hk_proc_stdout with nothing more to read: a pending timer of either kind is replaced.
StdoutEof(P, e) == ArmTimer(TimeoutCancel([P EXCEPT !.procs[e].out = FALSE], e),
                            e, "hangup", HangupTicks)

\* hk_proc_sigchld up to the call of cb_term; TermRemove follows it.
SigchldHead(P, e) == TimeoutCancel([P EXCEPT !.procs[e].pid = 0], e)
-----------------------------------------------------------------------------
(* The world.                                                              *)

Exited(P, p) == [P EXCEPT !.os[p] = "zombie"]
Reaped(P, p) == [P EXCEPT !.os[p] = "none"]
Watchers(P, p) == {w.proc : w \in {x \in P.watch : x.pid = p}}
TickTimers(P) ==
  [P EXCEPT !.timers = {[t EXCEPT !.left = IF @ = 0 THEN 0 ELSE @ - 1] : t \in @}]
DueTimers(P) == {t \in P.timers : t.left = 0}
=============================================================================
