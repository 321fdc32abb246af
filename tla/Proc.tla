-------------------------------- MODULE Proc --------------------------------
(***************************************************************************)
(* proc.c driven by its simplest client: the objects of classes/proc, each *)
(* running one command when its "enable" pad says so.  sys_run goes round  *)
(* timers, poll and waitpid; pads change and children exit at any time     *)
(* between two handlers.                                                   *)
(***************************************************************************)
EXTENDS ProcTable

CONSTANTS Agents,       \* the objects in mode "agent": disabling stops the process
          Respawning,   \* the objects with a respawn delay
          MaxStarts     \* bound: processes started in a run

ASSUME ObjAssumption == Agents \subseteq Users /\ Respawning \subseteq Users /\ MaxStarts \in Nat

VARIABLES P,        \* the processes (ProcTable)
          obj,      \* per object: pad_enable->state, ctx->proc (0: NULL), respawn_tag pending
          phase,    \* of sys_run: "timers", "wait", or "done"
          starts    \* bound: how many starts so far

vars == <<P, obj, phase, starts>>

Init == /\ P = NoProcs
        /\ obj = [o \in Users |-> [enable |-> FALSE, proc |-> 0, respawn |-> FALSE]]
        /\ phase = "timers" /\ starts = 0

Alive == ~P.halted /\ phase # "done"
-----------------------------------------------------------------------------
(* classes/proc                                                            *)

\* _start: nothing if the object has a process; otherwise fork, which may fail.  obj1 is
\* the objects' state before.
StartObj_Always(o, obj1) ==
  \/ obj' = obj1 /\ UNCHANGED <<P, starts>>
  \/ /\ starts < MaxStarts /\ Recyclable(P) # {}
     /\ \E pid \in UnusedPids(P) : P' = Start(P, pid, o)
     /\ obj' = [obj1 EXCEPT ![o].proc = FreeEntry(P)]
     /\ starts' = starts + 1
StartObj(o, obj1) ==
  \/ obj1[o].proc # 0 /\ obj' = obj1 /\ UNCHANGED <<P, starts>>
  \/ obj1[o].proc = 0 /\ obj' = obj1 /\ UNCHANGED <<P, starts>>
  \/ /\ obj1[o].proc = 0 /\ starts < MaxStarts /\ Recyclable(P) # {}
     /\ \E pid \in UnusedPids(P) : P' = Start(P, pid, o)
     /\ obj' = [obj1 EXCEPT ![o].proc = FreeEntry(P)]
     /\ starts' = starts + 1

\* _term, the cb_term of every process: the pointer goes, the respawn timer is rearmed.
Told(obj1, o) == [obj1 EXCEPT ![o].proc = 0, ![o].respawn = @ \/ o \in Respawning]

\* hk_proc_stop in full: the signal is sent, or kill fails and the owner is told at once.
StopProc(P1, e, obj1) ==
  \/ P' = StopSent(P1, e) /\ obj' = obj1
  \/ /\ P1.procs[e].state = "RUN"
     /\ P' = TermRemove(P1, e) /\ obj' = Told(obj1, P1.procs[e].user)

Enable(o) ==
  /\ Alive /\ ~obj[o].enable
  /\ StartObj(o, [obj EXCEPT ![o].enable = TRUE])
  /\ UNCHANGED phase

Disable(o) ==
  /\ Alive /\ obj[o].enable
  /\ LET obj1 == [obj EXCEPT ![o].enable = FALSE, ![o].respawn = FALSE]
     IN IF obj[o].proc # 0 /\ o \in Agents
        THEN StopProc(P, obj[o].proc, obj1)
        ELSE obj' = obj1 /\ UNCHANGED P
  /\ UNCHANGED <<phase, starts>>

\* The respawn timer fires.
Respawn(o) ==
  /\ Alive /\ phase = "timers" /\ obj[o].respawn
  /\ LET obj1 == [obj EXCEPT ![o].respawn = FALSE]
     IN IF obj[o].enable THEN StartObj(o, obj1)
                         ELSE obj' = obj1 /\ UNCHANGED <<P, starts>>
  /\ UNCHANGED phase
-----------------------------------------------------------------------------
(* sys_run                                                                 *)

HangupTimeout ==
  /\ Alive /\ phase = "timers"
  /\ \E t \in DueTimers(P) : t.fn = "hangup" /\ StopProc(Fired(P, t), t.proc, obj)
  /\ UNCHANGED <<phase, starts>>

KillTimeoutFires ==
  /\ Alive /\ phase = "timers"
  /\ \E t \in DueTimers(P) : t.fn = "kill" /\ P' = KillTimeout(P, t)
  /\ UNCHANGED <<obj, phase, starts>>

\* poll returns, with or without time having passed.
Poll(ticks) ==
  /\ Alive /\ phase = "timers" /\ DueTimers(P) = {}
  /\ P' = IF ticks THEN TickTimers(P) ELSE P
  /\ phase' = "wait"
  /\ UNCHANGED <<obj, starts>>

\* The child closed its stdout, by exiting or before.
Eof(e) ==
  /\ Alive /\ phase = "wait" /\ P.procs[e].out
  /\ P' = StdoutEof(P, e)
  /\ UNCHANGED <<obj, phase, starts>>

\* waitpid returns p and the entry that watches it, if any, hears of it.
Reap(p) ==
  /\ Alive /\ phase = "wait" /\ P.os[p] = "zombie"
  /\ IF Watchers(P, p) = {}
     THEN P' = Reaped(P, p) /\ UNCHANGED obj
     ELSE \E e \in Watchers(P, p) :
            LET Q == Reaped(P, p) IN
            IF P.procs[e].pid = p
            THEN /\ P' = TermRemove(SigchldHead(Q, e), e)
                 /\ obj' = Told(obj, P.procs[e].user)
            ELSE /\ P' = [Q EXCEPT !.watch = @ \ {[pid |-> p, proc |-> e]}]
                 /\ UNCHANGED obj
  /\ UNCHANGED <<phase, starts>>

WaitDone_OneChildOnly == /\ Alive /\ phase = "wait"
                         /\ phase' = "timers"
                         /\ UNCHANGED <<P, obj, starts>>
WaitDone == /\ Alive /\ phase = "wait" /\ \A p \in Pids : P.os[p] # "zombie"
            /\ phase' = "timers"
            /\ UNCHANGED <<P, obj, starts>>

\* sys_quit, then hk_proc_quit.
Quit == /\ Alive
        /\ P' = StopAll(P) /\ phase' = "done"
        /\ UNCHANGED <<obj, starts>>

ChildExit(p) == /\ Alive /\ P.os[p] = "running"
                /\ P' = Exited(P, p)
                /\ UNCHANGED <<obj, phase, starts>>
-----------------------------------------------------------------------------
LoopStep == \/ HangupTimeout \/ KillTimeoutFires
            \/ \E p \in Pids : Reap(p)
            \/ WaitDone

Next == \/ LoopStep \/ (\E ticks \in BOOLEAN : Poll(ticks))
        \/ \E o \in Users : Enable(o) \/ Disable(o) \/ Respawn(o)
        \/ \E e \in Entries : Eof(e)
        \/ \E p \in Pids : ChildExit(p)
        \/ Quit

Spec == Init /\ [][Next]_vars

\* The loop keeps turning, and time keeps passing however often something wakes poll up.
FairSpec == Spec /\ WF_vars(LoopStep) /\ SF_vars(Poll(TRUE))
-----------------------------------------------------------------------------
(* Properties                                                              *)

TypeOK == /\ P \in ProcType
          /\ obj \in [Users -> [enable : BOOLEAN, proc : 0..NPROCS, respawn : BOOLEAN]]
          /\ phase \in {"timers", "wait", "done"} /\ starts \in 0..MaxStarts

Active(e) == P.procs[e].state # "FREE"

\* An object never has two processes, whatever its pads, its respawn timer and the entries
\* recycled meanwhile: the owner of a process in use points to its entry.
CallbackOwner ==
  /\ TypeOK
  /\ \A e \in Entries : Active(e) => P.procs[e].user \in Users /\ obj[P.procs[e].user].proc = e

\* An entry in use and its SIGCHLD source go together, so the death of a process is told to
\* its own entry and to no other, even with entries and pids recycled.
WatchedWhileUsed ==
  P.watch = {[pid |-> P.procs[e].pid, proc |-> e] : e \in {f \in Entries : Active(f)}}

\* A process told to stop leaves the table, by its death or by the kill timer, unless it
\* closed its standard output.
StopEndsIt == \A e \in Entries :
  (P.procs[e].state = "KILL" /\ P.procs[e].out) ~>
     (~Active(e) \/ ~P.procs[e].out \/ ~Alive)

\* The entry of a process that exited is recycled.
ExitFreesEntry == \A e \in Entries, p \in Pids :
  (Active(e) /\ P.procs[e].pid = p /\ P.os[p] = "zombie") ~>
     (~Active(e) \/ P.procs[e].pid # p \/ ~Alive)
=============================================================================
