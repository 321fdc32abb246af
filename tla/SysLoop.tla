------------------------------ MODULE SysLoop ------------------------------
(***************************************************************************)
(* The event loop of os/linux/sys.c: a table of NSOURCES sources (timers,  *)
(* descriptors, children, quit handlers), scanned in slot order by sys_run *)
(* in four phases: timers, poll set-up and poll, descriptors, children.    *)
(*                                                                         *)
(* A handler runs between two steps of a phase.  While it runs (cb.slot is *)
(* its slot) it may call any function of sys.h, any number of times: those *)
(* calls are the API actions.  The clock may advance and a child may exit  *)
(* at any point.  Left out: failures of gettimeofday and poll (both abort  *)
(* the loop) and logging.                                                  *)
(***************************************************************************)
EXTENDS Integers, FiniteSets

CONSTANTS NSOURCES,   \* slots of the source table
          Fds,        \* descriptors
          Pids,       \* process ids, each used for one child
          Delays,     \* delays (ms) the program passes to sys_timeout
          MaxTag,     \* bound: sources registered in a run (no wrap-around)
          MaxClock    \* bound: the last value of the clock

ASSUME SysAssumption == /\ NSOURCES \in Nat \ {0}
                        /\ Delays \subseteq Nat
                        /\ Fds \subseteq Nat
                        /\ Pids \subseteq Nat \ {0}
                        /\ MaxTag \in Nat
                        /\ MaxClock \in Nat

VARIABLES sources,        \* the table: a record per slot
          last_tag,       \* the last tag handed out
          quit_requested,
          phase,          \* where sys_run is
          i,              \* the slot its current scan has reached
          cb,             \* the handler that runs: its slot (0: none), which one, its events
          now,            \* sys_now() at the top of the iteration
          timeout,        \* poll's timeout, -1 for none
          fds,            \* poll's answer per slot, NotPolled for fds_lookup = -1
          polled_at,      \* the clock when poll was entered
          polledTag,      \* history: the source each slot held when poll was set up
          clock,          \* gettimeofday, in ms
          child,          \* what became of each child process
          reaped,         \* the pid waitpid just returned, 0 for none
          woken           \* a signal arrived inside poll

poll_vars == <<timeout, fds, polled_at, polledTag>>
table == <<sources, last_tag, quit_requested>>
loop == <<phase, i, now, poll_vars, reaped>>
env == <<clock, child, woken>>
vars == <<table, loop, cb, env>>
-----------------------------------------------------------------------------
Slots == 1..NSOURCES
Revents == SUBSET {"IN", "OUT"}
NotPolled == {"NOT_POLLED"}
Types == {"NONE", "TIMEOUT", "IO", "CHILD", "QUIT", "REMOVED"}
Phases == {"start", "top", "timers", "poll", "io", "wait", "quit", "done"}

\* An all-zero slot (sys_source_clear).  id is the descriptor or the pid; poll says
\* that sys_io_poll made it, out that it has a write handler and asks for POLLOUT.
ClearSource == [tag |-> 0, type |-> "NONE", id |-> 0, poll |-> FALSE, out |-> FALSE,
                delay |-> 0, t |-> 0]

NoCall == [slot |-> 0, fn |-> "none", rev |-> {}]

\* The first slot of S, as every scan of the table finds it.
First(S) == CHOOSE s \in S : \A r \in S : s <= r

\* A source whose handler may still be called.
Live(src) == src.type \notin {"NONE", "REMOVED"}

FreeSlots == {s \in Slots : sources[s].tag = 0}

\* sys_retrieve and sys_retrieve_fd: the slots they look for.  (A name with a suffix, as
\* FdSlots_AnyType, is here and below a plausible wrong version of the definition that
\* follows it; the specification does not use it.)
TagSlots(tag) == {s \in Slots : sources[s].tag = tag}
FdSlots_AnyType(fd) == {s \in Slots : sources[s].id = fd /\ sources[s].type \in {"IO", "REMOVED"}}
FdSlots(fd) == {s \in Slots : sources[s].type = "IO" /\ sources[s].id = fd}

Init ==
  /\ sources = [s \in Slots |-> ClearSource]
  /\ last_tag = 0 /\ quit_requested = FALSE
  /\ phase = "start" /\ i = 1 /\ cb = NoCall
  /\ now = 0 /\ timeout = -1 /\ polled_at = 0
  /\ fds = [s \in Slots |-> NotPolled] /\ polledTag = [s \in Slots |-> 0]
  /\ clock = 0 /\ child = [p \in Pids |-> "none"] /\ reaped = 0 /\ woken = FALSE
-----------------------------------------------------------------------------
(* The API, called before sys_run or from a handler.                       *)

InProgram == phase = "start" \/ cb.slot # 0

\* sys_source_add: the first free slot takes the next tag.  With no free slot the
\* caller gets tag 0 and nothing changes, which is a stuttering step.
SourceAdd(src) ==
  /\ FreeSlots # {} /\ last_tag < MaxTag
  /\ last_tag' = last_tag + 1
  /\ sources' = [sources EXCEPT ![First(FreeSlots)] = [src EXCEPT !.tag = last_tag']]
  /\ UNCHANGED quit_requested

SysTimeout(d) ==
  /\ InProgram
  /\ SourceAdd([ClearSource EXCEPT !.type = "TIMEOUT", !.delay = d, !.t = clock + d])
  /\ UNCHANGED <<loop, cb, env>>

\* sys_io_watch (poll = FALSE) and sys_io_poll (poll = TRUE): a descriptor that is
\* watched already keeps its slot, its tag and its handler, and forgets its events.
SysIoSource(fd, poll) ==
  /\ InProgram
  /\ LET src == [ClearSource EXCEPT !.type = "IO", !.id = fd, !.poll = poll]
         old == First(FdSlots(fd))
     IN IF FdSlots(fd) # {}
        THEN /\ sources' = [sources EXCEPT ![old] = [src EXCEPT !.tag = sources[old].tag]]
             /\ cb' = IF old = cb.slot THEN [cb EXCEPT !.rev = {}] ELSE cb
             /\ UNCHANGED <<last_tag, quit_requested>>
        ELSE SourceAdd(src) /\ UNCHANGED cb
  /\ UNCHANGED <<loop, env>>

\* sys_io_write_handler: ask for POLLOUT, or stop asking.
SysIoWriteHandler(s, on) ==
  /\ InProgram
  /\ sources[s].type = "IO" /\ ~sources[s].poll
  /\ sources' = [sources EXCEPT ![s].out = on]
  /\ UNCHANGED <<last_tag, quit_requested, loop, cb, env>>

\* fork, then sys_child_watch on the new pid before the loop goes on (proc.c).  With no free
\* slot it gets tag 0: the child runs, and nobody will be told of its death.
SysChildWatch(p) ==
  /\ InProgram
  /\ child[p] = "none"
  /\ child' = [child EXCEPT ![p] = "running"]
  /\ \/ SourceAdd([ClearSource EXCEPT !.type = "CHILD", !.id = p])
     \/ FreeSlots = {} /\ UNCHANGED table
  /\ UNCHANGED <<loop, cb, clock, woken>>

SysQuitHandler ==
  /\ InProgram /\ phase # "quit"
  /\ SourceAdd([ClearSource EXCEPT !.type = "QUIT"])
  /\ UNCHANGED <<loop, cb, env>>

\* sys_remove and sys_remove_fd: the slot is only marked, it is not free yet.
RemovedSource_FreedAtOnce(src) == ClearSource
RemovedSource(src) == [src EXCEPT !.type = "REMOVED", !.out = FALSE]

SysRemove(tag) ==
  /\ InProgram
  /\ tag > 0 /\ TagSlots(tag) # {}
  /\ sources' = [sources EXCEPT ![First(TagSlots(tag))] = RemovedSource(@)]
  /\ UNCHANGED <<last_tag, quit_requested, loop, cb, env>>

\* Only ws_io.c calls it, on sources sys_io_poll made.
SysRemoveFd(fd) ==
  /\ InProgram
  /\ FdSlots(fd) # {} /\ sources[First(FdSlots(fd))].poll
  /\ sources' = [sources EXCEPT ![First(FdSlots(fd))] = RemovedSource(@)]
  /\ UNCHANGED <<last_tag, quit_requested, loop, cb, env>>

\* sys_quit, and sys_quit_signal: the signal may arrive at any point.
SysQuit ==
  /\ ~quit_requested
  /\ quit_requested' = TRUE
  /\ woken' = (woken \/ phase = "poll")
  /\ UNCHANGED <<sources, last_tag, loop, cb, clock, child>>
-----------------------------------------------------------------------------
(* Calling a handler: sys_callback.                                        *)

CallHandler(s, fn, rev) == cb' = [slot |-> s, fn |-> fn, rev |-> rev]

Cleared(tbl, s) == [tbl EXCEPT ![s] = ClearSource]

\* The source ends when its handler says so; the read handler of a stream has to
\* return 0 for that (any other value becomes 1), its write handler cannot.
Ends(ret) == \/ cb.fn = "func" /\ ret <= 0
             \/ cb.fn = "stream" /\ ret = 0

\* A timer whose handler wants more is armed again from the top of the iteration.
Rearmed_Relative(src) == [src EXCEPT !.t = src.delay - now]
Rearmed(src) == [src EXCEPT !.t = now + src.delay]

\* The table once the handler of slot s returned ret.  A write handler with nothing
\* left to write stops POLLOUT.
AfterReturn(s, ret) ==
  CASE Ends(ret) -> Cleared(sources, s)
    [] cb.fn = "func" /\ ret > 0 /\ sources[s].type = "TIMEOUT" ->
         [sources EXCEPT ![s] = Rearmed(@)]
    [] cb.fn = "wfunc" /\ ret = 0 -> [sources EXCEPT ![s].out = FALSE]
    [] OTHER -> sources

\* sys_waitpid and the final loop of sys_run clear the slot whatever ret is.
ClearsAlways == phase \in {"wait", "quit"}

\* A stream descriptor with POLLOUT goes on to its write handler.
WritesNext(s, ret) == /\ cb.fn = "stream" /\ ret # 0
                      /\ "OUT" \in cb.rev /\ sources[s].out

HandlerReturn(ret) ==
  LET s == cb.slot IN
  /\ s # 0
  /\ IF WritesNext(s, ret)
     THEN CallHandler(s, "wfunc", {}) /\ UNCHANGED <<table, loop>>
     ELSE /\ cb' = NoCall
          /\ sources' = IF ClearsAlways THEN Cleared(sources, s) ELSE AfterReturn(s, ret)
          /\ i' = s + 1
          /\ UNCHANGED <<last_tag, quit_requested, phase, now, poll_vars, reaped>>
  /\ UNCHANGED env
-----------------------------------------------------------------------------
(* sys_run                                                                 *)

Start == /\ phase = "start"
         /\ phase' = "top"
         /\ UNCHANGED <<table, i, cb, now, poll_vars, reaped, env>>

\* while (quit_requested == 0) { now = sys_now(); ...
LoopTop ==
  /\ phase = "top"
  /\ IF quit_requested THEN phase' = "quit" /\ UNCHANGED now
                       ELSE phase' = "timers" /\ now' = clock
  /\ i' = 1 /\ timeout' = -1 /\ polled_at' = 0
  /\ fds' = [s \in Slots |-> NotPolled] /\ polledTag' = [s \in Slots |-> 0]
  /\ UNCHANGED <<table, cb, reaped, env>>

\* Timers at or after slot i that are due.
DueSlots_Strictly == {s \in i..NSOURCES : sources[s].type = "TIMEOUT" /\ sources[s].t < now}
DueSlots == {s \in i..NSOURCES : sources[s].type = "TIMEOUT" /\ sources[s].t <= now}

TimerCall ==
  /\ phase = "timers" /\ cb.slot = 0 /\ DueSlots # {}
  /\ CallHandler(First(DueSlots), "func", {})
  /\ UNCHANGED <<table, loop, env>>

\* Poll set-up: the nearest timer in the future, the descriptors, and the removed
\* slots, which only now become free.
Ahead == {sources[s].t - now : s \in {r \in Slots : sources[r].type = "TIMEOUT" /\ sources[r].t > now}}
PollTimeout_FirstTimerOnly ==
  LET S == {r \in Slots : sources[r].type = "TIMEOUT" /\ sources[r].t > now}
  IN IF S = {} THEN -1 ELSE sources[First(S)].t - now
PollTimeout == IF Ahead = {} THEN -1 ELSE CHOOSE dt \in Ahead : \A d \in Ahead : dt <= d

PollSetup ==
  /\ phase = "timers" /\ cb.slot = 0 /\ DueSlots = {}
  /\ phase' = "poll"
  /\ timeout' = PollTimeout /\ polled_at' = clock /\ i' = 1
  /\ fds' = [s \in Slots |-> IF sources[s].type = "IO" THEN {} ELSE NotPolled]
  /\ polledTag' = [s \in Slots |-> IF sources[s].type = "IO" THEN sources[s].tag ELSE 0]
  /\ sources' = [s \in Slots |-> IF sources[s].type = "REMOVED" THEN ClearSource ELSE sources[s]]
  /\ UNCHANGED <<last_tag, quit_requested, cb, now, reaped, env>>

Polled == {s \in Slots : fds[s] # NotPolled}

\* poll returns a positive count: any answer with an event in it.
Answers == {a \in [Slots -> Revents \cup {NotPolled}] :
              /\ \A s \in Slots : IF s \in Polled THEN a[s] \in Revents /\ ("OUT" \in a[s] => sources[s].out)
                                  ELSE a[s] = NotPolled
              /\ \E s \in Polled : a[s] # {}}

PollEvents ==
  /\ phase = "poll"
  /\ fds' \in Answers
  /\ phase' = "io" /\ woken' = FALSE
  /\ UNCHANGED <<table, i, cb, now, timeout, polled_at, polledTag, reaped, clock, child>>

\* The timeout ran out (at MaxClock every timeout has), or a signal made poll fail
\* with EINTR.
TimeIsUp == timeout >= 0 /\ (clock >= polled_at + timeout \/ clock = MaxClock)

PollNothing ==
  /\ phase = "poll"
  /\ woken \/ TimeIsUp
  /\ phase' = "wait" /\ woken' = FALSE
  /\ UNCHANGED <<table, i, cb, now, poll_vars, reaped, clock, child>>

\* Descriptors at or after slot i with events of this poll.
IoSlots == {s \in i..NSOURCES : sources[s].type = "IO" /\ fds[s] \notin {NotPolled, {}}}

\* A stream with only POLLOUT goes straight to its write handler, if it has one.
IoDispatch ==
  /\ phase = "io" /\ cb.slot = 0 /\ IoSlots # {}
  /\ LET s == First(IoSlots)
         src == sources[s]
     IN \/ src.poll /\ CallHandler(s, "func", {}) /\ UNCHANGED i
        \/ ~src.poll /\ "IN" \in fds[s] /\ CallHandler(s, "stream", fds[s]) /\ UNCHANGED i
        \/ ~src.poll /\ "IN" \notin fds[s] /\ src.out /\ CallHandler(s, "wfunc", {}) /\ UNCHANGED i
        \/ ~src.poll /\ "IN" \notin fds[s] /\ ~src.out /\ i' = s + 1 /\ UNCHANGED cb
  /\ UNCHANGED <<table, phase, now, poll_vars, reaped, env>>

IoDone_Continue == /\ phase = "io" /\ cb.slot = 0 /\ IoSlots = {}
                   /\ phase' = "top" /\ i' = 1
                   /\ UNCHANGED <<table, cb, now, poll_vars, reaped, env>>
IoDone == /\ phase = "io" /\ cb.slot = 0 /\ IoSlots = {}
          /\ phase' = "wait" /\ i' = 1
          /\ UNCHANGED <<table, cb, now, poll_vars, reaped, env>>

\* sys_waitpid: each child that exited, then each source that watches it.
Zombies == {p \in Pids : child[p] = "zombie"}
ChildSlots == {s \in i..NSOURCES : sources[s].type = "CHILD" /\ sources[s].id = reaped}

WaitPid ==
  /\ phase = "wait" /\ reaped = 0
  /\ \E p \in Zombies : reaped' = p /\ child' = [child EXCEPT ![p] = "gone"]
  /\ UNCHANGED <<table, phase, i, cb, now, poll_vars, clock, woken>>

ChildCall ==
  /\ phase = "wait" /\ reaped # 0 /\ cb.slot = 0 /\ ChildSlots # {}
  /\ CallHandler(First(ChildSlots), "func", {})
  /\ UNCHANGED <<table, loop, env>>

ChildDone == /\ phase = "wait" /\ reaped # 0 /\ cb.slot = 0 /\ ChildSlots = {}
             /\ reaped' = 0 /\ i' = 1
             /\ UNCHANGED <<table, phase, cb, now, poll_vars, env>>

WaitDone == /\ phase = "wait" /\ reaped = 0 /\ Zombies = {}
            /\ phase' = "top"
            /\ UNCHANGED <<table, i, cb, now, poll_vars, reaped, env>>

QuitSlots == {s \in i..NSOURCES : sources[s].type = "QUIT"}

QuitCall == /\ phase = "quit" /\ cb.slot = 0 /\ QuitSlots # {}
            /\ CallHandler(First(QuitSlots), "func", {})
            /\ UNCHANGED <<table, loop, env>>

QuitDone == /\ phase = "quit" /\ cb.slot = 0 /\ QuitSlots = {}
            /\ phase' = "done"
            /\ UNCHANGED <<table, i, cb, now, poll_vars, reaped, env>>

\* Time passes in poll and while handlers run.
Tick == /\ clock < MaxClock /\ phase # "done"
        /\ clock' = clock + 1
        /\ UNCHANGED <<table, loop, cb, child, woken>>

\* A child exits.  SIGCHLD (sys_sigchld) does nothing but interrupt poll.
ChildExit(p) ==
  /\ child[p] = "running"
  /\ child' = [child EXCEPT ![p] = "zombie"]
  /\ woken' = (woken \/ phase = "poll")
  /\ UNCHANGED <<table, loop, cb, clock>>
-----------------------------------------------------------------------------
LoopStep == \/ Start \/ LoopTop \/ TimerCall \/ PollSetup \/ PollNothing
            \/ IoDispatch \/ IoDone \/ WaitPid \/ ChildCall \/ ChildDone \/ WaitDone
            \/ QuitCall \/ QuitDone

Returns == \E ret \in {-1, 0, 1} : HandlerReturn(ret)

Api == \/ \E d \in Delays : SysTimeout(d)
       \/ \E fd \in Fds, poll \in BOOLEAN : SysIoSource(fd, poll)
       \/ \E s \in Slots, on \in BOOLEAN : SysIoWriteHandler(s, on)
       \/ \E p \in Pids : SysChildWatch(p)
       \/ SysQuitHandler
       \/ \E k \in 1..MaxTag : SysRemove(k)
       \/ \E fd \in Fds : SysRemoveFd(fd)

Next == LoopStep \/ PollEvents \/ Returns \/ Api \/ SysQuit \/ Tick \/ (\E p \in Pids : ChildExit(p))

Spec == Init /\ [][Next]_vars

\* The loop is never preempted for good, every handler returns and time goes on.
Fairness == WF_vars(LoopStep) /\ WF_vars(Returns) /\ WF_vars(Tick)

FairSpec == Spec /\ Fairness
-----------------------------------------------------------------------------
(* Properties                                                              *)

Source == [tag : 0..MaxTag, type : Types, id : Nat, poll : BOOLEAN, out : BOOLEAN,
           delay : Nat, t : Nat]

TypeOK ==
  /\ sources \in [Slots -> Source]
  /\ last_tag \in 0..MaxTag /\ quit_requested \in BOOLEAN
  /\ phase \in Phases /\ i \in 1..NSOURCES+1
  /\ cb \in [slot : 0..NSOURCES, fn : {"none", "func", "stream", "wfunc"}, rev : Revents]
  /\ now \in 0..MaxClock /\ timeout \in Int /\ polled_at \in 0..MaxClock
  /\ fds \in [Slots -> Revents \cup {NotPolled}]
  /\ polledTag \in [Slots -> 0..MaxTag]
  /\ clock \in 0..MaxClock
  /\ child \in [Pids -> {"none", "running", "zombie", "gone"}]
  /\ reaped \in Pids \cup {0} /\ woken \in BOOLEAN

\* Events go only to the source poll was asked about: while the answers of poll are
\* dispatched, handlers remove and register sources, yet no slot still to be visited
\* pairs an answer with another registration (this is what SYS_TYPE_REMOVED is for).
FreshRevents ==
  phase = "io" => \A s \in i..NSOURCES :
                    sources[s].type = "IO" /\ fds[s] # NotPolled => sources[s].tag = polledTag[s]

\* The loop never sleeps over a timer: whatever the handlers armed, removed and armed
\* again, poll's timeout reaches no further than any armed timer.  Not so for a delay
\* of 0 armed by a timer handler in a slot the scan has passed.
PollCoversTimers ==
  phase = "poll" => \A s \in Slots :
    sources[s].type = "TIMEOUT" /\ sources[s].delay > 0 => timeout >= 0 /\ now + timeout <= sources[s].t

\* The loop keeps the promise of SysSources: sources are called only while live, one at a
\* time, and a removed or ended source never comes back under its tag.
Registry == INSTANCE SysSources WITH live <- {sources[s].tag : s \in {r \in Slots : Live(sources[r])}},
                                     last <- last_tag,
                                     calling <- IF cb.slot = 0 THEN 0 ELSE sources[cb.slot].tag
RegistryKept == Registry!Spec

\* An armed timer fires (or is removed) once its time has come, whatever else the loop does.
Armed(k, at) == \E s \in Slots : /\ sources[s].type = "TIMEOUT" /\ sources[s].tag = k
                                 /\ sources[s].delay > 0 /\ sources[s].t = at
TimerFires == \A k \in 1..MaxTag, at \in 1..MaxClock :
                Armed(k, at) ~> (~Armed(k, at) \/ quit_requested)

\* As long as poll keeps returning, a child that exited is waited for.
ChildReaped == []<>(phase # "poll") =>
                 \A p \in Pids : (child[p] = "zombie") ~> (child[p] # "zombie" \/ quit_requested)
=============================================================================
