--------------------------- MODULE SysLoopProofs ---------------------------
(***************************************************************************)
(* Theorems about the event loop, for every size of the table, every set   *)
(* of descriptors, children and delays.                                    *)
(***************************************************************************)
EXTENDS SysLoop, FiniteSetTheorems, WellFoundedInduction, TLAPS

\* A set of naturals that is not empty has a least element.
LEMMA LeastNat == ASSUME NEW S \in SUBSET Nat, S # {}
                  PROVE  \E m \in S : \A n \in S : m <= n
<1> DEFINE R == {ss \in Nat \X Nat : ss[1] < ss[2]}
<1>1. IsWellFoundedOn(R, Nat)
  BY NatLessThanWellFounded DEF OpToRel
<1>2. \A m, n \in Nat : ~(<<n, m>> \in R) => m <= n
  OBVIOUS
<1> HIDE DEF R
<1>3. PICK m \in S : \A n \in S : ~(<<n, m>> \in R)
  BY <1>1, WFMin
<1>4. QED BY <1>2, <1>3

\* The scans of the table find the first slot there is.
LEMMA FirstIsLeast == ASSUME NEW S \in SUBSET Nat, S # {}
                      PROVE  First(S) \in S /\ \A r \in S : First(S) <= r
BY LeastNat DEF First
-----------------------------------------------------------------------------
(* Type correctness.                                                       *)

LEMMA SlotsAreNat == Slots \subseteq Nat /\ \A s \in Slots : s \in 1..NSOURCES
BY SysAssumption DEF Slots

LEMMA FirstSlot == ASSUME NEW S \in SUBSET Slots, S # {}
                   PROVE  First(S) \in S /\ First(S) \in Slots /\ \A r \in S : First(S) <= r
BY FirstIsLeast, SlotsAreNat

\* What sys_source_add leaves: one more tag, in a slot that was free.
LEMMA AddType == ASSUME TypeOK, NEW src \in Source, SourceAdd(src)
                 PROVE  /\ sources' \in [Slots -> Source]
                        /\ last_tag' \in 0..MaxTag /\ quit_requested' \in BOOLEAN
<1>1. First(FreeSlots) \in Slots
  BY FirstSlot DEF SourceAdd, FreeSlots
<1>2. last_tag' \in 0..MaxTag /\ last_tag' \in Nat
  BY SysAssumption DEF SourceAdd, TypeOK
<1>3. [src EXCEPT !.tag = last_tag'] \in Source
  BY <1>2 DEF Source
<1>4. QED BY <1>1, <1>2, <1>3 DEF SourceAdd, TypeOK

LEMMA ClearType == ClearSource \in Source
BY SysAssumption DEF ClearSource, Source, Types

\* The timeout of poll is the distance to a timer, so a natural number, or -1.
LEMMA PollTimeoutType ==
  ASSUME TypeOK
  PROVE  /\ PollTimeout \in Int
         /\ \A dt \in Ahead : PollTimeout >= 0 /\ PollTimeout <= dt
<1>1. Ahead \in SUBSET Nat
  BY SysAssumption DEF Ahead, TypeOK, Source
<1>2. CASE Ahead = {}
  BY <1>2 DEF PollTimeout
<1>3. CASE Ahead # {}
  <2>1. PollTimeout = CHOOSE dt \in Ahead : \A d \in Ahead : dt <= d
    BY <1>3 DEF PollTimeout
  <2>2. PollTimeout \in Ahead /\ \A d \in Ahead : PollTimeout <= d
    BY <1>1, <1>3, <2>1, LeastNat
  <2>3. QED BY <1>1, <2>2
<1>4. QED BY <1>2, <1>3
LEMMA TypeApi == TypeOK /\ Api => TypeOK'
<1> SUFFICES ASSUME TypeOK, Api PROVE TypeOK'
  OBVIOUS
<1> USE SysAssumption, ClearType DEF loop, poll_vars, env
<1>1. ASSUME NEW d \in Delays, SysTimeout(d) PROVE TypeOK'
  <2>1. d \in Nat /\ clock + d \in Nat
    BY DEF TypeOK
  <2>2. [ClearSource EXCEPT !.type = "TIMEOUT", !.delay = d, !.t = clock + d] \in Source
    BY <2>1 DEF Source, Types
  <2>3. QED BY <1>1, <2>2, AddType DEF SysTimeout, TypeOK
<1>2. ASSUME NEW fd \in Fds, NEW poll \in BOOLEAN, SysIoSource(fd, poll) PROVE TypeOK'
  <2> DEFINE src == [ClearSource EXCEPT !.type = "IO", !.id = fd, !.poll = poll]
             old == First(FdSlots(fd))
  <2>1. src \in Source
    BY DEF Source, Types
  <2>2. CASE FdSlots(fd) = {}
    BY <1>2, <2>1, <2>2, AddType DEF SysIoSource, TypeOK
  <2>3. CASE FdSlots(fd) # {}
    <3>1. old \in Slots
      BY <2>3, FirstSlot DEF FdSlots
    <3>2. [src EXCEPT !.tag = sources[old].tag] \in Source
      BY <2>1, <3>1 DEF TypeOK, Source
    <3>3. sources' = [sources EXCEPT ![old] = [src EXCEPT !.tag = sources[old].tag]]
      BY <1>2, <2>3 DEF SysIoSource
    <3>4. cb' \in [slot : 0..NSOURCES, fn : {"none", "func", "stream", "wfunc"}, rev : Revents]
      BY <1>2, <2>3 DEF SysIoSource, TypeOK, Revents
    <3>5. sources' \in [Slots -> Source]
      BY <3>2, <3>3 DEF TypeOK
    <3>6. QED BY <1>2, <2>3, <3>4, <3>5 DEF SysIoSource, TypeOK
  <2>4. QED BY <2>2, <2>3
<1>3. ASSUME NEW s \in Slots, NEW on \in BOOLEAN, SysIoWriteHandler(s, on) PROVE TypeOK'
  <2>1. [sources[s] EXCEPT !.out = on] \in Source
    BY DEF TypeOK, Source
  <2>2. sources' = [sources EXCEPT ![s] = [sources[s] EXCEPT !.out = on]]
    BY <1>3 DEF SysIoWriteHandler, TypeOK
  <2>3. QED BY <1>3, <2>1, <2>2 DEF SysIoWriteHandler, TypeOK
<1>4. ASSUME NEW p \in Pids, SysChildWatch(p) PROVE TypeOK'
  <2>1. [ClearSource EXCEPT !.type = "CHILD", !.id = p] \in Source
    BY DEF Source, Types
  <2>2. CASE UNCHANGED table
    BY <1>4, <2>2 DEF SysChildWatch, TypeOK, table
  <2>3. CASE SourceAdd([ClearSource EXCEPT !.type = "CHILD", !.id = p])
    BY <1>4, <2>1, <2>3, AddType DEF SysChildWatch, TypeOK
  <2>4. QED BY <1>4, <2>2, <2>3 DEF SysChildWatch
<1>5. ASSUME SysQuitHandler PROVE TypeOK'
  <2>1. [ClearSource EXCEPT !.type = "QUIT"] \in Source
    BY DEF Source, Types
  <2>2. QED BY <1>5, <2>1, AddType DEF SysQuitHandler, TypeOK
<1>6. ASSUME NEW src \in Source PROVE RemovedSource(src) \in Source
  BY DEF RemovedSource, Source, Types
<1>7. ASSUME NEW k \in 1..MaxTag, SysRemove(k) PROVE TypeOK'
  <2>1. First(TagSlots(k)) \in Slots
    BY <1>7, FirstSlot DEF SysRemove, TagSlots
  <2>2. QED BY <1>6, <1>7, <2>1 DEF SysRemove, TypeOK
<1>8. ASSUME NEW fd \in Fds, SysRemoveFd(fd) PROVE TypeOK'
  <2>1. First(FdSlots(fd)) \in Slots
    BY <1>8, FirstSlot DEF SysRemoveFd, FdSlots
  <2>2. QED BY <1>6, <1>8, <2>1 DEF SysRemoveFd, TypeOK
<1>9. QED BY <1>1, <1>2, <1>3, <1>4, <1>5, <1>7, <1>8 DEF Api

LEMMA TypeReturns == TypeOK /\ Returns => TypeOK'
<1> SUFFICES ASSUME TypeOK, NEW ret \in {-1, 0, 1}, HandlerReturn(ret) PROVE TypeOK'
  BY DEF Returns
<1> USE SysAssumption, ClearType DEF loop, poll_vars, env, table
<1>1. CASE WritesNext(cb.slot, ret)
  <2>1. cb' \in [slot : 0..NSOURCES, fn : {"none", "func", "stream", "wfunc"}, rev : Revents]
    BY <1>1 DEF HandlerReturn, CallHandler, TypeOK, Revents
  <2>2. QED BY <1>1, <2>1 DEF HandlerReturn, TypeOK
<1>2. CASE ~WritesNext(cb.slot, ret)
  <2>1. cb.slot \in Slots /\ cb.slot + 1 \in 1..NSOURCES+1
    BY SMTT(30) DEF HandlerReturn, TypeOK, Slots
  <2>2. Cleared(sources, cb.slot) \in [Slots -> Source]
    BY <2>1 DEF Cleared, TypeOK
  <2>3. Rearmed(sources[cb.slot]) \in Source
    BY <2>1 DEF Rearmed, TypeOK, Source
  <2>4. [sources[cb.slot] EXCEPT !.out = FALSE] \in Source
    BY <2>1 DEF TypeOK, Source
  <2>5. AfterReturn(cb.slot, ret) \in [Slots -> Source]
    BY <2>1, <2>2, <2>3, <2>4 DEF AfterReturn, TypeOK
  <2>6. NoCall \in [slot : 0..NSOURCES, fn : {"none", "func", "stream", "wfunc"}, rev : Revents]
    BY DEF NoCall, Revents
  <2>7. sources' \in [Slots -> Source]
    BY <1>2, <2>2, <2>5 DEF HandlerReturn
  <2>8. i' = cb.slot + 1 /\ cb' = NoCall
    BY <1>2 DEF HandlerReturn
  <2>9. QED BY <1>2, <2>1, <2>6, <2>7, <2>8 DEF HandlerReturn, TypeOK
<1>3. QED BY <1>1, <1>2
LEMMA TypeCall == ASSUME TypeOK, NEW s \in Slots, NEW rev \in Revents,
                         NEW fn \in {"func", "stream", "wfunc"}, CallHandler(s, fn, rev)
                  PROVE  cb' \in [slot : 0..NSOURCES, fn : {"none", "func", "stream", "wfunc"}, rev : Revents]
BY SysAssumption DEF CallHandler, Slots

LEMMA TypeLoop == TypeOK /\ LoopStep => TypeOK'
<1> SUFFICES ASSUME TypeOK, LoopStep PROVE TypeOK'
  OBVIOUS
<1> USE SysAssumption DEF loop, poll_vars, env, table
<1>a. {} \in Revents /\ 1 \in 1..NSOURCES+1
  BY DEF Revents
<1>b. \A s \in i..NSOURCES : s \in Slots /\ s + 1 \in 1..NSOURCES+1
  BY DEF TypeOK, Slots
<1>1. CASE Start
  BY <1>1 DEF Start, TypeOK, Phases
<1>2. CASE LoopTop
  BY <1>2, <1>a DEF LoopTop, TypeOK, Phases
<1>3. CASE TimerCall
  <2>1. First(DueSlots) \in Slots
    BY <1>3, <1>b, FirstSlot DEF TimerCall, DueSlots
  <2>2. QED BY <1>3, <1>a, <2>1, TypeCall DEF TimerCall, TypeOK
<1>4. CASE PollSetup
  <2>1. timeout' \in Int
    BY <1>4, PollTimeoutType DEF PollSetup
  <2>2. sources' \in [Slots -> Source]
    BY <1>4, ClearType DEF PollSetup, TypeOK
  <2>3. fds' \in [Slots -> Revents \cup {NotPolled}]
    BY <1>4, <1>a DEF PollSetup, TypeOK
  <2>4. ASSUME NEW s \in Slots, sources[s].type = "IO" PROVE sources[s].tag \in 0..MaxTag
    BY <2>4 DEF TypeOK, Source
  <2>5. polledTag' \in [Slots -> 0..MaxTag]
    BY <1>4, <2>4 DEF PollSetup
  <2>6. QED BY <1>4, <1>a, <2>1, <2>2, <2>3, <2>5 DEF PollSetup, TypeOK, Phases
<1>5. CASE PollNothing
  BY <1>5 DEF PollNothing, TypeOK, Phases
<1>6. CASE IoDispatch
  <2> DEFINE s == First(IoSlots)
  <2>1. s \in IoSlots
    BY <1>6, <1>b, FirstSlot DEF IoDispatch, IoSlots
  <2>2. s \in Slots /\ s + 1 \in 1..NSOURCES+1 /\ fds[s] \in Revents
    BY <1>b, <2>1 DEF IoSlots, TypeOK
  <2>3. CASE sources[s].poll
    <3>1. CallHandler(s, "func", {}) /\ UNCHANGED i
      BY <1>6, <2>3 DEF IoDispatch
    <3>2. QED BY <1>6, <1>a, <2>2, <3>1, TypeCall DEF IoDispatch, TypeOK
  <2>4. CASE ~sources[s].poll /\ "IN" \in fds[s]
    <3>1. CallHandler(s, "stream", fds[s]) /\ UNCHANGED i
      BY <1>6, <2>4 DEF IoDispatch
    <3>2. QED BY <1>6, <2>2, <3>1, TypeCall DEF IoDispatch, TypeOK
  <2>5. CASE ~sources[s].poll /\ "IN" \notin fds[s] /\ sources[s].out
    <3>1. CallHandler(s, "wfunc", {}) /\ UNCHANGED i
      BY <1>6, <2>5 DEF IoDispatch
    <3>2. QED BY <1>6, <1>a, <2>2, <3>1, TypeCall DEF IoDispatch, TypeOK
  <2>6. CASE ~sources[s].poll /\ "IN" \notin fds[s] /\ ~sources[s].out
    <3>1. i' = s + 1 /\ UNCHANGED cb
      BY <1>6, <2>6 DEF IoDispatch
    <3>2. QED BY <1>6, <2>2, <3>1 DEF IoDispatch, TypeOK
  <2>7. QED BY <2>3, <2>4, <2>5, <2>6
<1>7. CASE IoDone
  BY <1>7, <1>a DEF IoDone, TypeOK, Phases
<1>8. CASE WaitPid
  BY <1>8 DEF WaitPid, Zombies, TypeOK
<1>9. CASE ChildCall
  <2>1. First(ChildSlots) \in Slots
    BY <1>9, <1>b, FirstSlot DEF ChildCall, ChildSlots
  <2>2. QED BY <1>9, <1>a, <2>1, TypeCall DEF ChildCall, TypeOK
<1>10. CASE ChildDone
  BY <1>10, <1>a DEF ChildDone, TypeOK
<1>11. CASE WaitDone
  BY <1>11 DEF WaitDone, TypeOK, Phases
<1>12. CASE QuitCall
  <2>1. First(QuitSlots) \in Slots
    BY <1>12, <1>b, FirstSlot DEF QuitCall, QuitSlots
  <2>2. QED BY <1>12, <1>a, <2>1, TypeCall DEF QuitCall, TypeOK
<1>13. CASE QuitDone
  BY <1>13 DEF QuitDone, TypeOK, Phases
<1>14. QED BY <1>1, <1>2, <1>3, <1>4, <1>5, <1>6, <1>7, <1>8, <1>9, <1>10, <1>11, <1>12,
              <1>13 DEF LoopStep

LEMMA TypeEnv == TypeOK /\ (PollEvents \/ SysQuit \/ Tick \/ \E p \in Pids : ChildExit(p)) => TypeOK'
<1> USE SysAssumption DEF loop, poll_vars, env, table
<1>1. ASSUME TypeOK, PollEvents PROVE TypeOK'
  <2>1. fds' \in [Slots -> Revents \cup {NotPolled}]
    BY <1>1 DEF PollEvents, Answers
  <2>2. QED BY <1>1, <2>1 DEF PollEvents, TypeOK, Phases
<1>2. ASSUME TypeOK, SysQuit PROVE TypeOK'
  BY <1>2 DEF SysQuit, TypeOK
<1>3. ASSUME TypeOK, Tick PROVE TypeOK'
  BY <1>3 DEF Tick, TypeOK
<1>4. ASSUME TypeOK, NEW p \in Pids, ChildExit(p) PROVE TypeOK'
  BY <1>4 DEF ChildExit, TypeOK
<1>5. QED BY <1>1, <1>2, <1>3, <1>4

LEMMA TypeInit == Init => TypeOK
<1> SUFFICES ASSUME Init PROVE TypeOK
  OBVIOUS
<1>1. NoCall \in [slot : 0..NSOURCES, fn : {"none", "func", "stream", "wfunc"}, rev : Revents]
  BY SysAssumption DEF NoCall, Revents
<1>2. sources \in [Slots -> Source] /\ fds \in [Slots -> Revents \cup {NotPolled}]
  BY ClearType DEF Init
<1>3. polledTag \in [Slots -> 0..MaxTag] /\ last_tag \in 0..MaxTag
  BY SysAssumption DEF Init
<1>4. i \in 1..NSOURCES+1 /\ now \in 0..MaxClock /\ polled_at \in 0..MaxClock /\ clock \in 0..MaxClock
  BY SysAssumption DEF Init
<1>5. child \in [Pids -> {"none", "running", "zombie", "gone"}] /\ reaped \in Pids \cup {0}
  BY DEF Init
<1>6. quit_requested \in BOOLEAN /\ woken \in BOOLEAN
  BY Zenon DEF Init
<1>7. cb \in [slot : 0..NSOURCES, fn : {"none", "func", "stream", "wfunc"}, rev : Revents]
  BY <1>1 DEF Init
<1>8. timeout \in Int
  BY DEF Init
<1>9. phase \in Phases
  BY DEF Init, Phases
<1>10. QED BY <1>2, <1>3, <1>4, <1>5, <1>6, <1>7, <1>8, <1>9 DEF TypeOK

\* The variables of the loop keep their types, whatever handlers and children do.
THEOREM TypeCorrect == Spec => []TypeOK
<1>1. Init => TypeOK
  BY TypeInit
<1>2. TypeOK /\ [Next]_vars => TypeOK'
  <2>1. CASE UNCHANGED vars
    BY <2>1 DEF vars, table, loop, poll_vars, env, TypeOK
  <2>2. QED BY <2>1, TypeApi, TypeReturns, TypeLoop, TypeEnv DEF Next
<1>3. QED BY <1>1, <1>2, PTL DEF Spec
-----------------------------------------------------------------------------
(* The inductive invariant behind FreshRevents and PollCoversTimers.       *)

\* A slot in use has a tag, so that sys_source_add leaves it alone.
TableInv == \A s \in Slots : sources[s].type # "NONE" => sources[s].tag # 0

\* Handlers run only while a scan is at their slot; none runs in poll.
ScanInv == /\ cb.slot # 0 => /\ i <= cb.slot
                             /\ phase \in {"timers", "io", "wait", "quit"}
                             /\ sources[cb.slot].type # "NONE"
                             /\ phase = "timers" => cb.fn = "func"
                             /\ phase = "wait" => reaped # 0
           /\ phase = "poll" => i = 1

\* The answers still to be dispatched belong to slots that kept the polled source, even
\* if it was marked as removed meanwhile.
AnswersInv ==
  phase \in {"poll", "io"} =>
    \A s \in i..NSOURCES : fds[s] # NotPolled => sources[s].tag = polledTag[s] /\ polledTag[s] # 0

\* The timers the scan has passed are not due.
TimersInv ==
  phase = "timers" =>
    /\ now <= clock
    /\ \A s \in Slots : /\ s < i \/ s < cb.slot
                        /\ sources[s].type = "TIMEOUT" /\ sources[s].delay > 0
                        => sources[s].t > now

IInv == TypeOK /\ TableInv /\ ScanInv /\ AnswersInv /\ TimersInv /\ PollCoversTimers

\* What the program's calls may do to a slot: use it if it is free, never give it to
\* another source otherwise, and arm timers in the future only (but for delay 0).
KeepsSlot(s) == /\ sources[s].tag # 0 => sources'[s].tag = sources[s].tag
                /\ sources[s].type # "NONE" => sources'[s].type # "NONE"
                /\ sources'[s].type # "NONE" => sources'[s].tag # 0
                /\ sources'[s].type = "TIMEOUT" /\ sources'[s].delay > 0
                     => sources'[s] = sources[s] \/ sources'[s].t > clock

LEMMA AddKeeps ==
  ASSUME TypeOK, TableInv, NEW src \in Source, SourceAdd(src), src.type # "NONE",
         src.type = "TIMEOUT" /\ src.delay > 0 => src.t > clock
  PROVE  \A s \in Slots : KeepsSlot(s)
<1> DEFINE f == First(FreeSlots)
<1>1. f \in Slots /\ sources[f].tag = 0
  BY FirstSlot DEF SourceAdd, FreeSlots
<1>2. sources[f].type = "NONE"
  BY <1>1 DEF TableInv
<1>3. last_tag' # 0 /\ sources' = [sources EXCEPT ![f] = [src EXCEPT !.tag = last_tag']]
  BY SysAssumption DEF SourceAdd, TypeOK
<1>4. sources'[f] = [src EXCEPT !.tag = last_tag'] /\ \A s \in Slots : s # f => sources'[s] = sources[s]
  BY <1>1, <1>3 DEF TypeOK
<1>5. KeepsSlot(f)
  BY <1>1, <1>2, <1>3, <1>4 DEF KeepsSlot, Source
<1>6. ASSUME NEW s \in Slots, s # f PROVE KeepsSlot(s)
  BY <1>4, <1>6 DEF KeepsSlot, TableInv
<1>7. QED BY <1>5, <1>6

LEMMA ApiKeeps ==
  ASSUME TypeOK, TableInv, Api
  PROVE  /\ InProgram
         /\ \A s \in Slots : KeepsSlot(s)
         /\ UNCHANGED <<phase, i, now, timeout, fds, polledTag, clock, reaped>>
         /\ cb'.slot = cb.slot /\ cb'.fn = cb.fn
<1> USE SysAssumption, ClearType DEF loop, poll_vars, env
<1> DEFINE Goal == /\ InProgram
                   /\ \A s \in Slots : KeepsSlot(s)
                   /\ UNCHANGED <<phase, i, now, timeout, fds, polledTag, clock, reaped>>
                   /\ cb'.slot = cb.slot /\ cb'.fn = cb.fn
<1>a. \A s \in Slots : sources'[s] = sources[s] => KeepsSlot(s)
  BY DEF KeepsSlot, TableInv
<1>1. ASSUME NEW d \in Delays, SysTimeout(d) PROVE Goal
  <2> DEFINE src == [ClearSource EXCEPT !.type = "TIMEOUT", !.delay = d, !.t = clock + d]
  <2>1. d \in Nat /\ clock \in Nat /\ clock + d \in Nat
    BY DEF TypeOK
  <2>2. src \in Source /\ src.type = "TIMEOUT" /\ src.delay = d /\ src.t = clock + d
    BY <2>1 DEF Source, Types, ClearSource
  <2>3. SourceAdd(src)
    BY <1>1 DEF SysTimeout
  <2>4. src.type # "NONE"
    BY <2>2
  <2>5. src.type = "TIMEOUT" /\ src.delay > 0 => src.t > clock
    BY <2>1, <2>2
  <2> HIDE DEF src
  <2>6. \A s \in Slots : KeepsSlot(s)
    BY <2>2, <2>3, <2>4, <2>5, AddKeeps
  <2>7. QED BY <1>1, <2>6 DEF SysTimeout
<1>2. ASSUME NEW fd \in Fds, NEW poll \in BOOLEAN, SysIoSource(fd, poll) PROVE Goal
  <2> DEFINE src == [ClearSource EXCEPT !.type = "IO", !.id = fd, !.poll = poll]
             old == First(FdSlots(fd))
  <2>1. src \in Source /\ src.type = "IO"
    BY DEF Source, Types, ClearSource
  <2>2. CASE FdSlots(fd) = {}
    <3>1. \A s \in Slots : KeepsSlot(s)
      BY <1>2, <2>1, <2>2, AddKeeps DEF SysIoSource
    <3>2. QED BY <1>2, <2>2, <3>1 DEF SysIoSource
  <2>3. CASE FdSlots(fd) # {}
    <3>1. old \in Slots /\ sources[old].type = "IO"
      BY <2>3, FirstSlot DEF FdSlots
    <3>2. sources' = [sources EXCEPT ![old] = [src EXCEPT !.tag = sources[old].tag]]
      BY <1>2, <2>3 DEF SysIoSource
    <3>3. sources'[old] = [src EXCEPT !.tag = sources[old].tag]
          /\ \A s \in Slots : s # old => sources'[s] = sources[s]
      BY <3>1, <3>2 DEF TypeOK
    <3>4. sources'[old].tag = sources[old].tag /\ sources'[old].type = "IO"
      BY <2>1, <3>3 DEF Source
    <3>5. KeepsSlot(old)
      BY <3>1, <3>4 DEF KeepsSlot, TableInv
    <3>6. cb'.slot = cb.slot /\ cb'.fn = cb.fn
      BY <1>2, <2>3 DEF SysIoSource, TypeOK
    <3>7. QED BY <1>2, <2>3, <3>3, <3>5, <3>6, <1>a DEF SysIoSource
  <2>4. QED BY <2>2, <2>3
<1>3. ASSUME NEW s \in Slots, NEW on \in BOOLEAN, SysIoWriteHandler(s, on) PROVE Goal
  <2>1. /\ sources'[s] = [sources[s] EXCEPT !.out = on]
        /\ \A r \in Slots : r # s => sources'[r] = sources[r]
    BY <1>3 DEF SysIoWriteHandler, TypeOK
  <2>2. sources'[s].tag = sources[s].tag /\ sources'[s].type = "IO" /\ sources[s].type = "IO"
    BY <1>3, <2>1 DEF SysIoWriteHandler, TypeOK, Source
  <2>3. KeepsSlot(s)
    BY <2>2 DEF KeepsSlot, TableInv
  <2>4. QED BY <1>3, <2>1, <2>3, <1>a DEF SysIoWriteHandler
<1>4. ASSUME NEW p \in Pids, SysChildWatch(p) PROVE Goal
  <2> DEFINE src == [ClearSource EXCEPT !.type = "CHILD", !.id = p]
  <2>1. src \in Source /\ src.type = "CHILD"
    BY DEF Source, Types, ClearSource
  <2>2. CASE UNCHANGED table
    BY <1>4, <2>2, <1>a DEF SysChildWatch, table
  <2>3. CASE SourceAdd(src)
    <3>1. \A s \in Slots : KeepsSlot(s)
      BY <1>4, <2>1, <2>3, AddKeeps DEF SysChildWatch
    <3>2. QED BY <1>4, <3>1 DEF SysChildWatch
  <2>4. QED BY <1>4, <2>2, <2>3 DEF SysChildWatch
<1>5. ASSUME SysQuitHandler PROVE Goal
  <2> DEFINE src == [ClearSource EXCEPT !.type = "QUIT"]
  <2>1. src \in Source /\ src.type = "QUIT"
    BY DEF Source, Types, ClearSource
  <2>2. \A s \in Slots : KeepsSlot(s)
    BY <1>5, <2>1, AddKeeps DEF SysQuitHandler
  <2>3. QED BY <1>5, <2>2 DEF SysQuitHandler
<1>6. ASSUME NEW f \in Slots, sources' = [sources EXCEPT ![f] = RemovedSource(@)], sources[f].tag # 0
      PROVE  \A s \in Slots : KeepsSlot(s)
  <2>1. /\ sources'[f] = RemovedSource(sources[f])
        /\ \A s \in Slots : s # f => sources'[s] = sources[s]
    BY <1>6 DEF TypeOK
  <2>2. sources'[f].tag = sources[f].tag /\ sources'[f].type = "REMOVED"
    BY <2>1 DEF RemovedSource, TypeOK, Source
  <2>3. KeepsSlot(f)
    BY <1>6, <2>2 DEF KeepsSlot
  <2>4. QED BY <2>1, <2>3, <1>a
<1>7. ASSUME NEW k \in 1..MaxTag, SysRemove(k) PROVE Goal
  <2>1. First(TagSlots(k)) \in Slots /\ sources[First(TagSlots(k))].tag # 0
    BY <1>7, FirstSlot DEF SysRemove, TagSlots
  <2>2. QED BY <1>7, <2>1, <1>6 DEF SysRemove
<1>8. ASSUME NEW fd \in Fds, SysRemoveFd(fd) PROVE Goal
  <2>1. First(FdSlots(fd)) \in Slots /\ sources[First(FdSlots(fd))].type = "IO"
    BY <1>8, FirstSlot DEF SysRemoveFd, FdSlots
  <2>2. sources[First(FdSlots(fd))].tag # 0
    BY <2>1 DEF TableInv
  <2>3. QED BY <1>8, <2>1, <2>2, <1>6 DEF SysRemoveFd
<1>9. QED BY <1>1, <1>2, <1>3, <1>4, <1>5, <1>7, <1>8 DEF Api

\* The calls a handler makes leave the invariant alone.
LEMMA ApiInv == IInv /\ Api => IInv'
<1> SUFFICES ASSUME IInv, Api PROVE IInv'
  OBVIOUS
<1>1. TypeOK /\ TableInv /\ ScanInv /\ AnswersInv /\ TimersInv /\ PollCoversTimers
  BY DEF IInv
<1>2. TypeOK'
  BY <1>1, TypeApi
<1>3. /\ InProgram
      /\ \A s \in Slots : KeepsSlot(s)
      /\ UNCHANGED <<phase, i, now, timeout, fds, polledTag, clock, reaped>>
      /\ cb'.slot = cb.slot /\ cb'.fn = cb.fn
  BY <1>1, ApiKeeps
<1>4. phase # "poll"
  BY <1>1, <1>3 DEF InProgram, ScanInv
<1>5. TableInv'
  BY <1>3 DEF TableInv, KeepsSlot
<1>6. cb.slot # 0 => cb.slot \in Slots
  BY <1>1, SysAssumption DEF TypeOK, Slots
<1>7. ScanInv'
  BY <1>1, <1>3, <1>6 DEF ScanInv, KeepsSlot
<1>8. \A s \in i..NSOURCES : s \in Slots
  BY <1>1, SysAssumption DEF TypeOK, Slots
<1>9. AnswersInv'
  <2>1. SUFFICES ASSUME phase = "io", NEW s \in i..NSOURCES, fds[s] # NotPolled
                 PROVE  sources'[s].tag = polledTag[s] /\ polledTag[s] # 0
    BY <1>3, <1>4 DEF AnswersInv
  <2>2. sources[s].tag = polledTag[s] /\ polledTag[s] # 0
    BY <1>1, <2>1 DEF AnswersInv
  <2>3. QED BY <1>3, <1>8, <2>1, <2>2 DEF KeepsSlot
<1>10. TimersInv'
  <2>1. SUFFICES ASSUME phase = "timers"
                 PROVE  /\ now <= clock
                        /\ \A s \in Slots :
                             ((s < i \/ s < cb.slot) /\ sources'[s].type = "TIMEOUT" /\ sources'[s].delay > 0)
                               => sources'[s].t > now
    BY <1>3 DEF TimersInv
  <2>2. now <= clock
    BY <1>1, <2>1 DEF TimersInv
  <2>3. ASSUME NEW s \in Slots, s < i \/ s < cb.slot,
               sources'[s].type = "TIMEOUT", sources'[s].delay > 0
        PROVE  sources'[s].t > now
    <3>1. CASE sources'[s] = sources[s]
      BY <1>1, <2>1, <2>3, <3>1 DEF TimersInv
    <3>2. CASE sources'[s].t > clock
      <4>1. sources'[s].t \in Int /\ clock \in Int /\ now \in Int
        BY <1>1, <1>2, SysAssumption DEF TypeOK, Source
      <4>2. QED BY <2>2, <3>2, <4>1
    <3>3. QED BY <1>3, <2>3, <3>1, <3>2 DEF KeepsSlot
  <2>4. QED BY <2>2, <2>3
<1>11. PollCoversTimers'
  BY <1>3, <1>4 DEF PollCoversTimers
<1>12. QED BY <1>2, <1>5, <1>7, <1>9, <1>10, <1>11 DEF IInv

\* A return touches the slot of its handler only, and the scan moves past it.
LEMMA ReturnInv == IInv /\ Returns => IInv'
<1> SUFFICES ASSUME IInv, NEW ret \in {-1, 0, 1}, HandlerReturn(ret) PROVE IInv'
  BY DEF Returns
<1> DEFINE s == cb.slot
<1> USE SysAssumption DEF loop, poll_vars, env, table
<1>1. TypeOK /\ TableInv /\ ScanInv /\ AnswersInv /\ TimersInv /\ PollCoversTimers
  BY DEF IInv
<1>2. TypeOK'
  BY <1>1, TypeReturns DEF Returns
<1>3. s # 0 /\ s \in Slots /\ i <= s /\ phase \in {"timers", "io", "wait", "quit"} /\ sources[s].type # "NONE"
  BY <1>1 DEF HandlerReturn, ScanInv, TypeOK, Slots
<1>4. CASE WritesNext(s, ret)
  <2>1. cb'.slot = s /\ UNCHANGED <<table, loop, env>>
    BY <1>4 DEF HandlerReturn, CallHandler
  <2>2. phase # "timers"
    BY <1>1, <1>3, <1>4 DEF ScanInv, WritesNext
  <2>3. TableInv' /\ ScanInv'
    BY <1>1, <1>3, <2>1, <2>2 DEF TableInv, ScanInv
  <2>4. AnswersInv' /\ TimersInv' /\ PollCoversTimers'
    BY <1>1, <2>1 DEF AnswersInv, TimersInv, PollCoversTimers
  <2>5. QED BY <1>2, <2>3, <2>4 DEF IInv
<1>5. CASE ~WritesNext(s, ret)
  <2>1. cb'.slot = 0 /\ i' = s + 1 /\ UNCHANGED <<phase, now, timeout, fds, polledTag, clock>>
    BY <1>5 DEF HandlerReturn, NoCall
  <2>2. sources' \in {Cleared(sources, s), AfterReturn(s, ret)}
    BY <1>5 DEF HandlerReturn
  <2>3. \A r \in Slots : r # s => sources'[r] = sources[r]
    BY <1>1, <1>3, <2>2 DEF Cleared, AfterReturn, TypeOK
  <2>4. sources'[s].type # "NONE" => sources'[s].tag # 0
    <3>1. CASE sources'[s] = ClearSource
      BY <3>1 DEF ClearSource
    <3>2. CASE sources'[s] = Rearmed(sources[s])
      BY <1>1, <1>3, <3>2 DEF Rearmed, TableInv, TypeOK, Source
    <3>3. CASE sources'[s] = [sources[s] EXCEPT !.out = FALSE]
      BY <1>1, <1>3, <3>3 DEF TableInv, TypeOK, Source
    <3>4. CASE sources'[s] = sources[s]
      BY <1>1, <1>3, <3>4 DEF TableInv
    <3>5. QED BY <1>1, <1>3, <2>2, <3>1, <3>2, <3>3, <3>4 DEF Cleared, AfterReturn, TypeOK
  <2>5. phase = "timers" /\ sources'[s].type = "TIMEOUT" /\ sources'[s].delay > 0 => sources'[s].t > now
    <3>1. SUFFICES ASSUME phase = "timers", sources'[s].type = "TIMEOUT", sources'[s].delay > 0
                   PROVE  sources'[s].t > now
      OBVIOUS
    <3>2. ~ClearsAlways
      BY <3>1 DEF ClearsAlways
    <3>3. sources' = AfterReturn(s, ret)
      BY <1>5, <3>2 DEF HandlerReturn
    <3>4. sources' # Cleared(sources, s)
      BY <1>1, <1>3, <3>1 DEF Cleared, TypeOK, ClearSource
    <3>5. ~Ends(ret)
      BY <3>3, <3>4 DEF AfterReturn, Ends
    <3>6. CASE cb.fn = "func" /\ ret > 0 /\ sources[s].type = "TIMEOUT"
      <4>1. sources' = [sources EXCEPT ![s] = Rearmed(sources[s])]
        BY <3>3, <3>5, <3>6 DEF AfterReturn, Ends
      <4>2. sources'[s] = Rearmed(sources[s])
        BY <1>1, <1>3, <4>1 DEF TypeOK
      <4>3. sources'[s].t = now + sources[s].delay /\ sources'[s].delay = sources[s].delay
        BY <1>1, <1>3, <4>2 DEF Rearmed, TypeOK, Source
      <4>4. now \in Int /\ sources[s].delay \in Int
        BY <1>1, <1>3 DEF TypeOK, Source
      <4>5. QED BY <3>1, <4>3, <4>4
    <3>7. CASE ~(cb.fn = "func" /\ ret > 0 /\ sources[s].type = "TIMEOUT")
      <4>1. sources'[s].type = sources[s].type
        BY <1>1, <1>3, <3>3, <3>5, <3>7 DEF AfterReturn, TypeOK, Source
      <4>2. sources[s].type = "TIMEOUT" /\ cb.fn # "func"
        BY <3>1, <3>5, <3>7, <4>1 DEF Ends
      <4>3. QED BY <1>1, <1>3, <3>1, <4>2 DEF ScanInv
    <3>8. QED BY <3>6, <3>7
  <2>6. TableInv'
    BY <1>1, <2>3, <2>4 DEF TableInv
  <2>7. ScanInv'
    BY <1>3, <2>1 DEF ScanInv
  <2>8. AnswersInv'
    <3>1. \A r \in (s + 1)..NSOURCES : r \in i..NSOURCES /\ r # s /\ r \in Slots
      BY <1>1, <1>3 DEF TypeOK, Slots
    <3>2. QED BY <1>1, <2>1, <2>3, <3>1 DEF AnswersInv
  <2>9. TimersInv'
    <3>1. SUFFICES ASSUME phase = "timers", NEW r \in Slots, r < s + 1,
                          sources'[r].type = "TIMEOUT", sources'[r].delay > 0
                   PROVE  sources'[r].t > now
      <4>1. now <= clock \/ phase # "timers"
        BY <1>1 DEF TimersInv
      <4>2. \A r \in Slots : ~ (r < 0)
        BY SlotsAreNat
      <4>3. QED BY <2>1, <4>1, <4>2 DEF TimersInv
    <3>2. CASE r = s
      BY <2>5, <3>1, <3>2
    <3>3. CASE r # s
      <4>1. r < s
        BY <1>3, <3>1, <3>3, SlotsAreNat
      <4>2. QED BY <1>1, <2>3, <3>1, <3>3, <4>1 DEF TimersInv
    <3>4. QED BY <3>2, <3>3
  <2>10. PollCoversTimers'
    BY <1>3, <2>1 DEF PollCoversTimers
  <2>11. QED BY <1>2, <2>6, <2>7, <2>8, <2>9, <2>10 DEF IInv
<1>6. QED BY <1>4, <1>5

\* A call starts while none is running, and leaves all but cb alone.
LEMMA CallInv ==
  ASSUME IInv, TypeOK', NEW s \in Slots, i <= s, sources[s].type # "NONE", cb'.slot = s,
         phase \in {"timers", "io", "wait", "quit"}, phase = "timers" => cb'.fn = "func",
         phase = "wait" => reaped # 0,
         phase = "timers" => \A r \in Slots : r < s /\ i <= r =>
                               ~(sources[r].type = "TIMEOUT" /\ sources[r].t <= now),
         UNCHANGED <<table, loop, env>>
  PROVE  IInv'
<1> USE SysAssumption DEF table, loop, poll_vars, env
<1>1. TypeOK /\ TableInv /\ ScanInv /\ AnswersInv /\ TimersInv /\ PollCoversTimers
  BY DEF IInv
<1>2. TableInv' /\ ScanInv'
  BY <1>1 DEF TableInv, ScanInv
<1>3. AnswersInv' /\ PollCoversTimers'
  BY <1>1 DEF AnswersInv, PollCoversTimers
<1>4. TimersInv'
  <2>1. SUFFICES ASSUME phase = "timers"
                 PROVE  \A r \in Slots : /\ r < i \/ r < s
                                         /\ sources[r].type = "TIMEOUT" /\ sources[r].delay > 0
                                         => sources[r].t > now
    BY <1>1 DEF TimersInv
  <2>2. ASSUME NEW r \in Slots, r < i \/ r < s, sources[r].type = "TIMEOUT", sources[r].delay > 0
        PROVE  sources[r].t > now
    <3>1. CASE r < i
      BY <1>1, <2>1, <2>2, <3>1 DEF TimersInv
    <3>2. CASE ~(r < i)
      <4>1. r < s /\ i <= r
        BY <1>1, <2>2, <3>2, SlotsAreNat DEF TypeOK
      <4>2. ~(sources[r].t <= now)
        BY <2>1, <2>2, <4>1
      <4>3. sources[r].t \in Int /\ now \in Int
        BY <1>1 DEF TypeOK, Source
      <4>4. QED BY <4>2, <4>3
    <3>3. QED BY <3>1, <3>2
  <2>3. QED BY <2>2
<1>5. QED BY <1>2, <1>3, <1>4 DEF IInv

LEMMA LoopInv == IInv /\ LoopStep => IInv'
<1> SUFFICES ASSUME IInv, LoopStep PROVE IInv'
  OBVIOUS
<1> USE SysAssumption DEF loop, poll_vars, env, table
<1>a. TypeOK /\ TableInv /\ ScanInv /\ AnswersInv /\ TimersInv /\ PollCoversTimers
  BY DEF IInv
<1>b. TypeOK'
  BY <1>a, TypeLoop
<1>c. \A s \in i..NSOURCES : s \in Slots /\ i <= s
  BY <1>a DEF TypeOK, Slots
<1>d. \A s \in Slots : i <= s => s \in i..NSOURCES
  BY <1>a DEF TypeOK, Slots
<1>e. phase \in {"start", "top", "poll"} => cb.slot = 0
  BY <1>a DEF ScanInv
<1>1. CASE Start
  BY <1>1, <1>a, <1>b, <1>e DEF Start, IInv, TableInv, ScanInv, AnswersInv, TimersInv, PollCoversTimers
<1>2. CASE LoopTop
  <2>1. TableInv' /\ ScanInv' /\ AnswersInv' /\ PollCoversTimers'
    BY <1>2, <1>a, <1>e DEF LoopTop, TableInv, ScanInv, AnswersInv, PollCoversTimers
  <2>2. TimersInv'
    <3>1. cb'.slot = 0 /\ i' = 1 /\ clock' = clock
      BY <1>2, <1>e DEF LoopTop
    <3>2. phase' = "timers" => now' = clock
      BY <1>2 DEF LoopTop
    <3>3. \A s \in Slots : ~(s < 1) /\ ~(s < 0)
      BY SlotsAreNat
    <3>4. clock <= clock
      BY <1>a DEF TypeOK
    <3>5. QED BY <3>1, <3>2, <3>3, <3>4 DEF TimersInv
  <2>3. QED BY <1>b, <2>1, <2>2 DEF IInv
<1>3. CASE TimerCall
  <2>1. First(DueSlots) \in DueSlots /\ \A r \in DueSlots : First(DueSlots) <= r
    BY <1>3, <1>c, FirstSlot DEF TimerCall, DueSlots
  <2>2. First(DueSlots) \in Slots /\ i <= First(DueSlots) /\ sources[First(DueSlots)].type = "TIMEOUT"
    BY <1>c, <2>1 DEF DueSlots
  <2>3. ASSUME NEW r \in Slots, r < First(DueSlots), i <= r,
               sources[r].type = "TIMEOUT", sources[r].t <= now
        PROVE  FALSE
    <3>1. r \in DueSlots
      BY <1>d, <2>3 DEF DueSlots
    <3>2. First(DueSlots) <= r
      BY <2>1, <3>1
    <3>3. QED BY <2>2, <2>3, <3>2, SlotsAreNat
  <2>4. cb'.slot = First(DueSlots) /\ cb'.fn = "func" /\ phase = "timers" /\ UNCHANGED <<table, loop, env>>
    BY <1>3 DEF TimerCall, CallHandler
  <2>5. QED BY <1>b, <2>2, <2>3, <2>4, CallInv
<1>4. CASE PollSetup
  <2>1. cb'.slot = 0 /\ i' = 1 /\ phase' = "poll" /\ now' = now /\ timeout' = PollTimeout
    BY <1>4 DEF PollSetup
  <2>2. \A s \in Slots : sources'[s] = IF sources[s].type = "REMOVED" THEN ClearSource ELSE sources[s]
    BY <1>4 DEF PollSetup
  <2>3. TableInv' /\ ScanInv' /\ TimersInv'
    BY <1>a, <2>1, <2>2 DEF TableInv, ScanInv, TimersInv, ClearSource
  <2>4. AnswersInv'
    <3>1. SUFFICES ASSUME NEW s \in Slots, fds'[s] # NotPolled
                   PROVE  sources'[s].tag = polledTag'[s] /\ polledTag'[s] # 0
      BY <2>1, SysAssumption DEF AnswersInv, Slots
    <3>2. sources[s].type = "IO"
      BY <1>4, <3>1 DEF PollSetup
    <3>3. sources'[s] = sources[s] /\ polledTag'[s] = sources[s].tag
      BY <1>4, <2>2, <3>2 DEF PollSetup
    <3>4. QED BY <1>a, <3>2, <3>3 DEF TableInv
  <2>5. PollCoversTimers'
    <3>1. SUFFICES ASSUME NEW s \in Slots, sources'[s].type = "TIMEOUT", sources'[s].delay > 0
                   PROVE  PollTimeout >= 0 /\ now + PollTimeout <= sources'[s].t
      BY <2>1 DEF PollCoversTimers
    <3>2. sources'[s] = sources[s]
      BY <2>2, <3>1 DEF ClearSource
    <3>3. sources[s].t \in Int /\ now \in Int
      BY <1>a DEF TypeOK, Source
    <3>4. sources[s].t > now
      <4>1. CASE s < i
        BY <1>4, <1>a, <3>1, <3>2, <4>1 DEF PollSetup, TimersInv
      <4>2. CASE ~(s < i)
        <5>1. s \in i..NSOURCES
          BY <1>a, <1>d, <4>2, SlotsAreNat DEF TypeOK
        <5>2. s \notin DueSlots
          BY <1>4 DEF PollSetup
        <5>3. QED BY <3>1, <3>2, <3>3, <5>1, <5>2 DEF DueSlots
      <4>3. QED BY <4>1, <4>2
    <3>5. sources[s].t - now \in Ahead
      BY <3>1, <3>2, <3>4 DEF Ahead
    <3>6. PollTimeout \in Int /\ PollTimeout >= 0 /\ PollTimeout <= sources[s].t - now
      BY <1>a, <3>5, PollTimeoutType
    <3>7. QED BY <3>2, <3>3, <3>6
  <2>6. QED BY <1>b, <2>3, <2>4, <2>5 DEF IInv
<1>5. CASE PollNothing
  BY <1>5, <1>a, <1>b, <1>e DEF PollNothing, IInv, TableInv, ScanInv, AnswersInv, TimersInv, PollCoversTimers
<1>6. CASE IoDispatch
  <2> DEFINE s == First(IoSlots)
  <2>1. s \in IoSlots
    BY <1>6, <1>c, FirstSlot DEF IoDispatch, IoSlots
  <2>2. s \in Slots /\ i <= s /\ sources[s].type = "IO" /\ phase = "io" /\ cb.slot = 0
    BY <1>6, <1>c, <2>1 DEF IoSlots, IoDispatch
  <2>3. CASE cb'.slot = s /\ UNCHANGED i
    <3>1. UNCHANGED <<table, loop, env>>
      BY <1>6, <2>3 DEF IoDispatch
    <3>2. QED BY <1>b, <2>2, <2>3, <3>1, CallInv
  <2>4. CASE i' = s + 1 /\ UNCHANGED cb
    <3>1. \A r \in (s + 1)..NSOURCES : r \in i..NSOURCES
      <4> HIDE DEF s
      <4>1. i \in Int /\ s \in Int /\ NSOURCES \in Int /\ i <= s
        BY <1>a, <2>2, SlotsAreNat DEF TypeOK
      <4>2. QED BY <4>1
    <3>2. TableInv' /\ ScanInv' /\ TimersInv' /\ PollCoversTimers'
      BY <1>6, <1>a, <2>2, <2>4 DEF IoDispatch, TableInv, ScanInv, TimersInv, PollCoversTimers
    <3>3. AnswersInv'
      BY <1>6, <1>a, <2>4, <3>1 DEF IoDispatch, AnswersInv
    <3>4. QED BY <1>b, <3>2, <3>3 DEF IInv
  <2>5. QED BY <1>6, <2>3, <2>4 DEF IoDispatch, CallHandler
<1>7. CASE IoDone
  BY <1>7, <1>a, <1>b DEF IoDone, IInv, TableInv, ScanInv, AnswersInv, TimersInv, PollCoversTimers
<1>8. CASE WaitPid
  BY <1>8, <1>a, <1>b DEF WaitPid, IInv, TableInv, ScanInv, AnswersInv, TimersInv, PollCoversTimers
<1>9. CASE ChildCall
  <2>1. First(ChildSlots) \in ChildSlots
    BY <1>9, <1>c, FirstSlot DEF ChildCall, ChildSlots
  <2>2. First(ChildSlots) \in Slots /\ i <= First(ChildSlots) /\ sources[First(ChildSlots)].type = "CHILD"
    BY <1>c, <2>1 DEF ChildSlots
  <2>3. cb'.slot = First(ChildSlots) /\ phase = "wait" /\ UNCHANGED <<table, loop, env>>
    BY <1>9 DEF ChildCall, CallHandler
  <2>4. reaped # 0
    BY <1>9 DEF ChildCall
  <2>5. QED BY <1>b, <2>2, <2>3, <2>4, CallInv
<1>10. CASE ChildDone
  BY <1>10, <1>a, <1>b DEF ChildDone, IInv, TableInv, ScanInv, AnswersInv, TimersInv, PollCoversTimers
<1>11. CASE WaitDone
  <2>1. cb.slot = 0
    BY <1>11, <1>a DEF WaitDone, ScanInv
  <2>2. QED BY <1>11, <1>a, <1>b, <2>1 DEF WaitDone, IInv, TableInv, ScanInv, AnswersInv, TimersInv, PollCoversTimers
<1>12. CASE QuitCall
  <2>1. First(QuitSlots) \in QuitSlots
    BY <1>12, <1>c, FirstSlot DEF QuitCall, QuitSlots
  <2>2. First(QuitSlots) \in Slots /\ i <= First(QuitSlots) /\ sources[First(QuitSlots)].type = "QUIT"
    BY <1>c, <2>1 DEF QuitSlots
  <2>3. cb'.slot = First(QuitSlots) /\ phase = "quit" /\ UNCHANGED <<table, loop, env>>
    BY <1>12 DEF QuitCall, CallHandler
  <2>4. QED BY <1>b, <2>2, <2>3, CallInv
<1>13. CASE QuitDone
  BY <1>13, <1>a, <1>b DEF QuitDone, IInv, TableInv, ScanInv, AnswersInv, TimersInv, PollCoversTimers
<1>14. QED BY <1>1, <1>2, <1>3, <1>4, <1>5, <1>6, <1>7, <1>8, <1>9, <1>10, <1>11, <1>12,
              <1>13 DEF LoopStep

LEMMA EnvInv == IInv /\ (PollEvents \/ SysQuit \/ Tick \/ \E p \in Pids : ChildExit(p)) => IInv'
<1> SUFFICES ASSUME IInv, PollEvents \/ SysQuit \/ Tick \/ \E p \in Pids : ChildExit(p) PROVE IInv'
  OBVIOUS
<1> USE SysAssumption DEF loop, poll_vars, env, table
<1>a. TypeOK /\ TableInv /\ ScanInv /\ AnswersInv /\ TimersInv /\ PollCoversTimers
  BY DEF IInv
<1>b. TypeOK'
  BY <1>a, TypeEnv
<1>1. CASE PollEvents
  <2>1. fds' \in Answers
    BY <1>1 DEF PollEvents
  <2>2. \A s \in Slots : fds'[s] # NotPolled => fds[s] # NotPolled
    BY <2>1 DEF Answers, Polled
  <2>3. \A s \in i..NSOURCES : s \in Slots
    BY <1>a DEF TypeOK, Slots
  <2>4. AnswersInv'
    BY <1>1, <1>a, <2>2, <2>3 DEF PollEvents, AnswersInv
  <2>5. TableInv' /\ ScanInv' /\ TimersInv' /\ PollCoversTimers'
    BY <1>1, <1>a DEF PollEvents, TableInv, ScanInv, TimersInv, PollCoversTimers
  <2>6. QED BY <1>b, <2>4, <2>5 DEF IInv
<1>2. CASE SysQuit
  BY <1>2, <1>a, <1>b DEF SysQuit, IInv, TableInv, ScanInv, AnswersInv, TimersInv, PollCoversTimers
<1>3. CASE Tick
  <2>1. now <= clock => now <= clock'
    BY <1>3, <1>a DEF Tick, TypeOK
  <2>2. QED BY <1>3, <1>a, <1>b, <2>1 DEF Tick, IInv, TableInv, ScanInv, AnswersInv, TimersInv, PollCoversTimers
<1>4. CASE \E p \in Pids : ChildExit(p)
  BY <1>4, <1>a, <1>b DEF ChildExit, IInv, TableInv, ScanInv, AnswersInv, TimersInv, PollCoversTimers
<1>5. QED BY <1>1, <1>2, <1>3, <1>4

LEMMA Inductive == Spec => []IInv
<1>1. Init => IInv
  <2>1. Init => TypeOK
    BY TypeInit
  <2>2. Init => TableInv /\ ScanInv /\ AnswersInv /\ TimersInv /\ PollCoversTimers
    BY DEF Init, ClearSource, NoCall, TableInv, ScanInv, AnswersInv, TimersInv, PollCoversTimers
  <2>3. QED BY <2>1, <2>2 DEF IInv
<1>2. IInv /\ [Next]_vars => IInv'
  <2>1. CASE UNCHANGED vars
    <3>1. IInv => TypeOK'
      BY <2>1 DEF vars, table, loop, poll_vars, env, TypeOK, IInv
    <3>2. QED BY <2>1, <3>1 DEF vars, table, loop, poll_vars, env, IInv, TableInv, ScanInv, AnswersInv,
                                TimersInv, PollCoversTimers
  <2>2. QED BY <2>1, ApiInv, ReturnInv, LoopInv, EnvInv DEF Next
<1>3. QED BY <1>1, <1>2, PTL DEF Spec

\* While the answers of poll are dispatched, whatever the handlers remove and register,
\* events go only to the source poll was asked about.
THEOREM EventsAreFresh == Spec => []FreshRevents
<1>1. IInv => FreshRevents
  BY DEF IInv, AnswersInv, FreshRevents
<1>2. QED BY <1>1, Inductive, PTL

\* Poll never sleeps beyond an armed timer (but for a delay of 0).
THEOREM TimersAreCovered == Spec => []PollCoversTimers
<1>1. IInv => PollCoversTimers
  BY DEF IInv
<1>2. QED BY <1>1, Inductive, PTL
-----------------------------------------------------------------------------
(* The table implements SysSources: every step of the loop is one of its   *)
(* steps or changes nothing that it speaks of.                             *)

LiveTags == {sources[s].tag : s \in {r \in Slots : Live(sources[r])}}
Calling == IF cb.slot = 0 THEN 0 ELSE sources[cb.slot].tag

\* No two slots have the same tag, and the next one is new.
TagsInv == /\ \A s \in Slots : sources[s].tag <= last_tag
           /\ \A s, r \in Slots : sources[s].tag = sources[r].tag /\ sources[s].tag # 0 => s = r

\* A step that gives no slot another tag
LEMMA TagsKept ==
  ASSUME TypeOK, TagsInv, last_tag' = last_tag,
         \A s \in Slots : sources'[s].tag = sources[s].tag \/ sources'[s].tag = 0
  PROVE  TagsInv'
<1>1. \A s \in Slots : sources[s].tag \in 0..MaxTag /\ last_tag \in Nat
  BY SysAssumption DEF TypeOK, Source
<1>2. ASSUME NEW s \in Slots PROVE sources'[s].tag <= last_tag'
  BY <1>1 DEF TagsInv
<1>3. ASSUME NEW s \in Slots, NEW r \in Slots, sources'[s].tag = sources'[r].tag, sources'[s].tag # 0
      PROVE  s = r
  BY <1>3 DEF TagsInv
<1>4. QED BY <1>2, <1>3 DEF TagsInv

\* A step after which the same slots are live
LEMMA SameLive ==
  ASSUME \A s \in Slots : /\ Live(sources'[s]) <=> Live(sources[s])
                          /\ Live(sources[s]) => sources'[s].tag = sources[s].tag
  PROVE  LiveTags' = LiveTags
<1>1. ASSUME NEW k PROVE k \in LiveTags' <=> k \in LiveTags
  <2>1. k \in LiveTags' <=> \E s \in Slots : Live(sources'[s]) /\ k = sources'[s].tag
    BY DEF LiveTags
  <2>2. k \in LiveTags <=> \E s \in Slots : Live(sources[s]) /\ k = sources[s].tag
    BY DEF LiveTags
  <2>3. QED BY <2>1, <2>2
<1>2. QED BY <1>1

\* A step after which one slot less is live
LEMMA OneLess ==
  ASSUME TagsInv, TableInv, NEW f \in Slots, Live(sources[f]), ~Live(sources'[f]),
         \A s \in Slots : s # f => sources'[s] = sources[s]
  PROVE  sources[f].tag \in LiveTags /\ LiveTags' = LiveTags \ {sources[f].tag}
<1>1. sources[f].tag \in LiveTags
  BY DEF LiveTags
<1>2. \A s \in Slots : Live(sources[s]) => sources[s].tag # 0
  BY DEF Live, TableInv
<1>3. ASSUME NEW k PROVE k \in LiveTags' <=> k \in LiveTags /\ k # sources[f].tag
  <2>1. k \in LiveTags' <=> \E s \in Slots : Live(sources'[s]) /\ k = sources'[s].tag
    BY DEF LiveTags
  <2>2. k \in LiveTags <=> \E s \in Slots : Live(sources[s]) /\ k = sources[s].tag
    BY DEF LiveTags
  <2>3. ASSUME k \in LiveTags' PROVE k \in LiveTags /\ k # sources[f].tag
    <3>1. PICK s \in Slots : Live(sources'[s]) /\ k = sources'[s].tag
      BY <2>1, <2>3
    <3>2. s # f /\ sources'[s] = sources[s]
      BY <3>1
    <3>3. QED BY <1>2, <2>2, <3>1, <3>2 DEF TagsInv
  <2>4. ASSUME k \in LiveTags, k # sources[f].tag PROVE k \in LiveTags'
    <3>1. PICK s \in Slots : Live(sources[s]) /\ k = sources[s].tag
      BY <2>2, <2>4
    <3>2. s # f
      BY <2>4, <3>1
    <3>3. QED BY <2>1, <3>1, <3>2
  <2>5. QED BY <2>3, <2>4
<1>4. QED BY <1>1, <1>3

\* What the abstract steps are of the table
LEMMA RegistrySteps ==
  /\ last_tag < MaxTag /\ last_tag' = last_tag + 1 /\ LiveTags' = LiveTags \cup {last_tag'} /\ Calling' = Calling
       => Registry!Next
  /\ (\E k \in LiveTags : LiveTags' = LiveTags \ {k}) /\ last_tag' = last_tag /\ Calling' = Calling => Registry!Next
  /\ Calling = 0 /\ Calling' \in LiveTags /\ LiveTags' = LiveTags /\ last_tag' = last_tag => Registry!Next
  /\ Calling # 0 /\ Calling' = 0 /\ LiveTags' \in {LiveTags, LiveTags \ {Calling}} /\ last_tag' = last_tag
       => Registry!Next
  /\ LiveTags' = LiveTags /\ Calling' = Calling /\ last_tag' = last_tag => UNCHANGED Registry!svars
<1>1. last_tag < MaxTag /\ last_tag' = last_tag + 1 /\ LiveTags' = LiveTags \cup {last_tag'} /\ Calling' = Calling
       => Registry!Register
  BY DEF Registry!Register, LiveTags, Calling
<1>2. (\E k \in LiveTags : LiveTags' = LiveTags \ {k}) /\ last_tag' = last_tag /\ Calling' = Calling => Registry!Remove
  BY DEF Registry!Remove, LiveTags, Calling
<1>3. Calling = 0 /\ Calling' \in LiveTags /\ LiveTags' = LiveTags /\ last_tag' = last_tag => Registry!Call
  BY DEF Registry!Call, LiveTags, Calling
<1>4. Calling # 0 /\ Calling' = 0 /\ LiveTags' \in {LiveTags, LiveTags \ {Calling}} /\ last_tag' = last_tag
       => Registry!Return
  BY DEF Registry!Return, LiveTags, Calling
<1>5. LiveTags' = LiveTags /\ Calling' = Calling /\ last_tag' = last_tag => UNCHANGED Registry!svars
  BY DEF Registry!svars, LiveTags, Calling
<1>6. QED BY <1>1, <1>2, <1>3, <1>4, <1>5 DEF Registry!Next

Refines == TagsInv' /\ [Registry!Next]_Registry!svars

\* The running handler's slot is not free: no call of the program gives it away.
LEMMA CallingSlot == ASSUME IInv, cb.slot # 0
                     PROVE  /\ cb.slot \in Slots /\ sources[cb.slot].tag # 0 /\ sources[cb.slot].type # "NONE"
<1>1. cb.slot \in Slots
  BY SysAssumption, SMTT(30) DEF IInv, TypeOK, Slots
<1>2. QED BY <1>1 DEF IInv, ScanInv, TableInv

LEMMA AddRefines ==
  ASSUME IInv, TagsInv, NEW src \in Source, Live(src), SourceAdd(src), cb'.slot = cb.slot
  PROVE  Refines
<1> DEFINE f == First(FreeSlots)
<1>1. f \in Slots /\ sources[f].tag = 0 /\ TypeOK /\ TableInv
  BY FirstSlot DEF SourceAdd, FreeSlots, IInv
<1>2. last_tag \in Nat /\ last_tag < MaxTag /\ last_tag' = last_tag + 1 /\ last_tag' # 0
  BY <1>1, SysAssumption DEF SourceAdd, TypeOK
<1>3. \A s \in Slots : sources[s].tag \in Nat
  BY <1>1, SysAssumption DEF TypeOK, Source
<1>4. sources'[f] = [src EXCEPT !.tag = last_tag'] /\ \A s \in Slots : s # f => sources'[s] = sources[s]
  BY <1>1 DEF SourceAdd, TypeOK
<1>5. sources'[f].tag = last_tag' /\ sources'[f].type = src.type
  BY <1>4 DEF Source
<1> HIDE DEF f
<1>6. Live(sources'[f]) /\ ~Live(sources[f])
  BY <1>1, <1>5 DEF Live, TableInv
<1>7. TagsInv'
  <2>a. \A s \in Slots : sources[s].tag <= last_tag /\ sources[s].tag \in Nat
    BY <1>3 DEF TagsInv
  <2>b. \A s \in Slots : s # f => sources'[s].tag = sources[s].tag
    BY <1>4
  <2>1. ASSUME NEW s \in Slots PROVE sources'[s].tag <= last_tag'
    <3>1. CASE s = f
      BY <1>2, <1>5, <3>1
    <3>2. CASE s # f
      BY <1>2, <2>a, <2>b, <3>2
    <3>3. QED BY <3>1, <3>2
  <2>2. ASSUME NEW s \in Slots, s # f PROVE sources'[s].tag # last_tag'
    BY <1>2, <2>2, <2>a, <2>b
  <2>3. ASSUME NEW s \in Slots, NEW r \in Slots, sources'[s].tag = sources'[r].tag, sources'[s].tag # 0
        PROVE  s = r
    <3>1. CASE s = f \/ r = f
      BY <1>5, <2>2, <2>3, <3>1
    <3>2. CASE s # f /\ r # f
      <4>1. sources[s].tag = sources[r].tag /\ sources[s].tag # 0
        BY <2>3, <2>b, <3>2
      <4>2. QED BY <4>1 DEF TagsInv
    <3>3. QED BY <3>1, <3>2
  <2>4. QED BY <2>1, <2>3 DEF TagsInv
<1>8. LiveTags' = LiveTags \cup {last_tag'}
  <2>1. ASSUME NEW k PROVE k \in LiveTags' <=> k \in LiveTags \/ k = last_tag'
    <3>1. k \in LiveTags' <=> \E s \in Slots : Live(sources'[s]) /\ k = sources'[s].tag
      BY DEF LiveTags
    <3>2. k \in LiveTags <=> \E s \in Slots : Live(sources[s]) /\ k = sources[s].tag
      BY DEF LiveTags
    <3>3. QED BY <1>1, <1>4, <1>5, <1>6, <3>1, <3>2
  <2>2. QED BY <2>1
<1>9. Calling' = Calling
  <2>1. cb.slot # 0 => cb.slot \in Slots /\ cb.slot # f
    BY <1>1, CallingSlot
  <2>2. QED BY <1>4, <2>1 DEF Calling
<1>10. QED BY <1>2, <1>7, <1>8, <1>9, RegistrySteps DEF Refines

\* A call that keeps every tag and what is live, and one that removes a source
LEMMA SameRefines ==
  ASSUME IInv, TagsInv, last_tag' = last_tag, cb'.slot = cb.slot,
         \A s \in Slots : sources'[s].tag = sources[s].tag /\ (Live(sources'[s]) <=> Live(sources[s]))
  PROVE  Refines
<1>1. TagsInv'
  BY TagsKept DEF IInv
<1>2. LiveTags' = LiveTags
  BY SameLive
<1>3. Calling' = Calling
  BY CallingSlot DEF Calling
<1>4. QED BY <1>1, <1>2, <1>3, RegistrySteps DEF Refines

LEMMA RemoveRefines ==
  ASSUME IInv, TagsInv, NEW f \in Slots, sources' = [sources EXCEPT ![f] = RemovedSource(@)],
         last_tag' = last_tag, cb'.slot = cb.slot
  PROVE  Refines
<1>1. sources'[f] = RemovedSource(sources[f]) /\ \A s \in Slots : s # f => sources'[s] = sources[s]
  BY DEF IInv, TypeOK
<1>2. sources'[f].tag = sources[f].tag /\ sources'[f].type = "REMOVED"
  BY <1>1 DEF RemovedSource, IInv, TypeOK, Source
<1>3. CASE Live(sources[f])
  <2>1. ~Live(sources'[f])
    BY <1>2 DEF Live
  <2>2. sources[f].tag \in LiveTags /\ LiveTags' = LiveTags \ {sources[f].tag}
    BY <1>1, <1>3, <2>1, OneLess DEF IInv
  <2>3. \A s \in Slots : sources'[s].tag = sources[s].tag
    BY <1>1, <1>2
  <2>4. TagsInv'
    BY <2>3, TagsKept DEF IInv
  <2>5. Calling' = Calling
    BY <2>3, CallingSlot DEF Calling
  <2>6. QED BY <2>2, <2>4, <2>5, RegistrySteps DEF Refines
<1>4. CASE ~Live(sources[f])
  <2>1. ~Live(sources'[f])
    BY <1>2 DEF Live
  <2>2. QED BY <1>1, <1>2, <1>4, <2>1, SameRefines
<1>5. QED BY <1>3, <1>4

LEMMA ApiRefines == ASSUME IInv, TagsInv, Api PROVE Refines
<1> USE SysAssumption, ClearType DEF loop
<1>a. TypeOK
  BY DEF IInv
<1>b. cb'.slot = cb.slot
  BY ApiKeeps DEF IInv
<1>1. ASSUME NEW d \in Delays, SysTimeout(d) PROVE Refines
  <2> DEFINE src == [ClearSource EXCEPT !.type = "TIMEOUT", !.delay = d, !.t = clock + d]
  <2>1. d \in Nat /\ clock \in Nat /\ clock + d \in Nat
    BY <1>a DEF TypeOK
  <2>2. src \in Source /\ src.type = "TIMEOUT"
    BY <2>1 DEF Source, Types, ClearSource
  <2>3. SourceAdd(src)
    BY <1>1 DEF SysTimeout
  <2> HIDE DEF src
  <2>4. QED BY <1>b, <2>2, <2>3, AddRefines DEF Live
<1>2. ASSUME NEW fd \in Fds, NEW poll \in BOOLEAN, SysIoSource(fd, poll) PROVE Refines
  <2> DEFINE src == [ClearSource EXCEPT !.type = "IO", !.id = fd, !.poll = poll]
             old == First(FdSlots(fd))
  <2>1. src \in Source /\ src.type = "IO"
    BY DEF Source, Types, ClearSource
  <2>2. CASE FdSlots(fd) = {}
    <3>1. SourceAdd(src)
      BY <1>2, <2>2 DEF SysIoSource
    <3> HIDE DEF src
    <3>2. QED BY <1>b, <2>1, <3>1, AddRefines DEF Live
  <2>3. CASE FdSlots(fd) # {}
    <3>1. old \in Slots /\ sources[old].type = "IO"
      BY <2>3, FirstSlot DEF FdSlots
    <3>2. sources' = [sources EXCEPT ![old] = [src EXCEPT !.tag = sources[old].tag]] /\ last_tag' = last_tag
      BY <1>2, <2>3 DEF SysIoSource
    <3>3. sources'[old] = [src EXCEPT !.tag = sources[old].tag]
          /\ \A s \in Slots : s # old => sources'[s] = sources[s]
      BY <1>a, <3>1, <3>2 DEF TypeOK
    <3>4. sources'[old].tag = sources[old].tag /\ sources'[old].type = "IO"
      BY <2>1, <3>3 DEF Source
    <3>5. Live(sources'[old]) /\ Live(sources[old])
      BY <3>1, <3>4 DEF Live
    <3>6. QED BY <1>b, <3>2, <3>3, <3>4, <3>5, SameRefines
  <2>4. QED BY <2>2, <2>3
<1>3. ASSUME NEW s \in Slots, NEW on \in BOOLEAN, SysIoWriteHandler(s, on) PROVE Refines
  <2>1. /\ sources'[s] = [sources[s] EXCEPT !.out = on] /\ last_tag' = last_tag
        /\ \A r \in Slots : r # s => sources'[r] = sources[r]
    BY <1>3, <1>a DEF SysIoWriteHandler, TypeOK
  <2>2. sources'[s].tag = sources[s].tag /\ sources'[s].type = sources[s].type
    BY <1>3, <1>a, <2>1 DEF TypeOK, Source
  <2>3. Live(sources'[s]) <=> Live(sources[s])
    BY <2>2 DEF Live
  <2>4. QED BY <1>b, <2>1, <2>2, <2>3, SameRefines
<1>4. ASSUME NEW p \in Pids, SysChildWatch(p) PROVE Refines
  <2> DEFINE src == [ClearSource EXCEPT !.type = "CHILD", !.id = p]
  <2>1. src \in Source /\ src.type = "CHILD"
    BY DEF Source, Types, ClearSource
  <2>2. SourceAdd(src) \/ UNCHANGED table
    BY <1>4 DEF SysChildWatch
  <2> HIDE DEF src
  <2>3. CASE UNCHANGED table
    BY <1>b, <2>3, SameRefines DEF table
  <2>4. CASE SourceAdd(src)
    BY <1>b, <2>1, <2>4, AddRefines DEF Live
  <2>5. QED BY <2>2, <2>3, <2>4
<1>5. ASSUME SysQuitHandler PROVE Refines
  <2> DEFINE src == [ClearSource EXCEPT !.type = "QUIT"]
  <2>1. src \in Source /\ src.type = "QUIT"
    BY DEF Source, Types, ClearSource
  <2>2. SourceAdd(src)
    BY <1>5 DEF SysQuitHandler
  <2> HIDE DEF src
  <2>3. QED BY <1>b, <2>1, <2>2, AddRefines DEF Live
<1>6. ASSUME NEW k \in 1..MaxTag, SysRemove(k) PROVE Refines
  <2>1. First(TagSlots(k)) \in Slots
    BY <1>6, FirstSlot DEF SysRemove, TagSlots
  <2>2. QED BY <1>6, <1>b, <2>1, RemoveRefines DEF SysRemove
<1>7. ASSUME NEW fd \in Fds, SysRemoveFd(fd) PROVE Refines
  <2>1. First(FdSlots(fd)) \in Slots
    BY <1>7, FirstSlot DEF SysRemoveFd, FdSlots
  <2>2. QED BY <1>7, <1>b, <2>1, RemoveRefines DEF SysRemoveFd
<1>8. QED BY <1>1, <1>2, <1>3, <1>4, <1>5, <1>6, <1>7 DEF Api

\* A handler returns: its slot is cleared, or keeps its source, live or removed meanwhile.
LEMMA ReturnRefines == ASSUME IInv, TagsInv, Returns PROVE Refines
<1> PICK ret \in {-1, 0, 1} : HandlerReturn(ret)
  BY DEF Returns
<1> DEFINE s == cb.slot
<1>1. s # 0 /\ s \in Slots /\ sources[s].tag # 0 /\ TypeOK
  BY CallingSlot DEF HandlerReturn, IInv
<1>2. CASE WritesNext(s, ret)
  <2>1. cb'.slot = s /\ sources' = sources /\ last_tag' = last_tag
    BY <1>2 DEF HandlerReturn, CallHandler, table
  <2>2. QED BY <2>1, SameRefines
<1>3. CASE ~WritesNext(s, ret)
  <2>1. cb' = NoCall /\ last_tag' = last_tag
    BY <1>3 DEF HandlerReturn
  <2>2. Calling = sources[s].tag /\ Calling # 0 /\ Calling' = 0
    BY <1>1, <2>1 DEF Calling, NoCall
  <2>3. sources' = Cleared(sources, s) \/ sources' = AfterReturn(s, ret)
    BY <1>3 DEF HandlerReturn
  <2>4. CASE sources' = Cleared(sources, s)
    <3>1. sources'[s] = ClearSource /\ \A r \in Slots : r # s => sources'[r] = sources[r]
      BY <1>1, <2>4 DEF Cleared, TypeOK
    <3>2. sources'[s].tag = 0 /\ ~Live(sources'[s])
      BY <3>1 DEF ClearSource, Live
    <3>3. TagsInv'
      BY <1>1, <2>1, <3>1, <3>2, TagsKept
    <3>4. LiveTags' \in {LiveTags, LiveTags \ {Calling}}
      <4>1. CASE Live(sources[s])
        BY <1>1, <2>2, <3>1, <3>2, <4>1, OneLess DEF IInv
      <4>2. CASE ~Live(sources[s])
        BY <3>1, <3>2, <4>2, SameLive
      <4>3. QED BY <4>1, <4>2
    <3>5. QED BY <2>1, <2>2, <3>3, <3>4, RegistrySteps DEF Refines
  <2>5. ASSUME sources' = [sources EXCEPT ![s] = Rearmed(@)] \/ sources' = [sources EXCEPT ![s].out = FALSE] \/ sources' = sources
        PROVE  Refines
    <3>1. /\ sources'[s].tag = sources[s].tag /\ sources'[s].type = sources[s].type
          /\ \A r \in Slots : r # s => sources'[r] = sources[r]
      BY <1>1, <2>5 DEF TypeOK, Source, Rearmed
    <3>2. Live(sources'[s]) <=> Live(sources[s])
      BY <3>1 DEF Live
    <3>3. LiveTags' = LiveTags
      BY <3>1, <3>2, SameLive
    <3>4. TagsInv'
      BY <1>1, <2>1, <3>1, TagsKept
    <3>5. QED BY <2>1, <2>2, <3>3, <3>4, RegistrySteps DEF Refines
  <2>6. sources' = AfterReturn(s, ret) => sources' = Cleared(sources, s) \/ sources' = [sources EXCEPT ![s] = Rearmed(@)]
                                          \/ sources' = [sources EXCEPT ![s].out = FALSE] \/ sources' = sources
    BY DEF AfterReturn
  <2>7. QED BY <2>3, <2>4, <2>5, <2>6
<1>4. QED BY <1>2, <1>3

\* A call of the handler of a live slot
LEMMA CallRefines ==
  ASSUME IInv, TagsInv, NEW s \in Slots, Live(sources[s]), cb.slot = 0, cb'.slot = s,
         sources' = sources, last_tag' = last_tag
  PROVE  Refines
<1>1. TagsInv'
  BY TagsKept DEF IInv
<1>2. LiveTags' = LiveTags
  BY SameLive
<1>3. s # 0
  BY SysAssumption DEF Slots
<1>4. Calling = 0 /\ Calling' = sources[s].tag /\ Calling' \in LiveTags
  BY <1>3 DEF Calling, LiveTags
<1>5. QED BY <1>1, <1>2, <1>4, RegistrySteps DEF Refines

LEMMA LoopRefines == ASSUME IInv, TagsInv, LoopStep PROVE Refines
<1> USE DEF loop, poll_vars, env, table
<1>a. TypeOK /\ \A s \in i..NSOURCES : s \in Slots
  BY SysAssumption DEF IInv, TypeOK, Slots
<1>b. ASSUME UNCHANGED <<sources, last_tag, cb>> PROVE Refines
  BY <1>b, SameRefines
<1>1. CASE Start \/ LoopTop \/ PollNothing \/ IoDone \/ WaitPid \/ ChildDone \/ WaitDone \/ QuitDone
  BY <1>1, <1>b DEF Start, LoopTop, PollNothing, IoDone, WaitPid, ChildDone, WaitDone, QuitDone
<1>2. CASE TimerCall
  <2>1. First(DueSlots) \in Slots /\ sources[First(DueSlots)].type = "TIMEOUT"
    BY <1>2, <1>a, FirstSlot DEF TimerCall, DueSlots
  <2>2. cb.slot = 0 /\ cb'.slot = First(DueSlots) /\ sources' = sources /\ last_tag' = last_tag
    BY <1>2 DEF TimerCall, CallHandler
  <2>3. QED BY <2>1, <2>2, CallRefines DEF Live
<1>3. CASE PollSetup
  <2>1. sources' = [s \in Slots |-> IF sources[s].type = "REMOVED" THEN ClearSource ELSE sources[s]]
        /\ last_tag' = last_tag /\ cb' = cb /\ cb.slot = 0
    BY <1>3 DEF PollSetup
  <2>2. ASSUME NEW s \in Slots
        PROVE  /\ sources'[s].tag = sources[s].tag \/ sources'[s].tag = 0
               /\ Live(sources'[s]) <=> Live(sources[s])
               /\ Live(sources[s]) => sources'[s].tag = sources[s].tag
    BY <2>1 DEF Live, ClearSource
  <2>3. TagsInv'
    BY <1>a, <2>1, <2>2, TagsKept
  <2>4. LiveTags' = LiveTags
    BY <2>2, SameLive
  <2>5. Calling' = Calling
    BY <2>1 DEF Calling
  <2>6. QED BY <2>1, <2>3, <2>4, <2>5, RegistrySteps DEF Refines
<1>4. CASE IoDispatch
  <2> DEFINE s == First(IoSlots)
  <2>1. s \in Slots /\ sources[s].type = "IO"
    BY <1>4, <1>a, FirstSlot DEF IoDispatch, IoSlots
  <2>2. cb.slot = 0 /\ (cb'.slot = s \/ cb' = cb) /\ sources' = sources /\ last_tag' = last_tag
    BY <1>4 DEF IoDispatch, CallHandler
  <2> HIDE DEF s
  <2>3. CASE cb'.slot = s
    BY <2>1, <2>2, <2>3, CallRefines DEF Live
  <2>4. QED BY <1>b, <2>2, <2>3
<1>5. CASE ChildCall
  <2>1. First(ChildSlots) \in Slots /\ sources[First(ChildSlots)].type = "CHILD"
    BY <1>5, <1>a, FirstSlot DEF ChildCall, ChildSlots
  <2>2. cb.slot = 0 /\ cb'.slot = First(ChildSlots) /\ sources' = sources /\ last_tag' = last_tag
    BY <1>5 DEF ChildCall, CallHandler
  <2>3. QED BY <2>1, <2>2, CallRefines DEF Live
<1>6. CASE QuitCall
  <2>1. First(QuitSlots) \in Slots /\ sources[First(QuitSlots)].type = "QUIT"
    BY <1>6, <1>a, FirstSlot DEF QuitCall, QuitSlots
  <2>2. cb.slot = 0 /\ cb'.slot = First(QuitSlots) /\ sources' = sources /\ last_tag' = last_tag
    BY <1>6 DEF QuitCall, CallHandler
  <2>3. QED BY <2>1, <2>2, CallRefines DEF Live
<1>7. QED BY <1>1, <1>2, <1>3, <1>4, <1>5, <1>6 DEF LoopStep

LEMMA EnvRefines == ASSUME IInv, TagsInv, PollEvents \/ SysQuit \/ Tick \/ (\E p \in Pids : ChildExit(p)) \/ UNCHANGED vars
                    PROVE  Refines
<1>1. UNCHANGED <<sources, last_tag, cb>>
  BY DEF PollEvents, SysQuit, Tick, ChildExit, vars, table, loop, poll_vars, env
<1>2. QED BY <1>1, SameRefines

\* The event loop implements the registry of sources that the rest of HAKit relies on: what is
\* called is live, one source at a time, and a tag that was removed never designates another.
THEOREM LoopImplementsRegistry == Spec => RegistryKept
<1>1. Init => Registry!Init /\ TagsInv
  <2> SUFFICES ASSUME Init PROVE Registry!Init /\ TagsInv
    OBVIOUS
  <2>1. \A s \in Slots : sources[s].tag = 0 /\ ~Live(sources[s])
    BY DEF Init, ClearSource, Live
  <2>2. last_tag = 0 /\ cb.slot = 0
    BY DEF Init, NoCall
  <2>3. QED BY <2>1, <2>2 DEF Registry!Init, TagsInv
<1>2. IInv /\ TagsInv /\ [Next]_vars => TagsInv' /\ [Registry!Next]_Registry!svars
  BY ApiRefines, ReturnRefines, LoopRefines, EnvRefines DEF Next, Refines
<1>3. QED BY <1>1, <1>2, Inductive, PTL DEF Spec, RegistryKept, Registry!Spec
=============================================================================
