------------------------------- MODULE Serial -------------------------------
(***************************************************************************)
(* The class serial: a tty that is plugged and unplugged, opened by the    *)
(* object or at the demand of its pad connect, read by the event loop, and *)
(* watched by a thread that waits for changes of the modem lines and hands *)
(* them to the event loop through a message queue.  One field, timeout_tag,*)
(* holds the retry timer and the debounce timer.  The bytes received and   *)
(* sent, and the levels of RTS and DTR, are left out.                      *)
(***************************************************************************)
EXTENDS Integers, Sequences, FiniteSets, SequencesExt

CONSTANTS Configs,      \* the objects that may be created, see SerialAssumption
          Lines,        \* the levels of the modem lines: the flags of serial_modem_get
          QueueSize     \* mq_maxmsg

Failed == -1            \* what serial_modem_get returns on an error
SerialAssumption ==
  /\ Lines \subseteq Nat /\ Lines # {} /\ QueueSize \in Nat \ {0}
  /\ \A c \in Configs : c \in [bytes : BOOLEAN,     \* txd or rxd is wired: not io_only
                               connect : {"free", "wired", "preset"},  \* the pad connect; preset: to 1
                               modem : BOOLEAN,     \* a modem output is wired
                               debounce : BOOLEAN,  \* debounce_delay > 0
                               signed : BOOLEAN]    \* char is signed, as the target has it
ASSUME SerialAssumption

VARIABLES conf,         \* the object
          dev,          \* plugged: whether the device is there; lines: its modem lines
          tty,          \* the fields of ctx_t, see Init
          fds,          \* the open descriptors: number, whether watched, whether unplugged since
          live,         \* the timers in the event loop: tag and handler
          thr,          \* the threads: known (ctx->thr), the descriptor they were created with,
                        \* the one they wait on, what they do, the flags read
          mq,           \* the message queue: messages, created, watched
          pads,         \* connected, and the modem outputs as one set of flags
          seen          \* history: connect as last received; missed: a change of the lines was
                        \* missed or may be overwritten; twice: opened while it was open

vars == <<conf, dev, tty, fds, live, thr, mq, pads, seen>>

Init == /\ conf \in Configs
        /\ dev \in [plugged : BOOLEAN, lines : Lines]
        /\ tty = [started |-> FALSE, fd |-> 0, watch |-> 0, func |-> FALSE, tag |-> 0,
                  ok |-> FALSE, flags |-> 0]
        /\ fds = {} /\ live = {} /\ thr = {}
        /\ mq = [msgs |-> <<>>, made |-> FALSE, watched |-> FALSE]
        /\ pads = [connected |-> 0, modem |-> 0]
        /\ seen = [connect |-> FALSE, missed |-> FALSE, twice |-> FALSE]
-----------------------------------------------------------------------------
(* The functions of the class, from a machine to a machine                 *)

M == [tty |-> tty, fds |-> fds, live |-> live, thr |-> thr, mq |-> mq, pads |-> pads,
      missed |-> seen.missed, twice |-> seen.twice]
Becomes(n) == \E m \in {n} : /\ tty' = m.tty /\ fds' = m.fds /\ live' = m.live
                              /\ thr' = m.thr /\ mq' = m.mq /\ pads' = m.pads

\* The least number that is not taken stands for descriptors and tags.
Unused(S) == CHOOSE n \in 1..(Cardinality(S) + 1) : n \notin S
io_only(m) == m.tty.started /\ ~conf.bytes

Arm(m, handler) ==
  LET tag == Unused({t.tag : t \in m.live} \cup {m.tty.tag})
  IN [m EXCEPT !.tty.tag = tag, !.live = @ \cup {[tag |-> tag, handler |-> handler]}]
TimeoutClear(m) == [m EXCEPT !.live = {t \in @ : t.tag # m.tty.tag}, !.tty.tag = 0]

\* io_channel_setup, or the descriptor alone in io_only mode
Channel(m, fd) ==
  IF io_only(m)
  THEN [m EXCEPT !.tty.fd = fd, !.fds = @ \cup {[fd |-> fd, watched |-> FALSE, dead |-> FALSE]}]
  ELSE [m EXCEPT !.tty.fd = fd, !.tty.watch = fd, !.tty.func = TRUE,
                 !.fds = @ \cup {[fd |-> fd, watched |-> TRUE, dead |-> FALSE]}]

\* tty_thread_init: the queue is created and watched once and for all.
ThreadInit(m) == IF m.mq.made THEN m ELSE [m EXCEPT !.mq.made = TRUE, !.mq.watched = TRUE]

\* pthread_create.  The new thread is taken to run only after tty_connect has set thr_ok.
Watcher(m) ==
  [m EXCEPT !.tty.ok = TRUE,
            !.thr = {[t EXCEPT !.known = FALSE] : t \in @}
                    \cup {[known |-> TRUE, id |-> m.tty.fd, fd |-> m.tty.fd, does |-> "wait", flags |-> 0]}]

NewFd(m) == Unused({f.fd : f \in m.fds} \cup {t.fd : t \in m.thr} \cup {t.id : t \in m.thr})

\* tty_connect, of a device that is there.  What the queue or a debounce timer still hold for
\* the modem outputs is older than what is shown now.
TtyConnect_LinesNotRead(m) ==
  LET m1 == Channel(m, NewFd(m))
      m2 == [m1 EXCEPT !.pads.connected = 1, !.tty.ok = FALSE]
  IN IF conf.modem THEN Watcher(ThreadInit(m2)) ELSE m2
TtyConnect(m) ==
  LET m1 == Channel(m, NewFd(m))
      m2 == [m1 EXCEPT !.pads.connected = 1, !.pads.modem = dev.lines, !.tty.ok = FALSE,
                       !.missed = m.mq.msgs # <<>> \/ \E t \in m.live : t.handler = "debounce"]
  IN IF conf.modem THEN Watcher(ThreadInit(m2)) ELSE m2

\* tty_open.  To open a tty that is open or being retried leaves a descriptor or a timer that
\* the object does not know of; the model allows it once (twice).
Again(m) == m.tty.fd # 0 \/ \E t \in m.live : t.handler = "retry"
TtyOpen(m) ==
  LET m1 == [m EXCEPT !.twice = @ \/ Again(m)]
  IN IF dev.plugged THEN TtyConnect(m1) ELSE Arm(m1, "retry")

\* io_channel_close: the watch, then the descriptor
ChannelClose(m) ==
  [m EXCEPT !.fds = {[f EXCEPT !.watched = @ /\ f.fd # m.tty.watch] :
                       f \in {g \in m.fds : g.fd # m.tty.fd}},
            !.tty.fd = 0, !.tty.watch = 0, !.tty.func = FALSE]

TtyClose_NotCancelled(m) == [ChannelClose(m) EXCEPT !.pads.connected = 0]
TtyClose(m) ==
  LET m1 == IF m.tty.ok THEN [m EXCEPT !.thr = {t \in @ : ~t.known}, !.tty.ok = FALSE]
            ELSE m
  IN [ChannelClose(m1) EXCEPT !.pads.connected = 0]

TtyHangup_NoRetry(m) == TtyClose(TimeoutClear(m))
TtyHangup(m) == Arm(TtyClose(TimeoutClear(m)), "retry")

\* tty_thread_recv, once a message is received.  A signed char is never equal to 0xFF, and
\* the handler of an i/o source that returns 0 is not watched any more.
ThreadRecv(m, flags) ==
  CASE flags = Failed /\ ~conf.signed ->
         [(IF io_only(m) THEN TtyHangup(m) ELSE m) EXCEPT !.mq.watched = FALSE]
    [] ~(flags = Failed /\ ~conf.signed) /\ conf.debounce ->
         Arm([TimeoutClear(m) EXCEPT !.tty.flags = flags], "debounce")
    [] ~(flags = Failed /\ ~conf.signed) /\ ~conf.debounce -> [m EXCEPT !.pads.modem = flags]
-----------------------------------------------------------------------------
(* The event loop                                                          *)

Sees(m) == seen' = [seen EXCEPT !.missed = m.missed, !.twice = m.twice]

\* _start: with connect wired it looks at the pad connected, whose state nobody sets.
Start ==
  /\ ~tty.started
  /\ LET m == [M EXCEPT !.tty.started = TRUE]
         m1 == IF conf.connect = "wired" THEN m ELSE TtyOpen(m)
     IN Becomes(m1) /\ Sees(m1)
  /\ UNCHANGED <<conf, dev>>

\* _input of the pad connect, wired or preset; it may come before the start.
Connect ==
  /\ conf.connect = "wired" \/ (conf.connect = "preset" /\ ~tty.started /\ ~seen.connect)
  /\ ~(Again(M) /\ seen.twice) /\ Becomes(TtyOpen(M))
  /\ seen' = [connect |-> TRUE, missed |-> TtyOpen(M).missed, twice |-> TtyOpen(M).twice]
  /\ UNCHANGED <<conf, dev>>
Disconnect ==
  /\ conf.connect = "wired"
  /\ Becomes(TtyClose(M)) /\ seen' = [seen EXCEPT !.connect = FALSE]
  /\ UNCHANGED <<conf, dev>>

\* A descriptor of a device that went away is read: the channel it belongs to hangs up, which
\* may have another descriptor by now, or none.
IoHangup(f) ==
  /\ f.watched /\ f.dead /\ tty.started
  /\ LET m == IF tty.func THEN TtyHangup(M) ELSE M
     IN Becomes([m EXCEPT !.fds = {IF g.fd = f.fd THEN [g EXCEPT !.watched = FALSE] ELSE g : g \in @}])
  /\ UNCHANGED <<conf, dev, seen>>

\* tty_retry_cb
RetryFires(t) ==
  /\ t.handler = "retry" /\ tty.started
  /\ LET m == [TtyConnect([M EXCEPT !.live = @ \ {t}]) EXCEPT !.tty.tag = 0]
     IN IF dev.plugged THEN Becomes(m) /\ Sees(m)
        ELSE UNCHANGED <<tty, fds, live, thr, mq, pads, seen>>
  /\ UNCHANGED <<conf, dev>>

\* tty_debounce_cb
DebounceFires(t) ==
  /\ t.handler = "debounce" /\ tty.started
  /\ Becomes([M EXCEPT !.live = @ \ {t}, !.tty.tag = 0, !.pads.modem = tty.flags])
  /\ UNCHANGED <<conf, dev, seen>>

Receive ==
  /\ mq.watched /\ mq.msgs # <<>> /\ tty.started
  /\ Becomes(ThreadRecv([M EXCEPT !.mq.msgs = Tail(@)], Head(mq.msgs)))
  /\ UNCHANGED <<conf, dev, seen>>
-----------------------------------------------------------------------------
(* The thread, and the device                                              *)

Turned(t, does, fd, flags) == (thr \ {t}) \cup {[t EXCEPT !.does = does, !.fd = fd, !.flags = flags]}
Gone(fd) == \A f \in fds : f.fd = fd => f.dead

\* serial_modem_wait ends: a line changed, or the device went away; then the lines are read.
ThreadReads(t) ==
  /\ t.does = "woken" \/ (t.does = "wait" /\ Gone(t.fd))
  /\ thr' = Turned(t, "post", t.fd, IF Gone(t.fd) THEN Failed ELSE dev.lines)
  /\ seen' = [seen EXCEPT !.missed = @ /\ (~t.known \/ Gone(t.fd))]
  /\ UNCHANGED <<conf, dev, tty, fds, live, mq, pads>>

\* mq_send does not wait.  The thread ends on an error of either, and takes thr_ok with it.
\* Otherwise it waits again, on the descriptor that the object has by now.
Posts(t) == t.does = "post" /\ Len(mq.msgs) < QueueSize
ThreadPosts(t) ==
  /\ t.does = "post"
  /\ mq' = IF Posts(t) THEN [mq EXCEPT !.msgs = Append(@, t.flags)] ELSE mq
  /\ IF Posts(t) /\ t.flags # Failed
     THEN thr' = Turned(t, "wait", tty.fd, 0) /\ UNCHANGED tty
     ELSE thr' = thr \ {t} /\ tty' = [tty EXCEPT !.ok = FALSE]
  /\ UNCHANGED <<conf, dev, fds, live, pads, seen>>

\* TIOCMIWAIT ends for the threads that wait; a change that finds the thread elsewhere is
\* noticed only if it has not read the lines yet.
LinesChange ==
  /\ \E lines \in Lines \ {dev.lines} : dev' = [dev EXCEPT !.lines = lines]
  /\ dev.plugged
  /\ thr' = {IF t.does = "wait" THEN [t EXCEPT !.does = "woken"] ELSE t : t \in thr}
  /\ seen' = [seen EXCEPT !.missed = @ \/ \A t \in thr : t.known => t.does = "post"]
  /\ UNCHANGED <<conf, tty, fds, live, mq, pads>>

Unplug == /\ dev.plugged /\ dev' = [dev EXCEPT !.plugged = FALSE]
          /\ fds' = {[f EXCEPT !.dead = TRUE] : f \in fds}
          /\ UNCHANGED <<conf, tty, live, thr, mq, pads, seen>>
Plug == /\ ~dev.plugged /\ dev' = [dev EXCEPT !.plugged = TRUE]
        /\ UNCHANGED <<conf, tty, fds, live, thr, mq, pads, seen>>

Next == \/ Start \/ Connect \/ Disconnect \/ Receive \/ LinesChange \/ Unplug \/ Plug
        \/ \E f \in fds : IoHangup(f)
        \/ \E t \in live : RetryFires(t) \/ DebounceFires(t)
        \/ \E t \in thr : ThreadReads(t) \/ ThreadPosts(t)

Spec == Init /\ [][Next]_vars

\* The loop does not stop while a descriptor is at its end, or a retry has something to open.
Dispatch == (\E f \in fds : IoHangup(f)) \/ (\E t \in live : RetryFires(t))
FairSpec == Spec /\ WF_vars(Dispatch)
-----------------------------------------------------------------------------
(* Properties                                                              *)

Flags == Lines \cup {Failed}
TypeOK ==
  /\ conf \in Configs /\ dev \in [plugged : BOOLEAN, lines : Lines]
  /\ tty \in [started : BOOLEAN, fd : Nat, watch : Nat, func : BOOLEAN, tag : Nat,
              ok : BOOLEAN, flags : Flags \cup {0}]
  /\ fds \in SUBSET [fd : Nat \ {0}, watched : BOOLEAN, dead : BOOLEAN]
  /\ live \in SUBSET [tag : Nat \ {0}, handler : {"retry", "debounce"}]
  /\ thr \in SUBSET [known : BOOLEAN, id : Nat \ {0}, fd : Nat, does : {"wait", "woken", "post"},
                     flags : Flags \cup {0}]
  /\ mq \in [msgs : Seq(Flags), made : BOOLEAN, watched : BOOLEAN] /\ Len(mq.msgs) <= QueueSize
  /\ pads \in [connected : {0, 1}, modem : Flags \cup {0}]
  /\ seen \in [connect : BOOLEAN, missed : BOOLEAN, twice : BOOLEAN]

\* Whether the object is asked to have its device open
Wanted == tty.started /\ (conf.connect = "wired" => seen.connect)

\* A tty that is wanted and is not open is being retried.  main.c says so where it hangs up
\* ("Start connect watch timer"), but a message of the thread that is received later takes
\* the retry timer for a debounce timer and removes it.
RetryArmed == Wanted /\ tty.fd = 0 => \E t \in live : t.handler = "retry"

\* The pad connected tells whether a descriptor is open; a descriptor or a thread that the
\* object does not know of, which a hang-up would neither close nor cancel, is left only by
\* opening a tty that is open or being retried; and a wanted tty is never given up.  With
\* debounce, timers get lost and the last two do not hold.
SerialSound ==
  /\ TypeOK
  /\ pads.connected = 1 <=> tty.fd # 0
  /\ tty.fd # 0 => tty.fd \in {f.fd : f \in fds}
  /\ ~seen.twice /\ ~conf.debounce =>
                    /\ \A f \in fds : f.fd = tty.fd
                    /\ \A t \in thr : t.fd = tty.fd /\ t.known /\ tty.ok
  /\ ~conf.debounce => RetryArmed

\* Once the thread is back in its wait and its messages are received, the modem outputs are the
\* lines, through losses, cancelled threads and reconnections - unless a change came between
\* reading the lines and waiting again, a message of an earlier connection was still to come,
\* or threads of an earlier opening post theirs.
ModemShown ==
  /\ conf.modem /\ dev.plugged /\ tty.fd # 0 /\ \A f \in fds : ~f.dead
  /\ mq.watched /\ mq.msgs = <<>> /\ \A t \in live : t.handler # "debounce"
  /\ thr # {} /\ \A t \in thr : t.known /\ t.does = "wait"
  /\ ~seen.missed /\ ~seen.twice
  => pads.modem = dev.lines

\* A device that is wanted and stays plugged is open and answers in the end, whatever hung up
\* before.  Not with debounce, see RetryArmed; not without txd and rxd, where a hang-up is
\* known from the thread only.
Alive == \E f \in fds : f.fd = tty.fd /\ ~f.dead
Reconnects == conf.bytes /\ ~conf.debounce /\ Wanted /\ dev.plugged
                ~> Alive \/ ~Wanted \/ ~dev.plugged
=============================================================================
