------------------------------ MODULE Clients ------------------------------
(***************************************************************************)
(* The serving side of the engine: the clients of the HKCP port, kept in   *)
(* the table of data sockets of the TCP server, and the sessions of the    *)
(* WebSocket.  Each sends lines of commands, which arrive cut anywhere,    *)
(* and each is told of the values of the endpoints while they change: a    *)
(* TCP client from the command watch on, a session from the moment it is   *)
(* established.  The application is one sink that drives a public source,  *)
(* and a local source.  Names, wording, authentication and TLS are left    *)
(* out.                                                                    *)
(***************************************************************************)
EXTENDS Integers, Sequences, FiniteSets, SequencesExt

CONSTANTS Tcp, Ws,      \* the clients of the HKCP port, and of the WebSocket
          Parties,      \* bound: which of them may call in one run of the engine
          MaxClients,   \* TCP_SRV_MAX_CLIENTS
          Commands,     \* the commands they may send, see AllCommands
          MaxInputs     \* how many commands and updates there are in all

AllCommands == {"on", "off",        \* watch
                "set 0", "set 1", "get", "sinks", "sources",
                ".",                \* what begins with a dot
                "bad"}              \* anything else: one answer, with or without error
ClientsAssumption == /\ Tcp \cap Ws = {} /\ MaxClients \in Nat \ {0} /\ Commands \subseteq AllCommands
                     /\ MaxInputs \in Nat /\ Parties \subseteq SUBSET (Tcp \cup Ws)
ASSUME ClientsAssumption

VARIABLES val,          \* the value of each endpoint
          listening,    \* whether the service socket is open
          ch,           \* the data sockets, and the data of each session
          sessions,     \* server->sessions
          peer,         \* the clients: "new", "there" or "gone"
          inbox,        \* what they sent and the engine has not read
          owed,         \* the commands they sent whose answer they have not read
          view,         \* the last value they read of each endpoint
          inputs

vars == <<val, listening, ch, sessions, peer, inbox, owed, view, inputs>>
service == <<val, listening, ch, sessions>>

Endpoints == {"sink", "public", "local"}
Sources == {"public", "local"}
Unknown == -1
Nothing == [e \in Endpoints |-> Unknown]
None == "none"
People == Tcp \cup Ws
Slots == 1..MaxClients
Channels == Slots \cup Ws
Free == [client |-> None, watch |-> FALSE, line |-> <<>>, out |-> <<>>, wake |-> FALSE]

Init == /\ val = [e \in Endpoints |-> 0]
        /\ listening = TRUE
        /\ ch = [k \in Channels |-> Free] /\ sessions = <<>>
        /\ \E party \in Parties : peer = [c \in People |-> IF c \in party THEN "new" ELSE "gone"]
        /\ inbox = [c \in People |-> <<>>] /\ owed = [c \in People |-> <<>>]
        /\ view = [c \in People |-> Nothing]
        /\ inputs = 0
-----------------------------------------------------------------------------
(* What a channel is told, from a machine to a machine                     *)

M == [val |-> val, ch |-> ch]
Busy(m, k) == m.ch[k].client # None
ChannelOf(c) == CHOOSE k \in Channels : ch[k].client = c
Served(c) == \E k \in Channels : ch[k].client = c

Event(e, v) == <<"event", e, v>>
Value(e, v) == <<"value", e, v>>
Answer(cmd) == <<"answer", cmd, 0>>

\* tcp_sock_write, which asks for the write event if there is something to write, and an
\* addition to the buffer of a session, whose caller asks
Say(m, k, msgs) ==
  [m EXCEPT !.ch[k].out = @ \o msgs,
            !.ch[k].wake = IF k \in Slots /\ m.ch[k].out \o msgs # <<>> THEN TRUE ELSE @]
Tell(m, ks, msg) ==
  [m EXCEPT !.ch = [k \in Channels |-> IF k \in ks THEN Say(m, k, <<msg>>).ch[k] ELSE m.ch[k]]]

\* The end of hkcp_source_update: the clients that watch
Watchers(m) == {k \in Slots : Busy(m, k) /\ m.ch[k].watch}

\* comm_ws_send and ws_events_send: every session of the table, then all are asked to write.
CommWsSend(m, e) ==
  LET told == Tell(m, {k \in Ws : k \in Range(sessions)}, Event(e, m.val[e]))
  IN [told EXCEPT !.ch = [k \in Channels |-> [@[k] EXCEPT !.wake = @ \/ (k \in Ws /\ Busy(m, k))]]]

\* comm_source_update_str
SourceUpdate(m, e, v) ==
  LET m1 == [m EXCEPT !.val[e] = v]
      m2 == IF e = "public" THEN Tell(m1, Watchers(m1), Event(e, v)) ELSE m1
  IN CommWsSend(m2, e)

\* hk_sink_update: the class sink drives the public source, then the sessions are told.
SinkUpdate(m, v) == CommWsSend(SourceUpdate([m EXCEPT !.val["sink"] = v], "public", v), "sink")
-----------------------------------------------------------------------------
(* Commands                                                                *)

\* Whether a client gets an answer.  A command set that succeeds has none; a dot is ignored
\* from a TCP client, and unknown from a session, as is watch.
Answered(c, cmd) == cmd \notin {"set 0", "set 1"} /\ (cmd = "." => c \in Ws)

\* The endpoints a command dumps: get all sources, then all sinks, the others the public ones.
Get == <<"public", "local", "sink">>
Listing(cmd) == CASE cmd = "get" -> Get [] cmd = "sources" -> <<"public">> [] cmd = "sinks" -> <<"sink">>
                  [] OTHER -> <<>>
Dump(m, es) == [i \in DOMAIN es |-> Value(es[i], m.val[es[i]])]

HkcpCommand(m, k, cmd) ==
  CASE cmd = "set 0" -> SinkUpdate(m, 0)
    [] cmd = "set 1" -> SinkUpdate(m, 1)
    [] OTHER -> Say(m, k, Append(Dump(m, Listing(cmd)), Answer(cmd)))

\* hkcp_command_watch: the answer comes first, then all sources, local ones too.
Watch(m, k, cmd) ==
  Say([m EXCEPT !.ch[k].watch = (cmd = "on")], k,
      <<Answer(cmd)>> \o IF cmd = "on" THEN <<Event("public", m.val["public"]),
                                              Event("local", m.val["local"])>> ELSE <<>>)

\* hkcp_command_tcp and comm_command_ws
Execute(m, k, cmd) == IF k \in Slots /\ cmd = "." THEN m
                      ELSE IF k \in Slots /\ cmd \in {"on", "off"} THEN Watch(m, k, cmd)
                      ELSE HkcpCommand(m, k, cmd)

\* A command is sent as two halves, the second with the end of the line.
Halves(cmd) == <<<<cmd, 1>>, <<cmd, 2>>>>
Understood(line) == IF \E cmd \in AllCommands : line = Halves(cmd) THEN Head(line)[1] ELSE "bad"

\* command_recv, for one half: the line is complete, or grows.
Line(m, k, half) ==
  LET line == Append(m.ch[k].line, half)
  IN IF half[2] = 1 THEN [m EXCEPT !.ch[k].line = line]
     ELSE [Execute(m, k, Understood(line)) EXCEPT !.ch[k].line = <<>>]
CommandRecv(m, k, halves) == FoldLeft(LAMBDA x, half : Line(x, k, half), m, halves)
-----------------------------------------------------------------------------
(* The engine                                                              *)

Becomes(n) == \E m \in {n} : val' = m.val /\ ch' = m.ch

\* The clients that lose their connection: what they know does not matter any more.
Cut(cs) == /\ peer' = [c \in People |-> IF c \in cs THEN "gone" ELSE peer[c]]
           /\ owed' = [c \in People |-> IF c \in cs THEN <<>> ELSE owed[c]]
           /\ view' = [c \in People |-> IF c \in cs THEN Nothing ELSE view[c]]

\* hkcp_command_ctx_new, for a socket that was set up with an empty buffer
CommandCtxNew_LineKept(k, c) == [ch[k] EXCEPT !.client = c, !.watch = FALSE]
CommandCtxNew(k, c) == [ch[k] EXCEPT !.client = c, !.watch = FALSE, !.line = <<>>]

\* Clients call in an order that does not matter, each once.
NextOf(S) == CHOOSE c \in S : peer[c] = "new"
Calls(S) == \E c \in S : peer[c] = "new"

\* tcp_srv_csock_accept takes the first free data socket.
FreeSlots == {k \in Slots : ch[k].client = None}
Accept ==
  /\ listening /\ Calls(Tcp) /\ FreeSlots # {}
  /\ LET c == NextOf(Tcp)
         k == CHOOSE k \in FreeSlots : \A j \in FreeSlots : k <= j
     IN /\ ch' = [ch EXCEPT ![k] = CommandCtxNew(k, c)]
        /\ peer' = [peer EXCEPT ![c] = "there"]
  /\ UNCHANGED <<val, listening, sessions, inbox, owed, view, inputs>>

\* With no free data socket, or when accept() fails, tcp_srv_csock_event shuts the server down
\* for good.
Shutdown ==
  /\ listening /\ Calls(Tcp)
  /\ listening' = FALSE
  /\ ch' = [k \in Channels |-> IF k \in Slots
                                THEN [ch[k] EXCEPT !.client = None, !.out = <<>>, !.wake = FALSE]
                                ELSE ch[k]]
  /\ Cut({NextOf(Tcp)} \cup {c \in Tcp : peer[c] = "there"})
  /\ UNCHANGED <<val, sessions, inbox, inputs>>

\* ws_session_add and ws_session_remove
SessionAdd(c) ==
  LET holes == {i \in DOMAIN sessions : sessions[i] = None}
  IN IF holes = {} THEN Append(sessions, c)
     ELSE [sessions EXCEPT ![CHOOSE i \in holes : \A j \in holes : i <= j] = c]
SessionRemove_Kept(c) == sessions
SessionRemove(c) == [i \in DOMAIN sessions |-> IF sessions[i] = c THEN None ELSE sessions[i]]

\* LWS_CALLBACK_ESTABLISHED
Established ==
  /\ Calls(Ws)
  /\ LET c == NextOf(Ws)
     IN /\ ch' = [ch EXCEPT ![c] = [Free EXCEPT !.client = c]]
        /\ sessions' = SessionAdd(c)
        /\ peer' = [peer EXCEPT ![c] = "there"]
  /\ UNCHANGED <<val, listening, inbox, owed, view, inputs>>

\* TCP_IO_DATA and LWS_CALLBACK_RECEIVE of some of what was sent; a session is asked to write.
RecvEvent(m, k) == IF k \in Ws THEN [m EXCEPT !.ch[k].wake = TRUE] ELSE m
Read(k) ==
  /\ ch[k].client # None
  /\ LET c == ch[k].client
     IN \E n \in 1..Len(inbox[c]) :
          /\ Becomes(RecvEvent(CommandRecv(M, k, SubSeq(inbox[c], 1, n)), k))
          /\ inbox' = [inbox EXCEPT ![c] = SubSeq(@, n + 1, Len(@))]
  /\ UNCHANGED <<listening, sessions, peer, owed, view, inputs>>

\* tcp_sock_shutdown_ after TCP_IO_HUP, or LWS_CALLBACK_CLOSED
Close(k) ==
  /\ ch' = [ch EXCEPT ![k] = [@ EXCEPT !.client = None, !.out = <<>>, !.wake = FALSE]]
  /\ sessions' = IF k \in Ws THEN SessionRemove(k) ELSE sessions
  /\ UNCHANGED <<val, listening, peer, inbox, owed, view, inputs>>

\* The end of the connection is read, or a write to it fails; what it sent last may be lost.
HangUp(k) == /\ ch[k].client # None /\ peer[ch[k].client] = "gone"
             /\ Close(k)

\* What a client that is there reads
Told(msgs, e) == {i \in DOMAIN msgs : msgs[i][2] = e}
LastWord(msgs, e, v) == IF Told(msgs, e) = {} THEN v
                        ELSE msgs[CHOOSE i \in Told(msgs, e) : \A j \in Told(msgs, e) : j <= i][3]
AnswersIn(msgs) == LET answers == SelectSeq(msgs, LAMBDA msg : msg[1] = "answer")
                   IN [i \in DOMAIN answers |-> answers[i][2]]
Reads(c, msgs) ==
  IF peer[c] # "there" THEN UNCHANGED <<view, owed>>
  ELSE /\ view' = [view EXCEPT ![c] = [e \in Endpoints |-> LastWord(msgs, e, @[e])]]
       /\ owed' = [owed EXCEPT ![c] = SubSeq(@, Len(AnswersIn(msgs)) + 1, Len(@))]

\* tcp_sock_write_event writes a part and goes on; LWS_CALLBACK_SERVER_WRITEABLE writes all.
Shifted_AllSent(k, n) == <<>>
Shifted(k, n) == SubSeq(ch[k].out, n + 1, Len(ch[k].out))
Write(k) ==
  /\ ch[k].wake
  /\ \E n \in 0..Len(ch[k].out) :
       /\ n > 0 \/ ch[k].out = <<>>
       /\ k \in Ws => n = Len(ch[k].out)
       /\ ch' = [ch EXCEPT ![k].out = Shifted(k, n), ![k].wake = Shifted(k, n) # <<>>]
       /\ Reads(ch[k].client, SubSeq(ch[k].out, 1, n))
  /\ UNCHANGED <<val, listening, sessions, peer, inbox, inputs>>

\* The application updates the local source.
Update(v) == /\ inputs < MaxInputs /\ inputs' = inputs + 1
             /\ Becomes(SourceUpdate(M, "local", v))
             /\ UNCHANGED <<listening, sessions, peer, inbox, owed, view>>
-----------------------------------------------------------------------------
(* The clients                                                             *)

Send(c, cmd) ==
  /\ peer[c] = "there" /\ inputs < MaxInputs /\ inputs' = inputs + 1
  /\ inbox' = [inbox EXCEPT ![c] = @ \o Halves(cmd)]
  /\ owed' = IF Answered(c, cmd) THEN [owed EXCEPT ![c] = Append(@, cmd)] ELSE owed
  /\ UNCHANGED <<service, peer, view>>
Leave(c) == /\ peer[c] = "there" /\ Cut({c})
            /\ UNCHANGED <<service, inbox, inputs>>

Next == \/ Accept \/ Shutdown \/ Established
        \/ \E k \in Channels : Read(k) \/ Write(k) \/ HangUp(k)
        \/ \E v \in {0, 1} : Update(v)
        \/ \E c \in People : Leave(c) \/ \E cmd \in Commands : Send(c, cmd)

Spec == Init /\ [][Next]_vars
-----------------------------------------------------------------------------
TypeOK ==
  /\ val \in [Endpoints -> {0, 1}] /\ listening \in BOOLEAN
  /\ \A k \in Channels : ch[k].client \in (IF k \in Slots THEN Tcp ELSE {k}) \cup {None}
  /\ Range(sessions) \subseteq Ws \cup {None}
  /\ peer \in [People -> {"new", "there", "gone"}]

\* A client that is there has exactly one channel, and nobody else reads from it; what is left
\* of a channel that was given up is not written to the next client; the table of sessions is
\* the sessions that are open, each once; and a channel with something to send waits for the
\* event that sends it (tcp_srv_csock_accept, tcp_sock_shutdown_, ws_session_add, ws_session_remove).
ChannelsSound ==
  /\ TypeOK
  /\ \A j, k \in Channels : ch[j].client = ch[k].client /\ j # k => ch[j].client = None
  /\ \A c \in People : peer[c] = "there" => Served(c)
  /\ \A k \in Channels : /\ ch[k].client = None => ch[k].out = <<>> /\ ~ch[k].wake
                         /\ ch[k].out # <<>> => ch[k].wake
  /\ \A c \in Ws : Cardinality({i \in DOMAIN sessions : sessions[i] = c})
                   = IF ch[c].client = c THEN 1 ELSE 0

\* A client reads the answers to its own commands, in the order in which it sent them, whatever
\* the cuts of the stream, the events in between and the clients the channel served before
\* (command_recv, hkcp_command_ctx_new, tcp_sock_write_event).
AnswersInOrder ==
  \A c \in People : peer[c] = "there" =>
    LET k == ChannelOf(c)
        asked == [i \in DOMAIN SelectSeq(ch[k].line \o inbox[c], LAMBDA half : half[2] = 2) |->
                    SelectSeq(ch[k].line \o inbox[c], LAMBDA half : half[2] = 2)[i][1]]
    IN AnswersIn(ch[k].out) \o SelectSeq(asked, LAMBDA cmd : Answered(c, cmd)) = owed[c]

\* What a client has read and is about to read of an endpoint ends with its value: of the
\* public source for a TCP client that watches, of whatever it has heard of for a session
\* (hkcp_source_update, hkcp_command_watch, comm_ws_send).
ViewsCurrent ==
  \A c \in People : peer[c] = "there" =>
    LET k == ChannelOf(c)
        Known(e) == LastWord(ch[k].out, e, view[c][e])
    IN IF c \in Tcp THEN ch[k].watch => Known("public") = val["public"]
       ELSE \A e \in Endpoints : Known(e) \in {Unknown, val[e]}
=============================================================================
