------------------------------ MODULE Launcher ------------------------------
(***************************************************************************)
(* main/hakit-launcher.c, on-line or with local tiles: it asks the         *)
(* platform what to run (hello, then certificates, then tiles), keeps the  *)
(* engine and the MQTT broker running through proc.c (ProcTable), and      *)
(* tries again when anything fails.                                        *)
(*                                                                         *)
(* The state of the program is one record L, because handlers nest: a      *)
(* response may stop a process, and the end of a process may start one,    *)
(* inside hk_proc_sigchld.  An operator is a C function; what the world    *)
(* answers while it runs is its argument w:                                *)
(*   w.pe, w.pm  the pid fork gives the engine, the broker (0: it fails)   *)
(*   w.sent      whether kill(SIGTERM) succeeds                            *)
(*   w.req       the slot of the request being made (0: refused at once)   *)
(*                                                                         *)
(* The timers of the launcher (10 s to 30 min) fire in any order and at    *)
(* any time, which includes the real timing.  Contents of files, argument  *)
(* lists, daemon mode and stdin are left out; a tile is up to date once    *)
(* its download succeeded.                                                 *)
(***************************************************************************)
EXTENDS ProcTable

CONSTANTS engine, broker,   \* the two users of the process table
          Setups,           \* the option --no-mqtt, and bounds: requests in flight, tiles to download
          MQTT_MAX_RETRIES

ASSUME LauncherAssumption == /\ Users = {engine, broker} /\ engine # broker
                             /\ MQTT_MAX_RETRIES \in Nat
                             /\ Setups \subseteq [opt_no_mqtt : BOOLEAN, MaxReq : Nat \ {0}, MaxTiles : 0..1]

VARIABLE L       \* the state of the program; lost and mqtt_lost are history

Slots == DOMAIN L.reqs

\* A request in flight and the context it was made for (ctx_t): certs and tiles are the
\* downloads still to be made.
NoRequest == [kind |-> "none", certs |-> 0, tiles |-> 0, is_broker |-> FALSE,
              restart_engine |-> FALSE, restart_broker |-> FALSE]
Hello == [NoRequest EXCEPT !.kind = "hello"]

\* What the platform accepts a device with, as hello_response_parse leaves it in ctx.
Contexts == [kind : {"none"}, certs : 0..1, tiles : 0..L.MaxTiles, is_broker : {FALSE, ~L.opt_no_mqtt},
             restart_engine : {FALSE}, restart_broker : {FALSE}]

FreeSlots(l) == {r \in Slots : l.reqs[r].kind = "none"}

\* fork fails, or takes an unused pid: which one does not matter, as long as two processes
\* started by one handler differ.
Lowest(S) == {p \in S : \A q \in S : p <= q}
Highest(S) == {p \in S : \A q \in S : q <= p}
EnginePids == {0} \cup Lowest(UnusedPids(L.P))
BrokerPids == {0} \cup IF L.opt_no_mqtt THEN {} ELSE Highest(UnusedPids(L.P))

\* There is something to kill.
Signals == IF \E e \in Entries : L.P.procs[e].state = "RUN" THEN BOOLEAN ELSE {TRUE}

Worlds(r) == {w \in [pe : EnginePids, pm : BrokerPids, sent : Signals, req : {0, r}] :
                w.pe # 0 => w.pe # w.pm}

\* Several identical timers: 2 stands for two or more.
More(n) == IF n < 2 THEN n + 1 ELSE 2
Less(n) == IF n = 2 THEN {1, 2} ELSE {n - 1}
-----------------------------------------------------------------------------
(* Engine                                                                  *)

\* hello_retry: with local tiles there is nothing to ask the platform, exit(2).
HelloRetry(l) ==
  IF l.online THEN [l EXCEPT !.state = "RETRY", !.hello = More(@)]
              ELSE [l EXCEPT !.state = "RETRY", !.P.halted = TRUE]

EngineStartNow(l, w) ==
  IF w.pe # 0 /\ Recyclable(l.P) # {}
  THEN [l EXCEPT !.P = Start(@, w.pe, engine), !.engine_proc = FreeEntry(l.P),
                 !.state = "RUN", !.ping = @ \/ (l.online /\ ~l.fallback)]
  ELSE HelloRetry([l EXCEPT !.engine_proc = 0])

\* Expected, if the launcher asked for it: then engine_proc is NULL already.
EngineTerminated_NoRetry(l, w) ==
  LET l1 == [l EXCEPT !.ping = FALSE]
  IN CASE l.engine_proc = 0 /\ l.state = "RESTART" -> EngineStartNow(l1, w)
       [] l.engine_proc = 0 /\ l.state # "RESTART" -> l1
       [] OTHER -> [l1 EXCEPT !.engine_proc = 0]
EngineTerminated(l, w) ==
  LET l1 == [l EXCEPT !.ping = FALSE]
  IN CASE l.engine_proc = 0 /\ l.state = "RESTART" -> EngineStartNow(l1, w)
       [] l.engine_proc = 0 /\ l.state # "RESTART" -> l1
       [] OTHER -> HelloRetry([l1 EXCEPT !.engine_proc = 0])

\* hk_proc_stop(proc) with the owner's callback when kill fails.
ProcStop(l, e, w, Terminated(_, _)) ==
  IF w.sent \/ l.P.procs[e].state # "RUN"
  THEN [l EXCEPT !.P = StopSent(@, e)]
  ELSE LET l1 == Terminated([l EXCEPT !.P.procs[e].state = "KILL"], w)
       IN [l1 EXCEPT !.P = TermRemove(@, e)]

EngineStop(l, w) ==
  IF l.engine_proc = 0 THEN l
  ELSE [ProcStop(l, l.engine_proc, w, EngineTerminated) EXCEPT !.engine_proc = 0]

\* ready: every tile of the context is up to date.
EngineStart_StateKept(l, ready, w) ==
  CASE ~ready -> HelloRetry(l)
    [] ready /\ l.engine_proc # 0 -> EngineStop(l, w)
    [] OTHER -> EngineStartNow(l, w)
EngineStart(l, ready, w) ==
  CASE ~ready -> HelloRetry(l)
    [] ready /\ l.engine_proc # 0 -> EngineStop([l EXCEPT !.state = "RESTART"], w)
    [] OTHER -> EngineStartNow(l, w)
-----------------------------------------------------------------------------
(* MQTT broker                                                             *)

MqttStartNow(l, w) ==
  IF w.pm # 0 /\ Recyclable(l.P) # {}
  THEN [l EXCEPT !.P = Start(@, w.pm, broker), !.mqtt_proc = FreeEntry(l.P)]
  ELSE [l EXCEPT !.mqtt_proc = 0]

MqttTerminated_RestartKept(l, w) ==
  CASE l.mqtt_proc = 0 /\ l.mqtt_restart -> MqttStartNow(l, w)
    [] l.mqtt_proc = 0 /\ ~l.mqtt_restart -> l
    [] l.mqtt_proc # 0 /\ l.mqtt_retry_count < MQTT_MAX_RETRIES ->
         [l EXCEPT !.mqtt_proc = 0, !.mqtt_retry_count = @ + 1, !.mqtt_timers = More(@)]
    [] OTHER -> [l EXCEPT !.mqtt_proc = 0, !.mqtt_retry_count = MQTT_MAX_RETRIES + 1]
MqttTerminated(l, w) ==
  CASE l.mqtt_proc = 0 /\ l.mqtt_restart -> MqttStartNow([l EXCEPT !.mqtt_restart = FALSE], w)
    [] l.mqtt_proc = 0 /\ ~l.mqtt_restart -> l
    [] l.mqtt_proc # 0 /\ l.mqtt_retry_count < MQTT_MAX_RETRIES ->
         [l EXCEPT !.mqtt_proc = 0, !.mqtt_retry_count = @ + 1, !.mqtt_timers = More(@)]
    [] OTHER -> [l EXCEPT !.mqtt_proc = 0, !.mqtt_retry_count = MQTT_MAX_RETRIES + 1]

MqttStop(l, restart, w) ==
  IF l.mqtt_proc = 0 THEN l
  ELSE [ProcStop([l EXCEPT !.mqtt_restart = restart], l.mqtt_proc, w, MqttTerminated)
        EXCEPT !.mqtt_proc = 0, !.mqtt_lost = @ \/ ~w.sent]

\* The end of cert_request, when the certificates are there.
MqttUpdate(l, c, w) ==
  CASE l.opt_no_mqtt -> l
    [] ~l.opt_no_mqtt /\ ~c.is_broker -> MqttStop(l, FALSE, w)
    [] c.is_broker /\ l.mqtt_proc = 0 -> MqttStartNow(l, w)
    [] c.is_broker /\ l.mqtt_proc # 0 /\ c.restart_broker -> MqttStop(l, TRUE, w)
    [] OTHER -> l
-----------------------------------------------------------------------------
(* Platform requests                                                       *)

\* platform_request: refused at once, nobody is told (lost) but the caller.
Request(l, c, w) ==
  IF w.req # 0 THEN [l EXCEPT !.reqs[w.req] = c] ELSE [l EXCEPT !.lost = TRUE]

AppRequest(l, c, w) ==
  CASE c.tiles > 0 -> Request(l, [c EXCEPT !.kind = "app", !.restart_engine = TRUE], w)
    [] c.tiles = 0 /\ (l.state # "RUN" \/ c.restart_engine) -> EngineStart(l, TRUE, w)
    [] OTHER -> [l EXCEPT !.ping = TRUE]

CertRequest(l, c, w) ==
  IF c.certs > 0
  THEN Request(l, [c EXCEPT !.kind = "cert", !.restart_engine = TRUE,
                            !.restart_broker = c.is_broker], w)
  ELSE AppRequest(MqttUpdate(l, c, w), c, w)

\* cert_response and app_response, of a download that succeeded.
CertResponse(l, c, w) == CertRequest(l, [c EXCEPT !.certs = 0], w)
AppResponse(l, c, w) == AppRequest(l, [c EXCEPT !.tiles = 0], w)

\* hello_response: no connection; the cache is absent, usable, or names a tile that was
\* never downloaded.
HelloOffline(l, cache, w) ==
  HelloRetry(IF l.state # "RUN" /\ cache # "none"
             THEN EngineStart([l EXCEPT !.fallback = TRUE], cache = "usable", w)
             ELSE l)
HelloDenied(l, w) == HelloRetry(EngineStop([l EXCEPT !.state = "HELLO"], w))
HelloBad(l) == HelloRetry(l)
\* An empty response is taken for none: neither branch of hello_response.
HelloEmpty(l) == [l EXCEPT !.lost = TRUE]

HelloRequest(l, w) ==
  Request(IF l.state # "RUN" THEN [l EXCEPT !.state = "HELLO", !.fallback = FALSE]
                             ELSE [l EXCEPT !.fallback = FALSE], Hello, w)
-----------------------------------------------------------------------------
Idle(opt) ==
        [state |-> "HELLO", online |-> TRUE, fallback |-> FALSE, engine_proc |-> 0, ping |-> FALSE,
         hello |-> 0, mqtt_proc |-> 0, mqtt_restart |-> FALSE, mqtt_retry_count |-> 0,
         mqtt_timers |-> 0, mqtt_lost |-> FALSE, opt_no_mqtt |-> opt.opt_no_mqtt, MaxTiles |-> opt.MaxTiles,
         reqs |-> [r \in 1..opt.MaxReq |-> NoRequest], lost |-> FALSE, P |-> NoProcs]

\* main: a hello, or a timer to try again if the request was refused; or the local tiles.
LauncherInit == \E opt \in Setups :
          \/ L = [Idle(opt) EXCEPT !.reqs[1] = Hello]
          \/ L = [Idle(opt) EXCEPT !.hello = 1]
          \/ \E pid \in Pids : L = EngineStartNow([Idle(opt) EXCEPT !.online = FALSE], [pe |-> pid])

Awake == ~L.P.halted

PingTimer ==
  /\ Awake /\ L.ping
  /\ \E r \in FreeSlots(L) : \E req \in {0, r} :
       L' = HelloRequest([L EXCEPT !.ping = FALSE], [req |-> req])

HelloTimer ==
  /\ Awake /\ L.hello > 0
  /\ \E r \in FreeSlots(L) : \E req \in {0, r}, n \in Less(L.hello) :
       L' = HelloRequest([L EXCEPT !.hello = n], [req |-> req])

MqttTimer ==
  /\ Awake /\ L.mqtt_timers > 0
  /\ \E pid \in BrokerPids, n \in Less(L.mqtt_timers) :
       L' = MqttStartNow([L EXCEPT !.mqtt_timers = n], [pm |-> pid])

\* A response comes in; its slot is free for the next request.
Response(r, kind, Handler(_)) ==
  /\ Awake /\ L.reqs[r].kind = kind
  /\ L' = Handler([L EXCEPT !.reqs[r] = NoRequest])

AcceptResponse(r) == \E w \in Worlds(r), c \in Contexts :
                       Response(r, "hello", LAMBDA l : CertRequest(l, c, w))
OfflineResponse(r) == \E w \in Worlds(0), cache \in {"none", "usable", "stale"} :
                        Response(r, "hello", LAMBDA l : HelloOffline(l, cache, w))
DeniedResponse(r) == \E w \in Worlds(0) : Response(r, "hello", LAMBDA l : HelloDenied(l, w))
BadResponse(r) == \/ Response(r, "hello", LAMBDA l : HelloBad(l))
                  \/ Response(r, "hello", LAMBDA l : HelloEmpty(l))
DownloadResponse(r) ==
  \E w \in Worlds(r) :
    LET c == L.reqs[r]
    IN \/ Response(r, "cert", LAMBDA l : CertResponse(l, c, w))
       \/ Response(r, "app", LAMBDA l : AppResponse(l, c, w))
DownloadFailed(r) == Response(r, "cert", HelloRetry) \/ Response(r, "app", HelloRetry)

\* The connection closes before the response is complete: ws_client.c calls nobody.
RequestLost(r) == /\ Awake /\ L.reqs[r].kind # "none"
                  /\ L' = [L EXCEPT !.reqs[r] = NoRequest, !.lost = TRUE]

\* hk_proc_sigchld: the entry is free only after the owner's callback.
Sigchld(e, p, w) ==
  LET l == [L EXCEPT !.P = SigchldHead(Reaped(@, p), e)]
      told == IF L.P.procs[e].user = engine THEN EngineTerminated(l, w) ELSE MqttTerminated(l, w)
  IN [told EXCEPT !.P = TermRemove(@, e)]

ChildReaped(p) ==
  /\ Awake /\ L.P.os[p] = "zombie"
  /\ IF Watchers(L.P, p) = {}
     THEN L' = [L EXCEPT !.P = Reaped(@, p)]
     ELSE \E e \in Watchers(L.P, p), w \in Worlds(0) : L' = Sigchld(e, p, w)

\* The kill timeout frees the entry without telling its owner.
KillTimer ==
  /\ Awake
  /\ \E t \in L.P.timers :
       /\ t.fn = "kill"
       /\ L' = [L EXCEPT !.P = KillTimeout(@, t),
                         !.lost = @ \/ L.P.procs[t.proc].user = engine,
                         !.mqtt_lost = @ \/ L.P.procs[t.proc].user = broker]

ChildEnds(p) == /\ Awake /\ L.P.os[p] = "running"
                /\ L' = [L EXCEPT !.P = Exited(@, p)]

LauncherNext == \/ PingTimer \/ HelloTimer \/ MqttTimer \/ KillTimer
        \/ \E r \in Slots : \/ AcceptResponse(r) \/ OfflineResponse(r) \/ DeniedResponse(r)
                            \/ BadResponse(r) \/ DownloadResponse(r) \/ DownloadFailed(r)
                            \/ RequestLost(r)
        \/ \E p \in Pids : ChildReaped(p) \/ ChildEnds(p)

LauncherSpec == LauncherInit /\ [][LauncherNext]_L
-----------------------------------------------------------------------------
(* Properties                                                              *)

RequestType == [kind : {"none", "hello", "cert", "app"}, certs : 0..1, tiles : 0..1,
                is_broker : BOOLEAN, restart_engine : BOOLEAN, restart_broker : BOOLEAN]

LauncherTypeOK ==
  L \in [state : {"HELLO", "RETRY", "RUN", "RESTART"}, online : BOOLEAN, fallback : BOOLEAN,
         engine_proc : 0..NPROCS, ping : BOOLEAN, hello : 0..2, mqtt_proc : 0..NPROCS,
         mqtt_restart : BOOLEAN, mqtt_retry_count : 0..MQTT_MAX_RETRIES+1, mqtt_timers : 0..2, mqtt_lost : BOOLEAN,
         opt_no_mqtt : BOOLEAN, MaxTiles : 0..1, reqs : [Slots -> RequestType], lost : BOOLEAN, P : ProcType]

UserActive(u) == \E e \in Entries : L.P.procs[e].user = u /\ L.P.procs[e].state # "FREE"

\* In ST_RUN the launcher believes in an engine it can stop: stopping it, its death and a
\* failed start all leave ST_RUN, in whatever order they come.
RunHasEngine == LauncherTypeOK /\ (L.state = "RUN" => L.engine_proc # 0)

\* The launcher never comes to a standstill: a retry, a ping, a request or the end of an
\* engine will make it act again, unless it was left without an answer (lost) by a request
\* that was refused or closed early, an empty answer, or an engine that had to be killed.
NeverStuck ==
  L.online /\ ~L.lost => \/ L.hello > 0 \/ L.ping
                         \/ \E r \in Slots : L.reqs[r].kind # "none"
                         \/ UserActive(engine)

\* A restart asked of mqtt_terminated is not left over once the broker is gone, unless the
\* broker was killed without notice or could not be sent SIGTERM (mqtt_lost).
BrokerRestarts == L.mqtt_restart /\ ~L.mqtt_lost => UserActive(broker)
=============================================================================
