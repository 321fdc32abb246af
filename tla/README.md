# A verification of HAKit

HAKit is a home automation kit in C. An *engine* (`hakit-engine`) loads *tiles*:
files that create objects of a few classes and wire their pads together. Sinks and
sources of the tiles are the *endpoints*, which engines exchange over a network
(HKCP over TCP, or MQTT) and show to browsers over WebSocket. A *launcher*
(`hakit-launcher`) asks a platform which tiles to run and keeps the engine, and a
MQTT broker, alive. Everything runs in one thread around one event loop, except the
MQTT client and the serial class, which have a thread of their own.

This directory holds TLA+ modules for the parts of HAKit whose correctness depends
on the order of events, TLC configurations that check them on small instances, and
proofs checked by TLAPS. Names of definitions follow the C code; `PROJECT.json` maps
every one to its lines. A definition whose name has a suffix (`NetMerge_PadsKept`)
is a plausible wrong version of the one that follows it: no specification uses it, it
serves to see that a property notices the mistake.

## 1. Inventory

| Component | State it keeps | Operations | What is hard | What makes it correct |
|---|---|---|---|---|
| Event loop, `os/linux/sys.c` | table of 256 sources, last tag, quit flag | register and remove timers, descriptors, children, quit handlers; `sys_run` | handlers change the table while it is scanned; slots are recycled; SIGCHLD comes at any time | a handler is called only for its own live source; no timer is slept over; children are reaped |
| Processes, `os/linux/proc.c` | table of entries, a timer and a SIGCHLD source each | start, stop, quit; callbacks on output, hang-up, death, kill timeout | entries, pids and timers are recycled while callbacks start other processes | death goes to the right owner; a stopped process ends; no timer outlives its entry |
| Class `proc` | one process per object, respawn timer | enable, disable, termination, respawn | the pads change while a process is dying | never two processes for an object |
| Launcher, `main/hakit-launcher.c` | state, engine, broker, timers, requests in flight | hello, certificates, tiles, start, stop, retry | answers, timers and deaths interleave; two exchanges may overlap | it never ends waiting for nothing; in ST_RUN there is an engine |
| HTTP client, `core/ws_client.c` | requests in flight | request, callback | some ends call nobody | a request is answered |
| HKCP nodes, `core/hkcp.c` | table of remote engines, state, timer, socket, output | advertised, connect, retry, list of sinks, update | connections break and come back; advertisements repeat | remote sinks hold the local values; timers and nodes agree |
| HKCP commands, `core/hkcp_cmd.c` | none | `sinks`, `set`, `get`, `watch`, ... | answers mix with lists | every command is answered in order |
| Sockets, `tcpio.c`, `io.c`, `udpio.c` | channels, output buffers, 32 clients | connect, accept, write, hang-up | callbacks close and reopen the channel that is being served; slots are reused | no byte on the wrong connection |
| Serving side of HKCP, `core/hkcp.c`, `command.c` | a context per client: its line, whether it watches | accept, command, update, hang-up | commands come in pieces, events between answers | own answers in order; a watcher ends with the present values |
| Advertising, `core/advertise.c`, `netif*.c` | a timer for the next broadcast, one for the interfaces, the interfaces known | broadcast, reply, look at the interfaces | datagrams are lost, engines and interfaces come and go | engines that can reach each other find each other; the exchange ends |
| Nets and objects, `core/mod.c`, `mod_load.c` | tiles, objects, pads, nets | create, connect, merge, preset, start, propagate | order of the tile file; depth-first recursion through loops | pads and nets agree; a change comes to rest in a consistent state |
| Combinational classes `and`, `or`, `not`, `cmp`, `mux` | pad states | input, start | inputs change in the middle of an update | the output is the function of the inputs |
| Timer classes `timer-*`, `relay-bistable` | timers, pad states | input, timeout, start | an input while a timer runs, a loop that is late | delays and pulses have their length; no coil stays excited |
| `sink`, `source`, endpoints, `core/endpoint.c`, `comm.c` | endpoint tables, local links | register, connect, update | registration in any order, by name, locks | links are mutual and tie equal names; only loops are cut; what is linked agrees |
| Trace, `core/trace.c`, and class `history` | ring of past values | push, dump | wrap-around | the dump is the last values in order |
| MQTT, `core/mqtt.c` | queue between two threads | publish, receive, reconnect | two threads, a queue of 8 messages | the broker has the present values; namesakes agree |
| Serial class | a tty, its timer, a thread and a message queue | open, hang up, retry, modem lines, debounce | the thread and the event loop close, cancel and post in any order | the outputs are the lines; a device that comes back is opened |
| Web server `core/ws_*.c` | table of sessions, what each is to be sent | session added, removed, command, event | sessions close while others are served | each session gets all events |
| `gpio`, `fwrite`, options, properties, buffers, logs, programs, `ui/` | | | sequential code or I/O | |

How they meet: the event loop calls the handlers of everybody, and everybody calls
back into its table; `proc.c` serves the launcher and the class `proc`; HKCP uses timers,
sockets and advertisements, and calls `endpoint.c`; `comm.c` hands values between tiles
and the network; a sink that receives a value starts a propagation through `mod.c` that
ends in sources, which call `comm.c` again. `PROJECT.json` lists the components with
their state of modelling and the hazards with the line where they bite.

## 2. Modules

| Module | Models | Extends |
|---|---|---|
| `SysSources` | what `sys.h` promises its callers (abstract) | |
| `SysLoop` | `sys.c`; implements `SysSources` | |
| `ProcTable` | `proc.c`, as operators on a record | |
| `Proc` | class `proc` on `proc.c` and the loop | `ProcTable` |
| `Launcher` | the launcher on `proc.c` | `ProcTable` |
| `HkcpNode` | HKCP nodes, sockets, remote engines | |
| `Mqtt` | the MQTT client and its broker, as operators on a record | |
| `Trace` | the ring of past values, as operators on a record | |
| `Endpoints` | sinks and sources of all tiles, `comm.c`, the thread of the MQTT client | `Mqtt`, `Trace` |
| `Clients` | the serving side: TCP clients, WebSocket sessions, their commands and events | |
| `Discovery` | engines that advertise to each other | |
| `Timers` | the five timed classes | |
| `Serial` | the class `serial` and its thread | |
| `PadGroups` | what nets promise the author of a tile (abstract) | |
| `Nets` | the nets of `mod.c`; implements `PadGroups` | |
| `Tile` | loading, starting and running a tile, with its classes | `Nets` |
| `SysLoopProofs`, `ProcProofs`, `LauncherProofs`, `TimersProofs`, `HkcpProofs`, `TileProofs`, `EndpointsProofs`, `DiscoveryProofs` | proofs | |
| `MCx` | instance of `x` for TLC | `x` |

**SysLoop.** `sources` is the C table; `phase` and `i` are where `sys_run` is in its
scan; `cb` is the handler that runs. A handler is not modelled by what it does: while
`cb` names one, every function of `sys.h` is enabled, with any arguments, any number
of times, and then it returns any of the values the loop tells apart (`HandlerReturn`).
So what holds of the loop holds for all handlers HAKit has. Poll is one step (`PollEvents`) with any answer to the
descriptors asked for. `polledTag` is history: which source each slot held when poll
was set up. With a full table nothing is registered and the handler gets tag 0; a child runs all the same (`SysChildWatch`), and its death is told to
nobody. Failures of `gettimeofday` and `poll` end the program and are left out.

**ProcTable, Proc, Launcher.** The functions of `proc.c` are operators from a
record to a record because its callbacks nest: `hk_proc_sigchld` calls the owner, who
may start a process, and frees the entry only afterwards. `Proc` lets two objects of class
`proc` use the table, with delays in ticks of 100 ms and more. `Launcher` keeps the
state of the program in one record `L`; what the world answers during a handler (fork, kill, an
HTTP request refused at once) is an argument `w`. The long timers of the launcher fire
at any time. Left out of the launcher: contents of files and argument lists, daemon mode, stdin, `sys_quit`, the
closing of an engine's output (covered by `Proc`), the mode without API key that runs
cached tiles (`hakit-launcher.c:1518`), and a request that is refused at once and called back as well.

**HkcpNode.** `K` is the table of nodes with the timers that point to it, `pipe` the lines in
flight both ways, `remote` the other engines and their sinks. A value is a version
number, so going back to an older value shows. A remote engine answers with `hkcp_command_sinks` and
`hkcp_command_set`. Lines arrive whole. When the list of sinks ends without a matching one the node is freed inside `hkcp_node_recv` (`hkcp.c:257`), which then goes on with the freed
node and what was received with it (`hkcp.c:249-261`); memory after it was freed is not modelled, and `Receive` just empties the pipe.

**Nets, Tile.** A net is known by its rank of allocation. `wiring` holds both ends of
the pointers: the net of a pad (`net`) and the pads of a net (`pads`), the `id` and the table of
the tile. `hk_net_create` takes up a freed net and pushes it on the table a second time, as the code does.
`Tile` goes through the phases of a tile; the recursion of `hk_pad_update_str` and
`hk_pad_update_input` is a stack of calls, one step per pad visited. A string handed
on by `mux` is the buffer of its input pad, which a loop may overwrite: a call holds
either its own text or a reference (`HeldBy`). Left out: several tiles, local links between a sink and a source (they have the same
name, hence are in different tiles), `hk_tile_destroy`, malformed files.

**Endpoints, Mqtt, Trace.** Tiles are loaded one after the other as `comm_tile_register` does: `at` says which
object is registered (`New`), has its preset applied (`Setup`) or is started (`Start`); the next tile is read after that.
`link` holds both ends of the local links. `stack` holds the calls of `hk_pad_update_str`, `hk_sink_update` and
`hk_source_update` under way through all tiles, innermost first, and `Propagate` is one step of the innermost; `ep` and `pad` hold the two
locks on the way (endpoint, input pad). Between its steps the thread of the MQTT client moves: it reads the value of a source and publishes it in two steps (`ReadSource`,
`PublishSource`), subscribes, and puts messages in the queue that `MsgRecv` reads in the event loop. `Mqtt` contains the broker, which keeps
one value per name and passes values on to subscribers, in order. Histories: `log` what each trace should hold, `by` who gave a sink its value,
`refused` endpoints a lock kept from their last update, `stale` sources of which the thread published a value just replaced.
Abstractions: the inside of a tile is reduced to which sink a source is wired to, straight or through a `not` (`Tile` has the rest); no event
sources, nobody else publishes; a value read while it is being replaced is the old or the new one.

**Timers.** One object of a class, whose methods are functions on its record: inputs change at any time, before the start
too, and the timers that are due are fired in any order. `Tick` lets time pass while the loop waits, and once while it is busy, so that
timers are fired late. `seen` is history: how long ago the input changed. `inv` is a property of all but the clock.
Left out: the product of `period` and `duty` overflows an int for periods of more than six hours.

**Serial.** `fds` are the descriptors of the process, `tty` the fields of the context, `thr` the threads, the one known to the context and
those it forgot, `mq` the queue. The thread reads the lines and posts them in two steps (`ThreadReads`, `ThreadPosts`), then waits again on whatever descriptor the object has by then (`main.c:200`). The model keeps that one field holds the tags of both
timers, that `char` may be unsigned (then a failed wait is 0xFF, and the handler's `return 0` drops the watch of the queue; signed, it never equals 0xFF and the hang-up goes
unnoticed), that `_start` tests the pad `connected` where `connect` is meant (`main.c:449`), that a preset opens the tty twice, and that
`tty_close` does not cancel the timer. Left out: bytes, RTS and DTR.

**Clients.** `ch` holds the data sockets by slot and the data of the sessions; `inbox` what clients sent, in halves of lines, which `Read` takes in any number;
`out` what the engine is to write, of which TCP may take a part. The application is one sink that drives a public source, and a local source. Each event is
a message with the value at its time. `owed` and `view` are history: answers a client is still to read, and the last values it read. The code's
asymmetries are kept: a `set` that succeeds has no answer; `.` is ignored from a TCP client and an error from a session. A client too many, or an `accept()` that
fails, ends the service for good, with all its connections (`Shutdown`, `tcpio.c:577-580`); contexts then leak, which does not show. Left out: authentication (a session
refused stays in the table until libwebsockets closes it), `trace` (which in error has no answer over WebSocket), a write to a session that fails (the inner `ret` of `ws_events.c:75` hides it: the session goes on
without that text), and standard input, whose end quits the engine.

**Discovery.** Engines load their tiles before the loop runs, so `Start` is one step and leaves the first broadcast pending. `listed` is what an engine believes
of its interface, `lowpass` the five seconds before it looks again; `hears` and `watches` are the UDP and netlink sockets, which the loop drops after a failed
`recvfrom` or `recvmsg`. `nodes[a]` is `hkcp->nodes`: the peers that `a` has added and not removed, whether connected or not. A node leaves it in the two ways of
`hkcp.c`: at the end of its list of sinks when no source is attached (`Dropped`, `hkcp.c:169-175`), so a peer without public sinks, or with none that matches, comes and goes with each advertisement; and after
too many failed connections (`GiveUp`, `hkcp.c:343-347`), to a peer that stopped, is cut off, or runs and refuses. The constant `Feeds` says whose sinks match whose sources: engines keep their tiles,
thus their sinks, over restarts. The connection itself is in `HkcpNode`; a list cut short by an `.ERROR` is not met here (see the reading of `Converged`). `unsure` is history: pairs of engines of which a
datagram was lost or a connection given up, and that nothing will make try again. HKCP only: the advertising of a MQTT broker follows the same path to another handler. Each engine has one interface.

## 3. Runs

| Run | Properties | Bounds |
|---|---|---|
| `sysloop` | `TypeOK`, `FreshRevents`, `PollCoversTimers`, `RegistryKept`, `TimerFires`, `ChildReaped` | 2 slots, 3 tags, 1 descriptor, 1 child, delays 0 and 1, clock to 2 |
| `proc` | `CallbackOwner`, `WatchedWhileUsed`, `StopEndsIt`, `ExitFreesEntry` | 2 objects, 2 entries, 2 pids, 2 starts |
| `launcher` | `RunHasEngine`, `NeverStuck`, `BrokerRestarts` | without broker 2 requests in flight and a tile to download, with it 1 request and tiles up to date; 2 entries, 1 retry |
| `hkcp` | `TimersMatchNodes`, `Converged`, `NeverOlder`, `Settles` | 2 engines, 2 sources, 2 versions, 1 retry, 2 losses |
| `hkcp_hangup` | `KeepsTrying` is violated | same |
| `tile` | `WiringOK`, `LoopsCut`, `Settled`, `GroupsKept`, `Rests` | 2281 tiles of up to 6 objects, values 0 to 2 |
| `endpoints` | `LinksOK`, `LinkedAgree`, `WiresAgree`, `TraceKept`, `CutsAreLoops`, `BrokerCurrent`, `NamesakesAgree` | 36 programs of up to 3 tiles and 6 endpoints, both modes of naming where names allow, 2 values, 2 updates, 1 loss of the broker, queue of 2, traces of 3 |
| `timers` | `TimersKnown`, `OnTime`, `RelayFollows` | delays 0, 1 and 3, clocks of periods 2 and 4 with 4 duties, pulse 2, refresh 4, 2 late |
| `serial` | `SerialSound`, `ModemShown`, `Reconnects` | `connect` free, wired or preset, with and without modem outputs and data, both kinds of `char` (13 of their combinations, see `MCSerial`); 2 states of the lines, a queue of 1 |
| `serial_retry` | `RetryArmed` is violated | same |
| `clients` | `ChannelsSound`, `AnswersInOrder`, `ViewsCurrent` | 3 TCP clients for 2 slots with 1 session, or 3 sessions; 3 commands or updates |
| `discovery` | `Discovered`, `ComesToRest` | 3 engines: one with sources, one with both, whose sinks match the sources of the first, one with neither; 3 faults |

The types of a module's variables (`TypeOK`) are part of its first invariant, except in `SysLoop`.

Why the bounds are enough. *Loop*: all hazards are about one slot freed and taken again while
another is being served; with 2 slots and 3 tags a slot is taken again inside a scan and the
table is found full. *Processes*: 2 entries and 2 pids force entries and pids to be recycled under
each other. Tags need no bound: a tag is the least number that nothing refers to.
*Launcher*: with two requests in flight two hello exchanges overlap, which is as many as the
timers can start before one is answered; more add the same overlap. The broker is updated before the tiles are looked at, whatever becomes of them, so the setup with a broker has none to download. *HKCP*: nodes share only
the table and the timer tags, so two show all sharing; two losses give a loss during
the recovery of a first loss. A host keeps its set of sinks over its restarts. *Tile*: the tiles are
all those of four objects whose inputs refer to any of five pads or are preset, in two
orders (fans, chains, re-convergence, rings through a nand and a not, nets merged from
either side), and families for `cmp` and `mux`, latches and `[nets]` lines, one of them empty, with pads listed twice.
 *Endpoints*: a
link and a lock concern an endpoint and the one that drives it, so rings of one and two tiles, chains of two and names shared by three tiles show every
order of registration; two updates give an update during and after a loss; a queue of two overflows; traces of three entries wrap.
*Timers*: there is one object and at most two timers, and time only matters relative to the delays, which are shorter, equal and longer than the lateness. *Serial*: one
device, one queue and the threads it is given; a queue of one message is full at once, and the preset and wired cases open twice. *Clients*: two slots for three clients give the reuse
of a slot and the client too many; three inputs put events between a command and its answer. Three sessions give a table with several entries and with holes that are taken again; sessions and TCP clients share only the endpoints, so one session with the TCP clients shows what they do to each other. *Discovery*: the pairs of
engines are independent, and one of them feeds while the others do not; three faults give a lost request and a lost answer, or a stop, a start and an outage of a pair.

Fairness. `SysLoop`: the loop steps, handlers return and time passes. No fairness on poll's events,
children or handlers' choices. `Proc`: the same loop (weak), and time passes even if wake-ups
keep coming, which needs strong fairness on `Poll(TRUE)` because each wake-up disables it for a while.
`HkcpNode`: one weak fairness per node for each source that `sys_run` serves when
it is ready; nothing on the network's or users' actions. `Settles` asks for it only once losses
have ended. `Tile`: the propagation is a plain recursion that nothing interrupts.
`Endpoints` is checked for safety only: its properties speak of states at rest.
`Serial`: as long as a descriptor is at its end or a retry timer is armed, the loop dispatches one or the other (one weak fairness, on `Dispatch`); the thread and the user owe nothing.
`Discovery`: timers fire, and datagrams arrive or are lost (`Settle`); nothing is asked of engines, interfaces or the network otherwise.
`Timers` and `Clients` are checked for safety only: what must happen in time is a bound on ages, and what a client is told is
compared with what is still queued.
`Launcher` is checked for safety only: `NeverStuck` says that something is always pending.

Reading the properties:

* `PollCoversTimers` and `TimerFires` leave out a delay of 0 armed by a timer handler in a
  slot already scanned. The code really waits there, until something else ends poll.
* `StopEndsIt` leaves out a process that closed its output, whose kill timer the code
  cancels (`proc.c:168`).
* `NeverStuck` leaves out (`lost`) the ends that call nobody: a connection closed
  before its response is complete, a download refused at once, an empty hello response and an engine that
  had to be killed. In each the launcher really waits for ever; the hazards name the lines.
* `Converged` depends on hosts that keep their sinks. Otherwise a queued `set` for a sink that is
  gone is answered `.ERROR`, which ends the list of sinks (`hkcp.c:168`), and later sinks are never attached:
  `tlc -config MCHkcpNodeSinks.cfg MCHkcpNode` shows it in 17 states. That cfg is kept beside the runs and is not one of them.
* `Settled` leaves out nets with several outputs, any state after a loop was reported,
  outputs not updated since all was wired (`hk_tile_start` applies presets while
  references are still being made, and inputs wired later never get that value), and tiles in which a `mux` is
  selected by its own output (`SelInRing`). `RingsReported` is the same without the last exception, which is what the code's comment promises;
  it is false of one tile, a `mux` selected by a `not` of its own output, which also goes through an `or`: `tlc -config MCTileSel.cfg MCTile` shows a counterexample of 37 states. It is kept beside
  the runs of `PROJECT.json`.
* `WiresAgree` and `LinkedAgree` hold when nothing is under way, for endpoints not refused by a lock; `CutsAreLoops` says that only an
  endpoint that drives itself is ever refused. A link is made only when a sink finds a source registered before it (normal mode) or a source a sink
  (`opt_full_name`). A sink linked after its source was started has no value of it until the next update.
* `BrokerCurrent` leaves out `stale` sources, which the code does not repair; `NamesakesAgree` leaves out also names whose last message found the
  queue full and sinks last set over HKCP. It holds for endpoints registered in either order because a public sink subscribes to its own name.
* The programs have no ring of public sources only: over MQTT every message there makes two,
  and the traffic never ends. The code does that too, and nothing in it promises otherwise.
* `LoopsCut` is what the lock achieves for all classes but `mux`; `Rests` says that a loop
  through a `mux` and another object also ends. The tiles of the runs have no ring of muxes only, which recurses without end; the theorem has no such limit.
* `TimersKnown` excepts a duty timer after the loop was late: the next period overwrites its tag (`timer-clock/main.c:50`). `OnTime` excepts a clock enabled
  before its start, which publishes 0 in the middle of a pulse; `RelayFollows` excepts an input that was 1 before the start, which the relay's `_start` does not look at.
* `SerialSound` and `ModemShown` except a tty opened while it was open or retried (`twice`), where the code loses a descriptor or a timer, and
  `ModemShown` a change of the lines between reading them and waiting again (`missed`), which `TIOCMIWAIT` does not report. `Reconnects` holds without debounce, and with `txd` or `rxd`
  wired.
* `ViewsCurrent` is about the public source for a watcher: `watch on` dumps local sources too (`hkcp_cmd.c:176`), which are never updated afterwards.
* `OnTime` counts a delay from the moment the loop could know, and its lateness bounds how much later the timer fires. `sys.c:409-410` neither fires nor counts a timer of delay 0 that a timer
  handler armed in a slot already scanned; it waits for the next event, so for a delay of 0 `MaxLate` stands for that wait too, which nothing in the loop bounds.
* `Discovered` is about pairs `<<a, b>>` of `Feeds` that run, are up, hear and watch, and are not `unsure`: a pair is `unsure` after a datagram lost by the network or in an outage shorter than the
  five seconds of the low-pass, and after `a` gave up connecting to `b` while both ran and knew their interfaces to be up. The code does not repeat either before one of the two broadcasts again. After a failed
  `recvfrom` (`udpio.c:145`) or `recvmsg` (`netif_watch.c:71`) the loop drops the socket, and the engine is deaf, or blind to its interface, until it restarts. The nodes an engine should not keep are only bounded from
  above: a peer without a matching sink may be present until its list of sinks has come.

## 4. What disagrees with the code's own words

Shown by a run:

1. `hkcp.c:284` says a lost node reconnects immediately. The new connection is then shut down by the function that was
   reporting the loss of the old one (`tcpio.c:342`), and nothing tries again (`hkcp_hangup`).
2. `classes/serial/main.c:119` says the retry timer is started after a hang-up. A message of the thread received after that takes it for a debounce timer and removes it
   (`main.c:246`, `serial_retry`); the debounce timer fires once, and the device is never opened again.

Read in the code while modelling it, and kept by the models; no run of `PROJECT.json` is devoted to them:

3. `mod.c:155` says the lock detects loops. The input handler of `mux` frees the lock of its own input (`classes/mux/main.c:103`), so a loop that comes back to it
   while it is running goes through again and is not reported. When the loop also goes through `sel`, the tile may rest with a source that does not hold the value of its net (`MCTileSel.cfg`); a
   ring of muxes only recurses without end.
4. `sys.c:499` says the death of a child interrupts the wait. SIGCHLD between
   `sys_waitpid` and `poll` does not; the child is reaped when something else ends poll (`ChildReaped`).
5. `proc.c:196` says the kill timeout is cancelled. `hk_proc_stop` within 100 ms of the end of the
   output overwrites the tag of the hang-up timer, which then forgets the kill timer: it fires on a free
   entry (`kill(0, SIGKILL)`) or on the next process of that entry.
6. `hakit-launcher.c:1236` says a running engine is left alone when the platform does not answer. After a failed
   update the state is `ST_RETRY`, and it is restarted from the cache.
7. `hakit-engine.c:55` says that with `--full-name` local sinks and sources are not connected. `hk_source_register` connects a source to the first sink of
   that name, of any tile, exactly in that mode (`endpoint.c:607`).
8. `mqtt.c:254` says nothing is done if already connected to this broker. A broker that changes while a connection is pending only replaces the name (`mqtt.c:262`): the client may
   end connected to the old broker under the name of the new one, and then the test finds it connected. Not modelled.

## 5. Proofs

All are checked by TLAPS from the definitions; the assumptions are those the modules declare on their
constants (`SysAssumption`, `ProcAssumption`, `ObjAssumption`, `TimersAssumption`, `HkcpAssumption`, `TileAssumption`, `ProgramAssumption`, `MqttAssumption`, `TraceAssumption`,
`DiscoveryAssumption`, `LauncherAssumption`): sizes, delays, numbers of objects and the bounds of the runs are arbitrary.

* **`SysLoopProofs`**: `TypeCorrect`, `EventsAreFresh` (`FreshRevents`), `TimersAreCovered`
  (`PollCoversTimers`), for any number of slots, any delays, descriptors and children. Neither property is
  inductive. `IInv` adds: `TableInv`, a slot in use has a tag; `ScanInv`, the handler that runs is at or before the scan;
  `AnswersInv`, a slot with an answer of poll that still holds the source polled, or was marked
  removed, cannot be taken by another during the dispatch (the reason for `SYS_TYPE_REMOVED`); `TimersInv`, the timers already
  scanned are due no sooner than `now` plus the timeout found so far. Each action is shown to keep
  `IInv`; the calls handlers make share `ApiKeeps`.
  `LoopImplementsRegistry` is the refinement (`RegistryKept`): every step of the loop is a step of `SysSources` or leaves its state alone. It needs `TagsInv`, the tags in the table
  are different and none is beyond the last one handed out, so that a new tag is new and a removal takes one source.
* **`ProcProofs`**: `ProcessesAreOwned` (`CallbackOwner`) and `DeathsAreHeard` (`WatchedWhileUsed`), for any entries, pids, objects and starts. What they rest on is that the table
  and the objects agree: `Sound`, an entry in use has the pid of a process the kernel knows, which no other entry has, and watches it and nothing else; `Owned`, the owner of an
  entry in use points to it. Each function of `proc.c` either leaves both alone (`Similar`), ends an entry and nothing else (`Without`), or starts
  one (`StartIs`); an owner that is told forgets the entry that ends (`Told`), and no other pointed to it.
* **`LauncherProofs`**: `EngineInRun` (`RunHasEngine`), `AlwaysAwaits` (`NeverStuck`) and `RestartIsOwed` (`BrokerRestarts`), for any number of entries, pids, retries and requests in flight.
  Each relates a flag of the launcher to the table of `proc.c`, and holds only because of what the table cannot do meanwhile. `LauncherInv` adds: `Tidy`, entries in use have an owner, nothing
  else is watched, and a timer is for an entry that is being killed and knows it; `Held`, `engine_proc` and `mqtt_proc` are 0 or a process of theirs that nobody asked to stop; `Stopping`, a restart
  of the broker is owed by a broker in the table other than the one `mqtt_proc` has; `Waits`, in `ST_HELLO` and `ST_RETRY` a request or the retry timer is pending. What a function of the launcher does to
  engine and broker is a lemma each (`EngineStartIs`, `MqttTerminatedIs`, `ResponsesSane`, ...), over the lemmas of `ProcProofs` on the functions of `proc.c`.
* **`TimersProofs`**: `TimersAreKnown` (`TimersKnown`), `OutputsOnTime` (`OnTime`) and `RelayIsFollowed` (`RelayFollows`), for any delays, periods, duties and any lateness.
  Per class, the invariant relates what is left of a timer to the age of the input: a `timer-on` or `timer-off` that waits has one timer, with what is left of the
  delay (`Following`), and a pulse lasts as long as its timer (`Pulsing`); unless the loop was late, the duty timer of a clock ends where its period timer wants it (`Clocking`); a coil is
  excited while the timer that will release it runs (`Holding`). The set of timers is finite, so that there is a tag that nothing uses.
* **`HkcpProofs`**: `TimersAndNodes` (`TimersMatchNodes`), `SinksNeverGoBack` (`NeverOlder`) and `SinksConverge` (`Converged`), for any remote engines, sources, retries, updates and losses. For the first, the table
  is sound (`TableOK`): one entry per host, a free entry is blank, each timer is for the node that remembers its tag, with one timer per node and different tags, and a periodic timer is that of
  a node that has attempts left (otherwise `hkcp_node_connect` would free the node under it). Each function of `hkcp.c` is a lemma about one entry (`NodeAddOK`, `NodeConnectOK`,
  `HungUpOK`, `RecvLineOK`); what they leave to be proved of the whole table is `PutOK` and `FreedOK`. For the second, `OrderInv` speaks of what a node has to send (`Sending`: the lines on the
  connection, then the output buffer): the values for a sink are in the order of their versions, none is newer than the source or older than the sink. It follows from `Kept` and `Piped`: a step
  adds one present value at the end at most, or drops the connection or the buffer as a whole. A host has one entry, so that there is no second connection to overtake the first.
  `SinksConverge` assumes that each host has the same public sinks whenever it is started (`SinksStay`), without which `Converged` is false (section 3). `ServeInv` says what a connected node owes its
  remote engine: it has asked for the sinks once and was not answered (`Asking`), or is being told of them and serves each it was told of (`Listing`), or serves them all (`Serving`), where a sink is
  served when it holds the present value or that value is under way (`Served`). While a node is not connected it owes nothing, whatever its buffer holds, but no line it sends names a sink the engine lacks
  (`Known`): no `.ERROR` can end the list early. When nothing is under way, served means there.
* **`TileProofs`**: first `Nets`. `WiringSound` (`WiringOK` is inductive as it stands: pads listed once and pointing back, pads that
  point are listed, a freed net is empty, ids are unique) for any set of pads and any sequence of creations, connections and
  references; `NetsImplementGroups`, the refinement: lemma `Gathered` says that pointing a union of whole nets and
  loose pads to one net gathers them, and each function of `mod.c` is an instance of it or changes no group.
  `GroupsDisjoint` and `GroupsNeverParted` are about the abstract `PadGroups`: a pad is in one group at most, and pads once together stay together.
  Then the wiring of a `Tile`: `TileWiresNets`, any tile loads and runs as `Nets` says, from the invariant that the net of the
  line being read is the last of the table and in use (`LineInv`); hence `TileWiringSound` and `TileKeepsGroups`,
  `PadsInOneGroup` and `PadsNeverParted` for every tile, not only those of the run.
  Then what runs through it. Each method is described once by what it changes (`Takes`, `Sets`, `Enters`, `Returns`, `Moves`); the rest speaks of these.
  `LoopsAreCut` (`LoopsCut`, with the types) for any tile: `Fine` adds that each call under way is on a pad of the tile and hands on a value that is set, also when a `mux` hands on a buffer that changes
  meanwhile (`CallOK`), and that an input whose handler runs is locked and is on the stack once, unless it is one of a `mux` (`LockInv`). `ChangesSettle` (`Settled`, and even `RingsReported`) for any tile without a `mux`.
  `Follows` says what is true while calls of any depth are under way: an input that does not hold the value of the output that drives it is still ahead in a round of that output (`Agrees`, `ToCome`), every round hands
  on the present value of its output (`Carried`), and a gate shows what its inputs make (`Made`), but for the input and the object that the innermost call is about. What breaks this is an output that is sent again before its
  first round is over, by a loop: the first round would go on with the old value. Then (`Doomed`) the new round, which started at the first pad, is behind the old one (`Nested`) and has still to meet the input that the old
  one is at (`Busy`), which is locked; it cannot end without reporting it. Hence at rest, with nothing reported, all agree. With a `mux` neither half holds: it frees that lock, and hands on a buffer (`MCTileSel.cfg`).
* **`EndpointsProofs`**: for any program, number of tiles and mode. `LinksSound`: its invariant adds to `LinksOK` that what loads is an object of the program
  (`LoadInv`); lemma `LinkKept` says that `hk_sink_local_connect` keeps links sound whatever it is given, provided names are equal, which `NewLinks` shows of both
  registrations. `OnlyLoopsAreCut`, `LinkedSinksFollow`, `WiresCarry`, `TracesRemember` and `BrokerKeepsUp` speak of states at rest (but for the first and the fourth), so their
  invariant `DeepInv` says what is true in the middle of a recursion of any depth. `Chain`: each call under way is on an object that drives the one of the call above, and an endpoint
  is locked if and only if it is on the chain, so that one which refuses an update (`CutInv`) closes a ring. `AgreeInv` and `WireInv`: a sink or a source that differs from what drives it is
  still to be visited by a call of the chain. `LoadedInv`: while tiles load, what is handed on is a value, which makes a started sink one that has been
  given its value. `TraceInv`: the entries of the ring between `iget` and `iput` are the log, by arithmetic on the ring (lemmas `Places`, `PushIs`). `BrokerInv`: a public source that the
  broker has no present value of is on the chain, or before the thread, or marked `stale`. Each is a predicate of a record of the variables, and what a function of the C code does to
  such a record (`SinkTakes`, `SourceTakes`, `Leaves`, `Moves`, `Refuses`) is stated once.
* **`DiscoveryProofs`**: `EnginesDiscovered` (`Discovered`), for any engines, any `Feeds` and any number of faults. `Discovered` speaks of rest only; the invariant says for every
  moment why a pair that is not yet acquainted will be (`DueInv`): a datagram under way tells it, or calls for the reply that tells it, or one of the two is about to broadcast, or one does not
  list its interface. `Dropped` never touches a pair of `Feeds`, and a pair that is given up is either due already or `unsure`. `LinkInv` adds that an engine whose belief about its interface is wrong, and that still watches it, is about to look. At rest none is left but being acquainted. Lemma `SendTells` says what a broadcast leaves:
  a datagram, an interface that will come back, or an `unsure` pair.

Only model-checked:

* All liveness (`TimerFires`, `ChildReaped`, `StopEndsIt`, `ExitFreesEntry`, `Settles`, `Rests`, `Reconnects`, `ComesToRest`), which is beyond the proof system; so are the two
  runs that expect a violation.
* `ChannelsSound`, `AnswersInOrder` and `ViewsCurrent` of `Clients`: they compare what was sent with what arrives by folding over a queue of any length. A proof is an
  induction over the queue, which needs an operator as the parameter of a library theorem.
* `NamesakesAgree`: the last message under a name must be followed through three queues, again by induction over them.
* `Settled` for tiles with a `mux`: the theorem stops short of them, because it rests on the lock that `mux` frees; the run has them.
* `SerialSound` and `ModemShown` of the class serial: not done, see the plan.

## 6. Plan

In order of importance:

1. Proofs: `SerialSound`, `ModemShown`; `Settled` for tiles with a `mux` that is not in a loop.
2. The reconnection timers and the change of broker of the MQTT client (`mqtt.c:204-287`).
3. Composition: `HkcpNode` with the serving side of `Clients`, and with `Discovery` in place of its free advertisements.
4. Refinement of `Endpoints`: what a name promises (one value, that of its source) as an abstract specification.
5. `history`, the class that aggregates a trace.

Not modelled, and not planned: parsing of options and tile files (sequential, well served by tests), HTTP and libwebsockets glue, authentication, GPIO and file
output (I/O), logging, build and packaging, the browser's rendering.
