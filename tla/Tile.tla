-------------------------------- MODULE Tile --------------------------------
(***************************************************************************)
(* The life of a tile: its nets are read (core/mod_load.c), its objects    *)
(* set up one after the other, then started (hk_tile_start), and from then *)
(* on each change of a sink runs through the objects (core/mod.c and the   *)
(* classes and, or, not, cmp, mux, sink and source).                       *)
(*                                                                         *)
(* A change runs depth first, by plain recursion: the output of an object  *)
(* calls the inputs on its net, each of which calls its own output.  The   *)
(* stack holds what the calls under way have still to do.  A pad is a pair *)
(* of an object and a name, "out" for outputs; a value is the number it    *)
(* is read as.                                                             *)
(***************************************************************************)
EXTENDS Nets, Integers, FiniteSets

CONSTANTS Tiles,        \* the tiles that may be loaded, see TileAssumption
          Values,       \* the values that sinks receive and presets give
          Hysteresis    \* the hysteresis of the cmp objects

Unset == -1             \* the value of a pad that never had one

Classes == {"and", "or", "not", "cmp", "mux", "sink", "source"}

\* The pads that an object of a class has, whatever its properties
PadNames(class) == CASE class = "not" -> {"in", "out"}
                     [] class = "cmp" -> {"in", "ref", "out"}
                     [] class = "mux" -> {"sel", "out"}
                     [] class = "source" -> {"in"}
                     [] OTHER -> {"out"}

\* A tile: its objects in order, their classes, those with inv, the [nets] lines, and what
\* hk_tile_start sets up: pads that refer to a pad, or (ref = NoPad) have a preset value.
NoPad == <<"", "">>
PadsOf(t) == {p \in Pads : p[1] \in DOMAIN t.class}
TileAssumption ==
  /\ Values \subseteq Nat /\ Hysteresis \in Nat
  /\ \A p \in Pads : p = <<p[1], p[2]>>
  /\ \A t \in Tiles :
       /\ \A o \in DOMAIN t.class : /\ t.class[o] \in Classes
                                    /\ \A name \in PadNames(t.class[o]) : <<o, name>> \in Pads
       /\ \A p \in PadsOf(t) : t.class[p[1]] \in {"not", "source"} => p[2] \in PadNames(t.class[p[1]])
       /\ \A i \in DOMAIN t.order : t.order[i] \in DOMAIN t.class
       /\ t.lines \in Seq(Seq(PadsOf(t)))
       /\ \A i \in DOMAIN t.setup : /\ t.setup[i].pad \in PadsOf(t) /\ t.setup[i].ref \in PadsOf(t) \cup {NoPad}
                                    /\ t.setup[i].preset \in {0, 1} \cup Values
ASSUME TileAssumption

VARIABLES tile,         \* the tile loaded
          at,           \* how far its loading went: phase, line or property, pad of the line
          pad,          \* per pad: value, state, lock
          obj,          \* per object: refresh (and, or), started (cmp), the value of its endpoint
          stack,        \* what the calls under way have to do, innermost first
          fresh,        \* history: the outputs updated once all was wired
          warned        \* history: "WARNING: Attempting to update locked input"

machine == <<pad, obj, stack, fresh, warned>>
vars == <<wiring, tile, at, machine>>

IsOut(p) == p[2] = "out"
Out(o) == <<o, "out">>
Of(class) == {o \in DOMAIN tile.class : tile.class[o] = class}
Inputs(o) == {p \in Pads : p[1] = o /\ ~IsOut(p)}
DataPads == <<"in0", "in1", "in2", "in3">>

Init == /\ NetsInit
        /\ tile \in Tiles
        /\ at = [phase |-> "load", line |-> 1, pos |-> 0]
        /\ pad = [p \in Pads |-> [value |-> Unset, lock |-> FALSE,
                                  state |-> IF IsOut(p) /\ p[1] \in Of("cmp") THEN -1 ELSE 0]]
        /\ obj = [o \in DOMAIN tile.class |-> [refresh |-> TRUE, started |-> FALSE, ep |-> Unset]]
        /\ stack = <<>> /\ fresh = {} /\ warned = FALSE
-----------------------------------------------------------------------------
(* One call, from a machine to a machine                                   *)

M == [pad |-> pad, obj |-> obj, stack |-> stack, fresh |-> fresh, warned |-> warned]
Becomes(n) == \E m \in {n} : /\ pad' = m.pad /\ obj' = m.obj /\ stack' = m.stack
                              /\ fresh' = m.fresh /\ warned' = m.warned

\* A string that a call hands on: its own, or (of) the one in the buffer of a pad, which a
\* call in between may change.
Own(n) == [text |-> n, of |-> NoPad]
HeldBy(p) == [text |-> Unset, of |-> p]
Read(m, string) == IF string.of = NoPad THEN string.text ELSE m.pad[string.of].value

Push(m, op, p, value) ==
  [m EXCEPT !.stack = <<[op |-> op, pad |-> p, value |-> value, i |-> 1]>> \o @]
Drop(m) == [m EXCEPT !.stack = Tail(@)]

Bit(b) == IF b THEN 1 ELSE 0

\* hk_pad_update_str, up to its loop
Update(m, p, value) ==
  LET m1 == [m EXCEPT !.pad[p].value = Read(m, value),
                      !.fresh = IF at.phase = "setup" THEN @ ELSE @ \cup {p}]
  IN IF wiring.net[p] = 0 THEN m1
     ELSE Push([m1 EXCEPT !.pad[p].lock = TRUE], "visit", p, value)

\* _update of the classes and, or
GateOut(m, o) ==
  LET raw == IF tile.class[o] = "and" THEN \A p \in Inputs(o) : m.pad[p].state # 0
             ELSE \E p \in Inputs(o) : m.pad[p].state # 0
  IN IF o \in tile.inv THEN Bit(~raw) ELSE Bit(raw)

GateUpdate_NoState(m, o) ==
  IF GateOut(m, o) # m.pad[Out(o)].state \/ m.obj[o].refresh
  THEN Update([m EXCEPT !.obj[o].refresh = FALSE], Out(o), Own(GateOut(m, o)))
  ELSE m
GateUpdate(m, o) ==
  IF GateOut(m, o) # m.pad[Out(o)].state \/ m.obj[o].refresh
  THEN Update([m EXCEPT !.obj[o].refresh = FALSE, !.pad[Out(o)].state = GateOut(m, o)],
              Out(o), Own(GateOut(m, o)))
  ELSE m

\* update_output of the class mux
MuxUpdate(m, o) ==
  LET sel == m.pad[<<o, "sel">>].state
  IN IF /\ sel + 1 \in DOMAIN DataPads /\ <<o, DataPads[sel + 1]>> \in Pads
        /\ m.pad[<<o, DataPads[sel + 1]>>].value # Unset
     THEN Update(m, Out(o), HeldBy(<<o, DataPads[sel + 1]>>))
     ELSE m

\* _input of the class cmp, once the state of the input is set
CmpOut(m, o) ==
  LET in == m.pad[<<o, "in">>].state
      ref == m.pad[<<o, "ref">>].state
  IN CASE in <= ref - Hysteresis -> 0
       [] in > ref + Hysteresis -> 1
       [] OTHER -> m.pad[Out(o)].state

CmpUpdate(m, o) ==
  LET out == CmpOut(m, o)
      old == m.pad[Out(o)].state
      m1 == [m EXCEPT !.pad[Out(o)].state = out]
  IN IF (out # old \/ old < 0) /\ m.obj[o].started /\ out >= 0 THEN Update(m1, Out(o), Own(out)) ELSE m1

\* The input method of the class
Input(m, p, value) ==
  LET o == p[1]
      set(state) == [m EXCEPT !.pad[p].state = state]
      class == tile.class[o]
      n == Read(m, value)
  IN CASE class \in {"and", "or"} -> GateUpdate(set(Bit(n # 0)), o)
       [] class = "not" -> Update(set(Bit(n = 0)), Out(o), Own(Bit(n = 0)))
       [] class = "cmp" -> CmpUpdate(set(n), o)
       [] class = "mux" /\ p[2] = "sel" -> MuxUpdate(set(n), o)
       [] class = "mux" /\ p[2] # "sel" -> Update(Push(m, "output", p, value), p, value)
       [] class = "source" -> [m EXCEPT !.obj[o].ep = n]
       [] OTHER -> m

\* hk_pad_update_input
UpdateInput_Unlocked(m, p, value) ==
  Input(Push([m EXCEPT !.pad[p].lock = TRUE], "unlock", p, value), p, value)
UpdateInput(m, p, value) ==
  IF m.pad[p].lock THEN [m EXCEPT !.warned = TRUE]
  ELSE Input(Push([m EXCEPT !.pad[p].lock = TRUE], "unlock", p, value), p, value)

\* hk_sink_update, with no local source: the handler of the class sink updates its pad.
SinkUpdate(m, o, value) == Update([m EXCEPT !.obj[o].ep = value], Out(o), Own(value))

\* The start method of the class
StartObject(m, o) ==
  LET out == m.pad[Out(o)]
      class == tile.class[o]
  IN CASE class \in {"and", "or"} -> GateUpdate(m, o)
       [] class = "mux" -> MuxUpdate(m, o)
       [] class = "cmp" /\ out.state >= 0 ->
            Update([m EXCEPT !.obj[o].started = TRUE], Out(o), Own(out.state))
       [] class = "cmp" /\ out.state < 0 -> [m EXCEPT !.obj[o].started = TRUE]
       [] class = "sink" /\ out.value # Unset -> SinkUpdate(m, o, out.value)
       [] OTHER -> m
-----------------------------------------------------------------------------
AtRest == stack = <<>>

\* hk_tile_load_net: it creates a net, then attaches the pads of the line, if there are any.
LoadNet ==
  /\ at.phase = "load" /\ at.line \in DOMAIN tile.lines
  /\ LET line == tile.lines[at.line] IN
     /\ \/ at.pos = 0 /\ wiring' = NetCreate(wiring)
        \/ /\ at.pos \in DOMAIN line
           /\ wiring' = NetConnect(wiring, wiring.table[Len(wiring.table)], line[at.pos])
     /\ at' = IF at.pos = Len(line) THEN [phase |-> "load", line |-> at.line + 1, pos |-> 0]
              ELSE [at EXCEPT !.pos = @ + 1]
  /\ UNCHANGED <<tile, machine>>

\* The phases follow one another.
NextPhase(from, to, steps) == /\ at.phase = from /\ AtRest
                              /\ at.line \notin DOMAIN steps
                              /\ at' = [phase |-> to, line |-> 1, pos |-> 0]
                              /\ UNCHANGED <<wiring, tile, machine>>

Loaded == NextPhase("load", "setup", tile.lines)
IsSetUp == NextPhase("setup", "start", tile.setup)
IsStarted == NextPhase("start", "run", tile.order)

\* hk_obj_setup: a reference (hk_obj_net) or a preset (hk_obj_preset)
Setup ==
  /\ at.phase = "setup" /\ AtRest /\ at.line \in DOMAIN tile.setup
  /\ LET prop == tile.setup[at.line] IN
     \/ /\ prop.ref # NoPad
        /\ wiring' = ObjNet(wiring, prop.pad, prop.ref)
        /\ UNCHANGED machine
     \/ /\ prop.ref = NoPad
        /\ Becomes(IF IsOut(prop.pad) THEN Update(M, prop.pad, Own(prop.preset))
                   ELSE UpdateInput([M EXCEPT !.pad[prop.pad].value = prop.preset],
                                    prop.pad, Own(prop.preset)))
        /\ UNCHANGED wiring
  /\ at' = [at EXCEPT !.line = @ + 1]
  /\ UNCHANGED tile

\* The start handlers, in the order of the objects
Start ==
  /\ at.phase = "start" /\ AtRest /\ at.line \in DOMAIN tile.order
  /\ Becomes(StartObject(M, tile.order[at.line]))
  /\ at' = [at EXCEPT !.line = @ + 1]
  /\ UNCHANGED <<wiring, tile>>

\* A sink receives a value from the network or the browser (comm_sink_update_str).
Receive(o, value) ==
  /\ at.phase = "run" /\ AtRest
  /\ Becomes(SinkUpdate(M, o, value))
  /\ UNCHANGED <<wiring, tile, at>>
-----------------------------------------------------------------------------
(* The calls under way                                                     *)

\* The pads of the net that the loop of hk_pad_update_str has still to update.
ToVisit_ButFirst(call) ==
  LET list == wiring.pads[wiring.net[call.pad]]
  IN {k \in call.i..Len(list) : k > 1 /\ list[k] # call.pad /\ ~IsOut(list[k])}
ToVisit(call) ==
  LET list == wiring.pads[wiring.net[call.pad]]
  IN {k \in call.i..Len(list) : list[k] # call.pad /\ ~IsOut(list[k])}

Visit_Restarted(call) ==
  LET k == FirstOf(ToVisit(call))
  IN IF ToVisit(call) = {} THEN [Drop(M) EXCEPT !.pad[call.pad].lock = FALSE]
     ELSE UpdateInput(M, wiring.pads[wiring.net[call.pad]][k], call.value)
Visit(call) ==
  LET k == FirstOf(ToVisit(call))
      next == [M EXCEPT !.stack[1].i = k + 1]
  IN IF ToVisit(call) = {} THEN [Drop(M) EXCEPT !.pad[call.pad].lock = FALSE]
     ELSE UpdateInput(next, wiring.pads[wiring.net[call.pad]][k], call.value)

Propagate ==
  /\ ~AtRest
  /\ LET call == Head(stack)
     IN \/ call.op = "visit" /\ Becomes(Visit(call))
        \/ call.op = "unlock" /\ Becomes([Drop(M) EXCEPT !.pad[call.pad].lock = FALSE])
        \/ call.op = "output" /\ Becomes(MuxUpdate(Drop(M), call.pad[1]))
  /\ UNCHANGED <<wiring, tile, at>>

Next == \/ LoadNet \/ Loaded \/ Setup \/ IsSetUp \/ Start \/ IsStarted \/ Propagate
        \/ \E o \in Of("sink"), value \in Values : Receive(o, value)

Spec == Init /\ [][Next]_vars

\* The program goes on with what it does; only the world outside may stay silent.
FairSpec == Spec /\ WF_vars(Propagate)
-----------------------------------------------------------------------------
(* Properties                                                              *)

\* Pads, endpoints and calls hold what they may; in particular no call hands on an unset value.
TypeOK ==
  /\ warned \in BOOLEAN /\ fresh \subseteq Pads
  /\ at.phase \in {"load", "setup", "start", "run"} /\ at.line \in Nat /\ at.pos \in Nat
  /\ pad \in [Pads -> [value : {Unset, 0, 1} \cup Values, state : {-1, 0, 1} \cup Values,
                       lock : BOOLEAN]]
  /\ obj \in [DOMAIN tile.class -> [refresh : BOOLEAN, started : BOOLEAN,
                                    ep : {Unset, 0, 1} \cup Values]]
  /\ \A k \in DOMAIN stack : /\ stack[k].op \in {"visit", "unlock", "output"}
                              /\ stack[k].pad \in Pads /\ Read(M, stack[k].value) \in {0, 1} \cup Values

\* hk_pad_update_str: "Raise lock to detect loop references".  The handler of an input is not
\* entered again before it has returned: a loop of objects does not recurse without end, but
\* for mux, whose handler frees the lock of its input early: a loop that goes through one
\* other object is cut there.
Entered(p) == Cardinality({k \in DOMAIN stack : stack[k].op = "unlock" /\ stack[k].pad = p})
LoopsCut == TypeOK /\ \A p \in Pads : Entered(p) > 1 => tile.class[p[1]] = "mux"

\* What the input p looks like after it received a value.
Received(p, value) ==
  LET class == tile.class[p[1]]
  IN CASE class \in {"and", "or"} -> pad[p].state = Bit(value # 0)
       [] class = "not" -> pad[p].state = Bit(value = 0)
       [] class = "cmp" -> pad[p].state = value
       [] class = "mux" /\ p[2] = "sel" -> pad[p].state = value
       [] class = "mux" /\ p[2] # "sel" -> pad[p].value = value
       [] class = "source" -> obj[p[1]].ep = value
       [] OTHER -> TRUE

\* The inputs on the net of an output that drives it alone.
Driven(out) == IF wiring.net[out] = 0 \/ \E p \in Pads : IsOut(p) /\ p # out /\ wiring.net[p] = wiring.net[out]
               THEN {} ELSE {p \in Pads : ~IsOut(p) /\ wiring.net[p] = wiring.net[out]}

\* The output of o is what its class makes of its inputs (a cmp also looks at the past).
Computed(o) ==
  CASE tile.class[o] \in {"and", "or"} -> pad[Out(o)].value = GateOut(M, o)
    [] tile.class[o] = "not" -> \A p \in Inputs(o) : pad[Out(o)].value = pad[p].state
    [] tile.class[o] = "mux" ->
         \A k \in DOMAIN DataPads : LET p == <<o, DataPads[k]>> IN
           (pad[<<o, "sel">>].state = k - 1 /\ p \in Pads /\ pad[p].value # Unset)
             => pad[Out(o)].value = pad[p].value
    [] OTHER -> TRUE

AllSettled == \A out \in {p \in fresh : IsOut(p)} :
                Computed(out[1]) /\ \A p \in Driven(out) : Received(p, pad[out].value)

\* A mux that is selected by what it made itself: its output comes back, through any number
\* of objects, to its sel.
Feeds(x, y) == Out(x) \in Pads /\ \E p \in Inputs(y) : wiring.net[p] # 0 /\ wiring.net[p] = wiring.net[Out(x)]
SelInRing ==
  \E o \in Of("mux") : \A S \in SUBSET DOMAIN tile.class :
    (\A y \in DOMAIN tile.class : (Feeds(o, y) \/ \E x \in S : Feeds(x, y)) => y \in S)
      => \E x \in S : Out(x) \in Pads /\ wiring.net[Out(x)] # 0 /\ wiring.net[Out(x)] = wiring.net[<<o, "sel">>]

\* When a change has run its course, every input holds what the output of its net holds, and
\* every output what its object makes of its inputs, be they reached once, several times or
\* in the middle of another update, or else a loop has been reported.  (Outputs set before
\* all was wired, and not updated since, are excepted: nothing sends them again; and tiles
\* in which a mux is selected by its own output, see RingsReported.)
Settled == (at.phase = "run" /\ AtRest /\ ~warned /\ ~SelInRing) => AllSettled

\* hk_pad_update_str: "Raise lock to detect loop references".  A loop of objects comes to
\* rest with inputs and outputs that agree, or is reported.
RingsReported == (at.phase = "run" /\ AtRest /\ ~warned) => AllSettled

\* Every change runs its course.
Rests == []<>AtRest
=============================================================================
