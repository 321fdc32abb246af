------------------------------- MODULE MCTile -------------------------------
(* Every tile made of a sink, a nand, a not and a source whose inputs refer *)
(* to one of five pads or have a preset value, in two orders; tiles of two  *)
(* sinks, a cmp, a mux that looks at them, a second mux beside it and a     *)
(* source; muxes in rings; a latch of two nands; nets declared by [nets]    *)
(* lines.                                                                   *)
EXTENDS Tile, SequencesExt

Wire(p, q) == [pad |-> p, ref |-> q, preset |-> 0]
Preset(p, value) == [pad |-> p, ref |-> NoPad, preset |-> value]
Options(p, targets, values) == {Wire(p, q) : q \in targets} \cup {Preset(p, v) : v \in values}

T(order, setup, lines) == [order |-> order, setup |-> setup, lines |-> lines, inv |-> {"g", "h"},
  class |-> [o \in {order[i] : i \in DOMAIN order} |->
               CASE o \in {"s", "t"} -> "sink" [] o \in {"d", "e"} -> "source"
                 [] o \in {"g", "h"} -> "and" [] o = "r" -> "or" [] o = "n" -> "not"
                 [] o = "c" -> "cmp" [] o \in {"m", "k"} -> "mux"]]

O(o) == <<o, "out">>
I(o) == <<o, "in">>
I0(o) == <<o, "in0">>
I1(o) == <<o, "in1">>

GatePads == {O("s"), I0("g"), I1("g"), O("g"), I("n"), O("n"), I("d")}
Targets == {O("s"), O("g"), O("n"), I("n"), I0("g")}
GateSetups == {<<a, b, c, d>> : a \in Options(I0("g"), Targets, {1}),
                                b \in Options(I1("g"), Targets, {1}),
                                c \in Options(I("n"), Targets, {1}),
                                d \in Options(I("d"), Targets, {})}
GateTiles == {T(<<"s", "g", "n", "d">>, x, <<>>) : x \in GateSetups}
               \cup {T(<<"d", "n", "g", "s">>, Reverse(x), <<>>) : x \in GateSetups}

MuxPads == {O("t"), <<"c", "in">>, <<"c", "ref">>, O("c"), <<"m", "sel">>, I0("m"), I1("m"), O("m"),
            <<"k", "sel">>, I0("k"), O("k")}
MuxSetups == {<<Preset(O("t"), 1), Preset(<<"c", "ref">>, 1), Wire(<<"c", "in">>, O("s")),
                x, y, z, Wire(<<"k", "sel">>, O("c")), Wire(I0("k"), O("t")), w>> :
                x \in Options(<<"m", "sel">>, {O("s"), O("t"), O("c")}, {1}),
                y \in Options(I0("m"), {O("s"), O("t"), O("c")}, {2}),
                z \in Options(I1("m"), {O("s"), O("t"), O("k")}, {}),
                w \in Options(I("d"), {O("m"), O("k")}, {})}
MuxTiles == {T(<<"s", "t", "c", "m", "k", "d">>, x, <<>>) : x \in MuxSetups}

Latch == <<Wire(I0("g"), O("s")), Wire(I1("g"), O("h")), Wire(I0("h"), O("g")),
           Wire(I1("h"), O("t")), Wire(I("d"), O("g")), Wire(I("e"), O("h"))>>
LatchTiles == {T(<<"s", "t", "g", "h", "d", "e">>, Latch, <<>>)}

LineTiles == {T(<<"s", "t", "r", "d", "e">>, x, l) :
                x \in {<<>>, <<Wire(I("d"), O("r"))>>, <<Wire(I("d"), I("e"))>>},
                l \in {<< <<O("s"), I0("r")>>, <<O("t"), I1("r"), I("e")>> >>,
                       << <<O("s"), I0("r"), O("s")>>, <<O("r"), I0("r"), I("e")>>, <<>>, <<I("d")>> >>}}

\* A mux whose output comes back to it, straight or through a nand or a not.
RingTiles == {T(<<"s", "t", "m", "g", "n", "d">>,
                <<Wire(<<"m", "sel">>, O("s")), x, Wire(I1("m"), y), Wire(I0("g"), O("m")),
                  Wire(I1("g"), O("s")), Wire(I("n"), z), Wire(I("d"), O("m"))>>, <<>>) :
                x \in Options(I0("m"), {O("t"), O("n")}, {1}), y \in {O("g"), O("n")},
                z \in {O("g"), O("m"), O("t")}}

\* A mux selected by a not of its own output, which also goes through an or.
SelTiles == {T(<<"n", "m", "r", "t", "s", "d">>,
               <<Wire(<<"m", "sel">>, O("n")), Wire(I0("m"), O("r")), Wire(I1("m"), O("t")),
                 Wire(I0("r"), O("s")), Wire(I1("r"), O("n")), Wire(I("n"), O("m")), Wire(I("d"), O("m"))>>, <<>>)}

MCPads == GatePads \cup MuxPads \cup {I0("h"), I1("h"), O("h"), I0("r"), I1("r"), O("r"), I("e")}
MCTiles == GateTiles \cup MuxTiles \cup RingTiles \cup LatchTiles \cup LineTiles
=============================================================================
