----------------------------- MODULE SysSources -----------------------------
(***************************************************************************)
(* What the event loop of os/linux/sys.c promises to the rest of HAKit.    *)
(*                                                                         *)
(* A source (timer, descriptor, child or quit handler) is registered under *)
(* a tag that was never handed out before, stays live until its owner      *)
(* removes it or its handler asks not to be called again, and only live    *)
(* sources are called, one at a time.  A source that is no longer live     *)
(* never comes back: a tag kept after that designates nothing.             *)
(***************************************************************************)
EXTENDS Naturals

CONSTANT MaxTag      \* how many tags the program takes, a bound of the model

VARIABLES live,      \* the tags of the live sources
          last,      \* the last tag handed out
          calling    \* the tag of the source whose handler runs, 0 for none

svars == <<live, last, calling>>

Init == live = {} /\ last = 0 /\ calling = 0

Register == /\ last < MaxTag
            /\ last' = last + 1
            /\ live' = live \cup {last'}
            /\ UNCHANGED calling

\* An owner removes a source, possibly the one whose handler is running.
Remove == /\ \E k \in live : live' = live \ {k}
          /\ UNCHANGED <<last, calling>>

Call == /\ calling = 0
        /\ calling' \in live
        /\ UNCHANGED <<live, last>>

\* The handler returns; its source stays live only if it was not removed meanwhile.
Return == /\ calling # 0
          /\ calling' = 0
          /\ live' \in {live, live \ {calling}}
          /\ UNCHANGED last

Next == Register \/ Remove \/ Call \/ Return

Spec == Init /\ [][Next]_svars
=============================================================================
