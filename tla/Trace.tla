-------------------------------- MODULE Trace -------------------------------
(***************************************************************************)
(* The trace of an endpoint (core/trace.c): a ring of entries, written at  *)
(* iput and read from iget, as operators on a record.                      *)
(***************************************************************************)
EXTENDS Integers, Sequences

CONSTANT TraceDepth     \* hk_endpoints.trace_depth

TraceAssumption == TraceDepth \in Nat \ {0}
ASSUME TraceAssumption

NoEntry == -2           \* the value of an entry that was never written

hk_trace_init == [tab |-> [i \in 0..TraceDepth - 1 |-> NoEntry], iput |-> 0, iget |-> 0]

After(i) == IF i + 1 >= TraceDepth THEN 0 ELSE i + 1

hk_trace_push_Full(tr, value) ==
  [tab |-> [tr.tab EXCEPT ![tr.iput] = value], iput |-> After(tr.iput), iget |-> tr.iget]
hk_trace_push(tr, value) ==
  LET iput == After(tr.iput)
  IN [tab |-> [tr.tab EXCEPT ![tr.iput] = value],
      iput |-> iput,
      iget |-> IF iput = tr.iget THEN After(tr.iget) ELSE tr.iget]

\* The entries that hk_trace_dump goes through, from iget to iput
Entries(tr) ==
  LET count == IF tr.iget <= tr.iput THEN tr.iput - tr.iget ELSE tr.iput + TraceDepth - tr.iget
  IN [k \in 1..count |-> tr.tab[IF tr.iget + k - 1 < TraceDepth THEN tr.iget + k - 1
                                ELSE tr.iget + k - 1 - TraceDepth]]

\* hk_trace_dump without limits of time: it ends at an entry that was never written.
hk_trace_dump(tr) ==
  LET entries == Entries(tr)
      last == CHOOSE n \in 0..Len(entries) :
                /\ \A k \in 1..n : entries[k] # NoEntry
                /\ n = Len(entries) \/ entries[n + 1] = NoEntry
  IN SubSeq(entries, 1, last)
-----------------------------------------------------------------------------
\* What a trace promises: the last values in order, as many as a ring can hold that is full
\* one entry before it meets itself.
Remember(log, value) ==
  IF Len(log) < TraceDepth - 1 THEN Append(log, value)
  ELSE IF log = <<>> THEN <<>> ELSE Append(Tail(log), value)
=============================================================================
