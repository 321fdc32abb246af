----------------------------- MODULE MCSysLoop -----------------------------
(* Two slots, so that a freed slot is taken again at once and the third    *)
(* registration finds the table full; one descriptor, one child, a timer   *)
(* of delay 0 and one of delay 1.                                          *)
EXTENDS SysLoop
=============================================================================
