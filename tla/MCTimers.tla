------------------------------ MODULE MCTimers ------------------------------
(* An instance of Timers for TLC: one client that keeps its handle and may   *)
(* be called again, and any number of timers of one that forgets it.        *)
EXTENDS Timers

CONSTANTS b, f

MCSlots == 1 .. 3
MCClients == {b, f}
MCKeeps == {b}
MCRepeats == {b}
MCPeriods == {2}
MCAgain == {0, 1}

=============================================================================
