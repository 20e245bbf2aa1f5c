---------------------------- MODULE MCPunchClock ----------------------------
(***************************************************************************)
(* In a day of two ticks a session that starts at 0 reaches a maximum of   *)
(* one before midnight; with a maximum of two it reaches midnight first,   *)
(* or both at once.                                                        *)
(***************************************************************************)
EXTENDS PunchClock

Settings(en, mu, mx) == [enabled |-> en, multiple |-> mu, max |-> mx]

mcBoth == { Settings(TRUE, TRUE, 1), Settings(FALSE, TRUE, 2) }
mcSingle == { Settings(TRUE, FALSE, 2) }
mcOnLeave == Employees \X {1}

=============================================================================
