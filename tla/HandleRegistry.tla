--------------------------- MODULE HandleRegistry ---------------------------
(***************************************************************************)
(* What every proxy facade promises about its session handles (spec.md    *)
(* 4.1): acquire() hands out a handle that was never handed out before,  *)
(* and release(h) ends a session that is live.  Only these two steps      *)
(* change the registry; every other proxy call leaves it alone.           *)
(***************************************************************************)
CONSTANT Handles            \* the handle values the facade may return

VARIABLES issued,           \* handles returned by acquire() so far
          live              \* handles whose session has not been released

regVars == <<issued, live>>

TypeOK ==
    /\ issued \subseteq Handles
    /\ live \subseteq issued

Init ==
    /\ issued = {}
    /\ live = {}

Acquire(h) ==
    /\ h \notin issued
    /\ issued' = issued \cup {h}
    /\ live' = live \cup {h}

Release(h) ==
    /\ h \in live
    /\ live' = live \ {h}
    /\ UNCHANGED issued

Next == \E h \in Handles : Acquire(h) \/ Release(h)

Spec == Init /\ [][Next]_regVars
=============================================================================
