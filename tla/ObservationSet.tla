--------------------------- MODULE ObservationSet ---------------------------
(* What SpatialIndex promises: a set of observations.  One is taken in unless *)
(* it is known already, stays while it is fresh, and may come back once it    *)
(* was dropped; one outside the world is known and never held.                *)
EXTENDS Naturals

CONSTANTS Observations, InWorld

VARIABLES held, known

vars == <<held, known>>

Init == held = {} /\ known = {}

TakeIn(o) ==
    /\ o \notin known
    /\ known' = known \cup {o}
    /\ held' = IF o \in InWorld THEN held \cup {o} ELSE held

(* Some observations are too old: the rest stay, and only they are known.    *)
DropOld(old) ==
    /\ held' = held \ old
    /\ known' = held'

Next ==
    \/ \E o \in Observations : TakeIn(o)
    \/ \E old \in SUBSET Observations : DropOld(old)

Spec == Init /\ [][Next]_vars
=============================================================================
