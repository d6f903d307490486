------------------------------- MODULE MCParts -------------------------------
(* An instance of Parts for TLC.                                              *)
EXTENDS Parts

CONSTANTS wall, door, cart, cloud, near, far, aside

(* One observation on the root's inner border, two in one leaf of the third   *)
(* level's parent, of two entities, and one outside the world.                *)
MCAt == [o \in {wall, door, cart, cloud} |->
            CASE o = wall -> 0 [] o = door -> 5 [] o = cart -> 7 [] OTHER -> 9]
MCEntity == [o \in {wall, door, cart, cloud} |-> IF o \in {wall, cart} THEN 1 ELSE 2]
MCCentres == {-3, 0, 2, 5, 8}

(* Two peers behind the host; the peers' workers and facts differ.            *)
MCWorker == [p \in {near, far, aside} |->
                CASE p = near -> "none" [] p = far -> "works" [] OTHER -> "fails"]
MCFacts == [p \in {near, far, aside} |->
                CASE p = near -> {1} [] p = far -> {1, 2} [] OTHER -> {2}]
=============================================================================
