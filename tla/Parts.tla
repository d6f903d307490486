-------------------------------- MODULE Parts --------------------------------
(* Four parts of an agent that share no state: the store behind the memory    *)
(* mesh, the spatial index, the requests to peers and the audit trail with    *)
(* its dashboard.  Every behaviour is one part's, named by "part"; the others *)
(* keep their initial states, in which nothing of theirs that has fairness is *)
(* enabled.                                                                   *)
EXTENDS Integers, FactStoreAdapter

CONSTANTS
    Observations, At, Entity, Half, MaxDepth, MaxPerLeaf, MaxRebuilds,
    Centres, Radii,                                    \* of SpatialIndex
    Requested, Asked, Far, Withheld, Reticent, Refused, Worker, Facts,
    MaxLost,                                           \* of Requests: calls, peers
    Clients, RingSize, QueueSize, MaxMade, MaxRestarts \* of AuditTrail

VARIABLES
    part,
    lists, split, seen, expired, rebuilt, rebuilds, locked,
    sort, asked, state, unsent, net, passed, results, replies, placed,
    handled, gone, swallowed, lost,
    lines, unended, seq, tail, made, restarts, damaged, notify, following,
    ring, client

spatialVars == <<lists, split, seen, expired, rebuilt, rebuilds, locked>>
askingVars == <<sort, asked, state, unsent, net, passed, results, replies, placed,
                handled, gone, swallowed, lost>>
trailVars == <<lines, unended, seq, tail, made, restarts, damaged, notify, following,
               ring, client>>

Spatial == INSTANCE SpatialIndex
Asking == INSTANCE Requests WITH Calls <- Requested, Peers <- Asked
Trail == INSTANCE AuditTrail

(* The unit of the axis is fine enough for the borders of all nodes, as the   *)
(* code's numbers are: a node above the last level can be halved.             *)
ASSUME SpatialAssumption ==
    /\ Half \in Nat \ {0} /\ MaxDepth \in Nat /\ MaxRebuilds \in Nat
    /\ At \in [Observations -> Int] /\ Centres \subseteq Int /\ Radii \subseteq Int
    /\ \A d \in 1 .. MaxDepth : \A n \in Spatial!Levels[d - 1] : n[2] % 2 = 0

PartsInit ==
    /\ part \in {"store", "spatial", "requests", "trail"}
    /\ Init /\ Spatial!Init /\ Asking!Init /\ Trail!Init
    /\ part # "requests" => \A c \in Requested : sort[c] = "memory"

PartsNext ==
    \/ /\ part = "store" /\ Next
       /\ UNCHANGED <<part, spatialVars, askingVars, trailVars>>
    \/ /\ part = "spatial" /\ Spatial!Next
       /\ UNCHANGED <<part, vars, askingVars, trailVars>>
    \/ /\ part = "requests" /\ Asking!Next
       /\ UNCHANGED <<part, vars, spatialVars, trailVars>>
    \/ /\ part = "trail" /\ Trail!Next
       /\ UNCHANGED <<part, vars, spatialVars, askingVars>>

PartsVars == <<part, vars, spatialVars, askingVars, trailVars>>
PartsSpec == PartsInit /\ [][PartsNext]_PartsVars /\ Asking!Fairness

-----------------------------------------------------------------------------
(* The four parts keep their types; in the index, only nodes above _max_depth *)
(* have children (spatial.py:166-176).                                        *)
PartsTypeOK == TypeOK /\ Spatial!TypeOK /\ Asking!TypeOK /\ Trail!TypeOK

(* query_sphere finds every observation held within the radius, whatever its  *)
(* place in the tree (spatial.py:268-274); the other parts start with an      *)
(* index that holds nothing, where there is nothing to look at.               *)
SphereIsExact == part = "spatial" => Spatial!SphereIsExact

(* The octree with its borders, splits and rebuilds takes in, keeps and drops *)
(* what a set of observations does (spatial.py:241-250, 342-378).             *)
IndexIsASet ==
    /\ Spatial!Flat!Init
    /\ [][part = "spatial" => [Spatial!Flat!Next]_Spatial!Flat!vars]_spatialVars

(* MeshQuery.query with all its replies has every fact of the peers it was    *)
(* meant for, once (mesh_query.py:169-199).                                   *)
FullAnswer == Asking!FullAnswer

(* Every query, render request and scene request comes to its end, but for    *)
(* the envelopes lost or swallowed and the peers that keep silent             *)
(* (mesh_query.py:78-167, nrr_adapter.py:525-597, 640-717).                   *)
RequestsResolve == Asking!RequestsResolve

(* AuditChain.verify finds no problem in a file whose lines were all written  *)
(* whole, whatever the threads and restarts did (audit.py:52-154).            *)
VerifyIsQuiet == Trail!VerifyIsQuiet

(* AuditChain.verify finds a problem when a record is missing and one that    *)
(* the same process made later is there (audit.py:88-154).                    *)
LossIsNoticed == Trail!LossIsNoticed

(* A dashboard page gets every record made since it registered, unless its    *)
(* queue was full (dashboard.py:164-201, 386-413).                            *)
ClientsMissNothing == Trail!ClientsMissNothing
=============================================================================
