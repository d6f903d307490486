------------------------------ MODULE Requests ------------------------------
(* What an agent asks of its peers, and what comes back: MeshQuery.query,     *)
(* SpatialMemoryNode.query_sphere, NRRMeshAdapter.dispatch_render and         *)
(* dispatch_scene_request, and what it publishes, which nobody answers.       *)
(* Envelopes may be lost; an id that comes twice from one sender is handled   *)
(* once, by a peer and by the host on the way (the chain's dedup).            *)
EXTENDS Naturals, FiniteSets

CONSTANTS
    Calls,      \* the requests made
    Peers,      \* the other agents
    Far,        \* peers reached through the host
    Withheld,   \* peers the asker's profiles say PRIVATE
    Reticent,   \* peers whose own profile for the asker is PRIVATE
    Refused,    \* peers the registry says are not paired or lack the workload
    Worker,     \* peer |-> "none", "works" or "fails"
    Facts,      \* peer |-> the facts its search finds
    MaxLost     \* bound: envelopes lost

Sorts == {"memory", "spatial", "render", "scene", "event", "observation"}

VARIABLES
    sort,       \* call |-> what it is
    asked,      \* call |-> the peers it is meant for
    state,      \* call |-> where the call is
    unsent,     \* call |-> peers its query has not been sent to yet
    net,        \* <<call, peer, "ask" or "reply">> under way
    passed,     \* calls whose message id the host has forwarded
    results,    \* call |-> _pending: the merged results, <<fact, peer>>
    replies,    \* call |-> _pending: replies counted
    placed,     \* peer or "me" |-> calls that put something into its index
    handled,    \* history: <<call, peer>> whose request was handled
    gone,       \* history: <<call, peer>> with an envelope lost
    swallowed,  \* history: <<call, peer>> the host took for a copy
    lost        \* envelopes lost so far

asking == <<state, unsent, results, replies>>
history == <<handled, gone, swallowed, lost>>
vars == <<sort, asked, asking, net, passed, placed, history>>

Asks(c) == sort[c] \notin {"event", "observation"}
Waits(c) == sort[c] \in {"memory", "spatial"}
Expected(c) == IF sort[c] = "memory" THEN Cardinality(asked[c]) ELSE 1

Init ==
    /\ sort \in [Calls -> Sorts]
    /\ asked = [c \in Calls |-> {}]
    /\ state = [c \in Calls |-> "new"]
    /\ unsent = [c \in Calls |-> {}]
    /\ net = {}
    /\ passed = {}
    /\ results = [c \in Calls |-> {}]
    /\ replies = [c \in Calls |-> 0]
    /\ placed = [p \in Peers \cup {"me"} |-> {}]
    /\ handled = {}
    /\ gone = {}
    /\ swallowed = {}
    /\ lost = 0

(* A call begins: a query enters _pending before anything is sent.           *)
Begin(c, to) ==
    /\ state[c] = "new"
    /\ to # {}
    /\ asked' = [asked EXCEPT ![c] = to]
    /\ unsent' = [unsent EXCEPT ![c] = to]
    /\ state' = [state EXCEPT ![c] = "sending"]
    /\ UNCHANGED <<sort, net, passed, results, replies, history>>

(* MeshQuery.query leaves out peers the asker's profiles say PRIVATE.        *)
Query(c, to) ==
    /\ sort[c] = "memory"
    /\ to \subseteq Peers \ Withheld
    /\ Begin(c, to)
    /\ UNCHANGED placed

QuerySphere(c) == sort[c] = "spatial" /\ Begin(c, Peers) /\ UNCHANGED placed

(* A dispatch refuses a peer the registry does not vouch for.                *)
DispatchRender(c, p) ==
    /\ sort[c] = "render"
    /\ p \notin Refused
    /\ Begin(c, {p})
    /\ UNCHANGED placed

DispatchSceneRequest(c, p) ==
    /\ sort[c] = "scene"
    /\ p \notin Refused
    /\ Begin(c, {p})
    /\ UNCHANGED placed

PublishMotionEvent(c) == sort[c] = "event" /\ Begin(c, Peers) /\ UNCHANGED placed

(* An observation enters the publisher's own index first.                    *)
PublishObservation(c) ==
    /\ sort[c] = "observation"
    /\ Begin(c, Peers)
    /\ placed' = [placed EXCEPT !["me"] = @ \cup {c}]

(* What the call does once it has sent to some peers: the loop goes on, then *)
(* a query waits and everything else returns.                                *)
SentTo(c, to) ==
    /\ unsent' = [unsent EXCEPT ![c] = @ \ to]
    /\ state' = [state EXCEPT ![c] = IF unsent'[c] # {} THEN "sending"
                                     ELSE IF Waits(c) THEN "waiting" ELSE "returned"]

(* One envelope to one peer.  Every peer's copy of a query has the query's   *)
(* message id, and the host forwards an id once.                             *)
SendTo(c, p) ==
    LET copy == p \in Far /\ c \in passed
    IN  /\ sort[c] \in {"memory", "render", "scene"}
        /\ p \in unsent[c]
        /\ SentTo(c, {p})
        /\ net' = IF copy THEN net ELSE net \cup {<<c, p, "ask">>}
        /\ swallowed' = IF copy THEN swallowed \cup {<<c, p>>} ELSE swallowed
        /\ passed' = IF p \in Far THEN passed \cup {c} ELSE passed
        /\ UNCHANGED <<sort, asked, results, replies, placed, handled, gone, lost>>

(* One envelope to "*", which the host fans out.                             *)
SendToAll(c) ==
    /\ sort[c] \in {"spatial", "event", "observation"}
    /\ state[c] = "sending"
    /\ SentTo(c, Peers)
    /\ net' = net \cup {<<c, p, "ask">> : p \in Peers}
    /\ passed' = passed \cup {c}
    /\ UNCHANGED <<sort, asked, results, replies, placed, history>>

(* An envelope never arrives: chain.send fails, or a transport loses it.     *)
Lose(m) ==
    /\ m \in net
    /\ lost < MaxLost
    /\ lost' = lost + 1
    /\ net' = net \ {m}
    /\ gone' = gone \cup {<<m[1], m[2]>>}
    /\ UNCHANGED <<sort, asked, asking, passed, placed, handled, swallowed>>

(* A peer handles the request, and answers it or does not.                   *)
Handle(c, p, answers) ==
    /\ <<c, p, "ask">> \in net
    /\ net' = (net \ {<<c, p, "ask">>}) \cup (IF answers THEN {<<c, p, "reply">>} ELSE {})
    /\ handled' = handled \cup {<<c, p>>}
    /\ UNCHANGED <<sort, asked, asking, passed, gone, swallowed, lost>>

(* _answer is silent towards a peer whose profile is PRIVATE.                *)
Answer(c, p) == sort[c] = "memory" /\ Handle(c, p, p \notin Reticent) /\ UNCHANGED placed

HandleQuery(c, p) == sort[c] = "spatial" /\ Handle(c, p, TRUE) /\ UNCHANGED placed

(* A bug: only what the worker has rendered is sent back.                    *)
RepliesIfRendered(c, p) ==
    sort[c] = "render" /\ Handle(c, p, Worker[p] = "works") /\ UNCHANGED placed

(* A render request is answered whatever the worker does.                    *)
InboundRender(c, p) == sort[c] = "render" /\ Handle(c, p, TRUE) /\ UNCHANGED placed

(* For a scene request the not_supported reply fails its own validation, and *)
(* the exception leaves the handler.                                         *)
InboundScene(c, p) ==
    sort[c] = "scene" /\ Handle(c, p, Worker[p] = "works") /\ UNCHANGED placed

(* What comes with a broadcast goes into the peer's index.                   *)
Placing(c, p) == Handle(c, p, FALSE) /\ placed' = [placed EXCEPT ![p] = @ \cup {c}]
InboundMotionEvent(c, p) == sort[c] = "event" /\ Placing(c, p)
HandleObservation(c, p) == sort[c] = "observation" /\ Placing(c, p)

(* A bug: the replies are counted and the results replaced.                  *)
Replaced(c, p) == {<<f, p>> : f \in Facts[p]}

(* A reply to a query merges into _pending what no other peer said, and is   *)
(* dropped when the query has returned.                                      *)
Merged(c, p) ==
    results[c] \cup {<<f, p>> : f \in {g \in Facts[p] : \A q \in Peers : <<g, q>> \notin results[c]}}

Collected(c, p) ==
    /\ <<c, p, "reply">> \in net
    /\ net' = net \ {<<c, p, "reply">>}
    /\ IF state[c] = "returned" THEN UNCHANGED <<results, replies>>
       ELSE /\ results' = [results EXCEPT ![c] = Merged(c, p)]
            /\ replies' = [replies EXCEPT ![c] = @ + 1]
    /\ UNCHANGED <<sort, asked, state, unsent, passed, placed, history>>

Collect(c, p) == sort[c] = "memory" /\ Collected(c, p)
HandleResponse(c, p) == sort[c] = "spatial" /\ Collected(c, p)

(* The result of a render is recorded, that of a scene enters the index.     *)
Received(c, p) ==
    /\ <<c, p, "reply">> \in net
    /\ net' = net \ {<<c, p, "reply">>}
    /\ replies' = [replies EXCEPT ![c] = @ + 1]
    /\ UNCHANGED <<sort, asked, state, unsent, results, passed, history>>

RenderResult(c, p) == sort[c] = "render" /\ Received(c, p) /\ UNCHANGED placed
InboundSceneResult(c, p) ==
    sort[c] = "scene" /\ Received(c, p) /\ placed' = [placed EXCEPT !["me"] = @ \cup {c}]

(* The waiting loop ends with the last reply expected, or at the deadline.   *)
Return(c) ==
    /\ state[c] = "waiting"
    /\ replies[c] >= Expected(c)
    /\ state' = [state EXCEPT ![c] = "returned"]
    /\ UNCHANGED <<sort, asked, unsent, results, replies, net, passed, placed, history>>

Deadline(c) ==
    /\ state[c] = "waiting"
    /\ replies[c] < Expected(c)
    /\ state' = [state EXCEPT ![c] = "returned"]
    /\ UNCHANGED <<sort, asked, unsent, results, replies, net, passed, placed, history>>

Arrive(c, p) ==
    \/ Answer(c, p) \/ HandleQuery(c, p)
    \/ InboundRender(c, p) \/ InboundScene(c, p)
    \/ InboundMotionEvent(c, p) \/ HandleObservation(c, p)
    \/ Collect(c, p) \/ HandleResponse(c, p)
    \/ RenderResult(c, p) \/ InboundSceneResult(c, p)

Start(c) ==
    \/ \E to \in SUBSET Peers : Query(c, to)
    \/ \E p \in Peers : DispatchRender(c, p) \/ DispatchSceneRequest(c, p)
    \/ QuerySphere(c) \/ PublishMotionEvent(c) \/ PublishObservation(c)

Next ==
    \/ \E c \in Calls :
        \/ Start(c) \/ SendToAll(c) \/ Return(c) \/ Deadline(c)
        \/ \E p \in Peers : SendTo(c, p) \/ Arrive(c, p)
    \/ \E m \in net : Lose(m)

(* A call goes on once begun; an envelope that is not lost arrives at a peer *)
(* that polls.                                                               *)
Fairness ==
    /\ \A c \in Calls :
        /\ WF_vars(SendToAll(c) \/ \E p \in Peers : SendTo(c, p))
        /\ WF_vars(Return(c) \/ Deadline(c))
    /\ \A c \in Calls, p \in Peers : WF_vars(Arrive(c, p))

Spec == Init /\ [][Next]_vars /\ Fairness
-----------------------------------------------------------------------------
TypeOK ==
    /\ sort \in [Calls -> Sorts]
    /\ asked \in [Calls -> SUBSET Peers]
    /\ state \in [Calls -> {"new", "sending", "waiting", "returned"}]
    /\ unsent \in [Calls -> SUBSET Peers]
    /\ net \subseteq Calls \X Peers \X {"ask", "reply"}
    /\ passed \subseteq Calls
    /\ results \in [Calls -> SUBSET ((UNION {Facts[p] : p \in Peers}) \X Peers)]
    /\ replies \in [Calls -> 0 .. Cardinality(Peers)]
    /\ placed \in [Peers \cup {"me"} -> SUBSET Calls]
    /\ handled \cup gone \cup swallowed \subseteq Calls \X Peers
    /\ lost \in 0 .. MaxLost

(* A memory query that comes back with every reply it expected has every     *)
(* fact that a peer it was meant for holds, each one once, whichever of the  *)
(* peers answered first.                                                     *)
FullAnswer ==
    \A c \in Calls :
        sort[c] = "memory" /\ state[c] # "new" /\ replies[c] = Expected(c) =>
            \A f \in UNION {Facts[p] : p \in asked[c]} :
                Cardinality({p \in Peers : <<f, p>> \in results[c]}) = 1

(* What keeps the asker without a reply: an envelope is lost, the host takes *)
(* the peer's copy for one it has forwarded, the peer's profile keeps it     *)
(* silent, or it is a scene request to a peer with no working scene worker.  *)
Silent(c, p) ==
    \/ <<c, p>> \in gone \cup swallowed
    \/ sort[c] = "memory" /\ p \in Reticent
    \/ sort[c] = "scene" /\ Worker[p] # "works"

(* Every request comes to its end: the asker gets the reply or, being a      *)
(* query, has returned before, unless one of those reasons keeps it silent.  *)
(* What is published enters the index of every peer that does not lose it.   *)
RequestsResolve ==
    \A c \in Calls, p \in Peers :
        p \in asked[c] ~>
            \/ Silent(c, p)
            \/ Waits(c) /\ state[c] = "returned"
            \/ Asks(c) /\ ~Waits(c) /\ replies[c] = 1
            \/ ~Asks(c) /\ c \in placed[p]
=============================================================================
