------------------------ MODULE FleetDeliveryProofs ------------------------
(* Proofs that the outbox and the dedups keep their bounds, and that a       *)
(* process handles a message once while its dedup remembers every message    *)
(* there is, for any messages, recipients and capacities, whatever is lost,  *)
(* replayed and restarted.                                                   *)
EXTENDS FleetDelivery, TLAPS, SequenceTheorems, FiniteSetTheorems

(* What TypeOK leaves out: a bounded outbox is finite, and what is on its    *)
(* way has been offered.                                                     *)
Bounded ==
    /\ IsFiniteSet(outbox) /\ IsFiniteSet(offered)
    /\ seen \in [Receivers -> Seq(Messages)]
    /\ handled \in [Receivers -> SUBSET Messages]
    /\ downlink \subseteq Receivers \X offered

(* Why HandledOnce is not inductive: it does not say that the dedup knows    *)
(* what the handlers got.  It does as long as it has not dropped an id, which *)
(* it does only when more ids than its capacity came.                        *)
Remembers(r) ==
    /\ handled[r] = ToSet(seen[r])
    /\ handled[r] \subseteq offered
    /\ IsFiniteSet(handled[r])
    /\ Cardinality(handled[r]) = Len(seen[r])

FewOffered == Cardinality(offered) <= Capacity
OnceInv == FewOffered => again = {} /\ \A r \in Receivers : Remembers(r)

Inv == TypeOK /\ Bounded /\ OnceInv

-----------------------------------------------------------------------------
(* InboxDedup.is_duplicate (store_forward.py:156-170): a dedup holds at most  *)
(* as many ids as its capacity, and while it has room it only adds one.      *)
LEMMA DedupKeepsBound ==
    ASSUME NEW list \in Seq(Messages), Len(list) <= Capacity, NEW m \in Messages
    PROVE  /\ Remembered(list, m) \in Seq(Messages)
           /\ Len(Remembered(list, m)) <= Capacity
<1>1. CASE Len(list) < Capacity
    <2>1. Remembered(list, m) = Append(list, m)
        BY <1>1 DEF Remembered
    <2> QED BY <1>1, <2>1, AppendProperties, BoundsAssumption, LenProperties
<1>2. CASE ~(Len(list) < Capacity)
    <2>1. Len(list) \in Nat /\ Capacity \in Nat \ {0} /\ Len(list) = Capacity
        BY <1>2, LenProperties, BoundsAssumption
    <2>2. list # <<>>
        BY <2>1, EmptySeq
    <2>3. PICK rest \in Seq(Messages) : rest = Tail(list) /\ Len(rest) = Len(list) - 1
        BY <2>2, HeadTailProperties
    <2>4. Remembered(list, m) = Append(rest, m)
        BY <1>2, <2>3 DEF Remembered
    <2>5. Append(rest, m) \in Seq(Messages) /\ Len(Append(rest, m)) = Len(rest) + 1
        BY AppendProperties
    <2> QED BY <2>1, <2>3, <2>4, <2>5
<1> QED BY <1>1, <1>2

LEMMA AppendedSet ==
    ASSUME NEW list \in Seq(Messages), NEW m \in Messages
    PROVE  /\ Append(list, m) \in Seq(Messages)
           /\ Len(Append(list, m)) = Len(list) + 1
           /\ ToSet(Append(list, m)) = ToSet(list) \cup {m}
<1>1. /\ Append(list, m) \in Seq(Messages) /\ Len(Append(list, m)) = Len(list) + 1
      /\ \A i \in 1..Len(list) : Append(list, m)[i] = list[i]
      /\ Append(list, m)[Len(list) + 1] = m
    BY AppendProperties
<1>2. /\ Len(list) \in Nat /\ DOMAIN list = 1..Len(list)
      /\ DOMAIN Append(list, m) = 1..(Len(list) + 1)
    BY <1>1, LenProperties
<1>3. PICK long : long = Append(list, m)
    OBVIOUS
<1>4. \A i \in 1..(Len(list) + 1) : i \in 1..Len(list) \/ i = Len(list) + 1
    BY <1>2
<1>5. ToSet(long) = ToSet(list) \cup {m}
    <2>1. ASSUME NEW x \in ToSet(long) PROVE x \in ToSet(list) \cup {m}
        BY <1>1, <1>2, <1>3, <1>4, <2>1 DEF ToSet
    <2>2. ASSUME NEW x \in ToSet(list) PROVE x \in ToSet(long)
        <3>1. PICK i \in 1..Len(list) : list[i] = x
            BY <1>2, <2>2 DEF ToSet
        <3>2. i \in 1..(Len(list) + 1) /\ long[i] = x
            BY <1>1, <1>2, <1>3, <3>1
        <3> QED BY <1>2, <1>3, <3>2 DEF ToSet
    <2>3. m \in ToSet(long)
        <3>1. Len(list) + 1 \in 1..(Len(list) + 1)
            BY <1>2
        <3> QED BY <1>1, <1>2, <1>3, <3>1 DEF ToSet
    <2> QED BY <2>1, <2>2, <2>3
<1> QED BY <1>1, <1>3, <1>5

(* A dedup that has forgotten nothing has room for a message it does not     *)
(* know, if no more messages were offered than it has places.                *)
LEMMA RoomForAll ==
    ASSUME Inv, FewOffered, NEW r \in Receivers, NEW m \in offered, ~Known(seen[r], m)
    PROVE  /\ m \notin handled[r]
           /\ Len(seen[r]) < Capacity
           /\ Remembered(seen[r], m) = Append(seen[r], m)
           /\ IsFiniteSet(handled[r] \cup {m})
           /\ Cardinality(handled[r] \cup {m}) = Len(seen[r]) + 1
<1>1. Remembers(r) /\ seen[r] \in Seq(Messages) /\ IsFiniteSet(offered) /\ m \in Messages
    BY DEF Inv, OnceInv, Bounded, TypeOK
<1>2. DOMAIN seen[r] = 1..Len(seen[r]) /\ Len(seen[r]) \in Nat
    BY <1>1, LenProperties
<1>3. m \notin handled[r]
    BY <1>1, <1>2 DEF Remembers, ToSet, Known, Contains
<1> DEFINE more == handled[r] \cup {m}
<1>4. IsFiniteSet(more) /\ Cardinality(more) = Len(seen[r]) + 1
    BY <1>1, <1>3, FS_AddElement DEF Remembers
<1>5. more \in SUBSET offered
    BY <1>1 DEF Remembers
<1>6. Cardinality(more) <= Cardinality(offered)
    BY <1>1, <1>5, FS_Subset
<1>7. Cardinality(offered) \in Nat /\ Capacity \in Nat
    BY <1>1, FS_CardinalityType, BoundsAssumption
<1>8. Len(seen[r]) < Capacity
    BY <1>2, <1>4, <1>6, <1>7 DEF FewOffered
<1> QED BY <1>3, <1>4, <1>8 DEF Remembered

-----------------------------------------------------------------------------
LEMMA InitInv == Init => Inv
<1> SUFFICES ASSUME Init PROVE Inv
    OBVIOUS
<1>1. IsFiniteSet({}) /\ Cardinality({}) = 0
    BY FS_EmptySet
<1>2. <<>> \in Seq(Messages) /\ Len(<<>>) = 0
    BY EmptySeq
<1>3. ToSet(<<>>) = {}
    BY DEF ToSet
<1>4. TypeOK /\ Bounded
    BY <1>1, <1>2, BoundsAssumption DEF Init, TypeOK, Bounded
<1>5. OnceInv
    BY <1>1, <1>2, <1>3 DEF Init, OnceInv, Remembers
<1> QED BY <1>4, <1>5 DEF Inv

(* Few messages now were few messages before: nothing takes back an offer.   *)
LEMMA FewWereFewer ==
    ASSUME Bounded, IsFiniteSet(offered'), offered \subseteq offered', FewOffered'
    PROVE  FewOffered
<1>1. Cardinality(offered) <= Cardinality(offered') /\ Cardinality(offered') \in Nat
      /\ Cardinality(offered) \in Nat
    BY FS_Subset, FS_CardinalityType
<1> QED BY <1>1, BoundsAssumption DEF FewOffered

(* Whatever leaves the receivers' processes alone keeps what they remember.  *)
LEMMA OthersRemember ==
    ASSUME Inv, IsFiniteSet(offered'), offered \subseteq offered', UNCHANGED receiver
    PROVE  OnceInv'
<1> SUFFICES ASSUME FewOffered' PROVE again' = {} /\ \A r \in Receivers : Remembers(r)'
    BY DEF OnceInv
<1>1. FewOffered
    BY FewWereFewer DEF Inv
<1> QED BY <1>1 DEF Inv, OnceInv, Remembers, receiver

-----------------------------------------------------------------------------
(* AgentRuntime.send: a full outbox refuses.                                 *)
LEMMA SendInv ==
    ASSUME Inv, NEW m \in Messages, Send(m)
    PROVE  Inv'
<1>1. IsFiniteSet(offered') /\ offered \subseteq offered' /\ offered' = offered \cup {m}
    BY FS_AddElement DEF Send, Inv, Bounded
<1>2. IsFiniteSet(outbox') /\ Cardinality(outbox') <= MaxPending
    <2>1. CASE m \in Durable /\ Cardinality(outbox) < MaxPending
        <3>1. outbox' = outbox \cup {m}
            BY <2>1 DEF Send
        <3>2. /\ IsFiniteSet(outbox \cup {m})
              /\ Cardinality(outbox \cup {m}) = IF m \in outbox THEN Cardinality(outbox)
                                                ELSE Cardinality(outbox) + 1
            BY FS_AddElement DEF Inv, Bounded
        <3>3. Cardinality(outbox) \in Nat /\ MaxPending \in Nat
            BY FS_CardinalityType, BoundsAssumption DEF Inv, Bounded
        <3> QED BY <2>1, <3>1, <3>2, <3>3
    <2>2. CASE ~(m \in Durable /\ Cardinality(outbox) < MaxPending)
        BY <2>2 DEF Send, Inv, Bounded, TypeOK
    <2> QED BY <2>1, <2>2
<1>3. TypeOK'
    BY <1>1, <1>2 DEF Send, Inv, TypeOK, host, receiver, failure, Pairs
<1>4. Bounded'
    BY <1>1, <1>2 DEF Send, Inv, Bounded, receiver
<1>5. OnceInv'
    BY <1>1, OthersRemember DEF Send
<1> QED BY <1>3, <1>4, <1>5 DEF Inv

\* The steps that offer nothing and leave the receivers' processes alone.
LEMMA WayInv ==
    ASSUME Inv, UNCHANGED <<outbox, offered, receiver>>,
           calling' \subseteq calling, uplink' \subseteq uplink \cup outbox \cup calling,
           paired' \in BOOLEAN, linked' \subseteq Receivers,
           hostSeen' \in Seq(Messages), Len(hostSeen') <= Capacity,
           downlink' \subseteq Receivers \X offered,
           faults' \in 0..MaxFaults, struck' \subseteq Faults
    PROVE  Inv'
<1>1. TypeOK'
    BY DEF Inv, TypeOK, Pairs, receiver
<1>2. Bounded'
    BY DEF Inv, Bounded, receiver
<1>3. OnceInv'
    BY OthersRemember DEF Inv, Bounded
<1> QED BY <1>1, <1>2, <1>3 DEF Inv

LEMMA FaultsStay ==
    ASSUME Inv, NEW kind, Strikes(kind)
    PROVE  faults' \in 0..MaxFaults /\ struck' \subseteq Faults
BY BoundsAssumption DEF Inv, TypeOK, Strikes

LEMMA SenderInv ==
    ASSUME Inv, \/ \E m \in Messages : Transmit(m) \/ TransmitFails(m)
                \/ Replay \/ SenderRestarts
    PROVE  Inv'
<1>1. /\ paired \in BOOLEAN /\ linked \subseteq Receivers /\ hostSeen \in Seq(Messages)
      /\ Len(hostSeen) <= Capacity /\ downlink \subseteq Receivers \X offered
      /\ faults \in 0..MaxFaults /\ struck \subseteq Faults
    BY DEF Inv, TypeOK, Bounded
<1>2. CASE \E m \in Messages : Transmit(m)
    BY <1>1, <1>2, WayInv DEF Transmit, host, failure
<1>3. CASE \E m \in Messages : TransmitFails(m)
    BY <1>1, <1>3, WayInv, FaultsStay DEF TransmitFails, host
<1>4. CASE Replay
    BY <1>1, <1>4, WayInv DEF Replay, sender, host, failure
<1>5. CASE SenderRestarts
    BY <1>1, <1>5, WayInv, FaultsStay DEF SenderRestarts, host
<1> QED BY <1>2, <1>3, <1>4, <1>5

(* The host's chain remembers a frame, then its router forwards it.          *)
LEMMA HostInv ==
    ASSUME Inv, \/ \E m \in Messages : HostReceives(m)
                \/ HostRestarts \/ Unpair \/ Pair
    PROVE  Inv'
<1>1. /\ paired \in BOOLEAN /\ linked \subseteq Receivers /\ hostSeen \in Seq(Messages)
      /\ Len(hostSeen) <= Capacity /\ downlink \subseteq Receivers \X offered
      /\ faults \in 0..MaxFaults /\ struck \subseteq Faults
    BY DEF Inv, TypeOK, Bounded
<1>2. ASSUME NEW m \in Messages, HostReceives(m)
      PROVE  Inv'
    <2>1. m \in offered
        BY <1>2 DEF HostReceives, Inv, TypeOK
    <2>2. hostSeen' \in Seq(Messages) /\ Len(hostSeen') <= Capacity
        BY <1>1, <1>2, DedupKeepsBound DEF HostReceives
    <2>3. downlink' \subseteq Receivers \X offered
        BY <1>1, <1>2, <2>1 DEF HostReceives
    <2> QED BY <1>1, <1>2, <2>2, <2>3, WayInv DEF HostReceives, sender, failure
<1>3. CASE HostRestarts
    <2>1. <<>> \in Seq(Messages) /\ Len(<<>>) = 0 /\ 0 <= Capacity
        BY EmptySeq, BoundsAssumption
    <2> QED BY <1>1, <1>3, <2>1, WayInv, FaultsStay DEF HostRestarts, sender
<1>4. CASE Unpair
    BY <1>1, <1>4, WayInv, FaultsStay DEF Unpair, sender
<1>5. CASE Pair
    BY <1>1, <1>5, WayInv DEF Pair, sender, failure
<1> QED BY <1>2, <1>3, <1>4, <1>5

LEMMA LinksInv ==
    ASSUME Inv, NEW r \in Receivers, Disconnect(r) \/ Connect(r)
    PROVE  Inv'
<1>1. /\ paired \in BOOLEAN /\ linked \subseteq Receivers /\ hostSeen \in Seq(Messages)
      /\ Len(hostSeen) <= Capacity /\ downlink \subseteq Receivers \X offered
      /\ faults \in 0..MaxFaults /\ struck \subseteq Faults
    BY DEF Inv, TypeOK, Bounded
<1>2. CASE Disconnect(r)
    BY <1>1, <1>2, WayInv, FaultsStay DEF Disconnect, sender
<1>3. CASE Connect(r)
    BY <1>1, <1>3, WayInv DEF Connect, sender, failure
<1> QED BY <1>2, <1>3

-----------------------------------------------------------------------------
(* A receiver's chain: an id the dedup knows ends here.                      *)
LEMMA ReceiverInv ==
    ASSUME Inv, NEW r \in Receivers, NEW m \in Messages, ReceiverReceives(r, m)
    PROVE  Inv'
<1>1. /\ m \in offered /\ seen[r] \in Seq(Messages) /\ Len(seen[r]) <= Capacity
      /\ handled[r] \subseteq Messages
    BY DEF ReceiverReceives, Inv, TypeOK, Bounded
<1>2. CASE Known(seen[r], m)
    <2>1. UNCHANGED receiver /\ downlink' \subseteq downlink
        BY <1>2 DEF ReceiverReceives, receiver
    <2> QED BY <2>1, WayInv DEF ReceiverReceives, sender, host, failure, Inv, TypeOK, Bounded
<1>3. CASE ~Known(seen[r], m)
    <2>1. PICK list \in Seq(Messages) : list = Remembered(seen[r], m) /\ Len(list) <= Capacity
        BY <1>1, DedupKeepsBound
    <2>2. /\ seen' = [seen EXCEPT ![r] = list]
          /\ handled' = [handled EXCEPT ![r] = @ \cup {m}]
          /\ again' = IF m \in handled[r] THEN again \cup {<<r, m>>} ELSE again
          /\ delivered' = delivered \cup {<<r, m>>}
          /\ downlink' \subseteq downlink
          /\ UNCHANGED <<sender, uplink, host, failure>>
        BY <1>3, <2>1 DEF ReceiverReceives
    <2>3. /\ seen' \in [Receivers -> Seq(Messages)] /\ seen'[r] = list
          /\ \A q \in Receivers \ {r} : seen'[q] = seen[q]
          /\ handled' \in [Receivers -> SUBSET Messages] /\ handled'[r] = handled[r] \cup {m}
          /\ \A q \in Receivers \ {r} : handled'[q] = handled[q]
        BY <2>2 DEF Inv, Bounded
    <2>4. Bounded'
        BY <2>2, <2>3 DEF Inv, Bounded, sender
    <2>5. TypeOK'
        <3>1. \A q \in Receivers : Len(seen'[q]) <= Capacity /\ seen'[q] \in Seq(Messages)
                                   /\ handled'[q] \subseteq Messages
            BY <2>1, <2>3 DEF Inv, TypeOK
        <3>2. downlink' \cup delivered' \cup again' \subseteq Pairs
            BY <2>2 DEF Inv, TypeOK, Pairs
        <3> QED BY <2>2, <3>1, <3>2 DEF Inv, TypeOK, sender, host, failure
    <2>6. OnceInv'
        <3> SUFFICES ASSUME FewOffered' PROVE again' = {} /\ \A q \in Receivers : Remembers(q)'
            BY DEF OnceInv
        <3>1. FewOffered
            BY <2>2 DEF FewOffered, sender
        <3>2. /\ m \notin handled[r] /\ list = Append(seen[r], m)
              /\ IsFiniteSet(handled[r] \cup {m})
              /\ Cardinality(handled[r] \cup {m}) = Len(seen[r]) + 1
            BY <1>1, <1>3, <2>1, <3>1, RoomForAll
        <3>3. again' = {}
            BY <2>2, <3>1, <3>2 DEF Inv, OnceInv
        <3>4. Remembers(r)'
            <4>1. Len(list) = Len(seen[r]) + 1 /\ ToSet(list) = ToSet(seen[r]) \cup {m}
                BY <1>1, <3>2, AppendedSet
            <4>2. Remembers(r)
                BY <3>1 DEF Inv, OnceInv
            <4> QED BY <1>1, <2>2, <2>3, <3>2, <4>1, <4>2 DEF Remembers, sender
        <3>5. ASSUME NEW q \in Receivers \ {r} PROVE Remembers(q)'
            <4>1. Remembers(q)
                BY <3>1 DEF Inv, OnceInv
            <4> QED BY <2>2, <2>3, <4>1 DEF Remembers, sender
        <3> QED BY <3>3, <3>4, <3>5
    <2> QED BY <2>4, <2>5, <2>6 DEF Inv
<1> QED BY <1>2, <1>3

(* A new process has handled nothing and remembers nothing.                  *)
LEMMA RestartInv ==
    ASSUME Inv, NEW r \in Receivers, ReceiverRestarts(r)
    PROVE  Inv'
<1>1. <<>> \in Seq(Messages) /\ Len(<<>>) = 0 /\ 0 <= Capacity /\ ToSet(<<>>) = {}
    BY EmptySeq, BoundsAssumption DEF ToSet
<1>2. /\ seen' \in [Receivers -> Seq(Messages)] /\ seen'[r] = <<>>
      /\ \A q \in Receivers \ {r} : seen'[q] = seen[q]
      /\ handled' \in [Receivers -> SUBSET Messages] /\ handled'[r] = {}
      /\ \A q \in Receivers \ {r} : handled'[q] = handled[q]
    BY <1>1 DEF ReceiverRestarts, Inv, Bounded
<1>3. Bounded'
    BY <1>2 DEF ReceiverRestarts, Inv, Bounded, sender
<1>4. TypeOK'
    <2>1. \A q \in Receivers : Len(seen'[q]) <= Capacity /\ seen'[q] \in Seq(Messages)
                               /\ handled'[q] \subseteq Messages
        BY <1>1, <1>2 DEF Inv, TypeOK
    <2>2. faults' \in 0..MaxFaults /\ struck' \subseteq Faults
        BY FaultsStay DEF ReceiverRestarts
    <2> QED BY <2>1, <2>2 DEF ReceiverRestarts, Inv, TypeOK, sender
<1>5. OnceInv'
    <2> SUFFICES ASSUME FewOffered' PROVE again' = {} /\ \A q \in Receivers : Remembers(q)'
        BY DEF OnceInv
    <2>1. FewOffered /\ UNCHANGED <<offered, again>>
        BY DEF ReceiverRestarts, FewOffered, sender
    <2>2. Remembers(r)'
        BY <1>1, <1>2, FS_EmptySet DEF Remembers
    <2>3. ASSUME NEW q \in Receivers \ {r} PROVE Remembers(q)'
        <3>1. Remembers(q)
            BY <2>1 DEF Inv, OnceInv
        <3> QED BY <1>2, <2>1, <3>1 DEF Remembers
    <2> QED BY <2>1, <2>2, <2>3 DEF Inv, OnceInv
<1> QED BY <1>3, <1>4, <1>5 DEF Inv

-----------------------------------------------------------------------------
LEMMA NextInv == Inv /\ [Next]_vars => Inv'
<1> SUFFICES ASSUME Inv, [Next]_vars PROVE Inv'
    OBVIOUS
<1>1. CASE \E m \in Messages : Send(m)
    BY <1>1, SendInv
<1>2. CASE \/ \E m \in Messages : Transmit(m) \/ TransmitFails(m)
           \/ Replay \/ SenderRestarts
    BY <1>2, SenderInv
<1>3. CASE (\E m \in Messages : HostReceives(m)) \/ HostRestarts \/ Unpair \/ Pair
    BY <1>3, HostInv
<1>4. CASE \E r \in Receivers, m \in Messages : ReceiverReceives(r, m)
    BY <1>4, ReceiverInv
<1>5. CASE \E r \in Receivers : Disconnect(r) \/ Connect(r)
    BY <1>5, LinksInv
<1>6. CASE \E r \in Receivers : ReceiverRestarts(r)
    BY <1>6, RestartInv
<1>7. CASE UNCHANGED vars
    <2>1. UNCHANGED receiver /\ UNCHANGED <<sender, uplink, host, downlink, failure>>
        BY <1>7 DEF vars
    <2> QED BY <2>1, WayInv DEF sender, host, failure, Inv, TypeOK, Bounded
<1> QED BY <1>1, <1>2, <1>3, <1>4, <1>5, <1>6, <1>7 DEF Next

LEMMA InvHolds == Spec => []Inv
BY InitInv, NextInv, PTL DEF Spec

(* The outbox and every dedup stay within their bounds, and only what was    *)
(* sent is anywhere on its way (store_forward.py:81-106, 144-170): for any   *)
(* messages and recipients, whatever fails.                                  *)
THEOREM TypeCorrect == Spec => []TypeOK
<1>1. Inv => TypeOK
    BY DEF Inv
<1> QED BY <1>1, InvHolds, PTL

(* The replays that never stop (shugonet_runtime.py:156-175) reach the       *)
(* handlers of one process once, until the fleet has sent more messages than *)
(* a dedup remembers: for any number of messages, and whatever is lost,      *)
(* unpaired or restarted.                                                    *)
THEOREM OnceWhileRemembered ==
    Spec => [](Cardinality(offered) <= Capacity => HandledOnce)
<1>1. Inv => (Cardinality(offered) <= Capacity => HandledOnce)
    BY DEF Inv, OnceInv, FewOffered, HandledOnce
<1> QED BY <1>1, InvHolds, PTL

(* In particular, a process handles every message once if the dedups have a  *)
(* place for every message there is (store_forward.py:144-170).              *)
THEOREM OncePerProcess ==
    ASSUME IsFiniteSet(Messages), Cardinality(Messages) <= Capacity
    PROVE  Spec => []HandledOnce
<1>1. Inv => HandledOnce
    <2> SUFFICES ASSUME Inv PROVE HandledOnce
        OBVIOUS
    <2>1. offered \in SUBSET Messages
        BY DEF Inv, TypeOK
    <2>2. Cardinality(offered) <= Cardinality(Messages) /\ Cardinality(offered) \in Nat
          /\ Cardinality(Messages) \in Nat
        BY <2>1, FS_Subset, FS_CardinalityType
    <2> QED BY <2>2, BoundsAssumption DEF Inv, OnceInv, FewOffered, HandledOnce
<1> QED BY <1>1, InvHolds, PTL

=============================================================================
