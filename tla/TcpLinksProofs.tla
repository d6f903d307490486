--------------------------- MODULE TcpLinksProofs ---------------------------
(* Proofs that the table of a running transport holds open connections only, *)
(* that an entry leaves it with its connection, and that what is on its way  *)
(* through a connection is whole frames in turn, for any nodes, connections, *)
(* callers and frames, and whatever fails.                                   *)
EXTENDS TcpLinks, TLAPS, SequenceTheorems

(* The types the proof needs.                                               *)
LinkTypes ==
    /\ link \in [Conns -> (Nodes \cup {None}) \X (Nodes \cup {None})]
    /\ status \in [Conns -> [Nodes -> Lives]]
    /\ table \in [Nodes -> [Nodes -> Conns \cup {None}]]
    /\ call \in [Nodes -> [Callers -> CallState]]
    /\ entering \subseteq Conns \X Nodes
    /\ running \in [Nodes -> {"yes", "stopping", "no"}]

(* Why TableEntriesOpen is not inductive: a call may enter its connection in *)
(* the table later, or close one it found there, so the invariant says which *)
(* life the connection of a call has.                                        *)
Fits(n, t) ==
    LET me == call[n][t]
    IN  /\ me.pc # "idle" => me.msg \in Frames /\ From[me.msg] = n
        /\ me.pc = "register" =>
             /\ me.conn \in Conns /\ status[me.conn][n] = "dialing"
             /\ \A u \in Callers \ {t} :
                  call[n][u].pc = "register" => call[n][u].conn # me.conn
        /\ me.pc \in {"write", "body", "close"} =>
             me.conn \in Conns /\ status[me.conn][n] \in {"up", "done"}
CallsFit == \A n \in Nodes, t \in Callers : Fits(n, t)

\* A connection nobody has dialled has no ends.
FreshConns == \A c \in Conns : link[c] = <<None, None>> =>
                \A n \in Nodes : status[c][n] = "none"

\* The table of a stopped transport may hold a connection that its stop closed
\* between the check of its handshake and its entry.
TableHasConns ==
    \A n, p \in Nodes : table[n][p] # None => status[table[n][p]][n] \in {"up", "done"}

EnteringWait ==
    \A c \in Conns, n \in Nodes : <<c, n>> \in entering =>
      status[c][n] = "awaiting" \/ (status[c][n] = "done" /\ running[n] = "no")

Inv == LinkTypes /\ CallsFit /\ FreshConns /\ TableHasConns /\ EnteringWait
         /\ TableEntriesOpen

-----------------------------------------------------------------------------
LEMMA NoneIsNoConn == None \notin Conns /\ None \notin Callers /\ None \notin Nodes
BY LinksAssumption

LEMMA InitInv == Init => Inv
<1> SUFFICES ASSUME Init PROVE Inv
    OBVIOUS
<1>1. LinkTypes
    BY DEF Init, LinkTypes, Lives, CallState, Idle, Ends
<1>2. CallsFit
    BY DEF Init, CallsFit, Fits, Idle
<1>3. FreshConns
    BY DEF Init, FreshConns, Ends
<1>4. TableHasConns /\ TableEntriesOpen
    BY DEF Init, TableHasConns, TableEntriesOpen
<1>5. EnteringWait
    BY DEF Init, EnteringWait
<1> QED BY <1>1, <1>2, <1>3, <1>4, <1>5 DEF Inv

-----------------------------------------------------------------------------
(* Steps that change one call.                                              *)

\* What a step of caller t of node n may do to the connections without
\* disturbing another call: close those that are not being dialled, and move
\* the one t is dialling.
Spares(n, t) ==
    \A c \in Conns, k \in Nodes :
      \/ status'[c][k] = status[c][k]
      \/ status'[c][k] = "done" /\ status[c][k] # "dialing"
      \/ status[c][k] \in {"none", "awaiting"}
      \/ k = n /\ call[n][t].pc = "register" /\ call[n][t].conn = c

Replaced(n, t, r) ==
    /\ r \in CallState
    /\ call' = [call EXCEPT ![n] = [@ EXCEPT ![t] = r]]

LEMMA ReplacedCall ==
    ASSUME LinkTypes, NEW n \in Nodes, NEW t \in Callers, NEW r, Replaced(n, t, r)
    PROVE  /\ call' \in [Nodes -> [Callers -> CallState]]
           /\ call'[n][t] = r
           /\ \A k \in Nodes, u \in Callers : k # n \/ u # t => call'[k][u] = call[k][u]
BY DEF LinkTypes, Replaced

\* The other calls go on fitting, unless t begins to dial the connection of
\* one of them.
LEMMA OthersFit ==
    ASSUME Inv, NEW n \in Nodes, NEW t \in Callers, NEW r, Replaced(n, t, r), Spares(n, t),
           \/ r.pc # "register"
           \/ \A u \in Callers \ {t} :
                call[n][u].pc = "register" => call[n][u].conn # r.conn
    PROVE  \A k \in Nodes, u \in Callers : k # n \/ u # t => Fits(k, u)'
<1> TAKE k \in Nodes, u \in Callers
<1> HAVE k # n \/ u # t
<1>1. /\ call'[n][t] = r
      /\ \A kk \in Nodes, uu \in Callers : kk # n \/ uu # t => call'[kk][uu] = call[kk][uu]
    BY ReplacedCall DEF Inv
<1>2. Fits(k, u)
    BY DEF Inv, CallsFit
<1>3. call'[k][u] = call[k][u]
    BY <1>1
<1>4. ASSUME call[k][u].pc = "register"
      PROVE  /\ call[k][u].conn \in Conns /\ status'[call[k][u].conn][k] = "dialing"
             /\ \A v \in Callers \ {u} :
                  call'[k][v].pc = "register" => call'[k][v].conn # call[k][u].conn
  <2>1. call[k][u].conn \in Conns /\ status[call[k][u].conn][k] = "dialing"
      BY <1>2, <1>4 DEF Fits
  <2>2. ~(k = n /\ call[n][t].pc = "register" /\ call[n][t].conn = call[k][u].conn)
      BY <1>2, <1>4 DEF Fits
  <2>3. status'[call[k][u].conn][k] = "dialing"
      BY <2>1, <2>2 DEF Spares
  <2>4. ASSUME NEW v \in Callers \ {u}, call'[k][v].pc = "register"
        PROVE  call'[k][v].conn # call[k][u].conn
    <3>1. CASE k = n /\ v = t
        BY <1>1, <1>4, <2>4, <3>1
    <3>2. CASE ~(k = n /\ v = t)
        BY <1>1, <1>2, <1>4, <2>4, <3>2 DEF Fits
    <3> QED BY <3>1, <3>2
  <2> QED BY <2>1, <2>3, <2>4
<1>5. ASSUME call[k][u].pc \in {"write", "body", "close"}
      PROVE  /\ call[k][u].conn \in Conns
             /\ status'[call[k][u].conn][k] \in {"up", "done"}
  <2>1. call[k][u].conn \in Conns /\ status[call[k][u].conn][k] \in {"up", "done"}
      BY <1>2, <1>5 DEF Fits
  <2>2. ~(k = n /\ call[n][t].pc = "register" /\ call[n][t].conn = call[k][u].conn)
      BY <2>1 DEF Inv, CallsFit, Fits
  <2> QED BY <2>1, <2>2 DEF Spares
<1> QED BY <1>2, <1>3, <1>4, <1>5 DEF Fits

LEMMA AllFit ==
    ASSUME Inv, NEW n \in Nodes, NEW t \in Callers, NEW r, Replaced(n, t, r), Spares(n, t),
           \/ r.pc # "register"
           \/ \A u \in Callers \ {t} :
                call[n][u].pc = "register" => call[n][u].conn # r.conn,
           Fits(n, t)'
    PROVE  CallsFit'
BY OthersFit DEF CallsFit

\* A step that changes only a call.
LEMMA CallOnly ==
    ASSUME Inv, NEW n \in Nodes, NEW t \in Callers, NEW r, Replaced(n, t, r),
           UNCHANGED <<link, status, table, entering, running>>,
           r.pc # "register",
           r.pc # "idle" => r.msg \in Frames /\ From[r.msg] = n,
           r.pc \in {"write", "body", "close"} =>
             r.conn \in Conns /\ status[r.conn][n] \in {"up", "done"}
    PROVE  Inv'
<1>1. call' \in [Nodes -> [Callers -> CallState]] /\ call'[n][t] = r
    BY ReplacedCall DEF Inv
<1>2. LinkTypes'
    BY <1>1 DEF Inv, LinkTypes
<1>3. Spares(n, t)
    BY DEF Spares
<1>4. Fits(n, t)'
    BY <1>1 DEF Fits
<1>5. CallsFit'
    BY <1>3, <1>4, AllFit
<1>6. FreshConns' /\ TableHasConns' /\ EnteringWait' /\ TableEntriesOpen'
    BY DEF Inv, FreshConns, TableHasConns, EnteringWait, TableEntriesOpen, Other
<1> QED BY <1>2, <1>5, <1>6 DEF Inv

\* What a call looks like while it is under way.
LEMMA CallParts ==
    ASSUME Inv, NEW n \in Nodes, NEW t \in Callers
    PROVE  /\ call[n][t] \in CallState
           /\ call[n][t] = [pc |-> call[n][t].pc, msg |-> call[n][t].msg, conn |-> call[n][t].conn]
           /\ Fits(n, t)
BY DEF Inv, LinkTypes, CallState, CallsFit

LEMMA WriterParts ==
    ASSUME Inv, NEW n \in Nodes, NEW t \in Callers, call[n][t].pc \in {"write", "body", "close"}
    PROVE  /\ call[n][t].msg \in Frames /\ From[call[n][t].msg] = n
           /\ call[n][t].conn \in Conns /\ status[call[n][t].conn][n] \in {"up", "done"}
<1>1. Fits(n, t)
    BY CallParts
<1> QED BY <1>1 DEF Fits

LEMMA IdleState == Idle \in CallState
BY DEF Idle, CallState

\* A call that goes on with the same message and connection.
LEMMA StepOn ==
    ASSUME Inv, NEW n \in Nodes, NEW t \in Callers,
           NEW pc \in {"idle", "dial", "register", "write", "body", "close"},
           call' = [call EXCEPT ![n][t].pc = pc]
    PROVE  Replaced(n, t, [pc |-> pc, msg |-> call[n][t].msg, conn |-> call[n][t].conn])
<1> DEFINE old == call[n][t]
<1>0. old \in CallState
    BY CallParts
<1> HIDE DEF old
<1>1. [old EXCEPT !.pc = pc] = [pc |-> pc, msg |-> old.msg, conn |-> old.conn]
    BY <1>0 DEF CallState
<1>2. [pc |-> pc, msg |-> old.msg, conn |-> old.conn] \in CallState
    BY <1>0 DEF CallState
<1>3. call' = [call EXCEPT ![n] = [@ EXCEPT ![t] = [old EXCEPT !.pc = pc]]]
    BY DEF old
<1> QED BY <1>1, <1>2, <1>3 DEF Replaced, old

LEMMA SendFrameStep ==
    ASSUME Inv, NEW n \in Nodes, NEW t \in Callers, NEW m \in Frames, SendFrame(n, t, m)
    PROVE  Inv'
<1> DEFINE c == table[n][To[m]]
           r == [pc |-> IF c = None THEN "dial" ELSE "write", msg |-> m, conn |-> c]
<1>1. To[m] \in Nodes /\ From[m] = n
    BY LinksAssumption DEF SendFrame
<1>2. c \in Conns \cup {None}
    BY <1>1 DEF Inv, LinkTypes
<1>3. Replaced(n, t, r)
    BY <1>2 DEF SendFrame, SetCall, Replaced, CallState
<1>4. c # None => c \in Conns /\ status[c][n] \in {"up", "done"}
    BY <1>1, <1>2 DEF Inv, TableHasConns
<1>5. UNCHANGED <<link, status, table, entering, running>>
    BY DEF SendFrame, wire, node
<1> HIDE DEF c
<1> QED BY <1>1, <1>3, <1>4, <1>5, CallOnly

LEMMA ReuseStep ==
    ASSUME Inv, NEW n \in Nodes, NEW t \in Callers, Reuse(n, t)
    PROVE  Inv'
<1> DEFINE m == call[n][t].msg
           c == table[n][To[m]]
           r == [pc |-> "write", msg |-> m, conn |-> c]
<1>1. m \in Frames /\ From[m] = n
    BY CallParts DEF Reuse, Fits
<1>2. To[m] \in Nodes
    BY <1>1, LinksAssumption
<1>3. c \in Conns /\ status[c][n] \in {"up", "done"}
    BY <1>2 DEF Inv, LinkTypes, TableHasConns, Reuse
<1>4. Replaced(n, t, r)
    BY <1>1, <1>3 DEF Reuse, SetCall, Replaced, CallState
<1>5. UNCHANGED <<link, status, table, entering, running>>
    BY DEF Reuse, wire, node
<1> HIDE DEF m, c
<1> QED BY <1>1, <1>3, <1>4, <1>5, CallOnly

LEMMA FailIsReplaced ==
    ASSUME NEW n \in Nodes, NEW t \in Callers, Fail(n, t)
    PROVE  Replaced(n, t, Idle) /\ Idle.pc = "idle"
BY IdleState DEF Fail, Replaced, Idle

LEMMA DialFailsStep ==
    ASSUME Inv, NEW n \in Nodes, NEW t \in Callers, DialFails(n, t)
    PROVE  Inv'
<1>1. Replaced(n, t, Idle) /\ Idle.pc = "idle"
    BY FailIsReplaced DEF DialFails
<1>2. UNCHANGED <<link, status, table, entering, running>>
    BY DEF DialFails, wire, node
<1> QED BY <1>1, <1>2, CallOnly

LEMMA WriteStep ==
    ASSUME Inv, NEW n \in Nodes, NEW t \in Callers,
           WriteLength(n, t) \/ WriteBody(n, t) \/ WriteFails(n, t)
    PROVE  Inv'
<1>1. CASE WriteLength(n, t)
  <2> DEFINE r == [pc |-> "body", msg |-> call[n][t].msg, conn |-> call[n][t].conn]
  <2>1. Replaced(n, t, r)
      BY <1>1, StepOn DEF WriteLength
  <2>2. UNCHANGED <<link, status, table, entering, running>>
      BY <1>1 DEF WriteLength, node
  <2>3. call[n][t].pc = "write"
      BY <1>1 DEF WriteLength
  <2>4. /\ r.msg \in Frames /\ From[r.msg] = n
        /\ r.conn \in Conns /\ status[r.conn][n] \in {"up", "done"}
      BY <2>3, WriterParts
  <2>5. r.pc # "register"
      OBVIOUS
  <2> HIDE DEF r
  <2> QED BY <2>1, <2>2, <2>4, <2>5, CallOnly
<1>2. CASE WriteBody(n, t)
  <2>1. Replaced(n, t, Idle) /\ Idle.pc = "idle"
      BY <1>2, IdleState DEF WriteBody, Replaced, Idle
  <2>2. UNCHANGED <<link, status, table, entering, running>>
      BY <1>2 DEF WriteBody, node
  <2> QED BY <2>1, <2>2, CallOnly
<1>3. CASE WriteFails(n, t)
  <2> DEFINE r == [pc |-> "close", msg |-> call[n][t].msg, conn |-> call[n][t].conn]
  <2>1. Replaced(n, t, r)
      BY <1>3, StepOn DEF WriteFails
  <2>2. UNCHANGED <<link, status, table, entering, running>>
      BY <1>3 DEF WriteFails, node
  <2>3. call[n][t].pc \in {"write", "body"}
      BY <1>3 DEF WriteFails
  <2>4. /\ r.msg \in Frames /\ From[r.msg] = n
        /\ r.conn \in Conns /\ status[r.conn][n] \in {"up", "done"}
      BY <2>3, WriterParts
  <2>5. r.pc # "register"
      OBVIOUS
  <2> HIDE DEF r
  <2> QED BY <2>1, <2>2, <2>4, <2>5, CallOnly
<1> QED BY <1>1, <1>2, <1>3

-----------------------------------------------------------------------------
(* What the table says stays true if its new entries and those whose        *)
(* connection changes are open, or have left it.                            *)
OtherIn(links, c, n) == IF links[c][1] = n THEN links[c][2] ELSE links[c][1]

LEMMA TableKept ==
    ASSUME Inv, table' \in [Nodes -> [Nodes -> Conns \cup {None}]],
           \A n \in Nodes : running'[n] # "no" => running[n] # "no",
           \A n, p \in Nodes : table'[n][p] # None =>
             \/ /\ table[n][p] = table'[n][p]
                /\ status'[table[n][p]][n] = status[table[n][p]][n]
                /\ link'[table[n][p]] = link[table[n][p]]
             \/ /\ status'[table'[n][p]][n] = "up"
                /\ OtherIn(link', table'[n][p], n) = p
             \/ /\ status'[table'[n][p]][n] \in {"up", "done"}
                /\ running'[n] = "no"
    PROVE  TableHasConns' /\ TableEntriesOpen'
<1> SUFFICES ASSUME NEW n \in Nodes, NEW p \in Nodes, table'[n][p] # None
             PROVE  /\ status'[table'[n][p]][n] \in {"up", "done"}
                    /\ running'[n] # "no" =>
                         /\ status'[table'[n][p]][n] = "up"
                         /\ OtherIn(link', table'[n][p], n) = p
    BY DEF TableHasConns, TableEntriesOpen, Other, OtherIn
<1>1. CASE /\ table[n][p] = table'[n][p]
           /\ status'[table[n][p]][n] = status[table[n][p]][n]
           /\ link'[table[n][p]] = link[table[n][p]]
  <2>1. /\ status[table[n][p]][n] \in {"up", "done"}
        /\ running[n] # "no" => status[table[n][p]][n] = "up" /\ Other(table[n][p], n) = p
      BY <1>1 DEF Inv, TableHasConns, TableEntriesOpen
  <2>2. OtherIn(link', table'[n][p], n) = Other(table[n][p], n)
      BY <1>1 DEF Other, OtherIn
  <2> QED BY <1>1, <2>1, <2>2
<1> QED BY <1>1

-----------------------------------------------------------------------------
(* Dialling.                                                                *)

LEMMA DialStep ==
    ASSUME Inv, NEW n \in Nodes, NEW t \in Callers, Dial(n, t)
    PROVE  Inv'
<1> DEFINE m == call[n][t].msg
           p == To[m]
<1>1. m \in Frames /\ From[m] = n /\ p \in Nodes /\ n # p
  <2>1. Fits(n, t) /\ call[n][t].pc = "dial"
      BY CallParts DEF Dial
  <2>2. m \in Frames /\ From[m] = n
      BY <2>1 DEF Fits
  <2> QED BY <2>2, LinksAssumption
<1>2. PICK c \in Conns :
        /\ link[c] = <<None, None>>
        /\ link' = [link EXCEPT ![c] = <<n, p>>]
        /\ status' = [status EXCEPT ![c][n] = "dialing", ![c][p] = "awaiting"]
        /\ SetCall(n, t, "register", m, c)
    BY DEF Dial
<1>3. UNCHANGED <<table, entering, running>>
    BY DEF Dial, node
<1>4. \A k \in Nodes : status[c][k] = "none"
    BY <1>2 DEF Inv, FreshConns
<1> DEFINE r == [pc |-> "register", msg |-> m, conn |-> c]
<1> HIDE DEF m, p
<1>5. /\ status' \in [Conns -> [Nodes -> Lives]]
      /\ status'[c][n] = "dialing"
      /\ \A d \in Conns, k \in Nodes : d # c => status'[d][k] = status[d][k]
      /\ \A k \in Nodes : k # n /\ k # p => status'[c][k] = status[c][k]
    BY <1>1, <1>2 DEF Inv, LinkTypes, Lives
<1>6. Replaced(n, t, r)
    BY <1>1, <1>2 DEF SetCall, Replaced, CallState, m
<1>7. call' \in [Nodes -> [Callers -> CallState]] /\ call'[n][t] = r
      /\ \A k \in Nodes, u \in Callers : k # n \/ u # t => call'[k][u] = call[k][u]
    BY <1>6, ReplacedCall DEF Inv
<1>8. LinkTypes'
  <2>1. link' \in [Conns -> (Nodes \cup {None}) \X (Nodes \cup {None})]
      BY <1>1, <1>2 DEF Inv, LinkTypes
  <2> QED BY <1>3, <1>5, <1>7, <2>1 DEF Inv, LinkTypes
<1>9. \A u \in Callers \ {t} : call[n][u].pc = "register" => call[n][u].conn # c
    BY <1>4 DEF Inv, CallsFit, Fits
<1>10. Spares(n, t)
    BY <1>4, <1>5 DEF Spares
<1>11. Fits(n, t)'
    BY <1>1, <1>5, <1>7, <1>9 DEF Fits
<1>12. CallsFit'
    BY <1>6, <1>9, <1>10, <1>11, AllFit
<1>13. FreshConns'
  <2> SUFFICES ASSUME NEW d \in Conns, link'[d] = <<None, None>>, NEW k \in Nodes
               PROVE  status'[d][k] = "none"
      BY DEF FreshConns
  <2>1. CASE d = c
    <3>1. link'[c] = <<n, p>>
        BY <1>2 DEF Inv, LinkTypes
    <3> QED BY <2>1, <3>1, NoneIsNoConn
  <2>2. CASE d # c
      BY <1>2, <1>5, <2>2 DEF Inv, FreshConns
  <2> QED BY <2>1, <2>2
<1>14. TableHasConns' /\ TableEntriesOpen'
  <2>1. ASSUME NEW k \in Nodes, NEW q \in Nodes, table[k][q] # None
        PROVE  table[k][q] \in Conns \ {c}
    <3>1. table[k][q] \in Conns
        BY <2>1 DEF Inv, LinkTypes
    <3>2. status[table[k][q]][k] \in {"up", "done"}
        BY <2>1 DEF Inv, TableHasConns
    <3> QED BY <1>4, <3>1, <3>2
  <2>2. \A d \in Conns \ {c} : link'[d] = link[d]
      BY <1>2 DEF Inv, LinkTypes
  <2>3. table' \in [Nodes -> [Nodes -> Conns \cup {None}]]
      BY <1>3 DEF Inv, LinkTypes
  <2> QED BY <1>3, <1>5, <2>1, <2>2, <2>3, TableKept
<1>15. EnteringWait'
    BY <1>3, <1>4, <1>5 DEF Inv, EnteringWait
<1> QED BY <1>8, <1>12, <1>13, <1>14, <1>15 DEF Inv

\* What a call that is about to enter its connection looks like.
LEMMA RegisterParts ==
    ASSUME Inv, NEW n \in Nodes, NEW t \in Callers, call[n][t].pc = "register"
    PROVE  /\ call[n][t].msg \in Frames /\ From[call[n][t].msg] = n
           /\ call[n][t].conn \in Conns /\ status[call[n][t].conn][n] = "dialing"
<1>1. Fits(n, t)
    BY CallParts
<1> QED BY <1>1 DEF Fits

\* The end of a connection changes its life; no other end does.
LEMMA OneEnd ==
    ASSUME LinkTypes, NEW c \in Conns, NEW n \in Nodes, NEW life \in Lives,
           status' = [status EXCEPT ![c][n] = life]
    PROVE  /\ status' \in [Conns -> [Nodes -> Lives]]
           /\ status'[c][n] = life
           /\ \A d \in Conns, k \in Nodes : d # c \/ k # n => status'[d][k] = status[d][k]
BY DEF LinkTypes

LEMMA AnnounceFailsStep ==
    ASSUME Inv, NEW n \in Nodes, NEW t \in Callers, AnnounceFails(n, t)
    PROVE  Inv'
<1> DEFINE c == call[n][t].conn
<1>1. call[n][t].pc = "register" /\ c \in Conns /\ status[c][n] = "dialing"
    BY RegisterParts DEF AnnounceFails
<1>2. status' = [status EXCEPT ![c][n] = "done"]
    BY DEF AnnounceFails
<1>3. UNCHANGED <<link, table, entering, running>>
    BY DEF AnnounceFails, wire, node
<1>4. Replaced(n, t, Idle) /\ Idle.pc = "idle"
    BY FailIsReplaced DEF AnnounceFails
<1>5. call' \in [Nodes -> [Callers -> CallState]] /\ call'[n][t] = Idle
    BY <1>4, ReplacedCall DEF Inv
<1> HIDE DEF c
<1>6. /\ status' \in [Conns -> [Nodes -> Lives]] /\ status'[c][n] = "done"
      /\ \A d \in Conns, k \in Nodes : d # c \/ k # n => status'[d][k] = status[d][k]
    BY <1>1, <1>2, OneEnd DEF Inv, Lives
<1>7. LinkTypes'
    BY <1>3, <1>5, <1>6 DEF Inv, LinkTypes
<1>8. Spares(n, t)
    BY <1>1, <1>6 DEF Spares, c
<1>9. Fits(n, t)'
    BY <1>4, <1>5 DEF Fits
<1>10. CallsFit'
    BY <1>4, <1>8, <1>9, AllFit
<1>11. FreshConns'
    BY <1>1, <1>3, <1>6 DEF Inv, FreshConns
<1>12. TableHasConns' /\ TableEntriesOpen'
  <2>1. \A p \in Nodes : table[n][p] # c
      BY <1>1, NoneIsNoConn DEF Inv, TableHasConns
  <2>2. table \in [Nodes -> [Nodes -> Conns \cup {None}]]
      BY DEF Inv, LinkTypes
  <2> QED BY <1>3, <1>6, <2>1, <2>2, TableKept
<1>13. EnteringWait'
    BY <1>1, <1>3, <1>6 DEF Inv, EnteringWait
<1> QED BY <1>7, <1>10, <1>11, <1>12, <1>13 DEF Inv

LEMMA RegisterStep ==
    ASSUME Inv, NEW n \in Nodes, NEW t \in Callers, Register(n, t)
    PROVE  Inv'
<1> DEFINE c == call[n][t].conn
           r == [pc |-> "write", msg |-> call[n][t].msg, conn |-> c]
<1>1. /\ call[n][t].pc = "register" /\ c \in Conns /\ status[c][n] = "dialing"
      /\ r.msg \in Frames /\ From[r.msg] = n
    BY RegisterParts DEF Register
<1>2. status' = [status EXCEPT ![c][n] = "up"]
    BY DEF Register
<1>2a. table' = [table EXCEPT ![n][Other(c, n)] = c]
    BY DEF Register
<1>3. UNCHANGED <<link, entering, running>>
    BY DEF Register, wire, node
<1>4. Replaced(n, t, r)
    BY StepOn DEF Register
<1>5. call' \in [Nodes -> [Callers -> CallState]] /\ call'[n][t] = r
    BY <1>4, ReplacedCall DEF Inv
<1>6. r.pc = "write" /\ r.conn = c
    OBVIOUS
<1> HIDE DEF r, c
<1>8. /\ status' \in [Conns -> [Nodes -> Lives]] /\ status'[c][n] = "up"
      /\ \A d \in Conns, k \in Nodes : d # c \/ k # n => status'[d][k] = status[d][k]
  <2>1. c \in Conns /\ LinkTypes /\ "up" \in Lives
      BY <1>1 DEF Inv, Lives
  <2> QED BY <1>2, <2>1, OneEnd
<1>7. Spares(n, t)
    BY <1>1, <1>8 DEF Spares, c
<1>9. /\ table' \in [Nodes -> [Nodes -> Conns \cup {None}]]
      /\ \A k, p \in Nodes : table'[k][p] = table[k][p]
                             \/ (k = n /\ p = Other(c, n) /\ table'[k][p] = c)
    BY <1>1, <1>2a DEF Inv, LinkTypes
<1>10. LinkTypes'
    BY <1>3, <1>5, <1>8, <1>9 DEF Inv, LinkTypes
<1>11. Fits(n, t)'
    BY <1>1, <1>5, <1>6, <1>8 DEF Fits
<1>12. CallsFit'
    BY <1>4, <1>6, <1>7, <1>11, AllFit
<1>13. FreshConns'
    BY <1>1, <1>3, <1>8 DEF Inv, FreshConns
<1>14. TableHasConns' /\ TableEntriesOpen'
  <2>1. Other(c, n) = OtherIn(link', c, n)
      BY <1>3 DEF Other, OtherIn
  <2>2. \A p \in Nodes : table[n][p] # c
      BY <1>1, NoneIsNoConn DEF Inv, TableHasConns
  <2>3. table \in [Nodes -> [Nodes -> Conns \cup {None}]]
      BY DEF Inv, LinkTypes
  <2> QED BY <1>3, <1>8, <1>9, <2>1, <2>2, <2>3, TableKept
<1>15. EnteringWait'
    BY <1>1, <1>3, <1>8 DEF Inv, EnteringWait
<1> QED BY <1>10, <1>12, <1>13, <1>14, <1>15 DEF Inv

-----------------------------------------------------------------------------
(* Closing.                                                                 *)

\* A closed end leaves the table of its node, and no other entry changes.
LEMMA CloseEffect ==
    ASSUME LinkTypes, NEW n \in Nodes, NEW c \in Conns, Close(n, c)
    PROVE  /\ status' \in [Conns -> [Nodes -> Lives]] /\ status'[c][n] = "done"
           /\ \A d \in Conns, k \in Nodes : d # c \/ k # n => status'[d][k] = status[d][k]
           /\ table' \in [Nodes -> [Nodes -> Conns \cup {None}]]
           /\ \A p \in Nodes : table'[n][p] = IF table[n][p] = c THEN None ELSE table[n][p]
           /\ \A k, p \in Nodes : k # n => table'[k][p] = table[k][p]
<1>1. status' = [status EXCEPT ![c][n] = "done"] /\ "done" \in Lives
    BY DEF Close, Lives
<1>2. table' = [table EXCEPT ![n] = [p \in Nodes |-> IF table[n][p] = c THEN None ELSE table[n][p]]]
    BY DEF Close
<1>3. /\ status' \in [Conns -> [Nodes -> Lives]] /\ status'[c][n] = "done"
      /\ \A d \in Conns, k \in Nodes : d # c \/ k # n => status'[d][k] = status[d][k]
    BY <1>1, OneEnd
<1> QED BY <1>2, <1>3 DEF LinkTypes

\* Closing an end that is not being dialled keeps all of the invariant but the
\* calls and the handshakes.
LEMMA CloseKeeps ==
    ASSUME Inv, NEW n \in Nodes, NEW c \in Conns, Close(n, c),
           status[c][n] \in {"awaiting", "up", "done"},
           UNCHANGED <<link, running>>
    PROVE  FreshConns' /\ TableHasConns' /\ TableEntriesOpen'
<1>1. LinkTypes
    BY DEF Inv
<1>2. FreshConns'
    BY <1>1, CloseEffect DEF Inv, FreshConns
<1>3. ASSUME NEW k \in Nodes, NEW p \in Nodes, table'[k][p] # None
      PROVE  /\ table[k][p] = table'[k][p]
             /\ status'[table[k][p]][k] = status[table[k][p]][k]
  <2>1. table[k][p] = table'[k][p] /\ table[k][p] \in Conns /\ (k = n => table[k][p] # c)
      BY <1>1, <1>3, CloseEffect DEF LinkTypes
  <2> QED BY <1>1, <2>1, CloseEffect
<1>4. table' \in [Nodes -> [Nodes -> Conns \cup {None}]]
    BY <1>1, CloseEffect
<1> QED BY <1>2, <1>3, <1>4, TableKept

LEMMA CloseFailedStep ==
    ASSUME Inv, NEW n \in Nodes, NEW t \in Callers, CloseFailed(n, t)
    PROVE  Inv'
<1> DEFINE c == call[n][t].conn
<1>1. call[n][t].pc = "close" /\ c \in Conns /\ status[c][n] \in {"up", "done"}
    BY WriterParts DEF CloseFailed
<1>2. Close(n, c) /\ UNCHANGED <<link, running, entering>>
    BY DEF CloseFailed, node
<1>3. Replaced(n, t, Idle) /\ Idle.pc = "idle"
    BY FailIsReplaced DEF CloseFailed
<1>4. call' \in [Nodes -> [Callers -> CallState]] /\ call'[n][t] = Idle
    BY <1>3, ReplacedCall DEF Inv
<1> HIDE DEF c
<1>5. LinkTypes'
    BY <1>1, <1>2, <1>4, CloseEffect DEF Inv, LinkTypes
<1>6. \A d \in Conns, k \in Nodes : \/ status'[d][k] = status[d][k]
                                    \/ d = c /\ k = n /\ status'[d][k] = "done"
    BY <1>1, <1>2, CloseEffect DEF Inv
<1>7. Spares(n, t)
    BY <1>1, <1>6 DEF Spares
<1>8. Fits(n, t)'
    BY <1>3, <1>4 DEF Fits
<1>9. CallsFit'
    BY <1>3, <1>7, <1>8, AllFit
<1>10. FreshConns' /\ TableHasConns' /\ TableEntriesOpen'
    BY <1>1, <1>2, CloseKeeps
<1>11. EnteringWait'
    BY <1>1, <1>2, <1>6 DEF Inv, EnteringWait
<1> QED BY <1>5, <1>9, <1>10, <1>11 DEF Inv

\* A reader closes the end it reads.
LEMMA ReaderCloses ==
    ASSUME Inv, NEW n \in Nodes, NEW c \in Conns, Close(n, c),
           status[c][n] \in {"awaiting", "up", "done"},
           <<c, n>> \notin entering,
           UNCHANGED <<link, running, entering, call>>
    PROVE  Inv'
<1>1. LinkTypes'
    BY CloseEffect DEF Inv, LinkTypes
<1>2. \A d \in Conns, k \in Nodes : \/ status'[d][k] = status[d][k]
                                    \/ d = c /\ k = n /\ status'[d][k] = "done"
    BY CloseEffect DEF Inv
<1>3. ASSUME NEW k \in Nodes, NEW u \in Callers PROVE Fits(k, u)'
  <2>1. Fits(k, u)
      BY DEF Inv, CallsFit
  <2> QED BY <1>2, <2>1 DEF Fits
<1>4. CallsFit'
    BY <1>3 DEF CallsFit
<1>5. FreshConns' /\ TableHasConns' /\ TableEntriesOpen'
    BY CloseKeeps
<1>6. EnteringWait'
    BY <1>2 DEF Inv, EnteringWait
<1> QED BY <1>1, <1>4, <1>5, <1>6 DEF Inv

LEMMA ReaderClosesStep ==
    ASSUME Inv, NEW n \in Nodes, NEW c \in Conns,
           Refuse(n, c) \/ Misread(n, c) \/ ReaderEnds(n, c)
    PROVE  Inv'
<1>1. /\ Close(n, c) /\ <<c, n>> \notin entering
      /\ status[c][n] \in {"awaiting", "up", "done"}
    BY DEF Refuse, Misread, ReaderEnds, Reads, Alive
<1>2. UNCHANGED <<link, running, entering, call>>
    BY DEF Refuse, Misread, ReaderEnds, node
<1> QED BY <1>1, <1>2, ReaderCloses

-----------------------------------------------------------------------------
(* The handshake, the stop, and the steps that touch none of this.          *)

\* The calls go on fitting when no end they use changes, but to "done".
LEMMA CallsKept ==
    ASSUME Inv, UNCHANGED call,
           \A d \in Conns, k \in Nodes :
             \/ status'[d][k] = status[d][k]
             \/ status'[d][k] = "done" /\ status[d][k] # "dialing"
             \/ status[d][k] = "awaiting"
    PROVE  CallsFit'
<1>1. ASSUME NEW k \in Nodes, NEW u \in Callers PROVE Fits(k, u)'
  <2>1. Fits(k, u)
      BY DEF Inv, CallsFit
  <2> QED BY <2>1 DEF Fits
<1> QED BY <1>1 DEF CallsFit

LEMMA HandshakeStep ==
    ASSUME Inv, NEW n \in Nodes, NEW c \in Conns, Handshake(n, c)
    PROVE  Inv'
<1>1. /\ entering' = entering \cup {<<c, n>>} /\ status[c][n] = "awaiting"
      /\ UNCHANGED <<link, status, table, running, call>>
    BY DEF Handshake, ReadFrame, node
<1>2. LinkTypes'
    BY <1>1 DEF Inv, LinkTypes
<1>3. CallsFit'
    BY <1>1, CallsKept
<1>4. FreshConns' /\ TableHasConns' /\ TableEntriesOpen'
    BY <1>1 DEF Inv, FreshConns, TableHasConns, TableEntriesOpen, Other
<1>5. EnteringWait'
    BY <1>1 DEF Inv, EnteringWait
<1> QED BY <1>2, <1>3, <1>4, <1>5 DEF Inv

LEMMA EnterPeerStep ==
    ASSUME Inv, NEW n \in Nodes, NEW c \in Conns, EnterPeer(n, c)
    PROVE  Inv'
<1> DEFINE life == IF status[c][n] = "awaiting" THEN "up" ELSE status[c][n]
<1>1. /\ <<c, n>> \in entering /\ entering' = entering \ {<<c, n>>}
      /\ table' = [table EXCEPT ![n][Other(c, n)] = c]
      /\ UNCHANGED <<link, running, call>>
    BY DEF EnterPeer
<1>2. status' = [status EXCEPT ![c][n] = life]
    BY DEF EnterPeer
<1>3. status[c][n] = "awaiting" \/ (status[c][n] = "done" /\ running[n] = "no")
    BY <1>1 DEF Inv, EnteringWait
<1>4. life \in Lives /\ LinkTypes
    BY <1>3 DEF Inv, Lives
<1>5. \/ life = "up" /\ status[c][n] = "awaiting"
      \/ life = "done" /\ status[c][n] = "done" /\ running[n] = "no"
    BY <1>3
<1> HIDE DEF life
<1>6. /\ status' \in [Conns -> [Nodes -> Lives]] /\ status'[c][n] = life
      /\ \A d \in Conns, k \in Nodes : d # c \/ k # n => status'[d][k] = status[d][k]
    BY <1>2, <1>4, OneEnd
<1>7. /\ table' \in [Nodes -> [Nodes -> Conns \cup {None}]]
      /\ \A k, p \in Nodes : table'[k][p] = table[k][p]
                             \/ (k = n /\ p = Other(c, n) /\ table'[k][p] = c)
    BY <1>1 DEF Inv, LinkTypes
<1>8. LinkTypes'
    BY <1>1, <1>6, <1>7 DEF Inv, LinkTypes
<1>9. CallsFit'
    BY <1>1, <1>5, <1>6, CallsKept
<1>10. FreshConns'
    BY <1>1, <1>5, <1>6 DEF Inv, FreshConns
<1>11. TableHasConns' /\ TableEntriesOpen'
  <2>1. Other(c, n) = OtherIn(link', c, n)
      BY <1>1 DEF Other, OtherIn
  <2>2. ASSUME NEW k \in Nodes, NEW p \in Nodes, table[k][p] # None
        PROVE  status'[table[k][p]][k] = status[table[k][p]][k]
    <3>1. table[k][p] \in Conns /\ status[table[k][p]][k] \in {"up", "done"}
        BY <2>2 DEF Inv, LinkTypes, TableHasConns
    <3> QED BY <1>5, <1>6, <3>1
  <2>3. ASSUME NEW k \in Nodes, NEW p \in Nodes, table'[k][p] # None
        PROVE  \/ /\ table[k][p] = table'[k][p]
                  /\ status'[table[k][p]][k] = status[table[k][p]][k]
                  /\ link'[table[k][p]] = link[table[k][p]]
               \/ /\ status'[table'[k][p]][k] = "up"
                  /\ OtherIn(link', table'[k][p], k) = p
               \/ /\ status'[table'[k][p]][k] \in {"up", "done"}
                  /\ running'[k] = "no"
    <3>1. CASE table'[k][p] = table[k][p]
        BY <1>1, <2>2, <2>3, <3>1
    <3>2. CASE k = n /\ p = Other(c, n) /\ table'[k][p] = c
        BY <1>1, <1>5, <1>6, <2>1, <3>2
    <3> QED BY <1>7, <3>1, <3>2
  <2>4. \A k \in Nodes : running'[k] # "no" => running[k] # "no"
      BY <1>1
  <2> QED BY <1>7, <2>3, <2>4, TableKept
<1>12. EnteringWait'
    BY <1>1, <1>6 DEF Inv, EnteringWait, LinkTypes
<1> QED BY <1>8, <1>9, <1>10, <1>11, <1>12 DEF Inv

LEMMA StopStep ==
    ASSUME Inv, NEW n \in Nodes, Stop(n)
    PROVE  Inv'
<1>1. /\ running' = [running EXCEPT ![n] = "stopping"] /\ running[n] = "yes"
      /\ UNCHANGED <<link, status, table, entering, call>>
    BY DEF Stop, wire
<1>2. \A k \in Nodes : (running'[k] # "no" => running[k] # "no")
                       /\ (running[k] = "no" => running'[k] = "no")
    BY <1>1
<1>3. LinkTypes' /\ FreshConns'
    BY <1>1 DEF Inv, LinkTypes, FreshConns
<1>4. CallsFit'
    BY <1>1, CallsKept
<1>5. TableHasConns' /\ TableEntriesOpen'
    BY <1>1, <1>2 DEF Inv, TableHasConns, TableEntriesOpen, Other
<1>6. EnteringWait'
    BY <1>1, <1>2 DEF Inv, EnteringWait
<1> QED BY <1>3, <1>4, <1>5, <1>6 DEF Inv

\* stop closes what is in the table, and no connection that is being dialled
\* is: a call may still enter one after it.
LEMMA StopClosesStep ==
    ASSUME Inv, NEW n \in Nodes, StopCloses(n)
    PROVE  Inv'
<1>1. /\ table' = [table EXCEPT ![n] = [p \in Nodes |-> None]]
      /\ UNCHANGED <<link, entering, call>>
    BY DEF StopCloses
<1>2. \A k \in Nodes : (running'[k] # "no" => running[k] # "no")
                       /\ (running[k] = "no" => running'[k] = "no")
    BY DEF StopCloses
<1>2a. running' \in [Nodes -> {"yes", "stopping", "no"}] /\ running'[n] = "no"
    BY DEF Inv, LinkTypes, StopCloses
<1>3. status' = [c \in Conns |-> [status[c] EXCEPT ![n] =
         IF status[c][n] = "awaiting" \/ \E p \in Nodes : table[n][p] = c
         THEN "done" ELSE status[c][n]]]
    BY DEF StopCloses
<1>4. \A d \in Conns, k \in Nodes :
        \/ status'[d][k] = status[d][k]
        \/ /\ k = n /\ status'[d][k] = "done"
           /\ status[d][k] = "awaiting" \/ \E p \in Nodes : table[n][p] = d
    BY <1>3 DEF Inv, LinkTypes
<1>5. status' \in [Conns -> [Nodes -> Lives]]
    BY <1>3 DEF Inv, LinkTypes, Lives
<1>6. \A d \in Conns, k \in Nodes :
        \/ status'[d][k] = status[d][k]
        \/ /\ k = n /\ status'[d][k] = "done"
           /\ status[d][k] \in {"awaiting", "up", "done"}
    BY <1>4, NoneIsNoConn DEF Inv, TableHasConns
<1>7. /\ table' \in [Nodes -> [Nodes -> Conns \cup {None}]]
      /\ \A k, p \in Nodes : table'[k][p] # None => k # n /\ table'[k][p] = table[k][p]
    BY <1>1 DEF Inv, LinkTypes
<1>8. LinkTypes'
    BY <1>1, <1>5, <1>7, <1>2a DEF Inv, LinkTypes
<1>9. CallsFit'
    BY <1>1, <1>6, CallsKept
<1>10. FreshConns'
    BY <1>1, <1>6 DEF Inv, FreshConns
<1>11. TableHasConns' /\ TableEntriesOpen'
  <2>1. ASSUME NEW k \in Nodes, NEW p \in Nodes, table'[k][p] # None
        PROVE  /\ table[k][p] = table'[k][p]
               /\ status'[table[k][p]][k] = status[table[k][p]][k]
               /\ link'[table[k][p]] = link[table[k][p]]
    <3>1. k # n /\ table[k][p] = table'[k][p] /\ table[k][p] \in Conns
        BY <1>7, <2>1 DEF Inv, LinkTypes
    <3> QED BY <1>1, <1>6, <3>1
  <2> QED BY <1>2, <1>7, <2>1, TableKept
<1>12. EnteringWait'
    BY <1>1, <1>2, <1>6, <1>2a DEF Inv, EnteringWait
<1> QED BY <1>8, <1>9, <1>10, <1>11, <1>12 DEF Inv

LEMMA KeptStep ==
    ASSUME Inv, UNCHANGED <<link, status, table, entering, running, call>>
    PROVE  Inv'
<1>1. LinkTypes' /\ FreshConns' /\ TableHasConns'
    BY DEF Inv, LinkTypes, FreshConns, TableHasConns
<1>2. CallsFit'
    BY CallsKept
<1>3. TableEntriesOpen' /\ EnteringWait'
    BY DEF Inv, TableEntriesOpen, EnteringWait, Other
<1> QED BY <1>1, <1>2, <1>3 DEF Inv

-----------------------------------------------------------------------------
LEMMA NextInv == Inv /\ [Next]_vars => Inv'
<1> SUFFICES ASSUME Inv, [Next]_vars PROVE Inv'
    OBVIOUS
<1>1. ASSUME NEW n \in Nodes, NEW t \in Callers, CallStep(n, t)
      PROVE  Inv'
    BY <1>1, ReuseStep, DialStep, DialFailsStep, AnnounceFailsStep, RegisterStep,
       WriteStep, CloseFailedStep DEF CallStep
<1>2. ASSUME NEW n \in Nodes, NEW t \in Callers, NEW m \in Frames, SendFrame(n, t, m)
      PROVE  Inv'
    BY <1>2, SendFrameStep
<1>3. ASSUME NEW n \in Nodes, NEW c \in Conns, HandleFrame(n, c) \/ Stall(n, c)
      PROVE  Inv'
    BY <1>3, KeptStep DEF HandleFrame, Stall, node
<1>4. ASSUME NEW n \in Nodes, NEW c \in Conns, ReaderStep(n, c) \/ Stall(n, c)
      PROVE  Inv'
    BY <1>3, <1>4, HandshakeStep, EnterPeerStep, ReaderClosesStep DEF ReaderStep
<1>5. ASSUME NEW n \in Nodes, Unpair(n)
      PROVE  Inv'
    BY <1>5, KeptStep DEF Unpair, wire
<1>6. ASSUME NEW c \in Conns, Break(c)
      PROVE  Inv'
    BY <1>6, KeptStep DEF Break, wire, node
<1>7. CASE UNCHANGED vars
    BY <1>7, KeptStep DEF vars, wire, node
<1> QED BY <1>1, <1>2, <1>4, <1>5, <1>6, <1>7, StopStep, StopClosesStep DEF Next

(* While a transport runs, whatever sends, dials, handshakes, failures and    *)
(* stops have run in whatever order, an entry of its table is an open         *)
(* connection to that peer (_conns of tcp_transport.py).                      *)
THEOREM OpenEntries == Spec => []TableEntriesOpen
<1>1. Inv => TableEntriesOpen
    BY DEF Inv
<1> QED BY <1>1, InitInv, NextInv, PTL DEF Spec

-----------------------------------------------------------------------------
(* An entry leaves the table only with its connection.                       *)

\* A table changes in a few steps: an entry is made, a connection is closed and
\* leaves it, or a stop empties it and closes what was in it.
LEMMA TableMoves ==
    ASSUME Inv, [Next]_vars
    PROVE  \/ UNCHANGED table
           \/ \E n \in Nodes, c \in Conns : \E p : table' = [table EXCEPT ![n][p] = c]
           \/ \E n \in Nodes, c \in Conns : Close(n, c)
           \/ \E n \in Nodes : StopCloses(n)
<1>1. ASSUME NEW n \in Nodes, NEW t \in Callers,
             Reuse(n, t) \/ Dial(n, t) \/ DialFails(n, t) \/ AnnounceFails(n, t)
             \/ WriteLength(n, t) \/ WriteBody(n, t) \/ WriteFails(n, t)
      PROVE  UNCHANGED table
    BY <1>1 DEF Reuse, Dial, DialFails, AnnounceFails, WriteLength, WriteBody, WriteFails
<1>2. ASSUME NEW n \in Nodes, NEW t \in Callers, Register(n, t)
      PROVE  \E c \in Conns : \E p : table' = [table EXCEPT ![n][p] = c]
    <2>1. call[n][t].conn \in Conns
        BY <1>2, RegisterParts DEF Register
    <2> QED BY <1>2, <2>1 DEF Register
<1>3. ASSUME NEW n \in Nodes, NEW t \in Callers, CloseFailed(n, t)
      PROVE  \E c \in Conns : Close(n, c)
    BY <1>3, WriterParts DEF CloseFailed
<1>4. ASSUME NEW n \in Nodes, NEW c \in Conns, EnterPeer(n, c)
      PROVE  \E p : table' = [table EXCEPT ![n][p] = c]
    BY <1>4 DEF EnterPeer
<1>5. ASSUME NEW n \in Nodes, NEW c \in Conns, Refuse(n, c) \/ Misread(n, c) \/ ReaderEnds(n, c)
      PROVE  Close(n, c)
    BY <1>5 DEF Refuse, Misread, ReaderEnds
<1>6. ASSUME NEW n \in Nodes, NEW c \in Conns,
             Handshake(n, c) \/ HandleFrame(n, c) \/ Stall(n, c)
      PROVE  UNCHANGED table
    BY <1>6 DEF Handshake, HandleFrame, Stall
<1>7. ASSUME \/ \E n \in Nodes, t \in Callers, m \in Frames : SendFrame(n, t, m)
             \/ \E n \in Nodes : Stop(n) \/ Unpair(n)
             \/ \E c \in Conns : Break(c)
             \/ UNCHANGED vars
      PROVE  UNCHANGED table
    BY <1>7 DEF SendFrame, Stop, Unpair, Break, vars
<1> QED BY <1>1, <1>2, <1>3, <1>4, <1>5, <1>6, <1>7 DEF Next, CallStep, ReaderStep

(* A connection that a newer one replaced does not take the newer one's       *)
(* entry with it (_close_conn of tcp_transport.py): whoever closes what, an   *)
(* entry leaves a table only when that very connection is closed.             *)
THEOREM EntriesLeaveAlone == Spec => EntryLeavesWithItsConnection
<1>1. ASSUME Inv, [Next]_vars, NEW n \in Nodes, NEW p \in Nodes,
             table[n][p] # None, table'[n][p] = None
      PROVE  status'[table[n][p]][n] = "done"
    <2>1. /\ LinkTypes /\ table[n][p] \in Conns
          /\ table \in [Nodes -> [Nodes -> Conns \cup {None}]]
          /\ status \in [Conns -> [Nodes -> Lives]]
        BY <1>1 DEF Inv, LinkTypes
    <2>2. ASSUME NEW k \in Nodes, NEW c \in Conns, NEW q, table' = [table EXCEPT ![k][q] = c]
          PROVE  FALSE
        BY <1>1, <2>1, <2>2, NoneIsNoConn
    <2>3. ASSUME NEW k \in Nodes, NEW c \in Conns, Close(k, c)
          PROVE  status'[table[n][p]][n] = "done"
        <3>1. k = n /\ table[n][p] = c
            BY <1>1, <2>1, <2>3, CloseEffect
        <3> QED BY <2>1, <2>3, <3>1, CloseEffect
    <2>4. ASSUME NEW k \in Nodes, StopCloses(k)
          PROVE  status'[table[n][p]][n] = "done"
        <3>1. k = n
            BY <1>1, <2>1, <2>4 DEF StopCloses
        <3> QED BY <2>1, <2>4, <3>1 DEF StopCloses
    <2> QED BY <1>1, <2>2, <2>3, <2>4, TableMoves
<1>2. Inv /\ [Next]_vars =>
        [\A n, p \in Nodes : table[n][p] # None /\ table'[n][p] = None =>
             status'[table[n][p]][n] = "done"]_vars
    BY <1>1
<1>3. Spec => []Inv
    BY InitInv, NextInv, PTL DEF Spec
<1> QED BY <1>2, <1>3, PTL DEF Spec, EntryLeavesWithItsConnection

-----------------------------------------------------------------------------
(* What is on the way to a reader.                                           *)

\* Lengths and bodies take turns, and a length comes first.
InTurn(s) ==
    /\ s # <<>> => s[1].part = "length"
    /\ \A i \in 1..(Len(s) - 1) : s[i].part # s[i + 1].part
\* The last frame lacks its body.
Unfinished(s) == s # <<>> /\ s[Len(s)].part = "length"

Open == {"dialing", "awaiting", "up"}
HasEnd(c, n) ==
    /\ link[c][1] \in Nodes /\ link[c][2] \in Nodes /\ link[c][1] # link[c][2]
    /\ n = link[c][1] \/ n = link[c][2]

(* Why StreamsStayAligned is not inductive: it does not say who writes.  A   *)
(* frame lacks its body exactly as long as a caller of the other end holds   *)
(* the lock, and that caller is between length and body.                     *)
StreamTypes ==
    /\ stream \in [Conns -> [Nodes -> Seq(Token)]]
    /\ writer \in [Conns -> [Nodes -> Callers \cup {None}]]
EndsOfLinks == \A c \in Conns, n \in Nodes : status[c][n] # "none" => HasEnd(c, n)
Locks == \A c \in Conns, n \in Nodes, t \in Callers :
            writer[c][n] = t <=> call[n][t].pc = "body" /\ call[n][t].conn = c
FreshStreams == \A c \in Conns : link[c] = <<None, None>> =>
                  \A n \in Nodes : stream[c][n] = <<>>
Sound(c, n) ==
    ~stalled /\ ~Cut(c) /\ ~HalfWritten(c) /\ status[c][n] \in Open =>
      /\ InTurn(stream[c][n])
      /\ Unfinished(stream[c][n]) <=> writer[c][Other(c, n)] # None
AllSound == \A c \in Conns, n \in Nodes : Sound(c, n)

StreamInv == StreamTypes /\ EndsOfLinks /\ Locks /\ FreshStreams /\ AllSound

\* Sequences of lengths and bodies, as they are written and read.
LEMMA TokenIs ==
    ASSUME NEW of \in Frames \cup {Hello}, NEW part \in {"length", "body"}
    PROVE  [part |-> part, of |-> of] \in Token
BY DEF Token

LEMMA Tokens ==
    /\ \A s \in Seq(Token) : Len(s) \in Nat /\ (s = <<>> <=> Len(s) = 0)
    /\ \A s \in Seq(Token) : \A i \in 1..Len(s) :
         s[i] \in Token /\ s[i].part \in {"length", "body"}
<1>1. \A x \in Token : x.part \in {"length", "body"}
    BY DEF Token
<1>2. \A s \in Seq(Token) : \A i \in 1..Len(s) : s[i] \in Token
    BY ElementOfSeq
<1>3. \A s \in Seq(Token) : Len(s) \in Nat /\ (s = <<>> <=> Len(s) = 0)
    BY EmptySeq
<1> QED BY <1>1, <1>2, <1>3

LEMMA Written ==
    ASSUME NEW s \in Seq(Token), NEW x \in Token, InTurn(s),
           x.part = "body" <=> Unfinished(s)
    PROVE  /\ Append(s, x) \in Seq(Token) /\ InTurn(Append(s, x))
           /\ Unfinished(Append(s, x)) <=> x.part = "length"
<1>1. /\ Append(s, x) \in Seq(Token) /\ Len(Append(s, x)) = Len(s) + 1 /\ Len(s) \in Nat
      /\ \A i \in 1..Len(s) : Append(s, x)[i] = s[i]
      /\ Append(s, x)[Len(s) + 1] = x
    BY AppendProperties
<1>2. x.part \in {"length", "body"} /\ \A i \in 1..Len(s) : s[i].part \in {"length", "body"}
    BY Tokens DEF Token
<1>3. s = <<>> <=> Len(s) = 0
    BY EmptySeq
<1>4. Append(s, x) # <<>>
    BY <1>1, EmptySeq
<1>5. Append(s, x)[1].part = "length"
    BY <1>1, <1>2, <1>3 DEF InTurn, Unfinished
<1>6. ASSUME NEW i \in 1..Len(s) PROVE Append(s, x)[i].part # Append(s, x)[i + 1].part
    BY <1>1, <1>2, <1>3, <1>6 DEF InTurn, Unfinished
<1> QED BY <1>1, <1>2, <1>4, <1>5, <1>6 DEF InTurn, Unfinished

LEMMA ReadOne ==
    ASSUME NEW s \in Seq(Token), s # <<>>
    PROVE  /\ Tail(s) \in Seq(Token) /\ Len(Tail(s)) = Len(s) - 1 /\ Len(s) \in Nat \ {0}
           /\ \A i \in 1..(Len(s) - 1) : Tail(s)[i] = s[i + 1]
BY HeadTailProperties, EmptySeq

LEMMA ReadTwo ==
    ASSUME NEW s \in Seq(Token), Len(s) >= 2
    PROVE  /\ Tail(Tail(s)) \in Seq(Token) /\ Len(Tail(Tail(s))) = Len(s) - 2
           /\ \A i \in 1..(Len(s) - 2) : Tail(Tail(s))[i] = s[i + 2]
<1>1. Len(s) \in Nat /\ (s = <<>> <=> Len(s) = 0)
    BY EmptySeq
<1>2. /\ Tail(s) \in Seq(Token) /\ Len(Tail(s)) = Len(s) - 1
      /\ \A i \in 1..(Len(s) - 1) : Tail(s)[i] = s[i + 1]
    BY <1>1, ReadOne
<1>3. PICK u \in Seq(Token) : u = Tail(s)
    BY <1>2
<1>4. u # <<>>
    <2>1. Len(u) = Len(s) - 1
        BY <1>2, <1>3
    <2> QED BY <1>1, <2>1, Tokens
<1>5. /\ Tail(u) \in Seq(Token) /\ Len(Tail(u)) = Len(u) - 1
      /\ \A i \in 1..(Len(u) - 1) : Tail(u)[i] = u[i + 1]
    BY <1>3, <1>4, ReadOne
<1>6. Len(u) = Len(s) - 1 /\ \A i \in 1..(Len(s) - 1) : u[i] = s[i + 1]
    BY <1>2, <1>3
<1>7. ASSUME NEW i \in 1..(Len(s) - 2) PROVE Tail(u)[i] = s[i + 2]
    <2>1. i \in 1..(Len(u) - 1) /\ i + 1 \in 1..(Len(s) - 1) /\ (i + 1) + 1 = i + 2
        BY <1>1, <1>6
    <2>2. Tail(u)[i] = u[i + 1] /\ u[i + 1] = s[(i + 1) + 1]
        BY <1>5, <1>6, <2>1
    <2> QED BY <2>1, <2>2
<1>8. Len(Tail(u)) = Len(s) - 2
    BY <1>1, <1>5, <1>6
<1> QED BY <1>3, <1>5, <1>7, <1>8

LEMMA FrameRead ==
    ASSUME NEW s \in Seq(Token), InTurn(s), AtFrame(s)
    PROVE  /\ InTurn(Tail(Tail(s)))
           /\ Unfinished(Tail(Tail(s))) <=> Unfinished(s)
<1>1. /\ Tail(Tail(s)) \in Seq(Token) /\ Len(Tail(Tail(s))) = Len(s) - 2 /\ Len(s) \in Nat
      /\ Len(s) >= 2
      /\ \A i \in 1..(Len(s) - 2) : Tail(Tail(s))[i] = s[i + 2]
    BY ReadTwo DEF AtFrame
<1>2. PICK u \in Seq(Token) : u = Tail(Tail(s))
    BY <1>1
<1>3. /\ Len(u) = Len(s) - 2 /\ (u = <<>> <=> Len(u) = 0) /\ s # <<>>
      /\ \A i \in 1..(Len(s) - 2) : u[i] = s[i + 2]
    <2>1. Len(u) = Len(s) - 2 /\ \A i \in 1..(Len(s) - 2) : u[i] = s[i + 2]
        BY <1>1, <1>2
    <2>2. (u = <<>> <=> Len(u) = 0) /\ (s = <<>> <=> Len(s) = 0)
        BY Tokens
    <2> QED BY <1>1, <2>1, <2>2
<1>4. \A i \in 1..Len(s) : s[i].part \in {"length", "body"}
    BY Tokens
<1>5. ASSUME u # <<>> PROVE u[1].part = "length" /\ u[Len(u)] = s[Len(s)]
    <2>1. Len(s) >= 3 /\ u[1] = s[3] /\ u[Len(u)] = s[Len(s)]
        BY <1>1, <1>3, <1>5
    <2>2. s[2].part # s[3].part
        BY <1>1, <2>1 DEF InTurn
    <2> QED BY <1>1, <1>4, <2>1, <2>2 DEF AtFrame
<1>6. ASSUME u = <<>> PROVE s[Len(s)].part = "body"
    <2>1. Len(s) = 2
        BY <1>1, <1>3, <1>6
    <2> QED BY <2>1 DEF AtFrame
<1>7. ASSUME NEW i \in 1..(Len(u) - 1) PROVE u[i].part # u[i + 1].part
    <2>1. PICK k \in 1..(Len(s) - 1) : k = i + 2
        BY <1>1, <1>3, <1>7
    <2>2. u[i] = s[k] /\ u[i + 1] = s[k + 1]
        <3>1. i \in 1..(Len(s) - 2) /\ i + 1 \in 1..(Len(s) - 2) /\ (i + 1) + 2 = k + 1
            BY <1>1, <1>3, <1>7, <2>1
        <3>2. u[i] = s[i + 2] /\ u[i + 1] = s[(i + 1) + 2]
            BY <1>3, <3>1
        <3> QED BY <2>1, <3>1, <3>2
    <2> QED BY <2>2 DEF InTurn
<1> QED BY <1>2, <1>3, <1>5, <1>6, <1>7 DEF InTurn, Unfinished

LEMMA InTurnOnFrame ==
    ASSUME NEW s \in Seq(Token), InTurn(s)
    PROVE  ~OffFrame(s)
<1>1. Len(s) \in Nat /\ (s = <<>> <=> Len(s) = 0)
    BY EmptySeq
<1> QED BY <1>1 DEF InTurn, OffFrame

-----------------------------------------------------------------------------
(* What a step does to the lives of the ends and to the calls.               *)
LEMMA LinkMoves ==
    ASSUME Inv, [Next]_vars
    PROVE  \/ \E n \in Nodes, t \in Callers : Dial(n, t)
           \/ /\ UNCHANGED link
              /\ \A c \in Conns, k \in Nodes :
                   \/ status'[c][k] = status[c][k]
                   \/ status[c][k] # "none" /\ status'[c][k] = "done"
                   \/ status[c][k] \in {"dialing", "awaiting"} /\ status'[c][k] = "up"
<1> DEFINE Moves ==
        /\ UNCHANGED link
        /\ \A c \in Conns, k \in Nodes :
             \/ status'[c][k] = status[c][k]
             \/ status[c][k] # "none" /\ status'[c][k] = "done"
             \/ status[c][k] \in {"dialing", "awaiting"} /\ status'[c][k] = "up"
<1>1. LinkTypes
    BY DEF Inv
<1>2. ASSUME NEW n \in Nodes, NEW c \in Conns, Close(n, c), status[c][n] # "none",
             UNCHANGED link
      PROVE  Moves
    BY <1>1, <1>2, CloseEffect
<1>3. ASSUME NEW n \in Nodes, NEW t \in Callers, Register(n, t) \/ AnnounceFails(n, t)
      PROVE  Moves
    <2>1. PICK c : c = call[n][t].conn
        OBVIOUS
    <2>2. c \in Conns /\ status[c][n] = "dialing"
        BY <1>3, <2>1, RegisterParts DEF Register, AnnounceFails
    <2>3. PICK life \in {"up", "done"} : status' = [status EXCEPT ![c][n] = life]
        BY <1>3, <2>1 DEF Register, AnnounceFails
    <2>4. UNCHANGED link
        BY <1>3 DEF Register, AnnounceFails
    <2>5. life \in Lives
        BY DEF Lives
    <2> QED BY <1>1, <2>2, <2>3, <2>4, <2>5, OneEnd
<1>4. ASSUME NEW n \in Nodes, NEW t \in Callers, CloseFailed(n, t)
      PROVE  Moves
    BY <1>2, <1>4, WriterParts DEF CloseFailed
<1>5. ASSUME NEW n \in Nodes, NEW c \in Conns,
             Refuse(n, c) \/ Misread(n, c) \/ ReaderEnds(n, c)
      PROVE  Moves
    BY <1>2, <1>5 DEF Refuse, Misread, ReaderEnds, Reads, Alive
<1>6. ASSUME NEW n \in Nodes, NEW c \in Conns, EnterPeer(n, c)
      PROVE  Moves
    <2>1. status[c][n] = "awaiting" \/ status[c][n] = "done"
        BY <1>6 DEF EnterPeer, Inv, EnteringWait
    <2>2. PICK life : /\ life = IF status[c][n] = "awaiting" THEN "up" ELSE status[c][n]
                      /\ status' = [status EXCEPT ![c][n] = life]
        BY <1>6 DEF EnterPeer
    <2>3. life \in Lives /\ UNCHANGED link
        BY <1>6, <2>1, <2>2 DEF Lives, EnterPeer
    <2> QED BY <1>1, <2>1, <2>2, <2>3, OneEnd
<1>7. ASSUME NEW n \in Nodes, StopCloses(n)
      PROVE  Moves
    <2>1. \A p \in Nodes : table[n][p] # None => status[table[n][p]][n] # "none"
        BY DEF Inv, TableHasConns
    <2>2. status' = [c \in Conns |-> [status[c] EXCEPT ![n] =
             IF status[c][n] = "awaiting" \/ \E p \in Nodes : table[n][p] = c
             THEN "done" ELSE status[c][n]]]
        BY <1>7 DEF StopCloses
    <2>3. \A d \in Conns, k \in Nodes :
            \/ status'[d][k] = status[d][k]
            \/ /\ k = n /\ status'[d][k] = "done"
               /\ status[d][k] = "awaiting" \/ \E p \in Nodes : table[n][p] = d
        BY <1>1, <2>2 DEF LinkTypes
    <2>4. UNCHANGED link
        BY <1>7 DEF StopCloses
    <2> QED BY <2>1, <2>3, <2>4, NoneIsNoConn
<1>8. ASSUME UNCHANGED <<link, status>> PROVE Moves
    BY <1>8
<1>9. ASSUME NEW n \in Nodes, NEW t \in Callers,
             Reuse(n, t) \/ DialFails(n, t) \/ WriteLength(n, t) \/ WriteBody(n, t)
             \/ WriteFails(n, t) \/ \E m \in Frames : SendFrame(n, t, m)
      PROVE  Moves
    BY <1>8, <1>9 DEF Reuse, DialFails, WriteLength, WriteBody, WriteFails, SendFrame
<1>10. ASSUME NEW n \in Nodes, NEW c \in Conns,
              Handshake(n, c) \/ HandleFrame(n, c) \/ Stall(n, c)
       PROVE  Moves
    BY <1>8, <1>10 DEF Handshake, HandleFrame, Stall
<1>11. ASSUME \/ \E n \in Nodes : Stop(n) \/ Unpair(n)
              \/ \E c \in Conns : Break(c)
              \/ UNCHANGED vars
       PROVE  Moves
    BY <1>8, <1>11 DEF Stop, Unpair, Break, vars
<1> HIDE DEF Moves
<1>12. (\E n \in Nodes, t \in Callers : Dial(n, t)) \/ Moves
    BY <1>3, <1>4, <1>5, <1>6, <1>7, <1>9, <1>10, <1>11 DEF Next, CallStep, ReaderStep
<1> QED BY <1>12 DEF Moves

\* A caller that has to close a connection goes on only by closing it.
LEMMA CallMoves ==
    ASSUME Inv, [Next]_vars
    PROVE  \/ UNCHANGED call
           \/ \E n \in Nodes, t \in Callers, r \in CallState :
                /\ Replaced(n, t, r)
                /\ call[n][t].pc # "close" \/ CloseFailed(n, t)
<1> DEFINE Moves ==
        \/ UNCHANGED call
        \/ \E n \in Nodes, t \in Callers, r \in CallState :
             Replaced(n, t, r) /\ (call[n][t].pc # "close" \/ CloseFailed(n, t))
<1>1. ASSUME NEW n \in Nodes, NEW t \in Callers, NEW r, Replaced(n, t, r),
             call[n][t].pc # "close" \/ CloseFailed(n, t)
      PROVE  Moves
    BY <1>1 DEF Replaced
<1>2. ASSUME NEW n \in Nodes, NEW t \in Callers, NEW m \in Frames, SendFrame(n, t, m)
      PROVE  Moves
    <2> DEFINE c == table[n][To[m]]
               r == [pc |-> IF c = None THEN "dial" ELSE "write", msg |-> m, conn |-> c]
    <2>1. call[n][t].pc # "close"
        BY <1>2 DEF SendFrame, Idle
    <2>2. To[m] \in Nodes
        BY LinksAssumption
    <2>3. c \in Conns \cup {None}
        BY <2>2 DEF Inv, LinkTypes
    <2>4. Replaced(n, t, r)
        BY <1>2, <2>3 DEF SendFrame, SetCall, Replaced, CallState
    <2> HIDE DEF r
    <2> QED BY <1>1, <2>1, <2>4
<1>3. ASSUME NEW n \in Nodes, NEW t \in Callers, Reuse(n, t) \/ Dial(n, t)
      PROVE  Moves
    <2>1. call[n][t].msg \in Frames /\ call[n][t].pc = "dial"
        BY <1>3, CallParts DEF Reuse, Dial, Fits
    <2>2. \E r \in CallState : call' = [call EXCEPT ![n] = [@ EXCEPT ![t] = r]]
        <3>1. To[call[n][t].msg] \in Nodes
            BY <2>1, LinksAssumption
        <3>2. table[n][To[call[n][t].msg]] \in Conns \cup {None}
            BY <3>1 DEF Inv, LinkTypes
        <3> QED BY <1>3, <2>1, <3>2 DEF Reuse, Dial, SetCall, CallState
    <2> QED BY <1>1, <2>1, <2>2 DEF Replaced
<1>4. ASSUME NEW n \in Nodes, NEW t \in Callers,
             DialFails(n, t) \/ AnnounceFails(n, t) \/ CloseFailed(n, t) \/ WriteBody(n, t)
      PROVE  Moves
    <2>1. Replaced(n, t, Idle)
        BY <1>4, IdleState, FailIsReplaced
        DEF DialFails, AnnounceFails, CloseFailed, WriteBody, Replaced
    <2>2. call[n][t].pc # "close" \/ CloseFailed(n, t)
        BY <1>4 DEF DialFails, AnnounceFails, WriteBody
    <2> QED BY <1>1, <2>1, <2>2
<1>5. ASSUME NEW n \in Nodes, NEW t \in Callers,
             Register(n, t) \/ WriteLength(n, t) \/ WriteFails(n, t)
      PROVE  Moves
    <2>1. \E r : Replaced(n, t, r)
        BY <1>5, StepOn DEF Register, WriteLength, WriteFails
    <2>2. call[n][t].pc # "close"
        BY <1>5 DEF Register, WriteLength, WriteFails
    <2> QED BY <1>1, <2>1, <2>2
<1>6. ASSUME NEW n \in Nodes, NEW c \in Conns, ReaderStep(n, c) \/ Stall(n, c)
      PROVE  Moves
    BY <1>6 DEF ReaderStep, Handshake, EnterPeer, Refuse, HandleFrame, Misread, ReaderEnds, Stall
<1>7. ASSUME \/ \E n \in Nodes : Stop(n) \/ StopCloses(n) \/ Unpair(n)
             \/ \E c \in Conns : Break(c)
             \/ UNCHANGED vars
      PROVE  Moves
    BY <1>7 DEF Stop, StopCloses, Unpair, Break, vars
<1> HIDE DEF Moves
<1>8. Moves
    BY <1>2, <1>3, <1>4, <1>5, <1>6, <1>7 DEF Next, CallStep
<1> QED BY <1>8 DEF Moves

\* What only a break of a connection and a late body touch.
LEMMA Rests ==
    ASSUME [Next]_vars
    PROVE  /\ UNCHANGED cut \/ \E c \in Conns : Break(c)
           /\ UNCHANGED stalled \/ \E n \in Nodes, c \in Conns : Stall(n, c)
<1> DEFINE Rest == UNCHANGED <<cut, stalled>>
<1>1. ASSUME NEW n \in Nodes, NEW t \in Callers, NEW m \in Frames, SendFrame(n, t, m)
      PROVE  Rest
    BY <1>1 DEF SendFrame, history
<1>2. ASSUME NEW n \in Nodes, NEW t \in Callers,
             \/ Reuse(n, t) \/ Dial(n, t) \/ DialFails(n, t) \/ AnnounceFails(n, t)
             \/ Register(n, t) \/ WriteLength(n, t)
      PROVE  Rest
    BY <1>2 DEF Reuse, Dial, DialFails, AnnounceFails, Register, WriteLength, history
<1>3. ASSUME NEW n \in Nodes, NEW t \in Callers,
             WriteBody(n, t) \/ WriteFails(n, t) \/ CloseFailed(n, t)
      PROVE  Rest
    BY <1>3 DEF WriteBody, WriteFails, CloseFailed, history
<1>4. ASSUME NEW n \in Nodes, NEW c \in Conns, ReaderStep(n, c)
      PROVE  Rest
    BY <1>4 DEF ReaderStep, Handshake, EnterPeer, Refuse, HandleFrame, Misread, ReaderEnds,
       history
<1>5. ASSUME \/ \E n \in Nodes : Stop(n) \/ StopCloses(n) \/ Unpair(n)
             \/ UNCHANGED vars
      PROVE  Rest
    BY <1>5 DEF Stop, StopCloses, Unpair, vars, history
<1>6. ASSUME NEW n \in Nodes, NEW c \in Conns, Stall(n, c)
      PROVE  UNCHANGED cut
    BY <1>6 DEF Stall
<1>7. ASSUME NEW c \in Conns, Break(c)
      PROVE  UNCHANGED stalled
    BY <1>7 DEF Break
<1> QED BY <1>1, <1>2, <1>3, <1>4, <1>5, <1>6, <1>7 DEF Next, CallStep

\* A connection that is broken or half closed stays so; one that carries a frame
\* cut short carries it until it is closed; and a late body stays on record.
LEMMA Lasts ==
    ASSUME Inv, [Next]_vars, NEW c \in Conns
    PROVE  /\ Cut(c) => Cut(c)'
           /\ HalfWritten(c) => HalfWritten(c)' \/ Cut(c)'
           /\ stalled => stalled'
<1>1. ASSUME NEW k \in Nodes, status[c][k] = "done" PROVE status'[c][k] = "done"
    <2>1. ASSUME NEW n \in Nodes, NEW t \in Callers, Dial(n, t)
          PROVE  status'[c][k] = "done"
        <3>1. PICK d \in Conns :
                /\ link[d] = <<None, None>>
                /\ status' = [status EXCEPT ![d][n] = "dialing",
                                           ![d][To[call[n][t].msg]] = "awaiting"]
            BY <2>1 DEF Dial
        <3>2. d # c
            BY <1>1, <3>1 DEF Inv, FreshConns
        <3> QED BY <1>1, <3>1, <3>2 DEF Inv, LinkTypes
    <2> QED BY <1>1, <2>1, LinkMoves
<1>2. c \in cut => c \in cut'
    <2>1. ASSUME NEW d \in Conns, Break(d) PROVE c \in cut => c \in cut'
        BY <2>1 DEF Break
    <2> QED BY <2>1, Rests
<1>3. stalled => stalled'
    <2>1. ASSUME NEW n \in Nodes, NEW d \in Conns, Stall(n, d) PROVE stalled'
        BY <2>1 DEF Stall
    <2> QED BY <2>1, Rests
<1>4. ASSUME NEW n \in Nodes, NEW t \in Callers, call[n][t].pc = "close", call[n][t].conn = c
      PROVE  HalfWritten(c)' \/ Cut(c)'
    <2>1. CASE UNCHANGED call
        BY <1>4, <2>1 DEF HalfWritten
    <2>2. ASSUME NEW k \in Nodes, NEW u \in Callers, NEW r \in CallState,
                 Replaced(k, u, r), call[k][u].pc # "close" \/ CloseFailed(k, u)
          PROVE  HalfWritten(c)' \/ Cut(c)'
        <3>1. CASE k # n \/ u # t
            <4>1. call'[n][t] = call[n][t]
                BY <2>2, <3>1, ReplacedCall DEF Inv
            <4> QED BY <1>4, <4>1 DEF HalfWritten
        <3>2. CASE k = n /\ u = t
            <4>1. Close(n, c)
                BY <1>4, <2>2, <3>2 DEF CloseFailed
            <4>2. status'[c][n] = "done"
                BY <4>1, CloseEffect DEF Inv
            <4> QED BY <4>2 DEF Cut
        <3> QED BY <3>1, <3>2
    <2> QED BY <2>1, <2>2, CallMoves
<1> QED BY <1>1, <1>2, <1>3, <1>4 DEF Cut, HalfWritten

-----------------------------------------------------------------------------
(* The locks.                                                                *)
LEMMA LocksKept ==
    ASSUME Inv, Locks, NEW n \in Nodes, NEW t \in Callers, NEW r, Replaced(n, t, r),
           call[n][t].pc # "body", r.pc # "body", UNCHANGED writer
    PROVE  Locks'
BY ReplacedCall DEF Inv, Locks

\* WriteBody and a WriteFails.
LEMMA LockReleased ==
    ASSUME Inv, StreamTypes, Locks, NEW n \in Nodes, NEW t \in Callers, NEW r, Replaced(n, t, r),
           NEW c \in Conns, c = call[n][t].conn, writer' = [writer EXCEPT ![c][n] = None],
           call[n][t].pc = "body" \/ (call[n][t].pc # "body" /\ writer[c][n] = None),
           r.pc # "body"
    PROVE  Locks'
<1> SUFFICES ASSUME NEW d \in Conns, NEW k \in Nodes, NEW u \in Callers
             PROVE  writer'[d][k] = u <=> call'[k][u].pc = "body" /\ call'[k][u].conn = d
    BY DEF Locks
<1>1. call'[n][t] = r /\ (k # n \/ u # t => call'[k][u] = call[k][u])
    BY ReplacedCall DEF Inv
<1>2. writer'[d][k] = IF d = c /\ k = n THEN None ELSE writer[d][k]
    BY DEF StreamTypes
<1>3. /\ writer[d][k] = u <=> call[k][u].pc = "body" /\ call[k][u].conn = d
      /\ writer[c][n] = t <=> call[n][t].pc = "body"
      /\ u # None
    BY NoneIsNoConn DEF Locks
<1>4. CASE d = c /\ k = n
    BY <1>1, <1>2, <1>3, <1>4, NoneIsNoConn
<1>5. CASE ~(d = c /\ k = n)
    BY <1>1, <1>2, <1>3, <1>5
<1> QED BY <1>4, <1>5

LEMMA LockTaken ==
    ASSUME Inv, StreamTypes, Locks, NEW n \in Nodes, NEW t \in Callers, NEW r, Replaced(n, t, r),
           NEW c \in Conns, c = call[n][t].conn, writer' = [writer EXCEPT ![c][n] = t],
           call[n][t].pc # "body", writer[c][n] = None, r.pc = "body", r.conn = c
    PROVE  Locks'
<1> SUFFICES ASSUME NEW d \in Conns, NEW k \in Nodes, NEW u \in Callers
             PROVE  writer'[d][k] = u <=> call'[k][u].pc = "body" /\ call'[k][u].conn = d
    BY DEF Locks
<1>1. call'[n][t] = r /\ (k # n \/ u # t => call'[k][u] = call[k][u])
    BY ReplacedCall DEF Inv
<1>2. writer'[d][k] = IF d = c /\ k = n THEN t ELSE writer[d][k]
    BY DEF StreamTypes
<1>3. /\ writer[d][k] = u <=> call[k][u].pc = "body" /\ call[k][u].conn = d
      /\ u # None
    BY NoneIsNoConn DEF Locks
<1>4. CASE d = c /\ k = n
    BY <1>1, <1>2, <1>3, <1>4, NoneIsNoConn
<1>5. CASE ~(d = c /\ k = n)
    BY <1>1, <1>2, <1>3, <1>5
<1> QED BY <1>4, <1>5

\* What a call under way to write does.
LEMMA WriteParts ==
    ASSUME Inv, NEW n \in Nodes, NEW t \in Callers,
           WriteLength(n, t) \/ WriteBody(n, t) \/ WriteFails(n, t)
    PROVE  /\ call[n][t].msg \in Frames /\ call[n][t].conn \in Conns
           /\ status[call[n][t].conn][n] \in {"up", "done"}
           /\ call[n][t].pc \in {"write", "body"}
<1>1. call[n][t].pc \in {"write", "body"}
    BY DEF WriteLength, WriteBody, WriteFails
<1> QED BY <1>1, WriterParts

LEMMA LocksStep ==
    ASSUME Inv, StreamTypes, Locks, [Next]_vars
    PROVE  Locks'
<1>1. ASSUME UNCHANGED <<call, writer>> PROVE Locks'
    BY <1>1 DEF Locks
<1>2. ASSUME NEW n \in Nodes, NEW t \in Callers, NEW m \in Frames, SendFrame(n, t, m)
      PROVE  Locks'
    <2> DEFINE c == table[n][To[m]]
               r == [pc |-> IF c = None THEN "dial" ELSE "write", msg |-> m, conn |-> c]
    <2>1. call[n][t].pc # "body" /\ r.pc # "body" /\ UNCHANGED writer
        BY <1>2 DEF SendFrame, Idle, wire
    <2>2. To[m] \in Nodes
        BY LinksAssumption
    <2>3. c \in Conns \cup {None}
        BY <2>2 DEF Inv, LinkTypes
    <2>4. Replaced(n, t, r)
        BY <1>2, <2>3 DEF SendFrame, SetCall, Replaced, CallState
    <2> HIDE DEF r
    <2> QED BY <2>1, <2>4, LocksKept
<1>3. ASSUME NEW n \in Nodes, NEW t \in Callers, Reuse(n, t) \/ Dial(n, t)
      PROVE  Locks'
    <2>1. call[n][t].msg \in Frames /\ call[n][t].pc = "dial"
        BY <1>3, CallParts DEF Reuse, Dial, Fits
    <2>2. \E r \in CallState :
            r.pc # "body" /\ call' = [call EXCEPT ![n] = [@ EXCEPT ![t] = r]]
        <3>1. To[call[n][t].msg] \in Nodes
            BY <2>1, LinksAssumption
        <3>2. table[n][To[call[n][t].msg]] \in Conns \cup {None}
            BY <3>1 DEF Inv, LinkTypes
        <3> QED BY <1>3, <2>1, <3>2 DEF Reuse, Dial, SetCall, CallState
    <2>3. UNCHANGED writer
        BY <1>3 DEF Reuse, Dial, wire
    <2> QED BY <2>1, <2>2, <2>3, LocksKept DEF Replaced
<1>4. ASSUME NEW n \in Nodes, NEW t \in Callers,
             DialFails(n, t) \/ AnnounceFails(n, t) \/ CloseFailed(n, t)
      PROVE  Locks'
    <2>1. Replaced(n, t, Idle) /\ Idle.pc = "idle"
        BY <1>4, FailIsReplaced DEF DialFails, AnnounceFails, CloseFailed
    <2>2. call[n][t].pc # "body" /\ UNCHANGED writer
        BY <1>4 DEF DialFails, AnnounceFails, CloseFailed, wire
    <2> QED BY <2>1, <2>2, LocksKept
<1>5. ASSUME NEW n \in Nodes, NEW t \in Callers, Register(n, t)
      PROVE  Locks'
    <2>1. Replaced(n, t, [pc |-> "write", msg |-> call[n][t].msg, conn |-> call[n][t].conn])
        BY <1>5, StepOn DEF Register
    <2>2. call[n][t].pc # "body" /\ UNCHANGED writer
        BY <1>5 DEF Register, wire
    <2> QED BY <2>1, <2>2, LocksKept
<1>6. ASSUME NEW n \in Nodes, NEW t \in Callers, WriteLength(n, t)
      PROVE  Locks'
    <2>1. PICK r : Replaced(n, t, r) /\ r.pc = "body" /\ r.conn = call[n][t].conn
        <3>1. Replaced(n, t, [pc |-> "body", msg |-> call[n][t].msg, conn |-> call[n][t].conn])
            BY <1>6, StepOn DEF WriteLength
        <3> QED BY <3>1
    <2>2. /\ call[n][t].pc # "body" /\ writer[call[n][t].conn][n] = None
          /\ writer' = [writer EXCEPT ![call[n][t].conn][n] = t]
        BY <1>6 DEF WriteLength, LockFree
    <2>3. call[n][t].conn \in Conns
        BY <1>6, WriteParts
    <2> QED BY <2>1, <2>2, <2>3, LockTaken
<1>7. ASSUME NEW n \in Nodes, NEW t \in Callers, WriteBody(n, t) \/ WriteFails(n, t)
      PROVE  Locks'
    <2>1. \E r : Replaced(n, t, r) /\ r.pc # "body"
        <3>1. CASE WriteBody(n, t)
            <4>1. Replaced(n, t, Idle) /\ Idle.pc = "idle"
                BY <3>1, IdleState DEF WriteBody, Replaced, Idle
            <4> QED BY <4>1
        <3>2. CASE WriteFails(n, t)
            <4>1. Replaced(n, t, [pc |-> "close", msg |-> call[n][t].msg,
                                  conn |-> call[n][t].conn])
                BY <3>2, StepOn DEF WriteFails
            <4> QED BY <4>1
        <3> QED BY <1>7, <3>1, <3>2
    <2>2. /\ call[n][t].pc = "body"
             \/ (call[n][t].pc # "body" /\ writer[call[n][t].conn][n] = None)
          /\ writer' = [writer EXCEPT ![call[n][t].conn][n] = None]
        BY <1>7 DEF WriteBody, WriteFails, LockFree
    <2>3. call[n][t].conn \in Conns
        BY <1>7, WriteParts
    <2> QED BY <2>1, <2>2, <2>3, LockReleased
<1>8. ASSUME NEW n \in Nodes, NEW c \in Conns, ReaderStep(n, c) \/ Stall(n, c)
      PROVE  Locks'
    BY <1>1, <1>8 DEF ReaderStep, Handshake, EnterPeer, Refuse, HandleFrame, Misread,
                      ReaderEnds, Stall
<1>9. ASSUME \/ \E n \in Nodes : Stop(n) \/ StopCloses(n) \/ Unpair(n)
             \/ \E c \in Conns : Break(c)
             \/ UNCHANGED vars
      PROVE  Locks'
    BY <1>1, <1>9 DEF Stop, StopCloses, Unpair, Break, vars, wire
<1> QED BY <1>2, <1>3, <1>4, <1>5, <1>6, <1>7, <1>8, <1>9 DEF Next, CallStep

-----------------------------------------------------------------------------
(* The streams.                                                              *)

\* Which streams and locks a step touches.
LEMMA StreamMoves ==
    ASSUME Inv, [Next]_vars
    PROVE  \/ UNCHANGED <<stream, writer>>
           \/ UNCHANGED writer /\ \E n \in Nodes, c \in Conns :
                Close(n, c) /\ status[c][n] # "none"
           \/ UNCHANGED writer /\ \E n \in Nodes : StopCloses(n)
           \/ UNCHANGED writer /\ \E n \in Nodes, c \in Conns :
                Stall(n, c) \/ \E life \in {"awaiting", "up"} : ReadFrame(n, c, life)
           \/ UNCHANGED writer /\ \E n \in Nodes, t \in Callers : Dial(n, t)
           \/ \E n \in Nodes, t \in Callers :
                WriteLength(n, t) \/ WriteBody(n, t) \/ WriteFails(n, t)
<1>1. ASSUME NEW n \in Nodes, NEW t \in Callers,
             \/ \E m \in Frames : SendFrame(n, t, m)
             \/ Reuse(n, t) \/ DialFails(n, t) \/ AnnounceFails(n, t) \/ Register(n, t)
      PROVE  UNCHANGED <<stream, writer>>
    BY <1>1 DEF SendFrame, Reuse, DialFails, AnnounceFails, Register, wire
<1>2. ASSUME NEW n \in Nodes, NEW t \in Callers, Dial(n, t)
      PROVE  UNCHANGED writer
    BY <1>2 DEF Dial
<1>3. ASSUME NEW n \in Nodes, NEW t \in Callers, CloseFailed(n, t)
      PROVE  UNCHANGED writer /\ \E c \in Conns : Close(n, c) /\ status[c][n] # "none"
    <2>1. call[n][t].conn \in Conns /\ status[call[n][t].conn][n] # "none"
        BY <1>3, WriterParts DEF CloseFailed
    <2> QED BY <1>3, <2>1 DEF CloseFailed
<1>4. ASSUME NEW n \in Nodes, NEW c \in Conns,
             Refuse(n, c) \/ Misread(n, c) \/ ReaderEnds(n, c)
      PROVE  UNCHANGED writer /\ Close(n, c) /\ status[c][n] # "none"
    BY <1>4 DEF Refuse, Misread, ReaderEnds, Reads, Alive
<1>5. ASSUME NEW n \in Nodes, NEW c \in Conns, Handshake(n, c) \/ HandleFrame(n, c)
      PROVE  UNCHANGED writer /\ \E life \in {"awaiting", "up"} : ReadFrame(n, c, life)
    BY <1>5 DEF Handshake, HandleFrame
<1>6. ASSUME NEW n \in Nodes, NEW c \in Conns, Stall(n, c)
      PROVE  UNCHANGED writer
    BY <1>6 DEF Stall
<1>7. ASSUME NEW n \in Nodes, NEW c \in Conns, EnterPeer(n, c)
      PROVE  UNCHANGED <<stream, writer>>
    BY <1>7 DEF EnterPeer
<1>8. ASSUME NEW n \in Nodes, StopCloses(n)
      PROVE  UNCHANGED writer
    BY <1>8 DEF StopCloses
<1>9. ASSUME \/ \E n \in Nodes : Stop(n) \/ Unpair(n)
             \/ \E c \in Conns : Break(c)
             \/ UNCHANGED vars
      PROVE  UNCHANGED <<stream, writer>>
    BY <1>9 DEF Stop, Unpair, Break, vars, wire
<1> QED BY <1>1, <1>2, <1>3, <1>4, <1>5, <1>6, <1>7, <1>8, <1>9 DEF Next, CallStep, ReaderStep

\* What is on the way to one end changes, and nothing else.
LEMMA OneStream ==
    ASSUME StreamTypes, NEW c \in Conns, NEW n \in Nodes, NEW s \in Seq(Token),
           stream' = [stream EXCEPT ![c][n] = s]
    PROVE  /\ stream' \in [Conns -> [Nodes -> Seq(Token)]]
           /\ stream'[c][n] = s
           /\ \A d \in Conns, k \in Nodes : d # c \/ k # n => stream'[d][k] = stream[d][k]
BY DEF StreamTypes

\* A caller that writes part of a frame puts it on the way to the other end.
LEMMA PutDoes ==
    ASSUME StreamTypes, Inv, EndsOfLinks, NEW n \in Nodes, NEW t \in Callers,
           NEW part \in {"length", "body"}, NEW c \in Conns, c = call[n][t].conn,
           call[n][t].msg \in Frames, status[c][n] = "up", Put(n, t, part)
    PROVE  /\ HasEnd(c, n) /\ Other(c, n) \in Nodes /\ Other(c, Other(c, n)) = n
           /\ stream' \in [Conns -> [Nodes -> Seq(Token)]]
           /\ \A d \in Conns, k \in Nodes :
                d # c \/ k # Other(c, n) => stream'[d][k] = stream[d][k]
           /\ status[c][Other(c, n)] # "done" =>
                \E x \in Token : x.part = part
                    /\ stream'[c][Other(c, n)] = Append(stream[c][Other(c, n)], x)
<1>1. HasEnd(c, n) /\ Other(c, n) \in Nodes /\ Other(c, Other(c, n)) = n
    <2>1. HasEnd(c, n)
        BY DEF EndsOfLinks
    <2>2. PICK a, b : a = link[c][1] /\ b = link[c][2]
        OBVIOUS
    <2>3. a \in Nodes /\ b \in Nodes /\ a # b /\ (n = a \/ n = b)
        BY <2>1, <2>2 DEF HasEnd
    <2>4. \A k : Other(c, k) = IF a = k THEN b ELSE a
        BY <2>2 DEF Other
    <2> QED BY <2>1, <2>3, <2>4
<1>2. PICK x \in Token : x = [part |-> part, of |-> call[n][t].msg]
    BY TokenIs
<1>3. x.part = part
    BY <1>2
<1>4. stream[c][Other(c, n)] \in Seq(Token)
    BY <1>1 DEF StreamTypes
<1>5. Append(stream[c][Other(c, n)], x) \in Seq(Token)
    BY <1>4, AppendProperties
<1>6. CASE status[c][Other(c, n)] = "done"
    BY <1>1, <1>6 DEF Put, StreamTypes
<1>7. CASE status[c][Other(c, n)] # "done"
    <2>1. stream' = [stream EXCEPT ![c][Other(c, n)] = Append(stream[c][Other(c, n)], x)]
        BY <1>2, <1>7 DEF Put
    <2>2. PICK s \in Seq(Token) : s = Append(stream[c][Other(c, n)], x)
        BY <1>5
    <2>3. stream' = [stream EXCEPT ![c][Other(c, n)] = s]
        BY <2>1, <2>2
    <2>4. PICK p \in Nodes : p = Other(c, n)
        BY <1>1
    <2>5. stream' = [stream EXCEPT ![c][p] = s]
        BY <2>3, <2>4
    <2>6. /\ stream' \in [Conns -> [Nodes -> Seq(Token)]] /\ stream'[c][p] = s
          /\ \A d \in Conns, k \in Nodes : d # c \/ k # p => stream'[d][k] = stream[d][k]
        BY <2>5 DEF StreamTypes
    <2> QED BY <1>1, <1>3, <2>2, <2>4, <2>6
<1> QED BY <1>6, <1>7

\* A close empties what was on the way to that end, and so does a stop.
LEMMA CloseEmpties ==
    ASSUME StreamTypes, Inv, NEW n \in Nodes, NEW c \in Conns, Close(n, c)
    PROVE  /\ stream' \in [Conns -> [Nodes -> Seq(Token)]] /\ stream'[c][n] = <<>>
           /\ \A d \in Conns, k \in Nodes : d # c \/ k # n => stream'[d][k] = stream[d][k]
           /\ status'[c][n] = "done"
<1>1. PICK s \in Seq(Token) : s = <<>>
    BY EmptySeq
<1>2. stream' = [stream EXCEPT ![c][n] = s]
    BY <1>1 DEF Close
<1>3. /\ stream' \in [Conns -> [Nodes -> Seq(Token)]] /\ stream'[c][n] = s
      /\ \A d \in Conns, k \in Nodes : d # c \/ k # n => stream'[d][k] = stream[d][k]
    BY <1>2, OneStream
<1>4. status'[c][n] = "done"
    BY CloseEffect DEF Inv
<1> QED BY <1>1, <1>3, <1>4

LEMMA StopEmpties ==
    ASSUME StreamTypes, Inv, NEW n \in Nodes, StopCloses(n)
    PROVE  /\ stream' \in [Conns -> [Nodes -> Seq(Token)]]
           /\ \A d \in Conns, k \in Nodes :
                \/ stream'[d][k] = stream[d][k]
                \/ stream'[d][k] = <<>> /\ status'[d][k] = "done"
<1>1. stream' = [c \in Conns |-> [stream[c] EXCEPT ![n] =
                    IF status'[c][n] = "done" THEN <<>> ELSE stream[c][n]]]
    BY DEF StopCloses
<1>2. PICK e \in Seq(Token) : e = <<>>
    BY EmptySeq
<1> QED BY <1>1, <1>2 DEF StreamTypes

\* A reader takes the first part, or a whole frame.
LEMMA ReadTakes ==
    ASSUME StreamTypes, NEW n \in Nodes, NEW c \in Conns,
           \/ Stall(n, c)
           \/ \E life \in {"awaiting", "up"} : ReadFrame(n, c, life)
    PROVE  /\ stream' \in [Conns -> [Nodes -> Seq(Token)]] /\ stream[c][n] # <<>>
           /\ \A d \in Conns, k \in Nodes : d # c \/ k # n => stream'[d][k] = stream[d][k]
           /\ \/ stalled'
              \/ AtFrame(stream[c][n]) /\ stream'[c][n] = Tail(Tail(stream[c][n]))
<1>1. PICK s \in Seq(Token) : s = stream[c][n]
    BY DEF StreamTypes
<1>2. CASE Stall(n, c)
    <2>1. s # <<>> /\ stalled' /\ stream' = [stream EXCEPT ![c][n] = Tail(s)]
        BY <1>1, <1>2 DEF Stall
    <2>2. PICK u \in Seq(Token) : u = Tail(s)
        BY <2>1, ReadOne
    <2>3. stream' = [stream EXCEPT ![c][n] = u]
        BY <2>1, <2>2
    <2> QED BY <1>1, <2>1, <2>3, OneStream
<1>3. CASE \E life \in {"awaiting", "up"} : ReadFrame(n, c, life)
    <2>1. AtFrame(s) /\ stream' = [stream EXCEPT ![c][n] = Tail(Tail(s))]
        BY <1>1, <1>3 DEF ReadFrame
    <2>2. Len(s) >= 2
        BY <2>1 DEF AtFrame
    <2>3. PICK u \in Seq(Token) : u = Tail(Tail(s))
        BY <2>2, ReadTwo
    <2>4. stream' = [stream EXCEPT ![c][n] = u]
        BY <2>1, <2>3
    <2>5. s # <<>>
        BY <2>2, Tokens
    <2>6. /\ stream' \in [Conns -> [Nodes -> Seq(Token)]] /\ stream'[c][n] = u
          /\ \A d \in Conns, k \in Nodes : d # c \/ k # n => stream'[d][k] = stream[d][k]
        BY <2>4, OneStream
    <2> QED BY <1>1, <2>1, <2>3, <2>5, <2>6
<1> QED BY <1>2, <1>3

\* A dial puts the announce on the way to the acceptor of a fresh connection.
LEMMA DialSends ==
    ASSUME StreamTypes, Inv, FreshStreams, NEW n \in Nodes, NEW t \in Callers, Dial(n, t)
    PROVE  \E c \in Conns, p \in Nodes, s \in Seq(Token) :
             /\ p # n /\ link[c] = <<None, None>>
             /\ link' = [link EXCEPT ![c] = <<n, p>>]
             /\ link'[c] = <<n, p>> /\ \A d \in Conns : d # c => link'[d] = link[d]
             /\ \A k \in Nodes : status[c][k] = "none" /\ stream[c][k] = <<>>
             /\ \A d \in Conns, k \in Nodes :
                  d # c \/ (k # n /\ k # p) => status'[d][k] = status[d][k]
             /\ InTurn(s) /\ ~Unfinished(s) /\ stream' = [stream EXCEPT ![c][p] = s]
<1>1. PICK p : p = To[call[n][t].msg]
    OBVIOUS
<1>2. p \in Nodes /\ p # n
    <2>1. Fits(n, t) /\ call[n][t].pc = "dial"
        BY CallParts DEF Dial
    <2>2. call[n][t].msg \in Frames /\ From[call[n][t].msg] = n
        BY <2>1 DEF Fits
    <2> QED BY <1>1, <2>2, LinksAssumption
<1>3. PICK c \in Conns :
        /\ link[c] = <<None, None>>
        /\ link' = [link EXCEPT ![c] = <<n, p>>]
        /\ status' = [status EXCEPT ![c][n] = "dialing", ![c][p] = "awaiting"]
        /\ stream' = [stream EXCEPT ![c][p] = <<[part |-> "length", of |-> Hello],
                                                [part |-> "body", of |-> Hello]>>]
    BY <1>1 DEF Dial
<1>4. PICK x, y : /\ x = [part |-> "length", of |-> Hello]
                  /\ y = [part |-> "body", of |-> Hello]
    OBVIOUS
<1>4a. x \in Token /\ y \in Token /\ x.part = "length" /\ y.part = "body"
    BY <1>4, TokenIs
<1>5a. <<x, y>> \in Seq(Token)
    BY <1>4a
<1>5. PICK s \in Seq(Token) : s = <<x, y>>
    BY <1>5a
<1>6. /\ Len(s) = 2 /\ s[1] = x /\ s[2] = y /\ s # <<>>
    BY <1>5, Tokens
<1>7. InTurn(s) /\ ~Unfinished(s)
    <2>1. \A i \in 1..(Len(s) - 1) : s[i].part # s[i + 1].part
        <3>1. 1..(Len(s) - 1) = {1}
            BY <1>6
        <3> QED BY <1>4a, <1>6, <3>1
    <2> QED BY <1>4a, <1>6, <2>1 DEF InTurn, Unfinished
<1>8. stream' = [stream EXCEPT ![c][p] = s]
    BY <1>3, <1>4, <1>5
<1>9. /\ link'[c] = <<n, p>> /\ \A d \in Conns : d # c => link'[d] = link[d]
      /\ \A k \in Nodes : status[c][k] = "none" /\ stream[c][k] = <<>>
      /\ \A d \in Conns, k \in Nodes :
           d # c \/ (k # n /\ k # p) => status'[d][k] = status[d][k]
    BY <1>2, <1>3 DEF Inv, LinkTypes, FreshConns, FreshStreams
<1> USE <1>2
<1> WITNESS c \in Conns, p \in Nodes, s \in Seq(Token)
<1> QED BY <1>3, <1>7, <1>8, <1>9

-----------------------------------------------------------------------------
(* The invariant holds after every step.                                     *)
LEMMA EndsStep ==
    ASSUME Inv, StreamTypes, FreshStreams, EndsOfLinks, [Next]_vars
    PROVE  EndsOfLinks'
<1>1. ASSUME NEW n \in Nodes, NEW t \in Callers, Dial(n, t)
      PROVE  EndsOfLinks'
    <2>0. \E c \in Conns, p \in Nodes, s \in Seq(Token) :
            /\ p # n /\ link[c] = <<None, None>>
            /\ link' = [link EXCEPT ![c] = <<n, p>>]
            /\ link'[c] = <<n, p>> /\ \A d \in Conns : d # c => link'[d] = link[d]
            /\ \A k \in Nodes : status[c][k] = "none" /\ stream[c][k] = <<>>
            /\ \A d \in Conns, k \in Nodes :
                 d # c \/ (k # n /\ k # p) => status'[d][k] = status[d][k]
            /\ InTurn(s) /\ ~Unfinished(s) /\ stream' = [stream EXCEPT ![c][p] = s]
        BY <1>1, DialSends
    <2>1. PICK c \in Conns, p \in Nodes :
            /\ p # n /\ link'[c] = <<n, p>> /\ \A d \in Conns : d # c => link'[d] = link[d]
            /\ \A k \in Nodes : status[c][k] = "none"
            /\ \A d \in Conns, k \in Nodes :
                 d # c \/ (k # n /\ k # p) => status'[d][k] = status[d][k]
        BY <2>0
    <2>2. ASSUME NEW d \in Conns, NEW k \in Nodes, status'[d][k] # "none"
          PROVE  /\ link'[d][1] \in Nodes /\ link'[d][2] \in Nodes /\ link'[d][1] # link'[d][2]
                 /\ k = link'[d][1] \/ k = link'[d][2]
        <3>1. CASE d = c
            BY <2>1, <2>2, <3>1
        <3>2. CASE d # c
            <4>1. status[d][k] # "none" /\ link'[d] = link[d]
                BY <2>1, <2>2, <3>2
            <4>2. HasEnd(d, k)
                BY <4>1 DEF EndsOfLinks
            <4>3. PICK a, b : a = link[d][1] /\ b = link[d][2]
                OBVIOUS
            <4>4. a = link'[d][1] /\ b = link'[d][2]
                BY <4>1, <4>3
            <4>5. a \in Nodes /\ b \in Nodes /\ a # b /\ (k = a \/ k = b)
                BY <4>2, <4>3 DEF HasEnd
            <4> QED BY <4>4, <4>5
        <3> QED BY <3>1, <3>2
    <2> QED BY <2>2 DEF EndsOfLinks, HasEnd
<1>2. ASSUME UNCHANGED link,
             \A c \in Conns, k \in Nodes : status'[c][k] = status[c][k] \/ status[c][k] # "none"
      PROVE  EndsOfLinks'
    BY <1>2 DEF EndsOfLinks, HasEnd
<1> QED BY <1>1, <1>2, LinkMoves

LEMMA StreamTypesStep ==
    ASSUME Inv, StreamTypes, FreshStreams, EndsOfLinks, [Next]_vars
    PROVE  StreamTypes' /\ FreshStreams'
<1>1. ASSUME writer' \in [Conns -> [Nodes -> Callers \cup {None}]],
             stream' \in [Conns -> [Nodes -> Seq(Token)]],
             \A d \in Conns, k \in Nodes :
               link[d] # <<None, None>> \/ stream'[d][k] = stream[d][k] \/ stream'[d][k] = <<>>,
             UNCHANGED link
      PROVE  StreamTypes' /\ FreshStreams'
    BY <1>1 DEF StreamTypes, FreshStreams
<1>2. ASSUME NEW n \in Nodes, NEW t \in Callers, Dial(n, t), UNCHANGED writer
      PROVE  StreamTypes' /\ FreshStreams'
    <2>1. \E c \in Conns, p \in Nodes, s \in Seq(Token) :
            /\ p # n /\ link[c] = <<None, None>>
            /\ link' = [link EXCEPT ![c] = <<n, p>>]
            /\ link'[c] = <<n, p>> /\ \A d \in Conns : d # c => link'[d] = link[d]
            /\ \A k \in Nodes : status[c][k] = "none" /\ stream[c][k] = <<>>
            /\ \A d \in Conns, k \in Nodes :
                 d # c \/ (k # n /\ k # p) => status'[d][k] = status[d][k]
            /\ InTurn(s) /\ ~Unfinished(s) /\ stream' = [stream EXCEPT ![c][p] = s]
        BY <1>2, DialSends
    <2>1a. PICK c \in Conns, p \in Nodes, s \in Seq(Token) :
            /\ link'[c] = <<n, p>> /\ \A d \in Conns : d # c => link'[d] = link[d]
            /\ stream' = [stream EXCEPT ![c][p] = s]
        BY <2>1
    <2>2. /\ stream' \in [Conns -> [Nodes -> Seq(Token)]]
          /\ \A d \in Conns, k \in Nodes : d # c \/ k # p => stream'[d][k] = stream[d][k]
        <3>1. stream' = [stream EXCEPT ![c][p] = s]
            BY <2>1a
        <3> QED BY <3>1 DEF StreamTypes
    <2>3. link'[c] # <<None, None>>
        BY <2>1a, NoneIsNoConn
    <2>4. ASSUME NEW d \in Conns, link'[d] = <<None, None>>, NEW k \in Nodes
          PROVE  stream'[d][k] = <<>>
        <3>1. d # c /\ link[d] = <<None, None>>
            BY <2>1a, <2>3, <2>4
        <3> QED BY <2>2, <3>1 DEF FreshStreams
    <2> QED BY <1>2, <2>2, <2>4 DEF StreamTypes, FreshStreams
<1>3. ASSUME NEW d \in Conns, NEW k \in Nodes, status[d][k] # "none"
      PROVE  link[d] # <<None, None>>
    BY <1>3 DEF Inv, FreshConns
<1>4. CASE ~\E n \in Nodes, t \in Callers : Dial(n, t)
    <2>1. UNCHANGED link
        BY <1>4, LinkMoves
    <2>2. CASE UNCHANGED <<stream, writer>>
        BY <1>1, <2>1, <2>2 DEF StreamTypes
    <2>3. ASSUME NEW n \in Nodes, NEW c \in Conns, Close(n, c), UNCHANGED writer
          PROVE  StreamTypes' /\ FreshStreams'
        BY <1>1, <2>1, <2>3, CloseEmpties DEF StreamTypes
    <2>4. ASSUME NEW n \in Nodes, StopCloses(n), UNCHANGED writer
          PROVE  StreamTypes' /\ FreshStreams'
        BY <1>1, <2>1, <2>4, StopEmpties DEF StreamTypes
    <2>5. ASSUME NEW n \in Nodes, NEW c \in Conns, UNCHANGED writer,
                 Stall(n, c) \/ \E life \in {"awaiting", "up"} : ReadFrame(n, c, life)
          PROVE  StreamTypes' /\ FreshStreams'
        <3>1. /\ stream' \in [Conns -> [Nodes -> Seq(Token)]] /\ stream[c][n] # <<>>
              /\ \A d \in Conns, k \in Nodes : d # c \/ k # n => stream'[d][k] = stream[d][k]
            BY <2>5, ReadTakes
        <3>2. link[c] # <<None, None>>
            BY <3>1 DEF FreshStreams
        <3> QED BY <1>1, <2>1, <2>5, <3>1, <3>2 DEF StreamTypes
    <2>6. ASSUME NEW n \in Nodes, NEW t \in Callers, NEW part \in {"length", "body"},
                 WriteLength(n, t) \/ WriteBody(n, t), Put(n, t, part)
          PROVE  StreamTypes' /\ FreshStreams'
        <3>1. PICK c \in Conns : c = call[n][t].conn
            BY <2>6, WriteParts
        <3>2. call[n][t].msg \in Frames /\ status[c][n] = "up"
            BY <2>6, <3>1, WriteParts DEF WriteLength, WriteBody
        <3>3. /\ stream' \in [Conns -> [Nodes -> Seq(Token)]]
              /\ \A d \in Conns, k \in Nodes : d # c => stream'[d][k] = stream[d][k]
            BY <2>6, <3>1, <3>2, PutDoes
        <3>4. link[c] # <<None, None>>
            BY <1>3, <3>2
        <3>5. writer' \in [Conns -> [Nodes -> Callers \cup {None}]]
            <4>1. \E x \in Callers \cup {None} : writer' = [writer EXCEPT ![c][n] = x]
                BY <2>6, <3>1 DEF WriteLength, WriteBody
            <4> QED BY <4>1 DEF StreamTypes
        <3> QED BY <1>1, <2>1, <3>3, <3>4, <3>5
    <2>7. ASSUME NEW n \in Nodes, NEW t \in Callers, WriteFails(n, t)
          PROVE  StreamTypes' /\ FreshStreams'
        <3>1. PICK c \in Conns : c = call[n][t].conn
            BY <2>7, WriteParts
        <3>2. writer' \in [Conns -> [Nodes -> Callers \cup {None}]] /\ UNCHANGED stream
            BY <2>7, <3>1 DEF WriteFails, StreamTypes
        <3> QED BY <1>1, <2>1, <3>2 DEF StreamTypes
    <2>8. ASSUME NEW n \in Nodes, NEW t \in Callers, WriteLength(n, t) \/ WriteBody(n, t)
          PROVE  \E part \in {"length", "body"} : Put(n, t, part)
        BY <2>8 DEF WriteLength, WriteBody
    <2> QED BY <1>4, <2>2, <2>3, <2>4, <2>5, <2>6, <2>7, <2>8, StreamMoves
<1> QED BY <1>2, <1>4, StreamMoves DEF Dial

\* Nothing of what Sound says of an end changes, or the connection is done for.
LEMMA SoundKept ==
    ASSUME Inv, [Next]_vars, NEW c \in Conns, NEW n \in Nodes, Sound(c, n),
           \/ Cut(c)' \/ stalled' \/ HalfWritten(c)' \/ status'[c][n] \notin Open
           \/ /\ stream'[c][n] = stream[c][n] /\ link'[c] = link[c]
              /\ writer'[c][Other(c, n)] = writer[c][Other(c, n)]
              /\ status'[c][n] \in Open => status[c][n] \in Open
    PROVE  Sound(c, n)'
<1>1. /\ Cut(c) => Cut(c)'
      /\ HalfWritten(c) => HalfWritten(c)' \/ Cut(c)'
      /\ stalled => stalled'
    BY Lasts
<1>2. CASE Cut(c)' \/ stalled' \/ HalfWritten(c)' \/ status'[c][n] \notin Open
    BY <1>2 DEF Sound
<1>3. CASE /\ ~(Cut(c)' \/ stalled' \/ HalfWritten(c)' \/ status'[c][n] \notin Open)
           /\ stream'[c][n] = stream[c][n] /\ link'[c] = link[c]
           /\ writer'[c][Other(c, n)] = writer[c][Other(c, n)]
           /\ status'[c][n] \in Open => status[c][n] \in Open
    <2>1. /\ InTurn(stream[c][n])
          /\ Unfinished(stream[c][n]) <=> writer[c][Other(c, n)] # None
        BY <1>1, <1>3 DEF Sound
    <2>2. InTurn(stream'[c][n]) /\ (Unfinished(stream'[c][n]) <=> writer'[c][Other(c, n)'] # None)
        <3>1. Other(c, n)' = Other(c, n)
            BY <1>3 DEF Other
        <3> QED BY <1>3, <2>1, <3>1
    <2> QED BY <2>2 DEF Sound, InTurn, Unfinished
<1> QED BY <1>2, <1>3

LEMMA SoundDial ==
    ASSUME Inv, StreamInv, [Next]_vars, UNCHANGED writer,
           NEW a \in Nodes, NEW t \in Callers, Dial(a, t),
           NEW c \in Conns, NEW n \in Nodes
    PROVE  Sound(c, n)'
<1>1. StreamTypes /\ EndsOfLinks /\ Locks /\ FreshStreams /\ Sound(c, n)
    BY DEF StreamInv, AllSound
<1>2. \E d \in Conns, p \in Nodes, s \in Seq(Token) :
        /\ p # a /\ link[d] = <<None, None>>
        /\ link' = [link EXCEPT ![d] = <<a, p>>]
        /\ link'[d] = <<a, p>> /\ \A e \in Conns : e # d => link'[e] = link[e]
        /\ \A k \in Nodes : status[d][k] = "none" /\ stream[d][k] = <<>>
        /\ \A e \in Conns, k \in Nodes :
             e # d \/ (k # a /\ k # p) => status'[e][k] = status[e][k]
        /\ InTurn(s) /\ ~Unfinished(s) /\ stream' = [stream EXCEPT ![d][p] = s]
    BY <1>1, DialSends
<1>3. PICK d \in Conns, p \in Nodes, s \in Seq(Token) :
        /\ p # a /\ link[d] = <<None, None>>
        /\ link' = [link EXCEPT ![d] = <<a, p>>]
        /\ link'[d] = <<a, p>> /\ \A e \in Conns : e # d => link'[e] = link[e]
        /\ \A k \in Nodes : status[d][k] = "none" /\ stream[d][k] = <<>>
        /\ \A e \in Conns, k \in Nodes :
             e # d \/ (k # a /\ k # p) => status'[e][k] = status[e][k]
        /\ InTurn(s) /\ ~Unfinished(s) /\ stream' = [stream EXCEPT ![d][p] = s]
    BY <1>2
<1>3a. stream' = [stream EXCEPT ![d][p] = s]
    BY <1>3
<1>4. /\ stream'[d][p] = s
      /\ \A e \in Conns, k \in Nodes : e # d \/ k # p => stream'[e][k] = stream[e][k]
    BY <1>1, <1>3a DEF StreamTypes
<1>5. CASE c # d
    <2>1. /\ stream'[c][n] = stream[c][n] /\ link'[c] = link[c]
          /\ status'[c][n] = status[c][n]
        BY <1>3, <1>4, <1>5
    <2> QED BY <1>1, <2>1, SoundKept
<1>6. ASSUME c = d, n = a \/ n = p PROVE Sound(c, n)'
    <2>1. PICK q \in Nodes : q = Other(c, n)'
        BY <1>3, <1>6 DEF Other
    <2>2. writer'[c][q] = None
        <3>1. ASSUME writer[c][q] # None PROVE FALSE
            <4>1. PICK u \in Callers : writer[c][q] = u
                BY <1>1, <3>1 DEF StreamTypes
            <4>2. call[q][u].pc = "body" /\ call[q][u].conn = c
                BY <1>1, <4>1 DEF Locks
            <4>3. status[c][q] # "none"
                BY <4>2, WriterParts
            <4> QED BY <1>3, <1>6, <4>3
        <3> QED BY <3>1
    <2>3. InTurn(stream'[c][n]) /\ ~Unfinished(stream'[c][n])
        <3>1. InTurn(<<>>) /\ ~Unfinished(<<>>)
            BY DEF InTurn, Unfinished
        <3> QED BY <1>3, <1>4, <1>6, <3>1
    <2> QED BY <2>1, <2>2, <2>3 DEF Sound, InTurn, Unfinished
<1>7. CASE c = d /\ n # a /\ n # p
    <2>1. status'[c][n] \notin Open
        BY <1>3, <1>7 DEF Open
    <2> QED BY <1>1, <2>1, SoundKept
<1> QED BY <1>5, <1>6, <1>7

\* A caller puts the length or the body of its frame, and holds the lock then or
\* gives it back.
LEMMA SoundWrite ==
    ASSUME Inv, StreamInv, [Next]_vars, UNCHANGED <<link, status>>,
           NEW a \in Nodes, NEW t \in Callers, NEW part \in {"length", "body"},
           NEW e \in Conns, e = call[a][t].conn, call[a][t].msg \in Frames,
           status[e][a] = "up", Put(a, t, part),
           NEW x, writer' = [writer EXCEPT ![e][a] = x],
           part = "length" => writer[e][a] = None /\ x # None,
           part = "body" => writer[e][a] # None /\ x = None,
           NEW c \in Conns, NEW n \in Nodes
    PROVE  Sound(c, n)'
<1>1. StreamTypes /\ EndsOfLinks /\ Sound(c, n)
    BY DEF StreamInv, AllSound
<1>2. /\ Other(e, a) \in Nodes /\ Other(e, Other(e, a)) = a
      /\ \A d \in Conns, k \in Nodes :
           d # e \/ k # Other(e, a) => stream'[d][k] = stream[d][k]
    BY <1>1, PutDoes
<1>2a. ASSUME status[e][Other(e, a)] # "done"
       PROVE  \E y \in Token : y.part = part
                  /\ stream'[e][Other(e, a)] = Append(stream[e][Other(e, a)], y)
    <2>1. PICK y \in Token : y = [part |-> part, of |-> call[a][t].msg]
        BY TokenIs
    <2>2. stream' = [stream EXCEPT ![e][Other(e, a)] = Append(stream[e][Other(e, a)], y)]
        BY <1>2a, <2>1 DEF Put
    <2>3. stream'[e][Other(e, a)] = Append(stream[e][Other(e, a)], y)
        BY <1>1, <1>2, <2>2 DEF StreamTypes
    <2>4. y.part = part
        BY <2>1
    <2> QED BY <2>3, <2>4
<1>3. \A d \in Conns, k \in Nodes : d # e \/ k # a => writer'[d][k] = writer[d][k]
    BY <1>1 DEF StreamTypes
<1>3a. writer'[e][a] = x
    BY <1>1 DEF StreamTypes
<1>4. CASE status[c][n] \notin Open
    BY <1>1, <1>4, SoundKept
<1>5. ASSUME status[c][n] \in Open
      PROVE  Other(c, n) \in Nodes /\ Other(c, Other(c, n)) = n
    <2>1. HasEnd(c, n)
        BY <1>1, <1>5 DEF EndsOfLinks, Open
    <2>2. PICK b, p : b = link[c][1] /\ p = link[c][2]
        OBVIOUS
    <2>3. b \in Nodes /\ p \in Nodes /\ b # p /\ (n = b \/ n = p)
        BY <2>1, <2>2 DEF HasEnd
    <2>4. \A k : Other(c, k) = IF b = k THEN p ELSE b
        BY <2>2 DEF Other
    <2> QED BY <2>3, <2>4
<1>6. CASE c # e \/ n # Other(e, a)
    <2>1. stream'[c][n] = stream[c][n]
        BY <1>2, <1>6
    <2>2. status[c][n] \in Open => writer'[c][Other(c, n)] = writer[c][Other(c, n)]
        BY <1>3, <1>5, <1>6
    <2> QED BY <1>1, <2>1, <2>2, SoundKept
<1>7. CASE c = e /\ n = Other(e, a) /\ status[c][n] \in Open
    <2>1. Other(c, n) = a /\ Other(c, n)' = a
        BY <1>2, <1>7 DEF Other
    <2>2. CASE Cut(c)' \/ stalled' \/ HalfWritten(c)'
        BY <2>2 DEF Sound
    <2>3. CASE ~(Cut(c)' \/ stalled' \/ HalfWritten(c)')
        <3>1. PICK s \in Seq(Token) : s = stream[c][n]
            BY <1>1 DEF StreamTypes
        <3>2. InTurn(s) /\ (Unfinished(s) <=> writer[c][a] # None)
            BY <1>1, <1>7, <2>1, <2>3, <3>1, Lasts DEF Sound
        <3>3. PICK y \in Token : y.part = part /\ stream'[c][n] = Append(s, y)
            BY <1>2a, <1>7, <3>1 DEF Open
        <3>4. InTurn(Append(s, y)) /\ (Unfinished(Append(s, y)) <=> y.part = "length")
            BY <1>7, <3>2, <3>3, Written
        <3>5. writer'[c][a] # None <=> part = "length"
            BY <1>3a, <1>7
        <3>6. /\ InTurn(stream'[c][n])
              /\ Unfinished(stream'[c][n]) <=> writer'[c][Other(c, n)'] # None
            BY <2>1, <3>3, <3>4, <3>5
        <3> QED BY <3>6 DEF Sound, InTurn, Unfinished
    <2> QED BY <2>2, <2>3
<1> QED BY <1>4, <1>6, <1>7

LEMMA SoundStep ==
    ASSUME Inv, StreamInv, [Next]_vars, NEW c \in Conns, NEW n \in Nodes
    PROVE  Sound(c, n)'
<1>1. StreamTypes /\ EndsOfLinks /\ Locks /\ FreshStreams /\ Sound(c, n)
    BY DEF StreamInv, AllSound
<1>2. ASSUME NEW a \in Nodes, NEW t \in Callers, Dial(a, t) PROVE Sound(c, n)'
    BY <1>2, SoundDial DEF Dial
<1>3. CASE ~\E a \in Nodes, t \in Callers : Dial(a, t)
    <2>1. UNCHANGED link /\ (status'[c][n] \in Open => status[c][n] \in Open)
        BY <1>3, LinkMoves DEF Open
    <2>2. CASE UNCHANGED <<stream, writer>>
        BY <1>1, <2>1, <2>2, SoundKept
    <2>3. ASSUME NEW a \in Nodes, NEW d \in Conns, Close(a, d), UNCHANGED writer
          PROVE  Sound(c, n)'
        <3>1. /\ status'[d][a] = "done"
              /\ \A e \in Conns, k \in Nodes : e # d \/ k # a => stream'[e][k] = stream[e][k]
            BY <1>1, <2>3, CloseEmpties
        <3>2. CASE c = d
            <4>1. Cut(c)'
                BY <3>1, <3>2 DEF Cut
            <4> QED BY <1>1, <4>1, SoundKept
        <3>3. CASE c # d
            BY <1>1, <2>1, <2>3, <3>1, <3>3, SoundKept
        <3> QED BY <3>2, <3>3
    <2>4. ASSUME NEW a \in Nodes, StopCloses(a), UNCHANGED writer
          PROVE  Sound(c, n)'
        <3>1. stream'[c][n] = stream[c][n] \/ status'[c][n] = "done"
            BY <1>1, <2>4, StopEmpties
        <3>2. status'[c][n] = "done" => status'[c][n] \notin Open
            BY DEF Open
        <3> QED BY <1>1, <2>1, <2>4, <3>1, <3>2, SoundKept
    <2>5. ASSUME NEW a \in Nodes, NEW d \in Conns, UNCHANGED writer,
                 Stall(a, d) \/ \E life \in {"awaiting", "up"} : ReadFrame(a, d, life)
          PROVE  Sound(c, n)'
        <3>1. /\ \A e \in Conns, k \in Nodes : e # d \/ k # a => stream'[e][k] = stream[e][k]
              /\ \/ stalled'
                 \/ AtFrame(stream[d][a]) /\ stream'[d][a] = Tail(Tail(stream[d][a]))
            BY <1>1, <2>5, ReadTakes
        <3>2. CASE c # d \/ n # a \/ stalled'
            BY <1>1, <2>1, <2>5, <3>1, <3>2, SoundKept
        <3>3. CASE c = d /\ n = a /\ ~stalled'
            <4>1. CASE Cut(c)' \/ HalfWritten(c)' \/ status'[c][n] \notin Open
                BY <1>1, <4>1, SoundKept
            <4>2. CASE ~(Cut(c)' \/ HalfWritten(c)' \/ status'[c][n] \notin Open)
                <5>1. PICK s \in Seq(Token) : s = stream[c][n]
                    BY <1>1 DEF StreamTypes
                <5>2. InTurn(s) /\ (Unfinished(s) <=> writer[c][Other(c, n)] # None)
                    BY <1>1, <2>1, <3>3, <4>2, <5>1, Lasts DEF Sound
                <5>3. AtFrame(s) /\ stream'[c][n] = Tail(Tail(s))
                    BY <3>1, <3>3, <5>1
                <5>4. InTurn(Tail(Tail(s))) /\ (Unfinished(Tail(Tail(s))) <=> Unfinished(s))
                    BY <5>2, <5>3, FrameRead
                <5>5. Other(c, n)' = Other(c, n)
                    BY <2>1 DEF Other
                <5>6. /\ InTurn(stream'[c][n])
                      /\ Unfinished(stream'[c][n]) <=> writer'[c][Other(c, n)'] # None
                    BY <2>5, <5>2, <5>3, <5>4, <5>5
                <5> QED BY <5>6 DEF Sound, InTurn, Unfinished
            <4> QED BY <4>1, <4>2
        <3> QED BY <3>2, <3>3
    <2>6. ASSUME NEW a \in Nodes, NEW t \in Callers, WriteLength(a, t) \/ WriteBody(a, t)
          PROVE  Sound(c, n)'
        <3>1. PICK e \in Conns : e = call[a][t].conn
            BY <2>6, WriteParts
        <3>2. /\ call[a][t].msg \in Frames /\ status[e][a] = "up"
              /\ UNCHANGED <<link, status>>
            BY <2>6, <3>1, WriteParts DEF WriteLength, WriteBody
        <3>3. CASE WriteLength(a, t)
            <4>1. /\ Put(a, t, "length") /\ writer' = [writer EXCEPT ![e][a] = t]
                  /\ writer[e][a] = None
                BY <3>1, <3>3 DEF WriteLength, LockFree
            <4> QED BY <3>1, <3>2, <4>1, NoneIsNoConn, SoundWrite
        <3>4. CASE WriteBody(a, t)
            <4>1. /\ Put(a, t, "body") /\ writer' = [writer EXCEPT ![e][a] = None]
                  /\ call[a][t].pc = "body"
                BY <3>1, <3>4 DEF WriteBody
            <4>2. writer[e][a] # None
                BY <1>1, <3>1, <4>1, NoneIsNoConn DEF Locks
            <4> QED BY <3>1, <3>2, <4>1, <4>2, SoundWrite
        <3> QED BY <2>6, <3>3, <3>4
    <2>7. ASSUME NEW a \in Nodes, NEW t \in Callers, WriteFails(a, t)
          PROVE  Sound(c, n)'
        <3>1. PICK e \in Conns : e = call[a][t].conn
            BY <2>7, WriteParts
        <3>2. CASE c = e
            <4>1. PICK r : /\ Replaced(a, t, r)
                           /\ r.pc = "close" /\ r.conn = e
                <5>1. Replaced(a, t, [pc |-> "close", msg |-> call[a][t].msg,
                                      conn |-> call[a][t].conn])
                    BY <2>7, StepOn DEF WriteFails
                <5> QED BY <3>1, <5>1
            <4>2. call'[a][t].pc = "close" /\ call'[a][t].conn = c
                BY <3>2, <4>1, ReplacedCall DEF Inv
            <4>3. HalfWritten(c)'
                BY <4>2 DEF HalfWritten
            <4> QED BY <1>1, <4>3, SoundKept
        <3>3. CASE c # e
            <4>1. UNCHANGED stream /\ writer'[c][Other(c, n)] = writer[c][Other(c, n)]
                BY <1>1, <2>7, <3>1, <3>3 DEF WriteFails, StreamTypes
            <4> QED BY <1>1, <2>1, <4>1, SoundKept
        <3> QED BY <3>2, <3>3
    <2> QED BY <1>3, <2>2, <2>3, <2>4, <2>5, <2>6, <2>7, StreamMoves
<1> QED BY <1>2, <1>3

LEMMA StreamInit == Init => StreamInv
<1> SUFFICES ASSUME Init PROVE StreamInv
    OBVIOUS
<1>1. StreamTypes /\ FreshStreams
    BY EmptySeq DEF Init, StreamTypes, FreshStreams, Ends
<1>2. EndsOfLinks
    BY DEF Init, EndsOfLinks, Ends
<1>3. Locks
    BY NoneIsNoConn DEF Init, Locks, Ends, Idle
<1>4. AllSound
    BY DEF Init, AllSound, Sound, Open, Ends
<1> QED BY <1>1, <1>2, <1>3, <1>4 DEF StreamInv

LEMMA StreamStep == Inv /\ StreamInv /\ [Next]_vars => StreamInv'
<1> SUFFICES ASSUME Inv, StreamInv, [Next]_vars PROVE StreamInv'
    OBVIOUS
<1>1. StreamTypes /\ EndsOfLinks /\ Locks /\ FreshStreams
    BY DEF StreamInv
<1>2. StreamTypes' /\ FreshStreams' /\ EndsOfLinks' /\ Locks'
    BY <1>1, StreamTypesStep, EndsStep, LocksStep
<1>3. AllSound'
    BY SoundStep DEF AllSound
<1> QED BY <1>2, <1>3 DEF StreamInv

(* While no body comes late, a reader finds a length and then its body        *)
(* (send_frame and _read_loop of tcp_transport.py), however many threads      *)
(* write to a connection, dial it, replace it, fail and close it, unless the  *)
(* connection is broken or about to be closed.                                *)
THEOREM StreamsKeepFrames == Spec => []StreamsStayAligned
<1>1. Inv /\ StreamInv => StreamsStayAligned
    <2> SUFFICES ASSUME Inv, StreamInv, NEW c \in Conns, NEW n \in Nodes,
                        ~stalled, Alive(c, n), ~Cut(c), ~HalfWritten(c)
                 PROVE  ~OffFrame(stream[c][n])
        BY DEF StreamsStayAligned
    <2>1. stream[c][n] \in Seq(Token) /\ Sound(c, n)
        BY DEF StreamInv, StreamTypes, AllSound
    <2>2. InTurn(stream[c][n])
        BY <2>1 DEF Sound, Alive, Open
    <2> QED BY <2>1, <2>2, InTurnOnFrame
<1> QED BY <1>1, InitInv, NextInv, StreamInit, StreamStep, PTL DEF Spec
=============================================================================
