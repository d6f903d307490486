------------------------------ MODULE TcpLinks ------------------------------
(***************************************************************************)
(* The connections of tcp_transport.py between nodes: any thread may send, *)
(* a send to a peer without a connection dials one in a gap between two    *)
(* critical sections, every connection has a reader thread at both ends,   *)
(* and a sender and a reader may both find it broken and close it.         *)
(*                                                                         *)
(* A frame on the wire is its length and its body, read separately with a  *)
(* timeout.  The first frame of a connection is the dialer's announce.     *)
(***************************************************************************)
EXTENDS Naturals, FiniteSets, SequencesExt

CONSTANTS Nodes,
          Conns,       \* connections, numbered in the order they are dialled
          Callers,     \* the threads of a node that call send_frame
          Frames,
          From, To,    \* [Frames -> Nodes]
          By,          \* [Frames -> Callers], who sends it, and sends it again
          Hello,       \* the announce frame
          None,
          Listeners,   \* the nodes with listen=True
          Known,       \* [Nodes -> SUBSET Nodes], the peers added by add_peer
          Gated,       \* the nodes with an admission check
          MaxFaults    \* bound: broken connections, slow writes, late bodies,
                       \* stops and unpairings

ASSUME LinksAssumption ==
    /\ Conns \subseteq Nat
    /\ None \notin Conns \cup Callers \cup Nodes \cup Frames
    /\ From \in [Frames -> Nodes] /\ To \in [Frames -> Nodes] /\ By \in [Frames -> Callers]
    /\ \A m \in Frames : From[m] # To[m]
    /\ Hello \notin Frames
    /\ Known \in [Nodes -> SUBSET Nodes]
    /\ MaxFaults \in Nat

VARIABLES link,     \* who dialled whom
          status,   \* each end: the life of its _Connection
          entering, \* the ends whose handshake passed its checks: <<conn, node>>
          stream,   \* each end: what is on the way to its reader
          writer,   \* each end: the caller that holds the connection's lock
          cut,      \* the connections the network has broken
          table,    \* _conns
          peers,    \* _peers
          running, paired,
          call,     \* each caller: its call of send_frame
          unsent, accepted, received,
          stalled,  \* a body came too late for its reader
          faults

wire == <<entering, stream, writer>>
node == <<peers, running, paired>>
history == <<accepted, received, stalled, faults>>
vars == <<link, status, wire, cut, table, node, call, unsent, history>>

Idle == [pc |-> "idle", msg |-> None, conn |-> None]
Ends(x) == [c \in Conns |-> [n \in Nodes |-> x]]

Init ==
    /\ link = [c \in Conns |-> <<None, None>>]
    /\ status = Ends("none") /\ entering = {}
    /\ stream = Ends(<<>>) /\ writer = Ends(None) /\ cut = {}
    /\ table = [n \in Nodes |-> [p \in Nodes |-> None]]
    /\ peers = Known /\ paired = Nodes
    /\ running = [n \in Nodes |-> "yes"]
    /\ call = [n \in Nodes |-> [t \in Callers |-> Idle]]
    /\ unsent = Frames /\ accepted = [m \in Frames |-> None] /\ received = {}
    /\ stalled = FALSE /\ faults = 0

Fault == faults < MaxFaults /\ faults' = faults + 1

Other(c, n) == IF link[c][1] = n THEN link[c][2] ELSE link[c][1]
Alive(c, n) == status[c][n] \in {"awaiting", "up"}

\* A connection that is broken, or that one end has closed: what is still on
\* its way may be read or not, and a write may fail or seem to succeed.
Cut(c) == c \in cut \/ \E n \in Nodes : status[c][n] = "done"

\* _close_conn: close the socket; only the connection that is in the table
\* leaves it, and only then is the loss reported.
BrokenClose(n, c) ==
    /\ status' = [status EXCEPT ![c][n] = "done"]
    /\ stream' = [stream EXCEPT ![c][n] = <<>>]
    /\ table' = [table EXCEPT ![n][Other(c, n)] = None]
Close(n, c) ==
    /\ status' = [status EXCEPT ![c][n] = "done"]
    /\ stream' = [stream EXCEPT ![c][n] = <<>>]
    /\ table' = [table EXCEPT ![n] = [p \in Nodes |-> IF @[p] = c THEN None ELSE @[p]]]

----------------------------------------------------------------------------
(* send_frame and _dial.                                                   *)

SetCall(n, t, pc, m, c) == call' = [call EXCEPT ![n][t] = [pc |-> pc, msg |-> m, conn |-> c]]

\* A call that returns False: its caller may send the frame again.
Fail(n, t) == /\ call' = [call EXCEPT ![n][t] = Idle]
              /\ unsent' = unsent \cup {call[n][t].msg}

\* Look for a connection to the recipient, or for an address to dial.
SendFrame(n, t, m) ==
    LET p == To[m]
        c == table[n][p]
    IN  /\ call[n][t] = Idle /\ m \in unsent /\ From[m] = n /\ By[m] = t
        /\ c # None \/ p \in peers[n]
        /\ unsent' = unsent \ {m}
        /\ SetCall(n, t, IF c = None THEN "dial" ELSE "write", m, c)
        /\ UNCHANGED <<link, status, wire, cut, table, node, history>>

\* _dial finds that another caller has connected meanwhile.
Reuse(n, t) ==
    LET m == call[n][t].msg
    IN  /\ call[n][t].pc = "dial" /\ table[n][To[m]] # None
        /\ SetCall(n, t, "write", m, table[n][To[m]])
        /\ UNCHANGED <<link, status, wire, cut, table, node, unsent, history>>

\* _dial connects, outside the lock, and sends the announce.  The acceptor
\* waits for it.
Dial(n, t) ==
    LET m == call[n][t].msg
        p == To[m]
    IN  /\ call[n][t].pc = "dial" /\ table[n][p] = None
        /\ p \in Listeners /\ running[p] = "yes"
        /\ \E c \in Conns :
             /\ link[c] = <<None, None>>
             /\ \A b \in Conns : b < c => link[b] # <<None, None>>
             /\ link' = [link EXCEPT ![c] = <<n, p>>]
             /\ status' = [status EXCEPT ![c][n] = "dialing", ![c][p] = "awaiting"]
             /\ stream' = [stream EXCEPT ![c][p] = <<[part |-> "length", of |-> Hello],
                                                     [part |-> "body", of |-> Hello]>>]
             /\ SetCall(n, t, "register", m, c)
        /\ UNCHANGED <<entering, writer, cut, table, node, unsent, history>>

DialFails(n, t) ==
    LET p == To[call[n][t].msg]
    IN  /\ call[n][t].pc = "dial" /\ table[n][p] = None
        /\ p \notin Listeners \/ running[p] # "yes"
        /\ Fail(n, t)
        /\ UNCHANGED <<link, status, wire, cut, table, node, history>>

AnnounceFails(n, t) ==
    LET c == call[n][t].conn
    IN  /\ call[n][t].pc = "register" /\ Cut(c)
        /\ status' = [status EXCEPT ![c][n] = "done"]
        /\ Fail(n, t)
        /\ UNCHANGED <<link, wire, cut, table, node, history>>

\* _dial enters its connection in the table, over one that another caller or
\* the peer may have entered in the gap, and starts its reader.
Register(n, t) ==
    LET c == call[n][t].conn
    IN  /\ call[n][t].pc = "register"
        /\ status' = [status EXCEPT ![c][n] = "up"]
        /\ table' = [table EXCEPT ![n][Other(c, n)] = c]
        /\ call' = [call EXCEPT ![n][t].pc = "write"]
        /\ UNCHANGED <<link, wire, cut, node, unsent, history>>

\* What reaches an end that is closed is lost.
Put(n, t, part) ==
    LET c == call[n][t].conn
        p == Other(c, n)
    IN  stream' = IF status[c][p] = "done" THEN stream
                  ELSE [stream EXCEPT ![c][p] = Append(@, [part |-> part, of |-> call[n][t].msg])]

BrokenLockFree(c, n) == TRUE
LockFree(c, n) == writer[c][n] = None

\* sendall of length and body, under the connection's lock.
WriteLength(n, t) ==
    LET c == call[n][t].conn
    IN  /\ call[n][t].pc = "write" /\ status[c][n] = "up" /\ LockFree(c, n)
        /\ writer' = [writer EXCEPT ![c][n] = t]
        /\ Put(n, t, "length")
        /\ call' = [call EXCEPT ![n][t].pc = "body"]
        /\ UNCHANGED <<link, status, entering, cut, table, node, unsent, history>>

WriteBody(n, t) ==
    LET c == call[n][t].conn
    IN  /\ call[n][t].pc = "body" /\ status[c][n] = "up"
        /\ writer' = [writer EXCEPT ![c][n] = None]
        /\ Put(n, t, "body")
        /\ accepted' = [accepted EXCEPT ![call[n][t].msg] = c]
        /\ call' = [call EXCEPT ![n][t] = Idle]
        /\ UNCHANGED <<link, status, entering, cut, table, node, unsent, received, stalled, faults>>

\* sendall raises, because the connection is broken or the peer reads too
\* slowly for the timeout: the lock is released with part of a frame written.
WriteFails(n, t) ==
    LET c == call[n][t].conn
    IN  /\ \/ call[n][t].pc = "body"
           \/ call[n][t].pc = "write" /\ LockFree(c, n)
        /\ \/ Cut(c) /\ UNCHANGED faults
           \/ ~Cut(c) /\ Fault
        /\ writer' = [writer EXCEPT ![c][n] = None]
        /\ call' = [call EXCEPT ![n][t].pc = "close"]
        /\ UNCHANGED <<link, status, entering, stream, cut, table, node, unsent,
                       accepted, received, stalled>>

\* Only then does the sender close the connection and return False.
BrokenCloseFailed(n, t) ==
    /\ call[n][t].pc = "close"
    /\ status' = [status EXCEPT ![call[n][t].conn][n] = "done"]
    /\ Fail(n, t)
    /\ UNCHANGED <<link, wire, cut, table, node, history>>
CloseFailed(n, t) ==
    /\ call[n][t].pc = "close"
    /\ Close(n, call[n][t].conn)
    /\ Fail(n, t)
    /\ UNCHANGED <<link, entering, writer, cut, node, history>>

----------------------------------------------------------------------------
(* _read_loop and _handle_frame.                                           *)

\* Which ends a reader still reads.
BrokenReads(c, n) == /\ Alive(c, n) /\ <<c, n>> \notin entering
                     /\ status[c][n] = "up" => table[n][Other(c, n)] = c
Reads(c, n) == Alive(c, n) /\ <<c, n>> \notin entering

\* A length and then its body; and anything else.
AtFrame(s) == Len(s) >= 2 /\ s[1].part = "length" /\ s[2].part = "body"
OffFrame(s) == \/ s # <<>> /\ s[1].part = "body"
               \/ Len(s) >= 2 /\ s[2].part = "length"

\* The reader reads a whole frame.
ReadFrame(n, c, state) ==
    /\ Reads(c, n) /\ status[c][n] = state /\ AtFrame(stream[c][n])
    /\ stream' = [stream EXCEPT ![c][n] = Tail(Tail(@))]

\* The announce of a peer that the admission check lets in.
Handshake(n, c) ==
    /\ ReadFrame(n, c, "awaiting")
    /\ n \in Gated => Other(c, n) \in paired
    /\ entering' = entering \cup {<<c, n>>}
    /\ UNCHANGED <<link, status, writer, cut, table, node, call, unsent, history>>

\* Its connection replaces an earlier one of the same peer, whose reader goes
\* on.  A stop since the check may have closed it already.
EnterPeer(n, c) ==
    LET p == Other(c, n)
    IN  /\ <<c, n>> \in entering
        /\ entering' = entering \ {<<c, n>>}
        /\ status' = [status EXCEPT ![c][n] = IF @ = "awaiting" THEN "up" ELSE @]
        /\ table' = [table EXCEPT ![n][p] = c]
        /\ peers' = [peers EXCEPT ![n] = IF p \in Listeners THEN @ \cup {p} ELSE @]
        /\ UNCHANGED <<link, stream, writer, cut, running, paired, call, unsent, history>>

\* The announce of a peer that is not paired.
Refuse(n, c) ==
    /\ Reads(c, n) /\ status[c][n] = "awaiting" /\ AtFrame(stream[c][n])
    /\ n \in Gated /\ Other(c, n) \notin paired
    /\ Close(n, c)
    /\ UNCHANGED <<link, entering, writer, cut, node, call, unsent, history>>

HandleFrame(n, c) ==
    /\ ReadFrame(n, c, "up")
    /\ received' = received \cup {stream[c][n][1].of}
    /\ UNCHANGED <<link, status, entering, writer, cut, table, node,
                   call, unsent, accepted, stalled, faults>>

\* A body read as a length is out of range: it starts with the magic of the
\* protocol.
Misread(n, c) ==
    /\ Reads(c, n) /\ OffFrame(stream[c][n])
    /\ Close(n, c)
    /\ UNCHANGED <<link, entering, writer, cut, node, call, unsent, history>>

\* The timeout of the socket strikes between a length and the first byte of
\* the body: _recv_exact returns None and the reader starts over.
Stall(n, c) ==
    LET s == stream[c][n]
    IN  /\ Reads(c, n) /\ s # <<>> /\ s[1].part = "length" /\ Fault
        /\ stalled' = TRUE
        /\ stream' = [stream EXCEPT ![c][n] = Tail(@)]
        /\ UNCHANGED <<link, status, entering, writer, cut, table, node, call, unsent,
                       accepted, received>>

\* The reader finds its end or the peer's closed, the network broken or the
\* transport stopped.
BrokenReaderEnds(n, c) ==
    /\ Reads(c, n) /\ Cut(c)
    /\ Close(n, c)
    /\ UNCHANGED <<link, entering, writer, cut, node, call, unsent, history>>
ReaderEnds(n, c) ==
    /\ <<c, n>> \notin entering
    /\ \/ Reads(c, n) /\ (Cut(c) \/ running[n] # "yes")
       \/ status[c][n] = "done" /\ table[n][Other(c, n)] = c
    /\ Close(n, c)
    /\ UNCHANGED <<link, entering, writer, cut, node, call, unsent, history>>

----------------------------------------------------------------------------
(* stop, and what the environment does.                                    *)

Stop(n) ==
    /\ running[n] = "yes" /\ Fault
    /\ running' = [running EXCEPT ![n] = "stopping"]
    /\ UNCHANGED <<link, status, wire, cut, table, peers, paired, call, unsent,
                   accepted, received, stalled>>

\* stop empties the table and closes what was in it and what still waited for
\* a handshake.  A connection that was replaced, or is being dialled, is left
\* to its reader.
StopCloses(n) ==
    /\ running[n] = "stopping"
    /\ running' = [running EXCEPT ![n] = "no"]
    /\ table' = [table EXCEPT ![n] = [p \in Nodes |-> None]]
    /\ status' = [c \in Conns |-> [status[c] EXCEPT ![n] =
         IF status[c][n] = "awaiting" \/ \E p \in Nodes : table[n][p] = c THEN "done" ELSE @]]
    /\ stream' = [c \in Conns |-> [stream[c] EXCEPT ![n] =
         IF status'[c][n] = "done" THEN <<>> ELSE @]]
    /\ UNCHANGED <<link, entering, writer, cut, peers, paired, call, unsent, history>>

Break(c) ==
    /\ link[c] # <<None, None>> /\ ~Cut(c) /\ Fault
    /\ cut' = cut \cup {c}
    /\ UNCHANGED <<link, status, wire, table, node, call, unsent, accepted, received, stalled>>

Unpair(p) ==
    /\ p \in paired /\ (\E n \in Gated : n # p) /\ Fault
    /\ paired' = paired \ {p}
    /\ UNCHANGED <<link, status, wire, cut, table, peers, running, call, unsent,
                   accepted, received, stalled>>

CallStep(n, t) == \/ Reuse(n, t) \/ Dial(n, t) \/ DialFails(n, t)
                  \/ AnnounceFails(n, t) \/ Register(n, t)
                  \/ WriteLength(n, t) \/ WriteBody(n, t)
                  \/ WriteFails(n, t) \/ CloseFailed(n, t)
ReaderStep(n, c) == \/ Handshake(n, c) \/ EnterPeer(n, c)
                    \/ Refuse(n, c) \/ HandleFrame(n, c) \/ Misread(n, c)
                    \/ ReaderEnds(n, c)

Next == \/ \E n \in Nodes, t \in Callers :
             CallStep(n, t) \/ \E m \in Frames : SendFrame(n, t, m)
        \/ \E n \in Nodes, c \in Conns : ReaderStep(n, c) \/ Stall(n, c)
        \/ \E n \in Nodes : Stop(n) \/ StopCloses(n) \/ Unpair(n)
        \/ \E c \in Conns : Break(c)

Spec == Init /\ [][Next]_vars

\* The callers inside send_frame, the readers and a stop go on.
FairSpec ==
    /\ Spec
    /\ \A n \in Nodes, t \in Callers : WF_vars(CallStep(n, t))
    /\ \A n \in Nodes, c \in Conns : WF_vars(ReaderStep(n, c))
    /\ \A n \in Nodes : WF_vars(StopCloses(n))

----------------------------------------------------------------------------
(* Properties.                                                             *)

Lives == {"none", "dialing", "awaiting", "up", "done"}
CallState == [pc : {"idle", "dial", "register", "write", "body", "close"},
              msg : Frames \cup {None}, conn : Conns \cup {None}]
Token == [part : {"length", "body"}, of : Frames \cup {Hello}]

TypeOK ==
    /\ link \in [Conns -> (Nodes \cup {None}) \X (Nodes \cup {None})]
    /\ status \in [Conns -> [Nodes -> Lives]]
    /\ entering \subseteq Conns \X Nodes
    /\ stream \in [Conns -> [Nodes -> Seq(Token)]]
    /\ writer \in [Conns -> [Nodes -> Callers \cup {None}]]
    /\ cut \subseteq Conns
    /\ table \in [Nodes -> [Nodes -> Conns \cup {None}]]
    /\ peers \in [Nodes -> SUBSET Nodes] /\ paired \subseteq Nodes
    /\ running \in [Nodes -> {"yes", "stopping", "no"}]
    /\ call \in [Nodes -> [Callers -> CallState]]
    /\ unsent \subseteq Frames /\ received \subseteq Frames
    /\ accepted \in [Frames -> Conns \cup {None}]
    /\ stalled \in BOOLEAN /\ faults \in 0..MaxFaults

\* A write that failed has left part of a frame on c.
HalfWritten(c) == \E n \in Nodes, t \in Callers : call[n][t].pc = "close" /\ call[n][t].conn = c

\* While no body comes late, what a reader finds next is a length and its
\* body, although length and body are written and read one after the other and
\* several threads write to a connection: only a connection that is about to
\* be closed carries a frame cut short.
StreamsStayAligned ==
    \A c \in Conns, n \in Nodes :
      ~stalled /\ Alive(c, n) /\ ~Cut(c) /\ ~HalfWritten(c) => ~OffFrame(stream[c][n])

\* While a transport runs, an entry of its table is an open connection to that
\* peer: no send picks a connection that a sender or a reader has closed.
TableEntriesOpen ==
    \A n, p \in Nodes : running[n] # "no" /\ table[n][p] # None =>
      status[table[n][p]][n] = "up" /\ Other(table[n][p], n) = p

\* A connection that a newer one replaced, whose reader ends later, does not
\* take the newer one's entry with it: an entry leaves the table only when
\* that very connection is closed.
EntryLeavesWithItsConnection ==
    [][\A n, p \in Nodes : table[n][p] # None /\ table'[n][p] = None =>
         status'[table[n][p]][n] = "done"]_vars

\* A frame for which send_frame returned True is read by the peer, unless the
\* connection it was written to ends, also when two dials or a handshake left
\* that connection without an entry in a table.
AcceptedArrives ==
    \A m \in Frames :
      accepted[m] # None ~> m \in received \/ \E c \in Conns : accepted[m] = c /\ Cut(c)

\* Every end of a connection is closed once the connection is broken, closed at
\* the other end, or its transport has stopped, although the stop closes only
\* what is in the tables and a replaced or just dialled connection is not.
EndsAreNoticed ==
    \A n \in Nodes, c \in Conns :
      Alive(c, n) /\ (Cut(c) \/ running[n] = "no") ~> status[c][n] = "done"
=============================================================================
