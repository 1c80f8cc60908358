-------------------------------- MODULE Udp --------------------------------
(***************************************************************************)
(* connect() of wolf/src/stream/udp.rs, the only operation of the UDP      *)
(* endpoint, in both of its roles.  A server reads a datagram and answers  *)
(* its sender; a client calls its callback, sends and reads.  A client     *)
(* sends to its own local_addr(), so what it reads is its own datagram or  *)
(* one that somebody else sent to its port.  The buffer of the endpoint is *)
(* one for all peers; its cells are kept by origin, not by value.          *)
(***************************************************************************)
EXTENDS Naturals, Sequences, FiniteSets

CONSTANTS
    Peers,          \* remote addresses
    MaxMsg,         \* MAX_MSG_SIZE, the length of Buffer.buf
    MaxLen,         \* the longest datagram a peer sends
    ReadWriteTimeout, \* p_read_write_timeout_in_secs > 0.0
    ClientSizes,    \* msg.size a client's callback may leave
    MaxSends,       \* bound: datagrams the peers send in all
    MaxDups         \* bound: datagrams the network delivers again

ASSUME UdpAssumption ==
    /\ MaxMsg \in Nat \ {0} /\ MaxLen \in Nat /\ "local_addr" \notin Peers
    /\ ReadWriteTimeout \in BOOLEAN
    /\ ClientSizes \subseteq 0..MaxMsg
    /\ MaxSends \in Nat /\ MaxDups \in Nat

VARIABLES
    role,       \* p_connection_type
    pc,         \* where connect() is
    size,       \* msg.size
    buf,        \* msg.buf, per cell who wrote it
    received,   \* msg_size and peer_addr of the server's latest read
    reply,      \* the latest answer a server sent, with the read it answers
    net,        \* peers' datagrams on their way here
    queue,      \* the receive queue of the socket
    foreign,    \* datagrams of peers that a client read
    sends, dups \* what the bounds count

msgVars == <<size, buf, received, reply, foreign>>
netVars == <<net, queue, sends, dups>>
udpVars == <<role, pc, msgVars, netVars>>

Server == role = "UDPServer"
Client == role = "UDPClient"

Origins == Peers \cup {"zero", "callback"}
Cells   == 1..MaxMsg
Self    == "local_addr"

NoRead  == [len |-> 0, from |-> Self]
NoReply == [to |-> Self, own |-> 0, cells |-> [i \in Cells |-> "zero"]]

\* A datagram of a peer, all of its bytes the peer's, and one of the client's
\* own: send() is given the whole buffer whatever msg.size says.
PeerDatagram(p, n) == [from |-> p, cells |-> [i \in 1..n |-> p]]
OwnDatagram        == [from |-> Self, cells |-> buf]
Datagrams          == {PeerDatagram(p, n) : p \in Peers, n \in 0..MaxLen}

UdpInit ==
    /\ role \in {"UDPServer", "UDPClient"}
    /\ pc = "setup"
    /\ size = 0
    /\ buf = [i \in Cells |-> "zero"]
    /\ received = NoRead /\ reply = NoReply
    /\ net = {} /\ queue = <<>>
    /\ foreign = 0 /\ sends = 0 /\ dups = 0

----------------------------------------------------------------------------
(* The network: datagrams are lost, overtaken and delivered twice.         *)

PeerSends ==
    /\ pc \notin {"setup", "returned"}
    /\ sends < MaxSends
    /\ \E d \in Datagrams : net' = net \cup {d}
    /\ sends' = sends + 1
    /\ UNCHANGED <<role, pc, msgVars, queue, dups>>

Arrive(d) ==
    /\ queue' = Append(queue, d)
    /\ \/ net' = net \ {d} /\ dups' = dups
       \/ dups < MaxDups /\ net' = net /\ dups' = dups + 1
    /\ UNCHANGED <<role, pc, msgVars, sends>>

Lose(d) ==
    /\ net' = net \ {d}
    /\ UNCHANGED <<role, pc, msgVars, queue, sends, dups>>

----------------------------------------------------------------------------
(* Set-up and end, the same for both roles.                                *)

\* The address does not parse or cannot be bound.  (local_addr of a bound socket
\* does not fail.)
BindFails ==
    /\ pc = "setup"
    /\ pc' = "returned"
    /\ UNCHANGED <<role, msgVars, netVars>>

\* on_bind_socket returned Err: connect returns it at once.
OnBindSocketFails ==
    /\ pc = "setup"
    /\ pc' = "returned"
    /\ UNCHANGED <<role, msgVars, netVars>>

OnBindSocket ==
    /\ pc = "setup"
    /\ pc' = IF Server THEN "read" ELSE "callback"
    /\ UNCHANGED <<role, msgVars, netVars>>

OnCloseSocket ==
    /\ pc = "closing"
    /\ pc' = "returned"
    /\ UNCHANGED <<role, msgVars, netVars>>

----------------------------------------------------------------------------
(* read() and send().                                                      *)

\* recv_from writes the start of the buffer and drops what does not fit.
Read(d) ==
    LET n == IF Len(d.cells) > MaxMsg THEN MaxMsg ELSE Len(d.cells)
    IN  /\ buf' = [i \in Cells |-> IF i <= n THEN d.cells[i] ELSE buf[i]]
        /\ IF Server
           THEN /\ received' = [len |-> n, from |-> d.from]
                /\ size' = n
                /\ UNCHANGED foreign
           ELSE /\ foreign' = foreign + (IF d.from = Self THEN 0 ELSE 1)
                /\ UNCHANGED <<received, size>>

RecvFrom ==
    /\ pc = "read"
    /\ queue # <<>>
    /\ Read(Head(queue))
    /\ queue' = Tail(queue)
    /\ pc' = "callback"
    /\ UNCHANGED <<role, reply, net, sends, dups>>

\* Mutant: after a timeout the client sends again.
ReadTimesOutResends ==
    /\ ReadWriteTimeout
    /\ pc = "read"
    /\ pc' = IF Server THEN "closing" ELSE "callback"
    /\ UNCHANGED <<role, msgVars, netVars>>

\* Mutant: after a timeout the server reads again.
ReadTimesOutRereads ==
    /\ ReadWriteTimeout
    /\ pc = "read"
    /\ pc' = IF Server THEN "read" ELSE "closing"
    /\ UNCHANGED <<role, msgVars, netVars>>

\* select! takes the timer, which it may do while a datagram is there.
ReadTimesOut ==
    /\ ReadWriteTimeout
    /\ pc = "read"
    /\ pc' = "closing"
    /\ UNCHANGED <<role, msgVars, netVars>>

\* recv_from or send_to fails, or sending times out.
IoFails ==
    /\ pc \in {"read", "send"}
    /\ pc' = "closing"
    /\ UNCHANGED <<role, msgVars, netVars>>

\* A server answers the sender of the datagram.  A client's datagram goes to the
\* end of its own queue, or is dropped there.
SendTo ==
    /\ pc = "send"
    /\ pc' = "read"
    /\ IF Server
       THEN /\ reply' = [to |-> received.from, own |-> received.len, cells |-> buf]
            /\ UNCHANGED queue
       ELSE /\ queue' \in {queue, Append(queue, OwnDatagram)}
            /\ UNCHANGED reply
    /\ UNCHANGED <<role, size, buf, received, foreign, net, sends, dups>>

----------------------------------------------------------------------------
(* The callback.                                                           *)

OnMessageVetoes ==
    /\ pc = "callback"
    /\ pc' = "closing"
    /\ UNCHANGED <<role, msgVars, netVars>>

CallbackWrites(n) ==
    /\ buf' = [i \in Cells |-> IF i <= n THEN "callback" ELSE buf[i]]
    /\ size' = n

\* Mutant: a datagram without bytes is answered too.
OnMessageServerAnswersAll ==
    /\ Server /\ pc = "callback"
    /\ \E n \in 0..MaxMsg : CallbackWrites(n)
    /\ pc' = "send"
    /\ UNCHANGED <<role, received, reply, foreign, netVars>>

\* The server tests the size it received, not the one the callback left.
OnMessageServer ==
    /\ Server /\ pc = "callback"
    /\ \E n \in 0..MaxMsg : CallbackWrites(n)
    /\ pc' = IF received.len > 0 THEN "send" ELSE "read"
    /\ UNCHANGED <<role, received, reply, foreign, netVars>>

\* A client with nothing to send calls its callback again at once.
OnMessageClient ==
    /\ Client /\ pc = "callback"
    /\ \E n \in ClientSizes : CallbackWrites(n)
    /\ pc' = IF size' > 0 THEN "send" ELSE "callback"
    /\ UNCHANGED <<role, received, reply, foreign, netVars>>

----------------------------------------------------------------------------
Network == PeerSends \/ \E d \in net : Arrive(d) \/ Lose(d)

Connect ==
    \/ BindFails \/ OnBindSocketFails \/ OnBindSocket \/ OnCloseSocket
    \/ RecvFrom \/ ReadTimesOut \/ SendTo
    \/ OnMessageVetoes \/ OnMessageServer \/ OnMessageClient

UdpNext == Network \/ Connect \/ IoFails

UdpSpec == UdpInit /\ [][UdpNext]_udpVars

\* The runtime polls the task: a step of connect() that is enabled for good is
\* taken, and a timer of finite length fires.  Nothing is assumed of the network
\* or of errors of the socket.
UdpFairSpec == UdpSpec /\ WF_udpVars(Connect) /\ WF_udpVars(ReadTimesOut)

----------------------------------------------------------------------------
(* Properties.                                                             *)

\* Types; the buffer never grows and msg.size stays within it.
UdpTypeOK ==
    /\ role \in {"UDPServer", "UDPClient"}
    /\ pc \in {"setup", "callback", "send", "read", "closing", "returned"}
    /\ size \in 0..MaxMsg
    /\ buf \in [Cells -> Origins]
    /\ received.len \in 0..MaxMsg /\ received.from \in Peers \cup {Self}
    /\ reply.cells \in [Cells -> Origins]
    /\ net \subseteq Datagrams
    /\ \A i \in DOMAIN queue : queue[i] \in Datagrams \/ queue[i].from = Self
    /\ foreign \in Nat /\ sends \in 0..MaxSends /\ dups \in 0..MaxDups

\* One buffer serves all peers and every answer is the whole of it.  Still an
\* answer has something of its own: as many cells as the datagram it answers had
\* bytes, at least one, were written by that peer or by the callback.  Only cells
\* behind them may be left from somebody else's datagram.
AnswerStartsWithOwn ==
    reply # NoReply =>
        /\ reply.own > 0
        /\ \A i \in 1..reply.own : reply.cells[i] \in {reply.to, "callback"}

OwnUnread == Cardinality({i \in DOMAIN queue : queue[i].from = Self})

\* A client reads once for every datagram it sends, so what it reads is the echo
\* of the latest one unless a peer's datagram came first: its own datagrams still
\* in the queue are at most as many as the strangers' it took for answers, and one
\* more while it is reading.  The client falls behind for good, never faster.
ClientLag ==
    Client /\ pc # "returned" =>
        OwnUnread <= foreign + (IF pc \in {"read", "closing"} THEN 1 ELSE 0)

Starved == pc = "read" /\ queue = <<>> /\ net = {}

\* With a timeout, an endpoint that waits for a datagram that was lost, or that
\* nobody sends, ends unless another one arrives.
StarvedEnds == Starved ~> (pc = "returned" \/ queue # <<>>)
============================================================================
