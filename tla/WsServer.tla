------------------------------ MODULE WsServer ------------------------------
(***************************************************************************)
(* The single-client canwsd server of the F767 boards                      *)
(* (f767-canwsd-fwupdate/common/src/ws.rs) between one TCP connection and  *)
(* the node's two channels NODE_RX and NODE_TX (common/src/hal.rs).        *)
(*                                                                         *)
(* A WebSocket message is three pieces on the stream: two header bytes,    *)
(* which may arrive apart, and the mask with the payload.  The session     *)
(* gives a header 2 ms, then looks after NODE_TX, and resumes the header   *)
(* where it was.                                                           *)
(***************************************************************************)
EXTENDS Integers, Sequences

CONSTANTS ChannelCap,  \* capacity of NODE_RX and of NODE_TX
          MaxSessions, \* connections
          MaxSent,     \* messages a client sends
          MaxSpoken    \* frames the node sends

VARIABLES server,      \* "accept", "request", "top", "header", "body"
          session,     \* history: number of the connection
          stream,      \* what the client sent and the server has not read
          header_len,  \* header bytes read
          header,      \* and the message they began
          node_rx, node_tx,
          said,        \* history: messages the client sent
          nodeHeard,       \* history: frames of this client that the node took
          got,         \* history: sessions in which what the client got was queued
          spoken,      \* history: frames the node sent
          broken       \* history: a session was ended for a malformed message

wsServerVars ==
    <<server, session, stream, header_len, header, node_rx, node_tx, said, nodeHeard, got, spoken, broken>>
history == <<said, nodeHeard, got, spoken, broken>>

MessageKinds == {"classic", "unsupported", "ping", "close"}
InSession == server \in {"top", "header", "body"}

WsServerInit ==
    /\ server = "accept" /\ session = 0 /\ stream = <<>> /\ header_len = 0 /\ header = 0
    /\ node_rx = <<>> /\ node_tx = <<>>
    /\ said = <<>> /\ nodeHeard = <<>> /\ got = <<>> /\ spoken = 0 /\ broken = FALSE

(* canwsd_task: one connection after the other.                            *)
Accept ==
    /\ server = "accept" /\ session < MaxSessions
    /\ server' = "request" /\ session' = session + 1
    /\ stream' = <<>> /\ said' = <<>> /\ nodeHeard' = <<>> /\ got' = <<>>
    /\ UNCHANGED <<header_len, header, node_rx, node_tx, spoken, broken>>

(* The socket is aborted.                                                  *)
EndConnection ==
    /\ server' = "accept" /\ stream' = <<>>
    /\ UNCHANGED <<session, header_len, header, node_tx>>

(* serve_connection: a list of networks, a refused or broken request, or a *)
(* handshake.                                                              *)
ServeOther ==
    /\ server = "request" /\ EndConnection
    /\ UNCHANGED <<node_rx, history>>

OpenSession ==
    /\ server = "request" /\ server' = "top"
    /\ node_tx' = <<>> /\ header_len' = 0
    /\ UNCHANGED <<session, stream, header, node_rx, history>>

(* session(): first everything the node queued, then a header.             *)
Forward ==
    /\ server = "top"
    /\ IF node_tx = <<>> THEN server' = "header" /\ UNCHANGED <<node_tx, got>>
       ELSE node_tx' = Tail(node_tx) /\ got' = Append(got, Head(node_tx)) /\ UNCHANGED server
    /\ UNCHANGED <<session, stream, header_len, header, node_rx, said, nodeHeard, spoken, broken>>

(* Mutated form of HeaderTimeout: the header is started anew.              *)
HeaderTimeoutRestarts ==
    /\ server = "header" /\ server' = "top" /\ header_len' = 0
    /\ UNCHANGED <<session, stream, header, node_rx, node_tx, history>>

HeaderTimeout ==
    /\ server = "header" /\ server' = "top"
    /\ UNCHANGED <<session, stream, header_len, header, node_rx, node_tx, history>>

(* read_header and the checks of read_body: the first byte says FIN and    *)
(* the opcode, the second that the payload is masked.                      *)
ReadHeader ==
    LET piece == Head(stream)
    IN  /\ server = "header" /\ stream # <<>>
        /\ IF piece.part = header_len + 1 /\ (piece.part = 2 => piece.message = header)
           THEN /\ stream' = Tail(stream) /\ header' = piece.message
                /\ header_len' = piece.part % 2
                /\ server' = IF piece.part = 2 THEN "body" ELSE "header"
                /\ UNCHANGED <<session, node_tx, broken>>
           ELSE EndConnection /\ broken' = TRUE
        /\ UNCHANGED <<node_rx, said, nodeHeard, got, spoken>>

(* The rest of read_body, and the message.  A full NODE_RX ends the        *)
(* session.                                                                *)
ReadBody ==
    /\ server = "body" /\ stream # <<>>
    /\ LET kind == said[header]
           refused == kind = "classic" /\ Len(node_rx) = ChannelCap
       IN  /\ IF kind = "close" \/ refused THEN EndConnection
              ELSE server' = "top" /\ stream' = Tail(stream) /\ UNCHANGED <<session, header_len, header, node_tx>>
           /\ node_rx' = IF kind = "classic" /\ ~ refused
                         THEN Append(node_rx, [session |-> session, message |-> header]) ELSE node_rx
    /\ UNCHANGED history

(* A read or a write fails: the client is gone.                            *)
ClientGone ==
    /\ InSession /\ EndConnection
    /\ UNCHANGED <<node_rx, history>>

ClientSends ==
    /\ InSession /\ Len(said) < MaxSent
    /\ \E kind \in MessageKinds : said' = Append(said, kind)
    /\ stream' = stream \o [p \in 1..3 |-> [message |-> Len(said'), part |-> p]]
    /\ UNCHANGED <<server, session, header_len, header, node_rx, node_tx, nodeHeard, got, spoken, broken>>

(* ChannelTransport: the node takes a frame, or queues one; with NODE_TX   *)
(* full, transmit fails.                                                   *)
NodeReceives ==
    /\ node_rx # <<>> /\ node_rx' = Tail(node_rx)
    /\ nodeHeard' = IF Head(node_rx).session = session THEN Append(nodeHeard, Head(node_rx).message) ELSE nodeHeard
    /\ UNCHANGED <<server, session, stream, header_len, header, node_tx, said, got, spoken, broken>>

NodeTransmits ==
    /\ Len(node_tx) < ChannelCap /\ spoken < MaxSpoken
    /\ node_tx' = Append(node_tx, IF InSession THEN session ELSE 0)
    /\ spoken' = spoken + 1
    /\ UNCHANGED <<server, session, stream, header_len, header, node_rx, said, nodeHeard, got, broken>>

WsServerNext ==
    \/ Accept \/ ServeOther \/ OpenSession \/ Forward \/ HeaderTimeout \/ ReadHeader \/ ReadBody
    \/ ClientGone \/ ClientSends \/ NodeReceives \/ NodeTransmits

WsServerSpec == WsServerInit /\ [][WsServerNext]_wsServerVars

(* The session is a faithful pipe: the node takes the classic frames of    *)
(* the client in the order they were sent and skips none before the last   *)
(* it took; no slow header puts the two out of step; and the client gets   *)
(* only what the node queued in this session.                              *)
SessionFaithful ==
    /\ ~ broken
    /\ \A k \in 1..Len(nodeHeard) :
         /\ nodeHeard[k] \in 1..Len(said) /\ said[nodeHeard[k]] = "classic"
         /\ \A j \in 1..Len(nodeHeard) : j < k => nodeHeard[j] < nodeHeard[k]
         /\ \A i \in 1..Len(said) : i < nodeHeard[k] /\ said[i] = "classic" =>
                \E j \in 1..Len(nodeHeard) : nodeHeard[j] = i
    /\ \A i \in 1..Len(got) : got[i] = session
=============================================================================
