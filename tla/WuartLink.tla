------------------------------ MODULE WuartLink ------------------------------
(***************************************************************************)
(* The whole path from one serial port to the other: the client program of *)
(* WuartClient and the server sessions of WuartSession, joined by the two  *)
(* streams of each connection.  Everything the client sends is what the    *)
(* sessions handle, and everything they answer or forward is what the      *)
(* client handles.                                                         *)
(***************************************************************************)
EXTENDS WuartClient, FiniteSets, SequencesExt

CONSTANTS Ports, Bauds, NoPath, NoDev, ExclusiveOpen, CloseMayFail, MaxRequests, MaxRx

VARIABLES
    life, uart_path, uart_baud, uart_dev, is_running, requests, errors, forwarded,
    arrived, pending,        \* the server's, as in WuartSession
    server_read,   \* per connection, how many of to_server the server has handled
    server_wrote   \* per connection, the data packets the server wrote to a port

Server == INSTANCE WuartSession

(* What WuartSession assumes of the constants. *)
ASSUME LinkAssumption ==
    /\ Bauds \subseteq Nat \ {0}
    /\ NoPath \notin Ports
    /\ ExclusiveOpen \in BOOLEAN
    /\ CloseMayFail \in BOOLEAN
    /\ MaxRequests \in Nat
    /\ MaxRx \in Nat
    /\ NoDev \notin Server!Device

serverVars == <<life, uart_path, uart_baud, uart_dev, is_running, requests, errors,
                forwarded, arrived, pending>>

vars == <<clientVars, serverVars, server_read, server_wrote>>

Init ==
    /\ ClientInit
    /\ Server!Init
    /\ server_read = [s \in Sessions |-> 0]
    /\ server_wrote = [s \in Sessions |-> <<>>]

-----------------------------------------------------------------------------
(* The packets a session sends.  After the client has closed its end they  *)
(* are lost, and may bring a reset back.                                   *)
Replies(s, packets) ==
    IF packets = <<>> THEN UNCHANGED <<to_client, client_closing>>
    ELSE IF client_closing[s] = "no"
    THEN /\ to_client' = [to_client EXCEPT ![s] = @ \o packets]
         /\ UNCHANGED client_closing
    ELSE /\ client_closing' \in {client_closing, [client_closing EXCEPT ![s] = "rst"]}
         /\ UNCHANGED to_client

(* When a handler ends, socketserver closes its connection; if something   *)
(* is still unread in the socket, this resets it.                          *)
Closes(s) ==
    IF life'[s] # "gone" THEN UNCHANGED server_closing
    ELSE \E how \in IF server_read'[s] < Len(to_server[s]) THEN {"fin", "rst"} ELSE {"fin"} :
             server_closing' = [server_closing EXCEPT ![s] = how]

ErrorsSent(s) == [k \in 1..(errors'[s] - errors[s]) |-> packet("error", <<>>)]

(* handle_packet for the next packet of the stream. *)
Dispatch(s, p) ==
    \/ p.key = "path" /\ Server!HandlePath(s) /\ uart_path'[s] = p.val /\ UNCHANGED server_wrote
    \/ p.key = "baud" /\ Server!HandleBaud(s) /\ uart_baud'[s] = p.val /\ UNCHANGED server_wrote
    \/ p.key = "start" /\ Server!HandleStart(s) /\ UNCHANGED server_wrote
    \/ p.key = "data" /\ Server!HandleDataRefused(s) /\ UNCHANGED server_wrote
    \/ p.key = "data" /\ Server!HandleDataRaises(s) /\ UNCHANGED server_wrote
    \/ /\ p.key = "data" /\ Server!HandleDataWritten(s)
       /\ server_wrote' = [server_wrote EXCEPT ![s] = Append(@, p.val)]

ServerHandles(s) ==
    /\ server_read[s] < Len(to_server[s])
    /\ server_read' = [server_read EXCEPT ![s] = @ + 1]
    /\ Dispatch(s, to_server[s][server_read[s] + 1])
    /\ Replies(s, ErrorsSent(s))
    /\ Closes(s)
    /\ UNCHANGED <<process, local, to_server, client_read, client_wrote>>

(* What PollUart has just sent; nothing once the client has closed its end. *)
Forwarded(s) ==
    [k \in 1..(Len(forwarded'[s]) - Len(forwarded[s])) |->
        forwarded'[s][Len(forwarded[s]) + k].byte]

ServerPolls(s) ==
    /\ Server!PollUart(s)
    /\ Replies(s, IF is_running[s] THEN <<packet("data", Forwarded(s))>> ELSE <<>>)
    /\ UNCHANGED <<process, local, to_server, client_read, client_wrote, server_closing,
                   server_read, server_wrote>>

(* The steps of a session that send nothing. *)
Quietly(s) ==
    /\ UNCHANGED <<process, local, to_server, to_client, client_read, client_wrote,
                   client_closing, server_read, server_wrote>>
    /\ Closes(s)

ServerPollRaises(s) == Server!PollRaises(s) /\ Quietly(s)

(* The client's end is closed, behind all that it sent, or reset. *)
SeesEnd(s) ==
    /\ client_closing[s] = "fin"
    /\ server_read[s] = Len(to_server[s])
    /\ Server!ClientCloses(s)
    /\ Quietly(s)

SeesReset(s) == client_closing[s] = "rst" /\ Server!ClientResets(s) /\ Quietly(s)

Connected(s) == Connect(s) /\ Server!Accept(s) /\ UNCHANGED <<server_read, server_wrote>>

Next ==
    \/ \E s \in Sessions :
           \/ Connected(s)
           \/ ServerHandles(s) \/ ServerPolls(s) \/ ServerPollRaises(s)
           \/ SeesEnd(s) \/ SeesReset(s)
    \/ ClientStep /\ UNCHANGED <<serverVars, server_read, server_wrote>>
    \/ \E p \in Ports : Server!UartReceives(p) /\ UNCHANGED <<clientVars, server_read, server_wrote>>

Spec == Init /\ [][Next]_vars

(* A turn of a handler's loop, and of the client's program.                *)
ServerTurn(s) == ServerHandles(s) \/ ServerPolls(s) \/ SeesEnd(s) \/ SeesReset(s)

ClientTurn ==
    \/ \E s \in Sessions : Connected(s)
    \/ /\ ClientHandleData \/ ClientHandleDataRaises \/ ClientHandleError \/ ClientPoll
       /\ UNCHANGED <<serverVars, server_read, server_wrote>>

(* Each loop turns at least once in recv_timeout seconds, in a thread or a *)
(* process of its own, and start_forever tries again every ten seconds.    *)
FairSpec == Spec /\ (\A s \in Sessions : WF_vars(ServerTurn(s))) /\ WF_vars(ClientTurn)

-----------------------------------------------------------------------------
(* The values of the data packets among packets, in their order: the n-th  *)
(* is that of the data packet up to which, itself included, there are n.   *)
DataAt(packets) == {k \in DOMAIN packets : packets[k].key = "data"}
UpTo(packets, i) == {k \in DataAt(packets) : k <= i}
DataOf(packets) ==
    [n \in 1..Cardinality(DataAt(packets)) |->
        packets[CHOOSE i \in DataAt(packets) : Cardinality(UpTo(packets, i)) = n].val]

TypeOK ==
    /\ stage \in {"apart", "handle"}
    /\ session \in Sessions \union {NoSession}
    /\ stage = "handle" => session # NoSession
    /\ client_dev \in BOOLEAN
    /\ local_arrived \in 0..MaxLocal
    /\ local_pending \in Seq(1..local_arrived)
    /\ \A s \in Sessions :
           /\ client_read[s] \in 0..Len(to_client[s])
           /\ server_read[s] \in 0..Len(to_server[s])
           /\ client_closing[s] \in {"no", "fin", "rst"}
           /\ server_closing[s] \in {"no", "fin", "rst"}
           /\ client_wrote[s] \in Seq(Seq(Nat))
           /\ server_wrote[s] \in Seq(Seq(Nat))

(* What is written to the port at either end of a connection is a run of   *)
(* consecutive bytes of the port at the other end: between the first byte  *)
(* that gets through and the last, whatever fails in between, none is      *)
(* missing, twice there or out of its order.                               *)
Consecutive(bytes) == \A k \in 1..(Len(bytes) - 1) : bytes[k + 1] = bytes[k] + 1
EndToEnd ==
    \A s \in Sessions :
        Consecutive(FlattenSeq(server_wrote[s])) /\ Consecutive(FlattenSeq(client_wrote[s]))

(* The data packets of one direction of a connection, as the handlers at   *)
(* its ends see them, go through a channel that keeps their order.  A      *)
(* client sends nothing but data after its opening.                        *)
SentData(s) ==
    [k \in 1..(Len(to_server[s]) - Len(Opening)) |-> to_server[s][Len(Opening) + k].val]
Runs(n) == {[k \in 1..l |-> first + k] : first \in 0..n, l \in 1..n}
Upstream(s) == INSTANCE PacketChannel WITH
    accepted <- SentData(s), delivered <- server_wrote[s], Offered <- Runs(MaxLocal)
Downstream(s) == INSTANCE PacketChannel WITH
    accepted <- DataOf(to_client[s]), delivered <- client_wrote[s], Offered <- Runs(MaxRx)

(* A session never writes a data packet after one it has refused or failed *)
(* to write: what the server writes is, packet for packet, what the client *)
(* sent.                                                                   *)
UpstreamSpec ==
    /\ \A s \in Sessions : Upstream(s)!Init
    /\ [][\A s \in Sessions : [Upstream(s)!Next]_(Upstream(s)!chan)]_vars

(* The client likewise never goes on behind a packet it could not write.   *)
DownstreamSpec ==
    /\ \A s \in Sessions : Downstream(s)!Init
    /\ [][\A s \in Sessions : [Downstream(s)!Next]_(Downstream(s)!chan)]_vars

Wrote(packets, byte) == \E k \in DOMAIN packets : \E j \in DOMAIN packets[k] : packets[k][j] = byte
InUse(s) == stage = "handle" /\ session = s /\ life[s] = "up"
Waits(bytes, byte) == \E k \in DOMAIN bytes : bytes[k] = byte

(* A byte that waits in the client's port while it is connected gets to    *)
(* the remote port, or the client has been told that it does not, or one   *)
(* end has given up.                                                       *)
ReachesServer ==
    \A s \in Sessions : \A b \in 1..MaxLocal :
        InUse(s) /\ Waits(local_pending, b) ~>
            \/ Wrote(server_wrote[s], b)
            \/ \E k \in DOMAIN to_client[s] : to_client[s][k].key = "error"
            \/ ~InUse(s)

(* A byte that waits in the remote port of a connected client gets to the  *)
(* client's port, or one end has given up.                                 *)
ReachesClient ==
    \A s \in Sessions : \A b \in 1..MaxRx :
        InUse(s) /\ uart_dev[s] # NoDev /\ Waits(pending[RemotePath], b) ~>
            Wrote(client_wrote[s], b) \/ ~InUse(s)

(* start_forever "tries to reconnect" after a disconnect: a client that    *)
(* has lost its connection is connected again, if a handler is free.       *)
Reconnects ==
    (stage = "apart" /\ session # NoSession /\ \E s \in Sessions : life[s] = "free")
        ~> stage = "handle"

(* When a client goes, its handler exits: the port it held is free again.  *)
PortReleased ==
    \A s \in Sessions : client_closing[s] # "no" ~> uart_dev[s] = NoDev
=============================================================================
