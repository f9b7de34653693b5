----------------------------- MODULE WuartClient -----------------------------
(***************************************************************************)
(* The client program, WirelessUartConnectHelper: one thread that opens    *)
(* its own serial port, connects to the server, says which remote port it  *)
(* wants and then carries data in both directions, and tries again when    *)
(* any of this fails.  It owns one socket object for all its attempts.     *)
(*                                                                         *)
(* The server is seen through the two byte streams of each connection,     *)
(* here sequences of packets (how a stream is cut into packets is the      *)
(* subject of WuartReceiver).  is_running is true exactly in handle(), so  *)
(* it is not a variable of its own.  Definitions named X_y are X with the  *)
(* defect y, as in WuartSession.                                           *)
(***************************************************************************)
EXTENDS Integers, Sequences

CONSTANTS
    Sessions,      \* the connections there may be, one to a handler of the server
    NoSession,
    RemotePath, RemoteBaud,  \* -urp and -urb
    MaxLocal       \* bound on the bytes the client's port receives

ASSUME ClientAssumption ==
    /\ NoSession \notin Sessions
    /\ MaxLocal \in Nat

VARIABLES
    stage,         \* "apart": between attempts; "handle": in handle()
    session,       \* what the socket object is connected to; NoSession before
    client_dev,    \* whether uart_dev holds a device
    local_arrived, \* how many bytes the client's port has received; byte n is the number n
    local_pending, \* those waiting in its driver
    to_server, to_client,    \* per connection, all packets ever sent on it
    client_read,   \* per connection, how many of to_client the client has handled
    client_wrote,  \* per connection, the data packets the client wrote to its port
    client_closing, server_closing  \* how that end was closed: "no", "fin" or "rst"

local == <<local_arrived, local_pending>>
process == <<stage, session, client_dev>>
clientVars == <<process, local, to_server, to_client, client_read, client_wrote,
                client_closing, server_closing>>

packet(key, val) == [key |-> key, val |-> val]

(* What handle() sends first. *)
Opening == <<packet("path", RemotePath), packet("baud", RemoteBaud), packet("start", <<>>)>>

ClientInit ==
    /\ stage = "apart"
    /\ session = NoSession
    /\ client_dev = FALSE
    /\ local_arrived = 0
    /\ local_pending = <<>>
    /\ to_server = [s \in Sessions |-> <<>>]
    /\ to_client = [s \in Sessions |-> <<>>]
    /\ client_read = [s \in Sessions |-> 0]
    /\ client_wrote = [s \in Sessions |-> <<>>]
    /\ client_closing = [s \in Sessions |-> "no"]
    /\ server_closing = [s \in Sessions |-> "no"]

-----------------------------------------------------------------------------
(* start_forever *)

(* uart_open, whose result is ignored: an open device is kept, and opening *)
(* one clears what waited for it.                                          *)
UartOpen ==
    /\ client_dev' \in {client_dev, TRUE}
    /\ local_pending' = IF client_dev' = client_dev THEN local_pending ELSE <<>>
    /\ UNCHANGED local_arrived

(* An attempt that gets a connection, and the first packets of handle().   *)
(* connect raises once the socket object has been connected, whatever has  *)
(* become of that connection since.                                        *)
Connect(s) ==
    /\ stage = "apart"
    /\ session = NoSession
    /\ UartOpen
    /\ stage' = "handle"
    /\ session' = s
    /\ to_server' = [to_server EXCEPT ![s] = Opening]
    /\ UNCHANGED <<to_client, client_read, client_wrote, client_closing, server_closing>>

(* An attempt whose connect raises. *)
AttemptFails ==
    /\ stage = "apart"
    /\ UartOpen
    /\ UNCHANGED <<stage, session, to_server, to_client, client_read, client_wrote,
                   client_closing, server_closing>>

(* handle() ends on an exception.  Neither the socket nor the device is    *)
(* closed.                                                                 *)
Leave ==
    /\ stage = "handle"
    /\ stage' = "apart"
    /\ UNCHANGED <<session, client_dev, local>>

(* The user stops the client and starts it again.  A socket closed with    *)
(* something unread in it resets the connection.                           *)
Closing == IF client_read[session] < Len(to_client[session]) THEN {"fin", "rst"} ELSE {"fin"}

Restart_stillHandling ==
    /\ session # NoSession
    /\ session' = NoSession
    /\ client_dev' = FALSE
    /\ local_pending' = <<>>
    /\ \E how \in Closing : client_closing' = [client_closing EXCEPT ![session] = how]
    /\ UNCHANGED <<stage, local_arrived, to_server, to_client, client_read, client_wrote, server_closing>>

Restart ==
    /\ session # NoSession
    /\ stage' = "apart"
    /\ session' = NoSession
    /\ client_dev' = FALSE
    /\ local_pending' = <<>>
    /\ \E how \in Closing : client_closing' = [client_closing EXCEPT ![session] = how]
    /\ UNCHANGED <<local_arrived, to_server, to_client, client_read, client_wrote, server_closing>>

-----------------------------------------------------------------------------
(* handle *)

(* A packet is read and given to handle_packet.  The server sends no other *)
(* keywords than these two.                                                *)
Reads(key) ==
    /\ stage = "handle"
    /\ client_read[session] < Len(to_client[session])
    /\ to_client[session][client_read[session] + 1].key = key
    /\ client_read' = [client_read EXCEPT ![session] = @ + 1]
    /\ UNCHANGED <<to_server, to_client, client_closing, server_closing>>

ClientHandleData ==
    /\ Reads("data")
    /\ client_dev
    /\ client_wrote' = [client_wrote EXCEPT ![session] =
                          Append(@, to_client[session][client_read[session] + 1].val)]
    /\ UNCHANGED <<process, local>>

ClientHandleDataRaises_staysIn ==
    /\ Reads("data")
    /\ UNCHANGED <<process, local, client_wrote>>

(* write throws, on None as on a failed device. *)
ClientHandleDataRaises ==
    /\ Reads("data")
    /\ Leave
    /\ UNCHANGED client_wrote

ClientHandleError ==
    /\ Reads("error")
    /\ UNCHANGED <<process, local, client_wrote>>

(* recv raises on a reset connection.  On one the server has closed it     *)
(* returns no bytes for ever, and handle() goes on.                        *)
RecvRaises ==
    /\ Leave
    /\ server_closing[session] = "rst"
    /\ UNCHANGED <<to_server, to_client, client_read, client_wrote, client_closing, server_closing>>

(* send_packet: what is sent after the server has closed its end is lost,  *)
(* and may bring a reset back.                                             *)
SendToServer(p) ==
    IF server_closing[session] = "no"
    THEN /\ to_server' = [to_server EXCEPT ![session] = Append(@, p)]
         /\ UNCHANGED server_closing
    ELSE /\ server_closing' \in {server_closing, [server_closing EXCEPT ![session] = "rst"]}
         /\ UNCHANGED to_server

(* The end of each turn of the loop. *)
ClientPoll ==
    /\ stage = "handle"
    /\ client_dev
    /\ local_pending # <<>>
    /\ local_pending' = <<>>
    /\ SendToServer(packet("data", local_pending))
    /\ UNCHANGED <<process, local_arrived, to_client, client_read, client_wrote, client_closing>>

(* in_waiting throws. *)
ClientPollRaises ==
    /\ Leave
    /\ client_dev
    /\ UNCHANGED <<to_server, to_client, client_read, client_wrote, client_closing, server_closing>>

(* The client's port receives a byte. *)
LocalReceives ==
    /\ local_arrived < MaxLocal
    /\ local_arrived' = local_arrived + 1
    /\ local_pending' = IF client_dev THEN Append(local_pending, local_arrived + 1) ELSE local_pending
    /\ UNCHANGED <<process, to_server, to_client, client_read, client_wrote,
                   client_closing, server_closing>>

(* What the client does by itself; Connect needs the server's consent. *)
ClientStep ==
    \/ AttemptFails \/ Restart
    \/ ClientHandleData \/ ClientHandleDataRaises \/ ClientHandleError
    \/ RecvRaises \/ ClientPoll \/ ClientPollRaises \/ LocalReceives
=============================================================================
