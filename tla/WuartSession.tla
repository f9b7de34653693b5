----------------------------- MODULE WuartSession -----------------------------
(***************************************************************************)
(* The sessions of the server: one WirelessUartClientHandler per accepted  *)
(* connection, each in a thread of its own, and the serial ports they      *)
(* share.  A session opens the port its client names, writes the client's  *)
(* data to it and forwards what the port receives.                         *)
(*                                                                         *)
(* The packets that arrive are the choice of the client (how they are cut  *)
(* out of the byte stream is the subject of WuartReceiver).  A handler is  *)
(* one step although other threads run meanwhile: the only shared state is *)
(* the ports, and a port that another session takes between uart_close and *)
(* serial.Serial is one of the reasons for which an open may fail.         *)
(***************************************************************************)
EXTENDS Integers, Sequences, FiniteSets

CONSTANTS
    Sessions,      \* the handler objects
    Ports,         \* names of serial ports
    Bauds,         \* the baud rates clients ask for, positive
    NoPath,        \* the empty path
    NoDev,         \* Python's None in uart_dev
    ExclusiveOpen, \* a port is opened by one session at a time (Windows)
    CloseMayFail,  \* serial.Serial.close may throw
    MaxRequests,   \* bound on the packets a session handles
    MaxRx          \* bound on the bytes a port receives

ASSUME SessionAssumption ==
    /\ Bauds \subseteq Nat \ {0}
    /\ NoPath \notin Ports
    /\ ExclusiveOpen \in BOOLEAN
    /\ CloseMayFail \in BOOLEAN
    /\ MaxRequests \in Nat
    /\ MaxRx \in Nat

(* An open port; opening tells one serial.Serial object from the next. *)
Device == [path : Ports, baud : Bauds, opening : Nat]
ASSUME NoDevAssumption == NoDev \notin Device

VARIABLES
    life,          \* "free", "up", "fin" (the client closed its end), "gone" (handle left)
    uart_path, uart_baud, uart_dev, is_running,
    requests,      \* packets handled so far
    errors,        \* error packets sent so far
    forwarded,     \* the UART bytes sent to the client, each with its opening
    arrived,       \* how many bytes each port has received; byte n is the number n
    pending        \* the bytes waiting in the driver of each open port

vars == <<life, uart_path, uart_baud, uart_dev, is_running, requests, errors,
          forwarded, arrived, pending>>

ports == <<arrived, pending>>

Init ==
    /\ life = [s \in Sessions |-> "free"]
    /\ uart_path = [s \in Sessions |-> NoPath]
    /\ uart_baud = [s \in Sessions |-> 0]
    /\ uart_dev = [s \in Sessions |-> NoDev]
    /\ is_running = [s \in Sessions |-> FALSE]
    /\ requests = [s \in Sessions |-> 0]
    /\ errors = [s \in Sessions |-> 0]
    /\ forwarded = [s \in Sessions |-> <<>>]
    /\ arrived = [p \in Ports |-> 0]
    /\ pending = [p \in Ports |-> <<>>]

Holds(devs, s, p) == devs[s] # NoDev /\ devs[s].path = p

(* What waits in the drivers once the sessions hold devs: opening a port   *)
(* clears it, and nothing is kept for a port that nobody holds.            *)
Waiting(devs, opened) ==
    [p \in Ports |-> IF p \in opened \/ ~\E s \in Sessions : Holds(devs, s, p)
                     THEN <<>> ELSE pending[p]]

-----------------------------------------------------------------------------
(* Definitions named X_y are X with the defect y: what the code would be   *)
(* if it were wrong there.  They show that the properties notice it, and   *)
(* no specification uses them.                                             *)
Same_pathOnly(dev, path, baud) == dev # NoDev /\ dev.path = path
Same_never(dev, path, baud) == FALSE

(* The outcomes of uart_open: the device afterwards and whether it returns *)
(* True.  serial.Serial may always fail (no such port, no permission, in   *)
(* use); the old device is then already closed.                            *)
Same(dev, path, baud) == dev # NoDev /\ dev.path = path /\ dev.baud = baud

MayOpen(s, path) ==
    ExclusiveOpen => \A t \in Sessions \ {s} : ~Holds(uart_dev, t, path)

AfterClose(s) == IF CloseMayFail THEN {NoDev, uart_dev[s]} ELSE {NoDev}

Fresh(s, path, baud) == [path |-> path, baud |-> baud, opening |-> requests[s] + 1]

uart_open(s, path, baud) ==
    IF path = NoPath \/ baud <= 0 THEN {[dev |-> uart_dev[s], ok |-> FALSE]}
    ELSE IF Same(uart_dev[s], path, baud) THEN {[dev |-> uart_dev[s], ok |-> TRUE]}
    ELSE [dev : AfterClose(s), ok : {FALSE}]
           \union (IF MayOpen(s, path) THEN {[dev |-> Fresh(s, path, baud), ok |-> TRUE]}
                                       ELSE {})

(* handle_packet(Packet('start')) with errs errors sent before it. *)
Start(s, path, baud, errs) ==
    \E o \in uart_open(s, path, baud) :
        /\ uart_dev' = [uart_dev EXCEPT ![s] = o.dev]
        /\ is_running' = [is_running EXCEPT ![s] = @ \/ o.ok]
        /\ errors' = [errors EXCEPT ![s] = @ + errs + (IF o.ok THEN 0 ELSE 1)]
        /\ pending' = Waiting(uart_dev', IF o.dev \in {NoDev, uart_dev[s]} THEN {} ELSE {path})

(* ... which 'path' and 'baud' call only when both are set. *)
StartIfReady(s, path, baud, errs) ==
    IF path # NoPath /\ baud > 0 THEN Start(s, path, baud, errs)
    ELSE /\ errors' = [errors EXCEPT ![s] = @ + errs]
         /\ UNCHANGED <<uart_dev, is_running, pending>>

-----------------------------------------------------------------------------
(* A connection is accepted: __init__ of the handler. *)
Accept(s) ==
    /\ life[s] = "free"
    /\ life' = [life EXCEPT ![s] = "up"]
    /\ UNCHANGED <<uart_path, uart_baud, uart_dev, is_running, requests, errors, forwarded, ports>>

(* The client closes its end.  From then on recv returns nothing, which    *)
(* handle() takes for a recv of white space: it goes on polling, and what  *)
(* it sends is lost.                                                       *)
ClientCloses(s) ==
    /\ life[s] = "up"
    /\ life' = [life EXCEPT ![s] = "fin"]
    /\ UNCHANGED <<uart_path, uart_baud, uart_dev, is_running, requests, errors, forwarded, ports>>

(* handle() leaves its loop on an exception: the handler object is dropped *)
(* and its serial port closed with it.                                     *)
Exit(s) ==
    /\ life' = [life EXCEPT ![s] = "gone"]
    /\ uart_dev' = [uart_dev EXCEPT ![s] = NoDev]
    /\ pending' = Waiting(uart_dev', {})
    /\ UNCHANGED <<uart_path, uart_baud, is_running, errors, forwarded, arrived>>

(* The connection is reset: recv throws.  What is sent to a client that    *)
(* has closed its end may bring this about; the failing send itself is     *)
(* caught by send_packet.                                                  *)
ClientResets(s) ==
    /\ life[s] \in {"up", "fin"}
    /\ Exit(s)
    /\ UNCHANGED requests

(* A packet is handed to handle_packet. *)
Request(s) ==
    /\ life[s] = "up"
    /\ requests[s] < MaxRequests
    /\ requests' = [requests EXCEPT ![s] = @ + 1]

Stays == UNCHANGED <<life, forwarded, arrived>>

HandlePath(s) ==
    /\ Request(s)
    /\ \E path \in Ports \union {NoPath} :
           /\ uart_path' = [uart_path EXCEPT ![s] = path]
           /\ StartIfReady(s, path, uart_baud[s], 0)
    /\ UNCHANGED uart_baud
    /\ Stays

HandleBaud(s) ==
    /\ Request(s)
    /\ \E baud \in Bauds \union {0} :
           /\ uart_baud' = [uart_baud EXCEPT ![s] = baud]
           /\ StartIfReady(s, uart_path[s], baud, 0)
    /\ UNCHANGED uart_path
    /\ Stays

HandleInvalidBaud_keepsText(s) ==
    /\ Request(s)
    /\ uart_baud' = [uart_baud EXCEPT ![s] = NoPath]
    /\ StartIfReady(s, uart_path[s], uart_baud[s], 1)
    /\ UNCHANGED uart_path
    /\ Stays

(* A baud rate int() rejects: an error is sent, and the service is started *)
(* with the old one all the same.                                          *)
HandleInvalidBaud(s) ==
    /\ Request(s)
    /\ StartIfReady(s, uart_path[s], uart_baud[s], 1)
    /\ UNCHANGED <<uart_path, uart_baud>>
    /\ Stays

HandleStart(s) ==
    /\ Request(s)
    /\ Start(s, uart_path[s], uart_baud[s], 0)
    /\ UNCHANGED <<uart_path, uart_baud>>
    /\ Stays

HandleStop_keepsDevice(s) ==
    /\ Request(s)
    /\ is_running' = [is_running EXCEPT ![s] = FALSE]
    /\ UNCHANGED <<uart_path, uart_baud, uart_dev, errors, pending>>
    /\ Stays

HandleStop(s) ==
    /\ Request(s)
    /\ \E dev \in AfterClose(s) :
           /\ uart_dev' = [uart_dev EXCEPT ![s] = dev]
           /\ pending' = Waiting(uart_dev', {})
    /\ is_running' = [is_running EXCEPT ![s] = FALSE]
    /\ UNCHANGED <<uart_path, uart_baud, errors>>
    /\ Stays

(* 'data' while the service is not running, and unknown keywords. *)
Refuse(s) ==
    /\ Request(s)
    /\ errors' = [errors EXCEPT ![s] = @ + 1]
    /\ UNCHANGED <<uart_path, uart_baud, uart_dev, is_running, pending>>
    /\ Stays

HandleDataRefused(s) == ~is_running[s] /\ Refuse(s)
HandleUnknown(s) == Refuse(s)

(* 'data' written to the device ... *)
HandleDataWritten(s) ==
    /\ Request(s)
    /\ is_running[s]
    /\ uart_dev[s] # NoDev
    /\ UNCHANGED <<uart_path, uart_baud, uart_dev, is_running, errors, pending>>
    /\ Stays

HandleDataRaises_caught(s) ==
    /\ Request(s)
    /\ is_running[s]
    /\ UNCHANGED <<uart_path, uart_baud, uart_dev, is_running, errors, pending>>
    /\ Stays

(* ... or write throws, as it does on a failed device and on None. *)
HandleDataRaises(s) ==
    /\ Request(s)
    /\ is_running[s]
    /\ Exit(s)

HandleData(s) == HandleDataRefused(s) \/ HandleDataWritten(s) \/ HandleDataRaises(s)

(* 'error' is logged, and not answered. *)
HandleError(s) ==
    /\ Request(s)
    /\ UNCHANGED <<uart_path, uart_baud, uart_dev, is_running, errors, pending>>
    /\ Stays

(* 'path' or 'error' with a value that is not UTF-8: decode throws. *)
HandleUndecodable(s) ==
    /\ Request(s)
    /\ Exit(s)

HandlePacket(s) ==
    \/ HandlePath(s) \/ HandleBaud(s) \/ HandleInvalidBaud(s)
    \/ HandleStart(s) \/ HandleStop(s) \/ HandleData(s)
    \/ HandleError(s) \/ HandleUndecodable(s) \/ HandleUnknown(s)

-----------------------------------------------------------------------------
(* A port receives a byte; the driver keeps it if somebody has it open. *)
UartReceives(p) ==
    /\ arrived[p] < MaxRx
    /\ arrived' = [arrived EXCEPT ![p] = @ + 1]
    /\ pending' = IF \E s \in Sessions : Holds(uart_dev, s, p)
                  THEN [pending EXCEPT ![p] = Append(@, arrived[p] + 1)] ELSE pending
    /\ UNCHANGED <<life, uart_path, uart_baud, uart_dev, is_running, requests, errors, forwarded>>

Tagged(s, bytes) ==
    [k \in DOMAIN bytes |-> [opening |-> uart_dev[s].opening, byte |-> bytes[k]]]

PollUart_firstByte(s) ==
    /\ life[s] \in {"up", "fin"}
    /\ uart_dev[s] # NoDev
    /\ pending[uart_dev[s].path] # <<>>
    /\ pending' = [pending EXCEPT ![uart_dev[s].path] = <<>>]
    /\ forwarded' = [forwarded EXCEPT ![s] =
                       @ \o Tagged(s, <<Head(pending[uart_dev[s].path])>>)]
    /\ UNCHANGED <<life, uart_path, uart_baud, uart_dev, is_running, requests, errors, arrived>>

PollUart_onlyRunning(s) ==
    /\ life[s] = "up"
    /\ is_running[s]
    /\ uart_dev[s] # NoDev
    /\ pending[uart_dev[s].path] # <<>>
    /\ pending' = [pending EXCEPT ![uart_dev[s].path] = <<>>]
    /\ forwarded' = [forwarded EXCEPT ![s] = @ \o Tagged(s, pending[uart_dev[s].path])]
    /\ UNCHANGED <<life, uart_path, uart_baud, uart_dev, is_running, requests, errors, arrived>>

(* The end of each turn of handle(): all that waits is read, and forwarded *)
(* if the service is running.                                              *)
PollUart(s) ==
    /\ life[s] \in {"up", "fin"}
    /\ uart_dev[s] # NoDev
    /\ pending[uart_dev[s].path] # <<>>
    /\ pending' = [pending EXCEPT ![uart_dev[s].path] = <<>>]
    /\ forwarded' =
         IF is_running[s] /\ life[s] = "up"
         THEN [forwarded EXCEPT ![s] = @ \o Tagged(s, pending[uart_dev[s].path])]
         ELSE forwarded
    /\ UNCHANGED <<life, uart_path, uart_baud, uart_dev, is_running, requests, errors, arrived>>

(* The device fails: in_waiting throws. *)
PollRaises(s) ==
    /\ life[s] \in {"up", "fin"}
    /\ uart_dev[s] # NoDev
    /\ Exit(s)
    /\ UNCHANGED requests

Next ==
    \/ \E s \in Sessions :
           \/ Accept(s) \/ ClientCloses(s) \/ ClientResets(s)
           \/ HandlePacket(s)
           \/ PollUart(s) \/ PollRaises(s)
    \/ \E p \in Ports : UartReceives(p)

Spec == Init /\ [][Next]_vars

(* Each session is a thread that looks at its device in every turn of its  *)
(* loop, at the latest recv_timeout seconds after the last time.           *)
FairSpec == Spec /\ \A s \in Sessions : WF_vars(PollUart(s))

-----------------------------------------------------------------------------
TypeOK ==
    /\ life \in [Sessions -> {"free", "up", "fin", "gone"}]
    /\ uart_path \in [Sessions -> Ports \union {NoPath}]
    /\ uart_baud \in [Sessions -> Bauds \union {0}]
    /\ uart_dev \in [Sessions -> Device \union {NoDev}]
    /\ is_running \in [Sessions -> BOOLEAN]
    /\ requests \in [Sessions -> Nat]
    /\ errors \in [Sessions -> Nat]
    /\ forwarded \in [Sessions -> Seq([opening : Nat, byte : Nat])]
    /\ arrived \in [Ports -> Nat]
    /\ pending \in [Ports -> Seq(Nat)]

(* A session that holds a device while its path and baud rate are set      *)
(* holds the device they name: no order of path, baud, start, stop and of  *)
(* failing opens leaves it serving another one.                            *)
DeviceMatchesConfig ==
    \A s \in Sessions :
        uart_dev[s] # NoDev /\ uart_path[s] # NoPath /\ uart_baud[s] > 0
            => uart_dev[s].path = uart_path[s] /\ uart_dev[s].baud = uart_baud[s]

(* A connected session that keeps its device loses none of its bytes: what *)
(* it has sent to its client, followed by what waits in the driver, grows  *)
(* by exactly what the port receives.  Nothing is thrown away by a session *)
(* that holds a port without serving it, taken by another session, sent    *)
(* twice or out of order.  What still waits when the device is closed (by  *)
(* stop, by new settings or because handle() is left) is lost with it, and *)
(* so is what the port receives after the client has closed its end.       *)
KeepsServing(s) ==
    /\ life[s] = "up" /\ life'[s] = "up"
    /\ uart_dev[s] # NoDev /\ uart_dev'[s] = uart_dev[s]

Sent(s) == [k \in DOMAIN forwarded[s] |-> forwarded[s][k].byte]
Arriving(p) == [k \in 1..(arrived'[p] - arrived[p]) |-> arrived[p] + k]

NoByteLost ==
    [][\A s \in Sessions : KeepsServing(s) =>
         LET p == uart_dev[s].path
         IN  Sent(s)' \o pending'[p] = (Sent(s) \o pending[p]) \o Arriving(p)]_vars

(* A device is closed and opened again only to get another path or rate:   *)
(* the path, baud and start of a client that repeats its settings do not   *)
(* disturb what is running.                                                *)
ReopenedOnlyForChange ==
    [][\A s \in Sessions :
         uart_dev[s] # NoDev /\ uart_dev'[s] # NoDev
             /\ uart_dev'[s].opening # uart_dev[s].opening
           => \/ uart_dev'[s].path # uart_dev[s].path
              \/ uart_dev'[s].baud # uart_dev[s].baud]_vars

(* What a port has received does not wait in its driver for ever, whether  *)
(* or not the session that holds it is running.                            *)
UartDrained == \A p \in Ports : pending[p] # <<>> ~> pending[p] = <<>>

(* A data packet for a session without a device is answered by an error. *)
DataAnswered ==
    [][\A s \in Sessions :
         HandleData(s) /\ uart_dev[s] = NoDev => errors'[s] = errors[s] + 1]_vars
=============================================================================
