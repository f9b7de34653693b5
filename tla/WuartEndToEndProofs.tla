-------------------------- MODULE WuartEndToEndProofs --------------------------
(***************************************************************************)
(* What holds of the two programs together.  Every step of the link is a   *)
(* step of the server or leaves the server alone (ServerImplemented), so   *)
(* that all that is proved of WuartSession for clients that send anything  *)
(* holds of the server this client talks to.  From that and from the two   *)
(* directions of the link follow its type correctness (LinkTypeCorrect)    *)
(* and that what is written to the port at one end of a connection is a    *)
(* run of consecutive bytes of the port at the other (EndToEndCorrect).    *)
(***************************************************************************)
EXTENDS WuartLinkProofs, SequenceInduction

Sess == INSTANCE WuartSessionProofs

-----------------------------------------------------------------------------
(* The server that WuartLink is made of is the one the theorems of         *)
(* WuartSessionProofs are about.                                           *)
LEMMA SameWaiting ==
    \A devs, opened : Server!Waiting(devs, opened) = Sess!Waiting(devs, opened)
  BY Zenon DEF Server!Waiting, Sess!Waiting, Server!Holds, Sess!Holds

LEMMA SameOpen ==
    \A s, path, baud : Server!uart_open(s, path, baud) = Sess!uart_open(s, path, baud)
  BY Zenon DEF Server!uart_open, Sess!uart_open, Server!Same, Sess!Same,
               Server!AfterClose, Sess!AfterClose, Server!MayOpen, Sess!MayOpen,
               Server!Holds, Sess!Holds, Server!Fresh, Sess!Fresh

LEMMA SameStart ==
    ASSUME NEW s, NEW path, NEW baud, NEW errs
    PROVE  /\ Server!Start(s, path, baud, errs) = Sess!Start(s, path, baud, errs)
           /\ Server!StartIfReady(s, path, baud, errs) = Sess!StartIfReady(s, path, baud, errs)
  <1>1. Server!Start(s, path, baud, errs) = Sess!Start(s, path, baud, errs)
    BY SameWaiting, SameOpen, Zenon DEF Server!Start, Sess!Start
  <1>. QED  BY <1>1, Zenon DEF Server!StartIfReady, Sess!StartIfReady

LEMMA SameExit ==
    ASSUME NEW s
    PROVE  Server!Exit(s) = Sess!Exit(s)
  BY SameWaiting, Zenon DEF Server!Exit, Sess!Exit

LEMMA DispatchIsHandle ==
    ASSUME NEW s, NEW p, Dispatch(s, p)
    PROVE  Sess!HandlePacket(s)
  <1>0. /\ Server!Request(s) = Sess!Request(s)
        /\ Server!Stays = Sess!Stays
    BY DEF Server!Request, Sess!Request, Server!Stays, Sess!Stays
  <1>1. Server!HandlePath(s) => Sess!HandlePath(s)
    <2>1. ASSUME NEW path, Server!StartIfReady(s, path, uart_baud[s], 0)
          PROVE  Sess!StartIfReady(s, path, uart_baud[s], 0)
      BY <2>1, SameStart, Zenon
    <2>. QED  BY <1>0, <2>1, Zenon DEF Server!HandlePath, Sess!HandlePath
  <1>2. Server!HandleBaud(s) => Sess!HandleBaud(s)
    <2>1. ASSUME NEW baud, Server!StartIfReady(s, uart_path[s], baud, 0)
          PROVE  Sess!StartIfReady(s, uart_path[s], baud, 0)
      BY <2>1, SameStart, Zenon
    <2>. QED  BY <1>0, <2>1, Zenon DEF Server!HandleBaud, Sess!HandleBaud
  <1>3. Server!HandleStart(s) => Sess!HandleStart(s)
    <2>1. Server!Start(s, uart_path[s], uart_baud[s], 0) => Sess!Start(s, uart_path[s], uart_baud[s], 0)
      BY SameStart, Zenon
    <2>. QED  BY <1>0, <2>1, Zenon DEF Server!HandleStart, Sess!HandleStart
  <1>4. Server!HandleDataRefused(s) => Sess!HandleData(s)
    BY Zenon DEF Server!HandleDataRefused, Sess!HandleData, Sess!HandleDataRefused,
                 Server!Refuse, Sess!Refuse, Server!Request, Sess!Request,
                 Server!Stays, Sess!Stays
  <1>5. Server!HandleDataRaises(s) => Sess!HandleData(s)
    BY SameExit, Zenon DEF Server!HandleDataRaises, Sess!HandleData, Sess!HandleDataRaises,
                           Server!Request, Sess!Request
  <1>6. Server!HandleDataWritten(s) => Sess!HandleData(s)
    BY Zenon DEF Server!HandleDataWritten, Sess!HandleData, Sess!HandleDataWritten,
                 Server!Request, Sess!Request, Server!Stays, Sess!Stays
  <1>. QED  BY <1>1, <1>2, <1>3, <1>4, <1>5, <1>6, Zenon DEF Dispatch, Sess!HandlePacket

LEMMA SameOthers ==
    ASSUME NEW s
    PROVE  /\ Server!Accept(s) => Sess!Accept(s)
           /\ Server!ClientCloses(s) => Sess!ClientCloses(s)
           /\ Server!ClientResets(s) => Sess!ClientResets(s)
           /\ Server!PollUart(s) => Sess!PollUart(s)
           /\ Server!PollRaises(s) => Sess!PollRaises(s)
  <1>1. Server!Accept(s) => Sess!Accept(s)
    BY Zenon DEF Server!Accept, Sess!Accept, Server!ports, Sess!ports
  <1>2. Server!ClientCloses(s) => Sess!ClientCloses(s)
    BY Zenon DEF Server!ClientCloses, Sess!ClientCloses, Server!ports, Sess!ports
  <1>3. Server!ClientResets(s) => Sess!ClientResets(s)
    BY SameExit, Zenon DEF Server!ClientResets, Sess!ClientResets
  <1>4. Server!PollUart(s) => Sess!PollUart(s)
    BY Zenon DEF Server!PollUart, Sess!PollUart, Server!Tagged, Sess!Tagged
  <1>5. Server!PollRaises(s) => Sess!PollRaises(s)
    BY SameExit, Zenon DEF Server!PollRaises, Sess!PollRaises
  <1>. QED  BY <1>1, <1>2, <1>3, <1>4, <1>5, Zenon

LEMMA ServerInit == Init => Sess!Init
  BY DEF Init, Server!Init, Sess!Init

LEMMA ServerStep == [Next]_vars => [Sess!Next]_(Sess!vars)
  <1>. SUFFICES ASSUME [Next]_vars PROVE [Sess!Next]_(Sess!vars)
    OBVIOUS
  <1>1. CASE UNCHANGED serverVars
    BY <1>1, Zenon DEF serverVars, Sess!vars
  <1>2. CASE UNCHANGED vars
    <2>1. UNCHANGED serverVars
      BY <1>2 DEF vars
    <2>. QED  BY <1>1, <2>1
  <1>3. ASSUME NEW s \in Sessions,
               \/ Connected(s)
               \/ ServerHandles(s) \/ ServerPolls(s) \/ ServerPollRaises(s)
               \/ SeesEnd(s) \/ SeesReset(s)
        PROVE  Sess!Next
    <2>1. \/ Sess!Accept(s) \/ Sess!ClientCloses(s) \/ Sess!ClientResets(s)
          \/ Sess!HandlePacket(s)
          \/ Sess!PollUart(s) \/ Sess!PollRaises(s)
      BY <1>3, SameOthers, DispatchIsHandle, Zenon
      DEF Connected, ServerHandles, ServerPolls, ServerPollRaises, SeesEnd, SeesReset
    <2>. QED  BY <2>1, Zenon DEF Sess!Next
  <1>4. ASSUME NEW p \in Ports, Server!UartReceives(p)
        PROVE  Sess!Next
    <2>1. Sess!UartReceives(p)
      BY <1>4, Zenon DEF Server!UartReceives, Sess!UartReceives, Server!Holds, Sess!Holds
    <2>. QED  BY <2>1, Zenon DEF Sess!Next
  <1>. QED  BY <1>1, <1>2, <1>3, <1>4, Zenon DEF Next

(* The server of the link is a server of WuartSession: whatever it is      *)
(* proved never to do with any clients, it does not do with this one.      *)
THEOREM ServerImplemented == Spec => Sess!Spec
  BY ServerInit, ServerStep, PTL DEF Spec, Sess!Spec

LEMMA ServerAssumption ==
    /\ /\ Bauds \subseteq Nat \ {0}
       /\ NoPath \notin Ports
       /\ ExclusiveOpen \in BOOLEAN
       /\ CloseMayFail \in BOOLEAN
       /\ MaxRequests \in Nat
       /\ MaxRx \in Nat
    /\ NoDev \notin Sess!Device
  BY LinkAssumption DEF Server!Device, Sess!Device

LEMMA ServerTyped == Spec => []Sess!TypeOK
  <1>1. Sess!Spec => []Sess!TypeOK
    BY Sess!TypeCorrect, ServerAssumption, Zenon
  <1>. QED  BY <1>1, ServerImplemented, PTL

LEMMA ServerFacts ==
    ASSUME ExclusiveOpen, ~CloseMayFail
    PROVE  Spec => [](Sess!TypeOK /\ Sess!DeviceMatchesConfig /\ Sess!HeldIsServed /\ Sess!GInv)
  <1>1. Sess!Spec => []Sess!DeviceMatchesConfig
    BY Sess!DeviceCorrect, ServerAssumption, Zenon
  <1>2. Sess!Spec => []Sess!HeldIsServed
    BY Sess!HeldServed, ServerAssumption, Zenon
  <1>3. Sess!Spec => []Sess!GInv
    BY Sess!PortsShared, ServerAssumption, Zenon
  <1>. QED  BY <1>1, <1>2, <1>3, ServerTyped, ServerImplemented, PTL

-----------------------------------------------------------------------------
(* Type correctness of the link, from the invariants of its two directions *)
(* and what they do not speak of.                                          *)
Ends ==
    /\ stage \in {"apart", "handle"}
    /\ session \in Sessions \union {NoSession}
    /\ client_dev \in BOOLEAN
    /\ server_closing \in [Sessions -> {"no", "fin", "rst"}]

ReadSent(s) == server_read[s] <= Len(to_server[s])

EInv == DInv /\ Ends /\ \A s \in Sessions : ReadSent(s)

LEMMA EndsInit ==
    ASSUME Init
    PROVE  Ends /\ \A s \in Sessions : ReadSent(s)
  <1>1. Ends
    BY DEF Init, ClientInit, Ends
  <1>2. ASSUME NEW s \in Sessions PROVE ReadSent(s)
    <2>1. server_read[s] = 0 /\ to_server[s] = <<>>
      BY DEF Init, ClientInit
    <2>2. Len(<<>>) = 0
      OBVIOUS
    <2>. QED  BY <2>1, <2>2 DEF ReadSent
  <1>. QED  BY <1>1, <1>2

LEMMA EndsClient ==
    ASSUME Ends, LInv, ClientStep
    PROVE  Ends'
  <1>1. CASE AttemptFails \/ Restart \/ LocalReceives
    BY <1>1 DEF AttemptFails, Restart, LocalReceives, UartOpen, Ends, process
  <1>2. CASE ClientHandleData \/ ClientHandleDataRaises \/ ClientHandleError
    BY <1>2 DEF ClientHandleData, ClientHandleDataRaises, ClientHandleError, Reads, Leave, Ends, process
  <1>3. CASE RecvRaises \/ ClientPollRaises
    BY <1>3 DEF RecvRaises, ClientPollRaises, Leave, Ends
  <1>4. CASE ClientPoll
    <2>1. /\ UNCHANGED process
          /\ \/ UNCHANGED server_closing
             \/ server_closing' = [server_closing EXCEPT ![session] = "rst"]
      BY <1>4 DEF ClientPoll, SendToServer
    <2>. QED  BY <2>1 DEF Ends, process
  <1>. QED  BY <1>1, <1>2, <1>3, <1>4 DEF ClientStep

LEMMA EndsServer ==
    ASSUME Ends, NEW s \in Sessions,
           \/ Connected(s)
           \/ ServerHandles(s) \/ ServerPolls(s) \/ ServerPollRaises(s)
           \/ SeesEnd(s) \/ SeesReset(s)
    PROVE  Ends'
  <1>1. CASE Connected(s)
    BY <1>1 DEF Connected, Connect, UartOpen, Ends
  <1>2. CASE ~Connected(s)
    <2>1. UNCHANGED process
      BY <1>2 DEF ServerHandles, ServerPolls, ServerPollRaises, SeesEnd, SeesReset, Quietly
    <2>2. UNCHANGED server_closing \/ Closes(s)
      BY <1>2 DEF ServerHandles, ServerPolls, ServerPollRaises, SeesEnd, SeesReset, Quietly
    <2>3. \/ UNCHANGED server_closing
          \/ \E how \in {"fin", "rst"} : server_closing' = [server_closing EXCEPT ![s] = how]
      BY <2>2 DEF Closes
    <2>. QED  BY <2>1, <2>3 DEF Ends, process
  <1>. QED  BY <1>1, <1>2

LEMMA EndsStep ==
    ASSUME Ends, LInv, [Next]_vars
    PROVE  Ends'
  <1>1. CASE UNCHANGED clientVars
    BY <1>1 DEF clientVars, process, Ends
  <1>2. CASE UNCHANGED vars
    BY <1>1, <1>2 DEF vars
  <1>. QED  BY <1>1, <1>2, EndsClient, EndsServer, Zenon DEF Next

(* What a session has read has been sent. *)
LEMMA ReadStep ==
    ASSUME LInv, LInv', [Next]_vars, NEW t \in Sessions, ReadSent(t)
    PROVE  ReadSent(t)'
  <1>1. /\ to_server \in [Sessions -> Seq(ToServer)] /\ to_server' \in [Sessions -> Seq(ToServer)]
        /\ server_read \in [Sessions -> Nat]
        /\ Len(to_server[t]) \in Nat /\ server_read[t] \in Nat
    <2>1. /\ to_server \in [Sessions -> Seq(ToServer)] /\ to_server' \in [Sessions -> Seq(ToServer)]
          /\ server_read \in [Sessions -> Nat]
      BY DEF LInv, LinkType
    <2>2. to_server[t] \in Seq(ToServer) /\ server_read[t] \in Nat
      BY <2>1
    <2>. QED  BY <2>1, <2>2, LenProperties
  <1>2. ASSUME UNCHANGED server_read, to_server'[t] = to_server[t]
        PROVE  ReadSent(t)'
    BY <1>2 DEF ReadSent
  <1>3. ASSUME NEW s \in Sessions, Connected(s)
        PROVE  ReadSent(t)'
    <2>1. /\ life[s] = "free" /\ UNCHANGED server_read
          /\ to_server' = [to_server EXCEPT ![s] = Opening]
      BY <1>3 DEF Connected, Connect, Server!Accept
    <2>2. CASE s = t
      <3>1. server_read'[t] = 0 /\ to_server'[t] = Opening
        BY <1>1, <2>1, <2>2 DEF LInv, Carried, NotYet
      <3>. QED  BY <3>1, OpeningLength DEF ReadSent
    <2>3. CASE s # t
      BY <1>1, <1>2, <2>1, <2>3
    <2>. QED  BY <2>2, <2>3
  <1>4. ASSUME NEW s \in Sessions, ServerHandles(s)
        PROVE  ReadSent(t)'
    <2>1. /\ server_read[s] < Len(to_server[s])
          /\ server_read' = [server_read EXCEPT ![s] = @ + 1]
          /\ UNCHANGED to_server
      BY <1>4 DEF ServerHandles
    <2>2. CASE s = t
      BY <1>1, <2>1, <2>2 DEF ReadSent
    <2>3. CASE s # t
      BY <1>1, <2>1, <2>3 DEF ReadSent
    <2>. QED  BY <2>2, <2>3
  <1>5. ASSUME NEW s \in Sessions,
               ServerPolls(s) \/ ServerPollRaises(s) \/ SeesEnd(s) \/ SeesReset(s)
        PROVE  ReadSent(t)'
    BY <1>2, <1>5 DEF ServerPolls, ServerPollRaises, SeesEnd, SeesReset, Quietly
  <1>6. CASE ClientStep /\ UNCHANGED server_read
    <2>1. CASE UNCHANGED to_server
      BY <1>2, <1>6, <2>1
    <2>2. CASE ~UNCHANGED to_server
      <3>1. ClientPoll
        BY <1>6, <2>2 DEF ClientStep, AttemptFails, Restart, ClientHandleData,
             ClientHandleDataRaises, ClientHandleError, Reads, RecvRaises,
             ClientPollRaises, LocalReceives
      <3>2. PICK p : to_server' = [to_server EXCEPT ![session] = Append(@, p)]
        BY <2>2, <3>1 DEF ClientPoll, SendToServer
      <3>3. to_server'[t] = to_server[t] \/ to_server'[t] = Append(to_server[t], p)
        BY <1>1, <3>2
      <3>4. Len(to_server'[t]) >= Len(to_server[t])
        <4>. DEFINE q == to_server[t]
        <4>1. q \in Seq(ToServer)
          BY <1>1
        <4>2. to_server'[t] = q \/ to_server'[t] = Append(q, p)
          BY <3>3
        <4>. HIDE DEF q
        <4>3. Len(Append(q, p)) = Len(q) + 1 /\ Len(q) \in Nat
          BY <4>1
        <4>. QED  BY <4>2, <4>3 DEF q
      <3>5. to_server'[t] \in Seq(ToServer)
        BY <1>1
      <3>6. Len(to_server'[t]) \in Nat
        BY <3>5, LenProperties
      <3>. QED  BY <1>1, <1>6, <3>4, <3>6 DEF ReadSent
    <2>. QED  BY <2>1, <2>2
  <1>7. ASSUME NEW p \in Ports, UNCHANGED <<clientVars, server_read, server_wrote>>
        PROVE  ReadSent(t)'
    BY <1>2, <1>7 DEF clientVars
  <1>8. CASE UNCHANGED vars
    BY <1>2, <1>8 DEF vars, clientVars
  <1>. QED  BY <1>3, <1>4, <1>5, <1>6, <1>7, <1>8, Zenon DEF Next

LEMMA EndsHold == Spec => []EInv
  <1>1. Init => EInv
    BY DownInit, EndsInit DEF EInv
  <1>2. EInv /\ [Next]_vars => EInv'
    <2>. SUFFICES ASSUME EInv, [Next]_vars PROVE EInv'
      OBVIOUS
    <2>1. DInv'
      BY DownNext DEF EInv
    <2>2. LInv /\ LInv'
      BY <2>1 DEF EInv, DInv
    <2>3. Ends'
      BY <2>2, EndsStep DEF EInv
    <2>4. \A t \in Sessions : ReadSent(t)'
      BY <2>2, ReadStep DEF EInv
    <2>. QED  BY <2>1, <2>3, <2>4 DEF EInv
  <1>. QED  BY <1>1, <1>2, PTL DEF Spec

LEMMA RunType ==
    ASSUME NEW n \in Nat
    PROVE  Runs(n) \subseteq Seq(Nat)
  <1>. SUFFICES ASSUME NEW first \in 0..n, NEW l \in 1..n
                PROVE  [k \in 1..l |-> first + k] \in Seq(Nat)
    BY DEF Runs
  <1>. QED  OBVIOUS

(* Type correctness, for any number of connections and ports. *)
THEOREM LinkTypeCorrect == Spec => []TypeOK
  <1>1. EInv => TypeOK
    <2>. SUFFICES ASSUME EInv PROVE TypeOK
      OBVIOUS
    <2>1. LinkType /\ LocalLatest /\ StreamType /\ Ends
      BY DEF EInv, DInv, LInv, DownInv
    <2>2. stage = "handle" => session # NoSession
      BY <2>1, ClientAssumption DEF LinkType
    <2>3. local_pending \in Seq(1..local_arrived)
      <3>. DEFINE n == Len(local_pending)
      <3>1. n \in Nat /\ local_arrived \in Nat /\ n <= local_arrived
            /\ local_pending \in Seq(Nat)
            /\ \A k \in 1..n : local_pending[k] = local_arrived - n + k
        BY <2>1 DEF LocalLatest
      <3>. HIDE DEF n
      <3>2. \A k \in 1..n : local_pending[k] \in 1..local_arrived
        BY <3>1
      <3>. QED  BY <3>1, <3>2 DEF n
    <2>4. ASSUME NEW s \in Sessions
          PROVE  /\ client_read[s] \in 0..Len(to_client[s])
                 /\ server_read[s] \in 0..Len(to_server[s])
                 /\ client_closing[s] \in {"no", "fin", "rst"}
                 /\ server_closing[s] \in {"no", "fin", "rst"}
      <3>1. client_read[s] \in Nat /\ to_client[s] \in Seq(ToClient) /\ client_read[s] <= Len(to_client[s])
        BY <2>1 DEF EInv, DInv, DownInv, Flowing, StreamType
      <3>2. server_read[s] \in Nat /\ to_server[s] \in Seq(ToServer) /\ server_read[s] <= Len(to_server[s])
        BY <2>1 DEF EInv, ReadSent, LinkType
      <3>3. Len(to_client[s]) \in Nat /\ Len(to_server[s]) \in Nat
        BY <3>1, <3>2, LenProperties
      <3>. QED  BY <2>1, <3>1, <3>2, <3>3 DEF StreamType, Ends
    <2>5. ASSUME NEW s \in Sessions
          PROVE  client_wrote[s] \in Seq(Seq(Nat)) /\ server_wrote[s] \in Seq(Seq(Nat))
      <3>1. Val \subseteq Seq(Nat) /\ Runs(MaxLocal) \subseteq Seq(Nat)
        <4>1. MaxRx \in Nat /\ MaxLocal \in Nat
          BY ClientAssumption, LinkAssumption
        <4>2. Runs(MaxRx) \subseteq Seq(Nat) /\ Runs(MaxLocal) \subseteq Seq(Nat)
          BY <4>1, RunType
        <4>3. <<>> \in Seq(Nat)
          OBVIOUS
        <4>. QED  BY <4>2, <4>3, Zenon DEF Val
      <3>2. client_wrote[s] \in Seq(Val) /\ server_wrote[s] \in Seq(Runs(MaxLocal))
        BY <2>1 DEF StreamType, LinkType
      <3>3. \A A, B, q : A \subseteq B /\ q \in Seq(A) => q \in Seq(B)
        OBVIOUS
      <3>. QED  BY <3>1, <3>2, <3>3, Zenon
    <2>6. session \in Sessions \union {NoSession} /\ stage \in {"apart", "handle"}
          /\ client_dev \in BOOLEAN /\ local_arrived \in 0..MaxLocal
      BY <2>1 DEF Ends, LocalLatest
    <2>. QED  BY <2>2, <2>3, <2>4, <2>5, <2>6, Zenon DEF TypeOK
  <1>. QED  BY <1>1, EndsHold, PTL

-----------------------------------------------------------------------------
(***************************************************************************)
(* The theorem EndToEnd.  What goes through a channel is a sequence of     *)
(* runs of consecutive bytes.  If each run begins where the one before it  *)
(* ends (Chained), the bytes of all are consecutive, and so are those of   *)
(* any first part of them.                                                 *)
(***************************************************************************)
Final(run) == run[Len(run)]
Chained(runs) == \A i \in 1..(Len(runs) - 1) : runs[i + 1][1] = Final(runs[i]) + 1
Prefix(a, b) == Len(a) <= Len(b) /\ \A i \in 1..Len(a) : a[i] = b[i]

LEMMA RunShape ==
    ASSUME NEW n \in Nat, NEW run \in Runs(n)
    PROVE  run \in Seq(Nat) /\ Len(run) \in Nat /\ Len(run) > 0 /\ Consecutive(run)
  <1>. PICK first \in 0..n, l \in 1..n : run = [k \in 1..l |-> first + k]
    BY DEF Runs
  <1>1. run \in Seq(Nat) /\ Len(run) = l
    OBVIOUS
  <1>2. Consecutive(run)
    BY <1>1 DEF Consecutive
  <1>. QED  BY <1>1, <1>2

LEMMA JoinConsecutive ==
    ASSUME NEW a \in Seq(Nat), NEW b \in Seq(Nat), Len(a) > 0, Len(b) > 0,
           Consecutive(a), Consecutive(b), b[1] = Final(a) + 1
    PROVE  /\ a \o b \in Seq(Nat) /\ Len(a \o b) > 0
           /\ Consecutive(a \o b)
           /\ Final(a \o b) = Final(b)
  <1>. DEFINE z == a \o b
              n == Len(a)
              m == Len(b)
  <1>1. n \in Nat /\ m \in Nat
    OBVIOUS
  <1>2. /\ z \in Seq(Nat) /\ Len(z) = n + m
        /\ \A i \in 1..n : z[i] = a[i]
        /\ \A i \in 1..m : z[n + i] = b[i]
    BY Joined
  <1>. HIDE DEF z
  <1>3. ASSUME NEW k \in 1..(n + m - 1)
        PROVE  z[k + 1] = z[k] + 1
    <2>1. CASE k \in 1..(n - 1)
      <3>1. k \in 1..n /\ k + 1 \in 1..n
        BY <2>1
      <3>. QED  BY <1>2, <2>1, <3>1 DEF Consecutive
    <2>2. CASE k = n
      <3>1. z[k] = Final(a) /\ z[k + 1] = b[1]
        BY <1>1, <1>2, <2>2 DEF Final
      <3>. QED  BY <3>1
    <2>3. CASE k \in (n + 1)..(n + m - 1)
      <3>1. k - n \in 1..(m - 1) /\ k - n \in 1..m /\ (k - n) + 1 \in 1..m
            /\ n + (k - n) = k /\ n + ((k - n) + 1) = k + 1
        BY <1>1, <2>3
      <3>. DEFINE j == k - n
      <3>. HIDE DEF j, n, m
      <3>2. z[n + j] = b[j] /\ z[n + (j + 1)] = b[j + 1] /\ n + j = k /\ n + (j + 1) = k + 1
        BY <1>2, <3>1 DEF j
      <3>3. b[j + 1] = b[j] + 1
        BY <3>1 DEF Consecutive, j, m
      <3>. QED  BY <3>2, <3>3
    <2>. QED  BY <1>1, <2>1, <2>2, <2>3
  <1>4. Consecutive(z)
    BY <1>2, <1>3 DEF Consecutive
  <1>5. Final(z) = Final(b)
    <2>1. m \in 1..m
      BY <1>1
    <2>. QED  BY <1>2, <2>1 DEF Final
  <1>. QED  BY <1>1, <1>2, <1>4, <1>5 DEF z

(* FlattenSeq appends one sequence after the other. *)
LEMMA Flattening ==
    ASSUME NEW V, NEW q \in Seq(Seq(V)), Len(q) > 0
    PROVE  \E g : /\ g[1] = q[1]
                  /\ \A i \in 2..Len(q) : g[i] = g[i - 1] \o q[i]
                  /\ FlattenSeq(q) = g[Len(q)]
  <1>. DEFINE W == Seq(V)
              n == Len(q)
              F == [i \in 1..n |-> [w \in W |-> w \o q[i]]]
  <1>1. n \in Nat /\ <<>> \in W /\ \A i \in 1..n : q[i] \in W
    OBVIOUS
  <1>2. \A w \in W : \A i \in 1..n : w \o q[i] \in W
    BY <1>1
  <1>3. F \in Steps(W, n)
    BY <1>2, Zenon DEF Steps
  <1>4. PICK g : Follows(g, W, <<>>, n, F)
    BY <1>1, <1>3, RecursionExists, Zenon
  <1>5. \A i \in 1..n : g[i - 1] \in W /\ g[i] = g[i - 1] \o q[i]
    <2>. SUFFICES ASSUME NEW i \in 1..n PROVE g[i - 1] \in W /\ g[i] = g[i - 1] \o q[i]
      OBVIOUS
    <2>1. i - 1 \in 0..n
      BY <1>1
    <2>2. g[i - 1] \in W /\ g[i] = F[i][g[i - 1]]
      BY <1>4, <2>1, Zenon DEF Follows
    <2>. QED  BY <2>2, Zenon
  <1>6. g[1] = q[1]
    <2>1. g[0] = <<>>
      BY <1>4 DEF Follows
    <2>2. 1 \in 1..n /\ 1 - 1 = 0
      BY <1>1
    <2>3. g[1] = <<>> \o q[1] /\ q[1] \in W
      BY <1>1, <1>5, <2>1, <2>2, Zenon
    <2>. QED  BY <2>3
  <1>. DEFINE body(f) == [i \in 1..n |-> IF i = 1 THEN q[i] ELSE f[i - 1] \o q[i]]
              h == [i \in 1..n |-> g[i]]
  <1>7. h = body(h)
    <2>1. \A i \in 1..n : h[i] = IF i = 1 THEN q[i] ELSE h[i - 1] \o q[i]
      <3>. SUFFICES ASSUME NEW i \in 1..n
                    PROVE  h[i] = IF i = 1 THEN q[i] ELSE h[i - 1] \o q[i]
        OBVIOUS
      <3>1. CASE i = 1
        BY <1>6, <3>1
      <3>2. CASE i # 1
        <4>1. i - 1 \in 1..n
          BY <1>1, <3>2
        <4>. QED  BY <1>5, <3>2, <4>1
      <3>. QED  BY <3>1, <3>2
    <2>. HIDE DEF h
    <2>2. h = [i \in 1..n |-> h[i]]
      BY DEF h
    <2>. QED  BY <2>1, <2>2
  <1>. DEFINE f == CHOOSE x : x = body(x)
  <1>8. f = body(f)
    <2>. HIDE DEF h, body
    <2>. QED  BY <1>7, Zenon
  <1>9. FlattenSeq(q) = f[n]
    <2>1. n # 0
      OBVIOUS
    <2>. QED  BY <2>1, Zenon DEF FlattenSeq
  <1>10. f[1] = q[1] /\ \A i \in 2..n : f[i] = f[i - 1] \o q[i]
    <2>. HIDE DEF f
    <2>1. \A i \in 1..n : f[i] = IF i = 1 THEN q[i] ELSE f[i - 1] \o q[i]
      BY <1>8
    <2>2. 1 \in 1..n /\ \A i \in 2..n : i \in 1..n /\ i # 1
      BY <1>1
    <2>. QED  BY <2>1, <2>2
  <1>. HIDE DEF f
  <1>. QED  BY <1>9, <1>10

LEMMA FlatConsecutive ==
    ASSUME NEW n \in Nat, NEW q \in Seq(Runs(n)), Chained(q)
    PROVE  Consecutive(FlattenSeq(q))
  <1>. DEFINE l == Len(q)
  <1>1. l \in Nat /\ \A i \in 1..l : q[i] \in Runs(n)
    OBVIOUS
  <1>2. CASE l = 0
    <2>1. FlattenSeq(q) = q
      BY <1>2, Zenon DEF FlattenSeq
    <2>. QED  BY <1>2, <2>1 DEF Consecutive
  <1>3. CASE l > 0
    <2>1. q \in Seq(Seq(Nat))
      <3>1. Runs(n) \subseteq Seq(Nat)
        BY RunType
      <3>2. \A A, B : A \subseteq B /\ q \in Seq(A) => q \in Seq(B)
        OBVIOUS
      <3>. QED  BY <3>1, <3>2, Zenon
    <2>2. PICK g : /\ g[1] = q[1]
                   /\ \A i \in 2..l : g[i] = g[i - 1] \o q[i]
                   /\ FlattenSeq(q) = g[l]
      BY <1>3, <2>1, Flattening, Zenon
    <2>. DEFINE Good(i) == /\ g[i] \in Seq(Nat) /\ Len(g[i]) > 0
                           /\ Consecutive(g[i])
                           /\ Final(g[i]) = Final(q[i])
                T == {i \in 0..l : i = 0 \/ Good(i)}
    <2>3. \A i \in 1..l : i - 1 \in T => Good(i)
      <3>. SUFFICES ASSUME NEW i \in 1..l, i - 1 \in T PROVE Good(i)
        OBVIOUS
      <3>1. /\ q[i] \in Seq(Nat) /\ Len(q[i]) > 0 /\ Consecutive(q[i])
        BY <1>1, RunShape
      <3>2. CASE i = 1
        BY <2>2, <3>1, <3>2
      <3>3. CASE i # 1
        <4>1. i \in 2..l /\ i - 1 # 0 /\ i - 1 \in 1..(l - 1)
          BY <1>1, <3>3
        <4>2. Good(i - 1)
          BY <4>1
        <4>. HIDE DEF T
        <4>3. q[i][1] = Final(g[i - 1]) + 1
          <5>1. (i - 1) + 1 = i
            BY <4>1
          <5>2. q[(i - 1) + 1][1] = Final(q[i - 1]) + 1
            BY <4>1 DEF Chained
          <5>. QED  BY <4>2, <5>1, <5>2
        <4>4. g[i] = g[i - 1] \o q[i]
          BY <2>2, <4>1
        <4>. QED  BY <3>1, <4>2, <4>3, <4>4, JoinConsecutive
      <3>. QED  BY <3>2, <3>3
    <2>4. 0 \in T /\ \A i \in 1..l : i - 1 \in T => i \in T
      <3>1. 0 \in 0..l /\ \A i \in 1..l : i \in 0..l
        BY <1>1
      <3>. HIDE DEF l
      <3>. QED  BY <2>3, <3>1, Zenon
    <2>5. \A i \in 0..l : i \in T
      <3>. HIDE DEF T
      <3>. QED  BY <1>1, <2>4, IntervalInduction, Zenon
    <2>6. Good(l)
      BY <1>1, <1>3, <2>5
    <2>. QED  BY <2>2, <2>6
  <1>. QED  BY <1>1, <1>2, <1>3

LEMMA PrefixChained ==
    ASSUME NEW S, NEW a \in Seq(S), NEW b \in Seq(S), Prefix(a, b), Chained(b)
    PROVE  Chained(a)
  <1>1. Len(a) \in Nat /\ Len(b) \in Nat
    OBVIOUS
  <1>. SUFFICES ASSUME NEW i \in 1..(Len(a) - 1)
                PROVE  a[i + 1][1] = Final(a[i]) + 1
    BY DEF Chained
  <1>2. i \in 1..Len(a) /\ i + 1 \in 1..Len(a) /\ i \in 1..(Len(b) - 1)
    BY <1>1 DEF Prefix
  <1>. QED  BY <1>2 DEF Prefix, Chained

LEMMA AppendChained ==
    ASSUME NEW S, NEW a \in Seq(S), NEW run \in S, Chained(a),
           a # <<>> => run[1] = Final(a[Len(a)]) + 1
    PROVE  Chained(Append(a, run))
  <1>1. /\ Len(Append(a, run)) = Len(a) + 1 /\ Len(a) \in Nat
        /\ \A i \in 1..Len(a) : Append(a, run)[i] = a[i]
        /\ Append(a, run)[Len(a) + 1] = run
    OBVIOUS
  <1>. SUFFICES ASSUME NEW i \in 1..Len(a)
                PROVE  Append(a, run)[i + 1][1] = Final(Append(a, run)[i]) + 1
    BY <1>1 DEF Chained
  <1>2. CASE i = Len(a)
    BY <1>1, <1>2
  <1>3. CASE i # Len(a)
    <2>1. i \in 1..(Len(a) - 1) /\ i + 1 \in 1..Len(a)
      BY <1>1, <1>3
    <2>. QED  BY <1>1, <2>1 DEF Chained
  <1>. QED  BY <1>2, <1>3

(* A channel hands over a first part of what it has been given. *)
LEMMA ChannelPrefix ==
    ASSUME NEW S, NEW a \in Seq(S), NEW d \in Seq(S), NEW a2, NEW d2, Prefix(d, a),
           \/ a2 = a /\ d2 = d
           \/ (\E p \in S : a2 = Append(a, p)) /\ d2 = d
           \/ Len(d) < Len(a) /\ d2 = Append(d, a[Len(d) + 1]) /\ a2 = a
    PROVE  Prefix(d2, a2)
  <1>1. Len(a) \in Nat /\ Len(d) \in Nat
    OBVIOUS
  <1>2. CASE a2 = a /\ d2 = d
    BY <1>2
  <1>3. ASSUME NEW p \in S, a2 = Append(a, p), d2 = d
        PROVE  Prefix(d2, a2)
    <2>1. Len(a2) = Len(a) + 1 /\ \A i \in 1..Len(a) : a2[i] = a[i]
      BY <1>3
    <2>. QED  BY <1>1, <1>3, <2>1 DEF Prefix
  <1>4. CASE Len(d) < Len(a) /\ d2 = Append(d, a[Len(d) + 1]) /\ a2 = a
    <2>. DEFINE x == a[Len(d) + 1]
    <2>1. x \in S
      BY <1>1, <1>4
    <2>2. /\ Len(d2) = Len(d) + 1
          /\ \A i \in 1..Len(d) : d2[i] = d[i]
          /\ d2[Len(d) + 1] = x
      <3>. HIDE DEF x
      <3>1. d2 = Append(d, x)
        BY <1>4 DEF x
      <3>. QED  BY <2>1, <3>1
    <2>. QED  BY <1>1, <1>4, <2>2 DEF Prefix
  <1>. QED  BY <1>2, <1>3, <1>4

-----------------------------------------------------------------------------
(* From the client's port to the remote one.  As long as what it sends     *)
(* arrives, the client has sent all that its port has received and that    *)
(* does not wait there (Continued).  A device that comes late changes      *)
(* nothing while the client handles a connection; a connection whose other *)
(* end is closed never carries anything again.                             *)
LastByte(runs) == Final(Final(runs))
LocalPassed == local_arrived - Len(local_pending)
Sending(s) == stage = "handle" /\ session = s /\ server_closing[s] = "no"

Continued(s) ==
    Sending(s) /\ SentData(s) # <<>> => client_dev /\ LastByte(SentData(s)) = LocalPassed

UpEnd(s) ==
    /\ Chained(SentData(s))
    /\ Prefix(server_wrote[s], SentData(s))
    /\ Continued(s)

LEMMA SentType ==
    ASSUME LInv, NEW s \in Sessions
    PROVE  SentData(s) \in Seq(Runs(MaxLocal)) /\ server_wrote[s] \in Seq(Runs(MaxLocal))
  <1>. DEFINE R == Runs(MaxLocal)
              n == Len(to_server[s])
  <1>1. server_wrote[s] \in Seq(R) /\ to_server[s] \in Seq(ToServer) /\ n \in Nat
    BY DEF LInv, LinkType
  <1>2. SentData(s) = [k \in 1..(n - 3) |-> to_server[s][3 + k].val]
    BY OpeningLength DEF SentData
  <1>3. CASE life[s] = "free"
    <2>1. n = 0 /\ 1..(0 - 3) = {}
      BY <1>3 DEF LInv, Carried, NotYet
    <2>2. SentData(s) = [k \in {} |-> to_server[s][3 + k].val]
      BY <1>2, <2>1
    <2>. HIDE DEF R
    <2>3. SentData(s) \in Seq(R)
      BY <2>2
    <2>. QED  BY <1>1, <2>3 DEF R
  <1>4. CASE life[s] # "free"
    <2>1. n >= 3 /\ \A k \in 4..n : to_server[s][k].val \in R
      BY <1>4 DEF LInv, Carried, Opened
    <2>. HIDE DEF R, n
    <2>2. n - 3 \in Nat /\ \A k \in 1..(n - 3) : 3 + k \in 4..n
      BY <1>1, <2>1
    <2>3. \A k \in 1..(n - 3) : to_server[s][3 + k].val \in R
      BY <2>1, <2>2
    <2>4. SentData(s) \in Seq(R)
      BY <1>2, <2>2, <2>3
    <2>. QED  BY <1>1, <2>4 DEF R
  <1>. QED  BY <1>3, <1>4

LEMMA UpEndPrimed ==
    ASSUME NEW s \in Sessions, Chained(SentData(s)'), Prefix(server_wrote'[s], SentData(s)'),
           Sending(s)' /\ SentData(s)' # <<>> => client_dev' /\ LastByte(SentData(s)') = LocalPassed'
    PROVE  UpEnd(s)'
  <1>1. Chained(SentData(s))'
    BY DEF Chained, Final
  <1>2. Prefix(server_wrote[s], SentData(s))'
    BY DEF Prefix
  <1>3. LastByte(SentData(s))' = LastByte(SentData(s)')
    BY DEF LastByte, Final
  <1>4. Continued(s)'
    BY <1>3, Zenon DEF Continued
  <1>. QED  BY <1>1, <1>2, <1>4, Zenon DEF UpEnd

LEMMA PrefixStep ==
    ASSUME LInv, NEW s \in Sessions, UpStep(s), UpEnd(s)
    PROVE  Prefix(server_wrote'[s], SentData(s)')
  <1>. DEFINE R == Runs(MaxLocal)
  <1>1. \/ SentData(s)' = SentData(s) /\ server_wrote'[s] = server_wrote[s]
        \/ (\E p \in R : SentData(s)' = Append(SentData(s), p)) /\ server_wrote'[s] = server_wrote[s]
        \/ /\ Len(server_wrote[s]) < Len(SentData(s))
           /\ server_wrote'[s] = Append(server_wrote[s], SentData(s)[Len(server_wrote[s]) + 1])
           /\ SentData(s)' = SentData(s)
    BY Zenon DEF UpStep, Upstream!Next, Upstream!Put, Upstream!Deliver, Upstream!chan
  <1>2. SentData(s) \in Seq(R) /\ server_wrote[s] \in Seq(R)
    BY SentType
  <1>. HIDE DEF R
  <1>. QED  BY <1>1, <1>2, ChannelPrefix, Zenon DEF UpEnd

(* Steps that send nothing, and in which the client handles on only with   *)
(* the same device and with all that it receives kept for it.              *)
LEMMA NothingSent ==
    ASSUME LInv, NEW s \in Sessions, UpStep(s), UpEnd(s), to_server'[s] = to_server[s],
           Sending(s)' =>
               /\ Sending(s)
               /\ client_dev' = client_dev
               /\ client_dev => LocalPassed' = LocalPassed
    PROVE  UpEnd(s)'
  <1>1. SentData(s)' = SentData(s)
    BY DEF SentData
  <1>2. Prefix(server_wrote'[s], SentData(s)')
    BY PrefixStep
  <1>3. Chained(SentData(s)')
    BY <1>1 DEF UpEnd
  <1>4. Sending(s)' /\ SentData(s)' # <<>> => client_dev' /\ LastByte(SentData(s)') = LocalPassed'
    BY <1>1, Zenon DEF UpEnd, Continued
  <1>. QED  BY <1>2, <1>3, <1>4, UpEndPrimed, Zenon

(* The client sends what waits in its port. *)
LEMMA PendingSent ==
    ASSUME EInv, EInv', NEW s \in Sessions, UpStep(s), UpEnd(s), ClientPoll,
           UNCHANGED <<life, is_running, server_read, server_wrote>>
    PROVE  UpEnd(s)'
  <1>1. /\ stage = "handle" /\ client_dev /\ local_pending # <<>>
        /\ local_pending' = <<>> /\ local_arrived' = local_arrived
        /\ SendToServer(packet("data", local_pending))
        /\ UNCHANGED <<stage, session, client_dev>>
    BY DEF ClientPoll, process
  <1>2. LInv /\ LocalLatest /\ Ends /\ to_server \in [Sessions -> Seq(ToServer)]
    BY DEF EInv, DInv, LInv, LinkType
  <1>3. CASE s # session \/ server_closing[session] # "no"
    <2>1. CASE s # session
      <3>1. to_server'[s] = to_server[s]
        BY <1>1, <1>2, <2>1 DEF SendToServer
      <3>2. ~Sending(s)'
        BY <1>1, <2>1 DEF Sending
      <3>. QED  BY <1>2, <3>1, <3>2, NothingSent
    <2>2. CASE s = session /\ server_closing[session] # "no"
      <3>1. /\ to_server' = to_server
            /\ server_closing' = server_closing \/ server_closing' = [server_closing EXCEPT ![s] = "rst"]
        BY <1>1, <2>2 DEF SendToServer
      <3>2. ~Sending(s)'
        BY <1>2, <2>2, <3>1 DEF Sending, Ends
      <3>. QED  BY <1>2, <3>1, <3>2, NothingSent
    <2>. QED  BY <1>3, <2>1, <2>2
  <1>4. CASE s = session /\ server_closing[session] = "no"
    <2>. DEFINE run == local_pending
                q == SentData(s)
    <2>1. run \in Runs(MaxLocal)
      BY <1>1, <1>2, PendingIsRun
    <2>2. to_server' = [to_server EXCEPT ![s] = Append(@, packet("data", run))]
      BY <1>1, <1>4 DEF SendToServer
    <2>3. life[s] # "free"
      BY <1>1, <1>2, <1>4 DEF LInv, LinkType
    <2>4. SentData(s)' = Append(q, run)
      BY <1>2, <2>1, <2>2, <2>3, Puts
    <2>5. q \in Seq(Runs(MaxLocal))
      BY <1>2, SentType
    <2>6. run \in Seq(Nat) /\ Len(run) \in Nat /\ Len(run) > 0
      BY <2>1, ClientAssumption, RunShape
    <2>7. run[1] = LocalPassed + 1 /\ Final(run) = local_arrived
      BY <1>2, <2>6 DEF LocalLatest, LocalPassed, Final
    <2>8. q # <<>> => run[1] = LastByte(q) + 1
      BY <1>1, <1>4, <2>7 DEF UpEnd, Continued, Sending
    <2>9. LocalPassed' = local_arrived
      BY <1>1, <1>2 DEF LocalPassed, LocalLatest
    <2>10. Chained(q)
      BY DEF UpEnd
    <2>. HIDE DEF run, q
    <2>11. Chained(Append(q, run))
      BY <2>1, <2>5, <2>8, <2>10, AppendChained DEF LastByte, Final
    <2>12. LastByte(Append(q, run)) = local_arrived
      <3>1. Final(Append(q, run)) = run
        BY <2>1, <2>5 DEF Final
      <3>. QED  BY <2>7, <3>1 DEF LastByte, run
    <2>13. client_dev'
      BY <1>1
    <2>14. Prefix(server_wrote'[s], SentData(s)')
      BY <1>2, PrefixStep
    <2>. QED  BY <2>4, <2>9, <2>11, <2>12, <2>13, <2>14, UpEndPrimed, Zenon
  <1>. QED  BY <1>3, <1>4

LEMMA ConnectedSent ==
    ASSUME EInv, EInv', NEW s \in Sessions, UpStep(s), UpEnd(s), NEW t \in Sessions, Connected(t)
    PROVE  UpEnd(s)'
  <1>1. /\ life[t] = "free" /\ session' = t
        /\ to_server' = [to_server EXCEPT ![t] = Opening]
        /\ server_wrote' = server_wrote
    BY DEF Connected, Connect, Server!Accept
  <1>2. LInv /\ to_server \in [Sessions -> Seq(ToServer)]
    BY DEF EInv, DInv, LInv, LinkType
  <1>3. CASE s # t
    <2>1. to_server'[s] = to_server[s] /\ ~Sending(s)'
      BY <1>1, <1>2, <1>3 DEF Sending
    <2>. QED  BY <1>2, <2>1, NothingSent
  <1>4. CASE s = t
    <2>1. to_server'[s] = Opening /\ server_wrote'[s] = <<>>
      BY <1>1, <1>2, <1>4 DEF LInv, Carried, NotYet
    <2>2. SentData(s)' = <<>>
      <3>1. Len(to_server'[s]) - Len(Opening) = 0 /\ 1..0 = {}
        BY <2>1, OpeningLength
      <3>2. SentData(s)' = [k \in {} |-> to_server'[s][Len(Opening) + k].val]
        BY <3>1, Zenon DEF SentData
      <3>. QED  BY <3>2
    <2>3. Chained(<<>>) /\ Prefix(<<>>, <<>>)
      BY DEF Chained, Prefix
    <2>. QED  BY <2>1, <2>2, <2>3, UpEndPrimed, Zenon
  <1>. QED  BY <1>3, <1>4

LEMMA ServerSends ==
    ASSUME EInv, EInv', NEW s \in Sessions, UpStep(s), UpEnd(s), NEW t \in Sessions,
           ServerHandles(t) \/ ServerPolls(t) \/ ServerPollRaises(t) \/ SeesEnd(t) \/ SeesReset(t)
    PROVE  UpEnd(s)'
  <1>1. UNCHANGED <<stage, session, client_dev, local_arrived, local_pending, to_server>>
    BY DEF ServerHandles, ServerPolls, ServerPollRaises, SeesEnd, SeesReset, Quietly, process, local
  <1>2. UNCHANGED server_closing \/ Closes(t)
    BY DEF ServerHandles, ServerPolls, ServerPollRaises, SeesEnd, SeesReset, Quietly
  <1>3. \/ UNCHANGED server_closing
        \/ \E how \in {"fin", "rst"} : server_closing' = [server_closing EXCEPT ![t] = how]
    BY <1>2 DEF Closes
  <1>4. server_closing'[s] = "no" => server_closing[s] = "no"
    BY <1>3 DEF EInv, Ends
  <1>5. LocalPassed' = LocalPassed /\ (Sending(s)' => Sending(s))
    BY <1>1, <1>4 DEF LocalPassed, Sending
  <1>. QED  BY <1>1, <1>5, NothingSent DEF EInv, DInv

LEMMA ClientSends ==
    ASSUME EInv, EInv', NEW s \in Sessions, UpStep(s), UpEnd(s), ClientStep,
           UNCHANGED <<serverVars, server_read, server_wrote>>
    PROVE  UpEnd(s)'
  <1>1. LInv /\ LocalLatest /\ LocalLatest'
    BY DEF EInv, DInv, LInv
  <1>2. CASE ClientPoll
    BY <1>2, PendingSent DEF serverVars
  <1>3. CASE AttemptFails \/ Restart \/ RecvRaises \/ ClientPollRaises \/ ClientHandleDataRaises
    <2>1. stage' = "apart" /\ UNCHANGED to_server
      BY <1>3 DEF AttemptFails, Restart, RecvRaises, ClientPollRaises, ClientHandleDataRaises, Leave, Reads
    <2>2. ~Sending(s)'
      BY <2>1 DEF Sending
    <2>. QED  BY <1>1, <2>1, <2>2, NothingSent
  <1>4. CASE ClientHandleData \/ ClientHandleError
    <2>1. UNCHANGED <<stage, session, client_dev, local_arrived, local_pending, to_server, server_closing>>
      BY <1>4 DEF ClientHandleData, ClientHandleError, Reads, process, local
    <2>2. LocalPassed' = LocalPassed /\ (Sending(s)' => Sending(s))
      BY <2>1 DEF LocalPassed, Sending
    <2>. QED  BY <1>1, <2>1, <2>2, NothingSent
  <1>5. CASE LocalReceives
    <2>1. /\ UNCHANGED <<stage, session, client_dev, to_server, server_closing>>
          /\ local_arrived' = local_arrived + 1
          /\ client_dev => local_pending' = Append(local_pending, local_arrived + 1)
      BY <1>5 DEF LocalReceives, process
    <2>2. client_dev => LocalPassed' = LocalPassed
      <3>1. local_arrived \in Nat /\ local_pending \in Seq(Nat)
        BY <1>1 DEF LocalLatest
      <3>2. \A x : Len(Append(local_pending, x)) = Len(local_pending) + 1
        BY <3>1
      <3>3. client_dev => Len(local_pending') = Len(local_pending) + 1
        BY <2>1, <3>2
      <3>. QED  BY <2>1, <3>1, <3>3 DEF LocalPassed
    <2>3. Sending(s)' => Sending(s)
      BY <2>1 DEF Sending
    <2>. QED  BY <1>1, <2>1, <2>2, <2>3, NothingSent
  <1>. QED  BY <1>2, <1>3, <1>4, <1>5 DEF ClientStep

LEMMA UpEndStep ==
    ASSUME EInv, EInv', [Next]_vars, NEW s \in Sessions, UpEnd(s)
    PROVE  UpEnd(s)'
  <1>1. UpStep(s) /\ LInv
    BY LinkStep DEF EInv, DInv
  <1>2. CASE UNCHANGED clientVars
    <2>1. UNCHANGED <<stage, session, client_dev, local_arrived, local_pending, to_server, server_closing>>
      BY <1>2 DEF clientVars, process, local
    <2>2. LocalPassed' = LocalPassed /\ (Sending(s)' => Sending(s))
      BY <2>1 DEF LocalPassed, Sending
    <2>. QED  BY <1>1, <2>1, <2>2, NothingSent
  <1>3. CASE UNCHANGED vars
    BY <1>2, <1>3 DEF vars
  <1>. QED  BY <1>1, <1>2, <1>3, ConnectedSent, ServerSends, ClientSends, Zenon DEF Next

LEMMA UpEndInit ==
    ASSUME Init, NEW s \in Sessions
    PROVE  UpEnd(s)
  <1>1. SentData(s) = <<>> /\ server_wrote[s] = <<>>
    BY LinkInit DEF Upstream!Init
  <1>2. Chained(<<>>) /\ Prefix(<<>>, <<>>)
    BY DEF Chained, Prefix
  <1>. QED  BY <1>1, <1>2 DEF UpEnd, Continued

LEMMA UpEndHolds == Spec => [](\A s \in Sessions : UpEnd(s))
  <1>1. Init => \A s \in Sessions : UpEnd(s)
    BY UpEndInit
  <1>2. EInv /\ EInv' /\ (\A s \in Sessions : UpEnd(s)) /\ [Next]_vars
            => (\A s \in Sessions : UpEnd(s))'
    BY UpEndStep
  <1>. QED  BY <1>1, <1>2, EndsHold, PTL DEF Spec

-----------------------------------------------------------------------------
(* From the remote port to the client's.  The client asks for its port     *)
(* once, before it sends anything else: until it has, the session has      *)
(* forwarded nothing, and afterwards the session keeps the device it has   *)
(* (OneOpening).  So all that it forwards continues (Sess!Continues).      *)
ServerInv == Sess!TypeOK /\ Sess!DeviceMatchesConfig /\ Sess!HeldIsServed /\ Sess!GInv

OneOpening(s) ==
    life[s] \in {"free", "up"} =>
        /\ server_read[s] < 2 => uart_baud[s] = 0 /\ uart_dev[s] = NoDev
        /\ uart_dev[s] = NoDev => forwarded[s] = <<>>
        /\ uart_dev[s] # NoDev /\ forwarded[s] # <<>> =>
              Sess!LastOf(s).opening = uart_dev[s].opening

(* A start of the service for what the session is configured for keeps an  *)
(* open device.                                                            *)
LEMMA StartKeeps ==
    ASSUME Sess!TypeOK, Sess!DeviceMatchesConfig, NEW s \in Sessions, uart_dev[s] # NoDev, NEW errs,
           Server!Start(s, uart_path[s], uart_baud[s], errs)
    PROVE  uart_dev'[s] = uart_dev[s]
  <1>1. PICK o \in Sess!uart_open(s, uart_path[s], uart_baud[s]) :
           uart_dev' = [uart_dev EXCEPT ![s] = o.dev]
    BY SameStart, Zenon DEF Sess!Start
  <1>2. uart_dev'[s] = o.dev
    BY <1>1 DEF Sess!TypeOK
  <1>3. CASE uart_path[s] = NoPath \/ uart_baud[s] <= 0
    <2>1. o \in {[dev |-> uart_dev[s], ok |-> FALSE]}
      BY <1>1, <1>3, Zenon DEF Sess!uart_open
    <2>. QED  BY <1>2, <2>1
  <1>4. CASE ~(uart_path[s] = NoPath \/ uart_baud[s] <= 0)
    <2>1. uart_baud[s] > 0 /\ uart_path[s] # NoPath
      <3>1. uart_baud \in [Sessions -> Bauds \union {0}]
        BY DEF Sess!TypeOK
      <3>2. Bauds \subseteq Nat \ {0}
        BY ServerAssumption
      <3>3. uart_baud[s] \in Nat
        <4>1. Bauds \union {0} \subseteq Nat
          BY <3>2
        <4>2. uart_baud[s] \in Bauds \union {0}
          BY <3>1
        <4>. QED  BY <4>1, <4>2, Zenon
      <3>4. ~(uart_baud[s] <= 0) /\ uart_path[s] # NoPath
        BY <1>4, Zenon
      <3>. QED  BY <3>3, <3>4
    <2>2. Sess!Same(uart_dev[s], uart_path[s], uart_baud[s])
      BY <2>1, Zenon DEF Sess!DeviceMatchesConfig, Sess!Same
    <2>3. o \in {[dev |-> uart_dev[s], ok |-> TRUE]}
      BY <1>1, <1>4, <2>2, Zenon DEF Sess!uart_open
    <2>. QED  BY <1>2, <2>3
  <1>. QED  BY <1>3, <1>4

LEMMA StartDevice ==
    ASSUME Sess!TypeOK, NEW s \in Sessions, NEW path, NEW baud, NEW errs,
           Server!Start(s, path, baud, errs) \/ Server!StartIfReady(s, path, baud, errs)
    PROVE  /\ \A t \in Sessions \ {s} : uart_dev'[t] = uart_dev[t]
           /\ Server!StartIfReady(s, path, baud, errs) /\ ~(baud > 0) => uart_dev' = uart_dev
  <1>1. Server!StartIfReady(s, path, baud, errs) /\ ~(path # NoPath /\ baud > 0)
           => uart_dev' = uart_dev
    BY Zenon DEF Server!StartIfReady
  <1>2. CASE Server!Start(s, path, baud, errs)
    <2>1. PICK dev : uart_dev' = [uart_dev EXCEPT ![s] = dev]
      BY <1>2, Zenon DEF Server!Start
    <2>. QED  BY <1>1, <2>1 DEF Sess!TypeOK
  <1>3. CASE ~Server!Start(s, path, baud, errs)
    <2>1. uart_dev' = uart_dev
      BY <1>3, Zenon DEF Server!StartIfReady
    <2>. QED  BY <2>1
  <1>. QED  BY <1>2, <1>3

LEMMA DispatchDevice ==
    ASSUME Sess!TypeOK, Sess!DeviceMatchesConfig, NEW s \in Sessions, NEW p, Dispatch(s, p)
    PROVE  /\ forwarded' = forwarded
           /\ \A t \in Sessions \ {s} : uart_dev'[t] = uart_dev[t] /\ uart_baud'[t] = uart_baud[t]
           /\ p.key = "path" =>
                 /\ uart_baud'[s] = uart_baud[s]
                 /\ uart_baud[s] = 0 => uart_dev'[s] = uart_dev[s]
           /\ p.key = "start" => uart_dev[s] = NoDev \/ uart_dev'[s] = uart_dev[s]
           /\ p.key = "data" => uart_dev'[s] = uart_dev[s] \/ life'[s] = "gone"
  <1>1. CASE p.key = "path" /\ Server!HandlePath(s)
    <2>1. PICK path : Server!StartIfReady(s, path, uart_baud[s], 0)
      BY <1>1, Zenon DEF Server!HandlePath
    <2>2. UNCHANGED <<forwarded, uart_baud>>
      BY <1>1 DEF Server!HandlePath, Server!Stays
    <2>3. ~(0 > 0)
      OBVIOUS
    <2>4. /\ \A t \in Sessions \ {s} : uart_dev'[t] = uart_dev[t]
          /\ uart_baud[s] = 0 => uart_dev' = uart_dev
      BY <2>1, <2>3, StartDevice, Zenon
    <2>. QED  BY <1>1, <2>2, <2>4
  <1>2. CASE p.key = "baud" /\ Server!HandleBaud(s)
    <2>1. PICK baud : /\ uart_baud' = [uart_baud EXCEPT ![s] = baud]
                      /\ Server!StartIfReady(s, uart_path[s], baud, 0)
      BY <1>2, Zenon DEF Server!HandleBaud
    <2>2. UNCHANGED forwarded
      BY <1>2 DEF Server!HandleBaud, Server!Stays
    <2>3. \A t \in Sessions \ {s} : uart_dev'[t] = uart_dev[t]
      BY <2>1, StartDevice, Zenon
    <2>. QED  BY <1>2, <2>1, <2>2, <2>3 DEF Sess!TypeOK
  <1>3. CASE p.key = "start" /\ Server!HandleStart(s)
    <2>1. Server!Start(s, uart_path[s], uart_baud[s], 0) /\ UNCHANGED <<forwarded, uart_baud>>
      BY <1>3 DEF Server!HandleStart, Server!Stays
    <2>2. \A t \in Sessions \ {s} : uart_dev'[t] = uart_dev[t]
      BY <2>1, StartDevice, Zenon
    <2>3. uart_dev[s] = NoDev \/ uart_dev'[s] = uart_dev[s]
      BY <2>1, StartKeeps, Zenon
    <2>. QED  BY <1>3, <2>1, <2>2, <2>3
  <1>4. CASE p.key = "data" /\ (Server!HandleDataRefused(s) \/ Server!HandleDataWritten(s))
    <2>1. UNCHANGED <<forwarded, uart_dev, uart_baud>>
      BY <1>4 DEF Server!HandleDataRefused, Server!HandleDataWritten, Server!Refuse, Server!Stays
    <2>. QED  BY <1>4, <2>1
  <1>5. CASE p.key = "data" /\ Server!HandleDataRaises(s)
    <2>1. /\ life' = [life EXCEPT ![s] = "gone"]
          /\ uart_dev' = [uart_dev EXCEPT ![s] = NoDev]
          /\ UNCHANGED <<forwarded, uart_baud>>
      BY <1>5 DEF Server!HandleDataRaises, Server!Exit
    <2>. QED  BY <1>5, <2>1 DEF Sess!TypeOK
  <1>. QED  BY <1>1, <1>2, <1>3, <1>4, <1>5, Zenon DEF Dispatch

LEMMA OpeningKept ==
    ASSUME NEW s \in Sessions, OneOpening(s),
           life'[s] \in {"free", "up"} =>
               /\ life[s] \in {"free", "up"}
               /\ server_read'[s] = server_read[s]
               /\ uart_baud'[s] = uart_baud[s]
               /\ uart_dev'[s] = uart_dev[s]
               /\ forwarded'[s] = forwarded[s]
    PROVE  OneOpening(s)'
  BY Zenon DEF OneOpening, Sess!LastOf

LEMMA OpeningHandled ==
    ASSUME EInv, ServerInv, NEW s \in Sessions, OneOpening(s), NEW t \in Sessions, ServerHandles(t)
    PROVE  OneOpening(s)'
  <1>. DEFINE r == server_read[t]
              p == to_server[t][r + 1]
  <1>1. /\ Dispatch(t, p) /\ r < Len(to_server[t])
        /\ server_read' = [server_read EXCEPT ![t] = @ + 1]
    BY DEF ServerHandles
  <1>2. LinkType /\ Carried(t) /\ Sess!TypeOK /\ Sess!DeviceMatchesConfig
    BY DEF EInv, DInv, LInv, ServerInv
  <1>3. r \in Nat /\ server_read'[t] = r + 1
        /\ \A u \in Sessions \ {t} : server_read'[u] = server_read[u]
    BY <1>1, <1>2 DEF LinkType
  <1>. HIDE DEF p
  <1>4. /\ life[t] = "up"
        /\ \A u \in Sessions \ {t} : life'[u] = life[u]
    BY <1>1, <1>2, DispatchEffect, Zenon
  <1>5. /\ forwarded' = forwarded
        /\ \A u \in Sessions \ {t} : uart_dev'[u] = uart_dev[u] /\ uart_baud'[u] = uart_baud[u]
        /\ p.key = "path" =>
              /\ uart_baud'[t] = uart_baud[t]
              /\ uart_baud[t] = 0 => uart_dev'[t] = uart_dev[t]
        /\ p.key = "start" => uart_dev[t] = NoDev \/ uart_dev'[t] = uart_dev[t]
        /\ p.key = "data" => uart_dev'[t] = uart_dev[t] \/ life'[t] = "gone"
    BY <1>1, <1>2, DispatchDevice, Zenon
  <1>6. CASE s # t
    <2>1. s \in Sessions \ {t}
      BY <1>6
    <2>. QED  BY <1>3, <1>4, <1>5, <2>1, OpeningKept, Zenon
  <1>7. CASE s = t
    <2>1. /\ r < 2 => uart_baud[s] = 0 /\ uart_dev[s] = NoDev
          /\ uart_dev[s] = NoDev => forwarded[s] = <<>>
          /\ uart_dev[s] # NoDev /\ forwarded[s] # <<>> =>
                Sess!LastOf(s).opening = uart_dev[s].opening
      BY <1>4, <1>7, Zenon DEF OneOpening
    <2>2. Opened(s)
      BY <1>2, <1>4, <1>7 DEF Carried
    <2>3. /\ r = 0 => p.key = "path"
          /\ r >= 3 => p.key = "data"
          /\ r = 2 => p.key = "start"
          /\ r \in {0, 1, 2} \/ r >= 3
      <3>1. r >= 3 => r + 1 \in 4..Len(to_server[s])
        BY <1>1, <1>3, <1>7, <2>2 DEF Opened
      <3>. QED  BY <1>3, <1>7, <2>2, <3>1 DEF Opened, p
    <2>4. Sess!LastOf(s)' = Sess!LastOf(s)
      BY <1>5 DEF Sess!LastOf
    <2>5. CASE r = 0
      <3>1. uart_baud'[s] = 0 /\ uart_dev'[s] = NoDev /\ forwarded'[s] = <<>>
        BY <1>5, <1>7, <2>1, <2>3, <2>5
      <3>. QED  BY <3>1, Zenon DEF OneOpening
    <2>6. CASE r = 1
      <3>1. ~(server_read'[s] < 2) /\ forwarded'[s] = <<>>
        BY <1>3, <1>5, <1>7, <2>1, <2>6
      <3>. QED  BY <3>1, Zenon DEF OneOpening
    <2>7. CASE r >= 2
      <3>1. ~(server_read'[s] < 2)
        BY <1>3, <1>7, <2>7
      <3>2. \/ uart_dev[s] = NoDev
            \/ uart_dev'[s] = uart_dev[s]
            \/ life'[s] = "gone"
        BY <1>3, <1>5, <1>7, <2>3, <2>7
      <3>3. "gone" \notin {"free", "up"} /\ forwarded'[s] = forwarded[s]
        BY <1>5
      <3>4. CASE uart_dev[s] = NoDev
        <4>1. forwarded'[s] = <<>>
          BY <2>1, <3>3, <3>4
        <4>. QED  BY <3>1, <4>1, Zenon DEF OneOpening
      <3>5. CASE uart_dev'[s] = uart_dev[s]
        BY <2>1, <2>4, <3>1, <3>3, <3>5, Zenon DEF OneOpening
      <3>6. CASE life'[s] = "gone"
        BY <3>3, <3>6, Zenon DEF OneOpening
      <3>. QED  BY <3>2, <3>4, <3>5, <3>6
    <2>. QED  BY <1>3, <2>5, <2>6, <2>7
  <1>. QED  BY <1>6, <1>7

(* What a session reads from its port it forwards, and it continues what   *)
(* the session has forwarded from this opening.                            *)
LEMMA PollData ==
    ASSUME EInv, ServerInv, NEW s \in Sessions, ServerPolls(s), life[s] = "up"
    PROVE  LET b == pending[uart_dev[s].path]
           IN  /\ is_running[s] /\ uart_dev[s] # NoDev /\ uart_dev' = uart_dev
               /\ b \in Runs(MaxRx) /\ Forwarded(s) = b
               /\ b[1] = Sess!Passed(uart_dev[s].path) + 1
               /\ forwarded'[s] # <<>>
               /\ Sess!LastOf(s)'.opening = uart_dev[s].opening
               /\ Sess!LastOf(s)'.byte = Final(b)
               /\ \A t \in Sessions \ {s} : forwarded'[t] = forwarded[t]
  <1>. DEFINE p == uart_dev[s].path
              o == uart_dev[s].opening
              b == pending[p]
              f == forwarded[s]
              g == Server!Tagged(s, b)
  <1>1. /\ uart_dev[s] # NoDev /\ b # <<>>
        /\ forwarded' = IF is_running[s] /\ life[s] = "up"
                        THEN [forwarded EXCEPT ![s] = @ \o Server!Tagged(s, b)] ELSE forwarded
        /\ uart_dev' = uart_dev
    BY DEF ServerPolls, Server!PollUart
  <1>2. is_running[s]
    BY <1>1 DEF ServerInv, Sess!HeldIsServed
  <1>3. ServerType /\ PortsInv /\ p \in Ports /\ o \in Nat
    BY <1>1 DEF EInv, DInv, DownInv, PortsInv, DevicesTyped
  <1>4. forwarded' = [forwarded EXCEPT ![s] = f \o g]
    BY <1>1, <1>2
  <1>5. Forwarded(s) = b
    BY <1>1, <1>3, <1>4, SentIsWaiting
  <1>6. b \in Runs(MaxRx)
    BY <1>1, <1>3, WaitingIsRun
  <1>7. b \in Seq(Nat) /\ Len(b) \in Nat /\ Len(b) > 0
    BY <1>6, LinkAssumption, RunShape
  <1>8. b[1] = Sess!Passed(p) + 1
    <2>1. 1 \in 1..Len(b)
      BY <1>7
    <2>. QED  BY <1>3, <2>1 DEF ServerInv, Sess!GInv, Sess!WaitsLatest
  <1>9. f \in Seq(Pair) /\ forwarded \in [Sessions -> Seq(Pair)]
    BY <1>3 DEF ServerType
  <1>10. g \in Seq(Pair) /\ Len(g) = Len(b) /\ g[Len(b)] = [opening |-> o, byte |-> Final(b)]
    <2>1. g = [k \in 1..Len(b) |-> [opening |-> o, byte |-> b[k]]]
      <3>1. DOMAIN b = 1..Len(b)
        BY <1>7
      <3>. QED  BY <3>1 DEF Server!Tagged
    <2>. HIDE DEF b, o, g
    <2>2. \A k \in 1..Len(b) : [opening |-> o, byte |-> b[k]] \in Pair
      BY <1>3, <1>7 DEF Pair
    <2>3. g \in Seq(Pair) /\ Len(g) = Len(b)
      BY <1>7, <2>1, <2>2
    <2>4. Len(b) \in 1..Len(b)
      BY <1>7
    <2>. QED  BY <2>1, <2>3, <2>4 DEF Final
  <1>. DEFINE z == f \o g
  <1>11. Len(z) = Len(f) + Len(b) /\ z[Len(f) + Len(b)] = g[Len(b)] /\ Len(f) \in Nat
    <2>1. Len(b) \in 1..Len(g)
      BY <1>7, <1>10
    <2>. HIDE DEF b, f, g
    <2>2. Len(f) \in Nat
      BY <1>9
    <2>3. /\ Len(f \o g) = Len(f) + Len(g)
          /\ \A i \in 1..Len(g) : (f \o g)[Len(f) + i] = g[i]
      <3>1. f \in Seq(Pair) /\ g \in Seq(Pair)
        BY <1>9, <1>10
      <3>. QED  BY <3>1, Joined
    <2>4. (f \o g)[Len(f) + Len(b)] = g[Len(b)]
      BY <2>1, <2>3, Zenon
    <2>. QED  BY <1>10, <2>2, <2>3, <2>4
  <1>12. forwarded'[s] = z /\ \A t \in Sessions \ {s} : forwarded'[t] = forwarded[t]
    BY <1>4, <1>9
  <1>13. Sess!LastOf(s)' = g[Len(b)]
    <2>. HIDE DEF z, g, b, f
    <2>. QED  BY <1>11, <1>12 DEF Sess!LastOf
  <1>14. forwarded'[s] # <<>>
    <2>1. Len(z) > 0
      <3>. HIDE DEF z, b, f
      <3>. QED  BY <1>7, <1>11
    <2>2. Len(<<>>) = 0
      OBVIOUS
    <2>. HIDE DEF z
    <2>. QED  BY <1>12, <2>1, <2>2
  <1>15. g[Len(b)].opening = o /\ g[Len(b)].byte = Final(b)
    BY <1>10
  <1>. HIDE DEF g
  <1>. QED  BY <1>1, <1>2, <1>5, <1>6, <1>8, <1>12, <1>13, <1>14, <1>15

LEMMA OpeningPolled ==
    ASSUME EInv, ServerInv, NEW s \in Sessions, OneOpening(s), NEW t \in Sessions, ServerPolls(t)
    PROVE  OneOpening(s)'
  <1>1. /\ UNCHANGED <<life, uart_baud, uart_dev, server_read>>
        /\ life[t] \in {"up", "fin"}
        /\ life[t] = "fin" => UNCHANGED forwarded
    BY DEF ServerPolls, Server!PollUart
  <1>2. CASE life[t] = "fin"
    BY <1>1, <1>2, OpeningKept
  <1>3. CASE life[t] = "up" /\ s # t
    <2>1. forwarded'[s] = forwarded[s]
      BY <1>3, PollData
    <2>. QED  BY <1>1, <2>1, OpeningKept
  <1>4. CASE life[t] = "up" /\ s = t
    <2>1. /\ uart_dev[s] # NoDev /\ uart_dev' = uart_dev
          /\ Sess!LastOf(s)'.opening = uart_dev[s].opening
      BY <1>4, PollData, Zenon
    <2>2. ~(server_read[s] < 2)
      BY <1>4, <2>1 DEF OneOpening
    <2>3. server_read'[s] = server_read[s] /\ uart_dev'[s] = uart_dev[s]
      BY <1>1
    <2>. QED  BY <2>1, <2>2, <2>3, Zenon DEF OneOpening
  <1>. QED  BY <1>1, <1>2, <1>3, <1>4

LEMMA OpeningStep ==
    ASSUME EInv, ServerInv, [Next]_vars, NEW s \in Sessions, OneOpening(s)
    PROVE  OneOpening(s)'
  <1>1. CASE UNCHANGED <<life, uart_baud, uart_dev, forwarded, server_read>>
    BY <1>1, OpeningKept
  <1>2. CASE UNCHANGED vars
    BY <1>1, <1>2 DEF vars, serverVars
  <1>3. ASSUME NEW t \in Sessions, Connected(t)
        PROVE  OneOpening(s)'
    <2>1. /\ life[t] = "free" /\ life' = [life EXCEPT ![t] = "up"]
          /\ UNCHANGED <<uart_baud, uart_dev, forwarded, server_read>>
      BY <1>3 DEF Connected, Server!Accept
    <2>2. life'[s] \in {"free", "up"} => life[s] \in {"free", "up"}
      BY <2>1 DEF EInv, DInv, LInv, LinkType
    <2>. QED  BY <2>1, <2>2, OpeningKept
  <1>4. ASSUME NEW t \in Sessions, ServerPollRaises(t) \/ SeesReset(t)
        PROVE  OneOpening(s)'
    <2>1. /\ life' = [life EXCEPT ![t] = "gone"]
          /\ uart_dev' = [uart_dev EXCEPT ![t] = NoDev]
          /\ UNCHANGED <<uart_baud, forwarded, server_read>>
      BY <1>4 DEF ServerPollRaises, SeesReset, Quietly, Server!PollRaises,
                  Server!ClientResets, Server!Exit
    <2>2. life'[s] \in {"free", "up"} =>
             /\ life[s] \in {"free", "up"} /\ uart_dev'[s] = uart_dev[s]
      BY <2>1 DEF EInv, DInv, LInv, LinkType, ServerInv, Sess!TypeOK
    <2>. QED  BY <2>1, <2>2, OpeningKept
  <1>5. ASSUME NEW t \in Sessions, SeesEnd(t)
        PROVE  OneOpening(s)'
    <2>1. /\ life' = [life EXCEPT ![t] = "fin"]
          /\ UNCHANGED <<uart_baud, uart_dev, forwarded, server_read>>
      BY <1>5 DEF SeesEnd, Quietly, Server!ClientCloses
    <2>2. life'[s] \in {"free", "up"} => life[s] \in {"free", "up"}
      BY <2>1 DEF EInv, DInv, LInv, LinkType
    <2>. QED  BY <2>1, <2>2, OpeningKept
  <1>6. CASE ClientStep /\ UNCHANGED <<serverVars, server_read, server_wrote>>
    BY <1>1, <1>6 DEF serverVars
  <1>7. ASSUME NEW p \in Ports, Server!UartReceives(p),
               UNCHANGED <<clientVars, server_read, server_wrote>>
        PROVE  OneOpening(s)'
    BY <1>1, <1>7 DEF Server!UartReceives
  <1>. QED
    BY <1>2, <1>3, <1>4, <1>5, <1>6, <1>7, OpeningHandled, OpeningPolled, Zenon DEF Next

LEMMA OpeningInit ==
    ASSUME Init, NEW s \in Sessions
    PROVE  OneOpening(s)
  BY DEF Init, Server!Init, OneOpening

(* What the client is sent as data is what the session has forwarded, as   *)
(* long as the client listens.                                             *)
Listening(s) == life[s] \in {"free", "up"} /\ client_closing[s] = "no"

DownEnd(s) ==
    /\ DataOf(to_client[s]) \in Seq(Runs(MaxRx))
    /\ Chained(DataOf(to_client[s]))
    /\ Prefix(client_wrote[s], DataOf(to_client[s]))
    /\ Listening(s) =>
          /\ DataOf(to_client[s]) = <<>> <=> forwarded[s] = <<>>
          /\ DataOf(to_client[s]) # <<>> =>
                LastByte(DataOf(to_client[s])) = Sess!LastOf(s).byte

LEMMA DownEndPrimed ==
    ASSUME NEW s \in Sessions,
           DataOf(to_client[s])' \in Seq(Runs(MaxRx)),
           Chained(DataOf(to_client[s])'),
           Prefix(client_wrote'[s], DataOf(to_client[s])'),
           Listening(s)' =>
              /\ DataOf(to_client[s])' = <<>> <=> forwarded'[s] = <<>>
              /\ DataOf(to_client[s])' # <<>> =>
                    LastByte(DataOf(to_client[s])') = Sess!LastOf(s)'.byte
    PROVE  DownEnd(s)'
  <1>1. Chained(DataOf(to_client[s]))'
    BY DEF Chained, Final
  <1>2. Prefix(client_wrote[s], DataOf(to_client[s]))'
    BY DEF Prefix
  <1>3. LastByte(DataOf(to_client[s]))' = LastByte(DataOf(to_client[s])')
    BY DEF LastByte, Final
  <1>4. (DataOf(to_client[s]) \in Seq(Runs(MaxRx)))'
    BY DEF Runs
  <1>. QED  BY <1>1, <1>2, <1>3, <1>4, Zenon DEF DownEnd

LEMMA DeliveredStep ==
    ASSUME EInv, NEW s \in Sessions, DownStep(s), DownEnd(s)
    PROVE  Prefix(client_wrote'[s], DataOf(to_client[s])')
  <1>. DEFINE R == Runs(MaxRx)
              d == DataOf(to_client[s])
              w == client_wrote[s]
  <1>1. \/ d' = d /\ client_wrote'[s] = w
        \/ (\E p \in R : d' = Append(d, p)) /\ client_wrote'[s] = w
        \/ /\ Len(w) < Len(d)
           /\ client_wrote'[s] = Append(w, d[Len(w) + 1])
           /\ d' = d
    BY Zenon DEF DownStep, Downstream!Next, Downstream!Put, Downstream!Deliver, Downstream!chan
  <1>2. R \subseteq Val
    BY DEF Val
  <1>3. w \in Seq(Val)
    BY DEF EInv, DInv, DownInv, StreamType
  <1>4. d \in Seq(Val)
    <2>1. d \in Seq(R)
      BY DEF DownEnd
    <2>. HIDE DEF d, R
    <2>. QED  BY <1>2, <2>1
  <1>5. \/ d' = d /\ client_wrote'[s] = w
        \/ (\E p \in Val : d' = Append(d, p)) /\ client_wrote'[s] = w
        \/ Len(w) < Len(d) /\ client_wrote'[s] = Append(w, d[Len(w) + 1]) /\ d' = d
    <2>. HIDE DEF R, w, d
    <2>. QED  BY <1>1, <1>2, Zenon
  <1>6. Prefix(w, d)
    BY DEF DownEnd
  <1>. HIDE DEF R, w, d
  <1>7. Prefix(client_wrote'[s], d')
    BY <1>3, <1>4, <1>5, <1>6, ChannelPrefix, Zenon
  <1>. QED  BY <1>7 DEF d

LEMMA NothingForwarded ==
    ASSUME EInv, NEW s \in Sessions, DownStep(s), DownEnd(s),
           DataOf(to_client[s])' = DataOf(to_client[s]),
           Listening(s)' => Listening(s) /\ forwarded'[s] = forwarded[s]
    PROVE  DownEnd(s)'
  <1>1. Prefix(client_wrote'[s], DataOf(to_client[s])')
    BY DeliveredStep
  <1>2. Listening(s)' => Sess!LastOf(s)' = Sess!LastOf(s)
    BY DEF Sess!LastOf
  <1>. QED  BY <1>1, <1>2, DownEndPrimed, Zenon DEF DownEnd

LEMMA PollForwards ==
    ASSUME EInv, ServerInv, NEW s \in Sessions, OneOpening(s), DownStep(s), DownEnd(s),
           ServerPolls(s), life[s] = "up", client_closing[s] = "no"
    PROVE  DownEnd(s)'
  <1>. DEFINE b == pending[uart_dev[s].path]
              d == DataOf(to_client[s])
              R == Runs(MaxRx)
  <1>1. /\ is_running[s] /\ uart_dev[s] # NoDev
        /\ b \in R /\ Forwarded(s) = b
        /\ b[1] = Sess!Passed(uart_dev[s].path) + 1
        /\ forwarded'[s] # <<>>
        /\ Sess!LastOf(s)'.byte = Final(b)
    BY PollData, Zenon
  <1>2. d' = Append(d, b)
    <2>1. IF is_running[s] /\ client_closing[s] = "no"
          THEN DataOf(to_client[s])' = Append(DataOf(to_client[s]), Forwarded(s))
          ELSE DataOf(to_client[s])' = DataOf(to_client[s])
      BY PollsDown, Zenon DEF EInv
    <2>. QED  BY <1>1, <2>1
  <1>3. d \in Seq(R) /\ Chained(d)
    BY DEF DownEnd
  <1>4. d # <<>> => b[1] = LastByte(d) + 1
    <2>. SUFFICES ASSUME d # <<>> PROVE b[1] = LastByte(d) + 1
      OBVIOUS
    <2>1. forwarded[s] # <<>> /\ LastByte(d) = Sess!LastOf(s).byte
      BY DEF DownEnd, Listening
    <2>2. Len(forwarded[s]) > 0
      <3>1. forwarded[s] \in Seq(Pair)
        BY DEF EInv, DInv, DownInv, ServerType
      <3>. QED  BY <2>1, <3>1
    <2>3. Sess!LastOf(s).opening = uart_dev[s].opening
      BY <1>1, <2>1 DEF OneOpening
    <2>4. Sess!LastOf(s).byte = Sess!Passed(uart_dev[s].path)
      BY <1>1, <2>2, <2>3 DEF ServerInv, Sess!GInv, Sess!Continues
    <2>. QED  BY <1>1, <2>1, <2>4
  <1>5. Prefix(client_wrote'[s], DataOf(to_client[s])')
    BY DeliveredStep
  <1>. HIDE DEF b, d, R
  <1>6. /\ Append(d, b) \in Seq(R) /\ Append(d, b) # <<>>
        /\ Final(Append(d, b)) = b
    BY <1>1, <1>3 DEF Final
  <1>7. Chained(Append(d, b))
    BY <1>1, <1>3, <1>4, AppendChained DEF LastByte, Final
  <1>8. LastByte(Append(d, b)) = Sess!LastOf(s)'.byte
    BY <1>1, <1>6 DEF LastByte
  <1>. QED  BY <1>1, <1>2, <1>5, <1>6, <1>7, <1>8, DownEndPrimed, Zenon DEF d, R

LEMMA ListensOn ==
    ASSUME EInv, [Next]_vars, NEW s \in Sessions, Listening(s)'
    PROVE  Listening(s)
  <1>1. /\ life \in [Sessions -> {"free", "up", "fin", "gone"}]
        /\ client_closing \in [Sessions -> {"no", "fin", "rst"}]
    BY DEF EInv, DInv, LInv, LinkType, DownInv, StreamType
  <1>2. life[s] \in {"free", "up"}
    <2>1. life' = life \/ (\E t \in Sessions : \E to \in {"fin", "gone"} : life' = [life EXCEPT ![t] = to])
          \/ \E t \in Sessions : life[t] = "free" /\ life' = [life EXCEPT ![t] = "up"]
      <3>1. ASSUME NEW t \in Sessions, Connected(t)
            PROVE  life[t] = "free" /\ life' = [life EXCEPT ![t] = "up"]
        BY <3>1 DEF Connected, Server!Accept
      <3>2. ASSUME NEW t \in Sessions, ServerHandles(t)
            PROVE  life' = life \/ life' = [life EXCEPT ![t] = "gone"]
        BY <3>2, DispatchEffect DEF ServerHandles, EInv, DInv, LInv
      <3>3. ASSUME NEW t \in Sessions,
                   ServerPolls(t) \/ ServerPollRaises(t) \/ SeesEnd(t) \/ SeesReset(t)
            PROVE  life' = life \/ \E to \in {"fin", "gone"} : life' = [life EXCEPT ![t] = to]
        BY <3>3 DEF ServerPolls, ServerPollRaises, SeesEnd, SeesReset, Server!PollUart,
             Server!PollRaises, Server!ClientCloses, Server!ClientResets, Server!Exit
      <3>4. UNCHANGED serverVars => life' = life
        BY DEF serverVars
      <3>5. UNCHANGED vars => life' = life
        BY DEF vars, serverVars
      <3>6. ASSUME NEW p \in Ports, Server!UartReceives(p) PROVE life' = life
        BY <3>6 DEF Server!UartReceives
      <3>7. "gone" \in {"fin", "gone"}
        OBVIOUS
      <3>. QED  BY <3>1, <3>2, <3>3, <3>4, <3>5, <3>6, <3>7, Zenon DEF Next
    <2>. QED  BY <1>1, <2>1 DEF Listening
  <1>3. client_closing[s] = "no"
    <2>1. \/ client_closing' = client_closing
          \/ \E t \in Sessions \union {session} : \E to \in {"fin", "rst"} :
                client_closing' = [client_closing EXCEPT ![t] = to]
      <3>1. ASSUME NEW t \in Sessions, NEW packets, Replies(t, packets)
            PROVE  client_closing' = client_closing \/ client_closing' = [client_closing EXCEPT ![t] = "rst"]
        BY <3>1 DEF Replies
      <3>2. ASSUME NEW t \in Sessions, ServerHandles(t) \/ ServerPolls(t)
            PROVE  client_closing' = client_closing \/ client_closing' = [client_closing EXCEPT ![t] = "rst"]
        BY <3>1, <3>2, Zenon DEF ServerHandles, ServerPolls
      <3>3. ASSUME NEW t \in Sessions,
                   Connected(t) \/ ServerPollRaises(t) \/ SeesEnd(t) \/ SeesReset(t)
            PROVE  client_closing' = client_closing
        BY <3>3 DEF Connected, Connect, ServerPollRaises, SeesEnd, SeesReset, Quietly
      <3>4. UNCHANGED clientVars => client_closing' = client_closing
        BY DEF clientVars
      <3>5. UNCHANGED vars => client_closing' = client_closing
        BY DEF vars, clientVars
      <3>6. ASSUME ClientStep
            PROVE  client_closing' = client_closing
                   \/ \E to \in {"fin", "rst"} : client_closing' = [client_closing EXCEPT ![session] = to]
        BY <3>6 DEF ClientStep, AttemptFails, Restart, Closing, ClientHandleData,
             ClientHandleDataRaises, ClientHandleError, Reads, RecvRaises, ClientPoll,
             ClientPollRaises, LocalReceives
      <3>7. "rst" \in {"fin", "rst"} /\ session \in Sessions \union {session}
            /\ \A t \in Sessions : t \in Sessions \union {session}
        OBVIOUS
      <3>. QED  BY <3>2, <3>3, <3>4, <3>5, <3>6, <3>7, Zenon DEF Next
    <2>. QED  BY <1>1, <2>1 DEF Listening
  <1>. QED  BY <1>2, <1>3 DEF Listening

LEMMA DownEndStep ==
    ASSUME EInv, ServerInv, [Next]_vars, NEW s \in Sessions, OneOpening(s), DownEnd(s)
    PROVE  DownEnd(s)'
  <1>1. DownStep(s) /\ DInv /\ (Listening(s)' => Listening(s))
    BY DownNext, ListensOn DEF EInv
  <1>2. ASSUME to_client' = to_client, forwarded' = forwarded
        PROVE  DownEnd(s)'
    <2>1. DataOf(to_client[s])' = DataOf(to_client[s])
      BY <1>2, Primed, Zenon
    <2>. QED  BY <1>1, <1>2, <2>1, NothingForwarded
  <1>3. ASSUME NEW t \in Sessions, ServerHandles(t)
        PROVE  DownEnd(s)'
    <2>1. DataOf(to_client[s])' = DataOf(to_client[s])
      BY <1>1, <1>3, HandlesDown
    <2>2. forwarded' = forwarded
      BY <1>1, <1>3, DispatchPorts DEF ServerHandles, DInv, DownInv
    <2>. QED  BY <1>1, <2>1, <2>2, NothingForwarded
  <1>4. ASSUME NEW t \in Sessions, ServerPolls(t)
        PROVE  DownEnd(s)'
    <2>1. /\ \A u \in Sessions \ {t} : DataOf(to_client[u])' = DataOf(to_client[u])
          /\ IF is_running[t] /\ client_closing[t] = "no"
             THEN DataOf(to_client[t])' = Append(DataOf(to_client[t]), Forwarded(t))
             ELSE DataOf(to_client[t])' = DataOf(to_client[t])
      BY <1>1, <1>4, PollsDown, Zenon
    <2>2. /\ life[t] \in {"up", "fin"} /\ life' = life
          /\ life[t] = "fin" => forwarded' = forwarded
      BY <1>4 DEF ServerPolls, Server!PollUart
    <2>3. life[t] = "fin" => client_closing[t] # "no"
      BY <1>1 DEF DInv, DownInv, Flowing
    <2>4. CASE s # t
      <3>1. DataOf(to_client[s])' = DataOf(to_client[s])
        BY <2>1, <2>4
      <3>2. forwarded'[s] = forwarded[s]
        BY <1>4, <2>2, <2>4, PollData
      <3>. QED  BY <1>1, <3>1, <3>2, NothingForwarded
    <2>5. CASE s = t /\ life[s] = "up" /\ client_closing[s] = "no"
      BY <1>1, <1>4, <2>5, PollForwards
    <2>6. CASE s = t /\ client_closing[s] # "no"
      <3>1. DataOf(to_client[s])' = DataOf(to_client[s])
        BY <2>1, <2>6
      <3>2. ~Listening(s)'
        BY <1>1, <2>6 DEF Listening
      <3>. QED  BY <1>1, <3>1, <3>2, NothingForwarded
    <2>. QED  BY <2>2, <2>3, <2>4, <2>5, <2>6
  <1>5. ASSUME NEW t \in Sessions,
               Connected(t) \/ ServerPollRaises(t) \/ SeesEnd(t) \/ SeesReset(t)
        PROVE  DownEnd(s)'
    <2>1. to_client' = to_client /\ forwarded' = forwarded
      BY <1>5 DEF Connected, Connect, ServerPollRaises, SeesEnd, SeesReset, Quietly, Server!Accept,
           Server!PollRaises, Server!ClientCloses, Server!ClientResets, Server!Exit
    <2>. QED  BY <1>2, <2>1
  <1>6. CASE ClientStep /\ UNCHANGED <<serverVars, server_read, server_wrote>>
    <2>1. to_client' = to_client /\ forwarded' = forwarded
      BY <1>6 DEF serverVars, ClientStep, AttemptFails, Restart, ClientHandleData,
           ClientHandleDataRaises, ClientHandleError, Reads, RecvRaises, ClientPoll,
           ClientPollRaises, LocalReceives
    <2>. QED  BY <1>2, <2>1
  <1>7. ASSUME NEW p \in Ports, Server!UartReceives(p),
               UNCHANGED <<clientVars, server_read, server_wrote>>
        PROVE  DownEnd(s)'
    <2>1. to_client' = to_client /\ forwarded' = forwarded
      BY <1>7 DEF clientVars, Server!UartReceives
    <2>. QED  BY <1>2, <2>1
  <1>8. CASE UNCHANGED vars
    <2>1. to_client' = to_client /\ forwarded' = forwarded
      BY <1>8 DEF vars, clientVars, serverVars
    <2>. QED  BY <1>2, <2>1
  <1>. QED  BY <1>3, <1>4, <1>5, <1>6, <1>7, <1>8, Zenon DEF Next

LEMMA DownEndInit ==
    ASSUME Init, NEW s \in Sessions
    PROVE  DownEnd(s)
  <1>1. DataOf(to_client[s]) = <<>> /\ client_wrote[s] = <<>>
    BY DownInit DEF Downstream!Init
  <1>2. forwarded[s] = <<>>
    BY DEF Init, Server!Init
  <1>3. Chained(<<>>) /\ Prefix(<<>>, <<>>) /\ \A R : <<>> \in Seq(R)
    BY DEF Chained, Prefix
  <1>. QED  BY <1>1, <1>2, <1>3, Zenon DEF DownEnd

LEMMA DownEndHolds ==
    ASSUME ExclusiveOpen, ~CloseMayFail
    PROVE  Spec => [](\A s \in Sessions : OneOpening(s) /\ DownEnd(s))
  <1>. DEFINE Both == \A s \in Sessions : OneOpening(s) /\ DownEnd(s)
  <1>1. Init => Both
    BY OpeningInit, DownEndInit
  <1>2. EInv /\ ServerInv /\ Both /\ [Next]_vars => Both'
    BY OpeningStep, DownEndStep
  <1>3. Spec => []ServerInv
    BY ServerFacts DEF ServerInv
  <1>. HIDE DEF Both
  <1>4. Spec => []Both
    BY <1>1, <1>2, <1>3, EndsHold, PTL DEF Spec
  <1>. QED  BY <1>4 DEF Both

LEMMA PrefixRuns ==
    ASSUME NEW n \in Nat, NEW S, NEW a \in Seq(S), NEW b \in Seq(Runs(n)), Prefix(a, b), Chained(b)
    PROVE  Consecutive(FlattenSeq(a))
  <1>. DEFINE R == Runs(n)
  <1>1. a \in Seq(R)
    <2>. HIDE DEF R
    <2>1. b \in Seq(R)
      BY DEF R
    <2>2. Len(a) \in Nat /\ Len(b) \in Nat /\ a = [i \in 1..Len(a) |-> a[i]]
      OBVIOUS
    <2>3. \A i \in 1..Len(a) : a[i] \in R
      BY <2>1, <2>2 DEF Prefix
    <2>. QED  BY <2>2, <2>3
  <1>2. Chained(a)
    <2>. HIDE DEF R
    <2>. QED  BY <1>1, PrefixChained DEF R
  <1>. QED  BY <1>1, <1>2, FlatConsecutive

(* Whatever fails, what a session writes to its port is a run of bytes the *)
(* client's port has received, none missing, repeated or out of order: the *)
(* client may lose a connection, never a byte in the midst of one.         *)
THEOREM UpstreamConsecutive ==
    Spec => [](\A s \in Sessions : Consecutive(FlattenSeq(server_wrote[s])))
  <1>1. EInv /\ (\A s \in Sessions : UpEnd(s))
            => \A s \in Sessions : Consecutive(FlattenSeq(server_wrote[s]))
    <2>. SUFFICES ASSUME EInv, NEW s \in Sessions, UpEnd(s)
                  PROVE  Consecutive(FlattenSeq(server_wrote[s]))
      OBVIOUS
    <2>1. SentData(s) \in Seq(Runs(MaxLocal)) /\ server_wrote[s] \in Seq(Runs(MaxLocal))
      BY SentType DEF EInv, DInv
    <2>2. MaxLocal \in Nat
      BY ClientAssumption
    <2>. QED  BY <2>1, <2>2, PrefixRuns DEF UpEnd
  <1>. QED  BY <1>1, EndsHold, UpEndHolds, PTL

(* The same of both directions, for a server that opens no port twice and  *)
(* whose closing of a port does not fail.  Without either, another session *)
(* may read from the port this one serves.                                 *)
THEOREM EndToEndCorrect ==
    ASSUME ExclusiveOpen, ~CloseMayFail
    PROVE  Spec => []EndToEnd
  <1>1. EInv /\ (\A s \in Sessions : OneOpening(s) /\ DownEnd(s))
            => \A s \in Sessions : Consecutive(FlattenSeq(client_wrote[s]))
    <2>. SUFFICES ASSUME EInv, NEW s \in Sessions, DownEnd(s)
                  PROVE  Consecutive(FlattenSeq(client_wrote[s]))
      OBVIOUS
    <2>1. client_wrote[s] \in Seq(Val)
      BY DEF EInv, DInv, DownInv, StreamType
    <2>2. MaxRx \in Nat
      BY LinkAssumption
    <2>. QED  BY <2>1, <2>2, PrefixRuns DEF DownEnd
  <1>2. Spec => [](\A s \in Sessions : Consecutive(FlattenSeq(client_wrote[s])))
    BY <1>1, EndsHold, DownEndHolds, PTL
  <1>3. (\A s \in Sessions : Consecutive(FlattenSeq(server_wrote[s])))
        /\ (\A s \in Sessions : Consecutive(FlattenSeq(client_wrote[s]))) => EndToEnd
    BY Zenon DEF EndToEnd
  <1>. QED  BY <1>2, <1>3, UpstreamConsecutive, PTL
=============================================================================
