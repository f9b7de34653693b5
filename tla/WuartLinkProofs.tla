---------------------------- MODULE WuartLinkProofs ----------------------------
(***************************************************************************)
(* The theorems that each direction of a connection implements the channel *)
(* of PacketChannel, for any number of connections, bytes, opens and       *)
(* failures.                                                               *)
(*                                                                         *)
(* Every step puts one packet into the channel, takes the next one out of  *)
(* it, or changes neither end.  That it is the next one is what needs an   *)
(* invariant.  Towards the server (InStep): while a session runs, it has   *)
(* written all the data it has read, because it starts to run, if ever,    *)
(* with the opening, which comes before all data.  Towards the client      *)
(* (InTurn): while it handles a connection, it has written as many packets *)
(* as there are data packets among those it has read.                      *)
(***************************************************************************)
EXTENDS WuartLink, SequenceTheorems, FiniteSetTheorems, TLAPS

ToServer == [key : {"path", "baud", "start", "data"},
             val : {RemotePath, RemoteBaud, <<>>} \union Runs(MaxLocal)]

LinkType ==
    /\ life \in [Sessions -> {"free", "up", "fin", "gone"}]
    /\ DOMAIN is_running = Sessions
    /\ to_server \in [Sessions -> Seq(ToServer)]
    /\ server_read \in [Sessions -> Nat]
    /\ server_wrote \in [Sessions -> Seq(Runs(MaxLocal))]
    /\ stage = "handle" => session \in Sessions /\ life[session] # "free"

(* What waits in the client's port is the last that it has received. *)
LocalLatest ==
    /\ local_arrived \in 0..MaxLocal
    /\ local_pending \in Seq(Nat)
    /\ Len(local_pending) <= local_arrived
    /\ \A k \in 1..Len(local_pending) :
          local_pending[k] = local_arrived - Len(local_pending) + k
    /\ client_dev \/ local_pending = <<>>

(* A connection that is not there yet has carried nothing. *)
NotYet(s) == to_server[s] = <<>> /\ server_read[s] = 0 /\ server_wrote[s] = <<>>

Opened(s) ==
    /\ Len(to_server[s]) >= 3
    /\ to_server[s][1].key = "path"
    /\ to_server[s][2].key = "baud"
    /\ to_server[s][3].key = "start"
    /\ \A k \in 4..Len(to_server[s]) : to_server[s][k].key = "data" /\ to_server[s][k].val \in Runs(MaxLocal)

InStep(s) ==
    life[s] = "up" =>
        /\ server_read[s] < 3 => server_wrote[s] = <<>>
        /\ server_read[s] >= 3 /\ is_running[s] => Len(server_wrote[s]) = server_read[s] - 3

Carried(s) ==
    /\ life[s] = "free" => NotYet(s)
    /\ life[s] # "free" => Opened(s)
    /\ InStep(s)

LInv == LinkType /\ LocalLatest /\ \A s \in Sessions : Carried(s)

UpStep(s) == [Upstream(s)!Next]_(Upstream(s)!chan)

-----------------------------------------------------------------------------
LEMMA OpeningLength == Len(Opening) = 3
  BY DEF Opening

(* Steps that touch neither end of any channel. *)
LEMMA Still ==
    ASSUME NEW s \in Sessions, to_server'[s] = to_server[s], server_wrote'[s] = server_wrote[s]
    PROVE  UpStep(s)
  BY DEF UpStep, SentData, Upstream!chan

(* What may become of a connection that is not touched otherwise. *)
Moves(t) ==
    \/ life'[t] = life[t]
    \/ life[t] \in {"up", "fin"} /\ life'[t] \in {"fin", "gone"}

LEMMA StillCarried ==
    ASSUME NEW s \in Sessions, Carried(s),
           to_server'[s] = to_server[s], server_wrote'[s] = server_wrote[s],
           server_read'[s] = server_read[s], is_running'[s] = is_running[s],
           Moves(s)
    PROVE  Carried(s)'
  <1>1. NotYet(s)' = NotYet(s)
    BY DEF NotYet
  <1>2. Opened(s)' = Opened(s)
    BY DEF Opened
  <1>3. InStep(s)'
    BY Zenon DEF InStep, Carried, Moves
  <1>. QED  BY <1>1, <1>2, <1>3 DEF Carried, Moves

(* The client puts what waits in its port into the channel. *)
LEMMA PendingIsRun ==
    ASSUME LocalLatest, local_pending # <<>>
    PROVE  local_pending \in Runs(MaxLocal)
  <1>. DEFINE l == Len(local_pending)
              first == local_arrived - l
  <1>1. l \in Nat /\ l > 0 /\ l <= local_arrived /\ local_arrived \in Nat /\ MaxLocal \in Nat
        /\ local_arrived <= MaxLocal
    BY ClientAssumption DEF LocalLatest
  <1>2. first \in 0..MaxLocal /\ l \in 1..MaxLocal
    BY <1>1
  <1>3. local_pending = [k \in 1..l |-> first + k]
    BY DEF LocalLatest
  <1>4. ASSUME NEW f \in 0..MaxLocal, NEW n \in 1..MaxLocal
        PROVE  [k \in 1..n |-> f + k] \in Runs(MaxLocal)
    BY DEF Runs
  <1>. HIDE DEF l, first
  <1>. QED  BY <1>2, <1>3, <1>4

LEMMA Puts ==
    ASSUME LInv, NEW s \in Sessions, life[s] # "free",
           server_wrote' = server_wrote, server_read' = server_read, is_running' = is_running,
           life' = life,
           NEW run \in Runs(MaxLocal),
           to_server' = [to_server EXCEPT ![s] = Append(@, packet("data", run))]
    PROVE  /\ to_server' \in [Sessions -> Seq(ToServer)]
           /\ \A t \in Sessions : Carried(t)' /\ UpStep(t)
           /\ SentData(s)' = Append(SentData(s), run)
  <1>. DEFINE q == to_server[s]
              p == packet("data", run)
              n == Len(q)
  <1>1. p \in ToServer /\ p.key = "data" /\ p.val = run
    BY DEF ToServer, packet
  <1>2. q \in Seq(ToServer) /\ Opened(s)
    BY DEF LInv, LinkType, Carried
  <1>3. /\ to_server'[s] = Append(q, p)
        /\ \A t \in Sessions \ {s} : to_server'[t] = to_server[t]
    BY DEF LInv, LinkType
  <1>. HIDE DEF p
  <1>4. /\ n \in Nat /\ n >= 3
        /\ Append(q, p) \in Seq(ToServer)
        /\ Len(Append(q, p)) = n + 1
        /\ \A k \in 1..n : Append(q, p)[k] = q[k]
        /\ Append(q, p)[n + 1] = p
    BY <1>1, <1>2 DEF Opened
  <1>5. to_server' \in [Sessions -> Seq(ToServer)]
    <2>1. to_server' = [to_server EXCEPT ![s] = Append(q, p)]
      BY DEF p
    <2>. HIDE DEF q
    <2>. QED  BY <1>4, <2>1 DEF LInv, LinkType
  <1>6. Opened(s)'
    <2>1. ASSUME NEW k \in 4..(n + 1)
          PROVE  Append(q, p)[k].key = "data" /\ Append(q, p)[k].val \in Runs(MaxLocal)
      <3>1. CASE k = n + 1
        BY <1>1, <1>4, <3>1
      <3>2. CASE k \in 4..n
        BY <1>2, <1>4, <3>2 DEF Opened
      <3>. QED  BY <1>4, <3>1, <3>2
    <2>2. /\ Append(q, p)[1].key = "path"
          /\ Append(q, p)[2].key = "baud"
          /\ Append(q, p)[3].key = "start"
      BY <1>2, <1>4 DEF Opened
    <2>. QED  BY <1>3, <1>4, <2>1, <2>2 DEF Opened
  <1>7. Carried(s)'
    <2>1. InStep(s)'
      BY Zenon DEF LInv, Carried, InStep
    <2>. QED  BY <1>6, <2>1 DEF Carried
  <1>8. UpStep(s) /\ SentData(s)' = Append(SentData(s), run)
    <2>1. /\ SentData(s) = [k \in 1..(n - 3) |-> q[3 + k].val]
          /\ SentData(s)' = [k \in 1..(n + 1 - 3) |-> Append(q, p)[3 + k].val]
      BY <1>3, <1>4, OpeningLength DEF SentData
    <2>2. \A k \in 1..(n - 3) : q[3 + k].val \in Runs(MaxLocal)
      <3>1. \A k \in 4..n : q[k].val \in Runs(MaxLocal)
        BY <1>2 DEF Opened
      <3>2. \A k \in 1..(n - 3) : 3 + k \in 4..n
        BY <1>4
      <3>. QED  BY <3>1, <3>2
    <2>3. SentData(s) \in Seq(Runs(MaxLocal)) /\ Len(SentData(s)) = n - 3
      BY <1>4, <2>1, <2>2
    <2>4. SentData(s)' = Append(SentData(s), run)
      <3>. DEFINE R == Runs(MaxLocal)
      <3>1. /\ SentData(s)' \in Seq(R) /\ Len(SentData(s)') = n - 2
            /\ \A k \in 1..(n - 3) : SentData(s)'[k] = q[3 + k].val
            /\ SentData(s)'[n - 2] = run
        <4>1. \A k \in 1..(n - 3) : Append(q, p)[3 + k].val = q[3 + k].val
          BY <1>4
        <4>2. Append(q, p)[3 + (n - 2)].val = run
          BY <1>1, <1>4
        <4>3. n + 1 - 3 = n - 2 /\ n - 2 \in Nat
          BY <1>4
        <4>4. SentData(s)' = [k \in 1..(n - 2) |-> Append(q, p)[3 + k].val]
          BY <2>1, <4>3
        <4>5. \A k \in 1..(n - 2) : Append(q, p)[3 + k].val \in R
          BY <1>4, <2>2, <4>1, <4>2
        <4>. QED  BY <1>4, <4>1, <4>2, <4>3, <4>4, <4>5
      <3>2. \A k \in 1..(n - 3) : SentData(s)[k] = q[3 + k].val
        BY <1>4, <2>1
      <3>. DEFINE new == SentData(s)'
                  old == SentData(s)
      <3>3. run \in R /\ old \in Seq(R) /\ Len(old) = n - 3
        BY <2>3
      <3>4. /\ new \in Seq(R) /\ Len(new) = Len(old) + 1
            /\ \A k \in 1..Len(old) : new[k] = old[k]
            /\ new[Len(old) + 1] = run
        BY <1>4, <3>1, <3>2, <3>3
      <3>. HIDE DEF R, new, old
      <3>5. new = Append(old, run)
        <4>1. /\ Append(old, run) \in Seq(R) /\ Len(Append(old, run)) = Len(old) + 1
              /\ \A k \in 1..Len(old) : Append(old, run)[k] = old[k]
              /\ Append(old, run)[Len(old) + 1] = run
              /\ Len(old) \in Nat
          BY <3>3, AppendProperties
        <4>2. \A k \in 1..Len(new) : new[k] = Append(old, run)[k]
          BY <3>4, <4>1
        <4>. QED  BY <3>4, <4>1, <4>2, SeqEqual
      <3>. QED  BY <3>5 DEF new, old
    <2>. QED  BY <2>4 DEF UpStep, Upstream!Next, Upstream!Put
  <1>9. ASSUME NEW t \in Sessions \ {s} PROVE Carried(t)' /\ UpStep(t)
    <2>1. to_server'[t] = to_server[t] /\ server_wrote'[t] = server_wrote[t]
      BY <1>3
    <2>2. Carried(t)
      BY DEF LInv
    <2>3. server_read'[t] = server_read[t] /\ is_running'[t] = is_running[t]
      OBVIOUS
    <2>4. t \in Sessions
      OBVIOUS
    <2>5. Carried(t)'
      <3>1. Moves(t)
        BY DEF Moves
      <3>. QED  BY <2>1, <2>2, <2>3, <2>4, <3>1, StillCarried
    <2>6. UpStep(t)
      BY <2>1, <2>4, Still, Zenon
    <2>. QED  BY <2>5, <2>6
  <1>. QED  BY <1>5, <1>7, <1>8, <1>9

(* A session that reads a packet of the opening writes nothing. *)
LEMMA ReadsOpening ==
    ASSUME LInv, NEW s \in Sessions, life[s] = "up",
           server_read[s] < 3, server_read'[s] = server_read[s] + 1,
           to_server' = to_server, server_wrote' = server_wrote, life' = life
    PROVE  Carried(s)' /\ UpStep(s)
  <1>1. Opened(s) /\ server_wrote[s] = <<>> /\ server_read[s] \in Nat
    BY DEF LInv, LinkType, Carried, InStep
  <1>2. Opened(s)'
    BY <1>1 DEF Opened
  <1>3. InStep(s)'
    <2>1. server_wrote'[s] = <<>> /\ Len(<<>>) = 0
      BY <1>1
    <2>2. server_read'[s] >= 3 => server_read'[s] = 3
      BY <1>1
    <2>3. server_read'[s] >= 3 => Len(server_wrote'[s]) = server_read'[s] - 3
      BY <2>1, <2>2
    <2>. QED  BY <2>1, <2>3, Zenon DEF InStep
  <1>. QED  BY <1>2, <1>3, Still DEF Carried

(* ... one that is not running refuses data, and remains so. *)
LEMMA Refuses ==
    ASSUME LInv, NEW s \in Sessions, life[s] = "up",
           ~is_running[s], is_running'[s] = is_running[s],
           server_read[s] >= 3, server_read'[s] = server_read[s] + 1,
           to_server' = to_server, server_wrote' = server_wrote, life' = life
    PROVE  Carried(s)' /\ UpStep(s)
  <1>1. Opened(s) /\ server_read[s] \in Nat
    BY DEF LInv, LinkType, Carried
  <1>2. Opened(s)'
    BY <1>1 DEF Opened
  <1>3. InStep(s)'
    <2>1. ~(server_read'[s] < 3)
      BY <1>1
    <2>. QED  BY <2>1, Zenon DEF InStep
  <1>. QED  BY <1>2, <1>3, Still DEF Carried

(* ... and one that is running writes the next packet of the channel. *)
LEMMA Writes ==
    ASSUME LInv, NEW s \in Sessions, life[s] = "up",
           is_running[s],
           server_read[s] >= 3, server_read[s] < Len(to_server[s]),
           server_read'[s] = server_read[s] + 1,
           to_server' = to_server, life' = life,
           server_wrote'[s] = Append(server_wrote[s], to_server[s][server_read[s] + 1].val)
    PROVE  /\ to_server[s][server_read[s] + 1].val \in Runs(MaxLocal)
           /\ Carried(s)'
           /\ UpStep(s)
  <1>. DEFINE r == server_read[s]
              n == Len(to_server[s])
              wrote == server_wrote[s]
              R == Runs(MaxLocal)
              next == to_server[s][r + 1].val
  <1>1. /\ Opened(s) /\ r \in Nat /\ n \in Nat /\ r >= 3 /\ r < n
        /\ wrote \in Seq(R) /\ Len(wrote) = r - 3
    BY Zenon, SMT DEF LInv, LinkType, Carried, InStep
  <1>2. next \in R
    BY <1>1, SMTT(30) DEF Opened
  <1>3. Len(server_wrote'[s]) = server_read'[s] - 3 /\ ~(server_read'[s] < 3)
    <2>. HIDE DEF wrote, R, next
    <2>1. server_wrote'[s] = Append(wrote, next)
      BY DEF wrote, next
    <2>2. Len(Append(wrote, next)) = Len(wrote) + 1
      BY <1>1, <1>2, AppendProperties
    <2>. QED  BY <1>1, <2>1, <2>2
  <1>4. InStep(s)'
    BY <1>3, Zenon DEF InStep
  <1>5. Opened(s)'
    BY <1>1 DEF Opened
  <1>6. UpStep(s)
    <2>1. SentData(s) = [k \in 1..(n - 3) |-> to_server[s][3 + k].val]
      BY OpeningLength DEF SentData
    <2>2. \A k \in 1..(n - 3) : to_server[s][3 + k].val \in R
      <3>1. \A k \in 4..n : to_server[s][k].val \in R
        BY <1>1 DEF Opened
      <3>. HIDE DEF R
      <3>2. \A k \in 1..(n - 3) : 3 + k \in 4..n
        BY <1>1
      <3>. QED  BY <3>1, <3>2
    <2>3. Len(SentData(s)) = n - 3
      BY <1>1, <2>1, <2>2
    <2>4. Len(wrote) < Len(SentData(s)) /\ Len(wrote) + 1 = r - 2 /\ r - 2 \in 1..(n - 3)
      BY <1>1, <2>3
    <2>5. SentData(s)[Len(wrote) + 1] = next
      <3>1. SentData(s)[r - 2] = to_server[s][3 + (r - 2)].val
        BY <2>1, <2>4
      <3>2. 3 + (r - 2) = r + 1
        BY <1>1
      <3>. QED  BY <2>4, <3>1, <3>2
    <2>6. SentData(s)' = SentData(s)
      BY DEF SentData
    <2>. QED  BY <2>4, <2>5, <2>6 DEF UpStep, Upstream!Next, Upstream!Deliver
  <1>7. life'[s] # "free"
    OBVIOUS
  <1>. QED  BY <1>2, <1>4, <1>5, <1>6, <1>7 DEF Carried

-----------------------------------------------------------------------------
(* The client's port. *)
LEMMA LocalKept ==
    ASSUME LocalLatest, UNCHANGED <<local, client_dev>>
    PROVE  LocalLatest'
  BY DEF LocalLatest, local

LEMMA LocalCleared ==
    ASSUME LocalLatest, local_arrived' = local_arrived, local_pending' = <<>>
    PROVE  LocalLatest'
  BY DEF LocalLatest

LEMMA LocalOpened ==
    ASSUME LocalLatest, UartOpen
    PROVE  LocalLatest'
  <1>1. CASE client_dev' = client_dev
    BY <1>1 DEF UartOpen, LocalLatest
  <1>2. CASE client_dev' # client_dev
    BY <1>2, LocalCleared DEF UartOpen
  <1>. QED  BY <1>1, <1>2

LEMMA LocalGrows ==
    ASSUME LocalLatest, LocalReceives
    PROVE  LocalLatest'
  <1>1. local_arrived' = local_arrived + 1 /\ local_arrived' \in 0..MaxLocal /\ client_dev' = client_dev
    BY ClientAssumption DEF LocalReceives, LocalLatest, process
  <1>2. CASE client_dev
    <2>1. local_pending' = Append(local_pending, local_arrived + 1)
      BY <1>2 DEF LocalReceives
    <2>2. /\ local_pending' \in Seq(Nat)
          /\ Len(local_pending') = Len(local_pending) + 1
          /\ \A k \in 1..Len(local_pending) : local_pending'[k] = local_pending[k]
          /\ local_pending'[Len(local_pending) + 1] = local_arrived + 1
      BY <2>1 DEF LocalLatest
    <2>3. \A k \in 1..(Len(local_pending) + 1) :
             local_pending'[k] = local_arrived - Len(local_pending) + k
      <3>1. Len(local_pending) \in Nat /\ local_arrived \in Nat
        BY DEF LocalLatest
      <3>2. ASSUME NEW k \in 1..(Len(local_pending) + 1)
            PROVE  local_pending'[k] = local_arrived - Len(local_pending) + k
        <4>1. CASE k = Len(local_pending) + 1
          BY <2>2, <3>1, <4>1
        <4>2. CASE k \in 1..Len(local_pending)
          BY <2>2, <4>2 DEF LocalLatest
        <4>. QED  BY <3>1, <4>1, <4>2
      <3>. QED  BY <3>2
    <2>. QED  BY <1>1, <1>2, <2>2, <2>3 DEF LocalLatest
  <1>3. CASE ~client_dev
    <2>1. local_pending' = <<>>
      BY <1>3 DEF LocalReceives, LocalLatest
    <2>. QED  BY <1>1, <2>1 DEF LocalLatest
  <1>. QED  BY <1>2, <1>3

(* Whether the other sessions are running is not touched. *)
LEMMA StartRuns ==
    ASSUME LinkType, NEW s \in Sessions, NEW path, NEW baud, NEW errs,
           Server!Start(s, path, baud, errs) \/ Server!StartIfReady(s, path, baud, errs)
    PROVE  /\ DOMAIN is_running' = Sessions
           /\ \A t \in Sessions \ {s} : is_running'[t] = is_running[t]
  <1>1. CASE Server!Start(s, path, baud, errs)
    <2>1. PICK o : is_running' = [is_running EXCEPT ![s] = is_running[s] \/ o.ok]
      BY <1>1, Zenon DEF Server!Start
    <2>. QED  BY <2>1, Zenon DEF LinkType
  <1>2. CASE ~Server!Start(s, path, baud, errs)
    <2>1. is_running' = is_running
      BY <1>2, Zenon DEF Server!StartIfReady
    <2>. QED  BY <2>1 DEF LinkType
  <1>. QED  BY <1>1, <1>2

LEMMA DispatchEffect ==
    ASSUME LinkType, NEW s \in Sessions, NEW p, Dispatch(s, p)
    PROVE  /\ life[s] = "up"
           /\ DOMAIN is_running' = Sessions
           /\ \A t \in Sessions \ {s} : is_running'[t] = is_running[t] /\ life'[t] = life[t]
           /\ \/ /\ p.key \in {"path", "baud", "start"}
                 /\ life' = life /\ server_wrote' = server_wrote
              \/ /\ p.key = "data"
                 /\ ~is_running[s] /\ is_running' = is_running
                 /\ life' = life /\ server_wrote' = server_wrote
              \/ /\ p.key = "data"
                 /\ is_running[s] /\ is_running' = is_running
                 /\ life' = life
                 /\ server_wrote' = [server_wrote EXCEPT ![s] = Append(@, p.val)]
              \/ /\ life' = [life EXCEPT ![s] = "gone"]
                 /\ is_running' = is_running
                 /\ server_wrote' = server_wrote
  <1>1. CASE p.key = "path" /\ Server!HandlePath(s) /\ UNCHANGED server_wrote
    <2>1. PICK path : Server!StartIfReady(s, path, uart_baud[s], 0)
      BY <1>1, Zenon DEF Server!HandlePath
    <2>2. life' = life /\ life[s] = "up"
      BY <1>1 DEF Server!HandlePath, Server!Stays, Server!Request
    <2>. QED  BY <1>1, <2>1, <2>2, StartRuns
  <1>2. CASE p.key = "baud" /\ Server!HandleBaud(s) /\ UNCHANGED server_wrote
    <2>1. PICK baud : Server!StartIfReady(s, uart_path[s], baud, 0)
      BY <1>2, Zenon DEF Server!HandleBaud
    <2>2. life' = life /\ life[s] = "up"
      BY <1>2 DEF Server!HandleBaud, Server!Stays, Server!Request
    <2>. QED  BY <1>2, <2>1, <2>2, StartRuns
  <1>3. CASE p.key = "start" /\ Server!HandleStart(s) /\ UNCHANGED server_wrote
    <2>1. Server!Start(s, uart_path[s], uart_baud[s], 0)
      BY <1>3, Zenon DEF Server!HandleStart
    <2>2. life' = life /\ life[s] = "up"
      BY <1>3 DEF Server!HandleStart, Server!Stays, Server!Request
    <2>. QED  BY <1>3, <2>1, <2>2, StartRuns
  <1>4. CASE p.key = "data" /\ Server!HandleDataRefused(s) /\ UNCHANGED server_wrote
    <2>1. life' = life /\ life[s] = "up" /\ is_running' = is_running
      BY <1>4 DEF Server!HandleDataRefused, Server!Refuse, Server!Stays, Server!Request
    <2>2. ~is_running[s]
      BY <1>4 DEF Server!HandleDataRefused
    <2>. QED  BY <1>4, <2>1, <2>2 DEF LinkType
  <1>5. CASE p.key = "data" /\ Server!HandleDataRaises(s) /\ UNCHANGED server_wrote
    <2>1. life[s] = "up" /\ life' = [life EXCEPT ![s] = "gone"] /\ is_running' = is_running
      BY <1>5 DEF Server!HandleDataRaises, Server!Exit, Server!Request
    <2>. QED  BY <1>5, <2>1 DEF LinkType
  <1>6. CASE /\ p.key = "data" /\ Server!HandleDataWritten(s)
             /\ server_wrote' = [server_wrote EXCEPT ![s] = Append(@, p.val)]
    <2>1. life' = life /\ life[s] = "up" /\ is_running' = is_running
      BY <1>6 DEF Server!HandleDataWritten, Server!Stays, Server!Request
    <2>2. is_running[s]
      BY <1>6 DEF Server!HandleDataWritten
    <2>. QED  BY <1>6, <2>1, <2>2 DEF LinkType
  <1>. QED  BY <1>1, <1>2, <1>3, <1>4, <1>5, <1>6, Zenon DEF Dispatch

-----------------------------------------------------------------------------
(* Steps that neither put nor write data, nor read a packet. *)
LEMMA NoData ==
    ASSUME LInv, LocalLatest',
           UNCHANGED <<to_server, server_read, server_wrote, is_running>>,
           life' \in [Sessions -> {"free", "up", "fin", "gone"}],
           \A t \in Sessions : Moves(t),
           stage' = "apart" \/ UNCHANGED <<stage, session>>
    PROVE  LInv' /\ \A t \in Sessions : UpStep(t)
  <1>1. ASSUME NEW t \in Sessions PROVE Carried(t)' /\ UpStep(t)
    <2>1. Carried(t) /\ Moves(t)
      BY DEF LInv
    <2>. QED  BY <2>1, StillCarried, Still
  <1>2. LinkType'
    <2>1. stage' = "handle" => session' \in Sessions /\ life'[session'] # "free"
      BY DEF LInv, LinkType, Moves
    <2>. QED  BY <2>1 DEF LInv, LinkType
  <1>. QED  BY <1>1, <1>2 DEF LInv

LEMMA ConnectedStep ==
    ASSUME LInv, NEW s \in Sessions, Connected(s)
    PROVE  LInv' /\ \A t \in Sessions : UpStep(t)
  <1>1. /\ life[s] = "free" /\ life' = [life EXCEPT ![s] = "up"]
        /\ to_server' = [to_server EXCEPT ![s] = Opening]
        /\ UNCHANGED <<is_running, server_read, server_wrote>>
        /\ stage' = "handle" /\ session' = s
        /\ UartOpen
    BY DEF Connected, Connect, Server!Accept
  <1>2. LocalLatest'
    BY <1>1, LocalOpened DEF LInv
  <1>3. Opening \in Seq(ToServer)
    <2>1. /\ packet("path", RemotePath) \in ToServer
          /\ packet("baud", RemoteBaud) \in ToServer
          /\ packet("start", <<>>) \in ToServer
      BY DEF ToServer, packet
    <2>. QED  BY <2>1 DEF Opening
  <1>4. LinkType'
    <2>1. life' \in [Sessions -> {"free", "up", "fin", "gone"}] /\ life'[s] = "up"
      BY <1>1 DEF LInv, LinkType
    <2>2. to_server' \in [Sessions -> Seq(ToServer)]
      BY <1>1, <1>3 DEF LInv, LinkType
    <2>. QED  BY <1>1, <2>1, <2>2 DEF LInv, LinkType
  <1>5. /\ to_server[s] = <<>> /\ server_read[s] = 0 /\ server_wrote[s] = <<>>
        /\ to_server'[s] = Opening /\ life'[s] = "up"
    BY <1>1 DEF LInv, LinkType, Carried, NotYet
  <1>6. Carried(s)'
    <2>1. Opened(s)'
      BY <1>5, OpeningLength DEF Opened, Opening, packet
    <2>2. InStep(s)'
      <3>1. server_read'[s] = 0 /\ server_wrote'[s] = <<>> /\ ~(server_read'[s] >= 3)
        BY <1>1, <1>5
      <3>. QED  BY <3>1, Zenon DEF InStep
    <2>. QED  BY <1>5, <2>1, <2>2 DEF Carried
  <1>7. UpStep(s)
    <2>1. Len(to_server[s]) - Len(Opening) = -3 /\ Len(to_server'[s]) - Len(Opening) = 0
      BY <1>5, OpeningLength
    <2>2. SentData(s) = <<>> /\ SentData(s)' = <<>>
      <3>1. 1..(-3) = {} /\ 1..0 = {}
        OBVIOUS
      <3>2. SentData(s) = [k \in {} |-> to_server[s][Len(Opening) + k].val]
        BY <2>1, <3>1, Zenon DEF SentData
      <3>3. SentData(s)' = [k \in {} |-> to_server'[s][Len(Opening) + k].val]
        BY <2>1, <3>1, Zenon DEF SentData
      <3>. QED  BY <3>2, <3>3
    <2>. QED  BY <1>1, <2>2 DEF UpStep, Upstream!chan
  <1>8. ASSUME NEW t \in Sessions \ {s} PROVE Carried(t)' /\ UpStep(t)
    <2>1. /\ to_server'[t] = to_server[t] /\ life'[t] = life[t]
          /\ UNCHANGED <<is_running, server_read, server_wrote>>
      BY <1>1 DEF LInv, LinkType
    <2>2. Carried(t) /\ Moves(t)
      BY <2>1 DEF LInv, Moves
    <2>. QED  BY <2>1, <2>2, StillCarried, Still
  <1>. QED  BY <1>2, <1>4, <1>6, <1>7, <1>8 DEF LInv

LEMMA HandlesStep ==
    ASSUME LInv, NEW s \in Sessions, ServerHandles(s)
    PROVE  LInv' /\ \A t \in Sessions : UpStep(t)
  <1>. DEFINE r == server_read[s]
              p == to_server[s][r + 1]
  <1>1. /\ Dispatch(s, p) /\ r < Len(to_server[s])
        /\ server_read' = [server_read EXCEPT ![s] = @ + 1]
        /\ UNCHANGED <<stage, session, client_dev, local, to_server>>
    BY DEF ServerHandles, process
  <1>2. LinkType /\ LocalLatest /\ Carried(s) /\ LocalLatest'
    BY <1>1, LocalKept DEF LInv
  <1>3. /\ r \in Nat /\ server_read'[s] = r + 1
        /\ \A t \in Sessions \ {s} : server_read'[t] = server_read[t]
        /\ server_read' \in [Sessions -> Nat]
    BY <1>1, <1>2 DEF LinkType
  <1>. HIDE DEF p
  <1>4. /\ life[s] = "up"
        /\ DOMAIN is_running' = Sessions
        /\ \A t \in Sessions \ {s} : is_running'[t] = is_running[t] /\ life'[t] = life[t]
        /\ \/ /\ p.key \in {"path", "baud", "start"}
              /\ life' = life /\ server_wrote' = server_wrote
           \/ /\ p.key = "data"
              /\ ~is_running[s] /\ is_running' = is_running
              /\ life' = life /\ server_wrote' = server_wrote
           \/ /\ p.key = "data"
              /\ is_running[s] /\ is_running' = is_running
              /\ life' = life
              /\ server_wrote' = [server_wrote EXCEPT ![s] = Append(@, p.val)]
           \/ /\ life' = [life EXCEPT ![s] = "gone"]
              /\ is_running' = is_running
              /\ server_wrote' = server_wrote
    BY <1>1, <1>2, DispatchEffect, Zenon
  <1>5. Opened(s)
    BY <1>2, <1>4 DEF Carried
  <1>6. /\ r < 3 => p.key \in {"path", "baud", "start"}
        /\ r >= 3 => p.key = "data"
    <2>1. CASE r \in {0, 1, 2}
      BY <1>5, <2>1 DEF Opened, p
    <2>2. CASE r >= 3
      <3>1. r + 1 \in 4..Len(to_server[s])
        BY <1>1, <1>3, <1>5, <2>2 DEF Opened
      <3>. QED  BY <1>3, <1>5, <2>2, <3>1 DEF Opened, p
    <2>. QED  BY <1>3, <2>1, <2>2
  <1>7. /\ Carried(s)' /\ UpStep(s)
        /\ server_wrote' \in [Sessions -> Seq(Runs(MaxLocal))]
        /\ \A t \in Sessions \ {s} : server_wrote'[t] = server_wrote[t]
        /\ life' \in [Sessions -> {"free", "up", "fin", "gone"}]
        /\ life'[s] # "free"
    <2>1. CASE /\ p.key \in {"path", "baud", "start"}
               /\ life' = life /\ server_wrote' = server_wrote
      <3>1. r < 3
        BY <1>3, <1>6, <2>1
      <3>. QED  BY <1>1, <1>2, <1>3, <1>4, <2>1, <3>1, ReadsOpening DEF LinkType
    <2>2. CASE /\ p.key = "data"
               /\ ~is_running[s] /\ is_running' = is_running
               /\ life' = life /\ server_wrote' = server_wrote
      <3>1. r >= 3
        BY <1>3, <1>6, <2>2
      <3>2. Carried(s)' /\ UpStep(s)
        BY <1>1, <1>3, <1>4, <2>2, <3>1, Refuses
      <3>. QED  BY <1>2, <1>4, <2>2, <3>2 DEF LinkType
    <2>3. CASE /\ p.key = "data"
               /\ is_running[s] /\ is_running' = is_running
               /\ life' = life
               /\ server_wrote' = [server_wrote EXCEPT ![s] = Append(@, p.val)]
      <3>1. r >= 3
        BY <1>3, <1>6, <2>3
      <3>2. server_wrote'[s] = Append(server_wrote[s], to_server[s][r + 1].val)
        BY <1>2, <2>3 DEF LinkType, p
      <3>3. /\ to_server[s][r + 1].val \in Runs(MaxLocal)
            /\ Carried(s)' /\ UpStep(s)
        BY <1>1, <1>3, <1>4, <2>3, <3>1, <3>2, Writes
      <3>4. server_wrote' \in [Sessions -> Seq(Runs(MaxLocal))]
        <4>. DEFINE R == Runs(MaxLocal)
        <4>1. server_wrote \in [Sessions -> Seq(R)] /\ p.val \in R
          BY <1>2, <3>3 DEF LinkType, p
        <4>. HIDE DEF R
        <4>2. server_wrote' \in [Sessions -> Seq(R)]
          BY <2>3, <4>1
        <4>. QED  BY <4>2 DEF R
      <3>. QED  BY <1>2, <1>4, <2>3, <3>3, <3>4 DEF LinkType
    <2>4. CASE /\ life' = [life EXCEPT ![s] = "gone"]
               /\ is_running' = is_running
               /\ server_wrote' = server_wrote
      <3>1. life' \in [Sessions -> {"free", "up", "fin", "gone"}] /\ life'[s] = "gone"
        BY <1>2, <2>4 DEF LinkType
      <3>2. Opened(s)'
        BY <1>1, <1>5 DEF Opened
      <3>3. Carried(s)'
        BY <3>1, <3>2 DEF Carried, InStep
      <3>4. UpStep(s)
        BY <1>1, <2>4, Still
      <3>. QED  BY <1>2, <2>4, <3>1, <3>3, <3>4 DEF LinkType
    <2>. QED  BY <1>4, <2>1, <2>2, <2>3, <2>4
  <1>8. ASSUME NEW t \in Sessions \ {s} PROVE Carried(t)' /\ UpStep(t)
    <2>1. /\ to_server'[t] = to_server[t] /\ server_wrote'[t] = server_wrote[t]
          /\ server_read'[t] = server_read[t] /\ is_running'[t] = is_running[t]
          /\ life'[t] = life[t]
      BY <1>1, <1>3, <1>4, <1>7
    <2>2. Carried(t) /\ Moves(t)
      BY <2>1 DEF LInv, Moves
    <2>. QED  BY <2>1, <2>2, StillCarried, Still
  <1>9. LinkType'
    <2>1. stage' = "handle" => session' \in Sessions /\ life'[session'] # "free"
      BY <1>1, <1>2, <1>4, <1>7 DEF LinkType
    <2>. QED  BY <1>1, <1>2, <1>3, <1>4, <1>7, <2>1 DEF LinkType
  <1>. QED  BY <1>2, <1>7, <1>8, <1>9 DEF LInv

(* The other steps of a session. *)
LEMMA SessionStep ==
    ASSUME LInv, NEW s \in Sessions,
           ServerPolls(s) \/ ServerPollRaises(s) \/ SeesEnd(s) \/ SeesReset(s)
    PROVE  LInv' /\ \A t \in Sessions : UpStep(t)
  <1>1. /\ UNCHANGED <<to_server, server_read, server_wrote>>
        /\ UNCHANGED <<stage, session, client_dev, local>>
    BY DEF ServerPolls, ServerPollRaises, SeesEnd, SeesReset, Quietly, process
  <1>2. /\ UNCHANGED is_running
        /\ \/ life' = life
           \/ life[s] \in {"up", "fin"}
              /\ (life' = [life EXCEPT ![s] = "fin"] \/ life' = [life EXCEPT ![s] = "gone"])
    BY DEF ServerPolls, ServerPollRaises, SeesEnd, SeesReset, Server!PollUart,
           Server!PollRaises, Server!ClientCloses, Server!ClientResets, Server!Exit
  <1>3. /\ life' \in [Sessions -> {"free", "up", "fin", "gone"}]
        /\ \A t \in Sessions : Moves(t)
    BY <1>2 DEF LInv, LinkType, Moves
  <1>4. LocalLatest'
    BY <1>1, LocalKept DEF LInv
  <1>. QED  BY <1>1, <1>2, <1>3, <1>4, NoData

LEMMA ClientStepKeeps ==
    ASSUME LInv, ClientStep, UNCHANGED <<life, is_running, server_read, server_wrote>>
    PROVE  LInv' /\ \A t \in Sessions : UpStep(t)
  <1>1. LocalLatest /\ life' \in [Sessions -> {"free", "up", "fin", "gone"}]
        /\ \A t \in Sessions : Moves(t)
    BY DEF LInv, LinkType, Moves
  <1>2. CASE AttemptFails
    <2>1. LocalLatest'
      BY <1>1, <1>2, LocalOpened DEF AttemptFails
    <2>. QED  BY <1>1, <1>2, <2>1, NoData DEF AttemptFails
  <1>3. CASE Restart
    <2>1. LocalLatest'
      BY <1>1, <1>3, LocalCleared DEF Restart
    <2>. QED  BY <1>1, <1>3, <2>1, NoData DEF Restart
  <1>4. CASE ClientHandleData \/ ClientHandleError
    <2>1. LocalLatest'
      BY <1>1, <1>4, LocalKept DEF ClientHandleData, ClientHandleError, process
    <2>. QED  BY <1>1, <1>4, <2>1, NoData DEF ClientHandleData, ClientHandleError, Reads, process
  <1>5. CASE ClientHandleDataRaises \/ RecvRaises \/ ClientPollRaises
    <2>1. stage' = "apart" /\ UNCHANGED <<client_dev, local, to_server>>
      BY <1>5 DEF ClientHandleDataRaises, RecvRaises, ClientPollRaises, Leave, Reads
    <2>2. LocalLatest'
      BY <1>1, <2>1, LocalKept
    <2>. QED  BY <1>1, <2>1, <2>2, NoData
  <1>6. CASE LocalReceives
    <2>1. LocalLatest'
      BY <1>1, <1>6, LocalGrows
    <2>. QED  BY <1>1, <1>6, <2>1, NoData DEF LocalReceives, process
  <1>7. CASE ClientPoll
    <2>1. /\ stage = "handle" /\ local_pending # <<>>
          /\ local_pending' = <<>> /\ local_arrived' = local_arrived
          /\ SendToServer(packet("data", local_pending))
          /\ UNCHANGED <<stage, session>>
      BY <1>7 DEF ClientPoll, process
    <2>2. LocalLatest'
      BY <1>1, <2>1, LocalCleared
    <2>3. CASE UNCHANGED to_server
      BY <1>1, <2>1, <2>2, <2>3, NoData
    <2>4. CASE to_server' = [to_server EXCEPT ![session] =
                               Append(@, packet("data", local_pending))]
      <3>1. session \in Sessions /\ life[session] # "free"
        BY <2>1 DEF LInv, LinkType
      <3>2. local_pending \in Runs(MaxLocal)
        BY <1>1, <2>1, PendingIsRun
      <3>3. /\ to_server' \in [Sessions -> Seq(ToServer)]
            /\ \A t \in Sessions : Carried(t)' /\ UpStep(t)
        BY <2>4, <3>1, <3>2, Puts
      <3>4. LinkType'
        BY <2>1, <3>1, <3>3 DEF LInv, LinkType
      <3>. QED  BY <2>2, <3>3, <3>4 DEF LInv
    <2>. QED  BY <2>1, <2>3, <2>4 DEF SendToServer
  <1>. QED  BY <1>2, <1>3, <1>4, <1>5, <1>6, <1>7 DEF ClientStep

-----------------------------------------------------------------------------
LEMMA LinkInit ==
    ASSUME Init
    PROVE  LInv /\ \A s \in Sessions : Upstream(s)!Init
  <1>1. /\ stage = "apart" /\ local_arrived = 0 /\ local_pending = <<>>
        /\ to_server = [s \in Sessions |-> <<>>]
        /\ server_read = [s \in Sessions |-> 0]
        /\ server_wrote = [s \in Sessions |-> <<>>]
        /\ life = [s \in Sessions |-> "free"]
        /\ is_running = [s \in Sessions |-> FALSE]
    BY DEF Init, ClientInit, Server!Init
  <1>2. LinkType /\ LocalLatest
    BY <1>1, ClientAssumption DEF LinkType, LocalLatest
  <1>3. ASSUME NEW s \in Sessions PROVE Carried(s)
    BY <1>1 DEF Carried, NotYet, InStep
  <1>4. ASSUME NEW s \in Sessions PROVE Upstream(s)!Init
    <2>1. Len(to_server[s]) - Len(Opening) = -3 /\ 1..(-3) = {}
      BY <1>1, OpeningLength
    <2>2. SentData(s) = [k \in {} |-> to_server[s][Len(Opening) + k].val]
      BY <2>1, Zenon DEF SentData
    <2>. QED  BY <1>1, <2>2 DEF Upstream!Init
  <1>. QED  BY <1>2, <1>3, <1>4 DEF LInv

LEMMA LinkStep ==
    ASSUME LInv, [Next]_vars
    PROVE  LInv' /\ \A s \in Sessions : UpStep(s)
  <1>1. CASE UNCHANGED vars
    <2>1. /\ UNCHANGED <<to_server, server_read, server_wrote, is_running, life, stage, session>>
          /\ UNCHANGED <<local, client_dev>>
      BY <1>1 DEF vars, clientVars, serverVars, process
    <2>2. LocalLatest' /\ life' \in [Sessions -> {"free", "up", "fin", "gone"}]
          /\ \A t \in Sessions : Moves(t)
      BY <2>1, LocalKept DEF LInv, LinkType, Moves
    <2>. QED  BY <2>1, <2>2, NoData
  <1>2. ASSUME NEW s \in Sessions, Connected(s)
        PROVE  LInv' /\ \A t \in Sessions : UpStep(t)
    BY <1>2, ConnectedStep
  <1>3. ASSUME NEW s \in Sessions, ServerHandles(s)
        PROVE  LInv' /\ \A t \in Sessions : UpStep(t)
    BY <1>3, HandlesStep
  <1>4. ASSUME NEW s \in Sessions,
               ServerPolls(s) \/ ServerPollRaises(s) \/ SeesEnd(s) \/ SeesReset(s)
        PROVE  LInv' /\ \A t \in Sessions : UpStep(t)
    BY <1>4, SessionStep
  <1>5. CASE ClientStep /\ UNCHANGED <<serverVars, server_read, server_wrote>>
    BY <1>5, ClientStepKeeps DEF serverVars
  <1>6. ASSUME NEW p \in Ports, Server!UartReceives(p),
               UNCHANGED <<clientVars, server_read, server_wrote>>
        PROVE  LInv' /\ \A t \in Sessions : UpStep(t)
    <2>1. /\ UNCHANGED <<to_server, server_read, server_wrote, is_running, life, stage, session>>
          /\ UNCHANGED <<local, client_dev>>
      BY <1>6 DEF clientVars, process, Server!UartReceives
    <2>2. LocalLatest' /\ life' \in [Sessions -> {"free", "up", "fin", "gone"}]
          /\ \A t \in Sessions : Moves(t)
      BY <2>1, LocalKept DEF LInv, LinkType, Moves
    <2>. QED  BY <2>1, <2>2, NoData
  <1>. QED  BY <1>1, <1>2, <1>3, <1>4, <1>5, <1>6, Zenon DEF Next

(* The way of the client's data to the remote port is a channel: the       *)
(* session of a connection writes, packet for packet, what the client put  *)
(* on the connection, and stops for good where it does not, whatever       *)
(* fails, closes or comes late at either end.                              *)
THEOREM UpstreamImplemented == Spec => UpstreamSpec
  <1>. DEFINE Steps == \A s \in Sessions : UpStep(s)
  <1>1. Init => LInv /\ \A s \in Sessions : Upstream(s)!Init
    BY LinkInit
  <1>2. LInv /\ [Next]_vars => LInv' /\ Steps
    BY LinkStep
  <1>3. Spec => []LInv
    BY <1>1, <1>2, PTL DEF Spec
  <1>4. Spec => [][Steps]_vars
    BY <1>2, <1>3, PTL DEF Spec
  <1>. QED  BY <1>1, <1>4, PTL DEF Spec, UpstreamSpec, UpStep

-----------------------------------------------------------------------------
(***************************************************************************)
(* The theorem that the way from the server's port to the client           *)
(* implements the channel of PacketChannel too.  It differs from the other *)
(* direction in that a session sends errors between its data, so that the  *)
(* place of a packet in the stream is not its place in the channel: the    *)
(* invariant (InTurn) counts the data packets among those the client has   *)
(* read.                                                                   *)
(***************************************************************************)
ToClient == [key : {"data", "error"}, val : {<<>>} \union Runs(MaxRx)]

-----------------------------------------------------------------------------
(* The data packets of a stream. *)
LEMMA DataAtFinite ==
    ASSUME NEW q \in Seq(ToClient)
    PROVE  /\ DataAt(q) \subseteq 1..Len(q)
           /\ IsFiniteSet(DataAt(q)) /\ Cardinality(DataAt(q)) \in Nat
           /\ \A i : IsFiniteSet(UpTo(q, i)) /\ Cardinality(UpTo(q, i)) \in Nat
                     /\ Cardinality(UpTo(q, i)) <= Cardinality(DataAt(q))
  <1>1. DataAt(q) \subseteq 1..Len(q)
    BY DEF DataAt
  <1>2. IsFiniteSet(1..Len(q))
    BY FS_Interval
  <1>3. IsFiniteSet(DataAt(q)) /\ Cardinality(DataAt(q)) \in Nat
    BY <1>1, <1>2, FS_Subset, FS_CardinalityType
  <1>4. ASSUME NEW i
        PROVE  IsFiniteSet(UpTo(q, i)) /\ Cardinality(UpTo(q, i)) \in Nat
               /\ Cardinality(UpTo(q, i)) <= Cardinality(DataAt(q))
    <2>1. UpTo(q, i) \subseteq DataAt(q)
      BY DEF UpTo
    <2>. QED  BY <1>3, <2>1, FS_Subset, FS_CardinalityType
  <1>. QED  BY <1>1, <1>3, <1>4

LEMMA DataOfType ==
    ASSUME NEW q \in Seq(ToClient)
    PROVE  DOMAIN DataOf(q) = 1..Cardinality(DataAt(q)) /\ Cardinality(DataAt(q)) \in Nat
  BY DataAtFinite DEF DataOf

(* How many data packets have been read after one packet more. *)
LEMMA NextError ==
    ASSUME NEW q \in Seq(ToClient), NEW r \in Nat, r < Len(q), q[r + 1].key # "data"
    PROVE  UpTo(q, r + 1) = UpTo(q, r)
  <1>1. ASSUME NEW k \in DataAt(q), k <= r + 1
        PROVE  k <= r
    BY <1>1, DataAtFinite DEF DataAt
  <1>2. ASSUME NEW k \in DataAt(q), k <= r
        PROVE  k <= r + 1
    BY <1>2, DataAtFinite
  <1>. QED  BY <1>1, <1>2, Zenon DEF UpTo

LEMMA NextData ==
    ASSUME NEW q \in Seq(ToClient), NEW r \in Nat, r < Len(q), q[r + 1].key = "data"
    PROVE  LET c == Cardinality(UpTo(q, r))
           IN  /\ c \in Nat /\ c + 1 \in 1..Cardinality(DataAt(q))
               /\ Cardinality(UpTo(q, r + 1)) = c + 1
               /\ DataOf(q)[c + 1] = q[r + 1].val
  <1>. DEFINE c == Cardinality(UpTo(q, r))
  <1>1. r + 1 \in DataAt(q)
    BY DEF DataAt
  <1>2. UpTo(q, r + 1) = UpTo(q, r) \union {r + 1} /\ r + 1 \notin UpTo(q, r)
    <2>1. ASSUME NEW k \in DataAt(q)
          PROVE  /\ k <= r + 1 <=> k <= r \/ k = r + 1
                 /\ k \in Nat
      BY DataAtFinite
    <2>2. ~(r + 1 <= r)
      OBVIOUS
    <2>. QED  BY <1>1, <2>1, <2>2, Zenon DEF UpTo
  <1>3. Cardinality(UpTo(q, r + 1)) = c + 1 /\ c \in Nat
    BY <1>2, DataAtFinite, FS_AddElement
  <1>4. c + 1 \in 1..Cardinality(DataAt(q))
    <2>. HIDE DEF c
    <2>1. c + 1 <= Cardinality(DataAt(q)) /\ Cardinality(DataAt(q)) \in Nat
      BY <1>3, DataAtFinite
    <2>. QED  BY <1>3, <2>1
  <1>5. ASSUME NEW i \in DataAt(q), Cardinality(UpTo(q, i)) = c + 1
        PROVE  i = r + 1
    <2>1. i \in Nat
      BY DataAtFinite
    <2>2. CASE i <= r
      <3>1. UpTo(q, i) \subseteq UpTo(q, r)
        <4>1. ASSUME NEW k \in DataAt(q), k <= i PROVE k <= r
          BY <2>1, <2>2, <4>1, DataAtFinite
        <4>. QED  BY <4>1, Zenon DEF UpTo
      <3>2. Cardinality(UpTo(q, i)) <= c
        BY <3>1, DataAtFinite, FS_Subset
      <3>. QED  BY <1>3, <1>5, <3>2
    <2>3. CASE i > r + 1
      <3>1. UpTo(q, r + 1) \subseteq UpTo(q, i) /\ i \in UpTo(q, i) /\ i \notin UpTo(q, r + 1)
        <4>1. ASSUME NEW k \in DataAt(q), k <= r + 1 PROVE k <= i
          BY <2>1, <2>3, <4>1, DataAtFinite
        <4>2. i <= i /\ ~(i <= r + 1)
          BY <2>1, <2>3
        <4>. QED  BY <4>1, <4>2, Zenon DEF UpTo
      <3>2. UpTo(q, r + 1) \subseteq UpTo(q, i) \ {i}
        BY <3>1
      <3>3. /\ IsFiniteSet(UpTo(q, i) \ {i})
            /\ Cardinality(UpTo(q, i) \ {i}) = Cardinality(UpTo(q, i)) - 1
        BY <3>1, DataAtFinite, FS_RemoveElement
      <3>4. Cardinality(UpTo(q, r + 1)) <= Cardinality(UpTo(q, i)) - 1
        BY <3>2, <3>3, FS_Subset
      <3>. QED  BY <1>3, <1>5, <3>4
    <2>. QED  BY <2>1, <2>2, <2>3
  <1>6. (CHOOSE i \in DataAt(q) : Cardinality(UpTo(q, i)) = c + 1) = r + 1
    BY <1>1, <1>3, <1>5, Zenon
  <1>7. DataOf(q)[c + 1] = q[r + 1].val
    BY <1>4, <1>6, Zenon DEF DataOf
  <1>. QED  BY <1>3, <1>4, <1>7

(* The n-th data packet is there; as an invariant of a stream this needs   *)
(* no induction.                                                           *)
Reached(q) ==
    \A n \in 1..Cardinality(DataAt(q)) : \E i \in DataAt(q) : Cardinality(UpTo(q, i)) = n

Nth(q, n) == CHOOSE i \in DataAt(q) : Cardinality(UpTo(q, i)) = n

LEMMA NthIsData ==
    ASSUME NEW q, Reached(q), NEW n \in 1..Cardinality(DataAt(q))
    PROVE  Nth(q, n) \in DataAt(q)
  BY Zenon DEF Reached, Nth

(* What stands in a stream is not changed by what is sent behind it. *)
LEMMA ErrorsAppended ==
    ASSUME NEW q \in Seq(ToClient), Reached(q), NEW e \in Seq(ToClient),
           \A k \in 1..Len(e) : e[k].key = "error"
    PROVE  /\ Reached(q \o e)
           /\ DataOf(q \o e) = DataOf(q)
           /\ \A i : UpTo(q \o e, i) = UpTo(q, i)
  <1>. DEFINE z == q \o e
  <1>1. /\ Len(z) = Len(q) + Len(e) /\ DOMAIN z = 1..Len(z)
        /\ \A k \in 1..Len(q) : z[k] = q[k]
        /\ \A k \in (Len(q) + 1)..Len(z) : z[k] = e[k - Len(q)]
        /\ Len(q) \in Nat /\ Len(e) \in Nat
    OBVIOUS
  <1>. HIDE DEF z
  <1>2. ASSUME NEW k \in (Len(q) + 1)..Len(z)
        PROVE  z[k].key # "data"
    <2>1. k - Len(q) \in 1..Len(e)
      BY <1>1
    <2>. QED  BY <1>1, <2>1
  <1>3. \A k \in 1..Len(z) : k \in 1..Len(q) \/ k \in (Len(q) + 1)..Len(z)
    BY <1>1
  <1>4. \A k \in 1..Len(q) : k \in 1..Len(z)
    BY <1>1
  <1>5. DOMAIN q = 1..Len(q)
    OBVIOUS
  <1>6. DataAt(z) = DataAt(q)
    BY <1>1, <1>2, <1>3, <1>4, <1>5, Zenon DEF DataAt
  <1>7. \A i : UpTo(z, i) = UpTo(q, i)
    BY <1>6, Zenon DEF UpTo
  <1>8. Reached(z)
    BY <1>6, <1>7, Zenon DEF Reached
  <1>9. DataOf(z) = DataOf(q)
    <2>1. ASSUME NEW n \in 1..Cardinality(DataAt(q))
          PROVE  Nth(z, n) = Nth(q, n) /\ z[Nth(q, n)] = q[Nth(q, n)]
      <3>1. Nth(q, n) \in 1..Len(q)
        BY NthIsData, DataAtFinite
      <3>2. \A i : i \in DataAt(z) /\ Cardinality(UpTo(z, i)) = n
                     <=> i \in DataAt(q) /\ Cardinality(UpTo(q, i)) = n
        BY <1>6, <1>7, Zenon
      <3>3. Nth(z, n) = Nth(q, n)
        BY <3>2, Zenon DEF Nth
      <3>. QED  BY <1>1, <3>1, <3>3
    <2>2. /\ DataOf(z) = [n \in 1..Cardinality(DataAt(q)) |-> z[Nth(z, n)].val]
          /\ DataOf(q) = [n \in 1..Cardinality(DataAt(q)) |-> q[Nth(q, n)].val]
      BY <1>6, Zenon DEF DataOf, Nth
    <2>. QED  BY <2>1, <2>2, Zenon
  <1>. QED  BY <1>7, <1>8, <1>9 DEF z

LEMMA DataAppended ==
    ASSUME NEW q \in Seq(ToClient), Reached(q), NEW p \in ToClient, p.key = "data"
    PROVE  LET n == Cardinality(DataAt(q))
               z == Append(q, p)
           IN  /\ Reached(z)
               /\ DataOf(z) = Append(DataOf(q), p.val)
               /\ \A i \in 0..Len(q) : UpTo(z, i) = UpTo(q, i)
  <1>. DEFINE z == Append(q, p)
              n == Cardinality(DataAt(q))
              l == Len(q) + 1
  <1>1. /\ z \in Seq(ToClient) /\ Len(z) = l /\ DOMAIN z = 1..l /\ DOMAIN q = 1..Len(q)
        /\ \A k \in 1..Len(q) : z[k] = q[k]
        /\ z[l] = p
        /\ Len(q) \in Nat
    OBVIOUS
  <1>. HIDE DEF z
  <1>2. /\ \A k \in 1..l : k \in 1..Len(q) \/ k = l
        /\ \A k \in 1..Len(q) : k \in 1..l /\ k # l /\ k \in Nat /\ ~(l <= k)
        /\ l \in 1..l
    BY <1>1
  <1>3. DataAt(z) = DataAt(q) \union {l} /\ l \notin DataAt(q)
    <2>. HIDE DEF l
    <2>. QED  BY <1>1, <1>2, Zenon DEF DataAt
  <1>4. ASSUME NEW i \in 0..Len(q) PROVE UpTo(z, i) = UpTo(q, i)
    <2>1. ~(l <= i)
      BY <1>1
    <2>. HIDE DEF l
    <2>. QED  BY <1>3, <2>1, Zenon DEF UpTo
  <1>5. n \in Nat /\ Cardinality(DataAt(z)) = n + 1
    BY <1>3, DataAtFinite, FS_AddElement
  <1>6. UpTo(z, l) = DataAt(z)
    <2>1. \A k \in DataAt(z) : k <= l
      BY <1>1, DataAtFinite
    <2>. HIDE DEF l
    <2>. QED  BY <2>1, Zenon DEF UpTo
  <1>7. ASSUME NEW i \in DataAt(q)
        PROVE  i \in DataAt(z) /\ UpTo(z, i) = UpTo(q, i) /\ Cardinality(UpTo(q, i)) # n + 1
    <2>1. i \in 0..Len(q)
      BY DataAtFinite
    <2>2. Cardinality(UpTo(q, i)) \in Nat /\ Cardinality(UpTo(q, i)) <= n
      BY DataAtFinite
    <2>. HIDE DEF n
    <2>. QED  BY <1>3, <1>4, <1>5, <2>1, <2>2
  <1>8. Reached(z)
    <2>. SUFFICES ASSUME NEW j \in 1..(n + 1)
                  PROVE  \E i \in DataAt(z) : Cardinality(UpTo(z, i)) = j
      BY <1>5, Zenon DEF Reached
    <2>1. CASE j = n + 1
      BY <1>3, <1>5, <1>6, <2>1
    <2>2. CASE j \in 1..n
      <3>1. PICK i \in DataAt(q) : Cardinality(UpTo(q, i)) = j
        BY <2>2, Zenon DEF Reached
      <3>. QED  BY <1>7, <3>1, Zenon
    <2>. HIDE DEF n
    <2>. QED  BY <1>5, <2>1, <2>2
  <1>9. ASSUME NEW j \in 1..n
        PROVE  z[Nth(z, j)] = q[Nth(q, j)]
    <2>1. Cardinality(UpTo(z, l)) # j
      <3>. HIDE DEF n
      <3>. QED  BY <1>5, <1>6
    <2>2. \A i : i \in DataAt(z) /\ Cardinality(UpTo(z, i)) = j
                   <=> i \in DataAt(q) /\ Cardinality(UpTo(q, i)) = j
      <3>. HIDE DEF l
      <3>. QED  BY <1>3, <1>7, <2>1, Zenon
    <2>3. Nth(z, j) = Nth(q, j)
      BY <2>2, Zenon DEF Nth
    <2>4. Nth(q, j) \in 1..Len(q)
      BY NthIsData, DataAtFinite
    <2>. QED  BY <1>1, <2>3, <2>4
  <1>10. z[Nth(z, n + 1)] = p
    <2>1. \A i \in DataAt(z) : Cardinality(UpTo(z, i)) = n + 1 <=> i = l
      <3>. HIDE DEF n, l
      <3>. QED  BY <1>3, <1>5, <1>6, <1>7, Zenon
    <2>2. l \in DataAt(z)
      BY <1>3
    <2>3. Nth(z, n + 1) = l
      <3>. HIDE DEF n, l
      <3>. QED  BY <2>1, <2>2, Zenon DEF Nth
    <2>. QED  BY <1>1, <2>3
  <1>11. DataOf(z) = Append(DataOf(q), p.val)
    <2>. DEFINE old == DataOf(q)
                new == DataOf(z)
                V == {<<>>} \union Runs(MaxRx)
    <2>1. /\ new = [j \in 1..(n + 1) |-> z[Nth(z, j)].val]
          /\ old = [j \in 1..n |-> q[Nth(q, j)].val]
      BY <1>5, Zenon DEF DataOf, Nth
    <2>2. \A j \in 1..n : q[Nth(q, j)].val \in V
      <3>. SUFFICES ASSUME NEW j \in 1..n PROVE q[Nth(q, j)].val \in V
        OBVIOUS
      <3>1. Nth(q, j) \in 1..Len(q)
        BY NthIsData, DataAtFinite
      <3>2. q[Nth(q, j)] \in ToClient
        BY <3>1
      <3>. QED  BY <3>2 DEF ToClient
    <2>3. p.val \in V
      BY DEF ToClient
    <2>. HIDE DEF n, V, old, new
    <2>4. old \in Seq(V) /\ Len(old) = n
      BY <1>5, <2>1, <2>2
    <2>5. /\ \A j \in 1..n : new[j] = old[j]
          /\ new[n + 1] = p.val
          /\ DOMAIN new = 1..(n + 1)
      <3>1. \A j \in 1..n : j \in 1..(n + 1)
        BY <1>5
      <3>2. n + 1 \in 1..(n + 1)
        BY <1>5
      <3>. QED  BY <1>9, <1>10, <2>1, <3>1, <3>2, Zenon DEF n
    <2>6. new = [j \in 1..(n + 1) |-> new[j]]
      BY <2>1, Zenon DEF n
    <2>7. \A j \in 1..(n + 1) : new[j] \in V
      BY <1>5, <2>2, <2>3, <2>4, <2>5
    <2>8. new \in Seq(V) /\ Len(new) = n + 1
      BY <1>5, <2>6, <2>7
    <2>9. /\ Append(old, p.val) \in Seq(V) /\ Len(Append(old, p.val)) = n + 1
          /\ \A j \in 1..n : Append(old, p.val)[j] = old[j]
          /\ Append(old, p.val)[n + 1] = p.val
      BY <2>3, <2>4, AppendProperties
    <2>10. \A j \in 1..Len(new) : new[j] = Append(old, p.val)[j]
      <3>. SUFFICES ASSUME NEW j \in 1..(n + 1) PROVE new[j] = Append(old, p.val)[j]
        BY <2>8
      <3>1. j \in 1..n \/ j = n + 1
        BY <1>5
      <3>. QED  BY <2>5, <2>9, <3>1
    <2>11. new = Append(old, p.val)
      BY <2>8, <2>9, <2>10, SeqEqual
    <2>. QED  BY <2>11 DEF new, old
  <1>. QED  BY <1>4, <1>8, <1>11 DEF z

-----------------------------------------------------------------------------
(* What waits for a session in the driver of its port is a run of bytes.   *)
Pair == [opening : Nat, byte : Nat]

DevicesTyped(devs) ==
    /\ DOMAIN devs = Sessions
    /\ \A s \in Sessions : devs[s] # NoDev => devs[s].path \in Ports /\ devs[s].opening \in Nat

Latest(bytes, last) ==
    /\ Len(bytes) <= last
    /\ \A k \in 1..Len(bytes) : bytes[k] = last - Len(bytes) + k

HeldBy(devs, p) == \E s \in Sessions : Server!Holds(devs, s, p)

ServerType ==
    /\ requests \in [Sessions -> Nat]
    /\ errors \in [Sessions -> Nat]
    /\ uart_path \in [Sessions -> Ports \union {NoPath}]
    /\ forwarded \in [Sessions -> Seq(Pair)]

PortsInv ==
    /\ DevicesTyped(uart_dev)
    /\ arrived \in [Ports -> 0..MaxRx]
    /\ pending \in [Ports -> Seq(Nat)]
    /\ \A p \in Ports : Latest(pending[p], arrived[p])
    /\ \A p \in Ports : ~HeldBy(uart_dev, p) => pending[p] = <<>>

(* Sessions change the drivers only as Waiting says. *)
PortsStep ==
    /\ DevicesTyped(uart_dev')
    /\ arrived' = arrived
    /\ \/ uart_dev' = uart_dev /\ pending' = pending
       \/ \E opened : pending' = Server!Waiting(uart_dev', opened)

LEMMA EmptyLatest ==
    ASSUME NEW last \in Nat
    PROVE  Latest(<<>>, last) /\ <<>> \in Seq(Nat)
  BY DEF Latest

LEMMA PortsKept ==
    ASSUME PortsInv, PortsStep
    PROVE  PortsInv'
  <1>1. CASE uart_dev' = uart_dev /\ pending' = pending
    BY <1>1 DEF PortsInv, PortsStep, HeldBy, Server!Holds, Latest
  <1>2. ASSUME NEW opened, pending' = Server!Waiting(uart_dev', opened)
        PROVE  PortsInv'
    <2>1. /\ pending' = [p \in Ports |-> pending'[p]]
          /\ \A p \in Ports :
                \/ pending'[p] = <<>>
                \/ HeldBy(uart_dev', p) /\ pending'[p] = pending[p]
      <3>1. pending' = [p \in Ports |-> IF p \in opened \/ ~HeldBy(uart_dev', p)
                                        THEN <<>> ELSE pending[p]]
        BY <1>2, Zenon DEF Server!Waiting, HeldBy
      <3>. QED  BY <3>1
    <2>2. \A p \in Ports : arrived[p] \in Nat /\ pending[p] \in Seq(Nat) /\ Latest(pending[p], arrived[p])
      BY DEF PortsInv
    <2>3. \A p \in Ports : pending'[p] \in Seq(Nat) /\ Latest(pending'[p], arrived[p])
      BY <2>1, <2>2, EmptyLatest
    <2>4. pending' \in [Ports -> Seq(Nat)]
      BY <2>1, <2>3
    <2>5. arrived' = arrived /\ DevicesTyped(uart_dev')
      BY DEF PortsStep
    <2>6. \A p \in Ports : Latest(pending[p], arrived[p])'
      BY <2>3, <2>5 DEF Latest
    <2>. QED  BY <2>1, <2>4, <2>5, <2>6 DEF PortsInv, HeldBy, Server!Holds, DevicesTyped
  <1>. QED  BY <1>1, <1>2 DEF PortsStep

LEMMA PortGrows ==
    ASSUME PortsInv, NEW p \in Ports, Server!UartReceives(p)
    PROVE  PortsInv'
  <1>1. /\ arrived[p] < MaxRx /\ arrived' = [arrived EXCEPT ![p] = @ + 1]
        /\ uart_dev' = uart_dev
    BY DEF Server!UartReceives
  <1>2. arrived' \in [Ports -> 0..MaxRx] /\ arrived'[p] = arrived[p] + 1 /\ arrived[p] \in Nat
    BY <1>1, LinkAssumption DEF PortsInv
  <1>3. CASE HeldBy(uart_dev, p)
    <2>. DEFINE b == pending[p]
                z == Append(b, arrived[p] + 1)
    <2>1. pending' = [pending EXCEPT ![p] = z]
      BY <1>3 DEF Server!UartReceives, HeldBy
    <2>2. b \in Seq(Nat) /\ Latest(b, arrived[p])
      BY DEF PortsInv
    <2>3. z \in Seq(Nat) /\ Latest(z, arrived[p] + 1)
      <3>. DEFINE a == arrived[p]
      <3>1. a \in Nat
        BY <1>2
      <3>. HIDE DEF a, b
      <3>2. /\ Append(b, a + 1) \in Seq(Nat) /\ Len(Append(b, a + 1)) = Len(b) + 1
            /\ \A k \in 1..Len(b) : Append(b, a + 1)[k] = b[k]
            /\ Append(b, a + 1)[Len(b) + 1] = a + 1
            /\ Len(b) \in Nat
        BY <2>2, <3>1, AppendProperties DEF a
      <3>3. Latest(b, a)
        BY <2>2 DEF a
      <3>4. ASSUME NEW k \in 1..(Len(b) + 1)
            PROVE  Append(b, a + 1)[k] = (a + 1) - (Len(b) + 1) + k
        <4>1. CASE k = Len(b) + 1
          BY <3>1, <3>2, <4>1
        <4>2. CASE k \in 1..Len(b)
          BY <3>1, <3>2, <3>3, <4>2 DEF Latest
        <4>. QED  BY <3>2, <4>1, <4>2
      <3>5. Len(b) + 1 <= a + 1
        BY <3>1, <3>2, <3>3 DEF Latest
      <3>6. Latest(Append(b, a + 1), a + 1)
        BY <3>2, <3>4, <3>5 DEF Latest
      <3>. QED  BY <3>2, <3>6 DEF a
    <2>. HIDE DEF b, z
    <2>4. pending' \in [Ports -> Seq(Nat)] /\ pending'[p] = z
          /\ \A q \in Ports \ {p} : pending'[q] = pending[q] /\ arrived'[q] = arrived[q]
      BY <1>1, <2>1, <2>3 DEF PortsInv
    <2>5. \A q \in Ports : Latest(pending[q], arrived[q])'
      <3>1. Latest(pending'[p], arrived'[p])
        BY <1>2, <2>3, <2>4
      <3>2. \A q \in Ports \ {p} : Latest(pending'[q], arrived'[q])
        BY <2>4 DEF PortsInv
      <3>3. \A q \in Ports : Latest(pending'[q], arrived'[q])
        BY <3>1, <3>2, Zenon
      <3>. QED  BY <3>3 DEF Latest
    <2>6. \A q \in Ports : ~HeldBy(uart_dev, q)' => pending'[q] = <<>>
      BY <1>1, <1>3, <2>4 DEF PortsInv, HeldBy, Server!Holds
    <2>. QED  BY <1>1, <1>2, <2>4, <2>5, <2>6 DEF PortsInv, DevicesTyped
  <1>4. CASE ~HeldBy(uart_dev, p)
    <2>1. pending' = pending /\ pending[p] = <<>>
      BY <1>4 DEF Server!UartReceives, HeldBy, PortsInv
    <2>2. \A q \in Ports \ {p} : arrived'[q] = arrived[q]
      BY <1>1 DEF PortsInv
    <2>3. Latest(<<>>, arrived'[p])
      BY <1>2, EmptyLatest
    <2>4. \A q \in Ports : Latest(pending[q], arrived[q])'
      BY <2>1, <2>2, <2>3, SMTT(30) DEF PortsInv, Latest
    <2>. QED  BY <1>1, <1>2, <2>1, <2>4 DEF PortsInv, DevicesTyped, HeldBy, Server!Holds
  <1>. QED  BY <1>3, <1>4

(* What starting the service does to types and drivers. *)
LEMMA StartPorts ==
    ASSUME ServerType, PortsInv, NEW s \in Sessions, NEW path \in Ports \union {NoPath}, NEW baud,
           NEW errs \in Nat, arrived' = arrived,
           Server!Start(s, path, baud, errs) \/ Server!StartIfReady(s, path, baud, errs)
    PROVE  errors' \in [Sessions -> Nat] /\ PortsStep
  <1>1. CASE Server!Start(s, path, baud, errs)
    <2>1. PICK o \in Server!uart_open(s, path, baud) :
             /\ uart_dev' = [uart_dev EXCEPT ![s] = o.dev]
             /\ errors' = [errors EXCEPT ![s] = @ + errs + (IF o.ok THEN 0 ELSE 1)]
             /\ \E opened : pending' = Server!Waiting(uart_dev', opened)
      BY <1>1, Zenon DEF Server!Start
    <2>2. errors' \in [Sessions -> Nat]
      BY <2>1 DEF ServerType
    <2>3. o.dev # NoDev => o.dev.path \in Ports /\ o.dev.opening \in Nat
      <3>1. \/ o.dev = NoDev
            \/ o.dev = uart_dev[s]
            \/ path # NoPath /\ o.dev = Server!Fresh(s, path, baud)
        <4>1. CASE path = NoPath \/ baud <= 0
          <5>1. o \in {[dev |-> uart_dev[s], ok |-> FALSE]}
            BY <2>1, <4>1, Zenon DEF Server!uart_open
          <5>. QED  BY <5>1
        <4>2. CASE ~(path = NoPath \/ baud <= 0) /\ Server!Same(uart_dev[s], path, baud)
          <5>1. o \in {[dev |-> uart_dev[s], ok |-> TRUE]}
            BY <2>1, <4>2, Zenon DEF Server!uart_open
          <5>. QED  BY <5>1
        <4>3. CASE ~(path = NoPath \/ baud <= 0) /\ ~Server!Same(uart_dev[s], path, baud)
          <5>1. \/ o \in [dev : Server!AfterClose(s), ok : {FALSE}]
                \/ o \in {[dev |-> Server!Fresh(s, path, baud), ok |-> TRUE]}
            <6>1. o \in [dev : Server!AfterClose(s), ok : {FALSE}]
                        \union (IF Server!MayOpen(s, path)
                                THEN {[dev |-> Server!Fresh(s, path, baud), ok |-> TRUE]}
                                ELSE {})
              BY <2>1, <4>3, Zenon DEF Server!uart_open
            <6>. QED  BY <6>1, Zenon
          <5>2. o \in [dev : Server!AfterClose(s), ok : {FALSE}] => o.dev \in {NoDev, uart_dev[s]}
            BY DEF Server!AfterClose
          <5>3. o \in {[dev |-> Server!Fresh(s, path, baud), ok |-> TRUE]}
                  => o.dev = Server!Fresh(s, path, baud)
            OBVIOUS
          <5>. QED  BY <4>3, <5>1, <5>2, <5>3, Zenon
        <4>. QED  BY <4>1, <4>2, <4>3, Zenon
      <3>2. path # NoPath => Server!Fresh(s, path, baud).path \in Ports
                             /\ Server!Fresh(s, path, baud).opening \in Nat
        BY DEF Server!Fresh, ServerType
      <3>. QED  BY <3>1, <3>2, Zenon DEF PortsInv, DevicesTyped
    <2>4. DevicesTyped(uart_dev')
      BY <2>1, <2>3 DEF PortsInv, DevicesTyped
    <2>. QED  BY <2>1, <2>2, <2>4, Zenon DEF PortsStep
  <1>2. CASE ~Server!Start(s, path, baud, errs)
    <2>1. errors' = [errors EXCEPT ![s] = @ + errs] /\ UNCHANGED <<uart_dev, pending>>
      BY <1>2, Zenon DEF Server!StartIfReady
    <2>. QED  BY <2>1 DEF PortsStep, ServerType, PortsInv
  <1>. QED  BY <1>1, <1>2

LEMMA ExitPorts ==
    ASSUME PortsInv, NEW s \in Sessions, Server!Exit(s)
    PROVE  PortsStep /\ UNCHANGED <<errors, uart_path, forwarded>>
  <1>1. /\ uart_dev' = [uart_dev EXCEPT ![s] = NoDev]
        /\ pending' = Server!Waiting(uart_dev', {})
        /\ UNCHANGED <<errors, uart_path, forwarded, arrived>>
    BY DEF Server!Exit
  <1>2. DevicesTyped(uart_dev')
    BY <1>1 DEF PortsInv, DevicesTyped
  <1>. QED  BY <1>1, <1>2, Zenon DEF PortsStep

LEMMA DispatchPorts ==
    ASSUME ServerType, PortsInv, NEW s \in Sessions, NEW p, Dispatch(s, p)
    PROVE  ServerType' /\ PortsStep /\ forwarded' = forwarded
  <1>1. requests' = [requests EXCEPT ![s] = @ + 1] /\ requests' \in [Sessions -> Nat]
    <2>1. requests' = [requests EXCEPT ![s] = @ + 1]
      BY DEF Dispatch, Server!HandlePath, Server!HandleBaud, Server!HandleStart,
             Server!HandleDataRefused, Server!Refuse, Server!HandleDataRaises,
             Server!HandleDataWritten, Server!Request
    <2>. QED  BY <2>1 DEF ServerType
  <1>2. CASE Server!HandlePath(s)
    <2>1. PICK path \in Ports \union {NoPath} :
             /\ uart_path' = [uart_path EXCEPT ![s] = path]
             /\ Server!StartIfReady(s, path, uart_baud[s], 0)
      BY <1>2, Zenon DEF Server!HandlePath
    <2>2. UNCHANGED <<forwarded, arrived>>
      BY <1>2 DEF Server!HandlePath, Server!Stays
    <2>3. errors' \in [Sessions -> Nat] /\ PortsStep
      BY <2>1, <2>2, StartPorts
    <2>4. uart_path' \in [Sessions -> Ports \union {NoPath}]
      BY <2>1 DEF ServerType
    <2>. QED  BY <1>1, <2>2, <2>3, <2>4 DEF ServerType
  <1>3. CASE Server!HandleBaud(s)
    <2>1. PICK baud : Server!StartIfReady(s, uart_path[s], baud, 0)
      BY <1>3, Zenon DEF Server!HandleBaud
    <2>2. UNCHANGED <<forwarded, arrived, uart_path>>
      BY <1>3 DEF Server!HandleBaud, Server!Stays
    <2>3. errors' \in [Sessions -> Nat] /\ PortsStep
      BY <2>1, <2>2, StartPorts DEF ServerType
    <2>. QED  BY <1>1, <2>2, <2>3 DEF ServerType
  <1>4. CASE Server!HandleStart(s)
    <2>1. Server!Start(s, uart_path[s], uart_baud[s], 0)
      BY <1>4, Zenon DEF Server!HandleStart
    <2>2. UNCHANGED <<forwarded, arrived, uart_path>>
      BY <1>4 DEF Server!HandleStart, Server!Stays
    <2>3. errors' \in [Sessions -> Nat] /\ PortsStep
      BY <2>1, <2>2, StartPorts DEF ServerType
    <2>. QED  BY <1>1, <2>2, <2>3 DEF ServerType
  <1>5. CASE Server!HandleDataRefused(s) \/ Server!HandleDataWritten(s)
    <2>1. /\ UNCHANGED <<forwarded, arrived, uart_path, uart_dev, pending>>
          /\ errors' = errors \/ errors' = [errors EXCEPT ![s] = @ + 1]
      BY <1>5 DEF Server!HandleDataRefused, Server!Refuse, Server!HandleDataWritten, Server!Stays
    <2>2. errors' \in [Sessions -> Nat]
      BY <2>1 DEF ServerType
    <2>3. PortsStep
      BY <2>1 DEF PortsStep, PortsInv, DevicesTyped
    <2>. QED  BY <1>1, <2>1, <2>2, <2>3 DEF ServerType
  <1>6. CASE Server!HandleDataRaises(s)
    <2>1. Server!Exit(s)
      BY <1>6 DEF Server!HandleDataRaises
    <2>. QED  BY <1>1, <2>1, ExitPorts DEF ServerType
  <1>. QED  BY <1>2, <1>3, <1>4, <1>5, <1>6 DEF Dispatch

-----------------------------------------------------------------------------
(* The channel.                                                            *)
Val == {<<>>} \union Runs(MaxRx)

StreamType ==
    /\ to_client \in [Sessions -> Seq(ToClient)]
    /\ client_read \in [Sessions -> Nat]
    /\ client_wrote \in [Sessions -> Seq(Val)]
    /\ client_closing \in [Sessions -> {"no", "fin", "rst"}]

(* What the client has written is the data among what it has read, as long *)
(* as it handles the connection.                                           *)
InTurn(s) ==
    stage = "handle" /\ session = s =>
        Len(client_wrote[s]) = Cardinality(UpTo(to_client[s], client_read[s]))

Flowing(s) ==
    /\ life[s] = "free" => to_client[s] = <<>> /\ client_read[s] = 0 /\ client_wrote[s] = <<>>
    /\ life[s] = "fin" => client_closing[s] # "no"
    /\ client_read[s] <= Len(to_client[s])
    /\ Reached(to_client[s])
    /\ InTurn(s)

DownInv == ServerType /\ PortsInv /\ StreamType /\ \A s \in Sessions : Flowing(s)
DInv == LInv /\ DownInv

DownStep(s) == [Downstream(s)!Next]_(Downstream(s)!chan)

(* Priming a stream primes what it carries. *)
LEMMA Primed ==
    ASSUME NEW s \in Sessions
    PROVE  /\ Reached(to_client[s])' <=> Reached(to_client'[s])
           /\ DataOf(to_client[s])' = DataOf(to_client'[s])
           /\ UpTo(to_client[s], client_read[s])' = UpTo(to_client'[s], client_read'[s])
  <1>1. Reached(to_client[s])' <=> Reached(to_client'[s])
    BY Zenon DEF Reached, DataAt, UpTo
  <1>2. DataOf(to_client[s])' = DataOf(to_client'[s])
    BY Zenon DEF DataOf, DataAt, UpTo
  <1>3. UpTo(to_client[s], client_read[s])' = UpTo(to_client'[s], client_read'[s])
    BY DEF DataAt, UpTo
  <1>. QED  BY <1>1, <1>2, <1>3

(* A connection that nobody sends on and the client does not read.         *)
Idle(s) ==
    /\ to_client'[s] = to_client[s]
    /\ client_read'[s] = client_read[s]
    /\ client_wrote'[s] = client_wrote[s]
    /\ life'[s] = "free" => life[s] = "free"
    /\ life'[s] = "fin" => client_closing'[s] # "no"
    /\ stage' = "handle" /\ session' = s => stage = "handle" /\ session = s

LEMMA IdleFlows ==
    ASSUME NEW s \in Sessions, Flowing(s), Idle(s)
    PROVE  Flowing(s)' /\ DownStep(s)
  <1>1. Reached(to_client[s])'
    BY Primed, Zenon DEF Flowing, Idle
  <1>2. UpTo(to_client[s], client_read[s])' = UpTo(to_client[s], client_read[s])
    BY Primed, Zenon DEF Idle
  <1>3. InTurn(s)'
    BY <1>2, Zenon DEF Flowing, Idle, InTurn
  <1>4. Flowing(s)'
    BY <1>1, <1>3 DEF Flowing, Idle
  <1>5. DataOf(to_client[s])' = DataOf(to_client[s])
    BY Primed, Zenon DEF Idle
  <1>. QED  BY <1>4, <1>5 DEF DownStep, Downstream!chan, Idle

(* A session answers with errors or sends data. *)
LEMMA RepliesEffect ==
    ASSUME StreamType, NEW s \in Sessions, NEW packets \in Seq(ToClient), Replies(s, packets)
    PROVE  /\ client_closing' \in [Sessions -> {"no", "fin", "rst"}]
           /\ \A t \in Sessions : client_closing[t] # "no" => client_closing'[t] # "no"
           /\ \/ to_client' = to_client
              \/ client_closing[s] = "no" /\ to_client' = [to_client EXCEPT ![s] = @ \o packets]
  BY DEF StreamType, Replies

LEMMA ErrorsFlow ==
    ASSUME DInv, NEW s \in Sessions, NEW e \in Seq(ToClient),
           \A k \in 1..Len(e) : e[k].key = "error",
           to_client'[s] = to_client[s] \o e,
           client_read'[s] = client_read[s], client_wrote'[s] = client_wrote[s],
           UNCHANGED <<stage, session>>,
           life[s] = "up", life'[s] \in {"up", "gone"}
    PROVE  /\ Flowing(s)' /\ DownStep(s)
           /\ DataOf(to_client[s])' = DataOf(to_client[s])
  <1>. DEFINE q == to_client[s]
              r == client_read[s]
  <1>1. q \in Seq(ToClient) /\ r \in Nat /\ Flowing(s)
    BY DEF DInv, DownInv, StreamType
  <1>2. /\ Reached(q \o e)
        /\ DataOf(q \o e) = DataOf(q)
        /\ UpTo(q \o e, r) = UpTo(q, r)
    BY <1>1, ErrorsAppended DEF Flowing
  <1>3. r <= Len(q \o e)
    BY <1>1 DEF Flowing
  <1>4. InTurn(s)'
    <2>1. /\ stage' = stage /\ session' = session
          /\ UpTo(to_client'[s], client_read'[s]) = UpTo(q, r)
      BY <1>2
    <2>2. UpTo(to_client[s], client_read[s])' = UpTo(to_client'[s], client_read'[s])
      BY Primed
    <2>. QED  BY <1>1, <2>1, <2>2, Zenon DEF InTurn, Flowing
  <1>5. Reached(to_client[s])'
    BY <1>2, Primed, Zenon
  <1>6. Flowing(s)'
    BY <1>3, <1>4, <1>5 DEF Flowing
  <1>7. DataOf(to_client[s])' = DataOf(to_client[s])
    <2>1. DataOf(to_client[s])' = DataOf(to_client'[s])
      BY Primed
    <2>. QED  BY <1>2, <2>1
  <1>. QED  BY <1>6, <1>7 DEF DownStep, Downstream!chan

LEMMA DataFlows ==
    ASSUME DInv, NEW s \in Sessions, NEW run \in Runs(MaxRx),
           to_client'[s] = to_client[s] \o <<packet("data", run)>>,
           client_read'[s] = client_read[s], client_wrote'[s] = client_wrote[s],
           UNCHANGED <<stage, session>>,
           life[s] = "up", life'[s] = life[s]
    PROVE  /\ Flowing(s)' /\ DownStep(s)
           /\ DataOf(to_client[s])' = Append(DataOf(to_client[s]), run)
  <1>. DEFINE q == to_client[s]
              r == client_read[s]
              p == packet("data", run)
  <1>1. q \in Seq(ToClient) /\ r \in Nat /\ Flowing(s)
    BY DEF DInv, DownInv, StreamType
  <1>2. p \in ToClient /\ p.key = "data" /\ p.val = run
    BY DEF packet, ToClient
  <1>. HIDE DEF p
  <1>3. to_client'[s] = Append(q, p)
    <2>1. to_client'[s] = q \o <<p>>
      BY DEF p
    <2>. QED  BY <1>1, <1>2, <2>1
  <1>4. r <= Len(q) /\ r \in 0..Len(q) /\ r <= Len(Append(q, p))
    BY <1>1, <1>2 DEF Flowing
  <1>5. /\ Reached(Append(q, p))
        /\ DataOf(Append(q, p)) = Append(DataOf(q), run)
        /\ UpTo(Append(q, p), r) = UpTo(q, r)
    BY <1>1, <1>2, <1>4, DataAppended DEF Flowing
  <1>6. InTurn(s)'
    <2>1. /\ stage' = stage /\ session' = session
          /\ UpTo(to_client'[s], client_read'[s]) = UpTo(q, r)
      BY <1>3, <1>5
    <2>2. UpTo(to_client[s], client_read[s])' = UpTo(to_client'[s], client_read'[s])
      BY Primed
    <2>. QED  BY <1>1, <2>1, <2>2, Zenon DEF InTurn, Flowing
  <1>7. Reached(to_client[s])'
    BY <1>3, <1>5, Primed, Zenon
  <1>8. Flowing(s)'
    BY <1>3, <1>4, <1>6, <1>7 DEF Flowing
  <1>9. DataOf(to_client[s])' = Append(DataOf(to_client[s]), run)
    <2>1. DataOf(to_client[s])' = DataOf(to_client'[s])
      BY Primed
    <2>. QED  BY <1>3, <1>5, <2>1
  <1>. QED  BY <1>8, <1>9 DEF DownStep, Downstream!Next, Downstream!Put

(* The client reads a packet. *)
LEMMA ErrorRead ==
    ASSUME DInv, Reads("error"), UNCHANGED <<stage, session, life, client_wrote>>
    PROVE  \A s \in Sessions : Flowing(s)' /\ DownStep(s)
  <1>. SUFFICES ASSUME NEW s \in Sessions PROVE Flowing(s)' /\ DownStep(s)
    OBVIOUS
  <1>1. /\ stage = "handle" /\ session \in Sessions
        /\ client_read[session] < Len(to_client[session])
        /\ to_client[session][client_read[session] + 1].key = "error"
        /\ client_read' = [client_read EXCEPT ![session] = @ + 1]
        /\ UNCHANGED <<to_client, client_closing>>
    BY DEF Reads, DInv, DownInv, LInv, LinkType
  <1>2. Flowing(s) /\ client_read \in [Sessions -> Nat] /\ to_client[s] \in Seq(ToClient)
    BY DEF DInv, DownInv, StreamType
  <1>3. CASE s # session
    <2>1. Idle(s)
      BY <1>1, <1>2, <1>3 DEF Idle, Flowing
    <2>. QED  BY <1>2, <2>1, IdleFlows
  <1>4. CASE s = session
    <2>. DEFINE r == client_read[s]
    <2>1. r \in Nat /\ r < Len(to_client[s]) /\ client_read'[s] = r + 1
      BY <1>1, <1>2, <1>4
    <2>2. UpTo(to_client[s], client_read[s])' = UpTo(to_client[s], client_read[s])
      <3>1. UpTo(to_client[s], r + 1) = UpTo(to_client[s], r)
        BY <1>1, <1>2, <1>4, <2>1, NextError
      <3>. QED  BY <1>1, <2>1, <3>1, Primed
    <2>3. InTurn(s)'
      BY <1>1, <1>2, <2>2, Zenon DEF InTurn, Flowing
    <2>4. client_read'[s] <= Len(to_client'[s])
      BY <1>1, <1>2, <2>1
    <2>5. Reached(to_client[s])'
      BY <1>1, <1>2, Primed, Zenon DEF Flowing
    <2>6. Flowing(s)'
      BY <1>1, <1>2, <2>3, <2>4, <2>5 DEF Flowing, LInv, LinkType, DInv, DownInv
    <2>7. DataOf(to_client[s])' = DataOf(to_client[s])
      BY <1>1, Primed, Zenon
    <2>. QED  BY <2>6, <2>7 DEF DownStep, Downstream!chan
  <1>. QED  BY <1>3, <1>4

LEMMA DataRead ==
    ASSUME DInv, NEW s \in Sessions, session = s, Reads("data"), UNCHANGED life,
           \/ /\ UNCHANGED <<stage, session>>
              /\ client_wrote' = [client_wrote EXCEPT ![s] =
                                    Append(@, to_client[s][client_read[s] + 1].val)]
           \/ stage' = "apart" /\ UNCHANGED client_wrote
    PROVE  /\ client_wrote' \in [Sessions -> Seq(Val)]
           /\ \A t \in Sessions : Flowing(t)' /\ DownStep(t)
  <1>1. /\ stage = "handle" /\ life[s] # "free"
        /\ client_read[s] < Len(to_client[s])
        /\ to_client[s][client_read[s] + 1].key = "data"
        /\ client_read' = [client_read EXCEPT ![s] = @ + 1]
        /\ UNCHANGED <<to_client, client_closing>>
    BY DEF Reads, DInv, DownInv, LInv, LinkType
  <1>. DEFINE r == client_read[s]
              q == to_client[s]
              v == q[r + 1].val
              wrote == client_wrote[s]
              c == Cardinality(UpTo(q, r))
  <1>2. /\ client_read \in [Sessions -> Nat] /\ r \in Nat /\ q \in Seq(ToClient)
        /\ client_wrote \in [Sessions -> Seq(Val)] /\ wrote \in Seq(Val)
        /\ \A t \in Sessions : Flowing(t)
    BY DEF DInv, DownInv, StreamType
  <1>3. v \in Val
    <2>1. q[r + 1] \in ToClient
      BY <1>1, <1>2
    <2>. QED  BY <2>1 DEF ToClient, Val
  <1>4. /\ c \in Nat /\ c + 1 \in 1..Cardinality(DataAt(q))
        /\ Cardinality(UpTo(q, r + 1)) = c + 1
        /\ DataOf(q)[c + 1] = v
    BY <1>1, <1>2, NextData, Zenon
  <1>5. Len(wrote) = c
    BY <1>1, <1>2 DEF Flowing, InTurn
  <1>6. ASSUME NEW t \in Sessions, t # s
        PROVE  Flowing(t)' /\ DownStep(t)
    <2>1. client_wrote'[t] = client_wrote[t]
      BY <1>2, <1>6
    <2>2. Idle(t)
      BY <1>1, <1>2, <1>6, <2>1 DEF Idle, Flowing
    <2>. QED  BY <1>2, <2>2, IdleFlows
  <1>7. client_read'[s] = r + 1 /\ r + 1 <= Len(q)
    BY <1>1, <1>2
  <1>8. to_client'[s] = q /\ Reached(to_client[s])'
    BY <1>1, <1>2, Primed, Zenon DEF Flowing
  <1>9. DataOf(to_client[s])' = DataOf(q)
    BY <1>1, Primed, Zenon
  <1>10. Cardinality(UpTo(to_client[s], client_read[s])') = c + 1
    <2>1. UpTo(to_client[s], client_read[s])' = UpTo(q, r + 1)
      BY <1>1, <1>7, <1>8, Primed
    <2>. QED  BY <1>4, <2>1
  <1>11. life'[s] # "free" /\ (life'[s] = "fin" => client_closing'[s] # "no")
         /\ client_read'[s] <= Len(to_client'[s])
    BY <1>1, <1>2, <1>7, <1>8 DEF Flowing
  <1>12. CASE /\ UNCHANGED <<stage, session>>
              /\ client_wrote' = [client_wrote EXCEPT ![s] =
                                    Append(@, to_client[s][client_read[s] + 1].val)]
    <2>1. client_wrote' = [client_wrote EXCEPT ![s] = Append(wrote, v)]
      BY <1>12
    <2>. HIDE DEF v, wrote, c
    <2>2. Append(wrote, v) \in Seq(Val) /\ Len(Append(wrote, v)) = c + 1
      BY <1>2, <1>3, <1>4, <1>5, AppendProperties
    <2>3. client_wrote' \in [Sessions -> Seq(Val)] /\ client_wrote'[s] = Append(wrote, v)
      BY <1>2, <2>1, <2>2
    <2>4. InTurn(s)'
      BY <1>10, <2>2, <2>3, Zenon DEF InTurn
    <2>5. Flowing(s)'
      BY <1>8, <1>11, <2>4, Zenon DEF Flowing
    <2>6. DownStep(s)
      <3>1. Len(DataOf(q)) = Cardinality(DataAt(q)) /\ Cardinality(DataAt(q)) \in Nat
        BY <1>2, DataOfType
      <3>. DEFINE all == DataOf(q)
                  n == Cardinality(DataAt(q))
      <3>. HIDE DEF all, n
      <3>2. Len(wrote) < Len(all) /\ all[Len(wrote) + 1] = v
        BY <1>4, <1>5, <3>1 DEF all, n
      <3>3. DataOf(to_client[s])' = all /\ DataOf(to_client[s]) = all
        BY <1>9 DEF all
      <3>4. Len(client_wrote[s]) < Len(all)
            /\ client_wrote'[s] = Append(client_wrote[s], all[Len(client_wrote[s]) + 1])
        BY <2>3, <3>2 DEF wrote
      <3>. QED  BY <3>3, <3>4, Zenon DEF DownStep, Downstream!Next, Downstream!Deliver
    <2>. QED  BY <1>6, <2>3, <2>5, <2>6
  <1>13. CASE stage' = "apart" /\ UNCHANGED client_wrote
    <2>1. InTurn(s)'
      BY <1>13 DEF InTurn
    <2>2. Flowing(s)'
      BY <1>8, <1>11, <2>1, Zenon DEF Flowing
    <2>3. DownStep(s)
      BY <1>9, <1>13 DEF DownStep, Downstream!chan
    <2>. QED  BY <1>2, <1>6, <1>13, <2>2, <2>3
  <1>. QED  BY <1>12, <1>13

-----------------------------------------------------------------------------
(* The steps. *)
LEMMA AllIdle ==
    ASSUME DInv, ServerType', PortsInv',
           UNCHANGED <<to_client, client_read, client_wrote>>,
           client_closing' \in [Sessions -> {"no", "fin", "rst"}],
           \A t \in Sessions : Idle(t)
    PROVE  DownInv' /\ \A t \in Sessions : DownStep(t)
  <1>1. ASSUME NEW t \in Sessions PROVE Flowing(t)' /\ DownStep(t)
    BY <1>1, IdleFlows DEF DInv, DownInv
  <1>2. StreamType'
    BY DEF DInv, DownInv, StreamType
  <1>. QED  BY <1>1, <1>2 DEF DownInv

LEMMA ServerKept ==
    ASSUME ServerType, PortsInv, UNCHANGED serverVars
    PROVE  ServerType' /\ PortsInv'
  <1>1. /\ UNCHANGED <<requests, errors, uart_path, forwarded>>
        /\ UNCHANGED <<uart_dev, arrived, pending>>
    BY DEF serverVars
  <1>2. PortsStep
    BY <1>1 DEF PortsStep, PortsInv, DevicesTyped
  <1>. QED  BY <1>1, <1>2, PortsKept DEF ServerType

LEMMA ConnectedDown ==
    ASSUME DInv, NEW s \in Sessions, Connected(s)
    PROVE  DownInv' /\ \A t \in Sessions : DownStep(t)
  <1>1. /\ life[s] = "free" /\ life' = [life EXCEPT ![s] = "up"]
        /\ UNCHANGED <<to_client, client_read, client_wrote, client_closing>>
        /\ stage' = "handle" /\ session' = s
        /\ UNCHANGED <<requests, errors, uart_path, forwarded, uart_dev, arrived, pending>>
    BY DEF Connected, Connect, Server!Accept, Server!ports
  <1>2. ServerType' /\ PortsInv'
    <2>1. PortsStep
      BY <1>1 DEF PortsStep, PortsInv, DevicesTyped, DInv, DownInv
    <2>. QED  BY <1>1, <2>1, PortsKept DEF ServerType, DInv, DownInv
  <1>3. ASSUME NEW t \in Sessions, t # s
        PROVE  Flowing(t)' /\ DownStep(t)
    <2>1. Flowing(t) /\ life'[t] = life[t]
      BY <1>1, <1>3 DEF DInv, DownInv, LInv, LinkType
    <2>2. Idle(t)
      BY <1>1, <1>3, <2>1 DEF Idle, Flowing
    <2>. QED  BY <2>1, <2>2, IdleFlows
  <1>4. /\ to_client'[s] = <<>> /\ client_read'[s] = 0 /\ client_wrote'[s] = <<>>
        /\ life'[s] = "up" /\ Reached(to_client[s]) /\ Flowing(s)
    BY <1>1 DEF DInv, DownInv, Flowing, LInv, LinkType
  <1>5. InTurn(s)'
    <2>1. UpTo(<<>>, 0) = {}
      BY DEF UpTo, DataAt
    <2>2. Cardinality(UpTo(to_client'[s], client_read'[s])) = 0
      BY <1>4, <2>1, FS_EmptySet
    <2>3. Len(client_wrote'[s]) = 0
      BY <1>4
    <2>. QED  BY <2>2, <2>3, Primed, Zenon DEF InTurn
  <1>6. Flowing(s)'
    <2>1. Reached(to_client[s])'
      BY <1>1, <1>4, Primed, Zenon
    <2>2. client_read'[s] <= Len(to_client'[s])
      BY <1>4
    <2>. QED  BY <1>4, <1>5, <2>1, <2>2 DEF Flowing
  <1>7. DownStep(s)
    <2>1. DataOf(to_client[s])' = DataOf(to_client[s])
      BY <1>1, Primed, Zenon
    <2>. QED  BY <1>1, <2>1 DEF DownStep, Downstream!chan
  <1>8. StreamType'
    BY <1>1 DEF DInv, DownInv, StreamType
  <1>. QED  BY <1>2, <1>3, <1>6, <1>7, <1>8 DEF DownInv

LEMMA HandlesDown ==
    ASSUME DInv, NEW s \in Sessions, ServerHandles(s)
    PROVE  /\ DownInv' /\ \A t \in Sessions : DownStep(t)
           /\ \A t \in Sessions : DataOf(to_client[t])' = DataOf(to_client[t])
  <1>. DEFINE e == ErrorsSent(s)
              p == to_server[s][server_read[s] + 1]
  <1>1. /\ Dispatch(s, p) /\ Replies(s, e)
        /\ UNCHANGED <<stage, session, client_read, client_wrote>>
    BY DEF ServerHandles, process
  <1>. HIDE DEF p
  <1>2. ServerType' /\ PortsStep /\ PortsInv'
    BY <1>1, DispatchPorts, PortsKept DEF DInv, DownInv
  <1>3. /\ life[s] = "up" /\ life'[s] \in {"up", "gone"}
        /\ \A t \in Sessions \ {s} : life'[t] = life[t]
    <2>1. /\ life[s] = "up"
          /\ \A t \in Sessions \ {s} : life'[t] = life[t]
          /\ life' = life \/ life' = [life EXCEPT ![s] = "gone"]
      BY <1>1, DispatchEffect DEF DInv, LInv
    <2>. QED  BY <2>1 DEF DInv, LInv, LinkType
  <1>4. e \in Seq(ToClient) /\ \A k \in 1..Len(e) : e[k].key = "error"
    <2>1. packet("error", <<>>) \in ToClient /\ packet("error", <<>>).key = "error"
      BY DEF packet, ToClient
    <2>2. errors'[s] - errors[s] \in Int
      BY <1>2 DEF ServerType, DInv, DownInv
    <2>. DEFINE n == errors'[s] - errors[s]
                x == packet("error", <<>>)
    <2>3. e = [k \in 1..n |-> x]
      BY DEF ErrorsSent
    <2>. HIDE DEF n, x, e
    <2>4. CASE n \in Nat
      BY <2>1, <2>3, <2>4 DEF x
    <2>5. CASE n \notin Nat
      <3>1. 1..n = {} /\ n \in Int
        BY <2>2, <2>5 DEF n
      <3>2. e = [k \in {} |-> x]
        BY <2>3, <3>1
      <3>3. e = <<>>
        BY <3>2
      <3>. QED  BY <3>3
    <2>. QED  BY <2>4, <2>5
  <1>. HIDE DEF e
  <1>5. /\ client_closing' \in [Sessions -> {"no", "fin", "rst"}]
        /\ \A t \in Sessions : client_closing[t] # "no" => client_closing'[t] # "no"
        /\ to_client' = to_client \/ to_client' = [to_client EXCEPT ![s] = @ \o e]
    BY <1>1, <1>4, RepliesEffect DEF DInv, DownInv
  <1>6. StreamType'
    <2>1. to_client[s] \o e \in Seq(ToClient)
      BY <1>4 DEF DInv, DownInv, StreamType
    <2>2. to_client' \in [Sessions -> Seq(ToClient)]
      BY <1>5, <2>1 DEF DInv, DownInv, StreamType
    <2>. QED  BY <1>1, <1>5, <2>2 DEF DInv, DownInv, StreamType
  <1>7. ASSUME NEW t \in Sessions, to_client'[t] = to_client[t]
        PROVE  /\ Flowing(t)' /\ DownStep(t)
               /\ DataOf(to_client[t])' = DataOf(to_client[t])
    <2>1. Flowing(t)
      BY DEF DInv, DownInv
    <2>2. Idle(t)
      BY <1>1, <1>3, <1>5, <1>7, <2>1 DEF Idle, Flowing
    <2>3. DataOf(to_client[t])' = DataOf(to_client[t])
      BY <1>7, Primed, Zenon
    <2>. QED  BY <2>1, <2>2, <2>3, IdleFlows
  <1>8. CASE to_client' = to_client
    BY <1>2, <1>6, <1>7, <1>8 DEF DownInv
  <1>9. CASE to_client' = [to_client EXCEPT ![s] = @ \o e]
    <2>1. to_client'[s] = to_client[s] \o e
          /\ \A t \in Sessions \ {s} : to_client'[t] = to_client[t]
      BY <1>9 DEF DInv, DownInv, StreamType
    <2>2. Flowing(s)' /\ DownStep(s) /\ DataOf(to_client[s])' = DataOf(to_client[s])
      BY <1>1, <1>3, <1>4, <2>1, ErrorsFlow
    <2>. QED  BY <1>2, <1>6, <1>7, <2>1, <2>2 DEF DownInv
  <1>. QED  BY <1>5, <1>8, <1>9

LEMMA WaitingIsRun ==
    ASSUME PortsInv, NEW p \in Ports, pending[p] # <<>>
    PROVE  pending[p] \in Runs(MaxRx)
  <1>. DEFINE b == pending[p]
              l == Len(b)
              first == arrived[p] - l
  <1>1. /\ b \in Seq(Nat) /\ b # <<>> /\ Latest(b, arrived[p])
        /\ arrived[p] \in 0..MaxRx /\ MaxRx \in Nat
    BY LinkAssumption DEF PortsInv
  <1>2. first \in 0..MaxRx /\ l \in 1..MaxRx
    BY <1>1 DEF Latest
  <1>3. b = [k \in 1..l |-> first + k]
    <2>1. \A k \in 1..l : b[k] = first + k
      BY <1>1 DEF Latest
    <2>2. b = [k \in 1..l |-> b[k]]
      BY <1>1
    <2>. HIDE DEF b, l, first
    <2>. QED  BY <2>1, <2>2
  <1>4. ASSUME NEW f \in 0..MaxRx, NEW n \in 1..MaxRx
        PROVE  [k \in 1..n |-> f + k] \in Runs(MaxRx)
    BY DEF Runs
  <1>. HIDE DEF b, l, first
  <1>5. b \in Runs(MaxRx)
    BY <1>2, <1>3, <1>4
  <1>. QED  BY <1>5 DEF b

(* The bytes that PollUart has sent are those that waited. *)
LEMMA SentIsWaiting ==
    ASSUME ServerType, PortsInv, NEW s \in Sessions, uart_dev[s] # NoDev,
           LET b == pending[uart_dev[s].path]
           IN  forwarded' = [forwarded EXCEPT ![s] = @ \o Server!Tagged(s, b)]
    PROVE  /\ Forwarded(s) = pending[uart_dev[s].path]
           /\ forwarded' \in [Sessions -> Seq(Pair)]
  <1>. DEFINE b == pending[uart_dev[s].path]
              g == Server!Tagged(s, b)
              f == forwarded[s]
              z == f \o g
              o == uart_dev[s].opening
  <1>1. b \in Seq(Nat) /\ o \in Nat
    BY DEF PortsInv, DevicesTyped
  <1>2. f \in Seq(Pair) /\ forwarded \in [Sessions -> Seq(Pair)]
    BY DEF ServerType
  <1>3. g = [k \in DOMAIN b |-> [opening |-> o, byte |-> b[k]]]
    BY DEF Server!Tagged
  <1>4. forwarded' = [forwarded EXCEPT ![s] = z]
    OBVIOUS
  <1>. HIDE DEF b, g, o
  <1>5. g \in Seq(Pair) /\ Len(g) = Len(b) /\ Len(b) \in Nat /\ \A k \in 1..Len(b) : g[k].byte = b[k]
    <2>1. DOMAIN b = 1..Len(b) /\ Len(b) \in Nat
      BY <1>1
    <2>2. \A k \in 1..Len(b) : [opening |-> o, byte |-> b[k]] \in Pair
      BY <1>1 DEF Pair
    <2>3. g = [k \in 1..Len(b) |-> [opening |-> o, byte |-> b[k]]]
      BY <1>3, <2>1
    <2>4. g \in Seq(Pair) /\ Len(g) = Len(b)
      BY <2>1, <2>2, <2>3
    <2>. QED  BY <2>1, <2>3, <2>4
  <1>. HIDE DEF f
  <1>6. /\ z \in Seq(Pair) /\ Len(z) = Len(f) + Len(b) /\ Len(f) \in Nat
        /\ \A k \in 1..Len(b) : z[Len(f) + k] = g[k]
    <2>0. f \in Seq(Pair) /\ g \in Seq(Pair) /\ Len(f) \in Nat
      BY <1>2, <1>5
    <2>1. z \in Seq(Pair) /\ Len(z) = Len(f) + Len(g)
      BY <2>0, ConcatProperties, Zenon
    <2>2. ASSUME NEW k \in 1..Len(b) PROVE z[Len(f) + k] = g[k]
      <3>1. Len(f) + k \in 1..(Len(f) + Len(g)) /\ ~(Len(f) + k <= Len(f)) /\ (Len(f) + k) - Len(f) = k
        BY <1>5, <2>0
      <3>. QED  BY <1>2, <1>5, <3>1
    <2>. HIDE DEF z
    <2>. QED  BY <1>5, <2>0, <2>1, <2>2
  <1>. HIDE DEF z
  <1>7. forwarded' \in [Sessions -> Seq(Pair)] /\ forwarded'[s] = z
    BY <1>2, <1>4, <1>6
  <1>8. Forwarded(s) = [k \in 1..Len(b) |-> b[k]]
    <2>1. Forwarded(s) = [k \in 1..(Len(z) - Len(f)) |-> z[Len(f) + k].byte]
      BY <1>7 DEF Forwarded, f
    <2>2. Len(z) - Len(f) = Len(b)
      BY <1>5, <1>6
    <2>. QED  BY <1>5, <1>6, <2>1, <2>2
  <1>9. Forwarded(s) = b
    BY <1>1, <1>8
  <1>. QED  BY <1>7, <1>9 DEF b

LEMMA PollsDown ==
    ASSUME DInv, NEW s \in Sessions, ServerPolls(s)
    PROVE  /\ DownInv' /\ \A t \in Sessions : DownStep(t)
           /\ \A t \in Sessions \ {s} : DataOf(to_client[t])' = DataOf(to_client[t])
           /\ IF is_running[s] /\ client_closing[s] = "no"
              THEN DataOf(to_client[s])' = Append(DataOf(to_client[s]), Forwarded(s))
              ELSE DataOf(to_client[s])' = DataOf(to_client[s])
  <1>. DEFINE path == uart_dev[s].path
              b == pending[path]
              e == IF is_running[s] THEN <<packet("data", Forwarded(s))>> ELSE <<>>
  <1>1. /\ life[s] \in {"up", "fin"} /\ uart_dev[s] # NoDev /\ b # <<>>
        /\ pending' = [pending EXCEPT ![path] = <<>>]
        /\ Replies(s, e)
        /\ UNCHANGED <<stage, session, client_read, client_wrote, life>>
        /\ UNCHANGED <<requests, errors, uart_path, uart_dev, arrived>>
    BY DEF ServerPolls, Server!PollUart, process
  <1>2. forwarded' = IF is_running[s] /\ life[s] = "up"
                     THEN [forwarded EXCEPT ![s] = @ \o Server!Tagged(s, b)] ELSE forwarded
    BY DEF ServerPolls, Server!PollUart
  <1>3. ServerType /\ PortsInv /\ path \in Ports
    BY <1>1 DEF DInv, DownInv, PortsInv, DevicesTyped
  <1>4. PortsInv'
    <2>1. \A q \in Ports : pending'[q] = <<>> \/ pending'[q] = pending[q]
      BY <1>1, <1>3 DEF PortsInv
    <2>2. \A q \in Ports : arrived[q] \in Nat /\ pending[q] \in Seq(Nat) /\ Latest(pending[q], arrived[q])
      BY <1>3, LinkAssumption DEF PortsInv
    <2>3. \A q \in Ports : pending'[q] \in Seq(Nat) /\ Latest(pending'[q], arrived[q])
      BY <2>1, <2>2, EmptyLatest
    <2>4. pending' \in [Ports -> Seq(Nat)]
      BY <1>1, <1>3 DEF PortsInv
    <2>5. \A q \in Ports : Latest(pending[q], arrived[q])'
      BY <1>1, <2>3 DEF Latest
    <2>6. \A q \in Ports : ~HeldBy(uart_dev, q)' => pending'[q] = <<>>
      BY <1>1, <1>3, <2>1 DEF PortsInv, HeldBy, Server!Holds
    <2>. QED  BY <1>1, <1>3, <2>4, <2>5, <2>6 DEF PortsInv, DevicesTyped
  <1>5. ServerType' /\ (is_running[s] /\ life[s] = "up" => Forwarded(s) \in Runs(MaxRx))
    <2>1. CASE is_running[s] /\ life[s] = "up"
      <3>1. Forwarded(s) = b /\ forwarded' \in [Sessions -> Seq(Pair)]
        BY <1>1, <1>2, <1>3, <2>1, SentIsWaiting
      <3>2. b \in Runs(MaxRx)
        BY <1>1, <1>3, WaitingIsRun
      <3>. QED  BY <1>1, <1>3, <3>1, <3>2 DEF ServerType
    <2>2. CASE ~(is_running[s] /\ life[s] = "up")
      BY <1>1, <1>2, <1>3, <2>2 DEF ServerType
    <2>. QED  BY <2>1, <2>2
  <1>6. /\ client_closing' \in [Sessions -> {"no", "fin", "rst"}]
        /\ \A t \in Sessions : client_closing[t] # "no" => client_closing'[t] # "no"
        /\ \/ ~(is_running[s] /\ client_closing[s] = "no") /\ to_client' = to_client
           \/ /\ is_running[s] /\ client_closing[s] = "no"
              /\ to_client' = [to_client EXCEPT ![s] = @ \o <<packet("data", Forwarded(s))>>]
    BY <1>1 DEF Replies, DInv, DownInv, StreamType
  <1>7. ASSUME NEW t \in Sessions, to_client'[t] = to_client[t]
        PROVE  /\ Flowing(t)' /\ DownStep(t)
               /\ DataOf(to_client[t])' = DataOf(to_client[t])
    <2>1. Flowing(t)
      BY DEF DInv, DownInv
    <2>2. Idle(t)
      BY <1>1, <1>6, <1>7, <2>1 DEF Idle, Flowing
    <2>3. DataOf(to_client[t])' = DataOf(to_client[t])
      BY <1>7, Primed, Zenon
    <2>. QED  BY <2>1, <2>2, <2>3, IdleFlows
  <1>8. CASE ~(is_running[s] /\ client_closing[s] = "no") /\ to_client' = to_client
    <2>1. StreamType'
      BY <1>1, <1>6, <1>8 DEF DInv, DownInv, StreamType
    <2>. QED  BY <1>4, <1>5, <1>7, <1>8, <2>1 DEF DownInv
  <1>9. CASE /\ is_running[s] /\ client_closing[s] = "no"
             /\ to_client' = [to_client EXCEPT ![s] = @ \o <<packet("data", Forwarded(s))>>]
    <2>. DEFINE run == Forwarded(s)
                d == packet("data", run)
    <2>1. life[s] = "up"
      BY <1>1, <1>9 DEF DInv, DownInv, Flowing
    <2>2. run \in Runs(MaxRx)
      BY <1>5, <1>9, <2>1
    <2>3. to_client' = [to_client EXCEPT ![s] = @ \o <<d>>]
      BY <1>9
    <2>4. d \in ToClient
      BY <2>2 DEF packet, ToClient
    <2>. HIDE DEF run
    <2>5. to_client'[s] = to_client[s] \o <<packet("data", run)>>
          /\ \A t \in Sessions \ {s} : to_client'[t] = to_client[t]
      BY <2>3 DEF DInv, DownInv, StreamType
    <2>6. Flowing(s)' /\ DownStep(s) /\ DataOf(to_client[s])' = Append(DataOf(to_client[s]), run)
      BY <1>1, <2>1, <2>2, <2>5, DataFlows
    <2>. HIDE DEF d
    <2>7. StreamType'
      <3>1. to_client' \in [Sessions -> Seq(ToClient)]
        BY <2>3, <2>4 DEF DInv, DownInv, StreamType
      <3>. QED  BY <1>1, <1>6, <3>1 DEF DInv, DownInv, StreamType
    <2>. QED  BY <1>4, <1>5, <1>7, <1>9, <2>5, <2>6, <2>7 DEF DownInv, run
  <1>. QED  BY <1>6, <1>8, <1>9

(* The other steps of a session send nothing. *)
LEMMA QuietDown ==
    ASSUME DInv, NEW s \in Sessions, ServerPollRaises(s) \/ SeesEnd(s) \/ SeesReset(s)
    PROVE  DownInv' /\ \A t \in Sessions : DownStep(t)
  <1>1. UNCHANGED <<stage, session, to_client, client_read, client_wrote, client_closing>>
    BY DEF ServerPollRaises, SeesEnd, SeesReset, Quietly, process
  <1>2. ServerType' /\ PortsInv'
    <2>1. CASE SeesEnd(s)
      <3>1. UNCHANGED <<requests, errors, uart_path, forwarded, uart_dev, arrived, pending>>
        BY <2>1 DEF SeesEnd, Server!ClientCloses, Server!ports
      <3>2. PortsStep
        BY <3>1 DEF PortsStep, PortsInv, DevicesTyped, DInv, DownInv
      <3>. QED  BY <3>1, <3>2, PortsKept DEF ServerType, DInv, DownInv
    <2>2. CASE ServerPollRaises(s) \/ SeesReset(s)
      <3>1. Server!Exit(s) /\ UNCHANGED requests
        BY <2>2 DEF ServerPollRaises, SeesReset, Server!PollRaises, Server!ClientResets
      <3>2. PortsStep /\ UNCHANGED <<errors, uart_path, forwarded>>
        BY <3>1, ExitPorts DEF DInv, DownInv
      <3>. QED  BY <3>1, <3>2, PortsKept DEF ServerType, DInv, DownInv
    <2>. QED  BY <2>1, <2>2
  <1>3. \A t \in Sessions : Idle(t)
    <2>. SUFFICES ASSUME NEW t \in Sessions PROVE Idle(t)
      OBVIOUS
    <2>1. Flowing(t)
      BY DEF DInv, DownInv
    <2>2. /\ life'[t] = "free" => life[t] = "free"
          /\ life'[t] = "fin" => life[t] = "fin" \/ client_closing[t] # "no"
      <3>1. life \in [Sessions -> {"free", "up", "fin", "gone"}]
        BY DEF DInv, LInv, LinkType
      <3>2. CASE SeesEnd(s)
        <4>1. life' = [life EXCEPT ![s] = "fin"] /\ client_closing[s] = "fin"
          BY <3>2 DEF SeesEnd, Server!ClientCloses
        <4>. QED  BY <3>1, <4>1
      <3>3. CASE ServerPollRaises(s) \/ SeesReset(s)
        <4>1. life' = [life EXCEPT ![s] = "gone"]
          BY <3>3 DEF ServerPollRaises, SeesReset, Server!PollRaises, Server!ClientResets, Server!Exit
        <4>. QED  BY <3>1, <4>1
      <3>. QED  BY <3>2, <3>3
    <2>. QED  BY <1>1, <2>1, <2>2 DEF Idle, Flowing
  <1>4. client_closing' \in [Sessions -> {"no", "fin", "rst"}]
    BY <1>1 DEF DInv, DownInv, StreamType
  <1>. QED  BY <1>1, <1>2, <1>3, <1>4, AllIdle

LEMMA ReadsType ==
    ASSUME DInv, NEW key, Reads(key)
    PROVE  /\ client_read' \in [Sessions -> Nat]
           /\ UNCHANGED <<to_client, client_closing>>
  <1>1. /\ client_read' = [client_read EXCEPT ![session] = @ + 1]
        /\ UNCHANGED <<to_client, client_closing>>
        /\ session \in Sessions
    BY DEF Reads, DInv, LInv, LinkType
  <1>2. client_read \in [Sessions -> Nat]
    BY DEF DInv, DownInv, StreamType
  <1>. QED  BY <1>1, <1>2

LEMMA ClientDown ==
    ASSUME DInv, ClientStep, UNCHANGED serverVars
    PROVE  DownInv' /\ \A t \in Sessions : DownStep(t)
  <1>1. ServerType' /\ PortsInv' /\ UNCHANGED life
    BY ServerKept DEF DInv, DownInv, serverVars
  <1>2. client_closing \in [Sessions -> {"no", "fin", "rst"}]
    BY DEF DInv, DownInv, StreamType
  <1>3. ASSUME UNCHANGED <<to_client, client_read, client_wrote>>,
               client_closing' \in [Sessions -> {"no", "fin", "rst"}],
               \A t \in Sessions : client_closing[t] # "no" => client_closing'[t] # "no",
               stage' = "apart" \/ UNCHANGED <<stage, session>>
        PROVE  DownInv' /\ \A t \in Sessions : DownStep(t)
    <2>1. \A t \in Sessions : Idle(t)
      BY <1>1, <1>3 DEF Idle, DInv, DownInv, Flowing
    <2>. QED  BY <1>1, <1>3, <2>1, AllIdle
  <1>4. CASE AttemptFails \/ LocalReceives \/ ClientPoll
    <2>1. /\ UNCHANGED <<to_client, client_read, client_wrote, client_closing>>
          /\ UNCHANGED <<stage, session>>
      BY <1>4 DEF AttemptFails, LocalReceives, ClientPoll, process
    <2>. QED  BY <1>2, <1>3, <2>1
  <1>5. CASE RecvRaises \/ ClientPollRaises
    <2>1. UNCHANGED <<to_client, client_read, client_wrote, client_closing>> /\ stage' = "apart"
      BY <1>5 DEF RecvRaises, ClientPollRaises, Leave
    <2>. QED  BY <1>2, <1>3, <2>1
  <1>6. CASE Restart
    <2>1. /\ UNCHANGED <<to_client, client_read, client_wrote>> /\ stage' = "apart"
          /\ client_closing' = [client_closing EXCEPT ![session] = "fin"]
             \/ client_closing' = [client_closing EXCEPT ![session] = "rst"]
      BY <1>6 DEF Restart, Closing
    <2>. QED  BY <1>2, <1>3, <2>1
  <1>7. CASE ClientHandleError
    <2>1. Reads("error") /\ UNCHANGED <<stage, session, client_wrote>>
      BY <1>7 DEF ClientHandleError, process
    <2>2. \A s \in Sessions : Flowing(s)' /\ DownStep(s)
      BY <1>1, <2>1, ErrorRead
    <2>3. StreamType'
      BY <2>1, ReadsType DEF DInv, DownInv, StreamType
    <2>. QED  BY <1>1, <2>2, <2>3 DEF DownInv
  <1>8. CASE ClientHandleData \/ ClientHandleDataRaises
    <2>1. stage = "handle" /\ Reads("data") /\ session \in Sessions
      BY <1>8 DEF ClientHandleData, ClientHandleDataRaises, Reads, DInv, LInv, LinkType
    <2>2. PICK s \in Sessions : session = s
      BY <2>1
    <2>3. \/ /\ UNCHANGED <<stage, session>>
             /\ client_wrote' = [client_wrote EXCEPT ![s] =
                                   Append(@, to_client[s][client_read[s] + 1].val)]
          \/ stage' = "apart" /\ UNCHANGED client_wrote
      BY <1>8, <2>2 DEF ClientHandleData, ClientHandleDataRaises, Leave, process
    <2>4. /\ client_wrote' \in [Sessions -> Seq(Val)]
          /\ \A t \in Sessions : Flowing(t)' /\ DownStep(t)
      BY <1>1, <2>1, <2>2, <2>3, DataRead
    <2>5. StreamType'
      BY <2>1, <2>4, ReadsType DEF DInv, DownInv, StreamType
    <2>. QED  BY <1>1, <2>4, <2>5 DEF DownInv
  <1>. QED  BY <1>4, <1>5, <1>6, <1>7, <1>8 DEF ClientStep

-----------------------------------------------------------------------------
LEMMA DownInit ==
    ASSUME Init
    PROVE  DInv /\ \A s \in Sessions : Downstream(s)!Init
  <1>1. /\ stage = "apart"
        /\ to_client = [s \in Sessions |-> <<>>]
        /\ client_read = [s \in Sessions |-> 0]
        /\ client_wrote = [s \in Sessions |-> <<>>]
        /\ client_closing = [s \in Sessions |-> "no"]
        /\ life = [s \in Sessions |-> "free"]
        /\ uart_path = [s \in Sessions |-> NoPath]
        /\ uart_dev = [s \in Sessions |-> NoDev]
        /\ requests = [s \in Sessions |-> 0]
        /\ errors = [s \in Sessions |-> 0]
        /\ forwarded = [s \in Sessions |-> <<>>]
        /\ arrived = [p \in Ports |-> 0]
        /\ pending = [p \in Ports |-> <<>>]
    BY DEF Init, ClientInit, Server!Init
  <1>2. ServerType
    BY <1>1 DEF ServerType
  <1>3. PortsInv
    <2>1. \A p \in Ports : Latest(pending[p], arrived[p])
      BY <1>1, EmptyLatest
    <2>2. arrived \in [Ports -> 0..MaxRx]
      BY <1>1, LinkAssumption
    <2>. QED  BY <1>1, <2>1, <2>2 DEF PortsInv, DevicesTyped
  <1>4. StreamType
    BY <1>1 DEF StreamType
  <1>5. DataAt(<<>>) = {} /\ Cardinality({}) = 0
    BY FS_EmptySet DEF DataAt
  <1>6. ASSUME NEW s \in Sessions PROVE Flowing(s) /\ Downstream(s)!Init
    <2>1. to_client[s] = <<>> /\ client_read[s] = 0 /\ client_wrote[s] = <<>> /\ life[s] = "free"
      BY <1>1
    <2>2. 1..0 = {}
      OBVIOUS
    <2>3. Reached(to_client[s])
      BY <1>5, <2>1, <2>2, Zenon DEF Reached
    <2>4. Flowing(s)
      BY <1>1, <2>1, <2>3 DEF Flowing, InTurn
    <2>5. DataOf(to_client[s]) = <<>>
      <3>1. DataOf(to_client[s]) = [n \in {} |->
               to_client[s][CHOOSE i \in DataAt(to_client[s]) : Cardinality(UpTo(to_client[s], i)) = n].val]
        BY <1>5, <2>1, <2>2, Zenon DEF DataOf
      <3>. QED  BY <3>1
    <2>. QED  BY <2>1, <2>4, <2>5 DEF Downstream!Init
  <1>. QED  BY <1>2, <1>3, <1>4, <1>6, LinkInit DEF DInv, DownInv

LEMMA DownNext ==
    ASSUME DInv, [Next]_vars
    PROVE  DInv' /\ \A s \in Sessions : DownStep(s)
  <1>1. LInv'
    BY LinkStep DEF DInv
  <1>2. ASSUME UNCHANGED <<stage, session, to_client, client_read, client_wrote, client_closing, life>>,
               ServerType', PortsInv'
        PROVE  DownInv' /\ \A t \in Sessions : DownStep(t)
    <2>1. \A t \in Sessions : Idle(t)
      BY <1>2 DEF Idle, DInv, DownInv, Flowing
    <2>2. client_closing' \in [Sessions -> {"no", "fin", "rst"}]
      BY <1>2 DEF DInv, DownInv, StreamType
    <2>. QED  BY <1>2, <2>1, <2>2, AllIdle
  <1>3. CASE UNCHANGED vars
    <2>1. UNCHANGED <<stage, session, to_client, client_read, client_wrote, client_closing, life>>
          /\ UNCHANGED serverVars
      BY <1>3 DEF vars, clientVars, serverVars, process
    <2>. QED  BY <1>1, <1>2, <2>1, ServerKept DEF DInv, DownInv
  <1>4. ASSUME NEW p \in Ports, Server!UartReceives(p),
               UNCHANGED <<clientVars, server_read, server_wrote>>
        PROVE  DownInv' /\ \A t \in Sessions : DownStep(t)
    <2>1. UNCHANGED <<stage, session, to_client, client_read, client_wrote, client_closing>>
      BY <1>4 DEF clientVars, process
    <2>2. UNCHANGED <<life, requests, errors, uart_path, forwarded>>
      BY <1>4 DEF Server!UartReceives
    <2>3. ServerType' /\ PortsInv'
      BY <1>4, <2>2, PortGrows DEF ServerType, DInv, DownInv
    <2>. QED  BY <1>2, <2>1, <2>2, <2>3
  <1>5. ASSUME NEW s \in Sessions,
               \/ Connected(s)
               \/ ServerHandles(s) \/ ServerPolls(s) \/ ServerPollRaises(s)
               \/ SeesEnd(s) \/ SeesReset(s)
        PROVE  DownInv' /\ \A t \in Sessions : DownStep(t)
    BY <1>5, ConnectedDown, HandlesDown, PollsDown, QuietDown
  <1>6. CASE ClientStep /\ UNCHANGED <<serverVars, server_read, server_wrote>>
    BY <1>1, <1>6, ClientDown DEF DInv
  <1>. QED  BY <1>1, <1>3, <1>4, <1>5, <1>6, Zenon DEF Next, DInv

(* The way of the remote port's data to the client is a channel, although  *)
(* the session sends its errors on the same stream: the client writes,     *)
(* packet for packet, what the session sent it as data, and stops for good *)
(* where it cannot, whatever fails, closes or comes late at either end.    *)
THEOREM DownstreamImplemented == Spec => DownstreamSpec
  <1>. DEFINE Steps == \A s \in Sessions : DownStep(s)
  <1>1. Init => DInv /\ \A s \in Sessions : Downstream(s)!Init
    BY DownInit
  <1>2. DInv /\ [Next]_vars => DInv' /\ Steps
    BY DownNext
  <1>3. Spec => []DInv
    BY <1>1, <1>2, PTL DEF Spec
  <1>4. Spec => [][Steps]_vars
    BY <1>2, <1>3, PTL DEF Spec
  <1>. QED  BY <1>1, <1>4, PTL DEF Spec, DownstreamSpec, DownStep
=============================================================================
