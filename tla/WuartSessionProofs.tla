-------------------------- MODULE WuartSessionProofs --------------------------
(***************************************************************************)
(* Theorems about the sessions of the server, for any number of sessions,  *)
(* ports, baud rates and packets.                                          *)
(***************************************************************************)
EXTENDS WuartSession, TLAPS

(* The three ways through uart_open: not tried or not needed, failed, and  *)
(* succeeded.                                                              *)
LEMMA OpenCases ==
    ASSUME NEW s, NEW path, NEW baud, NEW o \in uart_open(s, path, baud)
    PROVE  \/ /\ path = NoPath \/ baud <= 0
              /\ o.dev = uart_dev[s]
              /\ o.ok = FALSE
           \/ /\ Same(uart_dev[s], path, baud)
              /\ o.dev = uart_dev[s]
              /\ o.ok = TRUE
           \/ /\ o.dev \in AfterClose(s)
              /\ o.ok = FALSE
           \/ /\ ~(path = NoPath \/ baud <= 0)
              /\ ~Same(uart_dev[s], path, baud)
              /\ o.dev = Fresh(s, path, baud)
              /\ o.ok = TRUE
  <1>1. CASE path = NoPath \/ baud <= 0
    <2>1. o = [dev |-> uart_dev[s], ok |-> FALSE]
      BY <1>1, Zenon DEF uart_open
    <2>. QED  BY <1>1, <2>1
  <1>2. CASE ~(path = NoPath \/ baud <= 0) /\ Same(uart_dev[s], path, baud)
    <2>1. o = [dev |-> uart_dev[s], ok |-> TRUE]
      BY <1>2, Zenon DEF uart_open
    <2>. QED  BY <1>2, <2>1
  <1>3. CASE ~(path = NoPath \/ baud <= 0) /\ ~Same(uart_dev[s], path, baud)
    <2>1. \/ o \in [dev : AfterClose(s), ok : {FALSE}]
          \/ o = [dev |-> Fresh(s, path, baud), ok |-> TRUE]
      BY <1>3, Zenon DEF uart_open
    <2>2. ASSUME o \in [dev : AfterClose(s), ok : {FALSE}]
          PROVE  o.dev \in AfterClose(s) /\ o.ok = FALSE
      <3>. DEFINE left == AfterClose(s)
      <3>1. o \in [dev : left, ok : {FALSE}]
        BY <2>2
      <3>. HIDE DEF left
      <3>2. o.dev \in left /\ o.ok = FALSE
        BY <3>1
      <3>. QED  BY <3>2 DEF left
    <2>3. ASSUME o = [dev |-> Fresh(s, path, baud), ok |-> TRUE]
          PROVE  o.dev = Fresh(s, path, baud) /\ o.ok = TRUE
      BY <2>3
    <2>. QED  BY <1>3, <2>1, <2>2, <2>3, Zenon
  <1>. QED  BY <1>1, <1>2, <1>3

(* What uart_open may leave behind. *)
LEMMA OpenOutcomes ==
    ASSUME TypeOK, NEW s \in Sessions, NEW path \in Ports \union {NoPath},
           NEW baud \in Bauds \union {0}, NEW o \in uart_open(s, path, baud)
    PROVE  /\ o.dev \in Device \union {NoDev}
           /\ o.ok \in BOOLEAN
  <1>1. uart_dev[s] \in Device \union {NoDev} /\ requests[s] + 1 \in Nat
    BY DEF TypeOK
  <1>2. path # NoPath /\ ~(baud <= 0) => Fresh(s, path, baud) \in Device
    BY <1>1, SessionAssumption DEF Fresh, Device
  <1>3. AfterClose(s) \subseteq Device \union {NoDev}
    BY <1>1 DEF AfterClose
  <1>. QED  BY <1>1, <1>2, <1>3, OpenCases

(* When close does not fail, a device is left open only by an open that    *)
(* succeeded, and is then the one that was asked for, or by one that was   *)
(* not tried because the settings are incomplete.                          *)
LEMMA OpenLeaves ==
    ASSUME ~CloseMayFail, NEW s, NEW path, NEW baud, NEW o \in uart_open(s, path, baud)
    PROVE  \/ o.dev = NoDev
           \/ o.ok = TRUE /\ o.dev.path = path /\ o.dev.baud = baud
           \/ o.dev = uart_dev[s] /\ (path = NoPath \/ baud <= 0)
  <1>1. AfterClose(s) = {NoDev}
    BY DEF AfterClose
  <1>2. Fresh(s, path, baud).path = path /\ Fresh(s, path, baud).baud = baud
    BY DEF Fresh
  <1>3. CASE (path = NoPath \/ baud <= 0) /\ o.dev = uart_dev[s]
    BY <1>3
  <1>4. CASE Same(uart_dev[s], path, baud) /\ o.dev = uart_dev[s] /\ o.ok = TRUE
    BY <1>4 DEF Same
  <1>5. CASE o.dev \in AfterClose(s)
    BY <1>1, <1>5
  <1>6. CASE o.dev = Fresh(s, path, baud) /\ o.ok = TRUE
    BY <1>2, <1>6
  <1>. QED  BY <1>3, <1>4, <1>5, <1>6, OpenCases, Zenon

LEMMA WaitingType ==
    ASSUME TypeOK, NEW devs, NEW opened
    PROVE  Waiting(devs, opened) \in [Ports -> Seq(Nat)]
  BY DEF TypeOK, Waiting

LEMMA StartType ==
    ASSUME TypeOK, NEW s \in Sessions, NEW path \in Ports \union {NoPath},
           NEW baud \in Bauds \union {0}, NEW errs \in Nat,
           Start(s, path, baud, errs) \/ StartIfReady(s, path, baud, errs)
    PROVE  /\ uart_dev' \in [Sessions -> Device \union {NoDev}]
           /\ is_running' \in [Sessions -> BOOLEAN]
           /\ errors' \in [Sessions -> Nat]
           /\ pending' \in [Ports -> Seq(Nat)]
  <1>1. CASE Start(s, path, baud, errs)
    <2>1. PICK o \in uart_open(s, path, baud) :
             /\ uart_dev' = [uart_dev EXCEPT ![s] = o.dev]
             /\ is_running' = [is_running EXCEPT ![s] = @ \/ o.ok]
             /\ errors' = [errors EXCEPT ![s] = @ + errs + (IF o.ok THEN 0 ELSE 1)]
             /\ pending' = Waiting(uart_dev', IF o.dev \in {NoDev, uart_dev[s]} THEN {} ELSE {path})
      BY <1>1 DEF Start
    <2>2. o.dev \in Device \union {NoDev} /\ o.ok \in BOOLEAN
      BY OpenOutcomes
    <2>3. pending' \in [Ports -> Seq(Nat)]
      BY <2>1, WaitingType
    <2>4. uart_dev' \in [Sessions -> Device \union {NoDev}]
      BY <2>1, <2>2 DEF TypeOK
    <2>5. is_running' \in [Sessions -> BOOLEAN]
      <3>1. (is_running[s] \/ o.ok) \in BOOLEAN
        BY Zenon DEF TypeOK
      <3>. QED  BY <2>1, <3>1, Zenon DEF TypeOK
    <2>6. errors' \in [Sessions -> Nat]
      BY <2>1 DEF TypeOK
    <2>. QED  BY <2>3, <2>4, <2>5, <2>6
  <1>2. CASE ~Start(s, path, baud, errs)
    <2>1. /\ errors' = [errors EXCEPT ![s] = @ + errs]
          /\ UNCHANGED <<uart_dev, is_running, pending>>
      BY <1>2, Zenon DEF StartIfReady
    <2>. QED  BY <2>1 DEF TypeOK
  <1>. QED  BY <1>1, <1>2

-----------------------------------------------------------------------------
(* Every state of the sessions is well typed: in particular a device slot  *)
(* holds a device or None, and the baud rate is never negative.            *)
THEOREM TypeCorrect == Spec => []TypeOK
  <1>1. Init => TypeOK
    BY SessionAssumption DEF Init, TypeOK
  <1>2. TypeOK /\ [Next]_vars => TypeOK'
    <2>. SUFFICES ASSUME TypeOK, Next PROVE TypeOK'
      BY DEF vars, ports, TypeOK
    <2>1. ASSUME NEW s \in Sessions, Accept(s) \/ ClientCloses(s) PROVE TypeOK'
      BY <2>1 DEF Accept, ClientCloses, ports, TypeOK
    <2>2. ASSUME NEW s \in Sessions, Exit(s), requests' \in [Sessions -> Nat]
          PROVE  TypeOK'
      <3>1. pending' \in [Ports -> Seq(Nat)]
        BY <2>2, WaitingType DEF Exit
      <3>. QED  BY <2>2, <3>1 DEF Exit, TypeOK
    <2>3. ASSUME NEW s \in Sessions, Request(s) PROVE requests' \in [Sessions -> Nat]
      BY <2>3 DEF Request, TypeOK
    <2>4. ASSUME NEW s \in Sessions, ClientResets(s) \/ PollRaises(s) PROVE TypeOK'
      BY <2>2, <2>4 DEF ClientResets, PollRaises, TypeOK
    <2>5. ASSUME NEW s \in Sessions, HandleDataRaises(s) \/ HandleUndecodable(s)
          PROVE  TypeOK'
      BY <2>2, <2>3, <2>5 DEF HandleDataRaises, HandleUndecodable
    <2>6. ASSUME NEW s \in Sessions, HandlePath(s) PROVE TypeOK'
      <3>1. PICK path \in Ports \union {NoPath} :
               /\ uart_path' = [uart_path EXCEPT ![s] = path]
               /\ StartIfReady(s, path, uart_baud[s], 0)
        BY <2>6 DEF HandlePath
      <3>2. uart_baud[s] \in Bauds \union {0}
        BY DEF TypeOK
      <3>3. /\ uart_dev' \in [Sessions -> Device \union {NoDev}]
            /\ is_running' \in [Sessions -> BOOLEAN]
            /\ errors' \in [Sessions -> Nat]
            /\ pending' \in [Ports -> Seq(Nat)]
        BY <3>1, <3>2, StartType
      <3>. QED  BY <2>3, <2>6, <3>1, <3>3 DEF HandlePath, Stays, TypeOK
    <2>7. ASSUME NEW s \in Sessions, HandleBaud(s) PROVE TypeOK'
      <3>1. PICK baud \in Bauds \union {0} :
               /\ uart_baud' = [uart_baud EXCEPT ![s] = baud]
               /\ StartIfReady(s, uart_path[s], baud, 0)
        BY <2>7 DEF HandleBaud
      <3>2. uart_path[s] \in Ports \union {NoPath}
        BY DEF TypeOK
      <3>3. /\ uart_dev' \in [Sessions -> Device \union {NoDev}]
            /\ is_running' \in [Sessions -> BOOLEAN]
            /\ errors' \in [Sessions -> Nat]
            /\ pending' \in [Ports -> Seq(Nat)]
        BY <3>1, <3>2, StartType
      <3>. QED  BY <2>3, <2>7, <3>1, <3>3 DEF HandleBaud, Stays, TypeOK
    <2>8. ASSUME NEW s \in Sessions, HandleInvalidBaud(s) \/ HandleStart(s) PROVE TypeOK'
      <3>1. /\ uart_path[s] \in Ports \union {NoPath}
            /\ uart_baud[s] \in Bauds \union {0}
        BY DEF TypeOK
      <3>2. /\ uart_dev' \in [Sessions -> Device \union {NoDev}]
            /\ is_running' \in [Sessions -> BOOLEAN]
            /\ errors' \in [Sessions -> Nat]
            /\ pending' \in [Ports -> Seq(Nat)]
        BY <2>8, <3>1, StartType DEF HandleInvalidBaud, HandleStart
      <3>. QED  BY <2>3, <2>8, <3>2 DEF HandleInvalidBaud, HandleStart, Stays, TypeOK
    <2>9. ASSUME NEW s \in Sessions, HandleStop(s) PROVE TypeOK'
      <3>1. PICK dev \in AfterClose(s) :
               /\ uart_dev' = [uart_dev EXCEPT ![s] = dev]
               /\ pending' = Waiting(uart_dev', {})
        BY <2>9 DEF HandleStop
      <3>2. dev \in Device \union {NoDev}
        BY DEF AfterClose, TypeOK
      <3>3. pending' \in [Ports -> Seq(Nat)]
        BY <3>1, WaitingType
      <3>. QED  BY <2>3, <2>9, <3>1, <3>2, <3>3 DEF HandleStop, Stays, TypeOK
    <2>10. ASSUME NEW s \in Sessions, Refuse(s) PROVE TypeOK'
      BY <2>3, <2>10 DEF Refuse, Stays, TypeOK
    <2>11. ASSUME NEW s \in Sessions, HandleDataWritten(s) \/ HandleError(s) PROVE TypeOK'
      BY <2>3, <2>11 DEF HandleDataWritten, HandleError, Stays, TypeOK
    <2>12. ASSUME NEW s \in Sessions, PollUart(s) PROVE TypeOK'
      <3>1. uart_dev[s] \in Device /\ uart_dev[s].path \in Ports /\ uart_dev[s].opening \in Nat
        BY <2>12 DEF PollUart, TypeOK, Device
      <3>2. pending[uart_dev[s].path] \in Seq(Nat)
        BY <3>1 DEF TypeOK
      <3>3. Tagged(s, pending[uart_dev[s].path]) \in Seq([opening : Nat, byte : Nat])
        <4>. DEFINE bytes == pending[uart_dev[s].path]
        <4>1. /\ DOMAIN bytes = 1..Len(bytes)
              /\ Len(bytes) \in Nat
              /\ \A k \in 1..Len(bytes) : bytes[k] \in Nat
          BY <3>2
        <4>. HIDE DEF bytes
        <4>2. [k \in 1..Len(bytes) |-> [opening |-> uart_dev[s].opening, byte |-> bytes[k]]]
                \in Seq([opening : Nat, byte : Nat])
          BY <3>1, <4>1
        <4>. QED  BY <4>1, <4>2 DEF Tagged, bytes
      <3>4. forwarded' \in [Sessions -> Seq([opening : Nat, byte : Nat])]
        BY <2>12, <3>3 DEF PollUart, TypeOK
      <3>5. pending' \in [Ports -> Seq(Nat)]
        <4>1. pending' = [pending EXCEPT ![uart_dev[s].path] = <<>>]
          BY <2>12 DEF PollUart
        <4>. QED  BY <3>1, <4>1 DEF TypeOK
      <3>. QED  BY <2>12, <3>4, <3>5 DEF PollUart, TypeOK
    <2>13. ASSUME NEW p \in Ports, UartReceives(p) PROVE TypeOK'
      <3>1. pending' \in [Ports -> Seq(Nat)] /\ arrived' \in [Ports -> Nat]
        BY <2>13 DEF UartReceives, TypeOK
      <3>. QED  BY <2>13, <3>1 DEF UartReceives, TypeOK
    <2>. QED
      BY <2>1, <2>4, <2>5, <2>6, <2>7, <2>8, <2>9, <2>10, <2>11, <2>12, <2>13
      DEF Next, HandlePacket, HandleData, HandleDataRefused, HandleUnknown
  <1>. QED  BY <1>1, <1>2, PTL DEF Spec

-----------------------------------------------------------------------------
(* The action StartIfReady leaves the session with no device, or with the  *)
(* one the settings name and running, or, when the settings are            *)
(* incomplete, as it was.                                                  *)
LEMMA StartLeaves ==
    ASSUME ~CloseMayFail, TypeOK, NEW s \in Sessions, NEW path, NEW baud \in Nat, NEW errs,
           Start(s, path, baud, errs) \/ StartIfReady(s, path, baud, errs)
    PROVE  /\ \A t \in Sessions \ {s} : /\ uart_dev'[t] = uart_dev[t]
                                        /\ is_running'[t] = is_running[t]
           /\ is_running[s] => is_running'[s]
           /\ \/ uart_dev'[s] = NoDev
              \/ is_running'[s] /\ uart_dev'[s].path = path /\ uart_dev'[s].baud = baud
              \/ uart_dev'[s] = uart_dev[s] /\ (path = NoPath \/ baud <= 0)
  <1>1. CASE Start(s, path, baud, errs)
    <2>1. PICK o \in uart_open(s, path, baud) :
             /\ uart_dev' = [uart_dev EXCEPT ![s] = o.dev]
             /\ is_running' = [is_running EXCEPT ![s] = @ \/ o.ok]
      BY <1>1 DEF Start
    <2>2. uart_dev'[s] = o.dev /\ \A t \in Sessions \ {s} : uart_dev'[t] = uart_dev[t]
      BY <2>1 DEF TypeOK
    <2>3. /\ is_running'[s] = (is_running[s] \/ o.ok)
          /\ \A t \in Sessions \ {s} : is_running'[t] = is_running[t]
      BY <2>1, Zenon DEF TypeOK
    <2>4. o.ok = TRUE => is_running'[s]
      BY <2>3, Zenon
    <2>5. is_running[s] => is_running'[s]
      BY <2>3, Zenon
    <2>6. \/ uart_dev'[s] = NoDev
          \/ o.ok = TRUE /\ uart_dev'[s].path = path /\ uart_dev'[s].baud = baud
          \/ uart_dev'[s] = uart_dev[s] /\ (path = NoPath \/ baud <= 0)
      <3>1. \/ o.dev = NoDev
            \/ o.ok = TRUE /\ o.dev.path = path /\ o.dev.baud = baud
            \/ o.dev = uart_dev[s] /\ (path = NoPath \/ baud <= 0)
        BY OpenLeaves
      <3>. QED  BY <2>2, <3>1
    <2>. QED  BY <2>2, <2>3, <2>4, <2>5, <2>6, Zenon
  <1>2. CASE ~Start(s, path, baud, errs)
    <2>1. (path = NoPath \/ ~(baud > 0)) /\ UNCHANGED <<uart_dev, is_running>>
      BY <1>2, Zenon DEF StartIfReady
    <2>2. path = NoPath \/ baud <= 0
      BY <2>1
    <2>3. uart_dev' = uart_dev /\ is_running' = is_running
      BY <2>1
    <2>. QED  BY <2>2, <2>3, Zenon
  <1>. QED  BY <1>1, <1>2

(* A session that exits holds nothing, and the others are untouched. *)
LEMMA ExitLeaves ==
    ASSUME TypeOK, NEW s \in Sessions, Exit(s)
    PROVE  /\ uart_dev'[s] = NoDev
           /\ \A t \in Sessions \ {s} : /\ uart_dev'[t] = uart_dev[t]
                                       /\ life'[t] = life[t]
           /\ UNCHANGED <<uart_path, uart_baud, is_running>>
  BY DEF Exit, TypeOK

(* The device a session holds is the one its settings name.  The invariant *)
(* is inductive by itself: a handler that changes the settings either runs *)
(* uart_open with the new ones, or leaves them incomplete.                 *)
THEOREM DeviceCorrect ==
    ASSUME ~CloseMayFail
    PROVE  Spec => []DeviceMatchesConfig
  <1>. DEFINE Matches(t) ==
         uart_dev[t] # NoDev /\ uart_path[t] # NoPath /\ uart_baud[t] > 0
            => uart_dev[t].path = uart_path[t] /\ uart_dev[t].baud = uart_baud[t]
  <1>1. Init => DeviceMatchesConfig
    BY DEF Init, DeviceMatchesConfig
  <1>2. TypeOK /\ DeviceMatchesConfig /\ [Next]_vars => DeviceMatchesConfig'
    <2>. SUFFICES ASSUME TypeOK, \A t \in Sessions : Matches(t), [Next]_vars,
                         NEW t \in Sessions
                  PROVE  Matches(t)'
      BY Zenon DEF DeviceMatchesConfig
    <2>0. Matches(t)
      OBVIOUS
    <2>1. ASSUME UNCHANGED <<uart_path, uart_baud>>,
                 uart_dev'[t] = uart_dev[t] \/ uart_dev'[t] = NoDev
          PROVE  Matches(t)'
      BY <2>0, <2>1
    <2>2. ASSUME NEW s \in Sessions, Exit(s) PROVE Matches(t)'
      BY <2>1, <2>2, ExitLeaves, Zenon
    <2>3. ASSUME NEW s \in Sessions, NEW path \in Ports \union {NoPath},
                 NEW baud \in Bauds \union {0}, NEW errs,
                 Start(s, path, baud, errs) \/ StartIfReady(s, path, baud, errs),
                 uart_path' = [uart_path EXCEPT ![s] = path],
                 uart_baud' = [uart_baud EXCEPT ![s] = baud]
          PROVE  Matches(t)'
      <3>1. baud \in Nat
        BY SessionAssumption
      <3>2. CASE t # s
        <4>1. uart_dev'[t] = uart_dev[t]
          BY <2>3, <3>1, <3>2, StartLeaves
        <4>2. uart_path'[t] = uart_path[t] /\ uart_baud'[t] = uart_baud[t]
          BY <2>3, <3>2 DEF TypeOK
        <4>. QED  BY <2>0, <4>1, <4>2
      <3>3. CASE t = s
        <4>1. uart_path'[s] = path /\ uart_baud'[s] = baud
          BY <2>3 DEF TypeOK
        <4>2. \/ uart_dev'[s] = NoDev
              \/ uart_dev'[s].path = path /\ uart_dev'[s].baud = baud
              \/ path = NoPath \/ baud <= 0
          BY <2>3, <3>1, StartLeaves
        <4>. QED  BY <3>1, <3>3, <4>1, <4>2
      <3>. QED  BY <3>2, <3>3
    <2>4. ASSUME NEW s \in Sessions, HandlePath(s) PROVE Matches(t)'
      <3>1. PICK path \in Ports \union {NoPath} :
               /\ uart_path' = [uart_path EXCEPT ![s] = path]
               /\ StartIfReady(s, path, uart_baud[s], 0)
        BY <2>4 DEF HandlePath
      <3>2. /\ uart_baud[s] \in Bauds \union {0}
            /\ uart_baud' = [uart_baud EXCEPT ![s] = uart_baud[s]]
        BY <2>4 DEF HandlePath, TypeOK
      <3>. QED  BY <2>3, <3>1, <3>2
    <2>5. ASSUME NEW s \in Sessions, HandleBaud(s) PROVE Matches(t)'
      <3>1. PICK baud \in Bauds \union {0} :
               /\ uart_baud' = [uart_baud EXCEPT ![s] = baud]
               /\ StartIfReady(s, uart_path[s], baud, 0)
        BY <2>5 DEF HandleBaud
      <3>2. /\ uart_path[s] \in Ports \union {NoPath}
            /\ uart_path' = [uart_path EXCEPT ![s] = uart_path[s]]
        BY <2>5 DEF HandleBaud, TypeOK
      <3>. QED  BY <2>3, <3>1, <3>2
    <2>6. ASSUME NEW s \in Sessions, HandleInvalidBaud(s) \/ HandleStart(s)
          PROVE  Matches(t)'
      <3>1. /\ uart_path[s] \in Ports \union {NoPath}
            /\ uart_baud[s] \in Bauds \union {0}
            /\ uart_path' = [uart_path EXCEPT ![s] = uart_path[s]]
            /\ uart_baud' = [uart_baud EXCEPT ![s] = uart_baud[s]]
        BY <2>6 DEF HandleInvalidBaud, HandleStart, TypeOK
      <3>. QED  BY <2>3, <2>6, <3>1 DEF HandleInvalidBaud, HandleStart
    <2>7. ASSUME NEW s \in Sessions, HandleStop(s) PROVE Matches(t)'
      BY <2>1, <2>7 DEF HandleStop, AfterClose, TypeOK
    <2>8. ASSUME NEW s \in Sessions, HandleDataRaises(s) \/ HandleUndecodable(s)
                                      \/ ClientResets(s) \/ PollRaises(s)
          PROVE  Matches(t)'
      BY <2>2, <2>8, Zenon DEF HandleDataRaises, HandleUndecodable, ClientResets, PollRaises
    <2>9. ASSUME UNCHANGED <<uart_path, uart_baud, uart_dev>> PROVE Matches(t)'
      BY <2>1, <2>9
    <2>10. ASSUME NEW s \in Sessions,
                  \/ Refuse(s) \/ HandleDataWritten(s) \/ HandleError(s) \/ PollUart(s)
                  \/ Accept(s) \/ ClientCloses(s)
           PROVE  Matches(t)'
      BY <2>9, <2>10, Zenon DEF Refuse, HandleDataWritten, HandleError, PollUart, Accept, ClientCloses
    <2>11. ASSUME NEW p \in Ports, UartReceives(p) PROVE Matches(t)'
      BY <2>9, <2>11, Zenon DEF UartReceives
    <2>12. CASE UNCHANGED vars
      BY <2>9, <2>12 DEF vars
    <2>. QED
      BY <2>4, <2>5, <2>6, <2>7, <2>8, <2>10, <2>11, <2>12
      DEF Next, HandlePacket, HandleData, HandleDataRefused, HandleUnknown
  <1>. QED  BY <1>1, <1>2, TypeCorrect, PTL DEF Spec

(* A device is held only by a session that counts as running and has a     *)
(* live thread.  Its client need not be there any more: in "fin" the       *)
(* thread holds the port and throws away what it reads.                    *)
HeldIsServed ==
    \A s \in Sessions :
        uart_dev[s] # NoDev => is_running[s] /\ life[s] \in {"up", "fin"}

LEMMA HeldServed ==
    ASSUME ~CloseMayFail
    PROVE  Spec => []HeldIsServed
  <1>. DEFINE Served(t) == uart_dev[t] # NoDev => is_running[t] /\ life[t] \in {"up", "fin"}
  <1>1. Init => HeldIsServed
    BY DEF Init, HeldIsServed
  <1>2. TypeOK /\ HeldIsServed /\ [Next]_vars => HeldIsServed'
    <2>. SUFFICES ASSUME TypeOK, \A t \in Sessions : Served(t), [Next]_vars,
                         NEW t \in Sessions
                  PROVE  Served(t)'
      BY Zenon DEF HeldIsServed
    <2>0. Served(t)
      OBVIOUS
    <2>1. ASSUME is_running'[t] = is_running[t],
                 life'[t] = life[t] \/ life'[t] \in {"up", "fin"},
                 uart_dev'[t] = uart_dev[t]
          PROVE  Served(t)'
      BY <2>0, <2>1, Zenon
    <2>2. ASSUME NEW s \in Sessions, Exit(s) PROVE Served(t)'
      <3>1. CASE t = s
        BY <2>2, <3>1, ExitLeaves, Zenon
      <3>2. CASE t # s
        BY <2>1, <2>2, <3>2, ExitLeaves, Zenon
      <3>. QED  BY <3>1, <3>2
    <2>3. ASSUME NEW s \in Sessions, NEW path, NEW baud \in Bauds \union {0}, NEW errs,
                 Start(s, path, baud, errs) \/ StartIfReady(s, path, baud, errs),
                 Request(s), Stays
          PROVE  Served(t)'
      <3>1. baud \in Nat
        BY SessionAssumption
      <3>2. life' = life /\ life[s] = "up"
        BY <2>3 DEF Request, Stays
      <3>3. CASE t # s
        BY <2>1, <2>3, <3>1, <3>2, <3>3, StartLeaves, Zenon
      <3>4. CASE t = s
        <4>1. is_running[s] => is_running'[s]
          BY <2>3, <3>1, StartLeaves, Zenon
        <4>2. uart_dev'[s] = NoDev \/ is_running'[s] \/ uart_dev'[s] = uart_dev[s]
          BY <2>3, <3>1, StartLeaves, Zenon
        <4>. QED  BY <2>0, <3>2, <3>4, <4>1, <4>2, Zenon
      <3>. QED  BY <3>3, <3>4
    <2>4. ASSUME NEW s \in Sessions,
                 HandlePath(s) \/ HandleBaud(s) \/ HandleInvalidBaud(s) \/ HandleStart(s)
          PROVE  Served(t)'
      <3>1. uart_baud[s] \in Bauds \union {0}
        BY DEF TypeOK
      <3>2. CASE HandlePath(s)
        BY <2>3, <3>1, <3>2, Zenon DEF HandlePath
      <3>3. CASE HandleBaud(s)
        BY <2>3, <3>3, Zenon DEF HandleBaud
      <3>4. CASE HandleInvalidBaud(s) \/ HandleStart(s)
        BY <2>3, <3>1, <3>4, Zenon DEF HandleInvalidBaud, HandleStart
      <3>. QED  BY <2>4, <3>2, <3>3, <3>4
    <2>5. ASSUME NEW s \in Sessions, HandleStop(s) PROVE Served(t)'
      <3>1. uart_dev'[s] = NoDev
        BY <2>5 DEF HandleStop, AfterClose, TypeOK
      <3>2. life' = life
        BY <2>5 DEF HandleStop, Stays
      <3>3. CASE t = s
        BY <3>1, <3>3
      <3>4. CASE t # s
        <4>1. uart_dev'[t] = uart_dev[t]
          BY <2>5, <3>4 DEF HandleStop, TypeOK
        <4>2. is_running'[t] = is_running[t]
          BY <2>5, <3>4, Zenon DEF HandleStop, TypeOK
        <4>. QED  BY <2>1, <3>2, <4>1, <4>2, Zenon
      <3>. QED  BY <3>3, <3>4
    <2>6. ASSUME NEW s \in Sessions, HandleDataRaises(s) \/ HandleUndecodable(s)
                                      \/ ClientResets(s) \/ PollRaises(s)
          PROVE  Served(t)'
      BY <2>2, <2>6, Zenon DEF HandleDataRaises, HandleUndecodable, ClientResets, PollRaises
    <2>7. ASSUME UNCHANGED <<life, is_running, uart_dev>> PROVE Served(t)'
      <3>1. life' = life /\ is_running' = is_running /\ uart_dev' = uart_dev
        BY <2>7
      <3>. QED  BY <2>1, <3>1, Zenon
    <2>8. ASSUME NEW s \in Sessions,
                 Refuse(s) \/ HandleDataWritten(s) \/ HandleError(s) \/ PollUart(s)
          PROVE  Served(t)'
      BY <2>7, <2>8 DEF Refuse, HandleDataWritten, HandleError, PollUart, Stays
    <2>9. ASSUME NEW s \in Sessions, Accept(s) \/ ClientCloses(s) PROVE Served(t)'
      <3>1. life'[t] = life[t] \/ life'[t] \in {"up", "fin"}
        BY <2>9 DEF Accept, ClientCloses, TypeOK
      <3>2. is_running' = is_running /\ uart_dev' = uart_dev
        BY <2>9 DEF Accept, ClientCloses
      <3>. QED  BY <2>1, <3>1, <3>2, Zenon
    <2>10. ASSUME NEW p \in Ports, UartReceives(p) PROVE Served(t)'
      BY <2>7, <2>10 DEF UartReceives
    <2>11. CASE UNCHANGED vars
      BY <2>7, <2>11 DEF vars
    <2>. QED
      BY <2>4, <2>5, <2>6, <2>8, <2>9, <2>10, <2>11
      DEF Next, HandlePacket, HandleData, HandleDataRefused, HandleUnknown
  <1>. QED  BY <1>1, <1>2, TypeCorrect, PTL DEF Spec

(* A device is exchanged for another one only when the path or the rate is *)
(* another: no step closes and opens the same device, so that a client     *)
(* that repeats its settings does not lose what waits in the driver.       *)
THEOREM NoNeedlessReopen == Spec => ReopenedOnlyForChange
  <1>. DEFINE Kept(s) ==
         uart_dev[s] # NoDev /\ uart_dev'[s] # NoDev
             /\ uart_dev'[s].opening # uart_dev[s].opening
           => \/ uart_dev'[s].path # uart_dev[s].path
              \/ uart_dev'[s].baud # uart_dev[s].baud
  <1>1. TypeOK /\ [Next]_vars => [\A s \in Sessions : Kept(s)]_vars
    <2>. SUFFICES ASSUME TypeOK, Next, NEW t \in Sessions PROVE Kept(t)
      BY Zenon
    <2>1. ASSUME uart_dev'[t] = uart_dev[t] \/ uart_dev'[t] = NoDev PROVE Kept(t)
      BY <2>1, Zenon
    <2>2. ASSUME NEW s \in Sessions, Exit(s) PROVE Kept(t)
      BY <2>1, <2>2, ExitLeaves, Zenon
    <2>3. ASSUME NEW s \in Sessions, NEW path, NEW baud, NEW errs,
                 Start(s, path, baud, errs) \/ StartIfReady(s, path, baud, errs)
          PROVE  Kept(t)
      <3>1. CASE Start(s, path, baud, errs)
        <4>1. PICK o \in uart_open(s, path, baud) : uart_dev' = [uart_dev EXCEPT ![s] = o.dev]
          BY <3>1 DEF Start
        <4>2. CASE t # s
          BY <2>1, <4>1, <4>2 DEF TypeOK
        <4>3. CASE t = s
          <5>1. uart_dev'[s] = o.dev
            BY <4>1 DEF TypeOK
          <5>2. CASE o.dev = uart_dev[s] \/ o.dev = NoDev
            BY <2>1, <4>3, <5>1, <5>2
          <5>3. CASE ~Same(uart_dev[s], path, baud) /\ o.dev = Fresh(s, path, baud)
            BY <4>3, <5>1, <5>3 DEF Same, Fresh
          <5>4. CASE o.dev \in AfterClose(s)
            BY <5>2, <5>4 DEF AfterClose
          <5>. QED  BY <5>2, <5>3, <5>4, OpenCases, Zenon
        <4>. QED  BY <4>2, <4>3
      <3>2. CASE ~Start(s, path, baud, errs)
        <4>1. UNCHANGED <<uart_dev, is_running, pending>>
          BY <2>3, <3>2, Zenon DEF StartIfReady
        <4>. QED  BY <2>1, <4>1
      <3>. QED  BY <3>1, <3>2
    <2>4. ASSUME NEW s \in Sessions,
                 HandlePath(s) \/ HandleBaud(s) \/ HandleInvalidBaud(s) \/ HandleStart(s)
          PROVE  Kept(t)
      BY <2>3, <2>4, Zenon DEF HandlePath, HandleBaud, HandleInvalidBaud, HandleStart
    <2>5. ASSUME NEW s \in Sessions, HandleStop(s) PROVE Kept(t)
      <3>1. uart_dev'[t] = uart_dev[t] \/ uart_dev'[t] = NoDev
        BY <2>5 DEF HandleStop, AfterClose, TypeOK
      <3>. QED  BY <2>1, <3>1
    <2>6. ASSUME NEW s \in Sessions, HandleDataRaises(s) \/ HandleUndecodable(s)
                                      \/ ClientResets(s) \/ PollRaises(s)
          PROVE  Kept(t)
      BY <2>2, <2>6, Zenon DEF HandleDataRaises, HandleUndecodable, ClientResets, PollRaises
    <2>7. ASSUME NEW s \in Sessions,
                 \/ Refuse(s) \/ HandleDataWritten(s) \/ HandleError(s) \/ PollUart(s)
                 \/ Accept(s) \/ ClientCloses(s)
          PROVE  Kept(t)
      <3>1. uart_dev' = uart_dev
        BY <2>7 DEF Refuse, HandleDataWritten, HandleError, PollUart, Accept, ClientCloses
      <3>. QED  BY <2>1, <3>1, Zenon
    <2>8. ASSUME NEW p \in Ports, UartReceives(p) PROVE Kept(t)
      BY <2>1, <2>8 DEF UartReceives
    <2>. QED
      BY <2>4, <2>5, <2>6, <2>7, <2>8
      DEF Next, HandlePacket, HandleData, HandleDataRefused, HandleUnknown
  <1>. QED  BY <1>1, TypeCorrect, PTL DEF Spec, ReopenedOnlyForChange

-----------------------------------------------------------------------------
(***************************************************************************)
(* The theorem that a connected session which keeps its device loses       *)
(* nothing of what the port receives, for any number of sessions, ports,   *)
(* rates, packets and bytes, where ports are opened exclusively and        *)
(* close() does not throw.                                                 *)
(*                                                                         *)
(* It rests on an invariant of the shared ports: a port has one holder at  *)
(* most (HoldersAgree), nothing is kept for a port without one             *)
(* (UnheldEmpty), what waits in a driver is the last that the port has     *)
(* received (WaitsLatest), and it continues what the one holder has        *)
(* forwarded in this opening (Continues), where no byte is missing between *)
(* two others (ForwardedWithoutGap).                                       *)
(***************************************************************************)
HoldersAgree ==
    \A p \in Ports : \A s, t \in Sessions :
        Holds(uart_dev, s, p) /\ Holds(uart_dev, t, p) => s = t

UnheldEmpty ==
    \A p \in Ports : (\A s \in Sessions : ~Holds(uart_dev, s, p)) => pending[p] = <<>>

(* The number of the last byte of port p that no longer waits. *)
Passed(p) == arrived[p] - Len(pending[p])

WaitsLatest ==
    \A p \in Ports : \A k \in 1..Len(pending[p]) : pending[p][k] = Passed(p) + k

OpeningsPast ==
    \A s \in Sessions :
        /\ uart_dev[s] # NoDev => uart_dev[s].opening <= requests[s]
        /\ \A k \in 1..Len(forwarded[s]) : forwarded[s][k].opening <= requests[s]

LastOf(s) == forwarded[s][Len(forwarded[s])]

Continues ==
    \A s \in Sessions :
        /\ life[s] = "up" /\ uart_dev[s] # NoDev
        /\ Len(forwarded[s]) > 0
        /\ LastOf(s).opening = uart_dev[s].opening
        => LastOf(s).byte = Passed(uart_dev[s].path)

ForwardedWithoutGap ==
    \A s \in Sessions : \A k \in 1..(Len(forwarded[s]) - 1) :
        LET one == forwarded[s][k]
            two == forwarded[s][k + 1]
        IN  one.opening = two.opening => two.byte = one.byte + 1

GInv ==
    /\ HoldersAgree
    /\ UnheldEmpty
    /\ WaitsLatest
    /\ OpeningsPast
    /\ Continues
    /\ ForwardedWithoutGap

-----------------------------------------------------------------------------
LEMMA ForwardedType ==
    ASSUME TypeOK, NEW s \in Sessions
    PROVE  /\ forwarded[s] \in Seq([opening : Nat, byte : Nat])
           /\ Len(forwarded[s]) \in Nat
           /\ \A k \in 1..Len(forwarded[s]) :
                 /\ forwarded[s][k] \in [opening : Nat, byte : Nat]
                 /\ forwarded[s][k].opening \in Nat
                 /\ forwarded[s][k].byte \in Nat
  <1>1. forwarded[s] \in Seq([opening : Nat, byte : Nat])
    BY DEF TypeOK
  <1>2. Len(forwarded[s]) \in Nat
        /\ \A k \in 1..Len(forwarded[s]) : forwarded[s][k] \in [opening : Nat, byte : Nat]
    <2>. DEFINE f == forwarded[s]
                Pair == [opening : Nat, byte : Nat]
    <2>1. f \in Seq(Pair)
      BY <1>1
    <2>. HIDE DEF f, Pair
    <2>2. Len(f) \in Nat /\ \A k \in 1..Len(f) : f[k] \in Pair
      BY <2>1
    <2>. QED  BY <2>2 DEF f, Pair
  <1>3. \A x \in [opening : Nat, byte : Nat] : x.opening \in Nat /\ x.byte \in Nat
    OBVIOUS
  <1>. QED  BY <1>1, <1>2, <1>3, Zenon

(* Steps that touch neither ports nor what was forwarded. *)
LEMMA Idle ==
    ASSUME TypeOK, TypeOK', GInv, UNCHANGED <<uart_dev, pending, arrived, forwarded>>,
           \A t \in Sessions : requests[t] <= requests'[t],
           \A t \in Sessions : life'[t] = "up" => life[t] = "up" \/ uart_dev[t] = NoDev
    PROVE  GInv'
  <1>1. /\ uart_dev' = uart_dev /\ pending' = pending /\ arrived' = arrived
        /\ forwarded' = forwarded
    OBVIOUS
  <1>2. HoldersAgree' /\ UnheldEmpty'
    BY <1>1 DEF GInv, HoldersAgree, UnheldEmpty, Holds
  <1>3. WaitsLatest'
    BY <1>1 DEF GInv, WaitsLatest, Passed
  <1>4. ForwardedWithoutGap'
    BY <1>1 DEF GInv, ForwardedWithoutGap
  <1>5. Continues'
    BY <1>1 DEF GInv, Continues, LastOf, Passed
  <1>6. OpeningsPast'
    <2>. SUFFICES ASSUME NEW s \in Sessions
                  PROVE  /\ uart_dev[s] # NoDev => uart_dev[s].opening <= requests'[s]
                         /\ \A k \in 1..Len(forwarded[s]) : forwarded[s][k].opening <= requests'[s]
      BY <1>1 DEF OpeningsPast
    <2>1. requests[s] \in Nat /\ requests'[s] \in Nat /\ requests[s] <= requests'[s]
      BY DEF TypeOK
    <2>2. ASSUME uart_dev[s] # NoDev PROVE uart_dev[s].opening <= requests'[s]
      <3>1. uart_dev[s].opening \in Nat
        BY <2>2 DEF TypeOK, Device
      <3>2. uart_dev[s].opening <= requests[s]
        BY <2>2 DEF GInv, OpeningsPast
      <3>. QED  BY <2>1, <3>1, <3>2
    <2>3. ASSUME NEW k \in 1..Len(forwarded[s])
          PROVE  forwarded[s][k].opening <= requests'[s]
      <3>1. forwarded[s][k].opening \in Nat
        BY ForwardedType
      <3>2. forwarded[s][k].opening <= requests[s]
        BY DEF GInv, OpeningsPast
      <3>. QED  BY <2>1, <3>1, <3>2
    <2>. QED  BY <2>2, <2>3
  <1>. QED  BY <1>2, <1>3, <1>4, <1>5, <1>6 DEF GInv

(* A session drops its device (dev = NoDev) or opens one that nobody else  *)
(* holds, as its next opening.                                             *)
LEMMA Exchanged ==
    ASSUME TypeOK, TypeOK', GInv, NEW s \in Sessions, NEW dev \in Device \union {NoDev},
           uart_dev' = [uart_dev EXCEPT ![s] = dev],
           pending' = Waiting(uart_dev', IF dev = NoDev THEN {} ELSE {dev.path}),
           UNCHANGED <<arrived, forwarded>>,
           \A t \in Sessions : requests[t] <= requests'[t],
           \A t \in Sessions \ {s} : life'[t] = "up" => life[t] = "up",
           dev # NoDev => /\ dev.opening = requests[s] + 1
                          /\ requests'[s] = requests[s] + 1
                          /\ \A t \in Sessions \ {s} : ~Holds(uart_dev, t, dev.path)
    PROVE  GInv'
  <1>. DEFINE opened == IF dev = NoDev THEN {} ELSE {dev.path}
  <1>1. /\ uart_dev'[s] = dev
        /\ \A t \in Sessions \ {s} : uart_dev'[t] = uart_dev[t]
    BY DEF TypeOK
  <1>2. arrived' = arrived /\ forwarded' = forwarded
    OBVIOUS
  <1>3. \A p \in Ports : pending'[p] = IF p \in opened \/ ~\E t \in Sessions : Holds(uart_dev', t, p)
                                       THEN <<>> ELSE pending[p]
    BY DEF Waiting
  <1>4. ASSUME NEW t \in Sessions \ {s}, NEW p \in Ports, Holds(uart_dev, t, p)
        PROVE  Holds(uart_dev', t, p) /\ p \notin opened /\ pending'[p] = pending[p]
    <2>1. Holds(uart_dev', t, p)
      BY <1>1, <1>4 DEF Holds
    <2>2. p \notin opened
      BY <1>4
    <2>. QED  BY <1>3, <2>1, <2>2
  <1>5. \A p \in Ports : pending'[p] = <<>> \/ pending'[p] = pending[p]
    BY <1>3
  <1>. HIDE DEF opened
  <1>6. HoldersAgree'
    <2>. SUFFICES ASSUME NEW p \in Ports, NEW t \in Sessions, NEW u \in Sessions,
                         Holds(uart_dev', t, p), Holds(uart_dev', u, p)
                  PROVE  t = u
      BY DEF HoldersAgree
    <2>1. \A v \in Sessions \ {s} : Holds(uart_dev', v, p) => Holds(uart_dev, v, p)
      BY <1>1 DEF Holds
    <2>2. Holds(uart_dev', s, p) => dev # NoDev /\ dev.path = p
      BY <1>1 DEF Holds
    <2>3. CASE t # s /\ u # s
      BY <2>1, <2>3 DEF GInv, HoldersAgree
    <2>4. CASE t = s /\ u # s
      BY <2>1, <2>2, <2>4
    <2>5. CASE t # s /\ u = s
      BY <2>1, <2>2, <2>5
    <2>. QED  BY <2>3, <2>4, <2>5
  <1>7. UnheldEmpty'
    BY <1>3 DEF UnheldEmpty
  <1>8. WaitsLatest'
    <2>. SUFFICES ASSUME NEW p \in Ports, NEW k \in 1..Len(pending'[p])
                  PROVE  pending'[p][k] = arrived'[p] - Len(pending'[p]) + k
      BY Zenon DEF WaitsLatest, Passed
    <2>0. arrived'[p] = arrived[p]
      BY <1>2
    <2>1. pending'[p] = pending[p]
      <3>1. Len(<<>>) = 0 /\ 1..0 = {}
        OBVIOUS
      <3>. QED  BY <1>5, <3>1
    <2>. QED  BY <2>0, <2>1 DEF GInv, WaitsLatest, Passed
  <1>9. OpeningsPast'
    <2>. SUFFICES ASSUME NEW t \in Sessions
                  PROVE  /\ uart_dev'[t] # NoDev => uart_dev'[t].opening <= requests'[t]
                         /\ \A k \in 1..Len(forwarded[t]) : forwarded[t][k].opening <= requests'[t]
      BY <1>2 DEF OpeningsPast
    <2>1. requests[t] \in Nat /\ requests'[t] \in Nat /\ requests[t] <= requests'[t]
      BY DEF TypeOK
    <2>2. ASSUME NEW k \in 1..Len(forwarded[t])
          PROVE  forwarded[t][k].opening <= requests'[t]
      <3>1. forwarded[t][k].opening \in Nat
        BY ForwardedType
      <3>2. forwarded[t][k].opening <= requests[t]
        BY DEF GInv, OpeningsPast
      <3>. QED  BY <2>1, <3>1, <3>2
    <2>3. ASSUME uart_dev'[t] # NoDev PROVE uart_dev'[t].opening <= requests'[t]
      <3>1. CASE t = s
        BY <1>1, <2>1, <2>3, <3>1
      <3>2. CASE t # s
        <4>1. uart_dev'[t] = uart_dev[t] /\ uart_dev[t].opening \in Nat
          BY <1>1, <2>3, <3>2 DEF TypeOK, Device
        <4>2. uart_dev[t].opening <= requests[t]
          BY <2>3, <4>1 DEF GInv, OpeningsPast
        <4>. QED  BY <2>1, <4>1, <4>2
      <3>. QED  BY <3>1, <3>2
    <2>. QED  BY <2>2, <2>3
  <1>10. Continues'
    <2>. SUFFICES ASSUME NEW t \in Sessions, life'[t] = "up", uart_dev'[t] # NoDev,
                         Len(forwarded[t]) > 0,
                         LastOf(t).opening = uart_dev'[t].opening
                  PROVE  LastOf(t).byte = arrived[uart_dev'[t].path] - Len(pending'[uart_dev'[t].path])
      BY <1>2 DEF Continues, LastOf, Passed
    <2>1. CASE t = s
      <3>1. LastOf(s).opening <= requests[s] /\ LastOf(s).opening \in Nat /\ requests[s] \in Nat
        <4>1. Len(forwarded[s]) \in 1..Len(forwarded[s])
          BY <2>1, ForwardedType
        <4>2. LastOf(s).opening \in Nat
          BY <4>1, ForwardedType DEF LastOf
        <4>. QED  BY <4>1, <4>2 DEF LastOf, GInv, OpeningsPast, TypeOK
      <3>. QED  BY <1>1, <2>1, <3>1
    <2>2. CASE t # s
      <3>1. uart_dev'[t] = uart_dev[t] /\ life[t] = "up"
        BY <1>1, <2>2
      <3>2. uart_dev[t].path \in Ports /\ Holds(uart_dev, t, uart_dev[t].path)
        BY <3>1 DEF TypeOK, Device, Holds
      <3>3. pending'[uart_dev[t].path] = pending[uart_dev[t].path]
        BY <1>4, <2>2, <3>2
      <3>4. LastOf(t).byte = Passed(uart_dev[t].path)
        BY <3>1 DEF GInv, Continues
      <3>. QED  BY <3>1, <3>3, <3>4 DEF Passed
    <2>. QED  BY <2>1, <2>2
  <1>11. ForwardedWithoutGap'
    BY <1>2 DEF GInv, ForwardedWithoutGap
  <1>. QED  BY <1>6, <1>7, <1>8, <1>9, <1>10, <1>11 DEF GInv
(* A driver gives all that waits to the session that holds its port. *)
LEMMA Polled ==
    ASSUME TypeOK, TypeOK', HeldIsServed, GInv, NEW s \in Sessions, PollUart(s)
    PROVE  GInv'
  <1>. DEFINE p == uart_dev[s].path
              g == Tagged(s, pending[p])
              n == Len(forwarded[s])
              w == Len(pending[p])
  <1>1. /\ uart_dev[s] \in Device
        /\ p \in Ports
        /\ uart_dev[s].opening \in Nat
        /\ pending[p] \in Seq(Nat)
        /\ arrived[p] \in Nat
    BY DEF PollUart, TypeOK, Device
  <1>2. /\ UNCHANGED <<life, uart_dev, requests, arrived>>
        /\ pending' = [pending EXCEPT ![p] = <<>>]
        /\ forwarded' = IF life[s] = "up" THEN [forwarded EXCEPT ![s] = @ \o g] ELSE forwarded
    <2>1. is_running[s]
      BY Zenon DEF PollUart, HeldIsServed
    <2>. QED  BY <2>1, Zenon DEF PollUart
  <1>3. /\ pending'[p] = <<>>
        /\ \A q \in Ports \ {p} : pending'[q] = pending[q]
    BY <1>1, <1>2 DEF TypeOK
  <1>4. \A t \in Sessions \ {s} : forwarded'[t] = forwarded[t]
    BY <1>2 DEF TypeOK
  <1>5. HoldersAgree' /\ UnheldEmpty' /\ WaitsLatest'
    <2>1. HoldersAgree'
      BY <1>2 DEF GInv, HoldersAgree, Holds
    <2>2. UnheldEmpty'
      BY <1>2, <1>3 DEF GInv, UnheldEmpty, Holds
    <2>3. ASSUME NEW q \in Ports, NEW k \in 1..Len(pending'[q])
          PROVE  pending'[q][k] = arrived[q] - Len(pending'[q]) + k
      <3>1. Len(<<>>) = 0 /\ 1..0 = {}
        OBVIOUS
      <3>2. pending'[q] = pending[q]
        BY <1>3, <3>1
      <3>. QED  BY <3>2 DEF GInv, WaitsLatest, Passed
    <2>. QED  BY <1>2, <2>1, <2>2, <2>3 DEF WaitsLatest, Passed
  <1>6. /\ n \in Nat
        /\ w \in Nat
        /\ forwarded[s] \in Seq([opening : Nat, byte : Nat])
    BY <1>1, ForwardedType
  (* What a session that is up has forwarded afterwards. *)
  <1>7. ASSUME life[s] = "up"
        PROVE  /\ Len(forwarded'[s]) = n + w
               /\ \A k \in 1..n : forwarded'[s][k] = forwarded[s][k]
               /\ \A k \in (n + 1)..(n + w) :
                     forwarded'[s][k] = [opening |-> uart_dev[s].opening,
                                         byte |-> Passed(p) + (k - n)]
    <2>1. forwarded'[s] = forwarded[s] \o g
      BY <1>2, <1>7 DEF TypeOK
    <2>2. /\ g \in Seq([opening : Nat, byte : Nat])
          /\ Len(g) = Len(pending[p])
          /\ \A k \in 1..Len(pending[p]) :
                g[k] = [opening |-> uart_dev[s].opening, byte |-> Passed(p) + k]
      <3>. DEFINE bytes == pending[p]
      <3>1. /\ DOMAIN bytes = 1..Len(bytes)
            /\ Len(bytes) \in Nat
            /\ \A k \in 1..Len(bytes) : bytes[k] \in Nat
        BY <1>1, SMTT(30)
      <3>2. \A k \in 1..Len(bytes) : bytes[k] = Passed(p) + k
        BY <1>1 DEF GInv, WaitsLatest
      <3>3. g = [k \in 1..Len(bytes) |-> [opening |-> uart_dev[s].opening, byte |-> bytes[k]]]
        BY <3>1 DEF Tagged
      <3>. HIDE DEF bytes, g
      <3>4. g \in Seq([opening : Nat, byte : Nat]) /\ Len(g) = Len(bytes)
        BY <1>1, <3>1, <3>3
      <3>5. \A k \in 1..Len(bytes) : g[k] = [opening |-> uart_dev[s].opening, byte |-> bytes[k]]
        BY <3>3
      <3>6. \A k \in 1..Len(bytes) : g[k] = [opening |-> uart_dev[s].opening, byte |-> Passed(p) + k]
        BY <3>2, <3>5
      <3>. QED  BY <3>4, <3>6 DEF bytes
    <2>. DEFINE f == forwarded[s]
                Pair == [opening : Nat, byte : Nat]
                want(k) == [opening |-> uart_dev[s].opening, byte |-> Passed(p) + k]
    <2>3. f \in Seq(Pair) /\ g \in Seq(Pair) /\ Len(g) = w /\ \A k \in 1..w : g[k] = want(k)
      BY <1>6, <2>2
    <2>4. w \in Nat
      BY <1>6
    <2>. HIDE DEF f, g, Pair, w, want
    <2>5. /\ Len(f \o g) = Len(f) + w
          /\ \A k \in 1..Len(f) : (f \o g)[k] = f[k]
          /\ \A k \in (Len(f) + 1)..(Len(f) + w) : (f \o g)[k] = g[k - Len(f)]
      BY <2>3, <2>4
    <2>6. Len(f) \in Nat
      BY <2>3
    <2>7. \A k \in (Len(f) + 1)..(Len(f) + w) : (f \o g)[k] = want(k - Len(f))
      BY <2>3, <2>4, <2>5, <2>6
    <2>8. f \o g = forwarded'[s]
      BY <2>1 DEF f
    <2>9. /\ Len(forwarded'[s]) = Len(f) + w
          /\ \A k \in 1..Len(f) : forwarded'[s][k] = f[k]
          /\ \A k \in (Len(f) + 1)..(Len(f) + w) : forwarded'[s][k] = want(k - Len(f))
      BY <2>5, <2>7, <2>8
    <2>. QED  BY <2>9 DEF f, want, n
  <1>. HIDE DEF g, n, w
  <1>8. OpeningsPast'
    <2>. SUFFICES ASSUME NEW t \in Sessions
                  PROVE  \A k \in 1..Len(forwarded'[t]) : forwarded'[t][k].opening <= requests[t]
      BY <1>2 DEF GInv, OpeningsPast
    <2>1. CASE t = s /\ life[s] = "up"
      <3>1. uart_dev[s].opening <= requests[s]
        BY DEF GInv, OpeningsPast, PollUart
      <3>2. \A k \in 1..n : forwarded[s][k].opening <= requests[s]
        BY DEF GInv, OpeningsPast, n
      <3>. SUFFICES ASSUME NEW k \in 1..(n + w)
                    PROVE  forwarded'[s][k].opening <= requests[s]
        BY <1>7, <2>1
      <3>3. CASE k \in 1..n
        BY <1>7, <2>1, <3>2, <3>3
      <3>4. CASE k \in (n + 1)..(n + w)
        <4>. DEFINE o == uart_dev[s].opening
                    b == Passed(p) + (k - n)
        <4>1. forwarded'[s][k] = [opening |-> o, byte |-> b]
          BY <1>7, <2>1, <3>4
        <4>2. o <= requests[s]
          BY <3>1
        <4>. HIDE DEF o, b
        <4>3. forwarded'[s][k].opening = o
          BY <4>1
        <4>. QED  BY <4>2, <4>3
      <3>. QED  BY <1>6, <3>3, <3>4
    <2>2. CASE ~(t = s /\ life[s] = "up")
      <3>1. forwarded'[t] = forwarded[t]
        BY <1>2, <1>4, <2>2
      <3>. QED  BY <3>1 DEF GInv, OpeningsPast
    <2>. QED  BY <2>1, <2>2
  <1>9. Continues'
    <2>. SUFFICES ASSUME NEW t \in Sessions, life[t] = "up", uart_dev[t] # NoDev,
                         Len(forwarded'[t]) > 0,
                         forwarded'[t][Len(forwarded'[t])].opening = uart_dev[t].opening
                  PROVE  forwarded'[t][Len(forwarded'[t])].byte
                           = arrived[uart_dev[t].path] - Len(pending'[uart_dev[t].path])
      BY <1>2 DEF Continues, LastOf, Passed
    <2>1. CASE t = s
      <3>. DEFINE k == n + w
      <3>1. w > 0
        <4>1. pending[p] # <<>>
          BY DEF PollUart
        <4>. QED  BY <1>1, <4>1 DEF w
      <3>2. Len(forwarded'[s]) = k /\ k \in (n + 1)..(n + w)
        BY <1>6, <1>7, <2>1, <3>1
      <3>3. forwarded'[s][k] = [opening |-> uart_dev[s].opening, byte |-> Passed(p) + (k - n)]
        BY <1>7, <2>1, <3>2
      <3>4. forwarded'[s][k].byte = Passed(p) + (k - n)
        BY <3>3
      <3>5. Passed(p) + (k - n) = arrived[p]
        BY <1>1, <1>6 DEF Passed, w
      <3>6. Len(pending'[p]) = 0
        BY <1>3
      <3>. QED  BY <1>1, <2>1, <3>2, <3>4, <3>5, <3>6
    <2>2. CASE t # s
      <3>1. forwarded'[t] = forwarded[t]
        BY <1>4, <2>2
      <3>2. uart_dev[t].path \in Ports /\ uart_dev[t].path # p
        <4>1. uart_dev[t].path \in Ports
          BY DEF TypeOK, Device
        <4>. QED  BY <1>1, <2>2, <4>1 DEF GInv, HoldersAgree, Holds, PollUart
      <3>3. pending'[uart_dev[t].path] = pending[uart_dev[t].path]
        BY <1>3, <3>2
      <3>. QED  BY <3>1, <3>3 DEF GInv, Continues, LastOf, Passed
    <2>. QED  BY <2>1, <2>2
  <1>10. ForwardedWithoutGap'
    <2>. SUFFICES ASSUME NEW t \in Sessions, NEW k \in 1..(Len(forwarded'[t]) - 1),
                         forwarded'[t][k].opening = forwarded'[t][k + 1].opening
                  PROVE  forwarded'[t][k + 1].byte = forwarded'[t][k].byte + 1
      BY DEF ForwardedWithoutGap
    <2>1. CASE t = s /\ life[s] = "up"
      <3>. DEFINE late(j) == [opening |-> uart_dev[s].opening, byte |-> Passed(p) + (j - n)]
      <3>1. /\ k \in 1..(n + w - 1)
            /\ \A j \in 1..n : forwarded'[s][j] = forwarded[s][j]
            /\ \A j \in (n + 1)..(n + w) : forwarded'[s][j] = late(j)
        <4>1. Len(forwarded'[s]) = n + w
          BY <1>7, <2>1, Zenon
        <4>2. k \in 1..(n + w - 1)
          <5>1. Len(forwarded'[t]) = n + w
            BY <2>1, <4>1, Zenon
          <5>2. k \in 1..(Len(forwarded'[t]) - 1)
            OBVIOUS
          <5>. QED  BY <1>6, <5>1, <5>2
        <4>3. \A j \in 1..n : forwarded'[s][j] = forwarded[s][j]
          BY <1>7, <2>1
        <4>4. \A j \in (n + 1)..(n + w) : forwarded'[s][j] = late(j)
          BY <1>7, <2>1, Zenon
        <4>. QED  BY <4>2, <4>3, <4>4, Zenon
      <3>2. Passed(p) \in Int
        BY <1>1, <1>6 DEF Passed, w
      <3>3. CASE k + 1 \in 1..n
        <4>1. k \in 1..(n - 1) /\ k \in 1..n
          BY <1>6, <3>1, <3>3
        <4>2. forwarded[s][k].opening = forwarded[s][k + 1].opening
          BY <2>1, <3>1, <3>3, <4>1
        <4>3. forwarded[s][k + 1].byte = forwarded[s][k].byte + 1
          BY <4>1, <4>2 DEF GInv, ForwardedWithoutGap, n
        <4>. QED  BY <2>1, <3>1, <3>3, <4>1, <4>3
      <3>4. CASE k = n
        <4>1. k \in 1..n /\ k + 1 \in (n + 1)..(n + w)
          BY <1>6, <3>1, <3>4
        <4>2. forwarded'[s][k] = LastOf(s) /\ forwarded'[s][k + 1] = late(k + 1)
          BY <3>1, <3>4, <4>1 DEF LastOf, n
        <4>3. late(k + 1).opening = uart_dev[s].opening /\ late(k + 1).byte = Passed(p) + 1
          BY <1>6, <3>2, <3>4
        <4>4. LastOf(s).opening = uart_dev[s].opening
          BY <2>1, <4>2, <4>3
        <4>5. LastOf(s).byte = Passed(p)
          BY <2>1, <3>4, <4>1, <4>4 DEF GInv, Continues, PollUart, n
        <4>. QED  BY <2>1, <4>2, <4>3, <4>5
      <3>5. CASE k > n
        <4>1. k \in (n + 1)..(n + w) /\ k + 1 \in (n + 1)..(n + w)
          BY <1>6, <3>1, <3>5
        <4>2. forwarded'[s][k] = late(k) /\ forwarded'[s][k + 1] = late(k + 1)
          BY <3>1, <4>1
        <4>3. late(k).byte = Passed(p) + (k - n) /\ late(k + 1).byte = Passed(p) + ((k + 1) - n)
          BY Zenon
        <4>. QED  BY <1>6, <2>1, <3>1, <3>2, <4>2, <4>3
      <3>. QED  BY <1>6, <3>1, <3>3, <3>4, <3>5
    <2>2. CASE ~(t = s /\ life[s] = "up")
      <3>1. forwarded'[t] = forwarded[t]
        BY <1>2, <1>4, <2>2
      <3>. QED  BY <3>1 DEF GInv, ForwardedWithoutGap
    <2>. QED  BY <2>1, <2>2
  <1>. QED  BY <1>5, <1>8, <1>9, <1>10 DEF GInv

(* A port receives a byte, which its driver keeps if somebody holds it. *)
LEMMA Received ==
    ASSUME TypeOK, TypeOK', GInv, NEW p \in Ports, UartReceives(p)
    PROVE  GInv'
  <1>1. /\ UNCHANGED <<life, uart_dev, requests, forwarded>>
        /\ arrived' = [arrived EXCEPT ![p] = @ + 1]
        /\ pending' = IF \E s \in Sessions : Holds(uart_dev, s, p)
                      THEN [pending EXCEPT ![p] = Append(@, arrived[p] + 1)] ELSE pending
    BY DEF UartReceives
  <1>2. /\ arrived[p] \in Nat /\ pending[p] \in Seq(Nat) /\ Len(pending[p]) \in Nat
        /\ arrived'[p] = arrived[p] + 1
        /\ \A q \in Ports \ {p} : arrived'[q] = arrived[q] /\ pending'[q] = pending[q]
    BY <1>1 DEF TypeOK
  <1>3. CASE \E s \in Sessions : Holds(uart_dev, s, p)
    <2>1. pending'[p] = Append(pending[p], arrived[p] + 1)
      BY <1>1, <1>3 DEF TypeOK
    <2>2. /\ Len(pending'[p]) = Len(pending[p]) + 1
          /\ \A k \in 1..Len(pending[p]) : pending'[p][k] = pending[p][k]
          /\ pending'[p][Len(pending[p]) + 1] = arrived[p] + 1
      BY <1>2, <2>1
    <2>3. \A q \in Ports : arrived'[q] - Len(pending'[q]) = Passed(q)
      <3>1. \A q \in Ports \ {p} : arrived'[q] - Len(pending'[q]) = Passed(q)
        BY <1>2 DEF Passed
      <3>2. arrived'[p] - Len(pending'[p]) = Passed(p)
        <4>1. arrived'[p] = arrived[p] + 1 /\ Len(pending'[p]) = Len(pending[p]) + 1
          BY <1>2, <2>2
        <4>. DEFINE a == arrived[p]
                    l == Len(pending[p])
                    next == arrived'[p]
                    m == Len(pending'[p])
        <4>2. a \in Nat /\ l \in Nat /\ next = a + 1 /\ m = l + 1
          BY <1>2, <4>1
        <4>. HIDE DEF a, l, next, m
        <4>3. next - m = a - l
          BY <4>2
        <4>. QED  BY <4>3 DEF a, l, next, m, Passed
      <3>. QED  BY <3>1, <3>2
    <2>4. HoldersAgree'
      BY <1>1 DEF GInv, HoldersAgree, Holds
    <2>5. UnheldEmpty'
      BY <1>1, <1>2, <1>3 DEF GInv, UnheldEmpty, Holds
    <2>6. ASSUME NEW q \in Ports, NEW k \in 1..Len(pending'[q])
          PROVE  pending'[q][k] = Passed(q) + k
      <3>1. CASE q # p
        BY <1>2, <2>6, <3>1 DEF GInv, WaitsLatest
      <3>2. CASE q = p /\ k \in 1..Len(pending[p])
        BY <2>2, <3>2 DEF GInv, WaitsLatest
      <3>3. CASE q = p /\ k = Len(pending[p]) + 1
        BY <1>2, <2>2, <3>3 DEF Passed
      <3>. QED  BY <1>2, <2>2, <3>1, <3>2, <3>3
    <2>7. WaitsLatest'
      BY <2>3, <2>6 DEF WaitsLatest, Passed
    <2>8. OpeningsPast' /\ ForwardedWithoutGap'
      BY <1>1 DEF GInv, OpeningsPast, ForwardedWithoutGap
    <2>9. Continues'
      <3>. SUFFICES ASSUME NEW t \in Sessions, life[t] = "up", uart_dev[t] # NoDev,
                           Len(forwarded[t]) > 0,
                           LastOf(t).opening = uart_dev[t].opening
                    PROVE  LastOf(t).byte
                             = arrived'[uart_dev[t].path] - Len(pending'[uart_dev[t].path])
        BY <1>1 DEF Continues, LastOf, Passed
      <3>1. uart_dev[t].path \in Ports
        BY DEF TypeOK, Device
      <3>. QED  BY <2>3, <3>1 DEF GInv, Continues
    <2>. QED  BY <2>4, <2>5, <2>7, <2>8, <2>9 DEF GInv
  <1>4. CASE ~\E s \in Sessions : Holds(uart_dev, s, p)
    <2>1. pending' = pending /\ pending[p] = <<>>
      BY <1>1, <1>4 DEF GInv, UnheldEmpty
    <2>2. HoldersAgree' /\ UnheldEmpty'
      BY <1>1, <2>1 DEF GInv, HoldersAgree, UnheldEmpty, Holds
    <2>3. ASSUME NEW q \in Ports, NEW k \in 1..Len(pending[q])
          PROVE  pending[q][k] = arrived'[q] - Len(pending[q]) + k
      <3>1. Len(<<>>) = 0 /\ 1..0 = {}
        OBVIOUS
      <3>2. q # p
        BY <2>1, <2>3, <3>1
      <3>. QED  BY <1>2, <3>2 DEF GInv, WaitsLatest, Passed
    <2>4. WaitsLatest'
      BY <2>1, <2>3 DEF WaitsLatest, Passed
    <2>5. OpeningsPast' /\ ForwardedWithoutGap'
      BY <1>1 DEF GInv, OpeningsPast, ForwardedWithoutGap
    <2>6. Continues'
      <3>. SUFFICES ASSUME NEW t \in Sessions, life[t] = "up", uart_dev[t] # NoDev,
                           Len(forwarded[t]) > 0,
                           LastOf(t).opening = uart_dev[t].opening
                    PROVE  LastOf(t).byte
                             = arrived'[uart_dev[t].path] - Len(pending[uart_dev[t].path])
        BY <1>1, <2>1 DEF Continues, LastOf, Passed
      <3>1. uart_dev[t].path \in Ports /\ uart_dev[t].path # p
        BY <1>4 DEF TypeOK, Device, Holds
      <3>. QED  BY <1>2, <3>1 DEF GInv, Continues, Passed
    <2>. QED  BY <2>2, <2>4, <2>5, <2>6 DEF GInv
  <1>. QED  BY <1>3, <1>4

(* With exclusive opens, uart_open succeeds only on a port nobody else     *)
(* holds.                                                                  *)
LEMMA OpenExclusive ==
    ASSUME ExclusiveOpen, ~CloseMayFail, NEW s, NEW path, NEW baud,
           NEW o \in uart_open(s, path, baud)
    PROVE  \/ o.dev = uart_dev[s]
           \/ o.dev = NoDev
           \/ /\ ~(path = NoPath \/ baud <= 0)
              /\ ~Same(uart_dev[s], path, baud)
              /\ o.dev = Fresh(s, path, baud)
              /\ \A t \in Sessions \ {s} : ~Holds(uart_dev, t, path)
  <1>1. CASE path = NoPath \/ baud <= 0
    <2>1. o = [dev |-> uart_dev[s], ok |-> FALSE]
      BY <1>1, Zenon DEF uart_open
    <2>. QED  BY <2>1
  <1>2. CASE ~(path = NoPath \/ baud <= 0) /\ Same(uart_dev[s], path, baud)
    <2>1. o = [dev |-> uart_dev[s], ok |-> TRUE]
      BY <1>2, Zenon DEF uart_open
    <2>. QED  BY <2>1
  <1>3. CASE ~(path = NoPath \/ baud <= 0) /\ ~Same(uart_dev[s], path, baud)
    <2>1. \/ o \in [dev : AfterClose(s), ok : {FALSE}]
          \/ MayOpen(s, path) /\ o = [dev |-> Fresh(s, path, baud), ok |-> TRUE]
      BY <1>3, Zenon DEF uart_open
    <2>2. ASSUME o \in [dev : AfterClose(s), ok : {FALSE}]
          PROVE  o.dev = NoDev
      <3>. DEFINE left == AfterClose(s)
      <3>1. o \in [dev : left, ok : {FALSE}]
        BY <2>2
      <3>. HIDE DEF left
      <3>2. o.dev \in left
        BY <3>1
      <3>. QED  BY <3>2 DEF left, AfterClose
    <2>3. ASSUME MayOpen(s, path) /\ o = [dev |-> Fresh(s, path, baud), ok |-> TRUE]
          PROVE  /\ o.dev = Fresh(s, path, baud)
                 /\ \A t \in Sessions \ {s} : ~Holds(uart_dev, t, path)
      BY <2>3 DEF MayOpen
    <2>. QED  BY <1>3, <2>1, <2>2, <2>3, Zenon
  <1>. QED  BY <1>1, <1>2, <1>3

(* Nothing in the drivers is disturbed when no device changes. *)
LEMMA WaitingSame ==
    ASSUME TypeOK, GInv
    PROVE  Waiting(uart_dev, {}) = pending
  <1>1. \A p \in Ports : Waiting(uart_dev, {})[p] = pending[p]
    BY DEF Waiting, GInv, UnheldEmpty
  <1>2. Waiting(uart_dev, {}) = [p \in Ports |-> Waiting(uart_dev, {})[p]]
    BY DEF Waiting
  <1>3. pending = [p \in Ports |-> pending[p]]
    BY DEF TypeOK
  <1>. QED  BY <1>1, <1>2, <1>3

LEMMA Started ==
    ASSUME ExclusiveOpen, ~CloseMayFail, TypeOK, TypeOK', GInv, NEW s \in Sessions,
           NEW path \in Ports \union {NoPath}, NEW baud \in Bauds \union {0}, NEW errs,
           Start(s, path, baud, errs) \/ StartIfReady(s, path, baud, errs),
           Request(s), Stays
    PROVE  GInv'
  <1>1. /\ life' = life /\ forwarded' = forwarded /\ arrived' = arrived
        /\ requests'[s] = requests[s] + 1
        /\ \A t \in Sessions : requests[t] <= requests'[t]
    BY DEF Request, Stays, TypeOK
  <1>2. CASE Start(s, path, baud, errs)
    <2>1. PICK o \in uart_open(s, path, baud) :
             /\ uart_dev' = [uart_dev EXCEPT ![s] = o.dev]
             /\ pending' = Waiting(uart_dev', IF o.dev \in {NoDev, uart_dev[s]} THEN {} ELSE {path})
      BY <1>2 DEF Start
    <2>2. CASE o.dev = uart_dev[s]
      <3>1. uart_dev' = uart_dev
        BY <2>1, <2>2 DEF TypeOK
      <3>2. pending' = pending
        BY <2>1, <2>2, <3>1, WaitingSame
      <3>. QED  BY <1>1, <3>1, <3>2, Idle
    <2>3. CASE o.dev = NoDev
      <3>1. pending' = Waiting(uart_dev', {})
        BY <2>1, <2>3
      <3>. QED  BY <1>1, <2>1, <2>3, <3>1, Exchanged
    <2>4. CASE /\ ~(path = NoPath \/ baud <= 0)
               /\ ~Same(uart_dev[s], path, baud)
               /\ o.dev = Fresh(s, path, baud)
               /\ \A t \in Sessions \ {s} : ~Holds(uart_dev, t, path)
      <3>1. /\ o.dev \in Device
            /\ o.dev.path = path /\ o.dev.baud = baud /\ o.dev.opening = requests[s] + 1
        BY <2>4, SessionAssumption DEF Fresh, Device, TypeOK
      <3>2. o.dev # NoDev /\ o.dev # uart_dev[s]
        BY <2>4, <3>1, NoDevAssumption DEF Same
      <3>3. pending' = Waiting(uart_dev', {o.dev.path})
        BY <2>1, <3>1, <3>2
      <3>4. \A t \in Sessions \ {s} : ~Holds(uart_dev, t, o.dev.path)
        BY <2>4, <3>1
      <3>. QED  BY <1>1, <2>1, <3>1, <3>2, <3>3, <3>4, Exchanged
    <2>. QED  BY <2>2, <2>3, <2>4, OpenExclusive, Zenon
  <1>3. CASE ~Start(s, path, baud, errs)
    <2>1. UNCHANGED <<uart_dev, pending>>
      BY <1>3, Zenon DEF StartIfReady
    <2>. QED  BY <1>1, <2>1, Idle
  <1>. QED  BY <1>2, <1>3

-----------------------------------------------------------------------------
(* What waits in the driver of a port always continues what its one holder *)
(* has forwarded.                                                          *)
THEOREM PortsShared ==
    ASSUME ExclusiveOpen, ~CloseMayFail
    PROVE  Spec => []GInv
  <1>1. Init => GInv
    BY DEF Init, GInv, HoldersAgree, UnheldEmpty, WaitsLatest, OpeningsPast, Continues,
           ForwardedWithoutGap, Holds
  <1>2. TypeOK /\ TypeOK' /\ HeldIsServed /\ GInv /\ [Next]_vars => GInv'
    <2>. SUFFICES ASSUME TypeOK, TypeOK', HeldIsServed, GInv, [Next]_vars PROVE GInv'
      OBVIOUS
    <2>1. ASSUME NEW s \in Sessions, Request(s)
          PROVE  \A t \in Sessions : requests[t] <= requests'[t]
      BY <2>1 DEF Request, TypeOK
    <2>2. ASSUME NEW s \in Sessions, Exit(s), \A t \in Sessions : requests[t] <= requests'[t]
          PROVE  GInv'
      <3>1. /\ uart_dev' = [uart_dev EXCEPT ![s] = NoDev]
            /\ pending' = Waiting(uart_dev', {})
            /\ UNCHANGED <<arrived, forwarded>>
            /\ \A t \in Sessions \ {s} : life'[t] = life[t]
        BY <2>2 DEF Exit, TypeOK
      <3>. QED  BY <2>2, <3>1, Exchanged
    <2>3. ASSUME NEW s \in Sessions, HandleDataRaises(s) \/ HandleUndecodable(s) PROVE GInv'
      BY <2>1, <2>2, <2>3 DEF HandleDataRaises, HandleUndecodable
    <2>4. ASSUME NEW s \in Sessions, ClientResets(s) \/ PollRaises(s) PROVE GInv'
      <3>1. \A t \in Sessions : requests[t] <= requests'[t]
        BY <2>4 DEF ClientResets, PollRaises, TypeOK
      <3>. QED  BY <2>2, <2>4, <3>1 DEF ClientResets, PollRaises
    <2>5. ASSUME NEW s \in Sessions,
                 HandlePath(s) \/ HandleBaud(s) \/ HandleInvalidBaud(s) \/ HandleStart(s)
          PROVE  GInv'
      <3>1. uart_path[s] \in Ports \union {NoPath} /\ uart_baud[s] \in Bauds \union {0}
        BY DEF TypeOK
      <3>2. CASE HandlePath(s)
        BY <3>1, <3>2, Started, Zenon DEF HandlePath
      <3>3. CASE HandleBaud(s)
        BY <3>1, <3>3, Started, Zenon DEF HandleBaud
      <3>4. CASE HandleInvalidBaud(s) \/ HandleStart(s)
        BY <3>1, <3>4, Started, Zenon DEF HandleInvalidBaud, HandleStart
      <3>. QED  BY <2>5, <3>2, <3>3, <3>4
    <2>6. ASSUME NEW s \in Sessions, HandleStop(s) PROVE GInv'
      <3>1. /\ uart_dev' = [uart_dev EXCEPT ![s] = NoDev]
            /\ pending' = Waiting(uart_dev', {})
        BY <2>6 DEF HandleStop, AfterClose
      <3>2. UNCHANGED <<life, arrived, forwarded>> /\ Request(s)
        BY <2>6 DEF HandleStop, Stays
      <3>. QED  BY <2>1, <3>1, <3>2, Exchanged
    <2>7. ASSUME NEW s \in Sessions, Refuse(s) \/ HandleDataWritten(s) \/ HandleError(s)
          PROVE  GInv'
      <3>1. UNCHANGED <<life, uart_dev, pending, arrived, forwarded>> /\ Request(s)
        BY <2>7 DEF Refuse, HandleDataWritten, HandleError, Stays
      <3>. QED  BY <2>1, <3>1, Idle
    <2>8. ASSUME NEW s \in Sessions, Accept(s) \/ ClientCloses(s) PROVE GInv'
      <3>1. UNCHANGED <<uart_dev, requests, pending, arrived, forwarded>>
        BY <2>8 DEF Accept, ClientCloses, ports
      <3>2. \A t \in Sessions : life'[t] = "up" => life[t] = "up" \/ uart_dev[t] = NoDev
        BY <2>8 DEF Accept, ClientCloses, TypeOK, HeldIsServed
      <3>3. \A t \in Sessions : requests[t] <= requests'[t]
        BY <3>1 DEF TypeOK
      <3>. QED  BY <3>1, <3>2, <3>3, Idle
    <2>9. CASE UNCHANGED vars
      <3>1. \A t \in Sessions : requests[t] <= requests'[t]
        BY <2>9 DEF vars, TypeOK
      <3>. QED  BY <2>9, <3>1, Idle DEF vars, ports
    <2>. QED
      BY <2>3, <2>4, <2>5, <2>6, <2>7, <2>8, <2>9, Polled, Received
      DEF Next, HandlePacket, HandleData, HandleDataRefused, HandleUnknown
  <1>3. Spec => []HeldIsServed
    BY HeldServed
  <1>. QED  BY <1>1, <1>2, <1>3, TypeCorrect, PTL DEF Spec

-----------------------------------------------------------------------------
(* What session s promises in one step. *)
Conserves(s) ==
    KeepsServing(s) =>
        LET p == uart_dev[s].path
        IN  Sent(s)' \o pending'[p] = (Sent(s) \o pending[p]) \o Arriving(p)

LEMMA SentType ==
    ASSUME TypeOK, NEW s \in Sessions
    PROVE  /\ Sent(s) \in Seq(Nat)
           /\ Len(Sent(s)) = Len(forwarded[s])
           /\ \A k \in 1..Len(forwarded[s]) : Sent(s)[k] = forwarded[s][k].byte
  <1>. DEFINE n == Len(forwarded[s])
  <1>1. n \in Nat /\ \A k \in 1..n : forwarded[s][k].byte \in Nat
    BY ForwardedType
  <1>2. DOMAIN forwarded[s] = 1..n
    BY ForwardedType
  <1>3. Sent(s) = [k \in 1..n |-> forwarded[s][k].byte]
    BY <1>2 DEF Sent
  <1>. HIDE DEF n
  <1>4. [k \in 1..n |-> forwarded[s][k].byte] \in Seq(Nat)
    BY <1>1
  <1>5. Len([k \in 1..n |-> forwarded[s][k].byte]) = n
    BY <1>1
  <1>. QED  BY <1>3, <1>4, <1>5 DEF n

(* Steps in which the port of s receives nothing and is not read. *)
LEMMA Untouched ==
    ASSUME TypeOK, NEW s \in Sessions, forwarded'[s] = forwarded[s],
           arrived' = arrived,
           KeepsServing(s) => pending'[uart_dev[s].path] = pending[uart_dev[s].path]
    PROVE  Conserves(s)
  <1>. SUFFICES ASSUME KeepsServing(s)
                PROVE  Sent(s)' \o pending'[uart_dev[s].path]
                         = (Sent(s) \o pending[uart_dev[s].path]) \o Arriving(uart_dev[s].path)
    BY DEF Conserves
  <1>. DEFINE p == uart_dev[s].path
              old == Sent(s) \o pending[p]
  <1>1. p \in Ports /\ arrived[p] \in Nat /\ pending[p] \in Seq(Nat)
    BY DEF KeepsServing, TypeOK, Device
  <1>2. Sent(s)' = Sent(s)
    BY DEF Sent
  <1>3. Arriving(p) = <<>>
    <2>1. arrived'[p] - arrived[p] = 0
      BY <1>1
    <2>2. Arriving(p) = [k \in 1..0 |-> arrived[p] + k]
      BY <2>1 DEF Arriving
    <2>. QED  BY <2>2
  <1>4. old \in Seq(Nat)
    BY <1>1, SentType
  <1>5. Sent(s)' \o pending'[p] = old
    BY <1>2
  <1>. HIDE DEF old
  <1>6. old \o <<>> = old
    BY <1>4
  <1>. QED  BY <1>3, <1>5, <1>6 DEF old, p

(* A handler of t drops or exchanges its device for one nobody else holds: *)
(* what waits for another session, or for t if it keeps its device, stays. *)
LEMMA OthersWait ==
    ASSUME TypeOK, NEW s \in Sessions, NEW t \in Sessions, NEW dev, NEW opened,
           uart_dev' = [uart_dev EXCEPT ![t] = dev],
           pending' = Waiting(uart_dev', opened),
           \A q \in opened : /\ dev # uart_dev[t]
                             /\ \A u \in Sessions \ {t} : ~Holds(uart_dev, u, q),
           KeepsServing(s)
    PROVE  pending'[uart_dev[s].path] = pending[uart_dev[s].path]
  <1>. DEFINE p == uart_dev[s].path
  <1>1. uart_dev[s] # NoDev /\ uart_dev'[s] = uart_dev[s]
    BY DEF KeepsServing
  <1>2. p \in Ports
    BY <1>1 DEF TypeOK, Device
  <1>3. Holds(uart_dev, s, p) /\ Holds(uart_dev', s, p)
    BY <1>1 DEF Holds
  <1>4. p \notin opened
    <2>1. CASE s = t
      BY <1>1, <2>1 DEF TypeOK
    <2>2. CASE s # t
      BY <1>3, <2>2
    <2>. QED  BY <2>1, <2>2
  <1>5. pending'[p] = IF p \in opened \/ ~\E u \in Sessions : Holds(uart_dev', u, p)
                      THEN <<>> ELSE pending[p]
    BY <1>2 DEF Waiting
  <1>. QED  BY <1>3, <1>4, <1>5

LEMMA StartConserves ==
    ASSUME ExclusiveOpen, ~CloseMayFail, TypeOK, GInv, NEW s \in Sessions, NEW t \in Sessions,
           NEW path, NEW baud, NEW errs,
           Start(t, path, baud, errs) \/ StartIfReady(t, path, baud, errs), Stays
    PROVE  Conserves(s)
  <1>1. forwarded' = forwarded /\ arrived' = arrived
    BY DEF Stays
  <1>2. CASE Start(t, path, baud, errs)
    <2>1. PICK o \in uart_open(t, path, baud) :
             /\ uart_dev' = [uart_dev EXCEPT ![t] = o.dev]
             /\ pending' = Waiting(uart_dev', IF o.dev \in {NoDev, uart_dev[t]} THEN {} ELSE {path})
      BY <1>2 DEF Start
    <2>. DEFINE opened == IF o.dev \in {NoDev, uart_dev[t]} THEN {} ELSE {path}
    <2>2. \A q \in opened : /\ o.dev # uart_dev[t]
                            /\ \A u \in Sessions \ {t} : ~Holds(uart_dev, u, q)
      BY OpenExclusive
    <2>3. pending' = Waiting(uart_dev', opened)
      BY <2>1
    <2>. HIDE DEF opened
    <2>4. KeepsServing(s) => pending'[uart_dev[s].path] = pending[uart_dev[s].path]
      BY <2>1, <2>2, <2>3, OthersWait
    <2>. QED  BY <1>1, <2>4, Untouched
  <1>3. CASE ~Start(t, path, baud, errs)
    <2>1. pending' = pending
      BY <1>3, Zenon DEF StartIfReady
    <2>. QED  BY <1>1, <2>1, Untouched
  <1>. QED  BY <1>2, <1>3

LEMMA ClosedConserves ==
    ASSUME TypeOK, NEW s \in Sessions, NEW t \in Sessions,
           uart_dev' = [uart_dev EXCEPT ![t] = NoDev], pending' = Waiting(uart_dev', {}),
           UNCHANGED <<forwarded, arrived>>
    PROVE  Conserves(s)
  <1>1. ASSUME KeepsServing(s) PROVE pending'[uart_dev[s].path] = pending[uart_dev[s].path]
    <2>. DEFINE none == {}
    <2>1. \A q \in none : /\ NoDev # uart_dev[t]
                          /\ \A u \in Sessions \ {t} : ~Holds(uart_dev, u, q)
      OBVIOUS
    <2>2. pending' = Waiting(uart_dev', none)
      OBVIOUS
    <2>. HIDE DEF none
    <2>. QED  BY <1>1, <2>1, <2>2, OthersWait
  <1>. QED  BY <1>1, Untouched

(* All that waits goes to the client: s is the one that reads its port. *)
LEMMA PollConserves ==
    ASSUME TypeOK, HeldIsServed, GInv, NEW s \in Sessions, NEW t \in Sessions, PollUart(t)
    PROVE  Conserves(s)
  <1>. DEFINE p == uart_dev[s].path
              old == forwarded[s]
              wait == pending[p]
  <1>1. /\ pending' = [pending EXCEPT ![uart_dev[t].path] = <<>>]
        /\ UNCHANGED <<life, uart_dev, arrived>>
        /\ forwarded' = IF is_running[t] /\ life[t] = "up"
                        THEN [forwarded EXCEPT ![t] = @ \o Tagged(t, pending[uart_dev[t].path])]
                        ELSE forwarded
        /\ uart_dev[t] # NoDev
    BY DEF PollUart
  <1>2. CASE s # t
    <2>1. forwarded'[s] = forwarded[s]
      BY <1>1, <1>2 DEF TypeOK
    <2>2. ASSUME KeepsServing(s) PROVE pending'[p] = pending[p]
      <3>1. p \in Ports /\ Holds(uart_dev, s, p)
        BY <2>2 DEF KeepsServing, TypeOK, Device, Holds
      <3>2. uart_dev[t].path # p
        BY <1>1, <1>2, <3>1 DEF GInv, HoldersAgree, Holds
      <3>. QED  BY <1>1, <3>1, <3>2 DEF TypeOK
    <2>. QED  BY <1>1, <2>1, <2>2, Untouched
  <1>3. CASE s = t
    <2>. SUFFICES ASSUME KeepsServing(s)
                  PROVE  Sent(s)' \o pending'[p] = (Sent(s) \o wait) \o Arriving(p)
      BY DEF Conserves
    <2>1. p \in Ports /\ arrived[p] \in Nat /\ wait \in Seq(Nat)
      BY DEF KeepsServing, TypeOK, Device
    <2>2. life[s] = "up" /\ is_running[s]
      BY <1>1, <1>3, Zenon DEF KeepsServing, HeldIsServed
    <2>3. forwarded'[s] = old \o Tagged(s, wait)
      <3>1. forwarded' = [forwarded EXCEPT ![s] = @ \o Tagged(s, wait)]
        BY <1>1, <1>3, <2>2, Zenon
      <3>. QED  BY <3>1 DEF TypeOK
    <2>4. /\ Len(wait) \in Nat /\ DOMAIN wait = 1..Len(wait)
          /\ old \in Seq([opening : Nat, byte : Nat])
          /\ Len(old) \in Nat
      BY <2>1, ForwardedType
    <2>5. Sent(s)' = Sent(s) \o wait
      <3>. DEFINE n == Len(old)
                  w == Len(wait)
                  tag == Tagged(s, wait)
                  new == forwarded'[s]
      <3>1. tag = [k \in 1..w |-> [opening |-> uart_dev[s].opening, byte |-> wait[k]]]
        BY <2>4 DEF Tagged
      <3>2. \A k \in 1..w : tag[k].byte = wait[k]
        BY <3>1
      <3>3. uart_dev[s].opening \in Nat
        BY <1>1, <1>3 DEF TypeOK, Device
      <3>4. tag \in Seq([opening : Nat, byte : Nat]) /\ Len(tag) = w
        <4>. HIDE DEF tag
        <4>. DEFINE b == wait
        <4>1. b \in Seq(Nat) /\ w \in Nat /\ \A k \in 1..w : b[k] \in Nat
          BY <2>1, <2>4
        <4>2. tag = [k \in 1..w |-> [opening |-> uart_dev[s].opening, byte |-> b[k]]]
          BY <3>1
        <4>. HIDE DEF b, w
        <4>. QED  BY <3>3, <4>1, <4>2
      <3>. HIDE DEF tag
      <3>5. /\ DOMAIN new = 1..(n + w)
            /\ \A k \in 1..n : new[k] = old[k]
            /\ \A k \in 1..w : new[n + k] = tag[k]
        <4>1. new = old \o tag
          BY <2>3 DEF tag
        <4>2. old \in Seq([opening : Nat, byte : Nat])
          BY <2>4
        <4>. HIDE DEF old, new
        <4>. DEFINE P == [opening : Nat, byte : Nat]
        <4>3. old \in Seq(P) /\ tag \in Seq(P)
          BY <3>4, <4>2
        <4>. HIDE DEF P
        <4>4. /\ DOMAIN (old \o tag) = 1..(Len(old) + Len(tag))
              /\ \A k \in 1..Len(old) : (old \o tag)[k] = old[k]
              /\ \A k \in 1..Len(tag) : (old \o tag)[Len(old) + k] = tag[k]
          BY <4>3
        <4>. QED  BY <3>4, <4>1, <4>4
      <3>6. Sent(s)' = [k \in 1..(n + w) |-> new[k].byte]
        BY <3>5 DEF Sent
      <3>7. /\ Sent(s) \in Seq(Nat) /\ Len(Sent(s)) = n
            /\ \A k \in 1..n : Sent(s)[k] = old[k].byte
        BY SentType
      <3>. DEFINE joined == Sent(s) \o wait
      <3>8. /\ joined \in Seq(Nat)
            /\ Len(joined) = n + w
            /\ \A k \in 1..n : joined[k] = Sent(s)[k]
            /\ \A k \in 1..w : joined[n + k] = wait[k]
        <4>. DEFINE sent == Sent(s)
        <4>1. /\ sent \in Seq(Nat) /\ Len(sent) = n
              /\ wait \in Seq(Nat) /\ Len(wait) = w
          BY <2>1, <3>7
        <4>. HIDE DEF sent, wait, n, w
        <4>. DEFINE P == Nat
        <4>2. sent \in Seq(P) /\ wait \in Seq(P)
          BY <4>1
        <4>. HIDE DEF P
        <4>3. /\ sent \o wait \in Seq(P)
              /\ Len(sent \o wait) = Len(sent) + Len(wait)
              /\ \A k \in 1..Len(sent) : (sent \o wait)[k] = sent[k]
              /\ \A k \in 1..Len(wait) : (sent \o wait)[Len(sent) + k] = wait[k]
          BY <4>2
        <4>. QED  BY <4>1, <4>3, Zenon DEF sent, P
      <3>9. ASSUME NEW k \in 1..(n + w) PROVE joined[k] = new[k].byte
        <4>0. n \in Nat /\ w \in Nat
          BY <2>4
        <4>. HIDE DEF n, w, joined, new, old, wait
        <4>1. CASE k \in 1..n
          BY <3>5, <3>7, <3>8, <4>1
        <4>2. CASE k \notin 1..n
          <5>1. k - n \in 1..w /\ n + (k - n) = k
            BY <4>0, <4>2
          <5>. DEFINE j == k - n
          <5>2. j \in 1..w /\ n + j = k
            BY <5>1
          <5>. HIDE DEF j
          <5>3. joined[n + j] = wait[j] /\ new[n + j] = tag[j] /\ tag[j].byte = wait[j]
            BY <3>2, <3>5, <3>8, <5>2
          <5>. QED  BY <5>2, <5>3
        <4>. QED  BY <4>1, <4>2
      <3>10. joined = [k \in 1..(n + w) |-> joined[k]]
        <4>. HIDE DEF old, wait
        <4>0. n \in Nat /\ w \in Nat
          BY <2>4
        <4>. HIDE DEF joined, n, w
        <4>. QED  BY <3>8, <4>0
      <3>. HIDE DEF joined, new, n, w
      <3>11. [k \in 1..(n + w) |-> joined[k]] = [k \in 1..(n + w) |-> new[k].byte]
        BY <3>9
      <3>. QED  BY <3>6, <3>10, <3>11, Zenon DEF joined
    <2>6. pending'[p] = <<>>
      BY <1>1, <1>3, <2>1 DEF TypeOK
    <2>7. Arriving(p) = <<>>
      <3>1. arrived'[p] - arrived[p] = 0
        BY <1>1, <2>1
      <3>2. Arriving(p) = [k \in 1..0 |-> arrived[p] + k]
        BY <3>1 DEF Arriving
      <3>. QED  BY <3>2
    <2>. QED  BY <2>5, <2>6, <2>7
  <1>. QED  BY <1>2, <1>3

LEMMA ReceiveConserves ==
    ASSUME TypeOK, NEW s \in Sessions, NEW q \in Ports, UartReceives(q)
    PROVE  Conserves(s)
  <1>. DEFINE p == uart_dev[s].path
  <1>. SUFFICES ASSUME KeepsServing(s)
                PROVE  Sent(s)' \o pending'[p] = (Sent(s) \o pending[p]) \o Arriving(p)
    BY DEF Conserves
  <1>1. /\ p \in Ports /\ arrived[p] \in Nat /\ pending[p] \in Seq(Nat)
        /\ Holds(uart_dev, s, p)
    BY DEF KeepsServing, TypeOK, Device, Holds
  <1>2. /\ forwarded' = forwarded
        /\ arrived' = [arrived EXCEPT ![q] = @ + 1]
        /\ pending' = IF \E t \in Sessions : Holds(uart_dev, t, q)
                      THEN [pending EXCEPT ![q] = Append(@, arrived[q] + 1)] ELSE pending
    BY DEF UartReceives
  <1>3. Sent(s)' = Sent(s) /\ Sent(s) \in Seq(Nat)
    BY <1>2, SentType DEF Sent
  <1>. DEFINE sent == Sent(s)
              wait == pending[p]
              a == arrived[p]
  <1>4. CASE q = p
    <2>1. arrived'[p] = a + 1 /\ pending'[p] = Append(wait, a + 1)
      BY <1>1, <1>2, <1>4 DEF TypeOK
    <2>2. Arriving(p) = [k \in 1..1 |-> a + k]
      <3>1. arrived'[p] - arrived[p] = 1
        BY <1>1, <2>1
      <3>. QED  BY <3>1 DEF Arriving
    <2>3. sent \in Seq(Nat) /\ wait \in Seq(Nat) /\ a \in Nat
      BY <1>1, <1>3
    <2>. HIDE DEF sent, wait, a
    <2>4. [k \in 1..1 |-> a + k] = <<a + 1>>
      BY <2>3
    <2>5. sent \o Append(wait, a + 1) = (sent \o wait) \o <<a + 1>>
      BY <2>3
    <2>. QED  BY <1>3, <2>1, <2>2, <2>4, <2>5 DEF sent, wait
  <1>5. CASE q # p
    <2>1. arrived'[p] = a /\ pending'[p] = wait
      BY <1>1, <1>2, <1>5 DEF TypeOK
    <2>2. Arriving(p) = <<>>
      <3>1. arrived'[p] - arrived[p] = 0
        BY <1>1, <2>1
      <3>2. Arriving(p) = [k \in 1..0 |-> arrived[p] + k]
        BY <3>1 DEF Arriving
      <3>. QED  BY <3>2
    <2>3. sent \in Seq(Nat) /\ wait \in Seq(Nat)
      BY <1>1, <1>3
    <2>. HIDE DEF sent, wait
    <2>4. (sent \o wait) \o <<>> = sent \o wait
      BY <2>3
    <2>. QED  BY <1>3, <2>1, <2>2, <2>4 DEF sent, wait
  <1>. QED  BY <1>4, <1>5

(* A connected session that keeps its device loses none of the bytes of    *)
(* its port, whatever its client asks for and whatever the other sessions  *)
(* do: what it has sent, followed by what waits, grows by exactly what     *)
(* arrives.                                                                *)
THEOREM BytesConserved ==
    ASSUME ExclusiveOpen, ~CloseMayFail
    PROVE  Spec => NoByteLost
  <1>1. TypeOK /\ HeldIsServed /\ GInv /\ [Next]_vars => [\A s \in Sessions : Conserves(s)]_vars
    <2>. SUFFICES ASSUME TypeOK, HeldIsServed, GInv, Next, NEW s \in Sessions
                  PROVE  Conserves(s)
      BY Zenon
    <2>1. ASSUME NEW t \in Sessions, Exit(t) PROVE Conserves(s)
      BY <2>1, ClosedConserves DEF Exit
    <2>2. ASSUME NEW t \in Sessions,
                 HandlePath(t) \/ HandleBaud(t) \/ HandleInvalidBaud(t) \/ HandleStart(t)
          PROVE  Conserves(s)
      BY <2>2, StartConserves, Zenon DEF HandlePath, HandleBaud, HandleInvalidBaud, HandleStart
    <2>3. ASSUME NEW t \in Sessions, HandleStop(t) PROVE Conserves(s)
      <3>1. uart_dev' = [uart_dev EXCEPT ![t] = NoDev] /\ pending' = Waiting(uart_dev', {})
        BY <2>3 DEF HandleStop, AfterClose
      <3>. QED  BY <2>3, <3>1, ClosedConserves DEF HandleStop, Stays
    <2>4. ASSUME UNCHANGED <<forwarded, arrived, pending>> PROVE Conserves(s)
      BY <2>4, Untouched
    <2>5. ASSUME NEW t \in Sessions,
                 \/ Refuse(t) \/ HandleDataWritten(t) \/ HandleError(t)
                 \/ Accept(t) \/ ClientCloses(t)
          PROVE  Conserves(s)
      <3>1. UNCHANGED <<forwarded, arrived, pending>>
        BY <2>5 DEF Refuse, HandleDataWritten, HandleError, Stays, Accept, ClientCloses, ports
      <3>. QED  BY <2>4, <3>1
    <2>6. ASSUME NEW t \in Sessions, HandleDataRaises(t) \/ HandleUndecodable(t)
                                      \/ ClientResets(t) \/ PollRaises(t)
          PROVE  Conserves(s)
      BY <2>1, <2>6, Zenon DEF HandleDataRaises, HandleUndecodable, ClientResets, PollRaises
    <2>. QED
      BY <2>2, <2>3, <2>5, <2>6, PollConserves, ReceiveConserves
      DEF Next, HandlePacket, HandleData, HandleDataRefused, HandleUnknown
  <1>2. Spec => []HeldIsServed
    BY HeldServed
  <1>3. Spec => []GInv
    BY PortsShared
  <1>4. (\A s \in Sessions : Conserves(s))
          <=> \A s \in Sessions : KeepsServing(s) =>
                LET p == uart_dev[s].path
                IN  Sent(s)' \o pending'[p] = (Sent(s) \o pending[p]) \o Arriving(p)
    BY Zenon DEF Conserves
  <1>. QED  BY <1>1, <1>2, <1>3, <1>4, TypeCorrect, PTL DEF Spec, NoByteLost
=============================================================================
