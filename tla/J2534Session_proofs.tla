------------------------ MODULE J2534Session_proofs ------------------------
(***************************************************************************)
(* The daemon keeps at most one client per device, and library, service,   *)
(* queues and daemon keep their types, for any number of testers and       *)
(* devices, any calls, log requests and faults.                            *)
(*                                                                         *)
(* The first is not inductive by itself: DesiredOpen appends a client for  *)
(* the device of a delta, and what DeleteClient leaves over has to be a    *)
(* sequence again.  The strengthening is the type of what a device id      *)
(* passes on its way: the call, the desired state, the deltas, the clients *)
(* (SessionInv).  SessionTyped adds the types of everything else.          *)
(*                                                                         *)
(* For one tester with one device, a PassThruDisconnect that succeeds in a *)
(* session without faults and log requests has closed the CAN socket, and  *)
(* a PassThruClose that succeeds in one without faults has deleted the     *)
(* daemon's client.                                                        *)
(***************************************************************************)
EXTENDS J2534Session, TLAPS

DeltaMessage == [dev : Devices, st : States, log : BOOLEAN]
ClientRecord == [dev : Devices, mem : {"live", "freed"}, canbus : Canbus]

RouteType ==
    /\ op \in [Testers -> States] /\ dev \in [Testers -> Devices]
    /\ desired \in [dev : Devices, st : States]
    /\ logging \in BOOLEAN
    /\ deltas \in Seq(DeltaMessage)
    /\ clients \in Seq(ClientRecord)

SessionInv == RouteType /\ OneClientPerDevice

(* get_client returns a client of the vector, and one of that device: with  *)
(* one client per device it is the only one that its loop can find.         *)
LEMMA IndexKnown ==
    ASSUME SessionInv, NEW d, Known(d) # {}
    PROVE  Index(d) \in 1..Len(clients) /\ clients[Index(d)].dev = d
<1>1. PICK n \in Known(d) : TRUE
  OBVIOUS
<1>2. n \in 1..Len(clients) /\ n \in Nat
  BY DEF Known, SessionInv, RouteType
<1>3. \A j \in Known(d) : n <= j
  BY <1>2 DEF Known, SessionInv, OneClientPerDevice
<1> QED
  BY <1>3 DEF Index, Known

(* Writing to one client of the vector: it stays a vector of the same       *)
(* length, and no other client changes.                                     *)
LEMMA ElementUpdate ==
    ASSUME NEW cs \in Seq(ClientRecord), NEW i \in 1..Len(cs), NEW c \in ClientRecord,
           c.dev = cs[i].dev
    PROVE  /\ [cs EXCEPT ![i] = c] \in Seq(ClientRecord)
           /\ Len([cs EXCEPT ![i] = c]) = Len(cs)
           /\ \A k \in 1..Len(cs) : [cs EXCEPT ![i] = c][k].dev = cs[k].dev
  OBVIOUS

(* vector_delete, whichever element it is asked for, leaves a prefix of the *)
(* vector and no device id changes.                                         *)
LEMMA DeleteClientPrefix ==
    ASSUME NEW cs \in Seq(ClientRecord), NEW i \in 1..Len(cs)
    PROVE  /\ DeleteClient(cs, i) \in Seq(ClientRecord)
           /\ Len(DeleteClient(cs, i)) = Len(cs) - 1
           /\ \A k \in 1..(Len(cs) - 1) : DeleteClient(cs, i)[k].dev = cs[k].dev
<1> DEFINE fs == [cs EXCEPT ![i].mem = "freed"]
<1>1. cs[i] \in ClientRecord
  OBVIOUS
<1>2. [cs[i] EXCEPT !.mem = "freed"] \in ClientRecord /\ [cs[i] EXCEPT !.mem = "freed"].dev = cs[i].dev
  BY <1>1 DEF ClientRecord
<1>3. fs \in Seq(ClientRecord) /\ Len(fs) = Len(cs)
  BY <1>2, ElementUpdate
<1>4. \A k \in 1..Len(cs) : fs[k].dev = cs[k].dev
  BY <1>2, ElementUpdate
<1>5. Len(cs) \in Nat \ {0}
  OBVIOUS
<1> HIDE DEF fs
<1>6. /\ SubSeq(fs, 1, Len(cs) - 1) \in Seq(ClientRecord)
      /\ Len(SubSeq(fs, 1, Len(cs) - 1)) = Len(cs) - 1
      /\ \A k \in 1..(Len(cs) - 1) : SubSeq(fs, 1, Len(cs) - 1)[k] = fs[k]
  BY <1>3, <1>5
<1>7. DeleteClient(cs, i) = SubSeq(fs, 1, Len(cs) - 1)
  BY DEF DeleteClient, fs
<1> QED
  BY <1>4, <1>5, <1>6, <1>7

(* Changing the socket of one client changes no device id.                  *)
LEMMA SocketUpdate ==
    ASSUME NEW cs \in Seq(ClientRecord), NEW i \in 1..Len(cs), NEW c \in Canbus
    PROVE  /\ [cs EXCEPT ![i].canbus = c] \in Seq(ClientRecord)
           /\ Len([cs EXCEPT ![i].canbus = c]) = Len(cs)
           /\ \A k \in 1..Len(cs) : [cs EXCEPT ![i].canbus = c][k].dev = cs[k].dev
<1>1. cs[i] \in ClientRecord
  OBVIOUS
<1>2. [cs[i] EXCEPT !.canbus = c] \in ClientRecord /\ [cs[i] EXCEPT !.canbus = c].dev = cs[i].dev
  BY <1>1 DEF ClientRecord
<1> QED
  BY <1>2, ElementUpdate

(* What a handler may do to the vector: drop clients at the end, change     *)
(* anything but device ids, or append a client of a device that has none.   *)
SafeUpdate(d) ==
    /\ clients' \in Seq(ClientRecord)
    /\ \/ /\ Len(clients') <= Len(clients)
          /\ \A k \in 1..Len(clients') : clients'[k].dev = clients[k].dev
       \/ /\ Known(d) = {}
          /\ \E c \in ClientRecord : c.dev = d /\ clients' = Append(clients, c)

\* A safe update of the vector keeps its device ids distinct.
LEMMA SafeUpdateKeepsUnique ==
    ASSUME SessionInv, NEW d \in Devices, SafeUpdate(d)
    PROVE  OneClientPerDevice'
<1>1. CASE /\ Len(clients') <= Len(clients)
           /\ \A k \in 1..Len(clients') : clients'[k].dev = clients[k].dev
  BY <1>1 DEF SessionInv, RouteType, OneClientPerDevice, SafeUpdate
<1>2. CASE /\ Known(d) = {}
           /\ \E c \in ClientRecord : c.dev = d /\ clients' = Append(clients, c)
  <2>1. PICK c \in ClientRecord : c.dev = d /\ clients' = Append(clients, c)
    BY <1>2
  <2>2. clients \in Seq(ClientRecord) /\ Len(clients) \in Nat
    BY DEF SessionInv, RouteType
  <2>3. /\ Len(clients') = Len(clients) + 1
        /\ clients'[Len(clients) + 1] = c
        /\ \A k \in 1..Len(clients) : clients'[k] = clients[k]
    BY <2>1, <2>2
  <2>4. \A k \in 1..Len(clients) : clients[k].dev # d
    BY <1>2 DEF Known
  <2> QED
    BY <2>1, <2>2, <2>3, <2>4 DEF SessionInv, OneClientPerDevice
<1> QED
  BY <1>1, <1>2 DEF SafeUpdate

(* An unchanged vector, an emptied one, and a socket that changed.          *)
LEMMA Unchanged ==
    ASSUME SessionInv, NEW d, UNCHANGED clients
    PROVE  SafeUpdate(d)
  BY DEF SessionInv, RouteType, SafeUpdate

\* Emptying the vector is safe.
LEMMA Emptied ==
    ASSUME SessionInv, NEW d, clients' = <<>>
    PROVE  SafeUpdate(d)
<1>1. <<>> \in Seq(ClientRecord) /\ Len(<<>>) = 0
  OBVIOUS
<1>2. Len(clients) \in Nat
  BY DEF SessionInv, RouteType
<1> QED
  BY <1>1, <1>2 DEF SafeUpdate

\* Changing the socket of a client is safe.
LEMMA SocketChanged ==
    ASSUME SessionInv, NEW d, Known(d) # {}, NEW c \in Canbus,
           clients' = [clients EXCEPT ![Index(d)].canbus = c]
    PROVE  SafeUpdate(d)
<1>1. Index(d) \in 1..Len(clients)
  BY IndexKnown
<1>2. clients \in Seq(ClientRecord) /\ Len(clients) \in Nat
  BY DEF SessionInv, RouteType
<1>3. /\ clients' \in Seq(ClientRecord)
      /\ Len(clients') = Len(clients)
      /\ \A k \in 1..Len(clients) : clients'[k].dev = clients[k].dev
  BY <1>1, <1>2, SocketUpdate
<1>4. Len(clients') <= Len(clients) /\ 1..Len(clients') = 1..Len(clients)
  BY <1>2, <1>3
<1> QED
  BY <1>3, <1>4, Zenon DEF SafeUpdate

(* Every handler of the daemon updates the vector safely.                   *)
LEMMA OpenSafe ==
    ASSUME SessionInv, NEW d \in Devices, DesiredOpen(d)
    PROVE  SafeUpdate(d)
<1>1. CASE UNCHANGED daemonVars
  BY <1>1, Unchanged DEF daemonVars
<1>2. CASE Crash
  BY <1>2, Emptied DEF Crash
<1>3. CASE /\ Known(d) = {}
           /\ clients' = Append(clients, [dev |-> d, mem |-> "live", canbus |-> "unset"])
  <2> DEFINE c == [dev |-> d, mem |-> "live", canbus |-> "unset"]
  <2>1. c \in ClientRecord /\ c.dev = d
    BY DEF ClientRecord, Canbus
  <2>2. clients' \in Seq(ClientRecord)
    BY <1>3, <2>1 DEF SessionInv, RouteType
  <2> QED
    BY <1>3, <2>1, <2>2 DEF SafeUpdate
<1> QED
  BY <1>1, <1>2, <1>3 DEF DesiredOpen

\* Closing a device is a safe update.
LEMMA CloseSafe ==
    ASSUME SessionInv, NEW d \in Devices, DesiredClose(d)
    PROVE  SafeUpdate(d)
<1>1. CASE UNCHANGED daemonVars
  BY <1>1, Unchanged DEF daemonVars
<1>2. CASE clients' = <<>>
  BY <1>2, Emptied
<1>3. CASE Known(d) # {} /\ clients' = DeleteClient(clients, Index(d))
  <2>1. Index(d) \in 1..Len(clients)
    BY <1>3, IndexKnown
  <2>2. clients \in Seq(ClientRecord) /\ Len(clients) \in Nat
    BY DEF SessionInv, RouteType
  <2>3. /\ clients' \in Seq(ClientRecord)
        /\ Len(clients') = Len(clients) - 1
        /\ \A k \in 1..(Len(clients) - 1) : clients'[k].dev = clients[k].dev
    BY <1>3, <2>1, <2>2, DeleteClientPrefix
  <2> QED
    BY <2>2, <2>3 DEF SafeUpdate
<1> QED
  BY <1>1, <1>2, <1>3 DEF DesiredClose, Crash

\* Connecting a channel is a safe update.
LEMMA ConnectSafe ==
    ASSUME SessionInv, NEW d \in Devices, DesiredConnect(d)
    PROVE  SafeUpdate(d)
<1>1. CASE UNCHANGED daemonVars
  BY <1>1, Unchanged DEF daemonVars
<1>2. CASE Crash
  BY <1>2, Emptied DEF Crash
<1>3. CASE /\ Known(d) # {}
           /\ \E c \in {"connected", "failed"} : clients' = [clients EXCEPT ![Index(d)].canbus = c]
  BY <1>3, SocketChanged DEF Canbus
<1> QED
  BY <1>1, <1>2, <1>3 DEF DesiredConnect

\* Disconnecting a channel is a safe update.
LEMMA DisconnectSafe ==
    ASSUME SessionInv, NEW d \in Devices, DesiredDisconnect(d)
    PROVE  SafeUpdate(d)
<1>1. CASE UNCHANGED daemonVars
  BY <1>1, Unchanged DEF daemonVars
<1>2. CASE Crash
  BY <1>2, Emptied DEF Crash
<1>3. CASE Known(d) # {} /\ clients' = [clients EXCEPT ![Index(d)].canbus = "null"]
  BY <1>3, SocketChanged DEF Canbus
<1> QED
  BY <1>1, <1>2, <1>3 DEF DesiredDisconnect

\* Select and filter requests are safe updates.
LEMMA SelectFilterSafe ==
    ASSUME SessionInv, NEW d \in Devices, DesiredSelect(d) \/ DesiredStartMsgFilter(d)
    PROVE  SafeUpdate(d)
<1>1. CASE UNCHANGED daemonVars
  BY <1>1, Unchanged DEF daemonVars
<1>2. CASE Crash
  BY <1>2, Emptied DEF Crash
<1> QED
  BY <1>1, <1>2 DEF DesiredSelect, DesiredStartMsgFilter

(* The service only queues deltas built from the desired state.             *)
LEMMA OfferType ==
    ASSUME NEW q \in Seq(DeltaMessage), NEW m \in DeltaMessage
    PROVE  Offer(q, m) \in Seq(DeltaMessage)
  BY DEF Offer

\* A delta is a message of its type.
LEMMA DeltaType ==
    ASSUME NEW want \in [dev : Devices, st : States], NEW have, NEW log \in BOOLEAN
    PROVE  Delta(want, have, log) \in DeltaMessage
<1>1. want.dev \in Devices /\ (IF want.st = have THEN NULL ELSE want.st) \in States
  BY DEF States
<1> QED
  BY <1>1 DEF Delta, DeltaMessage

\* Writing the desired state keeps the types of the route.
LEMMA DesireType ==
    ASSUME SessionInv, NEW want \in [dev : Devices, st : States], NEW log \in BOOLEAN,
           Desire(want, log)
    PROVE  /\ desired' \in [dev : Devices, st : States]
           /\ logging' \in BOOLEAN
           /\ deltas' \in Seq(DeltaMessage)
<1>1. Delta(want, reported, log) \in DeltaMessage
  BY DeltaType
<1>2. deltas \in Seq(DeltaMessage)
  BY DEF SessionInv, RouteType
<1> QED
  BY <1>1, <1>2, OfferType DEF Desire

\* The invariant holds at the start.
LEMMA SessionInit ==
    ASSUME Init PROVE SessionInv
<1>1. (CHOOSE d \in Devices : TRUE) \in Devices
  BY SessionAssumption
<1>2. /\ op \in [Testers -> States] /\ dev \in [Testers -> Devices]
      /\ deltas \in Seq(DeltaMessage) /\ clients \in Seq(ClientRecord)
  BY <1>1 DEF Init, States
<1>3. logging \in BOOLEAN
  BY DEF Init
<1>4. desired \in [dev : Devices, st : States]
  BY <1>1 DEF Init, States
<1>5. RouteType
  BY <1>2, <1>3, <1>4 DEF RouteType
<1>6. OneClientPerDevice
  BY DEF Init, OneClientPerDevice
<1> QED
  BY <1>5, <1>6 DEF SessionInv

(* The daemon's router: every delta updates the vector safely.              *)
LEMMA RouteKeeps ==
    ASSUME SessionInv, RouteDelta PROVE SessionInv'
<1> DEFINE m == Head(deltas)
<1>1. deltas \in Seq(DeltaMessage) /\ deltas # <<>>
  BY DEF SessionInv, RouteType, RouteDelta
<1>2. m \in DeltaMessage /\ Tail(deltas) \in Seq(DeltaMessage)
  BY <1>1
<1>3. m.dev \in Devices
  BY <1>2 DEF DeltaMessage
<1>4. deltas' \in Seq(DeltaMessage)
  BY <1>2 DEF RouteDelta
<1> HIDE DEF m
<1>5. SafeUpdate(m.dev)
  <2>1. HandleLog \/ HandleJ2534(m) \/ Crash
    BY DEF RouteDelta, m
  <2>2. CASE HandleLog
    BY <2>2, Unchanged DEF HandleLog, daemonVars
  <2>3. CASE Crash
    BY <2>3, Emptied DEF Crash
  <2>4. CASE HandleJ2534(m)
    <3>1. \/ DesiredOpen(m.dev) \/ DesiredClose(m.dev) \/ DesiredConnect(m.dev)
          \/ DesiredDisconnect(m.dev) \/ DesiredSelect(m.dev) \/ DesiredStartMsgFilter(m.dev)
      BY <2>4 DEF HandleJ2534
    <3> QED
      BY <3>1, <1>3, OpenSafe, CloseSafe, ConnectSafe, DisconnectSafe, SelectFilterSafe
  <2> QED
    BY <2>1, <2>2, <2>3, <2>4
<1>6. OneClientPerDevice'
  BY <1>3, <1>5, SafeUpdateKeepsUnique
<1>7. UNCHANGED <<op, dev, desired, logging>> /\ clients' \in Seq(ClientRecord)
  BY <1>5 DEF RouteDelta, callVars, SafeUpdate
<1> QED
  BY <1>4, <1>6, <1>7 DEF SessionInv, RouteType

(* What the service, the faults and the daemon's start and stop do.         *)
LEMMA ServiceKeeps ==
    ASSUME SessionInv,
           \/ ServeReport \/ LoseDelta \/ LoseReport \/ RequestLog
           \/ DaemonStop \/ DaemonStart \/ \E t \in Testers, d \in Devices : LoseUpdate(t, d)
    PROVE  SessionInv'
<1> USE DEF SessionInv
<1>1. CASE ServeReport
  <2>1. UNCHANGED <<op, dev, desired, clients>>
    BY <1>1 DEF ServeReport, callVars, daemonVars
  <2>2. /\ logging' \in BOOLEAN
        /\ \/ deltas' = Offer(deltas, Delta(desired, reported', logging'))
           \/ UNCHANGED deltas
    BY <1>1 DEF ServeReport, RouteType
  <2>3. Delta(desired, reported', logging') \in DeltaMessage
    BY <2>2, DeltaType DEF RouteType
  <2>4. deltas' \in Seq(DeltaMessage)
    BY <2>2, <2>3, OfferType DEF RouteType
  <2> QED
    BY <2>1, <2>2, <2>4 DEF RouteType, OneClientPerDevice
<1>2. CASE LoseDelta
  <2>1. UNCHANGED <<op, dev, desired, logging, clients>> /\ deltas' \in Seq(DeltaMessage)
    BY <1>2 DEF LoseDelta, callVars, daemonVars, RouteType
  <2> QED
    BY <2>1 DEF RouteType, OneClientPerDevice
<1>3. CASE LoseReport
  BY <1>3 DEF LoseReport, callVars, daemonVars, RouteType, OneClientPerDevice
<1>4. CASE RequestLog
  <2>1. Desire(desired, TRUE) /\ UNCHANGED <<op, dev, clients>>
    BY <1>4 DEF RequestLog, callVars, daemonVars
  <2>2. /\ desired' \in [dev : Devices, st : States]
        /\ logging' \in BOOLEAN
        /\ deltas' \in Seq(DeltaMessage)
    BY <2>1, DesireType DEF RouteType
  <2> QED
    BY <2>1, <2>2 DEF RouteType, OneClientPerDevice
<1>5. CASE DaemonStop
  <2>1. UNCHANGED <<op, dev, desired, logging>> /\ deltas' = <<>> /\ clients' = <<>>
    BY <1>5 DEF DaemonStop, callVars
  <2> QED
    BY <2>1 DEF RouteType, OneClientPerDevice
<1>6. CASE DaemonStart
  BY <1>6 DEF DaemonStart, callVars, RouteType, OneClientPerDevice
<1>7. CASE \E t \in Testers, d \in Devices : LoseUpdate(t, d)
  BY <1>7 DEF LoseUpdate, callVars, serviceVars, daemonVars, RouteType, OneClientPerDevice
<1> QED
  BY <1>1, <1>2, <1>3, <1>4, <1>5, <1>6, <1>7

(* How a call begins: it notes its device and touches nothing else.         *)
LEMMA CallKeeps ==
    ASSUME SessionInv, NEW t \in Testers, Call(t) PROVE SessionInv'
<1>1. PICK d \in Devices :
        \/ OpenCall(t, d) \/ CloseCall(t, d) \/ ConnectCall(t, d)
        \/ DisconnectCall(t, d) \/ SelectCall(t, d) \/ StartMsgFilterCall(t, d)
  BY DEF Call
<1>2. \E o \in Ops : Begins(t, o, d)
  BY <1>1 DEF OpenCall, CloseCall, ConnectCall, DisconnectCall, SelectCall,
              StartMsgFilterCall, Ops
<1>3. op' \in [Testers -> States] /\ dev' \in [Testers -> Devices]
  BY <1>2 DEF Begins, SessionInv, RouteType, States
<1>4. UNCHANGED <<serviceVars, daemonVars>>
  BY <1>1 DEF OpenCall, CloseCall, ConnectCall, DisconnectCall, SelectCall, StartMsgFilterCall
<1> QED
  BY <1>3, <1>4 DEF SessionInv, RouteType, OneClientPerDevice, serviceVars, daemonVars

(* The two publishes of a call are updates of the desired state with the    *)
(* call's own device, and the other steps leave the service alone.          *)
LEMMA CallStepKeeps ==
    ASSUME SessionInv, NEW t \in Testers, CallStep(t) \/ Restart(t) PROVE SessionInv'
<1>1. UNCHANGED <<op, dev>>
  BY DEF CallStep, Restart, OpenConnect, OpenSubscribe, Publish, Receive, Acked, Timeout,
         Unsubscribe, PublishClose, Answered, Return, callVars
<1>2. UNCHANGED clients
  BY DEF CallStep, Restart, OpenConnect, OpenSubscribe, Publish, Receive, Acked, Timeout,
         Unsubscribe, PublishClose, daemonVars
<1>3. \/ UNCHANGED serviceVars
      \/ Desire([dev |-> dev[t], st |-> op[t]], logging)
      \/ Desire([dev |-> dev[t], st |-> "Close"], logging)
  BY DEF CallStep, Restart, OpenConnect, OpenSubscribe, Publish, Receive, Acked, Timeout,
         Unsubscribe, PublishClose
<1>4. /\ [dev |-> dev[t], st |-> op[t]] \in [dev : Devices, st : States]
      /\ [dev |-> dev[t], st |-> "Close"] \in [dev : Devices, st : States]
      /\ logging \in BOOLEAN
  BY DEF SessionInv, RouteType, States, Ops
<1>5. /\ desired' \in [dev : Devices, st : States]
      /\ logging' \in BOOLEAN
      /\ deltas' \in Seq(DeltaMessage)
  BY <1>3, <1>4, DesireType DEF SessionInv, RouteType, serviceVars
<1> QED
  BY <1>1, <1>2, <1>5 DEF SessionInv, RouteType, OneClientPerDevice

(* The daemon never holds two clients of one device, so that every later     *)
(* delta acts on the client that was opened: in every behaviour of the       *)
(* session, with any testers, devices, log requests and faults.              *)
THEOREM DaemonClientsUnique == Spec => []OneClientPerDevice
<1>1. Init => SessionInv
  BY SessionInit
<1>2. SessionInv /\ [Next]_vars => SessionInv'
  <2> SUFFICES ASSUME SessionInv, [Next]_vars PROVE SessionInv'
    OBVIOUS
  <2>1. CASE UNCHANGED vars
    BY <2>1 DEF vars, callVars, serviceVars, daemonVars, SessionInv, RouteType, OneClientPerDevice
  <2>2. CASE Next
    BY <2>2, CallKeeps, CallStepKeeps, ServiceKeeps, RouteKeeps DEF Next
  <2> QED
    BY <2>1, <2>2
<1>3. SessionInv => OneClientPerDevice
  BY DEF SessionInv
<1> QED
  BY <1>1, <1>2, <1>3, PTL DEF Spec

-----------------------------------------------------------------------------
(* Types of the other variables.                                           *)

\* A report on its way; one of the J2534 handler names an operation.
ReportMessage ==
    {r \in [kind : {"j2534", "log", "connection"}, st : States, json : BOOLEAN] : r.kind = "j2534" => r.st \in Ops}
ResultRecord == [op : States, dev : Devices, rc : ReturnCodes, died : BOOLEAN,
                 canbus : Canbus \cup {"unknown"}]
Links == {"none", "connected", "accepted", "both"}
Points == {"idle", "connect", "subscribe", "publish", "wait", "unsubscribe", "publish2", "dead"}

LibraryType ==
    /\ opened \in [Testers -> BOOLEAN]
    /\ client \in PerDevice({"none", "live", "freed"})
    /\ cstate \in PerDevice(States)
    /\ chan \in PerDevice(BOOLEAN)
    /\ filter \in PerDevice({"none", "11bit", "29bit"})
    /\ inbox \in PerDevice(Seq(Ops))
    /\ link \in PerDevice(Links)
    /\ selected \in PerDevice({"no", "live", "freed"})
CallType ==
    /\ pc \in [Testers -> Points] /\ result \in [Testers -> ResultRecord]
    /\ calls \in [Testers -> 0 .. MaxCalls]
    /\ died \in [Testers -> BOOLEAN] /\ crashed \in BOOLEAN
WorldType ==
    /\ reported \in States /\ logs \in 0 .. MaxLogs /\ reports \in Seq(ReportMessage)
    /\ daemon \in {"up", "down"} /\ iface \in {"none", "set", "freed"} /\ faults \in 0 .. MaxFaults
SessionTyped == SessionInv /\ LibraryType /\ CallType /\ WorldType

\* One entry of a table of testers and devices, and all of one tester's.
LEMMA EntryUpdate ==
    ASSUME NEW S, NEW f \in PerDevice(S), NEW t \in Testers, NEW d \in Devices, NEW v \in S
    PROVE  [f EXCEPT ![t][d] = v] \in PerDevice(S) /\ f[t][d] \in S
BY DEF PerDevice

\* A tester's process starts again.
LEMMA RowUpdate ==
    ASSUME NEW S, NEW f \in PerDevice(S), NEW t \in Testers, NEW v \in S
    PROVE  [f EXCEPT ![t] = [d \in Devices |-> v]] \in PerDevice(S)
BY DEF PerDevice

\* An entry of a table.
LEMMA Entry ==
    ASSUME NEW S, NEW f \in PerDevice(S), NEW t \in Testers, NEW d \in Devices
    PROVE  f[t][d] \in S
BY DEF PerDevice

\* A fault keeps the count within its bound.
LEMMA FaultCounted ==
    ASSUME WorldType, Fault \/ UNCHANGED faults
    PROVE  faults' \in 0 .. MaxFaults
BY SessionAssumption DEF WorldType, Fault

\* What the daemon knows of a device's socket.
LEMMA CanbusKnown ==
    ASSUME SessionInv, NEW d
    PROVE  CanbusOf(d) \in Canbus \cup {"unknown"}
<1>1. CASE Known(d) = {}
  BY <1>1 DEF CanbusOf
<1>2. CASE Known(d) # {}
  <2>1. Index(d) \in 1 .. Len(clients)
    BY <1>2, IndexKnown
  <2>2. clients[Index(d)] \in ClientRecord
    BY <2>1 DEF SessionInv, RouteType
  <2>3. clients[Index(d)].canbus \in Canbus
    BY <2>2 DEF ClientRecord
  <2> QED
    BY <1>2, <2>3 DEF CanbusOf
<1> QED
  BY <1>1, <1>2

\* A result that is noted.
LEMMA ResultNoted ==
    ASSUME SessionInv, CallType, NEW t \in Testers, NEW o \in States, NEW d \in Devices, NEW rc \in ReturnCodes,
           NEW x \in BOOLEAN,
           result' = [result EXCEPT ![t] = [op |-> o, dev |-> d, rc |-> rc, died |-> x,
                                            canbus |-> CanbusOf(d)]]
    PROVE  result' \in [Testers -> ResultRecord]
<1>1. CanbusOf(d) \in Canbus \cup {"unknown"}
  BY CanbusKnown
<1>2. [op |-> o, dev |-> d, rc |-> rc, died |-> x, canbus |-> CanbusOf(d)] \in ResultRecord
  BY <1>1 DEF ResultRecord
<1> QED
  BY <1>2 DEF CallType

\* A call returns.
LEMMA ReturnTyped ==
    ASSUME SessionInv, CallType, NEW t \in Testers, NEW rc \in ReturnCodes, Return(t, rc)
    PROVE  pc' \in [Testers -> Points] /\ result' \in [Testers -> ResultRecord] /\ UNCHANGED calls
<1>1. /\ pc' = [pc EXCEPT ![t] = "idle"] /\ UNCHANGED calls
      /\ result' = [result EXCEPT ![t] = [op |-> op[t], dev |-> dev[t], rc |-> rc, died |-> died[t],
                                          canbus |-> CanbusOf(dev[t])]]
  BY DEF Return
<1>2. op[t] \in States /\ dev[t] \in Devices
  BY DEF SessionInv, RouteType
<1>3. died[t] \in BOOLEAN
  BY DEF CallType
<1>4. result' \in [Testers -> ResultRecord]
  BY <1>1, <1>2, <1>3, ResultNoted
<1>5. pc' \in [Testers -> Points]
  BY <1>1 DEF CallType, Points
<1> QED
  BY <1>1, <1>4, <1>5

\* A call goes on, or the process dies.
LEMMA GoesOnTyped ==
    ASSUME CallType, NEW t \in Testers, NEW p \in Points,
           GoesOn(t, p) \/ Dies(t)
    PROVE  pc' \in [Testers -> Points] /\ result' \in [Testers -> ResultRecord]
<1>1. "dead" \in Points
  BY DEF Points
<1> QED
  BY <1>1 DEF GoesOn, Dies, CallType

\* The answer of j2534_publish_state.
LEMMA AnsweredTyped ==
    ASSUME SessionInv, CallType, NEW t \in Testers, NEW rc \in ReturnCodes, Answered(t, rc)
    PROVE  pc' \in [Testers -> Points] /\ result' \in [Testers -> ResultRecord] /\ UNCHANGED calls
<1>1. CASE op[t] = "Close"
  <2>1. "unsubscribe" \in Points
    BY DEF Points
  <2> QED
    BY <1>1, <2>1, GoesOnTyped DEF Answered
<1>2. CASE op[t] # "Close"
  BY <1>2, ReturnTyped DEF Answered
<1> QED
  BY <1>1, <1>2

\* A call begins.
LEMMA BeginTyped ==
    ASSUME SessionInv, LibraryType, CallType, WorldType, NEW t \in Testers, Call(t)
    PROVE  LibraryType' /\ CallType' /\ WorldType'
<1>1. PICK d \in Devices :
        \/ OpenCall(t, d) \/ CloseCall(t, d) \/ ConnectCall(t, d)
        \/ DisconnectCall(t, d) \/ SelectCall(t, d) \/ StartMsgFilterCall(t, d)
  BY DEF Call
<1>2. PICK o \in Ops :
         /\ Begins(t, o, d)
         /\ \/ \E rc \in ReturnCodes : ReturnsAtOnce(t, o, d, rc)
            \/ \E p \in Points : GoesOn(t, p) \/ Dies(t)
  <2>1. {"connect", "publish"} \subseteq Points
    BY DEF Points
  <2>2. {"ERR_DEVICE_IN_USE", "ERR_DEVICE_NOT_OPEN", "ERR_INVALID_DEVICE_ID", "ERR_INVALID_CHANNEL_ID",
         "ERR_EXCEEDED_LIMIT", "ERR_ARGUMENT"} \subseteq ReturnCodes
    BY DEF ReturnCodes
  <2> QED
    BY <1>1, <2>1, <2>2 DEF OpenCall, CloseCall, ConnectCall, DisconnectCall, SelectCall, StartMsgFilterCall,
                            Refuses, Ops
<1>3. WorldType'
  BY <1>1 DEF OpenCall, CloseCall, ConnectCall, DisconnectCall, SelectCall, StartMsgFilterCall, WorldType,
              serviceVars, daemonVars
<1>4. CallType'
  <2>1. died' \in [Testers -> BOOLEAN] /\ crashed' \in BOOLEAN /\ calls' \in [Testers -> 0 .. MaxCalls]
    <3>1. FALSE \in BOOLEAN
      OBVIOUS
    <3>2. died' = [died EXCEPT ![t] = FALSE] /\ UNCHANGED crashed
      BY <1>2 DEF Begins
    <3>3. died' \in [Testers -> BOOLEAN] /\ crashed' \in BOOLEAN
      BY <3>1, <3>2 DEF CallType
    <3>4. calls' = [calls EXCEPT ![t] = @ + 1] /\ calls[t] < MaxCalls /\ calls[t] \in 0 .. MaxCalls
      BY <1>2 DEF Begins, CallType
    <3>5. calls[t] + 1 \in 0 .. MaxCalls
      BY <3>4, SessionAssumption
    <3>6. calls' \in [Testers -> 0 .. MaxCalls]
      BY <3>4, <3>5 DEF CallType
    <3> QED
      BY <3>3, <3>6
  <2>2. CASE \E rc \in ReturnCodes : ReturnsAtOnce(t, o, d, rc)
    <3>1. PICK rc \in ReturnCodes : ReturnsAtOnce(t, o, d, rc)
      BY <2>2
    <3>2. (Known(d) # {}) \in BOOLEAN /\ FALSE \in BOOLEAN /\ o \in States
      BY DEF States
    <3>3. result' \in [Testers -> ResultRecord] /\ pc' = pc
      BY <3>1, <3>2, ResultNoted DEF ReturnsAtOnce
    <3> QED
      BY <2>1, <3>3 DEF CallType
  <2>3. CASE \E p \in Points : GoesOn(t, p) \/ Dies(t)
    BY <2>1, <2>3, GoesOnTyped DEF CallType
  <2> QED
    BY <1>2, <2>2, <2>3
<1>5. LibraryType'
  <2>1. CASE CloseCall(t, d) \/ DisconnectCall(t, d)
    BY <2>1 DEF CloseCall, DisconnectCall, LibraryType, dllVars
  <2>2. CASE OpenCall(t, d)
    <3>1. CASE UNCHANGED <<client, cstate, chan, filter, link, inbox>>
      BY <2>2, <3>1 DEF OpenCall, LibraryType
    <3>2. CASE /\ client' = [client EXCEPT ![t][d] = "live"]
               /\ cstate' = [cstate EXCEPT ![t][d] = NULL]
               /\ chan'   = [chan EXCEPT ![t][d] = FALSE]
               /\ filter' = [filter EXCEPT ![t][d] = "none"]
               /\ link'   = [link EXCEPT ![t][d] = "none"]
               /\ inbox'  = [inbox EXCEPT ![t][d] = <<>>]
      <4>1. UNCHANGED <<opened, selected>>
        BY <2>2 DEF OpenCall
      <4>2. client' \in PerDevice({"none", "live", "freed"})
        BY <3>2, EntryUpdate DEF LibraryType
      <4>3. NULL \in States /\ cstate' \in PerDevice(States)
        BY <3>2, EntryUpdate DEF LibraryType, States
      <4>4. chan' \in PerDevice(BOOLEAN)
        BY <3>2, EntryUpdate DEF LibraryType
      <4>5. filter' \in PerDevice({"none", "11bit", "29bit"})
        BY <3>2, EntryUpdate DEF LibraryType
      <4>6. link' \in PerDevice(Links)
        BY <3>2, EntryUpdate DEF LibraryType, Links
      <4>7. inbox' \in PerDevice(Seq(Ops))
        <5>1. <<>> \in Seq(Ops)
          OBVIOUS
        <5> QED
          BY <3>2, <5>1, EntryUpdate DEF LibraryType
      <4> QED
        BY <4>1, <4>2, <4>3, <4>4, <4>5, <4>6, <4>7 DEF LibraryType
    <3> QED
      BY <2>2, <3>1, <3>2 DEF OpenCall
  <2>3. CASE ConnectCall(t, d)
    <3>1. UNCHANGED chan \/ chan' = [chan EXCEPT ![t][d] = TRUE]
      BY <2>3 DEF ConnectCall
    <3>2. TRUE \in BOOLEAN /\ chan \in PerDevice(BOOLEAN)
      BY DEF LibraryType
    <3>3. CASE UNCHANGED chan
      BY <3>2, <3>3, <2>3 DEF ConnectCall, LibraryType
    <3>4. CASE chan' = [chan EXCEPT ![t][d] = TRUE]
      <4>1. chan' \in PerDevice(BOOLEAN)
        BY <3>2, <3>4, EntryUpdate
      <4> QED
        BY <4>1, <2>3 DEF ConnectCall, LibraryType
    <3> QED
      BY <3>1, <3>3, <3>4
  <2>4. CASE SelectCall(t, d)
    <3>1. UNCHANGED selected \/ selected' = [selected EXCEPT ![t][d] = IF @ = "no" THEN "live" ELSE @]
      BY <2>4 DEF SelectCall
    <3>2. selected \in PerDevice({"no", "live", "freed"}) /\ selected[t][d] \in {"no", "live", "freed"}
      BY Entry DEF LibraryType
    <3>3. PICK v \in {"no", "live", "freed"} :
            UNCHANGED selected \/ selected' = [selected EXCEPT ![t][d] = v]
      BY <3>1, <3>2
    <3>4. selected' \in PerDevice({"no", "live", "freed"})
      BY <3>2, <3>3, EntryUpdate
    <3> QED
      BY <2>4, <3>4 DEF SelectCall, LibraryType
  <2>5. CASE StartMsgFilterCall(t, d)
    <3>1. UNCHANGED filter \/ \E w \in {"11bit", "29bit"} : filter' = [filter EXCEPT ![t][d] = w]
      BY <2>5 DEF StartMsgFilterCall
    <3>2. filter' \in PerDevice({"none", "11bit", "29bit"})
      <4>1. filter \in PerDevice({"none", "11bit", "29bit"})
        BY DEF LibraryType
      <4>2. CASE UNCHANGED filter
        BY <4>1, <4>2
      <4>3. ASSUME NEW w \in {"none", "11bit", "29bit"}, filter' = [filter EXCEPT ![t][d] = w]
            PROVE  filter' \in PerDevice({"none", "11bit", "29bit"})
        BY <4>1, <4>3, EntryUpdate
      <4> QED
        BY <3>1, <4>2, <4>3
    <3> QED
      BY <2>5, <3>2 DEF StartMsgFilterCall, LibraryType
  <2> QED
    BY <1>1, <2>1, <2>2, <2>3, <2>4, <2>5
<1> QED
  BY <1>3, <1>4, <1>5

\* The steps of a call keep its own state typed: a code that is returned is
\* one of the API's, and the state that is read is one that was reported.
LEMMA CallStepCalls ==
    ASSUME SessionInv, CallType, NEW t \in Testers, CallStep(t)
    PROVE  CallType'
<1>1. {"subscribe", "publish", "wait", "unsubscribe", "publish2"} \subseteq Points
  BY DEF Points
<1>2. {"STATUS_NOERROR", "ERR_BUFFER_EMPTY", "ERR_DEVICE_NOT_CONNECTED"} \subseteq ReturnCodes
  BY DEF ReturnCodes
<1>3. UNCHANGED historyVars
  BY DEF CallStep, OpenConnect, OpenSubscribe, Publish, Receive, Acked, Timeout, Unsubscribe, PublishClose
<1>4. CASE Receive(t)
  BY <1>4 DEF Receive, callVars, historyVars, CallType
<1>5. CASE ~Receive(t)
  <2>1. \/ UNCHANGED calls /\ \E p \in Points : GoesOn(t, p) \/ Dies(t)
        \/ \E rc \in ReturnCodes : Return(t, rc) \/ Answered(t, rc)
    <3>1. CASE OpenConnect(t) \/ OpenSubscribe(t)
      BY <1>1, <1>2, <3>1 DEF OpenConnect, OpenSubscribe
    <3>2. CASE Publish(t)
      BY <1>1, <1>2, <3>2 DEF Publish
    <3>3. CASE Acked(t)
      BY <1>1, <1>2, <3>3 DEF Acked, Answers
    <3>4. CASE Timeout(t)
      BY <1>1, <1>2, <3>4 DEF Timeout
    <3>5. CASE Unsubscribe(t)
      BY <1>1, <1>2, <3>5 DEF Unsubscribe
    <3>6. CASE PublishClose(t)
      <4>1. \E rc \in {"STATUS_NOERROR", "ERR_DEVICE_NOT_CONNECTED"} : Return(t, rc)
        BY <3>6 DEF PublishClose
      <4> QED
        BY <1>2, <4>1
    <3> QED
      BY <1>5, <3>1, <3>2, <3>3, <3>4, <3>5, <3>6 DEF CallStep
  <2>2. pc' \in [Testers -> Points] /\ result' \in [Testers -> ResultRecord] /\ UNCHANGED calls
    <3>1. CASE UNCHANGED calls /\ \E p \in Points : GoesOn(t, p) \/ Dies(t)
      BY <3>1, GoesOnTyped
    <3>2. CASE \E rc \in ReturnCodes : Return(t, rc) \/ Answered(t, rc)
      BY <3>2, ReturnTyped, AnsweredTyped
    <3> QED
      BY <2>1, <3>1, <3>2
  <2> QED
    BY <1>3, <2>2 DEF CallType, historyVars
<1> QED
  BY <1>4, <1>5

\* The steps of a call keep the library's tables typed.
LEMMA CallStepLibrary ==
    ASSUME SessionInv, LibraryType, NEW t \in Testers, CallStep(t)
    PROVE  LibraryType'
<1>1. dev[t] \in Devices
  BY DEF SessionInv, RouteType
<1>2. CASE OpenConnect(t) \/ OpenSubscribe(t) \/ Unsubscribe(t)
  <2>1. PICK l \in Links : UNCHANGED link \/ link' = [link EXCEPT ![t][dev[t]] = l]
    BY <1>2 DEF OpenConnect, OpenSubscribe, Unsubscribe, Links
  <2>2. link \in PerDevice(Links)
    BY DEF LibraryType
  <2>3. link' \in PerDevice(Links)
    <3>1. [link EXCEPT ![t][dev[t]] = l] \in PerDevice(Links)
      BY <1>1, <2>2, EntryUpdate
    <3> QED
      BY <2>1, <2>2, <3>1
  <2> QED
    BY <1>2, <2>3 DEF OpenConnect, OpenSubscribe, Unsubscribe, LibraryType
<1>3. CASE Publish(t) \/ Acked(t) \/ Timeout(t)
  BY <1>3 DEF Publish, Acked, Timeout, dllVars, LibraryType
<1>4. CASE Receive(t)
  <2>1. inbox[t][dev[t]] \in Seq(Ops) /\ inbox[t][dev[t]] # <<>>
    BY <1>1, <1>4, Entry DEF Receive, LibraryType
  <2>2. PICK st \in Ops : st = Head(inbox[t][dev[t]])
    BY <2>1
  <2>3. PICK q \in Seq(Ops) : q = Tail(inbox[t][dev[t]])
    <3>1. \A s \in Seq(Ops) : s # <<>> => Tail(s) \in Seq(Ops)
      OBVIOUS
    <3>2. Tail(inbox[t][dev[t]]) \in Seq(Ops)
      BY <2>1, <3>1
    <3> QED
      BY <3>2, Zenon
  <2>4. inbox' = [inbox EXCEPT ![t][dev[t]] = q] /\ cstate' = [cstate EXCEPT ![t][dev[t]] = st]
    BY <1>4, <2>2, <2>3 DEF Receive
  <2>5. inbox' \in PerDevice(Seq(Ops))
    BY <1>1, <2>4, EntryUpdate DEF LibraryType
  <2>6. st \in States /\ cstate' \in PerDevice(States)
    BY <1>1, <2>4, EntryUpdate DEF LibraryType, States
  <2>7. opened' \in [Testers -> BOOLEAN]
    <3>1. \/ opened' = [opened EXCEPT ![t] = TRUE]
          \/ opened' = [opened EXCEPT ![t] = FALSE]
          \/ opened' = [opened EXCEPT ![t] = @]
      BY <1>4 DEF Receive
    <3>2. CASE opened' = [opened EXCEPT ![t] = TRUE]
      BY <3>2 DEF LibraryType
    <3>3. CASE opened' = [opened EXCEPT ![t] = FALSE]
      BY <3>3 DEF LibraryType
    <3>4. CASE opened' = [opened EXCEPT ![t] = @]
      BY <3>4 DEF LibraryType
    <3> QED
      BY <3>1, <3>2, <3>3, <3>4
  <2> QED
    BY <1>4, <2>5, <2>6, <2>7 DEF Receive, LibraryType
<1>5. CASE PublishClose(t)
  <2>1. client' = [client EXCEPT ![t][dev[t]] = "freed"]
    BY <1>5 DEF PublishClose
  <2>2. client' \in PerDevice({"none", "live", "freed"})
    BY <1>1, <2>1, EntryUpdate DEF LibraryType
  <2>3. selected \in PerDevice({"no", "live", "freed"}) /\ selected[t][dev[t]] \in {"no", "live", "freed"}
    BY <1>1, Entry DEF LibraryType
  <2>4. PICK v \in {"no", "live", "freed"} : selected' = [selected EXCEPT ![t][dev[t]] = v]
    BY <1>5, <2>3 DEF PublishClose
  <2>5. selected' \in PerDevice({"no", "live", "freed"})
    BY <1>1, <2>3, <2>4, EntryUpdate
  <2> QED
    BY <1>5, <2>2, <2>5 DEF PublishClose, LibraryType
<1> QED
  BY <1>2, <1>3, <1>4, <1>5 DEF CallStep

\* The steps of a call only count a fault and write what is desired.
LEMMA CallStepWorld ==
    ASSUME WorldType, NEW t \in Testers, CallStep(t) \/ Restart(t)
    PROVE  WorldType'
<1>1. Fault \/ UNCHANGED faults
  BY DEF CallStep, Restart, OpenConnect, OpenSubscribe, Publish, Receive, Acked, Timeout, Unsubscribe, PublishClose
<1>2. UNCHANGED <<reported, logs, reports>>
  BY DEF CallStep, Restart, OpenConnect, OpenSubscribe, Publish, Receive, Acked, Timeout, Unsubscribe, PublishClose,
         serviceVars, Desire
<1>3. UNCHANGED daemonVars
  BY DEF CallStep, Restart, OpenConnect, OpenSubscribe, Publish, Receive, Acked, Timeout, Unsubscribe, PublishClose
<1>4. faults' \in 0 .. MaxFaults
  BY <1>1, FaultCounted
<1> QED
  BY <1>2, <1>3, <1>4 DEF WorldType, daemonVars

\* A tester's process that starts again has an empty library.
LEMMA RestartTyped ==
    ASSUME LibraryType, CallType, NEW t \in Testers, Restart(t)
    PROVE  LibraryType' /\ CallType'
<1>1. /\ opened' \in [Testers -> BOOLEAN] /\ pc' \in [Testers -> Points]
      /\ UNCHANGED <<result, calls, died, crashed>>
  BY DEF Restart, LibraryType, CallType, Points, historyVars
<1>2. client' \in PerDevice({"none", "live", "freed"})
  BY RowUpdate DEF Restart, LibraryType
<1>3. NULL \in States /\ cstate' \in PerDevice(States)
  BY RowUpdate DEF Restart, LibraryType, States
<1>4. chan' \in PerDevice(BOOLEAN)
  <2>1. FALSE \in BOOLEAN /\ chan \in PerDevice(BOOLEAN)
    BY DEF LibraryType
  <2> QED
    BY <2>1, RowUpdate DEF Restart
<1>5. filter' \in PerDevice({"none", "11bit", "29bit"})
  BY RowUpdate DEF Restart, LibraryType
<1>6. inbox' \in PerDevice(Seq(Ops))
  <2>1. <<>> \in Seq(Ops) /\ inbox \in PerDevice(Seq(Ops))
    BY DEF LibraryType
  <2> QED
    BY <2>1, RowUpdate DEF Restart
<1>7. link' \in PerDevice(Links)
  <2>1. "none" \in Links /\ link \in PerDevice(Links)
    BY DEF LibraryType, Links
  <2> QED
    BY <2>1, RowUpdate DEF Restart
<1>8. selected' \in PerDevice({"no", "live", "freed"})
  BY RowUpdate DEF Restart, LibraryType
<1>9. LibraryType'
  BY <1>1, <1>2, <1>3, <1>4, <1>5, <1>6, <1>7, <1>8 DEF LibraryType
<1> QED
  BY <1>1, <1>9 DEF CallType

\* A report of the J2534 handler is of its type.
LEMMA ReportTyped ==
    ASSUME WorldType, NEW st \in Ops, NEW two \in BOOLEAN,
           Send(Report(st)) \/ Send(ErrorReport(st, two))
    PROVE  reports' \in Seq(ReportMessage)
<1>1. PICK j \in BOOLEAN : reports' = Append(reports, [kind |-> "j2534", st |-> st, json |-> j])
  <2>1. Report(st) = [kind |-> "j2534", st |-> st, json |-> TRUE]
    BY DEF Report
  <2>2. ErrorReport(st, two) = [kind |-> "j2534", st |-> st, json |-> ~two]
    BY DEF ErrorReport
  <2>3. \E j \in BOOLEAN : (~two) = j
    <3>1. CASE two = TRUE
      BY <3>1, (~TRUE) = FALSE
    <3>2. CASE two = FALSE
      BY <3>2, (~FALSE) = TRUE
    <3> QED
      BY <3>1, <3>2
  <2>4. \E j \in BOOLEAN : Report(st) = [kind |-> "j2534", st |-> st, json |-> j]
    BY <2>1
  <2>5. \E j \in BOOLEAN : ErrorReport(st, two) = [kind |-> "j2534", st |-> st, json |-> j]
    BY <2>2, <2>3, Zenon
  <2> QED
    BY <2>4, <2>5, Zenon DEF Send
<1>2. [kind |-> "j2534", st |-> st, json |-> j] \in ReportMessage
  BY DEF ReportMessage, States
<1> QED
  BY <1>1, <1>2 DEF WorldType

\* A handler of the daemon reports an operation or nothing, and leaves the
\* daemon's own variables typed.
LEMMA HandlerTyped ==
    ASSUME WorldType, NEW d,
           \/ DesiredOpen(d) \/ DesiredClose(d) \/ DesiredConnect(d)
           \/ DesiredDisconnect(d) \/ DesiredSelect(d) \/ DesiredStartMsgFilter(d)
    PROVE  /\ reports' \in Seq(ReportMessage)
           /\ daemon' \in {"up", "down"} /\ iface' \in {"none", "set", "freed"}
<1>1. daemon' \in {"up", "down"} /\ iface' \in {"none", "set", "freed"}
  BY DEF DesiredOpen, DesiredClose, DesiredConnect, DesiredDisconnect, DesiredSelect, DesiredStartMsgFilter,
         Crash, daemonVars, WorldType
<1>2. \/ UNCHANGED reports
      \/ \E st \in Ops, two \in BOOLEAN : Send(Report(st)) \/ Send(ErrorReport(st, two))
  <2>1. CASE DesiredOpen(d)
    BY <2>1 DEF DesiredOpen, Crash, Ops
  <2>2. CASE DesiredClose(d)
    BY <2>2 DEF DesiredClose, Crash, Ops
  <2>3. CASE DesiredConnect(d)
    BY <2>3 DEF DesiredConnect, Crash, Ops
  <2>4. CASE DesiredDisconnect(d)
    BY <2>4 DEF DesiredDisconnect, Crash, Ops
  <2>5. CASE DesiredSelect(d)
    BY <2>5 DEF DesiredSelect, Crash, Ops
  <2>6. CASE DesiredStartMsgFilter(d)
    BY <2>6 DEF DesiredStartMsgFilter, Crash, Ops
  <2> QED
    BY <2>1, <2>2, <2>3, <2>4, <2>5, <2>6
<1>3. reports' \in Seq(ReportMessage)
  BY <1>2, ReportTyped DEF WorldType
<1> QED
  BY <1>1, <1>3

\* A sequence over a set is one over every larger set.
LEMMA SubsetSeq ==
    ASSUME NEW S, NEW R, S \subseteq R
    PROVE  Seq(S) \subseteq Seq(R)
<1> SUFFICES ASSUME NEW q \in Seq(S) PROVE q \in Seq(R)
  OBVIOUS
<1>1. Len(q) \in Nat /\ q \in [1 .. Len(q) -> S]
  OBVIOUS
<1>2. q \in [1 .. Len(q) -> R]
  BY <1>1
<1> QED
  BY <1>1, <1>2

\* A report that has no state of the J2534 handler.
LEMMA NoteTyped ==
    ASSUME WorldType, NEW k \in {"log", "connection"}, Send([kind |-> k, st |-> NULL, json |-> TRUE])
    PROVE  reports' \in Seq(ReportMessage)
<1>1. [kind |-> k, st |-> NULL, json |-> TRUE] \in ReportMessage
  BY DEF ReportMessage, States
<1> QED
  BY <1>1 DEF Send, WorldType

\* The daemon's router.
LEMMA RouteTyped ==
    ASSUME LibraryType, CallType, WorldType, RouteDelta
    PROVE  LibraryType' /\ CallType' /\ WorldType'
<1>1. LibraryType'
  BY DEF RouteDelta, LibraryType, dllVars
<1>2. died' \in [Testers -> BOOLEAN]
  <2>1. \A t \in Testers : (died[t] \/ daemon' = "down") \in BOOLEAN
    OBVIOUS
  <2>2. died' = [t \in Testers |-> died[t] \/ daemon' = "down"]
    BY DEF RouteDelta
  <2> QED
    BY <2>1, <2>2, Zenon
<1>3. CallType'
  <2>1. crashed' = (crashed \/ daemon' = "down")
    BY DEF RouteDelta
  <2>2. crashed' \in BOOLEAN
    BY <2>1
  <2> QED
    BY <1>2, <2>2 DEF RouteDelta, CallType, callVars
<1>4. /\ reports' \in Seq(ReportMessage)
      /\ daemon' \in {"up", "down"} /\ iface' \in {"none", "set", "freed"}
  <2>1. HandleLog \/ (\E m : HandleJ2534(m)) \/ Crash
    BY DEF RouteDelta
  <2>2. CASE HandleLog
    <3>1. UNCHANGED reports \/ Send([kind |-> "log", st |-> NULL, json |-> TRUE])
      BY <2>2 DEF HandleLog
    <3>2. reports' \in Seq(ReportMessage)
      BY <3>1, NoteTyped DEF WorldType
    <3> QED
      BY <2>2, <3>2 DEF HandleLog, daemonVars, WorldType
  <2>3. CASE \E m : HandleJ2534(m)
    <3>1. PICK m : HandleJ2534(m)
      BY <2>3
    <3>2. \/ DesiredOpen(m.dev) \/ DesiredClose(m.dev) \/ DesiredConnect(m.dev)
          \/ DesiredDisconnect(m.dev) \/ DesiredSelect(m.dev) \/ DesiredStartMsgFilter(m.dev)
      BY <3>1 DEF HandleJ2534
    <3> QED
      BY <3>2, HandlerTyped
  <2>4. CASE Crash
    BY <2>4 DEF Crash, WorldType
  <2> QED
    BY <2>1, <2>2, <2>3, <2>4
<1>5. UNCHANGED <<reported, logs, faults>>
  BY DEF RouteDelta
<1>6. WorldType'
  BY <1>4, <1>5 DEF WorldType
<1> QED
  BY <1>1, <1>3, <1>6

\* The service hands a report to the subscribers: what arrives in an inbox is
\* an operation.
LEMMA ServeTyped ==
    ASSUME LibraryType, CallType, WorldType, ServeReport
    PROVE  LibraryType' /\ CallType' /\ WorldType'
<1>1. reports \in Seq(ReportMessage) /\ reports # <<>>
  BY DEF ServeReport, WorldType
<1>2. PICK r \in ReportMessage : r = Head(reports)
  BY <1>1
<1>3. r.kind = "j2534" => r.st \in Ops
  BY <1>2 DEF ReportMessage
<1>4. reports' \in Seq(ReportMessage)
  BY <1>1 DEF ServeReport
<1>5. reported' \in States
  BY <1>2, <1>3 DEF ServeReport, WorldType, States
<1>6. inbox' \in PerDevice(Seq(Ops))
  <2>1. CASE UNCHANGED inbox
    BY <2>1 DEF LibraryType
  <2>2. CASE inbox' = [t \in Testers |-> [d \in Devices |->
                      IF r.kind = "j2534" /\ Subscribed(t, d) /\ Len(inbox[t][d]) < MaxQueue
                      THEN Append(inbox[t][d], r.st) ELSE inbox[t][d]]]
    <3>1. \A t \in Testers, d \in Devices : inbox[t][d] \in Seq(Ops)
      BY DEF LibraryType, PerDevice
    <3>2. r.kind = "j2534" => \A t \in Testers, d \in Devices : Append(inbox[t][d], r.st) \in Seq(Ops)
      BY <1>3, <3>1
    <3>3. \A t \in Testers, d \in Devices :
            (IF r.kind = "j2534" /\ Subscribed(t, d) /\ Len(inbox[t][d]) < MaxQueue
             THEN Append(inbox[t][d], r.st) ELSE inbox[t][d]) \in Seq(Ops)
      BY <3>1, <3>2
    <3> QED
      BY <2>2, <3>3, Zenon DEF PerDevice
  <2> QED
    BY <1>2, <2>1, <2>2 DEF ServeReport
<1>7. LibraryType'
  BY <1>6 DEF ServeReport, LibraryType
<1>8. CallType'
  BY DEF ServeReport, CallType, callVars, historyVars
<1>9. WorldType'
  BY <1>4, <1>5 DEF ServeReport, WorldType, daemonVars
<1> QED
  BY <1>7, <1>8, <1>9

\* The faults of the service, a log request, and the daemon's stop and start.
LEMMA ServiceTyped ==
    ASSUME LibraryType, CallType, WorldType,
           \/ LoseDelta \/ LoseReport \/ RequestLog \/ DaemonStop \/ DaemonStart
           \/ \E t \in Testers, d \in Devices : LoseUpdate(t, d)
    PROVE  LibraryType' /\ CallType' /\ WorldType'
<1>1. CASE LoseDelta
  <2>1. faults' \in 0 .. MaxFaults
    BY <1>1, FaultCounted DEF LoseDelta
  <2> QED
    BY <1>1, <2>1 DEF LoseDelta, LibraryType, CallType, WorldType, dllVars, callVars, daemonVars, historyVars
<1>2. CASE LoseReport
  <2>1. faults' \in 0 .. MaxFaults
    BY <1>2, FaultCounted DEF LoseReport
  <2>2. reports' \in Seq(ReportMessage)
    BY <1>2 DEF LoseReport, WorldType
  <2> QED
    BY <1>2, <2>1, <2>2 DEF LoseReport, LibraryType, CallType, WorldType, dllVars, callVars, daemonVars, historyVars
<1>3. CASE RequestLog
  <2>1. logs' \in 0 .. MaxLogs
    BY <1>3, SessionAssumption DEF RequestLog, WorldType
  <2>2. UNCHANGED <<reported, reports>>
    BY <1>3 DEF RequestLog, Desire
  <2>3. UNCHANGED <<dllVars, callVars, daemonVars, historyVars, faults>>
    BY <1>3 DEF RequestLog
  <2> QED
    BY <2>1, <2>2, <2>3 DEF LibraryType, CallType, WorldType, dllVars, callVars, daemonVars, historyVars
<1>4. CASE DaemonStop
  <2>1. faults' \in 0 .. MaxFaults
    BY <1>4, FaultCounted DEF DaemonStop
  <2>2. died' \in [Testers -> BOOLEAN] /\ crashed' \in BOOLEAN
    BY <1>4 DEF DaemonStop
  <2> QED
    BY <1>4, <2>1, <2>2 DEF DaemonStop, LibraryType, CallType, WorldType, dllVars, callVars
<1>5. CASE DaemonStart
  <2>1. reports' \in Seq(ReportMessage)
    BY <1>5, NoteTyped DEF DaemonStart
  <2> QED
    BY <1>5, <2>1 DEF DaemonStart, LibraryType, CallType, WorldType, dllVars, callVars, historyVars
<1>6. CASE \E t \in Testers, d \in Devices : LoseUpdate(t, d)
  <2>1. PICK t \in Testers, d \in Devices : LoseUpdate(t, d)
    BY <1>6
  <2>2. faults' \in 0 .. MaxFaults
    BY <2>1, FaultCounted DEF LoseUpdate
  <2>3. inbox \in PerDevice(Seq(Ops)) /\ inbox[t][d] \in Seq(Ops) /\ inbox[t][d] # <<>>
    BY <2>1, Entry DEF LoseUpdate, LibraryType
  <2>4. Tail(inbox[t][d]) \in Seq(Ops)
    <3>1. \A s \in Seq(Ops) : s # <<>> => Tail(s) \in Seq(Ops)
      OBVIOUS
    <3> QED
      BY <2>3, <3>1
  <2>5. inbox' \in PerDevice(Seq(Ops))
    <3>1. inbox' = [inbox EXCEPT ![t][d] = Tail(inbox[t][d])]
      BY <2>1 DEF LoseUpdate
    <3> QED
      BY <2>3, <2>4, <3>1, EntryUpdate
  <2> QED
    BY <2>1, <2>2, <2>5 DEF LoseUpdate, LibraryType, CallType, WorldType, callVars, serviceVars, daemonVars, historyVars
<1> QED
  BY <1>1, <1>2, <1>3, <1>4, <1>5, <1>6

\* The initial state is typed.
LEMMA SessionTypedInit ==
    ASSUME Init PROVE SessionTyped
<1>1. SessionInv
  BY SessionInit
<1>2. (CHOOSE d \in Devices : TRUE) \in Devices
  BY SessionAssumption
<1>3. LibraryType
  BY DEF Init, LibraryType, PerDevice, Links, States
<1>4. pc \in [Testers -> Points] /\ calls \in [Testers -> 0 .. MaxCalls]
  BY SessionAssumption DEF Init, Points
<1>5. died \in [Testers -> BOOLEAN] /\ crashed \in BOOLEAN
  BY DEF Init
<1>6. result \in [Testers -> ResultRecord]
  <2>1. [op |-> NULL, dev |-> CHOOSE d \in Devices : TRUE, rc |-> NULL, died |-> FALSE,
         canbus |-> "unknown"] \in ResultRecord
    BY <1>2 DEF ResultRecord, States, ReturnCodes
  <2> QED
    BY <2>1 DEF Init
<1>7. WorldType
  BY SessionAssumption DEF Init, WorldType, States
<1> QED
  BY <1>1, <1>3, <1>4, <1>5, <1>6, <1>7 DEF SessionTyped, CallType

\* Every step keeps every variable typed.
LEMMA SessionTypedStep ==
    ASSUME SessionTyped, [Next]_vars PROVE SessionTyped'
<1> USE DEF SessionTyped
<1>1. CASE UNCHANGED vars
  <2>1. SessionInv'
    BY <1>1 DEF vars, callVars, serviceVars, daemonVars, SessionInv, RouteType, OneClientPerDevice
  <2>2. LibraryType' /\ CallType' /\ WorldType'
    BY <1>1 DEF vars, dllVars, callVars, serviceVars, daemonVars, historyVars, LibraryType, CallType, WorldType
  <2> QED
    BY <2>1, <2>2
<1>2. CASE \E t \in Testers : Call(t)
  BY <1>2, CallKeeps, BeginTyped
<1>3. CASE \E t \in Testers : CallStep(t)
  BY <1>3, CallStepKeeps, CallStepCalls, CallStepLibrary, CallStepWorld
<1>4. CASE \E t \in Testers : Restart(t)
  BY <1>4, CallStepKeeps, RestartTyped, CallStepWorld
<1>5. CASE ServeReport
  BY <1>5, ServiceKeeps, ServeTyped
<1>6. CASE \/ LoseDelta \/ LoseReport \/ RequestLog \/ DaemonStop \/ DaemonStart
           \/ \E t \in Testers, d \in Devices : LoseUpdate(t, d)
  BY <1>6, ServiceKeeps, ServiceTyped
<1>7. CASE RouteDelta
  BY <1>7, RouteKeeps, RouteTyped
<1> QED
  BY <1>1, <1>2, <1>3, <1>4, <1>5, <1>6, <1>7 DEF Next

(* Every variable of the library, of the service and of the daemon keeps    *)
(* its type in every behaviour: a client's socket is always one of the four  *)
(* states the handlers leave it in, never a pointer left dangling, and what  *)
(* a waiting call reads is a state that the daemon reported.                *)
THEOREM SessionTypeCorrect == Spec => []TypeOK
<1>1. Init => SessionTyped
  BY SessionTypedInit
<1>2. SessionTyped /\ [Next]_vars => SessionTyped'
  BY SessionTypedStep
<1>3. SessionTyped => TypeOK
  <2> SUFFICES ASSUME SessionTyped PROVE TypeOK
    OBVIOUS
  <2>1. reports \in Seq([kind : {"j2534", "log", "connection"}, st : States, json : BOOLEAN])
    <3>1. ReportMessage \subseteq [kind : {"j2534", "log", "connection"}, st : States, json : BOOLEAN]
      BY DEF ReportMessage
    <3> QED
      BY <3>1, SubsetSeq DEF SessionTyped, WorldType
  <2> QED
    BY <2>1 DEF TypeOK, SessionTyped, SessionInv, RouteType, LibraryType, CallType, WorldType, DeltaMessage,
                ClientRecord, Links, Points, ResultRecord
<1> QED
  BY <1>1, <1>2, <1>3, PTL DEF Spec

-----------------------------------------------------------------------------
(* PassThruDisconnect in an undisturbed session.                            *)
(*                                                                          *)
(* One tester with one device.  Its invariant (DisconnectInv) follows what the *)
(* library has read and what is on its way to it, above all a report of     *)
(* "Disconnect" (Awaited, OnlyOne, LastOne) and a delta that will make the daemon *)
(* close a socket (Following, StillWaits).  First what the daemon does with a *)
(* delta, then what every step does to the few variables the invariant is about *)
(* (SessionEffect), and then that each kind of step keeps it.               *)

\* One process that uses one device, and a library that gives up on an answer
\* only when none is on its way.
Alone(t, d) == Testers = {t} /\ Devices = {d} /\ Patient

\* A sequence without its head, and with one more element.
LEMMA TailAt ==
    ASSUME NEW S, NEW s \in Seq(S), s # <<>>
    PROVE  /\ Tail(s) \in Seq(S) /\ Len(Tail(s)) = Len(s) - 1 /\ Len(s) \in Nat \ {0}
           /\ Head(s) = s[1] /\ s[1] \in S
           /\ \A i \in 1..Len(s) - 1 : Tail(s)[i] = s[i + 1]
  OBVIOUS

\* The same of a sequence that grows by one.
LEMMA AppendAt ==
    ASSUME NEW S, NEW s \in Seq(S), NEW e \in S
    PROVE  /\ Append(s, e) \in Seq(S) /\ Len(Append(s, e)) = Len(s) + 1 /\ Len(s) \in Nat
           /\ Append(s, e)[Len(s) + 1] = e
           /\ \A i \in 1..Len(s) : Append(s, e)[i] = s[i]
  OBVIOUS

(* With one device the vector has one element at most, which get_client     *)
(* finds.                                                                   *)
LEMMA OneElement ==
    ASSUME SessionInv, NEW d, Devices = {d}
    PROVE  \/ clients = <<>> /\ Known(d) = {} /\ CanbusOf(d) = "unknown"
           \/ /\ Len(clients) = 1 /\ Known(d) = {1} /\ Index(d) = 1
              /\ clients[1].dev = d /\ clients[1].canbus \in Canbus
              /\ CanbusOf(d) = clients[1].canbus /\ clients[1] \in ClientRecord
<1>1. clients \in Seq(ClientRecord) /\ Len(clients) \in Nat
  BY DEF SessionInv, RouteType
<1>2. \A i \in 1..Len(clients) : clients[i] \in ClientRecord /\ clients[i].dev = d /\ clients[i].canbus \in Canbus
  <2> SUFFICES ASSUME NEW i \in 1..Len(clients)
               PROVE  clients[i] \in ClientRecord /\ clients[i].dev = d /\ clients[i].canbus \in Canbus
    OBVIOUS
  <2>1. clients[i] \in ClientRecord
    BY <1>1
  <2>2. clients[i].dev \in Devices /\ clients[i].canbus \in Canbus
    BY <2>1 DEF ClientRecord
  <2> QED
    BY <2>1, <2>2
<1>3. Len(clients) <= 1
  <2> SUFFICES ASSUME Len(clients) > 1 PROVE FALSE
    BY <1>1
  <2>1. 1 \in 1..Len(clients) /\ 2 \in 1..Len(clients)
    BY <1>1
  <2> QED
    BY <1>2, <2>1 DEF SessionInv, OneClientPerDevice
<1>4. Known(d) = 1..Len(clients)
  BY <1>2 DEF Known
<1>5. CASE Len(clients) = 0
  <2>1. clients = <<>> /\ Known(d) = {}
    BY <1>1, <1>4, <1>5
  <2> QED
    BY <2>1 DEF CanbusOf
<1>6. CASE Len(clients) = 1
  <2>1. Known(d) = {1}
    BY <1>4, <1>6
  <2>2. Index(d) = 1
    BY <2>1 DEF Index
  <2>3. 1 \in 1..Len(clients)
    BY <1>6
  <2>4. clients[1] \in ClientRecord /\ clients[1].dev = d /\ clients[1].canbus \in Canbus
    BY <1>2, <2>3
  <2>5. CanbusOf(d) = clients[1].canbus
    BY <2>1, <2>2 DEF CanbusOf
  <2> QED
    BY <1>6, <2>1, <2>2, <2>4, <2>5
<1>7. Len(clients) = 0 \/ Len(clients) = 1
  <2>1. \A n \in Nat : n <= 1 => n = 0 \/ n = 1
    OBVIOUS
  <2> QED
    BY <1>1, <1>3, <2>1, Zenon
<1> QED
  BY <1>5, <1>6, <1>7, Zenon

\* What CanbusOf says after a step, of a vector with one element or none.
LEMMA OneNow ==
    ASSUME NEW d, Len(clients') = 1, clients'[1].dev = d
    PROVE  CanbusOf(d)' = clients'[1].canbus
<1>1. (Known(d))' = {1}
  BY DEF Known
<1>2. (Index(d))' = 1
  BY <1>1 DEF Index
<1> QED
  BY <1>1, <1>2 DEF CanbusOf

\* No client is left.
LEMMA NoneNow ==
    ASSUME NEW d, clients' = <<>>
    PROVE  CanbusOf(d)' = "unknown"
<1>1. (Known(d))' = {}
  BY DEF Known
<1> QED
  BY <1>1 DEF CanbusOf

\* The socket of the only element is changed.
LEMMA OneSocket ==
    ASSUME SessionInv, NEW d, Devices = {d}, Known(d) # {}, NEW c \in Canbus,
           clients' = [clients EXCEPT ![Index(d)].canbus = c]
    PROVE  CanbusOf(d)' = c
<1>1. /\ Len(clients) = 1 /\ Index(d) = 1 /\ clients \in Seq(ClientRecord)
      /\ clients[1] \in ClientRecord
  BY OneElement DEF SessionInv, RouteType
<1>2. clients' = [clients EXCEPT ![1].canbus = c]
  BY <1>1
<1>3. Len(clients') = 1 /\ clients'[1].canbus = c /\ clients'[1].dev = d
  BY <1>1, <1>2, OneElement DEF ClientRecord
<1> QED
  BY <1>3, OneNow

IsUpdate(r) == r.kind = "j2534" /\ r.json
Tells(r, s) == IsUpdate(r) /\ r.st = s
Acting == {"connected", "failed"}

(* What handling a delta comes to with one device: what becomes of the     *)
(* socket, and which state is reported.                                    *)
TellsNow(s) == \E r \in ReportMessage : Tells(r, s) /\ reports' = Append(reports, r)
TellsNothing ==
    \/ UNCHANGED reports
    \/ \E r \in ReportMessage : ~IsUpdate(r) /\ reports' = Append(reports, r)

Handled(d, m) ==
    LET before == CanbusOf(d)  after == CanbusOf(d)' IN
    \/ m.log /\ after = before /\ TellsNothing
    \/ m.st = "Open" /\ before = "unknown" /\ after = "unset" /\ TellsNow("Open")
    \/ m.st = "Open" /\ before # "unknown" /\ after = before /\ TellsNow("Open")
    \/ m.st = "Close" /\ before = "unknown" /\ after = before /\ TellsNothing
    \/ m.st = "Close" /\ before # "unknown" /\ after = "unknown" /\ TellsNow("Close")
    \/ m.st = "Connect" /\ before # "unknown" /\ after \in {"connected", before} /\ TellsNow("Connect")
    \/ m.st = "Connect" /\ before # "unknown" /\ after = "failed" /\ TellsNothing
    \/ m.st = "Disconnect" /\ before = "unknown" /\ after = before /\ TellsNow("Open")
    \/ m.st = "Disconnect" /\ before \in Acting /\ after = "null" /\ TellsNow("Disconnect")
    \/ m.st = "Select" /\ after = before /\ TellsNow("Select")
    \/ m.st = "StartMsgFilter" /\ before = "unknown" /\ after = before /\ TellsNow("Select")
    \/ m.st = "StartMsgFilter" /\ before \in Acting /\ after = before /\ TellsNow("StartMsgFilter")

Stopped(d, m) ==
    /\ CanbusOf(d)' = "unknown" /\ deltas' = <<>> /\ daemon' = "down"
    /\ UNCHANGED reports \/ (m.st = "Close" /\ TellsNow("Close"))

\* The reports of the daemon.
LEMMA TellingNow ==
    ASSUME NEW s \in Ops, Send(Report(s)) \/ Send(ErrorReport(s, FALSE))
    PROVE  TellsNow(s)
<1> DEFINE r == [kind |-> "j2534", st |-> s, json |-> TRUE]
<1>1. r \in ReportMessage /\ Tells(r, s)
  BY DEF ReportMessage, Tells, IsUpdate, States
<1>2. reports' = Append(reports, r)
  BY DEF Send, Report, ErrorReport
<1> QED
  BY <1>1, <1>2 DEF TellsNow

\* The log and the document that is not JSON are no updates.
LEMMA TellingNothing ==
    ASSUME Send(ErrorReport("Connect", TRUE)) \/ Send([kind |-> "log", st |-> NULL, json |-> TRUE])
    PROVE  TellsNothing
<1> DEFINE r == [kind |-> "j2534", st |-> "Connect", json |-> FALSE]
           l == [kind |-> "log", st |-> NULL, json |-> TRUE]
<1>1. r \in ReportMessage /\ ~IsUpdate(r) /\ l \in ReportMessage /\ ~IsUpdate(l)
  BY DEF ReportMessage, IsUpdate, States, Ops
<1>2. reports' = Append(reports, r) \/ reports' = Append(reports, l)
  BY DEF Send, ErrorReport
<1> QED
  BY <1>1, <1>2 DEF TellsNothing

\* The daemon dies.
LEMMA CrashStops ==
    ASSUME NEW d, Crash
    PROVE  CanbusOf(d)' = "unknown" /\ daemon' = "down" /\ UNCHANGED reports
BY NoneNow DEF Crash

\* What nobody has changed of the vector stays so.
LEMMA SameSocket ==
    ASSUME NEW d, UNCHANGED clients
    PROVE  CanbusOf(d)' = CanbusOf(d)
<1>1. (Known(d))' = Known(d)
  BY DEF Known
<1>2. (Index(d))' = Index(d)
  BY <1>1 DEF Index
<1> QED
  BY <1>1, <1>2 DEF CanbusOf

\* desired_open, for the only device: the socket is new, or the one there was.
LEMMA OpenHandled ==
    ASSUME SessionInv, NEW d, Devices = {d}, NEW m \in DeltaMessage, m.st = "Open", DesiredOpen(d)
    PROVE  (Handled(d, m) /\ UNCHANGED daemon) \/ Crash
<1> "Open" \in Ops
  BY DEF Ops
<1>1. CASE /\ Known(d) # {} /\ Send(ErrorReport("Open", FALSE)) /\ UNCHANGED daemonVars
  <2>1. CanbusOf(d)' = CanbusOf(d) /\ UNCHANGED daemon
    BY <1>1, SameSocket DEF daemonVars
  <2>2. CanbusOf(d) # "unknown"
    BY <1>1, OneElement DEF Canbus
  <2>3. TellsNow("Open")
    BY <1>1, TellingNow
  <2> QED
    BY <2>1, <2>2, <2>3 DEF Handled
<1>2. CASE /\ Known(d) = {} /\ Send(Report("Open")) /\ UNCHANGED <<daemon, iface>>
           /\ clients' = Append(clients, [dev |-> d, mem |-> "live", canbus |-> "unset"])
  <2>1. clients = <<>> /\ CanbusOf(d) = "unknown"
    BY <1>2, OneElement
  <2>2. clients' = << [dev |-> d, mem |-> "live", canbus |-> "unset"] >>
    BY <1>2, <2>1
  <2>3. Len(clients') = 1 /\ clients'[1].dev = d /\ clients'[1].canbus = "unset"
    BY <2>2
  <2>4. CanbusOf(d)' = "unset"
    BY <2>3, OneNow
  <2>5. TellsNow("Open")
    BY <1>2, TellingNow
  <2> QED
    BY <1>2, <2>1, <2>4, <2>5 DEF Handled
<1> QED
  BY <1>1, <1>2 DEF DesiredOpen

\* desired_close: the client is gone, or there was none.
LEMMA CloseHandled ==
    ASSUME SessionInv, NEW d, Devices = {d}, NEW m \in DeltaMessage, m.st = "Close", DesiredClose(d)
    PROVE  \/ Handled(d, m) /\ UNCHANGED daemon
           \/ Crash
           \/ TellsNow("Close") /\ daemon' = "down" /\ clients' = <<>>
<1> "Close" \in Ops
  BY DEF Ops
<1>1. CASE /\ Known(d) = {} /\ Send(ErrorReport("Connect", TRUE)) /\ UNCHANGED daemonVars
  <2>1. CanbusOf(d)' = CanbusOf(d) /\ UNCHANGED daemon
    BY <1>1, SameSocket DEF daemonVars
  <2>2. CanbusOf(d) = "unknown"
    BY <1>1, OneElement
  <2>3. TellsNothing
    BY <1>1, TellingNothing
  <2> QED
    BY <2>1, <2>2, <2>3 DEF Handled
<1>2. CASE /\ Known(d) # {} /\ Send(Report("Close")) /\ UNCHANGED <<daemon, iface>>
           /\ clients' = DeleteClient(clients, Index(d))
  <2>1. /\ Len(clients) = 1 /\ Index(d) = 1 /\ CanbusOf(d) # "unknown" /\ clients \in Seq(ClientRecord)
    BY <1>2, OneElement DEF Canbus, SessionInv, RouteType
  <2> DEFINE n == 1
  <2>2. n \in 1..Len(clients)
    BY <2>1
  <2> HIDE DEF n
  <2>7. /\ DeleteClient(clients, n) \in Seq(ClientRecord)
        /\ Len(DeleteClient(clients, n)) = Len(clients) - 1
    BY <2>1, <2>2, DeleteClientPrefix
  <2>8. clients' = DeleteClient(clients, n)
    BY <1>2, <2>1 DEF n
  <2>3. clients' \in Seq(ClientRecord) /\ Len(clients') = 0
    BY <2>1, <2>7, <2>8
  <2>4. clients' = <<>>
    BY <2>3
  <2>5. CanbusOf(d)' = "unknown"
    BY <2>4, NoneNow
  <2>6. TellsNow("Close")
    BY <1>2, TellingNow
  <2> QED
    BY <1>2, <2>1, <2>5, <2>6 DEF Handled
<1>3. CASE Send(Report("Close")) /\ daemon' = "down" /\ clients' = <<>>
  BY <1>3, TellingNow
<1> QED
  BY <1>1, <1>2, <1>3 DEF DesiredClose

\* desired_connect: the socket is opened, fails, or stays what it was.
LEMMA ConnectHandled ==
    ASSUME SessionInv, NEW d, Devices = {d}, NEW m \in DeltaMessage, m.st = "Connect", DesiredConnect(d)
    PROVE  (Handled(d, m) /\ UNCHANGED daemon) \/ Crash
<1> "Connect" \in Ops /\ "connected" \in Canbus /\ "failed" \in Canbus
  BY DEF Ops, Canbus
<1>1. Known(d) # {} => CanbusOf(d) # "unknown"
  BY OneElement DEF Canbus
<1>2. CASE /\ Known(d) # {} /\ Send(Report("Connect")) /\ UNCHANGED <<daemon, iface>>
           /\ clients' = [clients EXCEPT ![Index(d)].canbus = "connected"]
  <2>1. CanbusOf(d)' = "connected"
    BY <1>2, OneSocket
  <2>2. TellsNow("Connect")
    BY <1>2, TellingNow
  <2> QED
    BY <1>1, <1>2, <2>1, <2>2 DEF Handled
<1>3. CASE Known(d) # {} /\ Send(ErrorReport("Connect", FALSE)) /\ UNCHANGED daemonVars
  <2>1. CanbusOf(d)' = CanbusOf(d) /\ UNCHANGED daemon
    BY <1>3, SameSocket DEF daemonVars
  <2>2. TellsNow("Connect")
    BY <1>3, TellingNow
  <2> QED
    BY <1>1, <1>3, <2>1, <2>2 DEF Handled
<1>4. CASE /\ Known(d) # {} /\ UNCHANGED <<daemon, iface, reports>>
           /\ clients' = [clients EXCEPT ![Index(d)].canbus = "failed"]
  <2>1. CanbusOf(d)' = "failed"
    BY <1>4, OneSocket
  <2> QED
    BY <1>1, <1>4, <2>1 DEF Handled, TellsNothing
<1> QED
  BY <1>2, <1>3, <1>4 DEF DesiredConnect

\* desired_disconnect closes only a socket that was opened or tried.
LEMMA DisconnectHandled ==
    ASSUME SessionInv, NEW d, Devices = {d}, NEW m \in DeltaMessage, m.st = "Disconnect", DesiredDisconnect(d)
    PROVE  (Handled(d, m) /\ UNCHANGED daemon) \/ Crash
<1> "Disconnect" \in Ops /\ "Open" \in Ops /\ "null" \in Canbus
  BY DEF Ops, Canbus
<1>1. CASE Known(d) = {} /\ Send(ErrorReport("Open", FALSE)) /\ UNCHANGED daemonVars
  <2>1. CanbusOf(d)' = CanbusOf(d) /\ UNCHANGED daemon
    BY <1>1, SameSocket DEF daemonVars
  <2>2. CanbusOf(d) = "unknown"
    BY <1>1, OneElement
  <2>3. TellsNow("Open")
    BY <1>1, TellingNow
  <2> QED
    BY <2>1, <2>2, <2>3 DEF Handled
<1>2. CASE /\ Known(d) # {} /\ clients[Index(d)].canbus \in {"connected", "failed"}
           /\ clients' = [clients EXCEPT ![Index(d)].canbus = "null"]
           /\ Send(Report("Disconnect")) /\ UNCHANGED daemon
  <2>1. CanbusOf(d)' = "null"
    BY <1>2, OneSocket
  <2>2. CanbusOf(d) \in Acting
    BY <1>2, OneElement DEF Acting
  <2>3. TellsNow("Disconnect")
    BY <1>2, TellingNow
  <2> QED
    BY <1>2, <2>1, <2>2, <2>3 DEF Handled
<1> QED
  BY <1>1, <1>2 DEF DesiredDisconnect

\* desired_select and desired_startMsgFilter leave the socket alone.
LEMMA SelectFilterHandled ==
    ASSUME SessionInv, NEW d, Devices = {d}, NEW m \in DeltaMessage,
           \/ m.st = "Select" /\ DesiredSelect(d)
           \/ m.st = "StartMsgFilter" /\ DesiredStartMsgFilter(d)
    PROVE  (Handled(d, m) /\ UNCHANGED daemon) \/ Crash
<1> "Select" \in Ops /\ "StartMsgFilter" \in Ops
  BY DEF Ops
<1>1. UNCHANGED daemonVars => CanbusOf(d)' = CanbusOf(d) /\ UNCHANGED daemon
  BY SameSocket DEF daemonVars
<1>2. CASE m.st = "Select" /\ DesiredSelect(d)
  <2>1. Crash \/ (UNCHANGED daemonVars /\ TellsNow("Select"))
    BY <1>2, TellingNow DEF DesiredSelect
  <2> QED
    BY <1>1, <1>2, <2>1 DEF Handled
<1>3. CASE m.st = "StartMsgFilter" /\ DesiredStartMsgFilter(d)
  <2>1. CASE Known(d) = {} /\ Send(ErrorReport("Select", FALSE)) /\ UNCHANGED daemonVars
    BY <1>1, <1>3, <2>1, OneElement, TellingNow DEF Handled
  <2>2. CASE /\ Known(d) # {} /\ clients[Index(d)].canbus \in {"connected", "failed"}
             /\ Send(Report("StartMsgFilter")) /\ UNCHANGED daemonVars
    <3>1. CanbusOf(d) \in Acting /\ TellsNow("StartMsgFilter")
      BY <2>2, OneElement, TellingNow DEF Acting
    <3> QED
      BY <1>1, <1>3, <2>2, <3>1 DEF Handled
  <2> QED
    BY <1>3, <2>1, <2>2 DEF DesiredStartMsgFilter
<1> QED
  BY <1>2, <1>3

(* One step of the daemon: its first delta is handled, or it dies.          *)
LEMMA RouteEffect ==
    ASSUME SessionInv, NEW d, Devices = {d}, RouteDelta
    PROVE  /\ daemon = "up" /\ deltas # <<>> /\ Head(deltas) \in DeltaMessage
           /\ UNCHANGED <<dllVars, callVars, desired, reported, logs, faults>>
           /\ \/ /\ Handled(d, Head(deltas)) /\ deltas' = Tail(deltas) /\ UNCHANGED daemon
                 /\ Head(deltas).log => CanbusOf(d)' = CanbusOf(d) /\ TellsNothing
              \/ Stopped(d, Head(deltas))
<1> DEFINE m == Head(deltas)
<1>1. daemon = "up" /\ deltas # <<>> /\ UNCHANGED <<dllVars, callVars, desired, reported, logs, faults>>
  BY DEF RouteDelta
<1>2. m \in DeltaMessage
  BY <1>1 DEF SessionInv, RouteType
<1>3. m.dev = d
  BY <1>2 DEF DeltaMessage
<1>4. deltas' = IF daemon' = "down" THEN <<>> ELSE Tail(deltas)
  BY DEF RouteDelta
<1>5. \/ Handled(d, m) /\ UNCHANGED daemon /\ (m.log => CanbusOf(d)' = CanbusOf(d) /\ TellsNothing)
      \/ Crash
      \/ m.st = "Close" /\ TellsNow("Close") /\ daemon' = "down" /\ clients' = <<>>
  <2>1. (m.log /\ HandleLog) \/ (~m.log /\ HandleJ2534(m)) \/ Crash
    BY DEF RouteDelta
  <2>2. CASE m.log /\ HandleLog
    <3>1. CanbusOf(d)' = CanbusOf(d) /\ UNCHANGED daemon
      BY <2>2, SameSocket DEF HandleLog, daemonVars
    <3>2. TellsNothing
      BY <2>2, TellingNothing DEF HandleLog, TellsNothing
    <3> QED
      BY <2>2, <3>1, <3>2 DEF Handled
  <2> HIDE DEF m
  <2>3. CASE ~m.log /\ HandleJ2534(m)
    <3>1. \/ m.st = "Open" /\ DesiredOpen(d)
          \/ m.st = "Close" /\ DesiredClose(d)
          \/ m.st = "Connect" /\ DesiredConnect(d)
          \/ m.st = "Disconnect" /\ DesiredDisconnect(d)
          \/ m.st = "Select" /\ DesiredSelect(d)
          \/ m.st = "StartMsgFilter" /\ DesiredStartMsgFilter(d)
      BY <1>3, <2>3 DEF HandleJ2534
    <3> QED
      BY <1>2, <2>3, <3>1, OpenHandled, CloseHandled, ConnectHandled, DisconnectHandled, SelectFilterHandled
  <2> QED
    BY <2>1, <2>2, <2>3
<1>6. \/ /\ Handled(d, m) /\ deltas' = Tail(deltas) /\ UNCHANGED daemon
         /\ m.log => CanbusOf(d)' = CanbusOf(d) /\ TellsNothing
      \/ Stopped(d, m)
  <2>1. CASE Handled(d, m) /\ UNCHANGED daemon /\ (m.log => CanbusOf(d)' = CanbusOf(d) /\ TellsNothing)
    BY <1>1, <1>4, <2>1
  <2>2. CASE Crash
    <3>1. CanbusOf(d)' = "unknown" /\ daemon' = "down" /\ UNCHANGED reports
      BY <2>2, CrashStops
    <3> QED
      BY <1>4, <3>1 DEF Stopped
  <2>3. CASE m.st = "Close" /\ TellsNow("Close") /\ daemon' = "down" /\ clients' = <<>>
    BY <1>4, <2>3, NoneNow DEF Stopped
  <2> QED
    BY <1>5, <2>1, <2>2, <2>3
<1> QED
  BY <1>1, <1>2, <1>6

-----------------------------------------------------------------------------
(* The kinds of steps.                                                      *)

(* A client that is in use is connected and subscribed, as long as nothing  *)
(* fails; and a call that is on its way is one that opens or closes it.     *)
Attached(t, d) ==
    /\ pc[t] \notin {"idle", "dead"} => client[t][d] = "live"
    /\ client[t][d] = "live" /\ pc[t] \in {"idle", "dead", "publish", "wait", "unsubscribe"}
         => link[t][d] = "both"
    /\ pc[t] \in {"connect", "subscribe"} => op[t] = "Open"
    /\ pc[t] \in {"unsubscribe", "publish2"} => op[t] = "Close"

(* The kinds of steps there are when nothing fails.                         *)
SameWorld(d) ==
    /\ UNCHANGED <<deltas, desired, reports, reported, logging, daemon>>
    /\ CanbusOf(d)' = CanbusOf(d)
SameEntry(t, d) ==
    /\ cstate'[t][d] = cstate[t][d] /\ inbox'[t][d] = inbox[t][d]
    /\ client'[t][d] = client[t][d]
Noted(t, d) ==
    \/ result'[t] = result[t]
    \/ result'[t].rc # "STATUS_NOERROR"
    \/ result'[t].op # "Disconnect"
    \/ /\ pc[t] = "wait" /\ op[t] = "Disconnect" /\ cstate[t][d] = "Disconnect"
       /\ result'[t].canbus = CanbusOf(d)
Desired(t, s) ==
    \/ UNCHANGED <<desired, deltas>>
    \/ /\ desired'.st = s
       /\ deltas' = Offer(deltas, Delta(desired', reported, logging))

Moved(t, d) ==
    /\ SameWorld(d) /\ SameEntry(t, d)
    /\ \/ pc'[t] = pc[t] /\ op'[t] = op[t]
       \/ /\ pc[t] = "idle" /\ pc'[t] \in {"idle", "dead", "publish"}
          /\ pc'[t] = "publish" => op'[t] # "Open"
       \/ pc[t] = "connect" /\ pc'[t] = "subscribe" /\ op'[t] = op[t]
       \/ pc[t] = "subscribe" /\ pc'[t] = "publish" /\ op'[t] = op[t]
       \/ /\ pc[t] = "wait" /\ cstate[t][d] = op[t]
          /\ pc'[t] \in {"idle", "dead", "unsubscribe"} /\ op'[t] = op[t]
       \/ /\ pc[t] = "wait" /\ cstate[t][d] # op[t]
          /\ deltas = <<>> /\ reports = <<>> /\ inbox[t][d] = <<>>
          /\ pc'[t] \in {"idle", "unsubscribe"} /\ op'[t] = op[t]
       \/ pc[t] = "unsubscribe" /\ pc'[t] = "publish2" /\ op'[t] = op[t]
Fresh(t, d) ==
    /\ SameWorld(d) /\ cstate'[t][d] = NULL /\ inbox'[t][d] = <<>>
    /\ pc[t] \in {"idle", "dead"} /\ pc'[t] \in {"idle", "connect"}
Published(t, d) ==
    /\ SameEntry(t, d) /\ UNCHANGED <<reported, reports, logging, daemon>>
    /\ CanbusOf(d)' = CanbusOf(d)
    /\ pc[t] = "publish" /\ pc'[t] = "wait" /\ op'[t] = op[t]
    /\ Desired(t, op[t])
Closed(t, d) ==
    /\ cstate'[t][d] = cstate[t][d] /\ inbox'[t][d] = inbox[t][d] /\ client'[t][d] = "freed"
    /\ UNCHANGED <<reported, reports, logging, daemon>>
    /\ CanbusOf(d)' = CanbusOf(d)
    /\ pc[t] = "publish2" /\ pc'[t] = "idle" /\ op'[t] = op[t]
    /\ Desired(t, "Close")
Received(t, d) ==
    /\ SameWorld(d) /\ client'[t][d] = client[t][d]
    /\ inbox[t][d] # <<>> /\ inbox'[t][d] = Tail(inbox[t][d])
    /\ cstate'[t][d] = Head(inbox[t][d])
    /\ pc'[t] = pc[t] /\ op'[t] = op[t]

\* The count of faults is still 0, so the step was none.
LEMMA NoFault ==
    ASSUME WorldType, faults' = 0
    PROVE  ~Fault
BY DEF WorldType, Fault

\* What is known of the only tester and the only device.
LEMMA OnlyTester ==
    ASSUME NEW CONSTANT t, NEW CONSTANT d, Alone(t, d), SessionTyped
    PROVE  /\ t \in Testers /\ d \in Devices
           /\ \A u \in Testers : u = t
           /\ \A e \in Devices : e = d
           /\ dev[t] = d
           /\ pc[t] \in Points /\ op[t] \in States
           /\ cstate[t][d] \in States /\ inbox[t][d] \in Seq(Ops)
           /\ client[t][d] \in {"none", "live", "freed"} /\ link[t][d] \in Links
<1>1. t \in Testers /\ d \in Devices /\ (\A u \in Testers : u = t) /\ (\A e \in Devices : e = d)
  BY DEF Alone
<1>2. dev[t] = d /\ op[t] \in States /\ pc[t] \in Points
  BY <1>1 DEF SessionTyped, SessionInv, RouteType, CallType
<1>3. /\ cstate[t][d] \in States /\ inbox[t][d] \in Seq(Ops)
      /\ client[t][d] \in {"none", "live", "freed"} /\ link[t][d] \in Links
  BY <1>1, Entry DEF SessionTyped, LibraryType
<1> QED
  BY <1>1, <1>2, <1>3

\* Nothing of the service's or the daemon's is changed.
LEMMA WorldSame ==
    ASSUME NEW d, UNCHANGED <<serviceVars, daemonVars>>
    PROVE  SameWorld(d) /\ UNCHANGED logs
<1>1. UNCHANGED clients /\ UNCHANGED <<deltas, desired, reports, reported, logging, daemon, logs>>
  BY DEF serviceVars, daemonVars
<1> QED
  BY <1>1, SameSocket DEF SameWorld

\* A call begins: it returns at once, goes on with the client it found, or opens a new one.
LEMMA CallEffect ==
    ASSUME NEW CONSTANT t, NEW CONSTANT d, Alone(t, d), SessionTyped, Attached(t, d), Call(t), faults' = 0
    PROVE  (Moved(t, d) \/ Fresh(t, d)) /\ Noted(t, d) /\ Attached(t, d)'
<1>1. /\ t \in Testers /\ d \in Devices /\ pc[t] \in Points
  BY OnlyTester
<1>2. \/ OpenCall(t, d) \/ CloseCall(t, d) \/ ConnectCall(t, d)
      \/ DisconnectCall(t, d) \/ SelectCall(t, d) \/ StartMsgFilterCall(t, d)
  BY OnlyTester DEF Call
<1>3. SameWorld(d)
  <2>1. UNCHANGED <<serviceVars, daemonVars>>
    BY <1>2 DEF OpenCall, CloseCall, ConnectCall, DisconnectCall, SelectCall, StartMsgFilterCall
  <2> QED
    BY <2>1, WorldSame
<1>4. PICK o \in Ops : /\ Begins(t, o, d)
                       /\ \/ OpenCall(t, d) /\ o = "Open"
                          \/ ~OpenCall(t, d) /\ o # "Open"
                       /\ \/ \E rc \in ReturnCodes \ {"STATUS_NOERROR"} : ReturnsAtOnce(t, o, d, rc)
                          \/ o # "Open" /\ (Dies(t) \/ (client[t][d] = "live" /\ GoesOn(t, "publish")))
                          \/ o = "Open" /\ GoesOn(t, "connect")
  <2>2. {"ERR_DEVICE_IN_USE", "ERR_DEVICE_NOT_OPEN", "ERR_INVALID_DEVICE_ID", "ERR_INVALID_CHANNEL_ID",
         "ERR_EXCEEDED_LIMIT", "ERR_ARGUMENT"} \subseteq ReturnCodes \ {"STATUS_NOERROR"}
    BY DEF ReturnCodes
  <2>3. ASSUME NEW o, Begins(t, o, d) PROVE op'[t] = o
    BY <1>1, <2>3 DEF Begins, SessionTyped, SessionInv, RouteType
  <2>4. CASE OpenCall(t, d)
    BY <2>2, <2>4 DEF OpenCall, Ops
  <2>5. CASE ~OpenCall(t, d)
    BY <1>2, <2>2, <2>5 DEF CloseCall, ConnectCall, DisconnectCall, SelectCall, StartMsgFilterCall,
                            Refuses, Ops, FindsChannel
  <2> QED
    BY <2>4, <2>5
<1>5. pc[t] = "idle" /\ op'[t] = o
  BY <1>1, <1>4 DEF Begins, SessionTyped, SessionInv, RouteType
<1>6. \/ pc'[t] = "idle" /\ result'[t].rc # "STATUS_NOERROR"
      \/ o # "Open" /\ pc'[t] = "dead" /\ result'[t] = result[t]
      \/ o # "Open" /\ client[t][d] = "live" /\ pc'[t] = "publish" /\ result'[t] = result[t]
      \/ o = "Open" /\ GoesOn(t, "connect") /\ pc'[t] = "connect" /\ result'[t] = result[t]
  <2>1. CASE \E rc \in ReturnCodes \ {"STATUS_NOERROR"} : ReturnsAtOnce(t, o, d, rc)
    BY <1>1, <1>5, <2>1 DEF ReturnsAtOnce, SessionTyped, CallType
  <2>2. CASE o # "Open" /\ (Dies(t) \/ (client[t][d] = "live" /\ GoesOn(t, "publish")))
    BY <1>1, <2>2 DEF Dies, GoesOn, SessionTyped, CallType
  <2>3. CASE o = "Open" /\ GoesOn(t, "connect")
    BY <1>1, <2>3 DEF GoesOn, SessionTyped, CallType
  <2> QED
    BY <1>4, <2>1, <2>2, <2>3
<1>7. Noted(t, d)
  BY <1>6 DEF Noted
<1>8. CASE UNCHANGED <<client, cstate, inbox, link>> /\ ~GoesOn(t, "connect")
  <2>1. SameEntry(t, d)
    BY <1>8 DEF SameEntry
  <2>2. Moved(t, d)
    BY <1>3, <1>5, <1>6, <1>8, <2>1 DEF Moved
  <2>3. Attached(t, d)'
    BY <1>5, <1>6, <1>8 DEF Attached
  <2> QED
    BY <1>7, <2>2, <2>3
<1>9. CASE /\ client' = [client EXCEPT ![t][d] = "live"]
           /\ cstate' = [cstate EXCEPT ![t][d] = NULL]
           /\ inbox'  = [inbox EXCEPT ![t][d] = <<>>]
           /\ o = "Open" /\ GoesOn(t, "connect")
  <2>1. client'[t][d] = "live" /\ cstate'[t][d] = NULL /\ inbox'[t][d] = <<>>
    BY <1>1, <1>9 DEF SessionTyped, LibraryType, PerDevice
  <2>2. pc'[t] = "connect"
    BY <1>1, <1>9 DEF GoesOn, SessionTyped, CallType
  <2>3. Fresh(t, d)
    BY <1>3, <1>5, <2>1, <2>2 DEF Fresh
  <2>4. Attached(t, d)'
    BY <1>5, <1>9, <2>1, <2>2 DEF Attached
  <2> QED
    BY <1>7, <2>3, <2>4
<1>10. \/ UNCHANGED <<client, cstate, inbox, link>> /\ ~GoesOn(t, "connect")
       \/ /\ client' = [client EXCEPT ![t][d] = "live"]
          /\ cstate' = [cstate EXCEPT ![t][d] = NULL]
          /\ inbox'  = [inbox EXCEPT ![t][d] = <<>>]
          /\ o = "Open" /\ GoesOn(t, "connect")
  <2>1. CASE OpenCall(t, d)
    <3>1. o = "Open"
      BY <1>4, <2>1
    <3>2. CASE ReturnsAtOnce(t, "Open", d, "ERR_DEVICE_IN_USE") /\ UNCHANGED <<client, cstate, chan, filter, link, inbox>>
      <4>1. ~GoesOn(t, "connect")
        BY <1>1, <1>5, <3>2 DEF ReturnsAtOnce, GoesOn, SessionTyped, CallType
      <4> QED
        BY <3>2, <4>1
    <3> QED
      BY <2>1, <3>1, <3>2 DEF OpenCall
  <2>2. CASE ~OpenCall(t, d)
    <3>1. UNCHANGED <<client, cstate, inbox, link>>
      BY <1>2, <2>2 DEF CloseCall, ConnectCall, DisconnectCall, SelectCall, StartMsgFilterCall, dllVars
    <3>2. o # "Open"
      BY <1>4, <2>2
    <3>3. ~GoesOn(t, "connect")
      <4>1. pc'[t] # "connect"
        BY <1>6, <3>2
      <4> QED
        BY <1>1, <4>1 DEF GoesOn, SessionTyped, CallType
    <3> QED
      BY <3>1, <3>3
  <2> QED
    BY <2>1, <2>2
<1> QED
  BY <1>8, <1>9, <1>10

\* A call that goes on, returns, is answered, or dies, of the only tester.
LEMMA Continues ==
    ASSUME NEW CONSTANT t, NEW CONSTANT d, Alone(t, d), SessionTyped
    PROVE  /\ \A p : GoesOn(t, p) => pc'[t] = p /\ result' = result
           /\ Dies(t) => pc'[t] = "dead" /\ result' = result
           /\ \A rc : Return(t, rc) => /\ pc'[t] = "idle" /\ UNCHANGED <<op, dev, calls>>
                                       /\ result'[t].rc = rc /\ result'[t].op = op[t]
                                       /\ result'[t].canbus = CanbusOf(d)
<1>1. t \in Testers /\ dev[t] = d
  BY OnlyTester
<1> QED
  BY <1>1 DEF GoesOn, Dies, Return, SessionTyped, CallType

\* PassThruOpen connects and subscribes.
LEMMA OpeningEffect ==
    ASSUME NEW CONSTANT t, NEW CONSTANT d, Alone(t, d), SessionTyped, Attached(t, d), faults' = 0,
           OpenConnect(t) \/ OpenSubscribe(t)
    PROVE  Moved(t, d) /\ Noted(t, d) /\ Attached(t, d)'
<1>1. /\ t \in Testers /\ d \in Devices /\ dev[t] = d /\ pc[t] \in Points /\ link \in PerDevice(Links)
  BY OnlyTester DEF SessionTyped, LibraryType
<1>2. ~Fault
  BY NoFault DEF SessionTyped
<1>3. SameWorld(d)
  BY WorldSame DEF OpenConnect, OpenSubscribe
<1>4. UNCHANGED <<client, cstate, inbox>> /\ UNCHANGED <<op, dev, calls>>
  BY <1>2 DEF OpenConnect, OpenSubscribe
<1>5. SameEntry(t, d)
  BY <1>4 DEF SameEntry
<1>6. \/ pc[t] = "connect" /\ GoesOn(t, "subscribe")
      \/ pc[t] = "subscribe" /\ GoesOn(t, "publish") /\ link' = [link EXCEPT ![t][dev[t]] = "both"]
  BY <1>2 DEF OpenConnect, OpenSubscribe
<1>7. \/ pc[t] = "connect" /\ pc'[t] = "subscribe" /\ result' = result
      \/ pc[t] = "subscribe" /\ pc'[t] = "publish" /\ link'[t][d] = "both" /\ result' = result
  <2>1. link' = [link EXCEPT ![t][dev[t]] = "both"] => link'[t][d] = "both"
    BY <1>1 DEF PerDevice
  <2> QED
    BY <1>6, <2>1, Continues
<1>8. Moved(t, d) /\ Noted(t, d)
  BY <1>3, <1>4, <1>5, <1>7 DEF Moved, Noted
<1>9. Attached(t, d)'
  BY <1>4, <1>7 DEF Attached
<1> QED
  BY <1>8, <1>9

\* What an update of the desired state, or none, comes to.
LEMMA DesireEffect ==
    ASSUME NEW e, NEW s,
           \/ Desire([dev |-> e, st |-> s], logging) /\ UNCHANGED logs
           \/ UNCHANGED serviceVars
    PROVE  \A t : Desired(t, s) /\ UNCHANGED <<reported, reports, logging, logs>>
<1>1. CASE Desire([dev |-> e, st |-> s], logging) /\ UNCHANGED logs
  <2>1. desired'.st = s /\ deltas' = Offer(deltas, Delta(desired', reported, logging))
    BY <1>1 DEF Desire
  <2> QED
    BY <1>1, <2>1 DEF Desire, Desired
<1>2. CASE UNCHANGED serviceVars
  BY <1>2 DEF serviceVars, Desired
<1> QED
  BY <1>1, <1>2

\* j2534_publish_state: what is desired is published, and the wait begins.
LEMMA PublishEffect ==
    ASSUME NEW CONSTANT t, NEW CONSTANT d, Alone(t, d), SessionTyped, Attached(t, d), faults' = 0,
           Publish(t)
    PROVE  Published(t, d) /\ Noted(t, d) /\ Attached(t, d)'
<1>1. /\ t \in Testers /\ d \in Devices /\ dev[t] = d
  BY OnlyTester
<1>2. ~Fault
  BY NoFault DEF SessionTyped
<1>3. pc[t] = "publish" /\ UNCHANGED <<dllVars, daemonVars>>
  BY DEF Publish
<1>4. Online(t)
  BY <1>1, <1>3 DEF Attached, Online
<1>5. /\ GoesOn(t, "wait") /\ UNCHANGED <<op, dev, calls>>
      /\ \/ Desire([dev |-> dev[t], st |-> op[t]], logging) /\ UNCHANGED logs
         \/ UNCHANGED serviceVars
  BY <1>2, <1>4 DEF Publish
<1>6. Desired(t, op[t]) /\ UNCHANGED <<reported, reports, logging, logs>>
  BY <1>5, DesireEffect
<1>7. UNCHANGED clients /\ UNCHANGED daemon /\ UNCHANGED <<client, cstate, inbox, link>>
  BY <1>3 DEF daemonVars, dllVars
<1>8. CanbusOf(d)' = CanbusOf(d)
  BY <1>7, SameSocket
<1>9. pc'[t] = "wait" /\ result' = result /\ UNCHANGED op
  BY <1>5, Continues
<1>10. Published(t, d) /\ Noted(t, d)
  BY <1>3, <1>6, <1>7, <1>8, <1>9 DEF Published, Noted, SameEntry
<1>11. Attached(t, d)'
  BY <1>3, <1>7, <1>9 DEF Attached
<1> QED
  BY <1>10, <1>11

\* j2534_onmessage reads the first update.
LEMMA ReceiveEffect ==
    ASSUME NEW CONSTANT t, NEW CONSTANT d, Alone(t, d), SessionTyped, Attached(t, d), faults' = 0,
           Receive(t)
    PROVE  Received(t, d) /\ Noted(t, d) /\ Attached(t, d)'
<1>1. /\ t \in Testers /\ d \in Devices /\ dev[t] = d /\ inbox \in PerDevice(Seq(Ops)) /\ cstate \in PerDevice(States)
  BY OnlyTester DEF SessionTyped, LibraryType
<1>2. /\ inbox' = [inbox EXCEPT ![t][d] = Tail(inbox[t][d])] /\ inbox[t][d] # <<>>
      /\ cstate' = [cstate EXCEPT ![t][d] = Head(inbox[t][d])]
      /\ UNCHANGED <<client, link, callVars, serviceVars, daemonVars>>
  BY <1>1 DEF Receive
<1>3. inbox'[t][d] = Tail(inbox[t][d]) /\ cstate'[t][d] = Head(inbox[t][d])
  BY <1>1, <1>2 DEF PerDevice
<1>4. SameWorld(d)
  BY <1>2, WorldSame
<1>5. UNCHANGED <<pc, op, result, client, link>>
  BY <1>2 DEF callVars
<1>6. Received(t, d) /\ Noted(t, d)
  BY <1>2, <1>3, <1>4, <1>5 DEF Received, Noted
<1>7. Attached(t, d)'
  BY <1>5 DEF Attached
<1> QED
  BY <1>6, <1>7

\* The wait ends, with the state that was awaited or with nothing left to wait for.
LEMMA AnswerEffect ==
    ASSUME NEW CONSTANT t, NEW CONSTANT d, Alone(t, d), SessionTyped, Attached(t, d), faults' = 0,
           Acked(t) \/ Timeout(t)
    PROVE  Moved(t, d) /\ Noted(t, d) /\ Attached(t, d)'
<1>1. /\ t \in Testers /\ d \in Devices /\ dev[t] = d
  BY OnlyTester
<1>2. ~Fault
  BY NoFault DEF SessionTyped
<1>3. pc[t] = "wait" /\ UNCHANGED <<dllVars, serviceVars, daemonVars>>
  BY DEF Acked, Timeout
<1>4. SameWorld(d)
  BY <1>3, WorldSame
<1>5. UNCHANGED <<client, cstate, inbox, link>>
  BY <1>3 DEF dllVars
<1>6. SameEntry(t, d)
  BY <1>5 DEF SameEntry
<1>7. ASSUME NEW rc, Answered(t, rc)
      PROVE  /\ UNCHANGED op
             /\ \/ op[t] = "Close" /\ pc'[t] = "unsubscribe" /\ result' = result
                \/ op[t] # "Close" /\ pc'[t] = "idle" /\ result'[t].rc = rc /\ result'[t].op = op[t]
                   /\ result'[t].canbus = CanbusOf(d)
  BY <1>7, Continues DEF Answered
<1>8. CASE Acked(t)
  <2>1. cstate[t][d] = op[t]
    BY <1>1, <1>8 DEF Acked
  <2>2. \/ \E rc \in Answers(t) : Answered(t, rc)
        \/ op[t] = "Select" /\ Dies(t) /\ UNCHANGED <<op, dev, calls>>
    BY <1>8 DEF Acked
  <2>3. /\ UNCHANGED op
        /\ \/ op[t] = "Close" /\ pc'[t] = "unsubscribe" /\ result' = result
           \/ pc'[t] = "idle" /\ result'[t].op = op[t] /\ result'[t].canbus = CanbusOf(d)
           \/ pc'[t] = "dead" /\ result' = result
    BY <1>7, <2>2, Continues
  <2>4. Noted(t, d)
    BY <1>3, <2>1, <2>3 DEF Noted
  <2>5. Moved(t, d)
    BY <1>3, <1>4, <1>6, <2>1, <2>3 DEF Moved
  <2>6. Attached(t, d)'
    BY <1>3, <1>5, <2>3 DEF Attached
  <2> QED
    BY <2>4, <2>5, <2>6
<1>9. CASE Timeout(t)
  <2>1. cstate[t][d] # op[t] /\ deltas = <<>> /\ reports = <<>> /\ inbox[t][d] = <<>>
    BY <1>1, <1>2, <1>9 DEF Timeout, Silent, Alone
  <2>2. /\ UNCHANGED op
        /\ \/ op[t] = "Close" /\ pc'[t] = "unsubscribe" /\ result' = result
           \/ pc'[t] = "idle" /\ result'[t].rc = "ERR_DEVICE_NOT_CONNECTED"
    BY <1>7, <1>9 DEF Timeout
  <2>3. Noted(t, d)
    BY <2>2 DEF Noted
  <2>4. Moved(t, d)
    BY <1>3, <1>4, <1>6, <2>1, <2>2 DEF Moved
  <2>5. Attached(t, d)'
    BY <1>3, <1>5, <2>2 DEF Attached
  <2> QED
    BY <2>3, <2>4, <2>5
<1> QED
  BY <1>8, <1>9

\* PassThruClose unsubscribes, publishes once more and frees the client.
LEMMA CloseEffect ==
    ASSUME NEW CONSTANT t, NEW CONSTANT d, Alone(t, d), SessionTyped, Attached(t, d), faults' = 0,
           Unsubscribe(t) \/ PublishClose(t)
    PROVE  (Moved(t, d) \/ Closed(t, d)) /\ Noted(t, d) /\ Attached(t, d)'
<1>1. /\ t \in Testers /\ d \in Devices /\ dev[t] = d /\ client \in PerDevice({"none", "live", "freed"})
  BY OnlyTester DEF SessionTyped, LibraryType
<1>2. ~Fault
  BY NoFault DEF SessionTyped
<1>3. CASE Unsubscribe(t)
  <2>1. pc[t] = "unsubscribe" /\ UNCHANGED <<client, cstate, inbox, serviceVars, daemonVars>>
    BY <1>3 DEF Unsubscribe
  <2>2. link[t][d] = "both"
    BY <2>1 DEF Attached
  <2>3. GoesOn(t, "publish2") /\ UNCHANGED <<op, dev, calls>>
    BY <1>1, <1>2, <1>3, <2>2 DEF Unsubscribe
  <2>4. pc'[t] = "publish2" /\ result' = result /\ UNCHANGED op
    BY <2>3, Continues
  <2>5. SameWorld(d)
    BY <2>1, WorldSame
  <2>6. Moved(t, d) /\ Noted(t, d)
    BY <2>1, <2>4, <2>5 DEF Moved, Noted, SameEntry
  <2>7. Attached(t, d)'
    BY <2>1, <2>4 DEF Attached
  <2> QED
    BY <2>6, <2>7
<1>4. CASE PublishClose(t)
  <2>1. /\ pc[t] = "publish2" /\ UNCHANGED <<cstate, inbox, link, daemonVars>>
        /\ client' = [client EXCEPT ![t][d] = "freed"]
    BY <1>1, <1>4 DEF PublishClose
  <2>2. client'[t][d] = "freed"
    BY <1>1, <2>1 DEF PerDevice
  <2>3. /\ \/ Desire([dev |-> d, st |-> "Close"], logging) /\ UNCHANGED logs
           \/ UNCHANGED serviceVars
        /\ \E rc \in {"STATUS_NOERROR", "ERR_DEVICE_NOT_CONNECTED"} : Return(t, rc)
    BY <1>1, <1>2, <1>4 DEF PublishClose
  <2>4. Desired(t, "Close") /\ UNCHANGED <<reported, reports, logging, logs>>
    BY <2>3, DesireEffect
  <2>5. pc'[t] = "idle" /\ UNCHANGED op /\ result'[t].op = op[t]
    BY <2>3, Continues
  <2>6. op[t] = "Close"
    BY <2>1 DEF Attached
  <2>7. UNCHANGED clients /\ UNCHANGED daemon
    BY <2>1 DEF daemonVars
  <2>8. CanbusOf(d)' = CanbusOf(d)
    BY <2>7, SameSocket
  <2>9. Closed(t, d)
    BY <2>1, <2>2, <2>4, <2>5, <2>7, <2>8 DEF Closed
  <2>10. Noted(t, d)
    BY <2>5, <2>6 DEF Noted
  <2>11. Attached(t, d)'
    BY <2>2, <2>5 DEF Attached
  <2> QED
    BY <2>9, <2>10, <2>11
<1> QED
  BY <1>3, <1>4

\* A tester's process that died starts again with an empty library.
LEMMA RestartEffect ==
    ASSUME NEW CONSTANT t, NEW CONSTANT d, Alone(t, d), SessionTyped, Attached(t, d), faults' = 0,
           Restart(t)
    PROVE  Fresh(t, d) /\ Noted(t, d) /\ Attached(t, d)'
<1>1. /\ t \in Testers /\ d \in Devices /\ dev[t] = d
  BY OnlyTester
<1>2. ~Fault
  BY NoFault DEF SessionTyped
<1>3. /\ pc[t] = "dead" /\ pc' = [pc EXCEPT ![t] = "idle"] /\ UNCHANGED <<op, result, serviceVars, daemonVars>>
      /\ client' = [client EXCEPT ![t] = [e \in Devices |-> "none"]]
      /\ cstate' = [cstate EXCEPT ![t] = [e \in Devices |-> NULL]]
      /\ inbox'  = [inbox EXCEPT ![t] = [e \in Devices |-> <<>>]]
  BY <1>2 DEF Restart
<1>4. pc'[t] = "idle" /\ client'[t][d] = "none" /\ cstate'[t][d] = NULL /\ inbox'[t][d] = <<>>
  BY <1>1, <1>3 DEF SessionTyped, LibraryType, CallType, PerDevice
<1>5. SameWorld(d)
  BY <1>3, WorldSame
<1>6. Fresh(t, d) /\ Noted(t, d)
  BY <1>3, <1>4, <1>5 DEF Fresh, Noted
<1>7. Attached(t, d)'
  BY <1>4 DEF Attached
<1> QED
  BY <1>6, <1>7

Served(t, d) ==
    LET r == Head(reports) IN
    /\ cstate'[t][d] = cstate[t][d] /\ client'[t][d] = client[t][d]
    /\ pc'[t] = pc[t] /\ op'[t] = op[t]
    /\ CanbusOf(d)' = CanbusOf(d) /\ UNCHANGED <<desired, daemon>>
    /\ reports # <<>> /\ reports' = Tail(reports)
    /\ ~logging => ~logging'
    /\ deltas' \in {deltas, Offer(deltas, Delta(desired, reported', logging'))}
    /\ \/ ~IsUpdate(r) /\ reported' = reported /\ inbox'[t][d] = inbox[t][d]
       \/ /\ IsUpdate(r) /\ reported' = r.st
          /\ inbox'[t][d] \in {inbox[t][d], Append(inbox[t][d], r.st)}
          /\ Subscribed(t, d) => inbox'[t][d] # <<>>
Routed(t, d) ==
    /\ SameEntry(t, d) /\ pc'[t] = pc[t] /\ op'[t] = op[t]
    /\ UNCHANGED <<desired, reported>> /\ (~logging => ~logging')
    /\ daemon = "up" /\ deltas # <<>>
    /\ \/ /\ Handled(d, Head(deltas)) /\ deltas' = Tail(deltas) /\ UNCHANGED daemon
          /\ Head(deltas).log => CanbusOf(d)' = CanbusOf(d) /\ TellsNothing
       \/ Stopped(d, Head(deltas))
Started(t, d) ==
    /\ SameEntry(t, d) /\ pc'[t] = pc[t] /\ op'[t] = op[t]
    /\ CanbusOf(d)' = CanbusOf(d) /\ UNCHANGED <<deltas, desired, reported, logging>>
    /\ daemon = "down" /\ daemon' = "up"
    /\ \E r \in ReportMessage : ~IsUpdate(r) /\ reports' = Append(reports, r)

\* The service takes a report, tells the subscriber, and may send another delta.
LEMMA ServeEffect ==
    ASSUME NEW CONSTANT t, NEW CONSTANT d, Alone(t, d), SessionTyped, Attached(t, d), ServeReport
    PROVE  Served(t, d) /\ Noted(t, d) /\ Attached(t, d)'
<1> DEFINE r == Head(reports)
<1>1. /\ t \in Testers /\ d \in Devices
  BY OnlyTester
<1>2. /\ UNCHANGED <<client, cstate, link, callVars, desired, daemonVars>>
      /\ reports # <<>> /\ reports' = Tail(reports)
  BY DEF ServeReport
<1>3. r \in ReportMessage
  BY <1>2 DEF SessionTyped, WorldType
<1>4. UNCHANGED clients /\ UNCHANGED daemon /\ UNCHANGED <<pc, op, result>>
  BY <1>2 DEF daemonVars, callVars
<1>5. CanbusOf(d)' = CanbusOf(d)
  BY <1>4, SameSocket
<1>6. Noted(t, d)
  BY <1>4 DEF Noted
<1>7. Attached(t, d)'
  BY <1>2, <1>4 DEF Attached
<1>8. ~logging => ~logging'
  BY DEF ServeReport
<1>9. deltas' \in {deltas, Offer(deltas, Delta(desired, reported', logging'))}
  BY DEF ServeReport
<1>10. CASE ~r.json
  <2>1. ~IsUpdate(r)
    BY <1>10 DEF IsUpdate
  <2>2. reported' = reported /\ inbox' = inbox
    BY <1>10 DEF ServeReport
  <2>3. Served(t, d)
    BY <1>2, <1>4, <1>5, <1>8, <1>9, <2>1, <2>2 DEF Served
  <2> QED
    BY <1>6, <1>7, <2>3
<1>11. CASE r.json
  <2>1. /\ reported' = IF r.kind = "j2534" THEN r.st ELSE reported
        /\ inbox' = [u \in Testers |-> [e \in Devices |->
                      IF r.kind = "j2534" /\ Subscribed(u, e) /\ Len(inbox[u][e]) < MaxQueue
                      THEN Append(inbox[u][e], r.st) ELSE inbox[u][e]]]
    BY <1>11 DEF ServeReport
  <2>2. inbox'[t][d] = IF r.kind = "j2534" /\ Subscribed(t, d) /\ Len(inbox[t][d]) < MaxQueue
                       THEN Append(inbox[t][d], r.st) ELSE inbox[t][d]
    BY <1>1, <2>1
  <2>3. CASE ~IsUpdate(r)
    <3>1. r.kind # "j2534"
      BY <1>11, <2>3 DEF IsUpdate
    <3>2. reported' = reported /\ inbox'[t][d] = inbox[t][d]
      BY <2>1, <2>2, <3>1
    <3>3. Served(t, d)
      BY <1>2, <1>4, <1>5, <1>8, <1>9, <2>3, <3>2 DEF Served
    <3> QED
      BY <1>6, <1>7, <3>3
  <2>4. CASE IsUpdate(r)
    <3>1. reported' = r.st
      BY <2>1, <2>4 DEF IsUpdate
    <3>2. inbox'[t][d] \in {inbox[t][d], Append(inbox[t][d], r.st)}
      BY <2>2
    <3>3. Subscribed(t, d) => inbox'[t][d] # <<>>
      <4> SUFFICES ASSUME Subscribed(t, d) PROVE inbox'[t][d] # <<>>
        OBVIOUS
      <4>1. inbox[t][d] \in Seq(Ops) /\ r.st \in Ops /\ r.kind = "j2534"
        BY <1>3, <2>4, OnlyTester DEF IsUpdate, ReportMessage
      <4>2. CASE Len(inbox[t][d]) < MaxQueue
        <5>1. inbox'[t][d] = Append(inbox[t][d], r.st)
          BY <2>2, <4>1, <4>2
        <5> QED
          BY <4>1, <5>1
      <4>3. CASE ~(Len(inbox[t][d]) < MaxQueue)
        <5>1. inbox'[t][d] = inbox[t][d] /\ inbox[t][d] # <<>>
          BY <2>2, <4>3, SessionAssumption
        <5> QED
          BY <5>1
      <4> QED
        BY <4>2, <4>3
    <3>4. Served(t, d)
      BY <1>2, <1>4, <1>5, <1>8, <1>9, <2>4, <3>1, <3>2, <3>3 DEF Served
    <3> QED
      BY <1>6, <1>7, <3>4
  <2> QED
    BY <2>3, <2>4
<1>12. r.json \in BOOLEAN
  BY <1>3 DEF ReportMessage
<1> QED
  BY <1>10, <1>11, <1>12

\* The daemon handles a delta, or is started.
LEMMA DaemonEffect ==
    ASSUME NEW CONSTANT t, NEW CONSTANT d, Alone(t, d), SessionTyped, Attached(t, d),
           RouteDelta \/ DaemonStart
    PROVE  (Routed(t, d) \/ Started(t, d)) /\ Noted(t, d) /\ Attached(t, d)'
<1>1. UNCHANGED <<dllVars, callVars, desired, reported, logging>>
  BY DEF RouteDelta, DaemonStart
<1>2. UNCHANGED <<client, cstate, inbox, link, pc, op, result>>
  BY <1>1 DEF dllVars, callVars
<1>3. Noted(t, d) /\ Attached(t, d)' /\ SameEntry(t, d)
  BY <1>2 DEF Noted, Attached, SameEntry
<1>4. CASE RouteDelta
  <2>1. Devices = {d}
    BY DEF Alone
  <2>2. SessionInv
    BY DEF SessionTyped
  <2>3. /\ daemon = "up" /\ deltas # <<>>
        /\ \/ /\ Handled(d, Head(deltas)) /\ deltas' = Tail(deltas) /\ UNCHANGED daemon
              /\ Head(deltas).log => CanbusOf(d)' = CanbusOf(d) /\ TellsNothing
           \/ Stopped(d, Head(deltas))
    BY <1>4, <2>1, <2>2, RouteEffect
  <2>4. Routed(t, d)
    BY <1>1, <1>2, <1>3, <2>3 DEF Routed
  <2> QED
    BY <1>3, <2>4
<1>5. CASE DaemonStart
  <2>1. UNCHANGED clients /\ UNCHANGED deltas /\ daemon = "down" /\ daemon' = "up"
    BY <1>5 DEF DaemonStart
  <2>2. CanbusOf(d)' = CanbusOf(d)
    BY <2>1, SameSocket
  <2> DEFINE r == [kind |-> "connection", st |-> NULL, json |-> TRUE]
  <2>3. r \in ReportMessage /\ ~IsUpdate(r)
    BY DEF ReportMessage, IsUpdate, States
  <2>4. reports' = Append(reports, r)
    BY <1>5 DEF DaemonStart, Send
  <2> HIDE DEF r
  <2>5. Started(t, d)
    BY <1>1, <1>2, <1>3, <2>1, <2>2, <2>3, <2>4 DEF Started
  <2> QED
    BY <1>3, <2>5
<1> QED
  BY <1>4, <1>5

(* A request for a log.                                                    *)
Asked(t, d) ==
    /\ SameEntry(t, d) /\ pc'[t] = pc[t] /\ op'[t] = op[t]
    /\ CanbusOf(d)' = CanbusOf(d) /\ UNCHANGED <<desired, reported, reports, daemon>>
    /\ deltas' = Offer(deltas, Delta(desired, reported, TRUE))

(* Every step, as long as nothing fails.                                   *)
LEMMA SessionEffect ==
    ASSUME NEW CONSTANT t, NEW CONSTANT d, Alone(t, d), SessionTyped, Attached(t, d), [Next]_vars,
           faults' = 0
    PROVE  /\ \/ Moved(t, d) \/ Fresh(t, d) \/ Published(t, d) \/ Closed(t, d) \/ Received(t, d)
              \/ Served(t, d) \/ Routed(t, d) \/ Started(t, d) \/ (RequestLog /\ Asked(t, d))
           /\ Noted(t, d) /\ Attached(t, d)'
<1>1. CASE UNCHANGED vars
  <2>1. UNCHANGED <<dllVars, callVars, serviceVars, daemonVars>>
    BY <1>1 DEF vars
  <2>2. UNCHANGED <<client, cstate, inbox, link, pc, op, result>>
    BY <2>1 DEF dllVars, callVars
  <2>3. SameWorld(d)
    BY <2>1, WorldSame
  <2> QED
    BY <2>2, <2>3 DEF Moved, SameEntry, Noted, Attached
<1>2. ~Fault
  BY NoFault DEF SessionTyped
<1>3. ~(LoseDelta \/ LoseReport \/ DaemonStop \/ \E u \in Testers, e \in Devices : LoseUpdate(u, e))
  BY <1>2 DEF LoseDelta, LoseReport, DaemonStop, LoseUpdate
<1>4. CASE RequestLog
  <2>1. UNCHANGED <<dllVars, callVars, daemonVars>> /\ Desire(desired, TRUE)
    BY <1>4 DEF RequestLog
  <2>2. UNCHANGED <<client, cstate, inbox, link, pc, op, result>> /\ UNCHANGED clients /\ UNCHANGED daemon
    BY <2>1 DEF dllVars, callVars, daemonVars
  <2>3. CanbusOf(d)' = CanbusOf(d)
    BY <2>2, SameSocket
  <2>4. UNCHANGED <<desired, reported, reports>> /\ deltas' = Offer(deltas, Delta(desired, reported, TRUE))
    BY <2>1 DEF Desire
  <2>5. Asked(t, d)
    BY <2>2, <2>3, <2>4 DEF Asked, SameEntry
  <2> QED
    BY <1>4, <2>2, <2>5 DEF Noted, Attached
<1>5. CASE Call(t)
  BY <1>5, CallEffect
<1>6. CASE CallStep(t)
  <2>1. CASE OpenConnect(t) \/ OpenSubscribe(t)
    BY <2>1, OpeningEffect
  <2>2. CASE Publish(t)
    BY <2>2, PublishEffect
  <2>3. CASE Receive(t)
    BY <2>3, ReceiveEffect
  <2>4. CASE Acked(t) \/ Timeout(t)
    BY <2>4, AnswerEffect
  <2>5. CASE Unsubscribe(t) \/ PublishClose(t)
    BY <2>5, CloseEffect
  <2> QED
    BY <1>6, <2>1, <2>2, <2>3, <2>4, <2>5 DEF CallStep
<1>7. CASE Restart(t)
  BY <1>7, RestartEffect
<1>8. CASE ServeReport
  BY <1>8, ServeEffect
<1>9. CASE RouteDelta \/ DaemonStart
  BY <1>9, DaemonEffect
<1>10. \A u \in Testers : u = t
  BY OnlyTester
<1>11. \/ UNCHANGED vars \/ Call(t) \/ CallStep(t) \/ Restart(t)
       \/ ServeReport \/ RouteDelta \/ DaemonStart \/ RequestLog
  <2>1. CASE Next
    <3>1. \/ \E u \in Testers : Call(u) \/ CallStep(u) \/ Restart(u)
          \/ ServeReport \/ RouteDelta \/ DaemonStart \/ RequestLog
      BY <1>3, <2>1 DEF Next
    <3> QED
      BY <1>10, <3>1
  <2> QED
    BY <2>1
<1> QED
  BY <1>1, <1>4, <1>5, <1>6, <1>7, <1>8, <1>9, <1>11

-----------------------------------------------------------------------------
(* The invariant.                                                           *)

\* What is on its way.
ReportsTell(s) == \E i \in 1 .. Len(reports) : Tells(reports[i], s)
Hears(t, d, s) == \E i \in 1 .. Len(inbox[t][d]) : inbox[t][d][i] = s
DeltasSay(s) == \E i \in 1 .. Len(deltas) : deltas[i].st = s
Waits(t, o) == pc[t] = "wait" /\ op[t] = o

\* Will the daemon have a socket to close when it comes to the i-th delta?
ConnectsAt(d, j) ==
    /\ deltas[j].st = "Connect"
    /\ CanbusOf(d) # "unknown" \/ \E k \in 1 .. (j - 1) : deltas[k].st = "Open"
ActsAt(d, i) == CanbusOf(d) \in Acting \/ \E j \in 1 .. (i - 1) : ConnectsAt(d, j)
ActsAtEnd(d) == CanbusOf(d) \in Acting \/ \E j \in 1 .. Len(deltas) : ConnectsAt(d, j)

\* A daemon that is down has neither clients nor deltas, and no log is asked for.
Quiet(d) == ~logging /\ (daemon = "down" => CanbusOf(d) = "unknown" /\ deltas = <<>>)

\* A library that has last read "Disconnect" while the socket is open waits for
\* a Connect, and its answer is on its way.
ReadAgain(t, d) ==
    CanbusOf(d) = "connected" /\ cstate[t][d] = "Disconnect" =>
        /\ Waits(t, "Connect")
        /\ inbox[t][d] # <<>> \/ ReportsTell("Connect")

\* While a report of "Disconnect" is on its way the call that asked for it
\* waits, the socket is closed, and nothing but the same is asked for.
Awaited(t, d) ==
    ReportsTell("Disconnect") \/ Hears(t, d, "Disconnect") =>
        /\ Waits(t, "Disconnect") /\ cstate[t][d] # "Disconnect"
        /\ desired.st = "Disconnect" /\ CanbusOf(d) \in {"null", "unknown"}
        /\ \A i \in 1 .. Len(deltas) : deltas[i].st = "Disconnect"

\* There is one such report at most,
OnlyOne(t, d) ==
    /\ ~(ReportsTell("Disconnect") /\ Hears(t, d, "Disconnect"))
    /\ \A i, j \in 1 .. Len(reports) :
         Tells(reports[i], "Disconnect") /\ Tells(reports[j], "Disconnect") => i = j
    /\ \A i, j \in 1 .. Len(inbox[t][d]) :
         inbox[t][d][i] = "Disconnect" /\ inbox[t][d][j] = "Disconnect" => i = j

\* and it is the last one, as long as the client stays known.
LastOne(t, d) ==
    CanbusOf(d) = "null" =>
        /\ \A i, k \in 1 .. Len(reports) :
             Tells(reports[i], "Disconnect") /\ i < k => ~IsUpdate(reports[k])
        /\ \A i \in 1 .. Len(inbox[t][d]) : inbox[t][d][i] = "Disconnect" =>
             /\ i = Len(inbox[t][d]) /\ reported = "Disconnect"
             /\ \A k \in 1 .. Len(reports) : ~IsUpdate(reports[k])

\* After a delta that will close a socket there are only more of them,
Following(d) ==
    \A i \in 1 .. Len(deltas) : deltas[i].st = "Disconnect" /\ ActsAt(d, i) =>
        /\ desired.st = "Disconnect"
        /\ \A k \in i .. Len(deltas) : deltas[k].st = "Disconnect"

\* and the call that asked for it still waits.
StillWaits(t, d) ==
    desired.st = "Disconnect" /\ (deltas # <<>> \/ reports # <<>>) /\ ActsAtEnd(d) =>
        Waits(t, "Disconnect") /\ cstate[t][d] # "Disconnect"

\* No old request to connect or to open is left when "Disconnect" was read.
NoOldConnect(t, d) ==
    cstate[t][d] = "Disconnect" /\ CanbusOf(d) # "unknown" /\ ~Waits(t, "Connect") =>
        ~DeltasSay("Connect") /\ (desired.st = "Connect" => deltas = <<>> /\ reports = <<>>)
NoOldOpen(t, d) ==
    /\ cstate[t][d] = "Disconnect" => ~DeltasSay("Open") /\ desired.st # "Open"
    /\ op[t] = "Open" /\ pc[t] \notin {"idle", "dead"} => cstate[t][d] # "Disconnect"

\* After a Connect that failed and was not answered nothing is on its way.
Unanswered(t, d) ==
    /\ cstate[t][d] = "Disconnect" /\ CanbusOf(d) = "failed" /\ client[t][d] = "live"
    /\ ~(pc[t] = "wait" /\ op[t] # "Disconnect")
    => deltas = <<>> /\ reports = <<>> /\ inbox[t][d] = <<>> /\ reported = "Disconnect"

\* What the library has read last is what is reported, or it has more to read.
Remembered(t, d) ==
    /\ cstate[t][d] = "Disconnect" /\ CanbusOf(d) # "unknown" /\ client[t][d] = "live"
    /\ pc[t] \notin {"unsubscribe", "publish2"}
    => inbox[t][d] # <<>> \/ reported = "Disconnect"

DisconnectInv(t, d) ==
    /\ Quiet(d) /\ ReadAgain(t, d) /\ Awaited(t, d) /\ OnlyOne(t, d) /\ LastOne(t, d)
    /\ Following(d) /\ StillWaits(t, d) /\ NoOldConnect(t, d) /\ NoOldOpen(t, d)
    /\ Unanswered(t, d) /\ Remembered(t, d)

\* A call that begins, goes on or ends.
LEMMA MovedKeeps ==
    ASSUME NEW CONSTANT t, NEW CONSTANT d, DisconnectInv(t, d), Moved(t, d)
    PROVE  DisconnectInv(t, d)'
<1>1. /\ UNCHANGED <<deltas, desired, reports, reported, logging, daemon>>
      /\ CanbusOf(d)' = CanbusOf(d)
      /\ cstate'[t][d] = cstate[t][d] /\ inbox'[t][d] = inbox[t][d]
      /\ client'[t][d] = client[t][d]
  BY DEF Moved, SameWorld, SameEntry
<1>2. Quiet(d)'
  BY <1>1 DEF Quiet, DisconnectInv
<1>3. OnlyOne(t, d)'
  BY <1>1 DEF OnlyOne, ReportsTell, Hears, DisconnectInv
<1>4. LastOne(t, d)'
  BY <1>1 DEF LastOne, DisconnectInv
<1>5. Following(d)'
  BY <1>1 DEF Following, ActsAt, ConnectsAt, DisconnectInv
<1>6. /\ ReportsTell("Disconnect")' = ReportsTell("Disconnect")
      /\ ReportsTell("Connect")' = ReportsTell("Connect")
      /\ Hears(t, d, "Disconnect")' = Hears(t, d, "Disconnect")
      /\ DeltasSay("Connect")' = DeltasSay("Connect") /\ DeltasSay("Open")' = DeltasSay("Open")
      /\ ActsAtEnd(d)' = ActsAtEnd(d)
  BY <1>1 DEF ReportsTell, Hears, DeltasSay, ActsAtEnd, ConnectsAt
<1>7. reports = <<>> => ~ReportsTell("Disconnect") /\ ~ReportsTell("Connect")
  BY DEF ReportsTell
<1>8. inbox[t][d] = <<>> => ~Hears(t, d, "Disconnect")
  BY DEF Hears
<1>9. ReadAgain(t, d)'
  BY <1>1, <1>6, <1>7 DEF Moved, ReadAgain, Waits, DisconnectInv
<1>10. Awaited(t, d)'
  BY <1>1, <1>6, <1>7, <1>8 DEF Moved, Awaited, Waits, DisconnectInv
<1>11. StillWaits(t, d)'
  BY <1>1, <1>6 DEF Moved, StillWaits, Waits, DisconnectInv
<1>12. deltas = <<>> => ~DeltasSay("Connect") /\ ~DeltasSay("Open")
  BY DEF DeltasSay
<1>13. NoOldConnect(t, d)'
  BY <1>1, <1>6, <1>12 DEF Moved, NoOldConnect, Waits, DisconnectInv
<1>14. NoOldOpen(t, d)'
  BY <1>1, <1>6, <1>12 DEF Moved, NoOldOpen, DisconnectInv
<1>15. Unanswered(t, d)'
  BY <1>1 DEF Moved, Unanswered, Remembered, DisconnectInv
<1>16. Remembered(t, d)'
  BY <1>1 DEF Moved, Remembered, DisconnectInv
<1> QED
  BY <1>2, <1>3, <1>4, <1>5, <1>9, <1>10, <1>11, <1>13, <1>14, <1>15, <1>16 DEF DisconnectInv

\* A library, or a client, that has read nothing yet.
LEMMA FreshKeeps ==
    ASSUME NEW CONSTANT t, NEW CONSTANT d, DisconnectInv(t, d), Fresh(t, d)
    PROVE  DisconnectInv(t, d)'
<1>1. /\ UNCHANGED <<deltas, desired, reports, reported, logging, daemon>>
      /\ CanbusOf(d)' = CanbusOf(d)
      /\ cstate'[t][d] = NULL /\ inbox'[t][d] = <<>> /\ NULL # "Disconnect"
      /\ pc[t] # "wait"
  BY DEF Fresh, SameWorld, NULL
<1>2. Quiet(d)'
  BY <1>1 DEF Quiet, DisconnectInv
<1>3. ~ReportsTell("Disconnect") /\ ReportsTell("Disconnect")' = ReportsTell("Disconnect")
  BY <1>1 DEF Awaited, Waits, DisconnectInv, ReportsTell
<1>4. ~Hears(t, d, "Disconnect")'
  BY <1>1 DEF Hears
<1>5. OnlyOne(t, d)'
  BY <1>1, <1>3 DEF OnlyOne, Hears, DisconnectInv
<1>6. LastOne(t, d)'
  BY <1>1 DEF LastOne, DisconnectInv
<1>7. Following(d)'
  BY <1>1 DEF Following, ActsAt, ConnectsAt, DisconnectInv
<1>8. ReadAgain(t, d)' /\ NoOldConnect(t, d)' /\ NoOldOpen(t, d)' /\ Unanswered(t, d)' /\ Remembered(t, d)'
  BY <1>1 DEF ReadAgain, NoOldConnect, NoOldOpen, Unanswered, Remembered
<1>9. Awaited(t, d)'
  BY <1>3, <1>4 DEF Awaited
<1>10. StillWaits(t, d)'
  <2>1. ActsAtEnd(d)' = ActsAtEnd(d)
    BY <1>1 DEF ActsAtEnd, ConnectsAt
  <2> QED
    BY <1>1, <2>1 DEF StillWaits, Waits, DisconnectInv
<1> QED
  BY <1>2, <1>5, <1>6, <1>7, <1>8, <1>9, <1>10 DEF DisconnectInv

\* One more delta, with the state s.
Grows(s) ==
    /\ Len(deltas') = Len(deltas) + 1 /\ deltas' # <<>>
    /\ \A i \in 1 .. Len(deltas) : deltas'[i].st = deltas[i].st
    /\ deltas'[Len(deltas) + 1].st = s

\* What the service adds to the deltas when no log is asked for: what is
\* desired, unless it is reported.
LEMMA OfferGrows ==
    ASSUME RouteType, NEW want \in [dev : Devices, st : States], NEW have, NEW log, ~log,
           deltas' = Offer(deltas, Delta(want, have, log)), log \in BOOLEAN
    PROVE  \/ deltas' = deltas
           \/ Grows(want.st) /\ want.st # have /\ daemon = "up"
<1> DEFINE m == Delta(want, have, log)
<1>1. m.st = (IF want.st = have THEN NULL ELSE want.st) /\ m.log = log
  BY DEF Delta
<1>2. m \in DeltaMessage
  BY DEF Delta, DeltaMessage, States
<1>3. deltas \in Seq(DeltaMessage)
  BY DEF RouteType
<1>4. deltas' = Offer(deltas, m)
  OBVIOUS
<1> HIDE DEF m
<1>5. \/ deltas' = deltas
      \/ daemon = "up" /\ m.st # NULL /\ deltas' = Append(deltas, m)
  BY <1>1, <1>4 DEF Offer
<1>6. CASE daemon = "up" /\ m.st # NULL /\ deltas' = Append(deltas, m)
  <2>1. want.st # have /\ m.st = want.st
    BY <1>1, <1>6
  <2>2. /\ Len(deltas') = Len(deltas) + 1 /\ deltas' # <<>> /\ deltas'[Len(deltas) + 1] = m
        /\ \A i \in 1 .. Len(deltas) : deltas'[i] = deltas[i]
    BY <1>2, <1>3, <1>6, AppendAt
  <2>3. Grows(want.st)
    BY <2>1, <2>2 DEF Grows
  <2> QED
    BY <1>6, <2>1, <2>3
<1> QED
  BY <1>5, <1>6

\* What the new delta changes.
LEMMA GrownFacts ==
    ASSUME NEW CONSTANT d, deltas \in Seq(DeltaMessage), NEW s, Grows(s), CanbusOf(d)' = CanbusOf(d)
    PROVE  /\ \A j \in 1 .. Len(deltas) : ConnectsAt(d, j)' = ConnectsAt(d, j)
           /\ \A i \in 1 .. Len(deltas) + 1 : ActsAt(d, i)' = ActsAt(d, i)
           /\ s # "Connect" => (ActsAtEnd(d)' => ActsAtEnd(d))
           /\ \A o : o # s => (DeltasSay(o)' => DeltasSay(o))
<1>1. Len(deltas) \in Nat
  OBVIOUS
<1>2. ASSUME NEW j \in 1 .. Len(deltas)
      PROVE  ConnectsAt(d, j)' = ConnectsAt(d, j)
  <2>1. deltas'[j].st = deltas[j].st /\ \A k \in 1 .. (j - 1) : deltas'[k].st = deltas[k].st
    BY <1>1 DEF Grows
  <2> QED
    BY <2>1 DEF ConnectsAt
<1>3. ASSUME NEW i \in 1 .. Len(deltas) + 1
      PROVE  ActsAt(d, i)' = ActsAt(d, i)
  <2>1. \A j \in 1 .. (i - 1) : ConnectsAt(d, j)' = ConnectsAt(d, j)
    BY <1>1, <1>2
  <2> QED
    BY <2>1 DEF ActsAt
<1>4. ASSUME s # "Connect", ActsAtEnd(d)'
      PROVE  ActsAtEnd(d)
  <2>1. CanbusOf(d)' \in Acting \/ \E j \in 1 .. Len(deltas) + 1 : ConnectsAt(d, j)'
    BY <1>4 DEF ActsAtEnd, Grows, Acting
  <2>2. \A j \in Nat : j = Len(deltas) + 1 => ~ConnectsAt(d, j)'
    BY <1>4 DEF ConnectsAt, Grows
  <2>3. \A j \in 1 .. Len(deltas) + 1 : j \in Nat /\ (j = Len(deltas) + 1 \/ j \in 1 .. Len(deltas))
    BY <1>1
  <2>4. CanbusOf(d) \in Acting \/ \E j \in 1 .. Len(deltas) : ConnectsAt(d, j)
    BY <1>2, <2>1, <2>2, <2>3
  <2> QED
    BY <2>4 DEF ActsAtEnd
<1>5. ASSUME NEW o, o # s, DeltasSay(o)'
      PROVE  DeltasSay(o)
  <2>1. PICK i \in 1 .. Len(deltas) + 1 : deltas'[i].st = o
    BY <1>5 DEF DeltasSay, Grows
  <2>2. i \in 1 .. Len(deltas)
    BY <1>1, <1>5, <2>1 DEF Grows
  <2> QED
    BY <2>1, <2>2 DEF DeltasSay, Grows
<1> QED
  BY <1>2, <1>3, <1>4, <1>5

\* Where the daemon acts, it does so before the end.
LEMMA ActsLater ==
    ASSUME NEW CONSTANT d, NEW i \in 1 .. Len(deltas) + 1, Len(deltas) \in Nat, ActsAt(d, i)
    PROVE  ActsAtEnd(d)
BY DEF ActsAt, ActsAtEnd

\* Only a delta that asks for a connection gives the daemon a socket.
LEMMA ActsByConnect ==
    ASSUME NEW CONSTANT d, SessionInv, ActsAtEnd(d)
    PROVE  \/ CanbusOf(d) = "connected" \/ CanbusOf(d) = "failed"
           \/ DeltasSay("Connect") /\ (CanbusOf(d) # "unknown" \/ DeltasSay("Open"))
<1>1. Len(deltas) \in Nat
  BY DEF SessionInv, RouteType
<1> QED
  BY <1>1 DEF ActsAtEnd, ConnectsAt, Acting, DeltasSay

(* An update of the desired state by a call that does not wait, whether it  *)
(* is on its way to wait or returns; the delta is added to the others.      *)
LEMMA DesiredKeeps ==
    ASSUME NEW CONSTANT t, NEW CONSTANT d, SessionTyped, SessionTyped', DisconnectInv(t, d),
           Desired(t, op'[t]), op'[t] = op[t],
           cstate'[t][d] = cstate[t][d], inbox'[t][d] = inbox[t][d],
           UNCHANGED <<reported, reports, logging, daemon>>, CanbusOf(d)' = CanbusOf(d),
           \/ pc[t] = "publish" /\ pc'[t] = "wait" /\ client[t][d] = "live" /\ client'[t][d] = client[t][d]
           \/ pc[t] = "publish2" /\ pc'[t] = "idle" /\ client'[t][d] = "freed" /\ op[t] = "Close"
    PROVE  DisconnectInv(t, d)'
<1>1. /\ deltas \in Seq(DeltaMessage) /\ Len(deltas) \in Nat /\ desired' \in [dev : Devices, st : States]
      /\ logging \in BOOLEAN /\ RouteType
  BY DEF SessionTyped, SessionInv, RouteType
<1>2. ~logging
  BY DEF DisconnectInv, Quiet
<1>3. \/ UNCHANGED <<desired, deltas>>
      \/ desired'.st = op[t] /\ deltas' = deltas
      \/ desired'.st = op[t] /\ Grows(op[t]) /\ op[t] # reported /\ daemon = "up"
  BY <1>1, <1>2, OfferGrows DEF Desired
<1>4. pc[t] # "wait" /\ pc[t] \in {"publish", "publish2"}
  OBVIOUS
<1>5. ~ReportsTell("Disconnect") /\ ~Hears(t, d, "Disconnect")
  BY <1>4 DEF DisconnectInv, Awaited, Waits
<1>6. ~ReportsTell("Disconnect")' /\ ~Hears(t, d, "Disconnect")'
  BY <1>5 DEF ReportsTell, Hears
<1>7. ~(CanbusOf(d) = "connected" /\ cstate[t][d] = "Disconnect")
  BY <1>4 DEF DisconnectInv, ReadAgain, Waits
<1>8. ~(desired.st = "Disconnect" /\ (deltas # <<>> \/ reports # <<>>) /\ ActsAtEnd(d))
  BY <1>4 DEF DisconnectInv, StillWaits, Waits
<1>9. Quiet(d)'
  BY <1>2, <1>3 DEF DisconnectInv, Quiet
<1>10. ReadAgain(t, d)' /\ Awaited(t, d)' /\ OnlyOne(t, d)' /\ Remembered(t, d)'
  <2>1. ReadAgain(t, d)' /\ Awaited(t, d)'
    BY <1>6, <1>7 DEF ReadAgain, Awaited
  <2>2. OnlyOne(t, d)'
    BY <1>6 DEF OnlyOne, DisconnectInv
  <2>3. Remembered(t, d)'
    BY DEF Remembered, DisconnectInv
  <2> QED
    BY <2>1, <2>2, <2>3
<1>11. LastOne(t, d)'
  BY DEF LastOne, DisconnectInv
<1>12. Following(d)'
  <2>1. CASE UNCHANGED <<desired, deltas>>
    BY <2>1 DEF Following, ActsAt, ConnectsAt, DisconnectInv
  <2>2. \A i \in 1 .. Len(deltas) : ~(deltas[i].st = "Disconnect" /\ ActsAt(d, i))
    <3> SUFFICES ASSUME NEW i \in 1 .. Len(deltas), deltas[i].st = "Disconnect", ActsAt(d, i)
                 PROVE  FALSE
      OBVIOUS
    <3>1. desired.st = "Disconnect"
      BY DEF DisconnectInv, Following
    <3>2. ActsAtEnd(d) /\ deltas # <<>>
      BY <1>1, ActsLater
    <3> QED
      BY <1>8, <3>1, <3>2
  <2>3. CASE desired'.st = op[t] /\ deltas' = deltas
    BY <2>2, <2>3 DEF Following, ActsAt, ConnectsAt
  <2>4. CASE desired'.st = op[t] /\ Grows(op[t])
    <3> SUFFICES ASSUME NEW i \in 1 .. Len(deltas'), deltas'[i].st = "Disconnect", ActsAt(d, i)'
                 PROVE  /\ desired'.st = "Disconnect"
                        /\ \A k \in i .. Len(deltas') : deltas'[k].st = "Disconnect"
      BY DEF Following
    <3>1. i \in 1 .. Len(deltas) + 1 /\ Len(deltas') = Len(deltas) + 1
      BY <2>4 DEF Grows
    <3>2. ActsAt(d, i)
      BY <1>1, <2>4, <3>1, GrownFacts
    <3>3. i \notin 1 .. Len(deltas)
      BY <2>2, <2>4, <3>2 DEF Grows
    <3>4. i = Len(deltas) + 1
      BY <1>1, <3>1, <3>3
    <3> QED
      BY <1>1, <2>4, <3>1, <3>4 DEF Grows
  <2> QED
    BY <1>3, <2>1, <2>3, <2>4
<1>13. StillWaits(t, d)'
  <2>1. CASE UNCHANGED <<desired, deltas>>
    <3>1. ActsAtEnd(d)' = ActsAtEnd(d)
      BY <2>1 DEF ActsAtEnd, ConnectsAt
    <3> QED
      BY <1>8, <2>1, <3>1 DEF StillWaits
  <2>2. CASE desired'.st = op[t] /\ op[t] = "Disconnect" /\ (deltas' = deltas \/ (Grows(op[t]) /\ op[t] # reported))
    <3> SUFFICES ASSUME deltas' # <<>> \/ reports # <<>>, ActsAtEnd(d)'
                 PROVE  Waits(t, "Disconnect")' /\ cstate'[t][d] # "Disconnect"
      BY DEF StillWaits
    <3>1. Waits(t, "Disconnect")' /\ pc[t] = "publish" /\ client[t][d] = "live"
      BY <2>2 DEF Waits
    <3>2. ActsAtEnd(d)
      <4>1. CASE deltas' = deltas
        BY <4>1 DEF ActsAtEnd, ConnectsAt
      <4>2. CASE Grows(op[t])
        BY <1>1, <2>2, <4>2, GrownFacts
      <4> QED
        BY <2>2, <4>1, <4>2
    <3>3. cstate[t][d] # "Disconnect"
      <4> SUFFICES ASSUME cstate[t][d] = "Disconnect" PROVE FALSE
        OBVIOUS
      <4>1. SessionInv
        BY DEF SessionTyped
      <4>2. \/ CanbusOf(d) = "failed"
            \/ DeltasSay("Connect") /\ (CanbusOf(d) # "unknown" \/ DeltasSay("Open"))
        BY <1>7, <3>2, <4>1, ActsByConnect
      <4>3. CASE CanbusOf(d) = "failed"
        <5>1. deltas = <<>> /\ reports = <<>> /\ reported = "Disconnect"
          BY <3>1, <4>3 DEF DisconnectInv, Unanswered
        <5> QED
          BY <2>2, <5>1
      <4>4. ~DeltasSay("Open")
        BY DEF DisconnectInv, NoOldOpen
      <4>5. ~(DeltasSay("Connect") /\ CanbusOf(d) # "unknown")
        BY <1>4 DEF DisconnectInv, NoOldConnect, Waits
      <4> QED
        BY <4>2, <4>3, <4>4, <4>5
    <3> QED
      BY <3>1, <3>3
  <2>3. CASE desired'.st = op[t] /\ op[t] # "Disconnect"
    BY <2>3 DEF StillWaits
  <2> QED
    BY <1>3, <2>1, <2>2, <2>3
<1>14. NoOldConnect(t, d)'
  <2> SUFFICES ASSUME cstate[t][d] = "Disconnect", CanbusOf(d) # "unknown", ~Waits(t, "Connect")'
               PROVE  /\ ~DeltasSay("Connect")'
                      /\ desired'.st = "Connect" => deltas' = <<>> /\ reports = <<>>
    BY DEF NoOldConnect
  <2>1. ~DeltasSay("Connect") /\ (desired.st = "Connect" => deltas = <<>> /\ reports = <<>>)
    BY <1>4 DEF DisconnectInv, NoOldConnect, Waits
  <2>2. CASE UNCHANGED <<desired, deltas>>
    BY <2>1, <2>2 DEF DeltasSay
  <2>3. op[t] # "Connect"
    BY DEF Waits
  <2>4. CASE desired'.st = op[t] /\ deltas' = deltas
    BY <2>1, <2>3, <2>4 DEF DeltasSay
  <2>5. CASE desired'.st = op[t] /\ Grows(op[t])
    BY <1>1, <2>1, <2>3, <2>5, GrownFacts
  <2> QED
    BY <1>3, <2>2, <2>4, <2>5
<1>15. NoOldOpen(t, d)'
  <2>1. op[t] = "Open" => cstate[t][d] # "Disconnect"
    BY <1>4 DEF DisconnectInv, NoOldOpen
  <2>2. ASSUME cstate[t][d] = "Disconnect"
        PROVE  ~DeltasSay("Open")' /\ desired'.st # "Open"
    <3>1. ~DeltasSay("Open") /\ desired.st # "Open" /\ op[t] # "Open"
      BY <2>1, <2>2 DEF DisconnectInv, NoOldOpen
    <3>2. CASE deltas' = deltas
      BY <1>3, <3>1, <3>2 DEF DeltasSay
    <3>3. CASE desired'.st = op[t] /\ Grows(op[t])
      BY <1>1, <3>1, <3>3, GrownFacts
    <3> QED
      BY <1>3, <3>2, <3>3
  <2> QED
    BY <2>1, <2>2 DEF NoOldOpen
<1>16. Unanswered(t, d)'
  <2> SUFFICES ASSUME cstate[t][d] = "Disconnect", CanbusOf(d) = "failed", client'[t][d] = "live",
                      ~(pc'[t] = "wait" /\ op[t] # "Disconnect")
               PROVE  deltas' = <<>> /\ reports = <<>> /\ inbox[t][d] = <<>> /\ reported = "Disconnect"
    BY DEF Unanswered
  <2>1. deltas = <<>> /\ reports = <<>> /\ inbox[t][d] = <<>> /\ reported = "Disconnect"
    BY <1>4 DEF DisconnectInv, Unanswered
  <2>2. op[t] = "Disconnect"
    OBVIOUS
  <2> QED
    BY <1>3, <2>1, <2>2
<1> QED
  BY <1>9, <1>10, <1>11, <1>12, <1>13, <1>14, <1>15, <1>16 DEF DisconnectInv

\* Both publications, of j2534_publish_state and of PassThruClose.
LEMMA PublishedKeeps ==
    ASSUME NEW CONSTANT t, NEW CONSTANT d, SessionTyped, SessionTyped', Attached(t, d), DisconnectInv(t, d),
           Published(t, d) \/ Closed(t, d)
    PROVE  DisconnectInv(t, d)'
<1>1. CASE Published(t, d)
  <2>1. client[t][d] = "live"
    BY <1>1 DEF Attached, Published
  <2> QED
    BY <1>1, <2>1, DesiredKeeps DEF Published, SameEntry
<1>2. CASE Closed(t, d)
  <2>1. op[t] = "Close"
    BY <1>2 DEF Attached, Closed
  <2> QED
    BY <1>2, <2>1, DesiredKeeps DEF Closed
<1> QED
  BY <1>1, <1>2

\* An update is read.
LEMMA ReceivedKeeps ==
    ASSUME NEW CONSTANT t, NEW CONSTANT d, inbox[t][d] \in Seq(Ops), DisconnectInv(t, d), Received(t, d)
    PROVE  DisconnectInv(t, d)'
<1> DEFINE h == inbox[t][d]
<1>1. /\ UNCHANGED <<deltas, desired, reports, reported, logging, daemon>>
      /\ CanbusOf(d)' = CanbusOf(d) /\ client'[t][d] = client[t][d]
      /\ cstate'[t][d] = Head(h) /\ pc'[t] = pc[t] /\ op'[t] = op[t]
      /\ h # <<>> /\ h \in Seq(Ops) /\ inbox'[t][d] = Tail(h)
  BY DEF Received, SameWorld
<1>2. /\ Len(h) \in Nat \ {0} /\ Len(inbox'[t][d]) = Len(h) - 1 /\ cstate'[t][d] = h[1]
      /\ \A i \in 1 .. Len(h) - 1 : inbox'[t][d][i] = h[i + 1]
  BY <1>1, TailAt
<1> HIDE DEF h
<1>3. /\ ReportsTell("Disconnect")' = ReportsTell("Disconnect")
      /\ ReportsTell("Connect")' = ReportsTell("Connect")
      /\ DeltasSay("Connect")' = DeltasSay("Connect") /\ DeltasSay("Open")' = DeltasSay("Open")
      /\ ActsAtEnd(d)' = ActsAtEnd(d)
  BY <1>1 DEF ReportsTell, DeltasSay, ActsAtEnd, ConnectsAt
<1>4. /\ \A i, j \in 1 .. Len(h) : h[i] = "Disconnect" /\ h[j] = "Disconnect" => i = j
      /\ ~(ReportsTell("Disconnect") /\ Hears(t, d, "Disconnect"))
  BY DEF DisconnectInv, OnlyOne, h
<1>5. Hears(t, d, "Disconnect") <=> \E i \in 1 .. Len(h) : h[i] = "Disconnect"
  BY DEF Hears, h
<1>6. Hears(t, d, "Disconnect")' <=> \E i \in 1 .. Len(h) - 1 : h[i + 1] = "Disconnect"
  BY <1>2 DEF Hears
<1>7. Hears(t, d, "Disconnect")' => Hears(t, d, "Disconnect") /\ cstate'[t][d] # "Disconnect"
  <2> SUFFICES ASSUME NEW i \in 1 .. Len(h) - 1, h[i + 1] = "Disconnect"
               PROVE  Hears(t, d, "Disconnect") /\ cstate'[t][d] # "Disconnect"
    BY <1>6
  <2>1. i + 1 \in 1 .. Len(h) /\ 1 \in 1 .. Len(h) /\ i + 1 # 1
    BY <1>2
  <2> QED
    BY <1>2, <1>4, <1>5, <2>1
<1>8. ASSUME cstate'[t][d] = "Disconnect"
      PROVE  /\ Hears(t, d, "Disconnect") /\ ~ReportsTell("Disconnect")
             /\ Waits(t, "Disconnect") /\ desired.st = "Disconnect"
             /\ CanbusOf(d) \in {"null", "unknown"}
             /\ \A i \in 1 .. Len(deltas) : deltas[i].st = "Disconnect"
             /\ ~DeltasSay("Connect") /\ ~DeltasSay("Open") /\ ~ActsAtEnd(d)
  <2>1. Hears(t, d, "Disconnect") /\ ~ReportsTell("Disconnect")
    <3>1. 1 \in 1 .. Len(h) /\ h[1] = "Disconnect"
      BY <1>2, <1>8
    <3>2. Hears(t, d, "Disconnect")
      BY <1>5, <3>1
    <3> QED
      BY <1>4, <3>2
  <2>2. /\ Waits(t, "Disconnect") /\ desired.st = "Disconnect"
        /\ CanbusOf(d) \in {"null", "unknown"}
        /\ \A i \in 1 .. Len(deltas) : deltas[i].st = "Disconnect"
    BY <2>1 DEF DisconnectInv, Awaited
  <2>3. ~DeltasSay("Connect") /\ ~DeltasSay("Open")
    BY <2>2 DEF DeltasSay
  <2>4. ~ActsAtEnd(d)
    BY <2>2, <2>3 DEF ActsAtEnd, ConnectsAt, Acting, DeltasSay
  <2> QED
    BY <2>1, <2>2, <2>3, <2>4
<1>9. Quiet(d)'
  BY <1>1 DEF Quiet, DisconnectInv
<1>10. ReadAgain(t, d)'
  <2> SUFFICES ASSUME CanbusOf(d) = "connected", cstate'[t][d] = "Disconnect" PROVE FALSE
    BY <1>1 DEF ReadAgain
  <2> QED
    BY <1>8
<1>11. Awaited(t, d)'
  <2> SUFFICES ASSUME ReportsTell("Disconnect") \/ Hears(t, d, "Disconnect")'
               PROVE  /\ Waits(t, "Disconnect")' /\ cstate'[t][d] # "Disconnect"
                      /\ desired.st = "Disconnect" /\ CanbusOf(d) \in {"null", "unknown"}
                      /\ \A i \in 1 .. Len(deltas) : deltas[i].st = "Disconnect"
    BY <1>1, <1>3 DEF Awaited
  <2>1. cstate'[t][d] # "Disconnect"
    BY <1>7, <1>8
  <2>2. Waits(t, "Disconnect")' = Waits(t, "Disconnect")
    BY <1>1 DEF Waits
  <2> QED
    BY <1>7, <2>1, <2>2 DEF DisconnectInv, Awaited
<1>12. OnlyOne(t, d)'
  <2>1. ~(ReportsTell("Disconnect")' /\ Hears(t, d, "Disconnect")')
    BY <1>3, <1>4, <1>7
  <2>2. \A i, j \in 1 .. Len(reports) : Tells(reports[i], "Disconnect") /\ Tells(reports[j], "Disconnect") => i = j
    BY DEF DisconnectInv, OnlyOne
  <2>3. ASSUME NEW i \in 1 .. Len(h) - 1, NEW j \in 1 .. Len(h) - 1,
               inbox'[t][d][i] = "Disconnect", inbox'[t][d][j] = "Disconnect"
        PROVE  i = j
    <3>1. i + 1 \in 1 .. Len(h) /\ j + 1 \in 1 .. Len(h) /\ i \in Nat /\ j \in Nat
      BY <1>2
    <3>2. i + 1 = j + 1
      BY <1>2, <1>4, <2>3, <3>1
    <3> QED
      BY <3>1, <3>2
  <2> QED
    BY <1>1, <1>2, <2>1, <2>2, <2>3 DEF OnlyOne
<1>13. LastOne(t, d)'
  <2> SUFFICES ASSUME CanbusOf(d) = "null"
               PROVE  /\ \A i, k \in 1 .. Len(reports) :
                           Tells(reports[i], "Disconnect") /\ i < k => ~IsUpdate(reports[k])
                      /\ \A i \in 1 .. Len(h) - 1 : inbox'[t][d][i] = "Disconnect" =>
                           /\ i = Len(h) - 1 /\ reported = "Disconnect"
                           /\ \A k \in 1 .. Len(reports) : ~IsUpdate(reports[k])
    BY <1>1, <1>2 DEF LastOne
  <2>1. \A i, k \in 1 .. Len(reports) : Tells(reports[i], "Disconnect") /\ i < k => ~IsUpdate(reports[k])
    BY DEF DisconnectInv, LastOne
  <2>2. \A i \in 1 .. Len(h) : h[i] = "Disconnect" =>
          /\ i = Len(h) /\ reported = "Disconnect"
          /\ \A k \in 1 .. Len(reports) : ~IsUpdate(reports[k])
    BY DEF DisconnectInv, LastOne, h
  <2>3. ASSUME NEW i \in 1 .. Len(h) - 1, inbox'[t][d][i] = "Disconnect"
        PROVE  /\ i = Len(h) - 1 /\ reported = "Disconnect"
               /\ \A k \in 1 .. Len(reports) : ~IsUpdate(reports[k])
    <3>1. i + 1 \in 1 .. Len(h) /\ h[i + 1] = "Disconnect" /\ i \in Nat
      BY <1>2, <2>3
    <3>2. i + 1 = Len(h)
      BY <2>2, <3>1
    <3> QED
      BY <1>2, <2>2, <3>1, <3>2
  <2> QED
    BY <2>1, <2>3
<1>14. Following(d)'
  BY <1>1 DEF Following, ActsAt, ConnectsAt, DisconnectInv
<1>15. StillWaits(t, d)'
  <2> SUFFICES ASSUME desired.st = "Disconnect", deltas # <<>> \/ reports # <<>>, ActsAtEnd(d)
               PROVE  Waits(t, "Disconnect")' /\ cstate'[t][d] # "Disconnect"
    BY <1>1, <1>3 DEF StillWaits
  <2>1. Waits(t, "Disconnect")' = Waits(t, "Disconnect")
    BY <1>1 DEF Waits
  <2> QED
    BY <1>8, <2>1 DEF DisconnectInv, StillWaits
<1>16. NoOldConnect(t, d)'
  <2>1. CASE cstate'[t][d] # "Disconnect"
    BY <2>1 DEF NoOldConnect
  <2>2. CASE cstate'[t][d] = "Disconnect"
    BY <1>1, <1>3, <1>8, <2>2 DEF NoOldConnect
  <2> QED
    BY <2>1, <2>2
<1>17. NoOldOpen(t, d)'
  <2>1. CASE cstate'[t][d] # "Disconnect"
    BY <2>1 DEF NoOldOpen
  <2>2. CASE cstate'[t][d] = "Disconnect"
    BY <1>1, <1>3, <1>8, <2>2 DEF NoOldOpen, Waits
  <2> QED
    BY <2>1, <2>2
<1>18. Unanswered(t, d)'
  <2> SUFFICES ASSUME cstate'[t][d] = "Disconnect", CanbusOf(d) = "failed" PROVE FALSE
    BY <1>1 DEF Unanswered
  <2> QED
    BY <1>8
<1>19. Remembered(t, d)'
  <2> SUFFICES ASSUME cstate'[t][d] = "Disconnect", CanbusOf(d) # "unknown"
               PROVE  reported = "Disconnect"
    BY <1>1 DEF Remembered
  <2>1. CanbusOf(d) = "null"
    BY <1>8
  <2>2. 1 \in 1 .. Len(h) /\ h[1] = "Disconnect"
    BY <1>2
  <2>3. \A i \in 1 .. Len(h) : h[i] = "Disconnect" => reported = "Disconnect"
    BY <2>1 DEF DisconnectInv, LastOne, h
  <2> QED
    BY <2>2, <2>3
<1> QED
  BY <1>9, <1>10, <1>11, <1>12, <1>13, <1>14, <1>15, <1>16, <1>17, <1>18, <1>19 DEF DisconnectInv

\* One more report.
LEMMA ReportAppended ==
    ASSUME reports \in Seq(ReportMessage), NEW r \in ReportMessage, reports' = Append(reports, r)
    PROVE  /\ Len(reports) \in Nat /\ Len(reports') = Len(reports) + 1
           /\ reports'[Len(reports) + 1] = r
           /\ \A i \in 1 .. Len(reports) : reports'[i] = reports[i]
           /\ \A s : ReportsTell(s)' <=> ReportsTell(s) \/ Tells(r, s)
<1>1. /\ Len(reports) \in Nat /\ Len(reports') = Len(reports) + 1
      /\ reports'[Len(reports) + 1] = r
      /\ \A i \in 1 .. Len(reports) : reports'[i] = reports[i]
  BY AppendAt
<1>2. ASSUME NEW s
      PROVE  ReportsTell(s)' <=> ReportsTell(s) \/ Tells(r, s)
  <2>1. ReportsTell(s)' <=> \E i \in 1 .. Len(reports) + 1 : Tells(reports'[i], s)
    BY <1>1 DEF ReportsTell, Tells, IsUpdate
  <2>2. \A i \in 1 .. Len(reports) + 1 : i = Len(reports) + 1 \/ i \in 1 .. Len(reports)
    BY <1>1
  <2>3. Len(reports) + 1 \in 1 .. Len(reports) + 1 /\ 1 .. Len(reports) \subseteq 1 .. Len(reports) + 1
    BY <1>1
  <2>4. (\E i \in 1 .. Len(reports) + 1 : Tells(reports'[i], s))
          <=> (\E i \in 1 .. Len(reports) : Tells(reports[i], s)) \/ Tells(r, s)
    BY <1>1, <2>2, <2>3
  <2> QED
    BY <2>1, <2>4 DEF ReportsTell
<1> QED
  BY <1>1, <1>2

\* The daemon is started, and reports that it is connected.
LEMMA StartedKeeps ==
    ASSUME NEW CONSTANT t, NEW CONSTANT d, reports \in Seq(ReportMessage), DisconnectInv(t, d), Started(t, d)
    PROVE  DisconnectInv(t, d)'
<1>1. PICK r \in ReportMessage : ~IsUpdate(r) /\ reports' = Append(reports, r)
  BY DEF Started
<1>2. /\ cstate'[t][d] = cstate[t][d] /\ inbox'[t][d] = inbox[t][d] /\ client'[t][d] = client[t][d]
      /\ pc'[t] = pc[t] /\ op'[t] = op[t] /\ UNCHANGED <<deltas, desired, reported, logging>>
      /\ daemon = "down" /\ daemon' = "up" /\ CanbusOf(d)' = CanbusOf(d)
  BY DEF Started, SameEntry
<1>3. CanbusOf(d) = "unknown" /\ deltas = <<>>
  BY <1>2 DEF DisconnectInv, Quiet
<1>4. /\ Len(reports) \in Nat /\ Len(reports') = Len(reports) + 1
      /\ reports'[Len(reports) + 1] = r
      /\ \A i \in 1 .. Len(reports) : reports'[i] = reports[i]
      /\ \A s : ReportsTell(s)' <=> ReportsTell(s)
  BY <1>1, ReportAppended DEF Tells
<1>5. Hears(t, d, "Disconnect")' = Hears(t, d, "Disconnect")
  BY <1>2 DEF Hears
<1>6. ~DeltasSay("Connect")' /\ ~DeltasSay("Open")' /\ ~ActsAtEnd(d)'
  BY <1>2, <1>3 DEF DeltasSay, ActsAtEnd, Acting
<1>7. Quiet(d)' /\ ReadAgain(t, d)' /\ LastOne(t, d)' /\ StillWaits(t, d)' /\ NoOldConnect(t, d)'
      /\ Unanswered(t, d)' /\ Remembered(t, d)'
  BY <1>2, <1>3, <1>6 DEF Quiet, ReadAgain, LastOne, StillWaits, NoOldConnect, Unanswered, Remembered, DisconnectInv
<1>8. Following(d)'
  BY <1>2, <1>3 DEF Following
<1>9. Awaited(t, d)'
  BY <1>2, <1>4, <1>5 DEF Awaited, Waits, DisconnectInv
<1>10. NoOldOpen(t, d)'
  BY <1>2, <1>6 DEF NoOldOpen, DisconnectInv
<1>11. OnlyOne(t, d)'
  <2>1. ASSUME NEW i \in 1 .. Len(reports'), NEW j \in 1 .. Len(reports'),
               Tells(reports'[i], "Disconnect"), Tells(reports'[j], "Disconnect")
        PROVE  i = j
    <3>1. i \in 1 .. Len(reports) /\ j \in 1 .. Len(reports)
      BY <1>1, <1>4, <2>1 DEF Tells
    <3> QED
      BY <1>4, <2>1, <3>1 DEF DisconnectInv, OnlyOne
  <2>2. \A i, j \in 1 .. Len(reports') :
          Tells(reports'[i], "Disconnect") /\ Tells(reports'[j], "Disconnect") => i = j
    BY <2>1
  <2>3. ~(ReportsTell("Disconnect")' /\ Hears(t, d, "Disconnect")')
    BY <1>4, <1>5 DEF DisconnectInv, OnlyOne
  <2>4. \A i, j \in 1 .. Len(inbox'[t][d]) :
         inbox'[t][d][i] = "Disconnect" /\ inbox'[t][d][j] = "Disconnect" => i = j
    BY <1>2 DEF DisconnectInv, OnlyOne
  <2> QED
    BY <2>2, <2>3, <2>4 DEF OnlyOne, Tells, IsUpdate
<1> QED
  BY <1>7, <1>8, <1>9, <1>10, <1>11 DEF DisconnectInv

\* The first report is delivered.
LEMMA ReportDelivered ==
    ASSUME reports \in Seq(ReportMessage), reports # <<>>, reports' = Tail(reports)
    PROVE  /\ Len(reports) \in Nat \ {0} /\ Len(reports') = Len(reports) - 1
           /\ Head(reports) = reports[1] /\ reports[1] \in ReportMessage
           /\ \A i \in 1 .. Len(reports) - 1 : reports'[i] = reports[i + 1]
           /\ \A s : ReportsTell(s) <=> Tells(Head(reports), s) \/ ReportsTell(s)'
<1>1. /\ Len(reports) \in Nat \ {0} /\ Len(reports') = Len(reports) - 1
      /\ Head(reports) = reports[1] /\ reports[1] \in ReportMessage
      /\ \A i \in 1 .. Len(reports) - 1 : reports'[i] = reports[i + 1]
  BY TailAt
<1>2. ASSUME NEW s
      PROVE  ReportsTell(s) <=> Tells(Head(reports), s) \/ ReportsTell(s)'
  <2>1. ReportsTell(s)' <=> \E i \in 1 .. Len(reports) - 1 : Tells(reports'[i], s)
    BY <1>1 DEF ReportsTell, Tells, IsUpdate
  <2>2. ASSUME ReportsTell(s)' PROVE ReportsTell(s)
    <3>1. PICK i \in 1 .. Len(reports) - 1 : Tells(reports'[i], s)
      BY <2>1, <2>2
    <3>2. i + 1 \in 1 .. Len(reports) /\ Tells(reports[i + 1], s)
      BY <1>1, <3>1
    <3> QED
      BY <3>2 DEF ReportsTell
  <2>3. ASSUME Tells(Head(reports), s) PROVE ReportsTell(s)
    <3>1. 1 \in 1 .. Len(reports) /\ Tells(reports[1], s)
      BY <1>1, <2>3
    <3> QED
      BY <3>1 DEF ReportsTell
  <2>4. ASSUME ReportsTell(s), ~Tells(Head(reports), s) PROVE ReportsTell(s)'
    <3>1. PICK i \in 1 .. Len(reports) : Tells(reports[i], s)
      BY <2>4 DEF ReportsTell
    <3>2. i # 1
      BY <1>1, <2>4, <3>1
    <3>3. i - 1 \in 1 .. Len(reports) - 1 /\ (i - 1) + 1 = i
      BY <1>1, <3>2
    <3>4. Tells(reports'[i - 1], s)
      BY <1>1, <3>1, <3>3
    <3> QED
      BY <2>1, <3>3, <3>4
  <2> QED
    BY <2>2, <2>3, <2>4
<1> QED
  BY <1>1, <1>2

\* What the tester's inbox then holds.
LEMMA InboxAppended ==
    ASSUME NEW CONSTANT t, NEW CONSTANT d, inbox[t][d] \in Seq(Ops), NEW s \in Ops,
           inbox'[t][d] = Append(inbox[t][d], s)
    PROVE  /\ Len(inbox[t][d]) \in Nat /\ Len(inbox'[t][d]) = Len(inbox[t][d]) + 1
           /\ inbox'[t][d][Len(inbox[t][d]) + 1] = s
           /\ \A i \in 1 .. Len(inbox[t][d]) : inbox'[t][d][i] = inbox[t][d][i]
           /\ Hears(t, d, "Disconnect")' <=> Hears(t, d, "Disconnect") \/ s = "Disconnect"
<1> DEFINE h == inbox[t][d]
<1>1. h \in Seq(Ops) /\ inbox'[t][d] = Append(h, s)
  OBVIOUS
<1>2. Hears(t, d, "Disconnect") <=> \E i \in 1 .. Len(h) : h[i] = "Disconnect"
  BY DEF Hears
<1> HIDE DEF h
<1>3. /\ Len(h) \in Nat /\ Len(inbox'[t][d]) = Len(h) + 1 /\ inbox'[t][d][Len(h) + 1] = s
      /\ \A i \in 1 .. Len(h) : inbox'[t][d][i] = h[i]
  BY <1>1, AppendAt
<1>4. Hears(t, d, "Disconnect")' <=> \E i \in 1 .. Len(h) + 1 : inbox'[t][d][i] = "Disconnect"
  BY <1>3 DEF Hears
<1>5. \A i \in 1 .. Len(h) + 1 : i = Len(h) + 1 \/ i \in 1 .. Len(h)
  BY <1>3
<1>6. Len(h) + 1 \in 1 .. Len(h) + 1 /\ 1 .. Len(h) \subseteq 1 .. Len(h) + 1
  BY <1>3
<1>7. Hears(t, d, "Disconnect")' <=> Hears(t, d, "Disconnect") \/ s = "Disconnect"
  BY <1>2, <1>3, <1>4, <1>5, <1>6
<1> QED
  BY <1>3, <1>7 DEF h

\* A report goes from its queue to the inbox, and may add what is desired to the deltas.
LEMMA ServedKeeps ==
    ASSUME NEW CONSTANT t, NEW CONSTANT d, Alone(t, d), SessionTyped, SessionTyped', Attached(t, d),
           DisconnectInv(t, d), Served(t, d)
    PROVE  DisconnectInv(t, d)'
<1> DEFINE r == Head(reports)
           h == inbox[t][d]
           tells == Tells(r, "Disconnect")
<1>1. /\ cstate'[t][d] = cstate[t][d] /\ client'[t][d] = client[t][d]
      /\ pc'[t] = pc[t] /\ op'[t] = op[t]
      /\ CanbusOf(d)' = CanbusOf(d) /\ UNCHANGED <<desired, daemon>>
      /\ reports # <<>> /\ reports' = Tail(reports)
  BY DEF Served
<1>2. /\ deltas \in Seq(DeltaMessage) /\ Len(deltas) \in Nat /\ desired \in [dev : Devices, st : States]
      /\ RouteType /\ logging' \in BOOLEAN /\ reports \in Seq(ReportMessage)
  BY DEF SessionTyped, SessionInv, RouteType, WorldType
<1>3. ~logging /\ ~logging'
  BY DEF DisconnectInv, Quiet, Served
<1>4. deltas' = deltas \/ (Grows(desired.st) /\ daemon = "up")
  <2>1. deltas' = deltas \/ deltas' = Offer(deltas, Delta(desired, reported', logging'))
    BY DEF Served
  <2> QED
    BY <1>2, <1>3, <2>1, OfferGrows
<1>5. /\ Len(reports) \in Nat \ {0} /\ Len(reports') = Len(reports) - 1
      /\ r = reports[1] /\ r \in ReportMessage
      /\ \A i \in 1 .. Len(reports) - 1 : reports'[i] = reports[i + 1]
      /\ \A s : ReportsTell(s) <=> Tells(r, s) \/ ReportsTell(s)'
  BY <1>1, <1>2, ReportDelivered
<1>6. \/ ~IsUpdate(r) /\ reported' = reported /\ inbox'[t][d] = h
      \/ IsUpdate(r) /\ reported' = r.st /\ inbox'[t][d] = h /\ ~Subscribed(t, d)
      \/ IsUpdate(r) /\ reported' = r.st /\ inbox'[t][d] = h /\ h # <<>>
      \/ IsUpdate(r) /\ reported' = r.st /\ inbox'[t][d] = Append(h, r.st)
  BY DEF Served
<1>7. /\ h \in Seq(Ops) /\ Len(h) \in Nat /\ (IsUpdate(r) => r.st \in Ops)
      /\ pc[t] \in Points /\ dev[t] = d
  BY <1>5, OnlyTester DEF IsUpdate, ReportMessage
<1> HIDE DEF r
<1>8. \/ inbox'[t][d] = h /\ Hears(t, d, "Disconnect")' = Hears(t, d, "Disconnect")
      \/ /\ IsUpdate(r) /\ reported' = r.st
         /\ Len(inbox'[t][d]) = Len(h) + 1 /\ inbox'[t][d][Len(h) + 1] = r.st /\ inbox'[t][d] # <<>>
         /\ \A i \in 1 .. Len(h) : inbox'[t][d][i] = h[i]
         /\ Hears(t, d, "Disconnect")' <=> Hears(t, d, "Disconnect") \/ tells
  <2>1. CASE inbox'[t][d] = h
    BY <2>1 DEF Hears
  <2>2. CASE IsUpdate(r) /\ reported' = r.st /\ inbox'[t][d] = Append(h, r.st)
    <3>1. /\ Len(inbox'[t][d]) = Len(h) + 1 /\ inbox'[t][d][Len(h) + 1] = r.st
          /\ \A i \in 1 .. Len(h) : inbox'[t][d][i] = h[i]
          /\ Hears(t, d, "Disconnect")' <=> Hears(t, d, "Disconnect") \/ r.st = "Disconnect"
      BY <1>7, <2>2, InboxAppended
    <3>2. tells <=> r.st = "Disconnect"
      BY <2>2 DEF Tells
    <3>3. inbox'[t][d] # <<>>
      BY <1>7, <2>2
    <3> QED
      BY <2>2, <3>1, <3>2, <3>3
  <2> QED
    BY <1>6, <2>1, <2>2
<1>9. h # <<>> => inbox'[t][d] # <<>>
  BY <1>8
<1>10. IsUpdate(r) /\ Subscribed(t, d) => inbox'[t][d] # <<>>
  BY <1>6, <1>8
<1>11. \A i \in 1 .. Len(reports) - 1 : i + 1 \in 1 .. Len(reports) /\ 1 \in 1 .. Len(reports) /\ i + 1 # 1 /\ 1 < i + 1
  BY <1>5
<1>12. tells => ReportsTell("Disconnect") /\ ~ReportsTell("Disconnect")' /\ ~Hears(t, d, "Disconnect")
  <2> SUFFICES ASSUME tells
               PROVE  ReportsTell("Disconnect") /\ ~ReportsTell("Disconnect")' /\ ~Hears(t, d, "Disconnect")
    OBVIOUS
  <2>1. ReportsTell("Disconnect")
    BY <1>5
  <2>2. ~Hears(t, d, "Disconnect")
    BY <2>1 DEF DisconnectInv, OnlyOne
  <2>3. ASSUME NEW i \in 1 .. Len(reports) - 1 PROVE ~Tells(reports'[i], "Disconnect")
    <3>1. Tells(reports[1], "Disconnect") /\ i + 1 # 1 /\ reports'[i] = reports[i + 1]
      BY <1>5, <1>11
    <3> QED
      BY <1>11, <3>1 DEF DisconnectInv, OnlyOne
  <2>4. ~ReportsTell("Disconnect")'
    BY <1>5, <2>3 DEF ReportsTell, Tells, IsUpdate
  <2> QED
    BY <2>1, <2>2, <2>4
<1>13. Hears(t, d, "Disconnect")' => Hears(t, d, "Disconnect") \/ tells
  BY <1>8
<1> HIDE DEF tells
<1>14. Quiet(d)'
  BY <1>1, <1>3, <1>4 DEF Quiet, DisconnectInv
<1>15. ReadAgain(t, d)'
  <2> SUFFICES ASSUME CanbusOf(d) = "connected", cstate[t][d] = "Disconnect"
               PROVE  Waits(t, "Connect")' /\ (inbox'[t][d] # <<>> \/ ReportsTell("Connect")')
    BY <1>1 DEF ReadAgain
  <2>1. Waits(t, "Connect") /\ (h # <<>> \/ ReportsTell("Connect"))
    BY DEF DisconnectInv, ReadAgain
  <2>2. Waits(t, "Connect")'
    BY <1>1, <2>1 DEF Waits
  <2>3. Subscribed(t, d)
    BY <2>1 DEF Attached, Waits, Subscribed
  <2>4. Tells(r, "Connect") => IsUpdate(r)
    BY DEF Tells
  <2> QED
    BY <1>5, <1>9, <1>10, <2>1, <2>2, <2>3, <2>4
<1>16. Awaited(t, d)'
  <2> SUFFICES ASSUME ReportsTell("Disconnect")' \/ Hears(t, d, "Disconnect")'
               PROVE  /\ Waits(t, "Disconnect")' /\ cstate[t][d] # "Disconnect"
                      /\ desired.st = "Disconnect" /\ CanbusOf(d) \in {"null", "unknown"}
                      /\ \A i \in 1 .. Len(deltas') : deltas'[i].st = "Disconnect"
    BY <1>1 DEF Awaited
  <2>1. ReportsTell("Disconnect") \/ Hears(t, d, "Disconnect")
    BY <1>5, <1>12, <1>13
  <2>2. /\ Waits(t, "Disconnect") /\ cstate[t][d] # "Disconnect"
        /\ desired.st = "Disconnect" /\ CanbusOf(d) \in {"null", "unknown"}
        /\ \A i \in 1 .. Len(deltas) : deltas[i].st = "Disconnect"
    BY <2>1 DEF DisconnectInv, Awaited
  <2>3. Waits(t, "Disconnect")'
    BY <1>1, <2>2 DEF Waits
  <2>4. CASE Grows(desired.st)
    <3>1. \A i \in 1 .. Len(deltas) + 1 : i = Len(deltas) + 1 \/ i \in 1 .. Len(deltas)
      BY <1>2
    <3>2. \A i \in 1 .. Len(deltas') : deltas'[i].st = "Disconnect"
      BY <2>2, <2>4, <3>1 DEF Grows
    <3> QED
      BY <2>2, <2>3, <3>2
  <2> QED
    BY <1>4, <2>2, <2>3, <2>4
<1>17. OnlyOne(t, d)'
  <2>1. ~(ReportsTell("Disconnect")' /\ Hears(t, d, "Disconnect")')
    <3>1. ~(ReportsTell("Disconnect") /\ Hears(t, d, "Disconnect"))
      BY DEF DisconnectInv, OnlyOne
    <3> QED
      BY <1>5, <1>12, <1>13, <3>1
  <2>2. ASSUME NEW i \in 1 .. Len(reports'), NEW j \in 1 .. Len(reports'),
               Tells(reports'[i], "Disconnect"), Tells(reports'[j], "Disconnect")
        PROVE  i = j
    <3>1. /\ i \in 1 .. Len(reports) - 1 /\ j \in 1 .. Len(reports) - 1 /\ i \in Nat /\ j \in Nat
      BY <1>5
    <3>2. /\ i + 1 \in 1 .. Len(reports) /\ j + 1 \in 1 .. Len(reports)
          /\ Tells(reports[i + 1], "Disconnect") /\ Tells(reports[j + 1], "Disconnect")
      BY <1>5, <1>11, <2>2, <3>1
    <3>3. i + 1 = j + 1
      BY <3>2 DEF DisconnectInv, OnlyOne
    <3> QED
      BY <3>1, <3>3
  <2>3. ASSUME NEW i \in 1 .. Len(inbox'[t][d]), NEW j \in 1 .. Len(inbox'[t][d]),
               inbox'[t][d][i] = "Disconnect", inbox'[t][d][j] = "Disconnect"
        PROVE  i = j
    <3>1. \A k, l \in 1 .. Len(h) : h[k] = "Disconnect" /\ h[l] = "Disconnect" => k = l
      BY DEF DisconnectInv, OnlyOne
    <3>2. CASE inbox'[t][d] = h
      BY <2>3, <3>1, <3>2
    <3>3. CASE /\ IsUpdate(r) /\ Len(inbox'[t][d]) = Len(h) + 1 /\ inbox'[t][d][Len(h) + 1] = r.st
               /\ \A k \in 1 .. Len(h) : inbox'[t][d][k] = h[k]
      <4>1. \A k \in 1 .. Len(h) + 1 : k = Len(h) + 1 \/ k \in 1 .. Len(h)
        BY <1>7
      <4>2. CASE r.st = "Disconnect"
        <5>1. \A k \in 1 .. Len(h) : h[k] # "Disconnect"
          BY <1>12, <3>3, <4>2 DEF Tells, Hears, tells
        <5>2. i = Len(h) + 1 /\ j = Len(h) + 1
          BY <2>3, <3>3, <4>1, <5>1
        <5> QED
          BY <5>2
      <4>3. CASE r.st # "Disconnect"
        <5>1. i \in 1 .. Len(h) /\ j \in 1 .. Len(h)
          BY <2>3, <3>3, <4>1, <4>3
        <5> QED
          BY <2>3, <3>1, <3>3, <5>1
      <4> QED
        BY <4>2, <4>3
    <3> QED
      BY <1>8, <3>2, <3>3
  <2>4. \A i, j \in 1 .. Len(reports') :
          Tells(reports'[i], "Disconnect") /\ Tells(reports'[j], "Disconnect") => i = j
    BY <2>2
  <2>5. \A i, j \in 1 .. Len(inbox'[t][d]) :
          inbox'[t][d][i] = "Disconnect" /\ inbox'[t][d][j] = "Disconnect" => i = j
    BY <2>3
  <2> QED
    BY <2>1, <2>4, <2>5 DEF OnlyOne, Tells, IsUpdate
<1>18. LastOne(t, d)'
  <2> SUFFICES ASSUME CanbusOf(d) = "null"
               PROVE  /\ \A i, k \in 1 .. Len(reports') :
                           Tells(reports'[i], "Disconnect") /\ i < k => ~IsUpdate(reports'[k])
                      /\ \A i \in 1 .. Len(inbox'[t][d]) : inbox'[t][d][i] = "Disconnect" =>
                           /\ i = Len(inbox'[t][d]) /\ reported' = "Disconnect"
                           /\ \A k \in 1 .. Len(reports') : ~IsUpdate(reports'[k])
    BY <1>1 DEF LastOne, Tells, IsUpdate
  <2>1. \A i, k \in 1 .. Len(reports) : Tells(reports[i], "Disconnect") /\ i < k => ~IsUpdate(reports[k])
    BY DEF DisconnectInv, LastOne
  <2>2. \A i \in 1 .. Len(h) : h[i] = "Disconnect" =>
          /\ i = Len(h) /\ reported = "Disconnect"
          /\ \A k \in 1 .. Len(reports) : ~IsUpdate(reports[k])
    BY DEF DisconnectInv, LastOne
  <2>3. ASSUME NEW i \in 1 .. Len(reports'), NEW k \in 1 .. Len(reports'),
               Tells(reports'[i], "Disconnect"), i < k
        PROVE  ~IsUpdate(reports'[k])
    <3>1. i \in 1 .. Len(reports) - 1 /\ k \in 1 .. Len(reports) - 1 /\ i + 1 < k + 1
      BY <1>5, <2>3
    <3> QED
      BY <1>5, <1>11, <2>1, <2>3, <3>1
  <2>4. ASSUME NEW i \in 1 .. Len(inbox'[t][d]), inbox'[t][d][i] = "Disconnect"
        PROVE  /\ i = Len(inbox'[t][d]) /\ reported' = "Disconnect"
               /\ \A k \in 1 .. Len(reports') : ~IsUpdate(reports'[k])
    <3>1. CASE i \in 1 .. Len(h) /\ h[i] = "Disconnect"
      <4>1. /\ i = Len(h) /\ reported = "Disconnect"
            /\ \A k \in 1 .. Len(reports) : ~IsUpdate(reports[k])
        BY <2>2, <3>1
      <4>2. ~IsUpdate(r)
        BY <1>5, <4>1
      <4>3. inbox'[t][d] = h /\ reported' = reported
        BY <1>6, <4>2
      <4>4. \A k \in 1 .. Len(reports') : ~IsUpdate(reports'[k])
        BY <1>5, <1>11, <4>1
      <4> QED
        BY <4>1, <4>3, <4>4
    <3>2. CASE ~(i \in 1 .. Len(h) /\ h[i] = "Disconnect")
      <4>1. /\ IsUpdate(r) /\ reported' = r.st
            /\ Len(inbox'[t][d]) = Len(h) + 1 /\ inbox'[t][d][Len(h) + 1] = r.st
            /\ \A k \in 1 .. Len(h) : inbox'[t][d][k] = h[k]
        BY <1>8, <2>4, <3>2
      <4>2. i = Len(h) + 1
        <5>1. i \in 1 .. Len(h) => FALSE
          BY <2>4, <3>2, <4>1
        <5>2. Len(h) \in Nat
          BY <1>7
        <5>3. i \in 1 .. (Len(h) + 1)
          BY <4>1
        <5> QED
          BY <5>1, <5>2, <5>3
      <4>3. Tells(reports[1], "Disconnect") /\ reported' = "Disconnect"
        BY <1>5, <2>4, <4>1, <4>2 DEF Tells
      <4>4. ASSUME NEW k \in 1 .. Len(reports') PROVE ~IsUpdate(reports'[k])
        <5>1. k \in 1 .. Len(reports) - 1
          BY <1>5
        <5>2. /\ k + 1 \in 1 .. Len(reports) /\ 1 \in 1 .. Len(reports) /\ 1 < k + 1
              /\ reports'[k] = reports[k + 1]
          BY <1>5, <1>11, <5>1
        <5>3. ~IsUpdate(reports[k + 1])
          BY <2>1, <4>3, <5>2
        <5> QED
          BY <5>2, <5>3
      <4> QED
        BY <4>1, <4>2, <4>3, <4>4
    <3> QED
      BY <3>1, <3>2
  <2> QED
    BY <2>3, <2>4
<1>19. Following(d)'
  <2>1. CASE deltas' = deltas
    BY <1>1, <2>1 DEF Following, ActsAt, ConnectsAt, DisconnectInv
  <2>2. CASE Grows(desired.st)
    <3> SUFFICES ASSUME NEW i \in 1 .. Len(deltas'), deltas'[i].st = "Disconnect", ActsAt(d, i)'
                 PROVE  desired.st = "Disconnect" /\ \A k \in i .. Len(deltas') : deltas'[k].st = "Disconnect"
      BY <1>1 DEF Following
    <3>1. /\ Len(deltas') = Len(deltas) + 1 /\ deltas'[Len(deltas) + 1].st = desired.st
          /\ \A k \in 1 .. Len(deltas) : deltas'[k].st = deltas[k].st
      BY <2>2 DEF Grows
    <3>2. i \in 1 .. Len(deltas) + 1
      BY <3>1
    <3>3. ActsAt(d, i)
      BY <1>1, <1>2, <2>2, <3>2, GrownFacts
    <3>4. CASE i = Len(deltas) + 1
      BY <1>2, <3>1, <3>4
    <3>5. CASE i \in 1 .. Len(deltas)
      <4>1. desired.st = "Disconnect" /\ \A k \in i .. Len(deltas) : deltas[k].st = "Disconnect"
        BY <3>1, <3>3, <3>5 DEF DisconnectInv, Following
      <4>2. \A k \in i .. Len(deltas) + 1 : k = Len(deltas) + 1 \/ (k \in i .. Len(deltas) /\ k \in 1 .. Len(deltas))
        BY <1>2, <3>5
      <4> QED
        BY <3>1, <4>1, <4>2
    <3>6. i = Len(deltas) + 1 \/ i \in 1 .. Len(deltas)
      BY <1>2, <3>2
    <3> QED
      BY <3>4, <3>5, <3>6
  <2> QED
    BY <1>4, <2>1, <2>2
<1>20. \/ deltas' = deltas /\ ActsAtEnd(d)' = ActsAtEnd(d)
          /\ DeltasSay("Connect")' = DeltasSay("Connect") /\ DeltasSay("Open")' = DeltasSay("Open")
       \/ /\ desired.st # "Connect" => (ActsAtEnd(d)' => ActsAtEnd(d)) /\ (DeltasSay("Connect")' => DeltasSay("Connect"))
          /\ desired.st # "Open" => (DeltasSay("Open")' => DeltasSay("Open"))
  <2>1. CASE deltas' = deltas
    BY <1>1, <2>1 DEF ActsAtEnd, ConnectsAt, DeltasSay
  <2>2. CASE Grows(desired.st)
    BY <1>1, <1>2, <2>2, GrownFacts
  <2> QED
    BY <1>4, <2>1, <2>2
<1>21. StillWaits(t, d)'
  <2> SUFFICES ASSUME desired.st = "Disconnect", ActsAtEnd(d)'
               PROVE  Waits(t, "Disconnect")' /\ cstate[t][d] # "Disconnect"
    BY <1>1 DEF StillWaits
  <2>1. ActsAtEnd(d)
    BY <1>20
  <2>2. Waits(t, "Disconnect") /\ cstate[t][d] # "Disconnect"
    BY <1>1, <2>1 DEF DisconnectInv, StillWaits
  <2> QED
    BY <1>1, <2>2 DEF Waits
<1>22. NoOldConnect(t, d)'
  <2> SUFFICES ASSUME cstate[t][d] = "Disconnect", CanbusOf(d) # "unknown", ~Waits(t, "Connect")'
               PROVE  ~DeltasSay("Connect")' /\ desired.st # "Connect"
    BY <1>1 DEF NoOldConnect
  <2>1. ~Waits(t, "Connect")
    BY <1>1 DEF Waits
  <2>2. ~DeltasSay("Connect") /\ desired.st # "Connect"
    BY <1>1, <2>1 DEF DisconnectInv, NoOldConnect
  <2> QED
    BY <1>20, <2>2
<1>23. NoOldOpen(t, d)'
  BY <1>1, <1>20 DEF NoOldOpen, DisconnectInv
<1>24. Unanswered(t, d)'
  BY <1>1 DEF Unanswered, DisconnectInv
<1>25. Remembered(t, d)'
  <2> SUFFICES ASSUME cstate[t][d] = "Disconnect", CanbusOf(d) # "unknown", client[t][d] = "live",
                      pc[t] \notin {"unsubscribe", "publish2"}
               PROVE  inbox'[t][d] # <<>> \/ reported' = "Disconnect"
    BY <1>1 DEF Remembered
  <2>1. h # <<>> \/ reported = "Disconnect"
    BY DEF DisconnectInv, Remembered
  <2>2. pc[t] \notin {"connect", "subscribe"}
    BY DEF Attached, DisconnectInv, NoOldOpen
  <2>3. Subscribed(t, d)
    BY <1>7, <2>2 DEF Subscribed, Attached, Points
  <2> QED
    BY <1>6, <1>9, <1>10, <2>1, <2>3
<1> QED
  BY <1>14, <1>15, <1>16, <1>17, <1>18, <1>19, <1>21, <1>22, <1>23, <1>24, <1>25 DEF DisconnectInv

\* What is left of the deltas when the first is handled.
LEMMA DeltaTaken ==
    ASSUME NEW CONSTANT d, deltas \in Seq(DeltaMessage), deltas # <<>>, deltas' = Tail(deltas),
           CanbusOf(d)' # "unknown" => CanbusOf(d) # "unknown" \/ Head(deltas).st = "Open",
           \/ CanbusOf(d)' \notin Acting \/ CanbusOf(d) \in Acting
           \/ Head(deltas).st = "Connect" /\ CanbusOf(d) # "unknown"
    PROVE  /\ Len(deltas) \in Nat \ {0} /\ Len(deltas') = Len(deltas) - 1
           /\ Head(deltas) = deltas[1] /\ 1 \in 1 .. Len(deltas)
           /\ \A i \in 1 .. Len(deltas) - 1 : deltas'[i] = deltas[i + 1] /\ i + 1 \in 1 .. Len(deltas)
           /\ \A s : DeltasSay(s)' => DeltasSay(s)
           /\ \A i \in 1 .. Len(deltas) - 1 : ActsAt(d, i)' => ActsAt(d, i + 1)
           /\ ActsAtEnd(d)' => ActsAtEnd(d)
<1>1. /\ Len(deltas) \in Nat \ {0} /\ Len(deltas') = Len(deltas) - 1
      /\ Head(deltas) = deltas[1] /\ 1 \in 1 .. Len(deltas)
      /\ \A i \in 1 .. Len(deltas) - 1 : deltas'[i] = deltas[i + 1] /\ i + 1 \in 1 .. Len(deltas)
  <2>1. /\ Len(deltas) \in Nat \ {0} /\ Len(deltas') = Len(deltas) - 1 /\ Head(deltas) = deltas[1]
        /\ \A i \in 1 .. Len(deltas) - 1 : deltas'[i] = deltas[i + 1]
    BY TailAt
  <2>2. 1 \in 1 .. Len(deltas) /\ \A i \in 1 .. Len(deltas) - 1 : i + 1 \in 1 .. Len(deltas)
    BY <2>1
  <2> QED
    BY <2>1, <2>2
<1>2. ASSUME NEW s, DeltasSay(s)'
      PROVE  DeltasSay(s)
  <2>1. PICK i \in 1 .. Len(deltas) - 1 : deltas'[i].st = s
    BY <1>1, <1>2 DEF DeltasSay
  <2>2. i + 1 \in 1 .. Len(deltas) /\ deltas[i + 1].st = s
    BY <1>1, <2>1
  <2> QED
    BY <2>2 DEF DeltasSay
<1>3. ASSUME NEW j \in 1 .. Len(deltas) - 1, ConnectsAt(d, j)'
      PROVE  ConnectsAt(d, j + 1)
  <2>1. /\ deltas'[j].st = "Connect"
        /\ CanbusOf(d)' # "unknown" \/ \E k \in 1 .. (j - 1) : deltas'[k].st = "Open"
    BY <1>3 DEF ConnectsAt
  <2>2. deltas[j + 1].st = "Connect" /\ (j + 1) - 1 = j /\ j \in Nat /\ 1 \in 1 .. j
    BY <1>1, <2>1
  <2>3. CASE CanbusOf(d)' # "unknown"
    <3>1. CanbusOf(d) # "unknown" \/ deltas[1].st = "Open"
      BY <1>1, <2>3
    <3> QED
      BY <2>2, <3>1 DEF ConnectsAt
  <2>4. CASE \E k \in 1 .. (j - 1) : deltas'[k].st = "Open"
    <3>1. PICK k \in 1 .. (j - 1) : deltas'[k].st = "Open"
      BY <2>4
    <3>2. k + 1 \in 1 .. j /\ k \in 1 .. Len(deltas) - 1
      BY <1>1, <2>2
    <3>3. deltas[k + 1].st = "Open"
      BY <1>1, <3>1, <3>2
    <3> QED
      BY <2>2, <3>2, <3>3 DEF ConnectsAt
  <2> QED
    BY <2>1, <2>3, <2>4
<1>4. CanbusOf(d)' \in Acting => CanbusOf(d) \in Acting \/ ConnectsAt(d, 1)
  BY <1>1 DEF ConnectsAt
<1>5. ASSUME NEW i \in 1 .. Len(deltas) - 1, ActsAt(d, i)'
      PROVE  ActsAt(d, i + 1)
  <2>1. CanbusOf(d)' \in Acting \/ \E j \in 1 .. (i - 1) : ConnectsAt(d, j)'
    BY <1>5 DEF ActsAt, Acting
  <2>2. (i + 1) - 1 = i /\ 1 \in 1 .. i /\ i \in Nat
    BY <1>1
  <2>3. CASE CanbusOf(d)' \in Acting
    BY <1>4, <2>2, <2>3 DEF ActsAt
  <2>4. CASE \E j \in 1 .. (i - 1) : ConnectsAt(d, j)'
    <3>1. PICK j \in 1 .. (i - 1) : ConnectsAt(d, j)'
      BY <2>4
    <3>2. j \in 1 .. Len(deltas) - 1 /\ j + 1 \in 1 .. i
      BY <1>1, <2>2
    <3>3. ConnectsAt(d, j + 1)
      BY <1>3, <3>1, <3>2
    <3> QED
      BY <2>2, <3>2, <3>3 DEF ActsAt
  <2> QED
    BY <2>1, <2>3, <2>4
<1>6. ASSUME ActsAtEnd(d)'
      PROVE  ActsAtEnd(d)
  <2>1. CanbusOf(d)' \in Acting \/ \E j \in 1 .. Len(deltas) - 1 : ConnectsAt(d, j)'
    BY <1>1, <1>6 DEF ActsAtEnd, Acting
  <2>2. CASE CanbusOf(d)' \in Acting
    BY <1>1, <1>4, <2>2 DEF ActsAtEnd
  <2>3. CASE \E j \in 1 .. Len(deltas) - 1 : ConnectsAt(d, j)'
    BY <1>1, <1>3, <2>3 DEF ActsAtEnd
  <2> QED
    BY <2>1, <2>2, <2>3
<1> QED
  BY <1>1, <1>2, <1>5, <1>6

\* What the handling of a delta may change of the socket, and may report.
LEMMA HandledFacts ==
    ASSUME NEW CONSTANT d, NEW m \in DeltaMessage, Handled(d, m), CanbusOf(d) \in Canbus \cup {"unknown"}
    PROVE  /\ \/ CanbusOf(d)' = CanbusOf(d)
              \/ m.st = "Open" /\ CanbusOf(d) = "unknown" /\ CanbusOf(d)' = "unset"
              \/ m.st = "Close" /\ CanbusOf(d)' = "unknown"
              \/ m.st = "Connect" /\ CanbusOf(d) # "unknown" /\ CanbusOf(d)' = "connected" /\ TellsNow("Connect")
              \/ m.st = "Connect" /\ CanbusOf(d) # "unknown" /\ CanbusOf(d)' = "failed"
              \/ m.st = "Disconnect" /\ CanbusOf(d) \in Acting /\ CanbusOf(d)' = "null" /\ TellsNow("Disconnect")
           /\ \/ UNCHANGED reports
              \/ \E r \in ReportMessage :
                   /\ reports' = Append(reports, r)
                   /\ Tells(r, "Disconnect") =>
                        m.st = "Disconnect" /\ CanbusOf(d) \in Acting /\ CanbusOf(d)' = "null"
                   /\ m.st = "Disconnect" /\ CanbusOf(d) = "null" => ~IsUpdate(r)
<1> DEFINE Socket ==
              \/ CanbusOf(d)' = CanbusOf(d)
              \/ m.st = "Open" /\ CanbusOf(d) = "unknown" /\ CanbusOf(d)' = "unset"
              \/ m.st = "Close" /\ CanbusOf(d)' = "unknown"
              \/ m.st = "Connect" /\ CanbusOf(d) # "unknown" /\ CanbusOf(d)' = "connected" /\ TellsNow("Connect")
              \/ m.st = "Connect" /\ CanbusOf(d) # "unknown" /\ CanbusOf(d)' = "failed"
              \/ m.st = "Disconnect" /\ CanbusOf(d) \in Acting /\ CanbusOf(d)' = "null" /\ TellsNow("Disconnect")
           Told ==
              \/ UNCHANGED reports
              \/ \E r \in ReportMessage :
                   /\ reports' = Append(reports, r)
                   /\ Tells(r, "Disconnect") =>
                        m.st = "Disconnect" /\ CanbusOf(d) \in Acting /\ CanbusOf(d)' = "null"
                   /\ m.st = "Disconnect" /\ CanbusOf(d) = "null" => ~IsUpdate(r)
<1>1. Socket
  BY DEF Handled
<1>2. TellsNothing => Told
  BY DEF TellsNothing, Tells
<1>3. ASSUME NEW s, TellsNow(s), s # "Disconnect", ~(m.st = "Disconnect" /\ CanbusOf(d) = "null")
      PROVE  Told
  BY <1>3 DEF TellsNow, Tells
<1>4. TellsNow("Disconnect") /\ m.st = "Disconnect" /\ CanbusOf(d) \in Acting /\ CanbusOf(d)' = "null" => Told
  BY DEF TellsNow, Tells, Acting
<1>5. \/ TellsNothing
      \/ TellsNow("Open") /\ ~(m.st = "Disconnect" /\ CanbusOf(d) = "null")
      \/ TellsNow("Close") /\ ~(m.st = "Disconnect" /\ CanbusOf(d) = "null")
      \/ TellsNow("Connect") /\ ~(m.st = "Disconnect" /\ CanbusOf(d) = "null")
      \/ TellsNow("Select") /\ ~(m.st = "Disconnect" /\ CanbusOf(d) = "null")
      \/ TellsNow("StartMsgFilter") /\ ~(m.st = "Disconnect" /\ CanbusOf(d) = "null")
      \/ TellsNow("Disconnect") /\ m.st = "Disconnect" /\ CanbusOf(d) \in Acting /\ CanbusOf(d)' = "null"
  BY DEF Handled
<1> HIDE DEF Socket, Told
<1>6. Told
  BY <1>2, <1>3, <1>4, <1>5
<1> QED
  BY <1>1, <1>6 DEF Socket, Told

\* A report that tells of no "Disconnect" leaves alone what is known of them.
LEMMA OtherReport ==
    ASSUME NEW CONSTANT t, NEW CONSTANT d, reports \in Seq(ReportMessage), DisconnectInv(t, d),
           inbox'[t][d] = inbox[t][d],
           \/ UNCHANGED reports
           \/ \E r \in ReportMessage : ~Tells(r, "Disconnect") /\ reports' = Append(reports, r)
    PROVE  /\ ReportsTell("Disconnect")' = ReportsTell("Disconnect")
           /\ Hears(t, d, "Disconnect")' = Hears(t, d, "Disconnect")
           /\ OnlyOne(t, d)'
<1>1. /\ Hears(t, d, "Disconnect")' = Hears(t, d, "Disconnect")
      /\ \A i, j \in 1 .. Len(inbox'[t][d]) :
           inbox'[t][d][i] = "Disconnect" /\ inbox'[t][d][j] = "Disconnect" => i = j
  BY DEF Hears, DisconnectInv, OnlyOne
<1>2. CASE UNCHANGED reports
  <2>1. ReportsTell("Disconnect")' = ReportsTell("Disconnect")
    BY <1>2 DEF ReportsTell
  <2> QED
    BY <1>1, <1>2, <2>1 DEF OnlyOne, DisconnectInv
<1>3. ASSUME NEW r \in ReportMessage, ~Tells(r, "Disconnect"), reports' = Append(reports, r)
      PROVE  ReportsTell("Disconnect")' = ReportsTell("Disconnect") /\ OnlyOne(t, d)'
  <2>1. /\ Len(reports) \in Nat /\ Len(reports') = Len(reports) + 1
        /\ reports'[Len(reports) + 1] = r
        /\ \A i \in 1 .. Len(reports) : reports'[i] = reports[i]
        /\ \A s : ReportsTell(s)' <=> ReportsTell(s) \/ Tells(r, s)
    BY <1>3, ReportAppended
  <2>2. ReportsTell("Disconnect")' <=> ReportsTell("Disconnect")
    BY <1>3, <2>1
  <2>3. ASSUME NEW i \in 1 .. Len(reports'), NEW j \in 1 .. Len(reports'),
               Tells(reports'[i], "Disconnect"), Tells(reports'[j], "Disconnect")
        PROVE  i = j
    <3>1. i \in 1 .. Len(reports) /\ j \in 1 .. Len(reports)
      BY <1>3, <2>1, <2>3
    <3> QED
      BY <2>1, <2>3, <3>1 DEF DisconnectInv, OnlyOne
  <2>4. \A i, j \in 1 .. Len(reports') :
          Tells(reports'[i], "Disconnect") /\ Tells(reports'[j], "Disconnect") => i = j
    BY <2>3
  <2>5. ~(ReportsTell("Disconnect")' /\ Hears(t, d, "Disconnect")')
    BY <1>1, <2>2 DEF DisconnectInv, OnlyOne
  <2>6. OnlyOne(t, d)'
    BY <1>1, <2>4, <2>5 DEF OnlyOne, Tells, IsUpdate
  <2>7. ReportsTell("Disconnect")' = ReportsTell("Disconnect")
    BY <2>2 DEF ReportsTell
  <2> QED
    BY <2>6, <2>7
<1> QED
  BY <1>1, <1>2, <1>3

\* The daemon dies over a delta, perhaps after it has reported a Close.
LEMMA StoppedKeeps ==
    ASSUME NEW CONSTANT t, NEW CONSTANT d, SessionTyped, DisconnectInv(t, d), Routed(t, d),
           Stopped(d, Head(deltas))
    PROVE  DisconnectInv(t, d)'
<1>1. /\ cstate'[t][d] = cstate[t][d] /\ inbox'[t][d] = inbox[t][d] /\ client'[t][d] = client[t][d]
      /\ pc'[t] = pc[t] /\ op'[t] = op[t]
      /\ UNCHANGED <<desired, reported>> /\ (~logging => ~logging')
      /\ CanbusOf(d)' = "unknown" /\ deltas' = <<>>
  BY DEF Routed, SameEntry, Stopped
<1>2. reports \in Seq(ReportMessage)
  BY DEF SessionTyped, WorldType
<1>3. \/ UNCHANGED reports
      \/ \E r \in ReportMessage : ~Tells(r, "Disconnect") /\ reports' = Append(reports, r)
  BY DEF Stopped, TellsNow, Tells
<1>4. /\ ReportsTell("Disconnect")' = ReportsTell("Disconnect")
      /\ Hears(t, d, "Disconnect")' = Hears(t, d, "Disconnect")
      /\ OnlyOne(t, d)'
  BY <1>1, <1>2, <1>3, OtherReport
<1>5. ~DeltasSay("Connect")' /\ ~DeltasSay("Open")' /\ ~ActsAtEnd(d)'
  BY <1>1 DEF DeltasSay, ActsAtEnd, Acting
<1>6. Quiet(d)' /\ ReadAgain(t, d)' /\ LastOne(t, d)' /\ StillWaits(t, d)' /\ NoOldConnect(t, d)'
      /\ Unanswered(t, d)' /\ Remembered(t, d)'
  BY <1>1, <1>5 DEF Quiet, ReadAgain, LastOne, StillWaits, NoOldConnect, Unanswered, Remembered, DisconnectInv
<1>7. Following(d)'
  BY <1>1 DEF Following
<1>8. Awaited(t, d)'
  BY <1>1, <1>4 DEF Awaited, Waits, DisconnectInv
<1>9. NoOldOpen(t, d)'
  BY <1>1, <1>5 DEF NoOldOpen, DisconnectInv
<1> QED
  BY <1>4, <1>6, <1>7, <1>8, <1>9 DEF DisconnectInv

\* The daemon handles a delta.
LEMMA HandledKeeps ==
    ASSUME NEW CONSTANT t, NEW CONSTANT d, SessionTyped, DisconnectInv(t, d), Routed(t, d),
           Handled(d, Head(deltas)), deltas' = Tail(deltas), UNCHANGED daemon
    PROVE  DisconnectInv(t, d)'
<1> DEFINE m == Head(deltas)
           before == CanbusOf(d)
           after == CanbusOf(d)'
<1>1. /\ cstate'[t][d] = cstate[t][d] /\ inbox'[t][d] = inbox[t][d] /\ client'[t][d] = client[t][d]
      /\ pc'[t] = pc[t] /\ op'[t] = op[t]
      /\ UNCHANGED <<desired, reported>> /\ (~logging => ~logging')
      /\ daemon = "up" /\ daemon' = "up" /\ deltas # <<>>
  BY DEF Routed, SameEntry
<1>2. reports \in Seq(ReportMessage) /\ deltas \in Seq(DeltaMessage) /\ SessionInv
  BY DEF SessionTyped, WorldType, SessionInv, RouteType
<1>3. m \in DeltaMessage /\ before \in Canbus \cup {"unknown"}
  <2>1. before \in Canbus \cup {"unknown"}
    BY <1>2, CanbusKnown
  <2> QED
    BY <1>1, <1>2, <2>1
<1>4. /\ \/ after = before
         \/ m.st = "Open" /\ before = "unknown" /\ after = "unset"
         \/ m.st = "Close" /\ after = "unknown"
         \/ m.st = "Connect" /\ before # "unknown" /\ after = "connected" /\ TellsNow("Connect")
         \/ m.st = "Connect" /\ before # "unknown" /\ after = "failed"
         \/ m.st = "Disconnect" /\ before \in Acting /\ after = "null" /\ TellsNow("Disconnect")
      /\ \/ UNCHANGED reports
         \/ \E r \in ReportMessage :
              /\ reports' = Append(reports, r)
              /\ Tells(r, "Disconnect") => m.st = "Disconnect" /\ before \in Acting /\ after = "null"
              /\ m.st = "Disconnect" /\ before = "null" => ~IsUpdate(r)
  BY <1>3, HandledFacts
<1>5. after # "unknown" => before # "unknown" \/ m.st = "Open"
  BY <1>4 DEF Acting
<1>6. \/ after \notin Acting \/ before \in Acting
      \/ m.st = "Connect" /\ before # "unknown"
  BY <1>4 DEF Acting
<1>7. /\ Len(deltas) \in Nat \ {0} /\ Len(deltas') = Len(deltas) - 1
      /\ m = deltas[1] /\ 1 \in 1 .. Len(deltas)
      /\ \A i \in 1 .. Len(deltas) - 1 : deltas'[i] = deltas[i + 1] /\ i + 1 \in 1 .. Len(deltas)
      /\ \A s : DeltasSay(s)' => DeltasSay(s)
      /\ \A i \in 1 .. Len(deltas) - 1 : ActsAt(d, i)' => ActsAt(d, i + 1)
      /\ ActsAtEnd(d)' => ActsAtEnd(d)
  BY <1>1, <1>2, <1>5, <1>6, DeltaTaken
<1>8. DeltasSay(m.st)
  BY <1>7 DEF DeltasSay
<1>9. ASSUME cstate[t][d] = "Disconnect"
      PROVE  m.st # "Open" /\ (after # "unknown" => before # "unknown")
  <2>1. ~DeltasSay("Open")
    BY <1>9 DEF DisconnectInv, NoOldOpen
  <2>2. m.st # "Open"
    BY <1>8, <2>1
  <2> QED
    BY <1>5, <2>2
<1>10. ASSUME m.st = "Disconnect", before \in Acting
       PROVE  /\ Waits(t, "Disconnect") /\ cstate[t][d] # "Disconnect" /\ desired.st = "Disconnect"
              /\ \A i \in 1 .. Len(deltas) : deltas[i].st = "Disconnect"
              /\ ~ReportsTell("Disconnect") /\ ~Hears(t, d, "Disconnect")
  <2>1. deltas[1].st = "Disconnect" /\ ActsAt(d, 1) /\ ActsAtEnd(d)
    BY <1>7, <1>10 DEF ActsAt, ActsAtEnd
  <2>2. desired.st = "Disconnect" /\ \A i \in 1 .. Len(deltas) : deltas[i].st = "Disconnect"
    BY <1>7, <2>1 DEF DisconnectInv, Following
  <2>3. Waits(t, "Disconnect") /\ cstate[t][d] # "Disconnect"
    BY <1>1, <2>1, <2>2 DEF DisconnectInv, StillWaits
  <2>4. before \notin {"null", "unknown"}
    BY <1>10 DEF Acting
  <2>5. ~ReportsTell("Disconnect") /\ ~Hears(t, d, "Disconnect")
    BY <2>4 DEF DisconnectInv, Awaited
  <2> QED
    BY <2>2, <2>3, <2>5
<1>11. ASSUME ReportsTell("Disconnect") \/ Hears(t, d, "Disconnect")
       PROVE  /\ Waits(t, "Disconnect") /\ cstate[t][d] # "Disconnect" /\ desired.st = "Disconnect"
              /\ before \in {"null", "unknown"} /\ after \in {before, "unknown"}
              /\ m.st = "Disconnect" /\ \A i \in 1 .. Len(deltas) : deltas[i].st = "Disconnect"
  <2>1. /\ Waits(t, "Disconnect") /\ cstate[t][d] # "Disconnect" /\ desired.st = "Disconnect"
        /\ before \in {"null", "unknown"}
        /\ \A i \in 1 .. Len(deltas) : deltas[i].st = "Disconnect"
    BY <1>11 DEF DisconnectInv, Awaited
  <2>2. m.st = "Disconnect"
    BY <1>7, <2>1
  <2>3. after = before
    BY <1>4, <2>1, <2>2 DEF Acting
  <2> QED
    BY <2>1, <2>2, <2>3
<1> HIDE DEF m
<1>12. /\ Waits(t, "Connect")' = Waits(t, "Connect") /\ Waits(t, "Disconnect")' = Waits(t, "Disconnect")
       /\ Hears(t, d, "Disconnect")' = Hears(t, d, "Disconnect")
  BY <1>1 DEF Waits, Hears
<1>13. /\ \A s : ReportsTell(s) => ReportsTell(s)'
       /\ TellsNow("Connect") => ReportsTell("Connect")'
  <2>1. CASE UNCHANGED reports
    <3>1. \A s : ReportsTell(s) => ReportsTell(s)'
      BY <2>1 DEF ReportsTell
    <3>2. ~TellsNow("Connect")
      <4> SUFFICES ASSUME NEW r \in ReportMessage, reports' = Append(reports, r) PROVE FALSE
        BY DEF TellsNow
      <4>1. Len(reports') = Len(reports) + 1 /\ Len(reports) \in Nat
        BY <1>2, ReportAppended
      <4> QED
        BY <2>1, <4>1
    <3> QED
      BY <3>1, <3>2
  <2>2. CASE \E r \in ReportMessage : reports' = Append(reports, r)
    <3>1. \A r \in ReportMessage : reports' = Append(reports, r) =>
            \A s : ReportsTell(s)' <=> ReportsTell(s) \/ Tells(r, s)
      BY <1>2, ReportAppended
    <3> QED
      BY <2>2, <3>1 DEF TellsNow
  <2> QED
    BY <1>4, <2>1, <2>2
<1>14. Quiet(d)'
  BY <1>1 DEF Quiet, DisconnectInv
<1>15. ReadAgain(t, d)'
  <2> SUFFICES ASSUME after = "connected", cstate[t][d] = "Disconnect"
               PROVE  Waits(t, "Connect") /\ (inbox[t][d] # <<>> \/ ReportsTell("Connect")')
    BY <1>1, <1>12 DEF ReadAgain
  <2>1. CASE before = "connected"
    BY <1>13, <2>1 DEF DisconnectInv, ReadAgain
  <2>2. CASE before # "connected"
    <3>1. m.st = "Connect" /\ before # "unknown" /\ TellsNow("Connect")
      BY <1>4, <2>2
    <3>2. Waits(t, "Connect")
      BY <1>8, <3>1 DEF DisconnectInv, NoOldConnect
    <3> QED
      BY <1>13, <3>1, <3>2
  <2> QED
    BY <2>1, <2>2
<1>16. Following(d)'
  <2> SUFFICES ASSUME NEW i \in 1 .. Len(deltas'), deltas'[i].st = "Disconnect", ActsAt(d, i)'
               PROVE  desired.st = "Disconnect" /\ \A k \in i .. Len(deltas') : deltas'[k].st = "Disconnect"
    BY <1>1 DEF Following
  <2>1. i \in 1 .. Len(deltas) - 1
    BY <1>7
  <2>2. i + 1 \in 1 .. Len(deltas) /\ deltas[i + 1].st = "Disconnect" /\ ActsAt(d, i + 1)
    BY <1>7, <2>1
  <2>3. desired.st = "Disconnect" /\ \A k \in i + 1 .. Len(deltas) : deltas[k].st = "Disconnect"
    BY <2>2 DEF DisconnectInv, Following
  <2>4. \A k \in i .. Len(deltas') : k \in 1 .. Len(deltas) - 1 /\ k + 1 \in i + 1 .. Len(deltas)
    BY <1>7, <2>1
  <2> QED
    BY <1>7, <2>3, <2>4
<1>17. StillWaits(t, d)'
  BY <1>1, <1>7, <1>12 DEF DisconnectInv, StillWaits
<1>18. NoOldConnect(t, d)'
  <2> SUFFICES ASSUME cstate[t][d] = "Disconnect", after # "unknown", ~Waits(t, "Connect")
               PROVE  ~DeltasSay("Connect")' /\ desired.st # "Connect"
    BY <1>1, <1>12 DEF NoOldConnect
  <2>1. ~DeltasSay("Connect") /\ (desired.st = "Connect" => deltas = <<>> /\ reports = <<>>)
    BY <1>9 DEF DisconnectInv, NoOldConnect
  <2> QED
    BY <1>1, <1>7, <2>1
<1>19. NoOldOpen(t, d)'
  BY <1>1, <1>7 DEF NoOldOpen, DisconnectInv
<1>20. Unanswered(t, d)'
  <2> SUFFICES ASSUME cstate[t][d] = "Disconnect", after = "failed", client[t][d] = "live",
                      ~(pc[t] = "wait" /\ op[t] # "Disconnect")
               PROVE  FALSE
    BY <1>1 DEF Unanswered
  <2>1. before # "failed"
    BY <1>1 DEF DisconnectInv, Unanswered
  <2>2. m.st = "Connect" /\ before # "unknown"
    BY <1>4, <2>1
  <2>3. Waits(t, "Connect")
    BY <1>8, <2>2 DEF DisconnectInv, NoOldConnect
  <2> QED
    BY <2>3 DEF Waits
<1>21. Remembered(t, d)'
  BY <1>1, <1>9 DEF DisconnectInv, Remembered
<1>22. CASE \/ UNCHANGED reports
            \/ \E r \in ReportMessage : /\ ~Tells(r, "Disconnect") /\ reports' = Append(reports, r)
                                        /\ m.st = "Disconnect" /\ before = "null" => ~IsUpdate(r)
  <2>1. /\ ReportsTell("Disconnect")' = ReportsTell("Disconnect")
        /\ OnlyOne(t, d)'
    BY <1>1, <1>2, <1>22, OtherReport
  <2>2. Awaited(t, d)'
    <3> SUFFICES ASSUME ReportsTell("Disconnect") \/ Hears(t, d, "Disconnect")
                 PROVE  /\ Waits(t, "Disconnect") /\ cstate[t][d] # "Disconnect"
                        /\ desired.st = "Disconnect" /\ after \in {"null", "unknown"}
                        /\ \A i \in 1 .. Len(deltas') : deltas'[i].st = "Disconnect"
      BY <1>1, <1>12, <2>1 DEF Awaited
    <3>1. \A i \in 1 .. Len(deltas') : deltas'[i].st = "Disconnect"
      BY <1>7, <1>11
    <3> QED
      BY <1>11, <3>1
  <2>3. LastOne(t, d)'
    <3>1. CASE after # "null"
      BY <3>1 DEF LastOne
    <3>2. CASE ~(ReportsTell("Disconnect") \/ Hears(t, d, "Disconnect"))
      <4>1. ~ReportsTell("Disconnect")' /\ ~Hears(t, d, "Disconnect")'
        BY <1>12, <2>1, <3>2
      <4> QED
        BY <4>1 DEF LastOne, ReportsTell, Hears
    <3>3. CASE after = "null" /\ (ReportsTell("Disconnect") \/ Hears(t, d, "Disconnect"))
      <4>1. before = "null" /\ m.st = "Disconnect"
        BY <1>11, <3>3
      <4>2. /\ \A i, k \in 1 .. Len(reports) : Tells(reports[i], "Disconnect") /\ i < k => ~IsUpdate(reports[k])
            /\ \A i \in 1 .. Len(inbox[t][d]) : inbox[t][d][i] = "Disconnect" =>
                 /\ i = Len(inbox[t][d]) /\ reported = "Disconnect"
                 /\ \A k \in 1 .. Len(reports) : ~IsUpdate(reports[k])
        BY <4>1 DEF DisconnectInv, LastOne
      <4>3. CASE UNCHANGED reports
        BY <1>1, <4>2, <4>3 DEF LastOne
      <4>4. ASSUME NEW r \in ReportMessage, ~IsUpdate(r), reports' = Append(reports, r)
            PROVE  LastOne(t, d)'
        <5>1. /\ Len(reports) \in Nat /\ Len(reports') = Len(reports) + 1
              /\ reports'[Len(reports) + 1] = r
              /\ \A i \in 1 .. Len(reports) : reports'[i] = reports[i]
          BY <1>2, <4>4, ReportAppended
        <5>2. \A k \in 1 .. Len(reports') : k \in 1 .. Len(reports) \/ ~IsUpdate(reports'[k])
          BY <4>4, <5>1
        <5>3. ASSUME NEW i \in 1 .. Len(reports'), NEW k \in 1 .. Len(reports'),
                     Tells(reports'[i], "Disconnect"), i < k
              PROVE  ~IsUpdate(reports'[k])
          <6>1. i \in 1 .. Len(reports)
            BY <5>2, <5>3 DEF Tells
          <6> QED
            BY <4>2, <5>1, <5>2, <5>3, <6>1
        <5>4. \A i, k \in 1 .. Len(reports') : Tells(reports'[i], "Disconnect") /\ i < k => ~IsUpdate(reports'[k])
          BY <5>3
        <5>5. \A i \in 1 .. Len(inbox'[t][d]) : inbox'[t][d][i] = "Disconnect" =>
                 /\ i = Len(inbox'[t][d]) /\ reported' = "Disconnect"
                 /\ \A k \in 1 .. Len(reports') : ~IsUpdate(reports'[k])
          BY <1>1, <4>2, <5>1, <5>2
        <5> QED
          BY <5>4, <5>5 DEF LastOne, Tells, IsUpdate
      <4> QED
        BY <1>22, <4>1, <4>3, <4>4
    <3> QED
      BY <3>1, <3>2, <3>3
  <2> QED
    BY <1>14, <1>15, <1>16, <1>17, <1>18, <1>19, <1>20, <1>21, <2>1, <2>2, <2>3 DEF DisconnectInv
<1>23. ASSUME NEW r \in ReportMessage, reports' = Append(reports, r),
              m.st = "Disconnect", before \in Acting, after = "null"
       PROVE  DisconnectInv(t, d)'
  <2>1. /\ Waits(t, "Disconnect") /\ cstate[t][d] # "Disconnect" /\ desired.st = "Disconnect"
        /\ \A i \in 1 .. Len(deltas) : deltas[i].st = "Disconnect"
        /\ ~ReportsTell("Disconnect") /\ ~Hears(t, d, "Disconnect")
    BY <1>10, <1>23
  <2>2. /\ Len(reports) \in Nat /\ Len(reports') = Len(reports) + 1
        /\ \A i \in 1 .. Len(reports) : reports'[i] = reports[i]
    BY <1>2, <1>23, ReportAppended
  <2>3. \A i \in 1 .. Len(reports') : Tells(reports'[i], "Disconnect") => i = Len(reports')
    <3>1. \A i \in 1 .. Len(reports) : ~Tells(reports[i], "Disconnect")
      BY <2>1 DEF ReportsTell
    <3> QED
      BY <2>2, <3>1
  <2>4. ~Hears(t, d, "Disconnect")'
    BY <1>12, <2>1
  <2>5. \A i \in 1 .. Len(inbox'[t][d]) : inbox'[t][d][i] # "Disconnect"
    BY <2>4 DEF Hears
  <2>6. Awaited(t, d)'
    <3>1. \A i \in 1 .. Len(deltas') : deltas'[i].st = "Disconnect"
      BY <1>7, <2>1
    <3> QED
      BY <1>1, <1>12, <1>23, <2>1, <3>1 DEF Awaited
  <2>7. OnlyOne(t, d)'
    <3>1. \A i, j \in 1 .. Len(reports') :
            Tells(reports'[i], "Disconnect") /\ Tells(reports'[j], "Disconnect") => i = j
      BY <2>3
    <3> QED
      BY <2>4, <2>5, <3>1 DEF OnlyOne, Tells, IsUpdate
  <2>8. LastOne(t, d)'
    <3>1. \A i, k \in 1 .. Len(reports') : ~(Tells(reports'[i], "Disconnect") /\ i < k)
      BY <2>2, <2>3
    <3> QED
      BY <2>5, <3>1 DEF LastOne, Tells, IsUpdate
  <2> QED
    BY <1>14, <1>15, <1>16, <1>17, <1>18, <1>19, <1>20, <1>21, <2>6, <2>7, <2>8 DEF DisconnectInv
<1> QED
  BY <1>4, <1>22, <1>23

\* Either way the invariant is kept.
LEMMA RoutedKeeps ==
    ASSUME NEW CONSTANT t, NEW CONSTANT d, SessionTyped, DisconnectInv(t, d), Routed(t, d)
    PROVE  DisconnectInv(t, d)'
<1>1. \/ Handled(d, Head(deltas)) /\ deltas' = Tail(deltas) /\ UNCHANGED daemon
      \/ Stopped(d, Head(deltas))
  BY DEF Routed
<1> QED
  BY <1>1, HandledKeeps, StoppedKeeps

-----------------------------------------------------------------------------
(* The theorem.                                                             *)

(* A result says "Disconnect" and STATUS_NOERROR only when the socket was   *)
(* closed.                                                                  *)
Disconnected(t) ==
    result[t].op = "Disconnect" /\ result[t].rc = "STATUS_NOERROR" => result[t].canbus # "connected"

(* As long as nothing fails and no log is asked for.                        *)
UndisturbedInv(t, d) == Attached(t, d) /\ DisconnectInv(t, d) /\ Disconnected(t)
Undisturbed(t, d) == SessionTyped /\ (faults = 0 /\ logs = 0 => UndisturbedInv(t, d))

\* It holds at first.
LEMMA UndisturbedStarts ==
    ASSUME NEW CONSTANT t, NEW CONSTANT d, Alone(t, d), Init
    PROVE  Undisturbed(t, d)
<1>1. SessionTyped
  BY SessionTypedInit
<1>2. t \in Testers /\ d \in Devices
  BY DEF Alone
<1>3. /\ client[t][d] = "none" /\ cstate[t][d] = NULL /\ inbox[t][d] = <<>> /\ pc[t] = "idle"
      /\ op[t] = NULL /\ result[t].rc = NULL /\ desired.st = NULL /\ ~logging
      /\ deltas = <<>> /\ reports = <<>> /\ daemon = "up"
  BY <1>2 DEF Init
<1>4. NULL \notin {"Disconnect", "Open", "STATUS_NOERROR"}
  BY DEF NULL
<1>5. Attached(t, d) /\ Disconnected(t)
  BY <1>3, <1>4 DEF Attached, Disconnected
<1>6. ~ReportsTell("Disconnect") /\ ~Hears(t, d, "Disconnect") /\ ~DeltasSay("Open")
  BY <1>3 DEF ReportsTell, Hears, DeltasSay
<1>7. Quiet(d) /\ ReadAgain(t, d) /\ Awaited(t, d) /\ StillWaits(t, d) /\ NoOldConnect(t, d) /\ NoOldOpen(t, d)
      /\ Unanswered(t, d) /\ Remembered(t, d)
  BY <1>3, <1>4, <1>6 DEF Quiet, ReadAgain, Awaited, StillWaits, NoOldConnect, NoOldOpen, Unanswered, Remembered
<1>8. OnlyOne(t, d) /\ LastOne(t, d) /\ Following(d)
  BY <1>3, <1>6 DEF OnlyOne, LastOne, Following
<1> QED
  BY <1>1, <1>5, <1>7, <1>8 DEF Undisturbed, UndisturbedInv, DisconnectInv

\* Faults and requests for a log are only ever counted up.
LEMMA CountsGrow ==
    ASSUME SessionTyped, [Next]_vars, faults' = 0
    PROVE  faults = 0 /\ logs \in Nat /\ (logs' = logs \/ (RequestLog /\ logs' = logs + 1))
<1>1. faults \in Nat /\ logs \in Nat
  BY SessionAssumption DEF SessionTyped, WorldType
<1>2. ASSUME NEW u \in Testers, Call(u) \/ CallStep(u) \/ Restart(u)
      PROVE  UNCHANGED logs /\ (Fault \/ UNCHANGED faults)
  <2>1. CASE Call(u)
    BY <2>1 DEF Call, OpenCall, CloseCall, ConnectCall, DisconnectCall, SelectCall, StartMsgFilterCall, serviceVars
  <2>2. CASE CallStep(u) \/ Restart(u)
    <3>1. Fault \/ UNCHANGED faults
      BY <2>2 DEF CallStep, Restart, OpenConnect, OpenSubscribe, Publish, Receive, Acked, Timeout, Unsubscribe,
                  PublishClose
    <3>2. UNCHANGED logs
      BY <2>2 DEF CallStep, Restart, OpenConnect, OpenSubscribe, Publish, Receive, Acked, Timeout, Unsubscribe,
                  PublishClose, serviceVars, Desire
    <3> QED
      BY <3>1, <3>2
  <2> QED
    BY <1>2, <2>1, <2>2
<1>3. ASSUME \/ ServeReport \/ LoseDelta \/ LoseReport \/ RouteDelta \/ DaemonStop \/ DaemonStart
             \/ \E u \in Testers, e \in Devices : LoseUpdate(u, e)
      PROVE  UNCHANGED logs /\ (Fault \/ UNCHANGED faults)
  BY <1>3 DEF ServeReport, LoseDelta, LoseReport, RouteDelta, DaemonStop, DaemonStart, LoseUpdate, serviceVars
<1>4. RequestLog => logs' = logs + 1 /\ UNCHANGED faults
  BY DEF RequestLog
<1>5. ASSUME UNCHANGED vars PROVE UNCHANGED logs /\ UNCHANGED faults
  BY <1>5 DEF vars, serviceVars
<1>6. (logs' = logs \/ (RequestLog /\ logs' = logs + 1)) /\ (Fault \/ UNCHANGED faults)
  BY <1>2, <1>3, <1>4, <1>5 DEF Next
<1>7. ~Fault
  BY NoFault DEF SessionTyped
<1> QED
  BY <1>1, <1>6, <1>7

\* Every step keeps it.
LEMMA UndisturbedStep ==
    ASSUME NEW CONSTANT t, NEW CONSTANT d, Alone(t, d), Undisturbed(t, d), [Next]_vars
    PROVE  Undisturbed(t, d)'
<1>1. SessionTyped /\ SessionTyped'
  BY SessionTypedStep DEF Undisturbed
<1> SUFFICES ASSUME faults' = 0, logs' = 0 PROVE UndisturbedInv(t, d)'
  BY <1>1 DEF Undisturbed
<1>2. Attached(t, d) /\ DisconnectInv(t, d) /\ Disconnected(t)
  BY <1>1, CountsGrow DEF Undisturbed, UndisturbedInv
<1>3. /\ \/ Moved(t, d) \/ Fresh(t, d) \/ Published(t, d) \/ Closed(t, d) \/ Received(t, d)
         \/ Served(t, d) \/ Routed(t, d) \/ Started(t, d)
      /\ Noted(t, d) /\ Attached(t, d)'
  <2>1. ~RequestLog
    <3>1. logs \in Nat /\ logs' = 0
      BY <1>1, CountsGrow
    <3>2. RequestLog => logs' = logs + 1
      BY DEF RequestLog
    <3> QED
      BY <3>1, <3>2
  <2> QED
    BY <1>1, <1>2, <2>1, SessionEffect
<1>4. inbox[t][d] \in Seq(Ops) /\ reports \in Seq(ReportMessage)
  BY <1>1, OnlyTester DEF SessionTyped, WorldType
<1>5. DisconnectInv(t, d)'
  <2>1. CASE Moved(t, d)
    BY <1>2, <2>1, MovedKeeps
  <2>2. CASE Fresh(t, d)
    BY <1>2, <2>2, FreshKeeps
  <2>3. CASE Published(t, d) \/ Closed(t, d)
    BY <1>1, <1>2, <2>3, PublishedKeeps
  <2>4. CASE Received(t, d)
    BY <1>2, <1>4, <2>4, ReceivedKeeps
  <2>5. CASE Served(t, d)
    BY <1>1, <1>2, <2>5, ServedKeeps
  <2>6. CASE Routed(t, d)
    BY <1>1, <1>2, <2>6, RoutedKeeps
  <2>7. CASE Started(t, d)
    BY <1>2, <1>4, <2>7, StartedKeeps
  <2> QED
    BY <1>3, <2>1, <2>2, <2>3, <2>4, <2>5, <2>6, <2>7
<1>6. Disconnected(t)'
  <2>1. ~(Waits(t, "Disconnect") /\ cstate[t][d] = "Disconnect" /\ CanbusOf(d) = "connected")
    BY <1>2 DEF DisconnectInv, ReadAgain, Waits
  <2> QED
    BY <1>2, <1>3, <2>1 DEF Noted, Disconnected, Waits
<1> QED
  BY <1>3, <1>5, <1>6 DEF UndisturbedInv

(* With one tester and one device, whose library gives up on an answer only *)
(* when none is on its way, every PassThruDisconnect that returns           *)
(* STATUS_NOERROR has closed the CAN socket, as long as nothing is lost,     *)
(* fails or is stopped and nobody asks for a log: for any number of calls,   *)
(* any length of the service's queues, and a daemon that dies and is started *)
(* again over its own code.                                                 *)
THEOREM DisconnectUndisturbed ==
    ASSUME NEW CONSTANT t, NEW CONSTANT d, Alone(t, d)
    PROVE  Spec => []UndisturbedDisconnect
<1>1. Init => Undisturbed(t, d)
  BY UndisturbedStarts
<1>2. Undisturbed(t, d) /\ [Next]_vars => Undisturbed(t, d)'
  BY UndisturbedStep
<1>3. Undisturbed(t, d) => UndisturbedDisconnect
  <2> SUFFICES ASSUME Undisturbed(t, d), faults = 0, logs = 0, NEW u \in Testers, Succeeded(u, "Disconnect")
               PROVE  result[u].canbus # "connected"
    BY DEF UndisturbedDisconnect, DisconnectSound
  <2>1. u = t
    BY DEF Alone
  <2> QED
    BY <2>1 DEF Undisturbed, UndisturbedInv, Disconnected, Succeeded
<1> QED
  BY <1>1, <1>2, <1>3, PTL DEF Spec

-----------------------------------------------------------------------------
(* PassThruClose in a session without faults, log requests allowed.          *)
(*                                                                          *)
(* One tester with one device.  The library hears of a deleted client only  *)
(* through a "Close" that went through the desired state, a delta, the      *)
(* daemon, a report and an update.  The invariant (CloseInv) says of every   *)
(* place of a call what may be on that way: no "Close" while the device is  *)
(* in use, nothing else between a PassThruClose and the next PassThruOpen,  *)
(* and, while one takes the place of the other, nothing else behind the     *)
(* first of them.  With it a "Close" that was read, or will be, says that   *)
(* the client is gone (Deleted).  First sequences that are read at one end   *)
(* and grow at the other, then what every step does to the way (Flow) and   *)
(* to the library (Controlled), and then that each kind of step keeps it.    *)

\* All elements of a sequence are in S, one is, and those behind one in A are in B.
Every(q, S) == \A i \in 1 .. Len(q) : q[i] \in S
Some(q, S) == \E i \in 1 .. Len(q) : q[i] \in S
Order(q, A, B) == \A i, k \in 1 .. Len(q) : i < k /\ q[i] \in A => q[k] \in B

\* They hold of the empty sequence.
LEMMA EmptyOrder ==
    ASSUME NEW q, q = <<>>
    PROVE  /\ \A S : Every(q, S) /\ ~Some(q, S)
           /\ \A A, B : Order(q, A, B)
  BY DEF Every, Some, Order

\* The head is taken from a sequence.
LEMMA TailOrder ==
    ASSUME NEW T, NEW q \in Seq(T), q # <<>>
    PROVE  /\ Head(q) \in T /\ Tail(q) \in Seq(T)
           /\ \A S : Every(q, S) => Head(q) \in S /\ Every(Tail(q), S)
           /\ \A S : Some(Tail(q), S) => Some(q, S)
           /\ \A S : Some(q, S) => Head(q) \in S \/ Some(Tail(q), S)
           /\ \A S : Head(q) \in S => Some(q, S)
           /\ \A A, B : Order(q, A, B) => Order(Tail(q), A, B)
           /\ \A A, B : Order(q, A, B) /\ Head(q) \in A => Every(Tail(q), B)
<1>1. /\ Tail(q) \in Seq(T) /\ Len(Tail(q)) = Len(q) - 1 /\ Len(q) \in Nat \ {0}
      /\ Head(q) = q[1] /\ q[1] \in T
      /\ \A i \in 1 .. Len(q) - 1 : Tail(q)[i] = q[i + 1]
  BY TailAt
<1>2. 1 \in 1 .. Len(q)
  BY <1>1
<1>3. \A i \in 1 .. Len(Tail(q)) : i + 1 \in 1 .. Len(q) /\ 1 < i + 1 /\ Tail(q)[i] = q[i + 1]
  BY <1>1
<1>4. ASSUME NEW S, Every(q, S) PROVE Head(q) \in S /\ Every(Tail(q), S)
  BY <1>1, <1>2, <1>3, <1>4 DEF Every
<1>5. ASSUME NEW S, Some(Tail(q), S) PROVE Some(q, S)
  BY <1>3, <1>5 DEF Some
<1>6. ASSUME NEW S, Head(q) \in S PROVE Some(q, S)
  BY <1>1, <1>2, <1>6 DEF Some
<1>7. ASSUME NEW A, NEW B, Order(q, A, B) PROVE Order(Tail(q), A, B)
  <2> SUFFICES ASSUME NEW i \in 1 .. Len(Tail(q)), NEW k \in 1 .. Len(Tail(q)), i < k, Tail(q)[i] \in A
               PROVE  Tail(q)[k] \in B
    BY DEF Order
  <2>1. i + 1 < k + 1
    BY <1>1
  <2> QED
    BY <1>3, <1>7, <2>1 DEF Order
<1>8. ASSUME NEW A, NEW B, Order(q, A, B), Head(q) \in A PROVE Every(Tail(q), B)
  BY <1>1, <1>2, <1>3, <1>8 DEF Order, Every
<1>9. ASSUME NEW S, Some(q, S), Head(q) \notin S PROVE Some(Tail(q), S)
  <2>1. PICK i \in 1 .. Len(q) : q[i] \in S
    BY <1>9 DEF Some
  <2>2. i # 1
    BY <1>1, <1>9, <2>1
  <2>3. i - 1 \in 1 .. Len(Tail(q)) /\ Tail(q)[i - 1] = q[i]
    <3>1. i - 1 \in 1 .. Len(q) - 1 /\ (i - 1) + 1 = i
      BY <1>1, <2>2
    <3> QED
      BY <1>1, <3>1
  <2> QED
    BY <2>1, <2>3 DEF Some
<1> QED
  BY <1>1, <1>4, <1>5, <1>6, <1>7, <1>8, <1>9

\* One more element is put behind a sequence.
LEMMA AppendOrder ==
    ASSUME NEW T, NEW q \in Seq(T), NEW e \in T
    PROVE  /\ \A S : Every(q, S) /\ e \in S => Every(Append(q, e), S)
           /\ \A S : Some(Append(q, e), S) => Some(q, S) \/ e \in S
           /\ \A S : Some(q, S) \/ e \in S => Some(Append(q, e), S)
           /\ \A A, B : Order(q, A, B) /\ (Some(q, A) => e \in B) => Order(Append(q, e), A, B)
<1>1. /\ Append(q, e) \in Seq(T) /\ Len(Append(q, e)) = Len(q) + 1 /\ Len(q) \in Nat
      /\ Append(q, e)[Len(q) + 1] = e
      /\ \A i \in 1 .. Len(q) : Append(q, e)[i] = q[i]
  BY AppendAt
<1>2. \A i \in 1 .. Len(Append(q, e)) : i \in 1 .. Len(q) \/ i = Len(q) + 1
  BY <1>1
<1>3. Len(q) + 1 \in 1 .. Len(Append(q, e)) /\ \A i \in 1 .. Len(q) : i \in 1 .. Len(Append(q, e))
  BY <1>1
<1>4. ASSUME NEW S, Every(q, S), e \in S PROVE Every(Append(q, e), S)
  BY <1>1, <1>2, <1>4 DEF Every
<1>5. ASSUME NEW S, Some(Append(q, e), S) PROVE Some(q, S) \/ e \in S
  BY <1>1, <1>2, <1>5 DEF Some
<1>6. ASSUME NEW S, Some(q, S) \/ e \in S PROVE Some(Append(q, e), S)
  BY <1>1, <1>3, <1>6 DEF Some
<1>7. ASSUME NEW A, NEW B, Order(q, A, B), Some(q, A) => e \in B PROVE Order(Append(q, e), A, B)
  <2> SUFFICES ASSUME NEW i \in 1 .. Len(Append(q, e)), NEW k \in 1 .. Len(Append(q, e)), i < k, Append(q, e)[i] \in A
               PROVE  Append(q, e)[k] \in B
    BY DEF Order
  <2>1. i \in 1 .. Len(q)
    BY <1>1, <1>2
  <2>2. q[i] \in A
    BY <1>1, <2>1
  <2>3. CASE k \in 1 .. Len(q)
    BY <1>1, <1>7, <2>1, <2>2, <2>3 DEF Order
  <2>4. CASE k = Len(q) + 1
    BY <1>1, <1>7, <2>1, <2>2, <2>4 DEF Some
  <2> QED
    BY <1>2, <2>3, <2>4
<1> QED
  BY <1>4, <1>5, <1>6, <1>7

\* What is on its way, in the order in which it will be read: updates, reports, deltas.
UpdatesIn(S) == {r \in ReportMessage : IsUpdate(r) => r.st \in S}
Telling(s) == {r \in ReportMessage : Tells(r, s)}
DeltasIn(S) == {m \in DeltaMessage : m.st \in S \cup {NULL}}
Saying(s) == {m \in DeltaMessage : m.st = s}

AllIn(t, d, S) ==
    Every(inbox[t][d], S) /\ Every(reports, UpdatesIn(S)) /\ Every(deltas, DeltasIn(S))

\* Behind the first s there is nothing but s.
Heard(t, d, s) == Some(inbox[t][d], {s})
Reporting(s) == Some(reports, Telling(s))
Follows(t, d, s) ==
    /\ Order(inbox[t][d], {s}, {s}) /\ Order(reports, Telling(s), UpdatesIn({s}))
    /\ Order(deltas, Saying(s), DeltasIn({s}))
    /\ Heard(t, d, s) => Every(reports, UpdatesIn({s}))
    /\ Heard(t, d, s) \/ Reporting(s) => Every(deltas, DeltasIn({s}))

\* No "Close" is on its way, or nothing else.
Clean(t, d) == desired.st # "Close" /\ AllIn(t, d, Ops \ {"Close"})
OnlyClose(t, d) == desired.st = "Close" /\ AllIn(t, d, {"Close"})

\* A "Close" was read, or will be, only after the daemon deleted the client.
Deleted(t, d) ==
    cstate[t][d] = "Close" \/ Heard(t, d, "Close") \/ Reporting("Close") => CanbusOf(d) = "unknown"

\* "Close" was published, or could not be because of a filter with 29 bits.
Closing(t, d) ==
    /\ desired.st = "Close" /\ Follows(t, d, "Close") /\ Deleted(t, d)
    /\ cstate[t][d] = "Close" => AllIn(t, d, {"Close"})
Unclosable(t, d) == filter[t][d] = "29bit" /\ cstate[t][d] # "Close" /\ Clean(t, d)

\* "Open" was published while a "Close" may still be on its way.
Reopening(t, d) ==
    /\ desired.st = "Open" /\ cstate[t][d] # "Open"
    /\ AllIn(t, d, {"Close", "Open"}) /\ Follows(t, d, "Open")

Opens(t) == op[t] = "Open" /\ pc[t] \in {"connect", "subscribe", "publish"}
InUse(t, d) ==
    \/ pc[t] \in {"idle", "dead"} /\ client[t][d] = "live"
    \/ op[t] \notin {"Open", "Close"} /\ pc[t] \in {"publish", "wait"}
    \/ op[t] = "Close" /\ pc[t] = "publish"

CloseInv(t, d) ==
    /\ InUse(t, d) => Clean(t, d)
    /\ pc[t] \in {"idle", "dead"} /\ client[t][d] # "live" => Clean(t, d) \/ OnlyClose(t, d)
    /\ Opens(t) => Clean(t, d) \/ (OnlyClose(t, d) /\ cstate[t][d] # "Open")
    /\ Waits(t, "Open") => Clean(t, d) \/ Reopening(t, d)
    /\ Waits(t, "Close") => Closing(t, d) \/ Unclosable(t, d)
    /\ pc[t] \in {"unsubscribe", "publish2"} =>
         (OnlyClose(t, d) /\ Deleted(t, d)) \/ Unclosable(t, d)

\* What the library knows of itself.
Library(t, d) ==
    /\ cstate[t][d] = "Close" => ~opened[t]
    /\ pc[t] = "publish" /\ op[t] = "Close" => cstate[t][d] # "Close"
    /\ Opens(t) \/ Waits(t, "Open") => filter[t][d] = "none"

(* What a step does to what is on its way.  Handling a delta reports the    *)
(* state it says, except that an unknown client's Disconnect or filter is   *)
(* reported under another one.                                              *)
Yields(a, e) ==
    \/ e = a
    \/ a = "Disconnect" /\ e = "Open"
    \/ a = "StartMsgFilter" /\ e = "Select"
Yielded(m) == TellsNothing \/ \E e \in Ops : Yields(m.st, e) /\ TellsNow(e)
Adds(s) ==
    \/ deltas' = deltas
    \/ \E m \in DeltaMessage : m.st \in {s, NULL} /\ deltas' = Append(deltas, m)
Flow(t, d) ==
    \/ /\ inbox[t][d] # <<>> /\ inbox'[t][d] = Tail(inbox[t][d])
       /\ UNCHANGED <<reports, deltas>>
    \/ /\ reports # <<>> /\ reports' = Tail(reports) /\ Adds(desired.st)
       /\ \/ inbox'[t][d] = inbox[t][d]
          \/ IsUpdate(Head(reports)) /\ inbox'[t][d] = Append(inbox[t][d], Head(reports).st)
    \/ /\ deltas # <<>> /\ deltas' \in {Tail(deltas), <<>>} /\ Yielded(Head(deltas))
       /\ inbox'[t][d] = inbox[t][d]
    \/ Adds(desired.st) /\ TellsNothing /\ inbox'[t][d] = inbox[t][d]
Pipeline(t, d) ==
    inbox[t][d] \in Seq(Ops) /\ reports \in Seq(ReportMessage) /\ deltas \in Seq(DeltaMessage)

\* A report of the state e is one of the updates in S when e is in S.
LEMMA UpdateOf ==
    /\ \A r \in ReportMessage : ~IsUpdate(r) => \A S : r \in UpdatesIn(S)
    /\ \A r \in ReportMessage : \A e : Tells(r, e) => \A S : e \in S => r \in UpdatesIn(S)
    /\ \A r \in ReportMessage : IsUpdate(r) => r.st \in Ops /\ \A S : r \in UpdatesIn(S) => r.st \in S
    /\ \A r \in ReportMessage : \A e : r \in Telling(e) <=> Tells(r, e)
  BY DEF UpdatesIn, Telling, Tells, IsUpdate, ReportMessage

\* More deltas of the desired state.
LEMMA AddsIn ==
    ASSUME deltas \in Seq(DeltaMessage), NEW s, Adds(s)
    PROVE  /\ \A S : Every(deltas, DeltasIn(S)) /\ s \in S \cup {NULL} => Every(deltas', DeltasIn(S))
           /\ Order(deltas, Saying(s), DeltasIn({s})) => Order(deltas', Saying(s), DeltasIn({s}))
<1>1. CASE deltas' = deltas
  BY <1>1
<1>2. ASSUME NEW m \in DeltaMessage, m.st \in {s, NULL}, deltas' = Append(deltas, m)
      PROVE  /\ \A S : Every(deltas, DeltasIn(S)) /\ s \in S \cup {NULL} => Every(deltas', DeltasIn(S))
             /\ Order(deltas, Saying(s), DeltasIn({s})) => Order(deltas', Saying(s), DeltasIn({s}))
  <2>1. \A S : s \in S \cup {NULL} => m \in DeltasIn(S)
    BY <1>2 DEF DeltasIn
  <2>2. m \in DeltasIn({s})
    BY <2>1
  <2>3. \A S : Every(deltas, S) /\ m \in S => Every(Append(deltas, m), S)
    BY <1>2, AppendOrder
  <2>4. \A A, B : Order(deltas, A, B) /\ (Some(deltas, A) => m \in B) => Order(Append(deltas, m), A, B)
    BY <1>2, AppendOrder
  <2>5. ASSUME NEW S, Every(deltas, DeltasIn(S)), s \in S \cup {NULL} PROVE Every(deltas', DeltasIn(S))
    BY <1>2, <2>1, <2>3, <2>5
  <2>6. ASSUME Order(deltas, Saying(s), DeltasIn({s})) PROVE Order(deltas', Saying(s), DeltasIn({s}))
    BY <1>2, <2>2, <2>4, <2>6
  <2> QED
    BY <2>5, <2>6
<1> QED
  BY <1>1, <1>2 DEF Adds

\* Everything on its way stays in S when S holds what S yields.
LEMMA FlowAllIn ==
    ASSUME NEW CONSTANT t, NEW CONSTANT d, Pipeline(t, d), Flow(t, d), NEW CONSTANT S \in SUBSET Ops,
           \A a \in S, e \in Ops : Yields(a, e) => e \in S,
           desired.st \in S \cup {NULL}, AllIn(t, d, S)
    PROVE  AllIn(t, d, S)'
<1>1. Every(inbox[t][d], S) /\ Every(reports, UpdatesIn(S)) /\ Every(deltas, DeltasIn(S))
  BY DEF AllIn
<1>2. inbox[t][d] \in Seq(Ops) /\ reports \in Seq(ReportMessage) /\ deltas \in Seq(DeltaMessage)
  BY DEF Pipeline
<1> SUFFICES Every(inbox'[t][d], S) /\ Every(reports', UpdatesIn(S)) /\ Every(deltas', DeltasIn(S))
  BY DEF AllIn
<1>3. ASSUME Adds(desired.st) PROVE Every(deltas', DeltasIn(S))
  BY <1>1, <1>2, <1>3, AddsIn
<1>4. ASSUME NEW r \in ReportMessage, reports' = Append(reports, r), r \in UpdatesIn(S)
      PROVE  Every(reports', UpdatesIn(S))
  <2>1. \A U : Every(reports, U) /\ r \in U => Every(Append(reports, r), U)
    BY <1>2, <1>4, AppendOrder
  <2> QED
    BY <1>1, <1>4, <2>1
<1>5. ASSUME TellsNothing PROVE Every(reports', UpdatesIn(S))
  <2>1. CASE UNCHANGED reports
    BY <1>1, <2>1
  <2>2. CASE \E r \in ReportMessage : ~IsUpdate(r) /\ reports' = Append(reports, r)
    BY <1>4, <2>2, UpdateOf
  <2> QED
    BY <1>5, <2>1, <2>2 DEF TellsNothing
<1>6. ASSUME NEW e \in S, TellsNow(e) PROVE Every(reports', UpdatesIn(S))
  BY <1>4, <1>6, UpdateOf DEF TellsNow
<1>7. CASE inbox[t][d] # <<>> /\ inbox'[t][d] = Tail(inbox[t][d]) /\ UNCHANGED <<reports, deltas>>
  <2>1. \A U : Every(inbox[t][d], U) => Every(Tail(inbox[t][d]), U)
    BY <1>2, <1>7, TailOrder
  <2> QED
    BY <1>1, <1>7, <2>1
<1>8. CASE /\ reports # <<>> /\ reports' = Tail(reports) /\ Adds(desired.st)
           /\ \/ inbox'[t][d] = inbox[t][d]
              \/ IsUpdate(Head(reports)) /\ inbox'[t][d] = Append(inbox[t][d], Head(reports).st)
  <2>1. Head(reports) \in ReportMessage /\ \A U : Every(reports, U) => Head(reports) \in U /\ Every(Tail(reports), U)
    BY <1>2, <1>8, TailOrder
  <2>2. Every(reports', UpdatesIn(S)) /\ Head(reports) \in UpdatesIn(S)
    BY <1>1, <1>8, <2>1
  <2>3. Every(inbox'[t][d], S)
    <3>1. CASE inbox'[t][d] = inbox[t][d]
      BY <1>1, <3>1
    <3>2. CASE IsUpdate(Head(reports)) /\ inbox'[t][d] = Append(inbox[t][d], Head(reports).st)
      <4>1. Head(reports).st \in Ops /\ Head(reports).st \in S
        BY <2>1, <2>2, <3>2, UpdateOf
      <4>2. \A U : Every(inbox[t][d], U) /\ Head(reports).st \in U => Every(Append(inbox[t][d], Head(reports).st), U)
        BY <1>2, <4>1, AppendOrder
      <4> QED
        BY <1>1, <3>2, <4>1, <4>2
    <3> QED
      BY <1>8, <3>1, <3>2
  <2> QED
    BY <1>3, <1>8, <2>2, <2>3
<1>9. CASE /\ deltas # <<>> /\ deltas' \in {Tail(deltas), <<>>} /\ Yielded(Head(deltas))
           /\ inbox'[t][d] = inbox[t][d]
  <2>1. \A U : Every(deltas, U) => Head(deltas) \in U /\ Every(Tail(deltas), U)
    BY <1>2, <1>9, TailOrder
  <2>2. Head(deltas) \in DeltasIn(S) /\ Every(Tail(deltas), DeltasIn(S))
    BY <1>1, <2>1
  <2>3. Every(deltas', DeltasIn(S))
    BY <1>9, <2>2, EmptyOrder
  <2>4. ASSUME NEW e \in Ops, Yields(Head(deltas).st, e), TellsNow(e) PROVE Every(reports', UpdatesIn(S))
    <3>1. Head(deltas).st \in S
      BY <2>2, <2>4 DEF DeltasIn, Yields, NULL, Ops
    <3> QED
      BY <1>6, <2>4, <3>1
  <2>5. Every(reports', UpdatesIn(S))
    BY <1>5, <1>9, <2>4 DEF Yielded
  <2> QED
    BY <1>1, <1>9, <2>3, <2>5
<1>10. CASE Adds(desired.st) /\ TellsNothing /\ inbox'[t][d] = inbox[t][d]
  BY <1>1, <1>3, <1>5, <1>10
<1> QED
  BY <1>7, <1>8, <1>9, <1>10 DEF Flow

\* A report behind the others: behind an s there is still only s, when it is no
\* update, or s itself, or when there is no s.
LEMMA TellingFollows ==
    ASSUME reports \in Seq(ReportMessage), NEW s, NEW r \in ReportMessage, reports' = Append(reports, r)
    PROVE  /\ Order(reports, Telling(s), UpdatesIn({s})) /\ (Reporting(s) => r \in UpdatesIn({s}))
                => Order(reports', Telling(s), UpdatesIn({s}))
           /\ Every(reports, UpdatesIn({s})) /\ r \in UpdatesIn({s}) => Every(reports', UpdatesIn({s}))
           /\ Reporting(s)' => Reporting(s) \/ Tells(r, s)
<1>1. \A U : Every(reports, U) /\ r \in U => Every(Append(reports, r), U)
  BY AppendOrder
<1>2. \A U : Some(Append(reports, r), U) => Some(reports, U) \/ r \in U
  BY AppendOrder
<1>3. \A A, B : Order(reports, A, B) /\ (Some(reports, A) => r \in B) => Order(Append(reports, r), A, B)
  BY AppendOrder
<1>4. ASSUME Order(reports, Telling(s), UpdatesIn({s})), Reporting(s) => r \in UpdatesIn({s})
      PROVE  Order(reports', Telling(s), UpdatesIn({s}))
  BY <1>3, <1>4 DEF Reporting
<1>5. ASSUME Every(reports, UpdatesIn({s})), r \in UpdatesIn({s}) PROVE Every(reports', UpdatesIn({s}))
  BY <1>1, <1>5
<1>6. ASSUME Reporting(s)' PROVE Reporting(s) \/ Tells(r, s)
  <2>1. Some(reports', Telling(s))
    BY <1>6 DEF Reporting
  <2>2. Some(reports, Telling(s)) \/ r \in Telling(s)
    BY <1>2, <2>1
  <2> QED
    BY <2>2, UpdateOf DEF Reporting
<1> QED
  BY <1>4, <1>5, <1>6

\* Reports that are no updates change nothing.
LEMMA NothingFollows ==
    ASSUME reports \in Seq(ReportMessage), NEW s, TellsNothing
    PROVE  /\ Order(reports, Telling(s), UpdatesIn({s})) => Order(reports', Telling(s), UpdatesIn({s}))
           /\ Every(reports, UpdatesIn({s})) => Every(reports', UpdatesIn({s}))
           /\ Reporting(s)' => Reporting(s)
<1>1. CASE UNCHANGED reports
  BY <1>1 DEF Reporting
<1>2. ASSUME NEW r \in ReportMessage, ~IsUpdate(r), reports' = Append(reports, r)
      PROVE  /\ Order(reports, Telling(s), UpdatesIn({s})) => Order(reports', Telling(s), UpdatesIn({s}))
             /\ Every(reports, UpdatesIn({s})) => Every(reports', UpdatesIn({s}))
             /\ Reporting(s)' => Reporting(s)
  <2>1. r \in UpdatesIn({s}) /\ ~Tells(r, s)
    BY <1>2, UpdateOf DEF Tells
  <2> QED
    BY <1>2, <2>1, TellingFollows
<1> QED
  BY <1>1, <1>2 DEF TellsNothing

\* Behind an s there is still nothing but s, when only s yields s.
LEMMA FlowFollows ==
    ASSUME NEW CONSTANT t, NEW CONSTANT d, Pipeline(t, d), Flow(t, d), NEW CONSTANT S \in SUBSET Ops,
           NEW CONSTANT s \in S, \A a \in S, e \in Ops : Yields(a, e) => (e = s <=> a = s),
           desired.st = s, AllIn(t, d, S), Follows(t, d, s)
    PROVE  Follows(t, d, s)'
<1>1. /\ Order(inbox[t][d], {s}, {s}) /\ Order(reports, Telling(s), UpdatesIn({s}))
      /\ Order(deltas, Saying(s), DeltasIn({s}))
  BY DEF Follows
<1>2. Heard(t, d, s) => Every(reports, UpdatesIn({s}))
  BY DEF Follows
<1>3. Heard(t, d, s) \/ Reporting(s) => Every(deltas, DeltasIn({s}))
  BY DEF Follows
<1>4. inbox[t][d] \in Seq(Ops) /\ reports \in Seq(ReportMessage) /\ deltas \in Seq(DeltaMessage) /\ s \in Ops
  BY DEF Pipeline
<1>5. ASSUME Adds(desired.st)
      PROVE  /\ Order(deltas', Saying(s), DeltasIn({s}))
             /\ Every(deltas, DeltasIn({s})) => Every(deltas', DeltasIn({s}))
  BY <1>1, <1>4, <1>5, AddsIn
<1> SUFFICES /\ Order(inbox'[t][d], {s}, {s}) /\ Order(reports', Telling(s), UpdatesIn({s}))
             /\ Order(deltas', Saying(s), DeltasIn({s}))
             /\ Some(inbox'[t][d], {s}) => Every(reports', UpdatesIn({s}))
             /\ Some(inbox'[t][d], {s}) \/ Reporting(s)' => Every(deltas', DeltasIn({s}))
  BY DEF Follows, Heard
<1>6. CASE inbox[t][d] # <<>> /\ inbox'[t][d] = Tail(inbox[t][d]) /\ UNCHANGED <<reports, deltas>>
  <2>1. /\ \A U : Some(Tail(inbox[t][d]), U) => Some(inbox[t][d], U)
        /\ \A A, B : Order(inbox[t][d], A, B) => Order(Tail(inbox[t][d]), A, B)
    BY <1>4, <1>6, TailOrder
  <2>2. Order(inbox'[t][d], {s}, {s}) /\ (Some(inbox'[t][d], {s}) => Heard(t, d, s))
    BY <1>1, <1>6, <2>1 DEF Heard
  <2>3. Reporting(s)' <=> Reporting(s)
    BY <1>6 DEF Reporting
  <2> QED
    BY <1>1, <1>2, <1>3, <1>6, <2>2, <2>3
<1>7. CASE /\ reports # <<>> /\ reports' = Tail(reports) /\ Adds(desired.st)
           /\ \/ inbox'[t][d] = inbox[t][d]
              \/ IsUpdate(Head(reports)) /\ inbox'[t][d] = Append(inbox[t][d], Head(reports).st)
  <2> DEFINE r == Head(reports)
  <2>1. /\ r \in ReportMessage
        /\ \A U : Every(reports, U) => r \in U /\ Every(Tail(reports), U)
        /\ \A U : Some(Tail(reports), U) => Some(reports, U)
        /\ \A U : r \in U => Some(reports, U)
    BY <1>4, <1>7, TailOrder
  <2>2. /\ \A A, B : Order(reports, A, B) => Order(Tail(reports), A, B)
        /\ \A A, B : Order(reports, A, B) /\ r \in A => Every(Tail(reports), B)
    BY <1>4, <1>7, TailOrder
  <2> HIDE DEF r
  <2>3. Order(reports', Telling(s), UpdatesIn({s}))
    BY <1>1, <1>7, <2>2
  <2>4. Order(deltas', Saying(s), DeltasIn({s})) /\ (Every(deltas, DeltasIn({s})) => Every(deltas', DeltasIn({s})))
    BY <1>5, <1>7
  <2>5. Reporting(s)' => Reporting(s)
    BY <1>7, <2>1 DEF Reporting
  <2>6. Tells(r, s) => Reporting(s)
    BY <2>1, UpdateOf DEF Reporting
  <2>7. Heard(t, d, s) => Every(reports', UpdatesIn({s}))
    BY <1>2, <1>7, <2>1
  <2>8. Tells(r, s) => Every(reports', UpdatesIn({s}))
    BY <1>1, <1>7, <2>1, <2>2, UpdateOf
  <2>9. /\ Order(inbox'[t][d], {s}, {s})
        /\ Some(inbox'[t][d], {s}) => Heard(t, d, s) \/ Tells(r, s)
    <3>1. CASE inbox'[t][d] = inbox[t][d]
      BY <1>1, <3>1 DEF Heard
    <3>2. CASE IsUpdate(r) /\ inbox'[t][d] = Append(inbox[t][d], r.st)
      <4>1. r.st \in Ops
        BY <2>1, <3>2, UpdateOf
      <4>2. /\ \A U : Some(Append(inbox[t][d], r.st), U) => Some(inbox[t][d], U) \/ r.st \in U
            /\ \A A, B : Order(inbox[t][d], A, B) /\ (Some(inbox[t][d], A) => r.st \in B)
                           => Order(Append(inbox[t][d], r.st), A, B)
        BY <1>4, <4>1, AppendOrder
      <4>3. Some(inbox[t][d], {s}) => r.st \in {s}
        BY <1>2, <2>1, <3>2, UpdateOf DEF Heard
      <4>4. Some(inbox'[t][d], {s}) => Heard(t, d, s) \/ Tells(r, s)
        BY <3>2, <4>2 DEF Heard, Tells
      <4>5. Order(inbox'[t][d], {s}, {s})
        BY <1>1, <3>2, <4>2, <4>3
      <4> QED
        BY <4>4, <4>5
    <3> QED
      BY <1>7, <3>1, <3>2 DEF r
  <2> QED
    BY <1>3, <2>3, <2>4, <2>5, <2>6, <2>7, <2>8, <2>9
<1>8. CASE /\ deltas # <<>> /\ deltas' \in {Tail(deltas), <<>>} /\ Yielded(Head(deltas))
           /\ inbox'[t][d] = inbox[t][d]
  <2> DEFINE m == Head(deltas)
  <2>1. /\ m \in DeltaMessage
        /\ \A U : Every(deltas, U) => m \in U /\ Every(Tail(deltas), U)
        /\ \A A, B : Order(deltas, A, B) => Order(Tail(deltas), A, B)
        /\ \A A, B : Order(deltas, A, B) /\ m \in A => Every(Tail(deltas), B)
    BY <1>4, <1>8, TailOrder
  <2>2. deltas' = Tail(deltas) \/ deltas' = <<>>
    BY <1>8
  <2>3. m \in DeltasIn(S)
    <3>1. Every(deltas, DeltasIn(S))
      BY DEF AllIn
    <3> QED
      BY <2>1, <3>1
  <2>4. Yielded(m)
    BY <1>8
  <2> HIDE DEF m
  <2>5. Order(deltas', Saying(s), DeltasIn({s}))
    BY <1>1, <2>1, <2>2, EmptyOrder
  <2>6. Every(deltas, DeltasIn({s})) => Every(deltas', DeltasIn({s})) /\ m \in DeltasIn({s})
    BY <2>1, <2>2, EmptyOrder
  <2>7. m.st = s => Every(deltas', DeltasIn({s}))
    <3>1. m.st = s => m \in Saying(s)
      BY <2>1 DEF Saying
    <3>2. m \in Saying(s) => Every(Tail(deltas), DeltasIn({s}))
      BY <1>1, <2>1
    <3> QED
      BY <2>2, <3>1, <3>2, EmptyOrder
  <2>8. CASE TellsNothing
    <3>1. /\ Order(reports', Telling(s), UpdatesIn({s}))
          /\ Every(reports, UpdatesIn({s})) => Every(reports', UpdatesIn({s}))
          /\ Reporting(s)' => Reporting(s)
      BY <1>1, <1>4, <2>8, NothingFollows
    <3> QED
      BY <1>1, <1>2, <1>3, <1>8, <2>5, <2>6, <3>1 DEF Heard
  <2>9. ASSUME NEW e \in Ops, Yields(m.st, e), TellsNow(e)
        PROVE  /\ Order(reports', Telling(s), UpdatesIn({s}))
               /\ Some(inbox'[t][d], {s}) => Every(reports', UpdatesIn({s}))
               /\ Some(inbox'[t][d], {s}) \/ Reporting(s)' => Every(deltas', DeltasIn({s}))
    <3>1. m.st \in S
      BY <2>3, <2>9 DEF DeltasIn, Yields, NULL, Ops
    <3>2. e = s <=> m.st = s
      BY <2>9, <3>1
    <3>3. m \in DeltasIn({s}) => e = s
      BY <2>9, <3>2 DEF DeltasIn, Yields, NULL, Ops
    <3>4. PICK r \in ReportMessage : Tells(r, e) /\ reports' = Append(reports, r)
      BY <2>9 DEF TellsNow
    <3>5. e = s => r \in UpdatesIn({s})
      BY <3>4, UpdateOf
    <3>6. Tells(r, s) => e = s
      BY <3>4 DEF Tells
    <3>7. /\ Order(reports, Telling(s), UpdatesIn({s})) /\ (Reporting(s) => r \in UpdatesIn({s}))
               => Order(reports', Telling(s), UpdatesIn({s}))
          /\ Every(reports, UpdatesIn({s})) /\ r \in UpdatesIn({s}) => Every(reports', UpdatesIn({s}))
          /\ Reporting(s)' => Reporting(s) \/ Tells(r, s)
      BY <1>4, <3>4, TellingFollows
    <3>8. Heard(t, d, s) \/ Reporting(s) => r \in UpdatesIn({s})
      BY <1>3, <2>6, <3>3, <3>5
    <3>9. Some(inbox'[t][d], {s}) <=> Heard(t, d, s)
      BY <1>8 DEF Heard
    <3> QED
      BY <1>1, <1>2, <1>3, <2>6, <2>7, <3>2, <3>6, <3>7, <3>8, <3>9
  <2> QED
    BY <1>1, <1>8, <2>4, <2>5, <2>8, <2>9 DEF Yielded
<1>9. CASE Adds(desired.st) /\ TellsNothing /\ inbox'[t][d] = inbox[t][d]
  <2>1. /\ Order(reports', Telling(s), UpdatesIn({s}))
        /\ Every(reports, UpdatesIn({s})) => Every(reports', UpdatesIn({s}))
        /\ Reporting(s)' => Reporting(s)
    BY <1>1, <1>4, <1>9, NothingFollows
  <2> QED
    BY <1>1, <1>2, <1>3, <1>5, <1>9, <2>1 DEF Heard
<1> QED
  BY <1>6, <1>7, <1>8, <1>9 DEF Flow

(* What a step does to the library's own state and to a result of          *)
(* PassThruClose.                                                          *)
Written(t, d) ==
    IF filter[t][d] = "29bit" THEN UNCHANGED <<desired, deltas>>
    ELSE /\ desired'.st = op[t]
         /\ deltas' = Offer(deltas, Delta(desired', reported, logging))
Controlled(t, d) ==
    /\ pc[t] \notin {"idle", "dead"} => filter'[t][d] = filter[t][d]
    /\ pc'[t] = "connect" => pc[t] = "connect" \/ filter'[t][d] = "none"
    /\ pc[t] \in {"publish", "publish2"} /\ pc'[t] # pc[t] => Written(t, d)
    /\ cstate'[t][d] \in {cstate[t][d], NULL} \/ pc[t] \in {"subscribe", "wait", "unsubscribe"}
    /\ pc[t] = "idle" /\ pc'[t] = "publish" /\ op'[t] = "Close" => opened[t]
    /\ cstate'[t][d] = "Close" => ~opened'[t] \/ (cstate[t][d] = "Close" /\ opened'[t] = opened[t])
    /\ pc[t] = "wait" /\ op[t] = "Close" => pc'[t] \in {"wait", "unsubscribe"}
    /\ client'[t][d] = "live" => client[t][d] = "live" \/ pc'[t] = "connect"
CloseNoted(t, d) ==
    \/ result'[t] = result[t]
    \/ result'[t].rc # "STATUS_NOERROR"
    \/ result'[t].op # "Close"
    \/ pc[t] = "publish2" /\ cstate[t][d] = "Close" /\ result'[t].canbus = CanbusOf(d)

\* A call begins.
LEMMA CallControls ==
    ASSUME NEW CONSTANT t, NEW CONSTANT d, Alone(t, d), SessionTyped, Call(t)
    PROVE  Controlled(t, d) /\ CloseNoted(t, d)
<1>1. t \in Testers /\ d \in Devices
  BY OnlyTester
<1>2. \/ OpenCall(t, d) \/ CloseCall(t, d) \/ ConnectCall(t, d)
      \/ DisconnectCall(t, d) \/ SelectCall(t, d) \/ StartMsgFilterCall(t, d)
  BY OnlyTester DEF Call
<1>3. \A o : Begins(t, o, d) => pc[t] = "idle" /\ op'[t] = o
  BY <1>1 DEF Begins, SessionTyped, SessionInv, RouteType
<1>4. /\ \A p : GoesOn(t, p) => pc'[t] = p /\ result' = result
      /\ Dies(t) => pc'[t] = "dead" /\ result' = result
  BY Continues
<1>5. \A o, rc : ReturnsAtOnce(t, o, d, rc) => pc' = pc /\ result'[t].rc = rc
  BY <1>1 DEF ReturnsAtOnce, SessionTyped, CallType
<1>6. CASE OpenCall(t, d)
  <2>1. pc[t] = "idle" /\ op'[t] = "Open" /\ UNCHANGED opened
    BY <1>3, <1>6 DEF OpenCall
  <2>2. \/ /\ pc' = pc /\ result'[t].rc = "ERR_DEVICE_IN_USE" /\ UNCHANGED <<client, cstate, filter>>
        \/ /\ cstate' = [cstate EXCEPT ![t][d] = NULL] /\ filter' = [filter EXCEPT ![t][d] = "none"]
           /\ pc'[t] = "connect" /\ result' = result
    BY <1>4, <1>5, <1>6 DEF OpenCall
  <2>3. \/ /\ pc' = pc /\ result'[t].rc = "ERR_DEVICE_IN_USE" /\ UNCHANGED <<client, cstate, filter>>
        \/ /\ cstate'[t][d] = NULL /\ filter'[t][d] = "none"
           /\ pc'[t] = "connect" /\ result' = result
    BY <1>1, <2>2 DEF SessionTyped, LibraryType, PerDevice
  <2> QED
    BY <2>1, <2>3 DEF Controlled, CloseNoted, NULL
<1>7. CASE CloseCall(t, d)
  <2>1. pc[t] = "idle" /\ op'[t] = "Close" /\ UNCHANGED <<opened, client, cstate, filter>>
    BY <1>3, <1>7 DEF CloseCall, dllVars
  <2>2. \/ pc' = pc /\ result'[t].rc # "STATUS_NOERROR"
        \/ opened[t] /\ pc'[t] \in {"publish", "dead"} /\ result' = result
    BY <1>4, <1>5, <1>7 DEF CloseCall
  <2> QED
    BY <2>1, <2>2 DEF Controlled, CloseNoted
<1>8. CASE ConnectCall(t, d) \/ DisconnectCall(t, d) \/ SelectCall(t, d) \/ StartMsgFilterCall(t, d)
  <2>1. pc[t] = "idle" /\ op'[t] # "Close" /\ UNCHANGED <<opened, client, cstate>>
    BY <1>3, <1>8 DEF ConnectCall, DisconnectCall, SelectCall, StartMsgFilterCall, dllVars
  <2>2. \/ pc' = pc /\ result'[t].rc # "STATUS_NOERROR"
        \/ pc'[t] \in {"publish", "dead"} /\ result' = result
    BY <1>4, <1>5, <1>8 DEF ConnectCall, DisconnectCall, SelectCall, StartMsgFilterCall, Refuses
  <2> QED
    BY <2>1, <2>2 DEF Controlled, CloseNoted
<1> QED
  BY <1>2, <1>6, <1>7, <1>8

\* What is written when the desired state is published.
LEMMA WrittenNow ==
    ASSUME NEW CONSTANT t, NEW CONSTANT d, Alone(t, d), SessionTyped, NEW s, s = op[t],
           IF WellFormed(t) THEN Desire([dev |-> d, st |-> s], logging) /\ UNCHANGED logs
           ELSE UNCHANGED serviceVars
    PROVE  Written(t, d)
<1>1. WellFormed(t) <=> filter[t][d] # "29bit"
  BY OnlyTester DEF WellFormed
<1>2. CASE WellFormed(t)
  <2>1. desired'.st = s /\ deltas' = Offer(deltas, Delta(desired', reported, logging))
    BY <1>2 DEF Desire
  <2> QED
    BY <1>1, <1>2, <2>1 DEF Written
<1>3. CASE ~WellFormed(t)
  BY <1>1, <1>3 DEF Written, serviceVars
<1> QED
  BY <1>2, <1>3

\* A call goes on.
LEMMA StepControls ==
    ASSUME NEW CONSTANT t, NEW CONSTANT d, Alone(t, d), SessionTyped, Attached(t, d), faults' = 0, CallStep(t)
    PROVE  Controlled(t, d) /\ CloseNoted(t, d)
<1>1. /\ t \in Testers /\ d \in Devices /\ dev[t] = d
  BY OnlyTester
<1>2. ~Fault
  BY NoFault DEF SessionTyped
<1>3. /\ \A p : GoesOn(t, p) => pc'[t] = p /\ result' = result
      /\ Dies(t) => pc'[t] = "dead" /\ result' = result
      /\ \A rc : Return(t, rc) => pc'[t] = "idle" /\ result'[t].rc = rc /\ result'[t].op = op[t]
                                  /\ result'[t].canbus = CanbusOf(d)
  BY Continues
<1>4. ASSUME NEW rc, Answered(t, rc)
      PROVE  \/ op[t] = "Close" /\ pc'[t] = "unsubscribe" /\ result' = result
             \/ op[t] # "Close" /\ pc'[t] = "idle" /\ result'[t].op = op[t]
  BY <1>3, <1>4 DEF Answered
<1>5. CASE OpenConnect(t) \/ OpenSubscribe(t)
  <2>1. /\ UNCHANGED <<opened, client, cstate, filter>> /\ pc[t] \in {"connect", "subscribe"}
        /\ GoesOn(t, "subscribe") \/ GoesOn(t, "publish")
    BY <1>2, <1>5 DEF OpenConnect, OpenSubscribe
  <2> QED
    BY <1>3, <2>1 DEF Controlled, CloseNoted
<1>6. CASE Publish(t)
  <2>1. pc[t] = "publish" /\ UNCHANGED <<opened, client, cstate, filter>>
    BY <1>6 DEF Publish, dllVars
  <2>2. Online(t)
    BY <1>1, <2>1 DEF Attached, Online
  <2>3. /\ GoesOn(t, "wait")
        /\ IF WellFormed(t) THEN Desire([dev |-> d, st |-> op[t]], logging) /\ UNCHANGED logs
           ELSE UNCHANGED serviceVars
    BY <1>1, <1>2, <1>6, <2>2 DEF Publish
  <2>4. Written(t, d)
    BY <2>3, WrittenNow
  <2> QED
    BY <1>3, <2>1, <2>3, <2>4 DEF Controlled, CloseNoted
<1>7. CASE Receive(t)
  <2>1. /\ pc[t] \in {"subscribe", "wait", "unsubscribe"} /\ UNCHANGED <<client, filter, pc, result>>
        /\ opened' = [opened EXCEPT ![t] = IF Head(inbox[t][d]) = "Open" THEN TRUE
                                           ELSE IF Head(inbox[t][d]) = "Close" THEN FALSE ELSE @]
        /\ cstate' = [cstate EXCEPT ![t][d] = Head(inbox[t][d])]
    BY <1>1, <1>7 DEF Receive, callVars
  <2>2. cstate'[t][d] = "Close" => ~opened'[t]
    <3>1. cstate'[t][d] = Head(inbox[t][d])
      BY <1>1, <2>1 DEF SessionTyped, LibraryType, PerDevice
    <3>2. Head(inbox[t][d]) = "Close" => opened'[t] = FALSE
      BY <1>1, <2>1 DEF SessionTyped, LibraryType
    <3> QED
      BY <3>1, <3>2
  <2> QED
    BY <2>1, <2>2 DEF Controlled, CloseNoted
<1>8. CASE Acked(t) \/ Timeout(t)
  <2>1. pc[t] = "wait" /\ UNCHANGED <<opened, client, cstate, filter>>
    BY <1>8 DEF Acked, Timeout, dllVars
  <2>2. (\E rc : Answered(t, rc)) \/ (op[t] = "Select" /\ Dies(t))
    BY <1>8 DEF Acked, Timeout
  <2> QED
    BY <1>3, <1>4, <2>1, <2>2 DEF Controlled, CloseNoted
<1>9. CASE Unsubscribe(t)
  <2>1. pc[t] = "unsubscribe" /\ UNCHANGED <<opened, client, cstate, filter>>
    BY <1>9 DEF Unsubscribe
  <2>2. link[t][d] = "both"
    BY <2>1 DEF Attached
  <2>3. GoesOn(t, "publish2")
    BY <1>1, <1>2, <1>9, <2>2 DEF Unsubscribe
  <2> QED
    BY <1>3, <2>1, <2>3 DEF Controlled, CloseNoted
<1>10. CASE PublishClose(t)
  <2>1. /\ pc[t] = "publish2" /\ UNCHANGED <<opened, cstate, filter>>
        /\ client' = [client EXCEPT ![t][d] = "freed"]
    BY <1>1, <1>10 DEF PublishClose
  <2>2. op[t] = "Close"
    BY <2>1 DEF Attached
  <2>3. /\ IF WellFormed(t) THEN Desire([dev |-> d, st |-> "Close"], logging) /\ UNCHANGED logs
           ELSE UNCHANGED serviceVars
        /\ Return(t, IF cstate[t][d] = "Close" THEN "STATUS_NOERROR" ELSE "ERR_DEVICE_NOT_CONNECTED")
    BY <1>1, <1>2, <1>10 DEF PublishClose
  <2>4. Written(t, d)
    BY <2>2, <2>3, WrittenNow
  <2>6. client'[t][d] = "freed"
    BY <1>1, <2>1 DEF SessionTyped, LibraryType, PerDevice
  <2>5. /\ pc'[t] = "idle" /\ result'[t].canbus = CanbusOf(d)
        /\ result'[t].rc = IF cstate[t][d] = "Close" THEN "STATUS_NOERROR" ELSE "ERR_DEVICE_NOT_CONNECTED"
    BY <1>3, <2>3
  <2> QED
    BY <2>1, <2>4, <2>5, <2>6 DEF Controlled, CloseNoted
<1> QED
  BY <1>5, <1>6, <1>7, <1>8, <1>9, <1>10 DEF CallStep

\* Every step, as long as nothing fails.
LEMMA EveryControls ==
    ASSUME NEW CONSTANT t, NEW CONSTANT d, Alone(t, d), SessionTyped, Attached(t, d), faults' = 0, [Next]_vars
    PROVE  Controlled(t, d) /\ CloseNoted(t, d)
<1>1. t \in Testers /\ d \in Devices
  BY OnlyTester
<1>2. ~Fault
  BY NoFault DEF SessionTyped
<1>3. CASE Call(t)
  BY <1>3, CallControls
<1>4. CASE CallStep(t)
  BY <1>4, StepControls
<1>5. CASE Restart(t)
  <2>1. /\ pc[t] = "dead" /\ pc' = [pc EXCEPT ![t] = "idle"] /\ UNCHANGED result
        /\ opened' = [opened EXCEPT ![t] = FALSE]
        /\ cstate' = [cstate EXCEPT ![t] = [e \in Devices |-> NULL]]
        /\ client' = [client EXCEPT ![t] = [e \in Devices |-> "none"]]
    BY <1>2, <1>5 DEF Restart
  <2>2. pc'[t] = "idle" /\ opened'[t] = FALSE /\ cstate'[t][d] = NULL /\ client'[t][d] = "none"
    BY <1>1, <2>1 DEF SessionTyped, LibraryType, CallType, PerDevice
  <2> QED
    BY <2>1, <2>2 DEF Controlled, CloseNoted
<1>6. CASE UNCHANGED <<opened, client, cstate, filter, pc, op, result>>
  BY <1>6 DEF Controlled, CloseNoted
<1>7. \A u \in Testers : u = t
  BY OnlyTester
<1>8. \/ Call(t) \/ CallStep(t) \/ Restart(t)
      \/ UNCHANGED <<opened, client, cstate, filter, pc, op, result>>
  <2>1. ServeReport \/ RouteDelta \/ DaemonStart \/ RequestLog \/ UNCHANGED vars
          => UNCHANGED <<opened, client, cstate, filter, pc, op, result>>
    BY DEF ServeReport, RouteDelta, DaemonStart, RequestLog, vars, dllVars, callVars
  <2>2. ~(LoseDelta \/ LoseReport \/ DaemonStop \/ \E u \in Testers, e \in Devices : LoseUpdate(u, e))
    BY <1>2 DEF LoseDelta, LoseReport, DaemonStop, LoseUpdate
  <2> QED
    BY <1>7, <2>1, <2>2 DEF Next
<1> QED
  BY <1>3, <1>4, <1>5, <1>6, <1>8

\* What the service adds to the deltas is the desired state, or none.
LEMMA OfferAdds ==
    ASSUME deltas \in Seq(DeltaMessage), NEW want \in [dev : Devices, st : States], NEW have,
           NEW log \in BOOLEAN, deltas' \in {deltas, Offer(deltas, Delta(want, have, log))}
    PROVE  Adds(want.st)
<1> DEFINE m == Delta(want, have, log)
<1>1. m \in DeltaMessage
  BY DeltaType
<1>2. m.st \in {want.st, NULL}
  BY DEF Delta
<1>3. deltas' \in {deltas, Offer(deltas, m)}
  OBVIOUS
<1> HIDE DEF m
<1>4. deltas' = deltas \/ deltas' = Append(deltas, m)
  BY <1>3 DEF Offer
<1> QED
  BY <1>1, <1>2, <1>4 DEF Adds

\* What handling a delta reports.
LEMMA HandledYields ==
    ASSUME NEW CONSTANT d, NEW m \in DeltaMessage, Handled(d, m) \/ Stopped(d, m)
    PROVE  Yielded(m)
<1>1. \A s : s \in Ops /\ m.st = s /\ TellsNow(s) => Yielded(m)
  BY DEF Yielded, Yields
<1>2. TellsNothing => Yielded(m)
  BY DEF Yielded
<1>3. CASE Stopped(d, m)
  BY <1>1, <1>2, <1>3 DEF Stopped, TellsNothing, Ops
<1>4. CASE Handled(d, m)
  <2>1. \/ TellsNothing
        \/ \E s \in Ops : m.st = s /\ TellsNow(s)
        \/ m.st = "Disconnect" /\ TellsNow("Open")
        \/ m.st = "StartMsgFilter" /\ TellsNow("Select")
    BY <1>4 DEF Handled, Ops
  <2>2. "Open" \in Ops /\ "Select" \in Ops
    BY DEF Ops
  <2> QED
    BY <1>1, <1>2, <2>1, <2>2 DEF Yielded, Yields
<1> QED
  BY <1>3, <1>4

\* The steps that a call does not take itself, and the reading of an update.
Outside(t, d) ==
    Received(t, d) \/ Served(t, d) \/ Routed(t, d) \/ Started(t, d) \/ Asked(t, d)

\* They move the messages on.
LEMMA OutsideFlow ==
    ASSUME NEW CONSTANT t, NEW CONSTANT d, Alone(t, d), SessionTyped, SessionTyped', Outside(t, d)
    PROVE  /\ Pipeline(t, d) /\ Flow(t, d) /\ UNCHANGED desired
           /\ pc'[t] = pc[t] /\ op'[t] = op[t] /\ client'[t][d] = client[t][d]
           /\ \/ cstate'[t][d] = cstate[t][d]
              \/ inbox[t][d] # <<>> /\ cstate'[t][d] = Head(inbox[t][d]) /\ Received(t, d)
<1>1. /\ deltas \in Seq(DeltaMessage) /\ desired \in [dev : Devices, st : States] /\ logging' \in BOOLEAN
      /\ reports \in Seq(ReportMessage) /\ inbox[t][d] \in Seq(Ops)
  BY OnlyTester DEF SessionTyped, SessionInv, RouteType, WorldType
<1>2. Pipeline(t, d)
  BY <1>1 DEF Pipeline
<1>3. CASE Received(t, d)
  BY <1>2, <1>3 DEF Received, SameWorld, Flow
<1>4. CASE Served(t, d)
  <2>1. Adds(desired.st)
    BY <1>1, <1>4, OfferAdds DEF Served
  <2>2. /\ reports # <<>> /\ reports' = Tail(reports) /\ UNCHANGED desired
        /\ \/ inbox'[t][d] = inbox[t][d]
           \/ IsUpdate(Head(reports)) /\ inbox'[t][d] = Append(inbox[t][d], Head(reports).st)
    BY <1>4 DEF Served
  <2>3. Flow(t, d)
    BY <2>1, <2>2 DEF Flow
  <2> QED
    BY <1>2, <1>4, <2>2, <2>3 DEF Served
<1>5. CASE Routed(t, d)
  <2>1. deltas # <<>> /\ (Handled(d, Head(deltas)) \/ Stopped(d, Head(deltas)))
    BY <1>5 DEF Routed
  <2>2. Head(deltas) \in DeltaMessage
    BY <1>1, <2>1, TailOrder
  <2>3. Yielded(Head(deltas))
    BY <2>1, <2>2, HandledYields
  <2>4. deltas' \in {Tail(deltas), <<>>}
    BY <1>5 DEF Routed, Stopped
  <2>5. inbox'[t][d] = inbox[t][d]
    BY <1>5 DEF Routed, SameEntry
  <2>6. Flow(t, d)
    BY <2>1, <2>3, <2>4, <2>5 DEF Flow
  <2> QED
    BY <1>2, <1>5, <2>6 DEF Routed, SameEntry
<1>6. CASE Started(t, d)
  <2>1. TellsNothing /\ Adds(desired.st) /\ inbox'[t][d] = inbox[t][d]
    BY <1>6 DEF Started, TellsNothing, Adds, SameEntry
  <2>2. Flow(t, d)
    BY <2>1 DEF Flow
  <2> QED
    BY <1>2, <1>6, <2>2 DEF Started, SameEntry
<1>7. CASE Asked(t, d)
  <2>1. Adds(desired.st)
    BY <1>1, <1>7, OfferAdds DEF Asked
  <2>2. TellsNothing /\ inbox'[t][d] = inbox[t][d]
    BY <1>7 DEF Asked, TellsNothing, SameEntry
  <2>3. Flow(t, d)
    BY <2>1, <2>2 DEF Flow
  <2> QED
    BY <1>2, <1>7, <2>3 DEF Asked, SameEntry
<1> QED
  BY <1>3, <1>4, <1>5, <1>6, <1>7 DEF Outside

\* Without a "Close" the daemon reports none; with nothing else, nothing else.
LEMMA YieldsClosed ==
    /\ \A a \in Ops \ {"Close"}, e \in Ops : Yields(a, e) => e \in Ops \ {"Close"}
    /\ \A a \in {"Close"}, e \in Ops : Yields(a, e) => e \in {"Close"}
    /\ \A a \in {"Close", "Open"}, e \in Ops : Yields(a, e) => e \in {"Close", "Open"}
    /\ \A a \in Ops, e \in Ops : Yields(a, e) => (e = "Close" <=> a = "Close")
    /\ \A a \in {"Close", "Open"}, e \in Ops : Yields(a, e) => (e = "Open" <=> a = "Open")
    /\ {"Close"} \in SUBSET Ops /\ {"Close", "Open"} \in SUBSET Ops /\ Ops \ {"Close"} \in SUBSET Ops
  BY DEF Yields, Ops

\* Whatever is on its way has its type.
LEMMA AllInOps ==
    ASSUME NEW CONSTANT t, NEW CONSTANT d, Pipeline(t, d)
    PROVE  AllIn(t, d, Ops)
<1>1. \A i \in 1 .. Len(inbox[t][d]) : inbox[t][d][i] \in Ops
  BY DEF Pipeline
<1>2. \A i \in 1 .. Len(reports) : reports[i] \in ReportMessage
  BY DEF Pipeline
<1>3. \A r \in ReportMessage : r \in UpdatesIn(Ops)
  BY DEF UpdatesIn, ReportMessage, IsUpdate
<1>4. \A i \in 1 .. Len(deltas) : deltas[i] \in DeltaMessage
  BY DEF Pipeline
<1>5. \A m \in DeltaMessage : m \in DeltasIn(Ops)
  BY DEF DeltasIn, DeltaMessage, States
<1> QED
  BY <1>1, <1>2, <1>3, <1>4, <1>5 DEF AllIn, Every

\* With no "Close" on its way, none comes.
LEMMA CleanFlow ==
    ASSUME NEW CONSTANT t, NEW CONSTANT d, Pipeline(t, d), Flow(t, d), UNCHANGED desired,
           desired \in [dev : Devices, st : States], Clean(t, d)
    PROVE  Clean(t, d)'
<1>1. AllIn(t, d, Ops \ {"Close"}) /\ desired.st \in (Ops \ {"Close"}) \cup {NULL}
  BY DEF Clean, States
<1>2. AllIn(t, d, Ops \ {"Close"})'
  BY <1>1, FlowAllIn, YieldsClosed
<1> QED
  BY <1>2 DEF Clean

\* With nothing but "Close" on its way, nothing else comes.
LEMMA OnlyCloseFlow ==
    ASSUME NEW CONSTANT t, NEW CONSTANT d, Pipeline(t, d), Flow(t, d), UNCHANGED desired, OnlyClose(t, d)
    PROVE  OnlyClose(t, d)'
<1>1. AllIn(t, d, {"Close"}) /\ desired.st \in {"Close"} \cup {NULL}
  BY DEF OnlyClose
<1>2. AllIn(t, d, {"Close"})'
  BY <1>1, FlowAllIn, YieldsClosed
<1> QED
  BY <1>2 DEF OnlyClose

\* An s that is read leaves nothing but s.
LEMMA ReadLeaves ==
    ASSUME NEW CONSTANT t, NEW CONSTANT d, Pipeline(t, d), NEW CONSTANT s, Received(t, d), Follows(t, d, s),
           cstate'[t][d] = s
    PROVE  AllIn(t, d, {s})'
<1>1. /\ inbox[t][d] # <<>> /\ inbox'[t][d] = Tail(inbox[t][d]) /\ Head(inbox[t][d]) = s
      /\ UNCHANGED <<reports, deltas>>
  BY DEF Received, SameWorld
<1>2. inbox[t][d] \in Seq(Ops)
  BY DEF Pipeline
<1>3. /\ \A U : Head(inbox[t][d]) \in U => Some(inbox[t][d], U)
      /\ \A A, B : Order(inbox[t][d], A, B) /\ Head(inbox[t][d]) \in A => Every(Tail(inbox[t][d]), B)
  BY <1>1, <1>2, TailOrder
<1>4. Heard(t, d, s)
  BY <1>1, <1>3 DEF Heard
<1>5. Every(reports, UpdatesIn({s})) /\ Every(deltas, DeltasIn({s})) /\ Order(inbox[t][d], {s}, {s})
  BY <1>4 DEF Follows
<1>6. Every(inbox'[t][d], {s})
  BY <1>1, <1>3, <1>5
<1> QED
  BY <1>1, <1>5, <1>6 DEF AllIn

\* What is read was on its way.
LEMMA ReadIn ==
    ASSUME NEW CONSTANT t, NEW CONSTANT d, Pipeline(t, d), NEW S, inbox[t][d] # <<>>, AllIn(t, d, S)
    PROVE  Head(inbox[t][d]) \in S
<1>1. inbox[t][d] \in Seq(Ops) /\ Every(inbox[t][d], S)
  BY DEF Pipeline, AllIn
<1> QED
  BY <1>1, TailOrder

\* A set of states that grows.
LEMMA AllInMore ==
    ASSUME NEW CONSTANT t, NEW CONSTANT d, NEW S, NEW T, S \subseteq T, AllIn(t, d, S)
    PROVE  AllIn(t, d, T)
<1>1. UpdatesIn(S) \subseteq UpdatesIn(T) /\ DeltasIn(S) \subseteq DeltasIn(T)
  BY DEF UpdatesIn, DeltasIn
<1> QED
  BY <1>1 DEF AllIn, Every

\* The daemon reports "Close" once it has deleted the client, and deletes none
\* twice.
LEMMA RoutedDeletes ==
    ASSUME NEW CONSTANT t, NEW CONSTANT d, Pipeline(t, d), Routed(t, d)
    PROVE  /\ Reporting("Close")' => Reporting("Close") \/ CanbusOf(d)' = "unknown"
           /\ Head(deltas).st \in {"Close", NULL} /\ CanbusOf(d) = "unknown" => CanbusOf(d)' = "unknown"
<1> DEFINE m == Head(deltas)
<1>1. reports \in Seq(ReportMessage)
  BY DEF Pipeline
<1>2. Handled(d, m) \/ Stopped(d, m)
  BY DEF Routed
<1> HIDE DEF m
<1>3. ASSUME NEW e, e # "Close", TellsNow(e) PROVE Reporting("Close")' => Reporting("Close")
  <2>1. PICK r \in ReportMessage : Tells(r, e) /\ reports' = Append(reports, r)
    BY <1>3 DEF TellsNow
  <2>2. ~Tells(r, "Close")
    BY <1>3, <2>1 DEF Tells
  <2>3. Reporting("Close")' => Reporting("Close") \/ Tells(r, "Close")
    BY <1>1, <2>1, TellingFollows
  <2> QED
    BY <2>2, <2>3
<1>4. TellsNothing => (Reporting("Close")' => Reporting("Close"))
  BY <1>1, NothingFollows
<1>5. CASE Stopped(d, m)
  <2>1. CanbusOf(d)' = "unknown"
    BY <1>5 DEF Stopped
  <2> QED
    BY <2>1
<1>6. CASE Handled(d, m)
  <2>1. \/ CanbusOf(d)' = "unknown"
        \/ TellsNothing
        \/ \E e \in Ops \ {"Close"} : TellsNow(e)
    BY <1>6 DEF Handled, Ops
  <2>2. Reporting("Close")' => Reporting("Close") \/ CanbusOf(d)' = "unknown"
    BY <1>3, <1>4, <2>1
  <2>3. m.st \in {"Close", NULL} /\ CanbusOf(d) = "unknown" => CanbusOf(d)' = "unknown"
    BY <1>6 DEF Handled, NULL
  <2> QED
    BY <2>2, <2>3 DEF m
<1> QED
  BY <1>2, <1>5, <1>6 DEF m

\* The client stays deleted: only a delta of "Open" makes one, and behind a "Close"
\* there is none.
LEMMA DeletedFlow ==
    ASSUME NEW CONSTANT t, NEW CONSTANT d, Alone(t, d), SessionTyped, SessionTyped', Outside(t, d), Deleted(t, d),
           cstate[t][d] = "Close" \/ Heard(t, d, "Close") \/ Reporting("Close") => Every(deltas, DeltasIn({"Close"}))
    PROVE  Deleted(t, d)'
<1> DEFINE Read == cstate[t][d] = "Close" \/ Heard(t, d, "Close") \/ Reporting("Close")
<1>1. Pipeline(t, d) /\ inbox[t][d] \in Seq(Ops) /\ reports \in Seq(ReportMessage) /\ deltas \in Seq(DeltaMessage)
  BY OutsideFlow DEF Pipeline
<1>2. Read => CanbusOf(d) = "unknown"
  BY DEF Deleted
<1> SUFFICES cstate'[t][d] = "Close" \/ Heard(t, d, "Close")' \/ Reporting("Close")' => CanbusOf(d)' = "unknown"
  BY DEF Deleted
<1>3. CASE Received(t, d)
  <2>1. /\ inbox[t][d] # <<>> /\ inbox'[t][d] = Tail(inbox[t][d]) /\ cstate'[t][d] = Head(inbox[t][d])
        /\ UNCHANGED <<reports, deltas>> /\ CanbusOf(d)' = CanbusOf(d)
    BY <1>3 DEF Received, SameWorld
  <2>2. /\ \A U : Head(inbox[t][d]) \in U => Some(inbox[t][d], U)
        /\ \A U : Some(Tail(inbox[t][d]), U) => Some(inbox[t][d], U)
    BY <1>1, <2>1, TailOrder
  <2>3. Heard(t, d, "Close")' => Heard(t, d, "Close")
    BY <2>1, <2>2 DEF Heard
  <2>4. cstate'[t][d] = "Close" => Heard(t, d, "Close")
    BY <2>1, <2>2 DEF Heard
  <2>5. Reporting("Close")' => Reporting("Close")
    BY <2>1 DEF Reporting
  <2> QED
    BY <1>2, <2>1, <2>3, <2>4, <2>5
<1>4. CASE Served(t, d)
  <2>1. /\ reports # <<>> /\ reports' = Tail(reports) /\ cstate'[t][d] = cstate[t][d]
        /\ CanbusOf(d)' = CanbusOf(d)
        /\ \/ inbox'[t][d] = inbox[t][d]
           \/ IsUpdate(Head(reports)) /\ inbox'[t][d] = Append(inbox[t][d], Head(reports).st)
    BY <1>4 DEF Served
  <2>2. /\ Head(reports) \in ReportMessage
        /\ \A U : Some(Tail(reports), U) => Some(reports, U)
        /\ \A U : Head(reports) \in U => Some(reports, U)
    BY <1>1, <2>1, TailOrder
  <2>3. Reporting("Close")' => Reporting("Close")
    BY <2>1, <2>2 DEF Reporting
  <2>4. Tells(Head(reports), "Close") => Reporting("Close")
    BY <2>2, UpdateOf DEF Reporting
  <2>5. Heard(t, d, "Close")' => Heard(t, d, "Close") \/ Tells(Head(reports), "Close")
    <3>1. CASE inbox'[t][d] = inbox[t][d]
      BY <3>1 DEF Heard
    <3>2. CASE IsUpdate(Head(reports)) /\ inbox'[t][d] = Append(inbox[t][d], Head(reports).st)
      <4>1. Head(reports).st \in Ops
        BY <2>2, <3>2, UpdateOf
      <4>2. \A U : Some(Append(inbox[t][d], Head(reports).st), U) => Some(inbox[t][d], U) \/ Head(reports).st \in U
        BY <1>1, <4>1, AppendOrder
      <4> QED
        BY <3>2, <4>2 DEF Heard, Tells
    <3> QED
      BY <2>1, <3>1, <3>2
  <2> QED
    BY <1>2, <2>1, <2>3, <2>4, <2>5
<1>5. CASE Routed(t, d)
  <2>1. /\ deltas # <<>> /\ cstate'[t][d] = cstate[t][d] /\ inbox'[t][d] = inbox[t][d]
    BY <1>5 DEF Routed, SameEntry
  <2>2. Every(deltas, DeltasIn({"Close"})) => Head(deltas).st \in {"Close", NULL}
    <3>1. \A U : Every(deltas, U) => Head(deltas) \in U
      BY <1>1, <2>1, TailOrder
    <3> QED
      BY <3>1 DEF DeltasIn
  <2>3. Read => CanbusOf(d)' = "unknown"
    BY <1>1, <1>2, <1>5, <2>2, RoutedDeletes
  <2>4. Reporting("Close")' => Read \/ CanbusOf(d)' = "unknown"
    BY <1>1, <1>5, RoutedDeletes
  <2>5. Heard(t, d, "Close")' => Heard(t, d, "Close")
    BY <2>1 DEF Heard
  <2> QED
    BY <2>1, <2>3, <2>4, <2>5
<1>6. CASE Started(t, d) \/ Asked(t, d)
  <2>1. /\ cstate'[t][d] = cstate[t][d] /\ inbox'[t][d] = inbox[t][d] /\ CanbusOf(d)' = CanbusOf(d)
        /\ TellsNothing
    BY <1>6 DEF Started, Asked, SameEntry, TellsNothing
  <2>2. Reporting("Close")' => Reporting("Close")
    BY <1>1, <2>1, NothingFollows
  <2>3. Heard(t, d, "Close")' => Heard(t, d, "Close")
    BY <2>1 DEF Heard
  <2> QED
    BY <1>2, <2>1, <2>2, <2>3
<1> QED
  BY <1>3, <1>4, <1>5, <1>6 DEF Outside

\* A published "Close" goes its way.
LEMMA ClosingFlow ==
    ASSUME NEW CONSTANT t, NEW CONSTANT d, Alone(t, d), SessionTyped, SessionTyped', Outside(t, d), Closing(t, d)
    PROVE  Closing(t, d)'
<1>1. /\ Pipeline(t, d) /\ Flow(t, d) /\ UNCHANGED desired
      /\ \/ cstate'[t][d] = cstate[t][d]
         \/ cstate'[t][d] = Head(inbox[t][d]) /\ Received(t, d)
  BY OutsideFlow
<1>2. /\ desired.st = "Close" /\ Follows(t, d, "Close") /\ Deleted(t, d)
      /\ cstate[t][d] = "Close" => AllIn(t, d, {"Close"})
  BY DEF Closing
<1>3. Follows(t, d, "Close")'
  <2>1. AllIn(t, d, Ops)
    BY <1>1, AllInOps
  <2>2. "Close" \in Ops /\ Ops \in SUBSET Ops
    BY DEF Ops
  <2> QED
    BY <1>1, <1>2, <2>1, <2>2, FlowFollows, YieldsClosed
<1>4. AllIn(t, d, {"Close"}) => Every(deltas, DeltasIn({"Close"}))
  BY DEF AllIn
<1>5. Deleted(t, d)'
  <2>1. Heard(t, d, "Close") \/ Reporting("Close") => Every(deltas, DeltasIn({"Close"}))
    BY <1>2 DEF Follows
  <2> QED
    BY <1>2, <1>4, <2>1, DeletedFlow
<1>6. cstate'[t][d] = "Close" => AllIn(t, d, {"Close"})'
  <2>1. CASE cstate'[t][d] = cstate[t][d]
    <3>1. AllIn(t, d, {"Close"}) => AllIn(t, d, {"Close"})'
      BY <1>1, <1>2, FlowAllIn, YieldsClosed
    <3> QED
      BY <1>2, <2>1, <3>1
  <2>2. CASE Received(t, d)
    BY <1>1, <1>2, <2>2, ReadLeaves
  <2> QED
    BY <1>1, <2>1, <2>2
<1> QED
  BY <1>1, <1>2, <1>3, <1>5, <1>6 DEF Closing

\* A published "Open" goes its way behind the last "Close".
LEMMA ReopeningFlow ==
    ASSUME NEW CONSTANT t, NEW CONSTANT d, Alone(t, d), SessionTyped, SessionTyped', Outside(t, d), Reopening(t, d)
    PROVE  /\ Reopening(t, d)' \/ Clean(t, d)'
           /\ cstate'[t][d] # "Open" => Reopening(t, d)'
<1>1. /\ Pipeline(t, d) /\ Flow(t, d) /\ UNCHANGED desired
      /\ \/ cstate'[t][d] = cstate[t][d]
         \/ inbox[t][d] # <<>> /\ cstate'[t][d] = Head(inbox[t][d]) /\ Received(t, d)
  BY OutsideFlow
<1>2. /\ desired.st = "Open" /\ cstate[t][d] # "Open"
      /\ AllIn(t, d, {"Close", "Open"}) /\ Follows(t, d, "Open")
  BY DEF Reopening
<1>3. AllIn(t, d, {"Close", "Open"})'
  <2>1. desired.st \in {"Close", "Open"} \cup {NULL}
    BY <1>2
  <2> QED
    BY <1>1, <1>2, <2>1, FlowAllIn, YieldsClosed
<1>4. Follows(t, d, "Open")'
  <2>1. "Open" \in {"Close", "Open"}
    OBVIOUS
  <2> QED
    BY <1>1, <1>2, <2>1, FlowFollows, YieldsClosed
<1>5. CASE cstate'[t][d] # "Open"
  BY <1>1, <1>2, <1>3, <1>4, <1>5 DEF Reopening
<1>6. CASE cstate'[t][d] = "Open"
  <2>1. AllIn(t, d, {"Open"})'
    BY <1>1, <1>2, <1>6, ReadLeaves
  <2>2. {"Open"} \subseteq Ops \ {"Close"}
    BY DEF Ops
  <2>3. UpdatesIn({"Open"}) \subseteq UpdatesIn(Ops \ {"Close"}) /\ DeltasIn({"Open"}) \subseteq DeltasIn(Ops \ {"Close"})
    BY <2>2 DEF UpdatesIn, DeltasIn
  <2>4. AllIn(t, d, Ops \ {"Close"})'
    BY <2>1, <2>2, <2>3 DEF AllIn, Every
  <2> QED
    BY <1>1, <1>2, <1>6, <2>4 DEF Clean
<1> QED
  BY <1>5, <1>6

\* What happens outside a call, or is read inside one, keeps the invariant.
LEMMA OutsideKeeps ==
    ASSUME NEW CONSTANT t, NEW CONSTANT d, Alone(t, d), SessionTyped, SessionTyped', Attached(t, d),
           Controlled(t, d), Outside(t, d), CloseInv(t, d)
    PROVE  CloseInv(t, d)'
<1>1. /\ Pipeline(t, d) /\ Flow(t, d) /\ UNCHANGED desired
      /\ pc'[t] = pc[t] /\ op'[t] = op[t] /\ client'[t][d] = client[t][d]
      /\ \/ cstate'[t][d] = cstate[t][d]
         \/ inbox[t][d] # <<>> /\ cstate'[t][d] = Head(inbox[t][d]) /\ Received(t, d)
  BY OutsideFlow
<1>2. desired \in [dev : Devices, st : States]
  BY DEF SessionTyped, SessionInv, RouteType
<1>3. Clean(t, d) => Clean(t, d)'
  BY <1>1, <1>2, CleanFlow
<1>4. OnlyClose(t, d) => OnlyClose(t, d)'
  BY <1>1, OnlyCloseFlow
<1>5. OnlyClose(t, d) /\ cstate[t][d] # "Open" => OnlyClose(t, d)' /\ cstate'[t][d] # "Open"
  <2>1. OnlyClose(t, d) /\ inbox[t][d] # <<>> => Head(inbox[t][d]) = "Close"
    BY <1>1, ReadIn DEF OnlyClose
  <2> QED
    BY <1>1, <1>4, <2>1
<1>6. OnlyClose(t, d) /\ Deleted(t, d) => OnlyClose(t, d)' /\ Deleted(t, d)'
  <2>1. OnlyClose(t, d) => Every(deltas, DeltasIn({"Close"}))
    BY DEF OnlyClose, AllIn
  <2> QED
    BY <1>4, <2>1, DeletedFlow
<1>7. Unclosable(t, d) /\ pc[t] \notin {"idle", "dead"} => Unclosable(t, d)'
  <2> SUFFICES ASSUME Unclosable(t, d), pc[t] \notin {"idle", "dead"} PROVE Unclosable(t, d)'
    OBVIOUS
  <2>1. filter[t][d] = "29bit" /\ cstate[t][d] # "Close" /\ Clean(t, d)
    BY DEF Unclosable
  <2>2. filter'[t][d] = "29bit"
    BY <2>1 DEF Controlled
  <2>3. inbox[t][d] # <<>> => Head(inbox[t][d]) # "Close"
    BY <1>1, <2>1, ReadIn DEF Clean
  <2> QED
    BY <1>1, <1>3, <2>1, <2>2, <2>3 DEF Unclosable
<1>8. Closing(t, d) => Closing(t, d)'
  BY ClosingFlow
<1>9. Reopening(t, d) => Reopening(t, d)' \/ Clean(t, d)'
  BY ReopeningFlow
<1>10. InUse(t, d)' <=> InUse(t, d)
  BY <1>1 DEF InUse
<1>11. Opens(t)' <=> Opens(t)
  BY <1>1 DEF Opens
<1>12. (Waits(t, "Open")' <=> Waits(t, "Open")) /\ (Waits(t, "Close")' <=> Waits(t, "Close"))
  BY <1>1 DEF Waits
<1>13. InUse(t, d)' => Clean(t, d)'
  BY <1>3, <1>10 DEF CloseInv
<1>14. pc'[t] \in {"idle", "dead"} /\ client'[t][d] # "live" => Clean(t, d)' \/ OnlyClose(t, d)'
  BY <1>1, <1>3, <1>4 DEF CloseInv
<1>15. Opens(t)' => Clean(t, d)' \/ (OnlyClose(t, d)' /\ cstate'[t][d] # "Open")
  BY <1>3, <1>5, <1>11 DEF CloseInv
<1>16. Waits(t, "Open")' => Clean(t, d)' \/ Reopening(t, d)'
  BY <1>3, <1>9, <1>12 DEF CloseInv
<1>17. Waits(t, "Close")' => Closing(t, d)' \/ Unclosable(t, d)'
  <2>1. Waits(t, "Close") => pc[t] \notin {"idle", "dead"}
    BY DEF Waits
  <2> QED
    BY <1>7, <1>8, <1>12, <2>1 DEF CloseInv
<1>18. pc'[t] \in {"unsubscribe", "publish2"} => (OnlyClose(t, d)' /\ Deleted(t, d)') \/ Unclosable(t, d)'
  BY <1>1, <1>6, <1>7 DEF CloseInv
<1> QED
  BY <1>13, <1>14, <1>15, <1>16, <1>17, <1>18 DEF CloseInv

\* Nothing is on its way.
LEMMA AllInNothing ==
    ASSUME NEW CONSTANT t, NEW CONSTANT d, inbox[t][d] = <<>>, reports = <<>>, deltas = <<>>
    PROVE  \A S : AllIn(t, d, S)
  BY EmptyOrder DEF AllIn

\* A step that changes nothing of what the invariant looks at, but where the call is.
LEMMA SameFacts ==
    ASSUME NEW CONSTANT t, NEW CONSTANT d, SameWorld(d), SameEntry(t, d)
    PROVE  /\ Clean(t, d)' <=> Clean(t, d)
           /\ OnlyClose(t, d)' <=> OnlyClose(t, d)
           /\ Reopening(t, d)' <=> Reopening(t, d)
           /\ Deleted(t, d)' <=> Deleted(t, d)
           /\ Closing(t, d)' <=> Closing(t, d)
           /\ filter'[t][d] = filter[t][d] => (Unclosable(t, d)' <=> Unclosable(t, d))
<1>1. /\ inbox'[t][d] = inbox[t][d] /\ UNCHANGED <<reports, deltas, desired>> /\ cstate'[t][d] = cstate[t][d]
      /\ CanbusOf(d)' = CanbusOf(d)
  BY DEF SameWorld, SameEntry
<1>2. AllIn(t, d, Ops \ {"Close"})' <=> AllIn(t, d, Ops \ {"Close"})
  BY <1>1 DEF AllIn
<1>3. AllIn(t, d, {"Close"})' <=> AllIn(t, d, {"Close"})
  BY <1>1 DEF AllIn
<1>4. AllIn(t, d, {"Close", "Open"})' <=> AllIn(t, d, {"Close", "Open"})
  BY <1>1 DEF AllIn
<1>5. (Follows(t, d, "Open")' <=> Follows(t, d, "Open")) /\ (Follows(t, d, "Close")' <=> Follows(t, d, "Close"))
  BY <1>1 DEF Follows, Heard, Reporting
<1>6. Deleted(t, d)' <=> Deleted(t, d)
  BY <1>1 DEF Deleted, Heard, Reporting
<1>7. Clean(t, d)' <=> Clean(t, d)
  BY <1>1, <1>2 DEF Clean
<1> QED
  BY <1>1, <1>3, <1>4, <1>5, <1>6, <1>7 DEF OnlyClose, Reopening, Closing, Unclosable

\* A call goes from one point to the next and publishes nothing.
LEMMA MovedCloses ==
    ASSUME NEW CONSTANT t, NEW CONSTANT d, Moved(t, d), Attached(t, d), Attached(t, d)', Controlled(t, d),
           CloseInv(t, d)
    PROVE  CloseInv(t, d)'
<1>1. SameWorld(d) /\ SameEntry(t, d)
  BY DEF Moved
<1>2. /\ Clean(t, d)' <=> Clean(t, d)
      /\ OnlyClose(t, d)' <=> OnlyClose(t, d)
      /\ Reopening(t, d)' <=> Reopening(t, d)
      /\ Deleted(t, d)' <=> Deleted(t, d)
      /\ Closing(t, d)' <=> Closing(t, d)
      /\ filter'[t][d] = filter[t][d] => (Unclosable(t, d)' <=> Unclosable(t, d))
  BY <1>1, SameFacts
<1>3. cstate'[t][d] = cstate[t][d] /\ client'[t][d] = client[t][d]
  BY <1>1 DEF SameEntry
<1>4. pc[t] \notin {"idle", "dead"} => filter'[t][d] = filter[t][d]
  BY DEF Controlled
<1>5. CASE pc'[t] = pc[t] /\ op'[t] = op[t]
  <2>1. /\ InUse(t, d)' <=> InUse(t, d)
        /\ Opens(t)' <=> Opens(t)
        /\ Waits(t, "Open")' <=> Waits(t, "Open")
        /\ Waits(t, "Close")' <=> Waits(t, "Close")
    BY <1>3, <1>5 DEF InUse, Opens, Waits
  <2>2. Waits(t, "Close") \/ pc[t] \in {"unsubscribe", "publish2"} => pc[t] \notin {"idle", "dead"}
    BY DEF Waits
  <2>3. /\ InUse(t, d)' => Clean(t, d)'
        /\ pc'[t] \in {"idle", "dead"} /\ client'[t][d] # "live" => Clean(t, d)' \/ OnlyClose(t, d)'
    BY <1>2, <1>3, <1>5, <2>1 DEF CloseInv
  <2>4. /\ Opens(t)' => Clean(t, d)' \/ (OnlyClose(t, d)' /\ cstate'[t][d] # "Open")
        /\ Waits(t, "Open")' => Clean(t, d)' \/ Reopening(t, d)'
    BY <1>2, <1>3, <1>5, <2>1 DEF CloseInv
  <2>5. /\ Waits(t, "Close")' => Closing(t, d)' \/ Unclosable(t, d)'
        /\ pc'[t] \in {"unsubscribe", "publish2"} => (OnlyClose(t, d)' /\ Deleted(t, d)') \/ Unclosable(t, d)'
    BY <1>2, <1>4, <1>5, <2>1, <2>2 DEF CloseInv
  <2> QED
    BY <2>3, <2>4, <2>5 DEF CloseInv
<1>6. CASE /\ pc[t] = "idle" /\ pc'[t] \in {"idle", "dead", "publish"}
           /\ pc'[t] = "publish" => op'[t] # "Open"
  <2>1. client[t][d] = "live" => Clean(t, d)
    BY <1>6 DEF CloseInv, InUse
  <2>2. pc'[t] = "publish" => client[t][d] = "live"
    BY <1>3 DEF Attached
  <2>3. client[t][d] # "live" => Clean(t, d) \/ OnlyClose(t, d)
    BY <1>6 DEF CloseInv
  <2>4. InUse(t, d)' => Clean(t, d)'
    BY <1>2, <1>3, <1>6, <2>1, <2>2 DEF InUse
  <2>5. ~Opens(t)' /\ ~Waits(t, "Open")' /\ ~Waits(t, "Close")' /\ pc'[t] \notin {"unsubscribe", "publish2"}
    BY <1>6 DEF Opens, Waits
  <2> QED
    BY <1>2, <1>3, <2>3, <2>4, <2>5 DEF CloseInv
<1>7. CASE /\ \/ pc[t] = "connect" /\ pc'[t] = "subscribe"
              \/ pc[t] = "subscribe" /\ pc'[t] = "publish"
           /\ op'[t] = op[t]
  <2>1. op[t] = "Open" /\ Opens(t)
    BY <1>7 DEF Attached, Opens
  <2>2. /\ ~InUse(t, d)' /\ ~Waits(t, "Open")' /\ ~Waits(t, "Close")'
        /\ pc'[t] \notin {"idle", "dead", "unsubscribe", "publish2"}
    BY <1>7, <2>1 DEF InUse, Waits
  <2> QED
    BY <1>2, <1>3, <2>1, <2>2 DEF CloseInv
<1>8. CASE /\ pc[t] = "wait" /\ pc'[t] \in {"idle", "dead", "unsubscribe"} /\ op'[t] = op[t]
           /\ \/ cstate[t][d] = op[t]
              \/ deltas = <<>> /\ reports = <<>> /\ inbox[t][d] = <<>>
  <2>1. client[t][d] = "live"
    BY <1>8 DEF Attached
  <2>2. filter'[t][d] = filter[t][d]
    BY <1>4, <1>8
  <2>3. /\ ~Opens(t)' /\ ~Waits(t, "Open")' /\ ~Waits(t, "Close")'
    BY <1>8 DEF Opens, Waits
  <2>4. CASE op[t] = "Close"
    <3>1. pc'[t] = "unsubscribe"
      BY <1>8, <2>4 DEF Controlled
    <3>2. Closing(t, d) \/ Unclosable(t, d)
      BY <1>8, <2>4 DEF CloseInv, Waits
    <3>3. Closing(t, d) => OnlyClose(t, d) /\ Deleted(t, d)
      <4>1. Closing(t, d) => AllIn(t, d, {"Close"})
        BY <1>8, <2>4, AllInNothing DEF Closing
      <4> QED
        BY <4>1 DEF Closing, OnlyClose
    <3>4. ~InUse(t, d)'
      BY <3>1 DEF InUse
    <3> QED
      BY <1>2, <2>2, <2>3, <3>1, <3>2, <3>3, <3>4 DEF CloseInv
  <2>5. CASE op[t] # "Close"
    <3>1. pc'[t] \in {"idle", "dead"}
      BY <1>8, <2>5 DEF Attached
    <3>2. Clean(t, d)
      <4>1. CASE op[t] = "Open"
        <5>1. Clean(t, d) \/ Reopening(t, d)
          BY <1>8, <4>1 DEF CloseInv, Waits
        <5>2. Reopening(t, d) => Clean(t, d)
          BY <1>8, <4>1, AllInNothing DEF Reopening, Clean
        <5> QED
          BY <5>1, <5>2
      <4>2. CASE op[t] # "Open"
        BY <1>8, <2>5, <4>2 DEF CloseInv, InUse
      <4> QED
        BY <4>1, <4>2
    <3> QED
      BY <1>2, <2>3, <3>1, <3>2 DEF CloseInv
  <2> QED
    BY <2>4, <2>5
<1>9. CASE pc[t] = "unsubscribe" /\ pc'[t] = "publish2" /\ op'[t] = op[t]
  <2>1. (OnlyClose(t, d) /\ Deleted(t, d)) \/ Unclosable(t, d)
    BY <1>9 DEF CloseInv
  <2>2. ~InUse(t, d)' /\ ~Opens(t)' /\ ~Waits(t, "Open")' /\ ~Waits(t, "Close")' /\ filter'[t][d] = filter[t][d]
    BY <1>4, <1>9 DEF InUse, Opens, Waits
  <2> QED
    BY <1>2, <1>9, <2>1, <2>2 DEF CloseInv
<1>10. \/ pc'[t] = pc[t] /\ op'[t] = op[t]
       \/ /\ pc[t] = "idle" /\ pc'[t] \in {"idle", "dead", "publish"}
          /\ pc'[t] = "publish" => op'[t] # "Open"
       \/ /\ \/ pc[t] = "connect" /\ pc'[t] = "subscribe"
             \/ pc[t] = "subscribe" /\ pc'[t] = "publish"
          /\ op'[t] = op[t]
       \/ /\ pc[t] = "wait" /\ pc'[t] \in {"idle", "dead", "unsubscribe"} /\ op'[t] = op[t]
          /\ \/ cstate[t][d] = op[t]
             \/ deltas = <<>> /\ reports = <<>> /\ inbox[t][d] = <<>>
       \/ pc[t] = "unsubscribe" /\ pc'[t] = "publish2" /\ op'[t] = op[t]
  BY DEF Moved
<1> QED
  BY <1>5, <1>6, <1>7, <1>8, <1>9, <1>10

\* A new process, or a call that finds nothing on its way.
LEMMA FreshCloses ==
    ASSUME NEW CONSTANT t, NEW CONSTANT d, Fresh(t, d), Controlled(t, d), CloseInv(t, d)
    PROVE  CloseInv(t, d)'
<1>1. /\ UNCHANGED <<reports, deltas, desired>> /\ cstate'[t][d] = NULL /\ inbox'[t][d] = <<>>
      /\ pc[t] \in {"idle", "dead"} /\ pc'[t] \in {"idle", "connect"}
  BY DEF Fresh, SameWorld
<1>2. \A S : Every(inbox'[t][d], S)
  BY <1>1, EmptyOrder
<1>3. Clean(t, d) => Clean(t, d)'
  BY <1>1, <1>2 DEF Clean, AllIn
<1>4. OnlyClose(t, d) => OnlyClose(t, d)'
  BY <1>1, <1>2 DEF OnlyClose, AllIn
<1>5. (client[t][d] = "live" => Clean(t, d)) /\ (client[t][d] # "live" => Clean(t, d) \/ OnlyClose(t, d))
  BY <1>1 DEF CloseInv, InUse
<1>6. InUse(t, d)' => Clean(t, d)'
  <2>1. InUse(t, d)' => pc'[t] = "idle" /\ client'[t][d] = "live"
    BY <1>1 DEF InUse
  <2>2. InUse(t, d)' => client[t][d] = "live"
    BY <2>1 DEF Controlled
  <2> QED
    BY <1>3, <1>5, <2>2
<1>7. cstate'[t][d] # "Open"
  BY <1>1 DEF NULL
<1>8. ~Waits(t, "Open")' /\ ~Waits(t, "Close")' /\ pc'[t] \notin {"unsubscribe", "publish2"}
  BY <1>1 DEF Waits
<1> QED
  BY <1>3, <1>4, <1>5, <1>6, <1>7, <1>8 DEF CloseInv

\* With no s on its way, s may be published.
LEMMA NothingToFollow ==
    ASSUME NEW CONSTANT t, NEW CONSTANT d, NEW CONSTANT s, NEW S, s \in Ops, s \notin S, Pipeline(t, d), AllIn(t, d, S)
    PROVE  /\ Order(inbox[t][d], {s}, {s}) /\ Order(reports, Telling(s), UpdatesIn({s}))
           /\ Order(deltas, Saying(s), DeltasIn({s}))
           /\ ~Heard(t, d, s) /\ ~Reporting(s)
<1>1. \A i \in 1 .. Len(inbox[t][d]) : inbox[t][d][i] \notin {s}
  BY DEF AllIn, Every
<1>2. \A i \in 1 .. Len(reports) : reports[i] \notin Telling(s)
  BY DEF AllIn, Every, UpdatesIn, Telling, Tells
<1>3. \A i \in 1 .. Len(deltas) : deltas[i] \notin Saying(s)
  <2> SUFFICES ASSUME NEW i \in 1 .. Len(deltas) PROVE deltas[i] \notin Saying(s)
    OBVIOUS
  <2>1. deltas[i] \in DeltasIn(S)
    BY DEF AllIn, Every
  <2>2. deltas[i].st \in S \cup {NULL}
    BY <2>1 DEF DeltasIn
  <2>3. s # NULL
    BY DEF Ops, NULL
  <2> QED
    BY <2>2, <2>3 DEF Saying
<1> QED
  BY <1>1, <1>2, <1>3 DEF Order, Heard, Reporting, Some

\* The desired state is published while nothing else moves.
LEMMA PublishedFollows ==
    ASSUME NEW CONSTANT t, NEW CONSTANT d, Pipeline(t, d), NEW CONSTANT s, s \in Ops, NEW S, s \notin S,
           AllIn(t, d, S), Adds(s), inbox'[t][d] = inbox[t][d], UNCHANGED reports
    PROVE  Follows(t, d, s)' /\ ~Heard(t, d, s)' /\ ~Reporting(s)'
<1>1. /\ Order(inbox[t][d], {s}, {s}) /\ Order(reports, Telling(s), UpdatesIn({s}))
      /\ Order(deltas, Saying(s), DeltasIn({s}))
      /\ ~Heard(t, d, s) /\ ~Reporting(s)
  BY NothingToFollow
<1>2. Order(deltas', Saying(s), DeltasIn({s}))
  BY <1>1, AddsIn DEF Pipeline
<1>3. ~Heard(t, d, s)' /\ ~Reporting(s)'
  BY <1>1 DEF Heard, Reporting
<1> QED
  BY <1>1, <1>2, <1>3 DEF Follows

\* What is on its way after a desired state was published.
LEMMA PublishedIn ==
    ASSUME NEW CONSTANT t, NEW CONSTANT d, Pipeline(t, d), NEW CONSTANT s, NEW CONSTANT S, s \in S \cup {NULL},
           AllIn(t, d, S), Adds(s), inbox'[t][d] = inbox[t][d], UNCHANGED reports
    PROVE  AllIn(t, d, S)'
<1>1. Every(inbox[t][d], S) /\ Every(reports, UpdatesIn(S)) /\ Every(deltas, DeltasIn(S))
  BY DEF AllIn
<1>2. Every(deltas', DeltasIn(S))
  BY <1>1, AddsIn DEF Pipeline
<1> QED
  BY <1>1, <1>2 DEF AllIn

\* A call that publishes what it desires, and waits.
LEMMA PublishedCloses ==
    ASSUME NEW CONSTANT t, NEW CONSTANT d, Alone(t, d), SessionTyped, SessionTyped', Published(t, d),
           Controlled(t, d), Library(t, d), CloseInv(t, d)
    PROVE  CloseInv(t, d)'
<1>1. /\ cstate'[t][d] = cstate[t][d] /\ inbox'[t][d] = inbox[t][d] /\ client'[t][d] = client[t][d]
      /\ UNCHANGED reports /\ CanbusOf(d)' = CanbusOf(d)
      /\ pc[t] = "publish" /\ pc'[t] = "wait" /\ op'[t] = op[t]
  BY DEF Published, SameEntry
<1>2. /\ Pipeline(t, d) /\ deltas \in Seq(DeltaMessage) /\ logging \in BOOLEAN /\ op[t] \in States
      /\ desired' \in [dev : Devices, st : States]
  BY OnlyTester DEF SessionTyped, SessionInv, RouteType, WorldType, Pipeline
<1>3. filter'[t][d] = filter[t][d] /\ Written(t, d)
  BY <1>1 DEF Controlled
<1>4. filter[t][d] # "29bit" => desired'.st = op[t] /\ Adds(op[t])
  BY <1>2, <1>3, OfferAdds DEF Written
<1>5. filter[t][d] = "29bit" => UNCHANGED <<desired, deltas>>
  BY <1>3 DEF Written
<1>6. ~InUse(t, d)' <=> op[t] \in {"Open", "Close"}
  BY <1>1 DEF InUse
<1>7. /\ pc'[t] \notin {"idle", "dead", "unsubscribe", "publish2"} /\ ~Opens(t)'
      /\ Waits(t, "Open")' <=> op[t] = "Open"
      /\ Waits(t, "Close")' <=> op[t] = "Close"
  BY <1>1 DEF Opens, Waits
<1>8. CASE op[t] = "Open"
  <2>1. Clean(t, d) \/ (OnlyClose(t, d) /\ cstate[t][d] # "Open")
    BY <1>1, <1>8 DEF CloseInv, Opens
  <2>2. desired'.st = "Open" /\ Adds("Open")
    BY <1>1, <1>4, <1>8 DEF Library, Opens
  <2>3. Clean(t, d) => Clean(t, d)'
    <3>1. "Open" \in (Ops \ {"Close"}) \cup {NULL}
      BY DEF Ops
    <3>2. AllIn(t, d, Ops \ {"Close"}) => AllIn(t, d, Ops \ {"Close"})'
      BY <1>1, <1>2, <2>2, <3>1, PublishedIn
    <3> QED
      BY <2>2, <3>2 DEF Clean
  <2>4. OnlyClose(t, d) /\ cstate[t][d] # "Open" => Reopening(t, d)'
    <3> SUFFICES ASSUME OnlyClose(t, d), cstate[t][d] # "Open" PROVE Reopening(t, d)'
      OBVIOUS
    <3>1. AllIn(t, d, {"Close"})
      BY DEF OnlyClose
    <3>2. AllIn(t, d, {"Close", "Open"})
      BY <3>1, AllInMore
    <3>3. AllIn(t, d, {"Close", "Open"})'
      BY <1>1, <1>2, <2>2, <3>2, PublishedIn
    <3>4. "Open" \in Ops /\ "Open" \notin {"Close"}
      BY DEF Ops
    <3>5. Follows(t, d, "Open")'
      BY <1>1, <1>2, <2>2, <3>1, <3>4, PublishedFollows
    <3> QED
      BY <1>1, <2>2, <3>3, <3>5 DEF Reopening
  <2> QED
    BY <1>6, <1>7, <1>8, <2>1, <2>3, <2>4 DEF CloseInv
<1>9. CASE op[t] = "Close"
  <2>1. Clean(t, d) /\ cstate[t][d] # "Close"
    BY <1>1, <1>9 DEF CloseInv, InUse, Library
  <2>2. CASE filter[t][d] = "29bit"
    <3>1. AllIn(t, d, Ops \ {"Close"})'
      BY <1>1, <1>5, <2>1, <2>2 DEF Clean, AllIn
    <3>2. Unclosable(t, d)'
      BY <1>1, <1>3, <1>5, <2>1, <2>2, <3>1 DEF Unclosable, Clean
    <3> QED
      BY <1>6, <1>7, <1>9, <3>2 DEF CloseInv
  <2>3. CASE filter[t][d] # "29bit"
    <3>1. desired'.st = "Close" /\ Adds("Close")
      BY <1>4, <1>9, <2>3
    <3>2. "Close" \in Ops /\ "Close" \notin Ops \ {"Close"} /\ AllIn(t, d, Ops \ {"Close"})
      BY <2>1 DEF Ops, Clean
    <3>3. Follows(t, d, "Close")' /\ ~Heard(t, d, "Close")' /\ ~Reporting("Close")'
      BY <1>1, <1>2, <3>1, <3>2, PublishedFollows
    <3>4. Closing(t, d)'
      BY <1>1, <2>1, <3>1, <3>3 DEF Closing, Deleted
    <3> QED
      BY <1>6, <1>7, <1>9, <3>4 DEF CloseInv
  <2> QED
    BY <2>2, <2>3
<1>10. CASE op[t] \notin {"Open", "Close"}
  <2>1. Clean(t, d)
    BY <1>1, <1>10 DEF CloseInv, InUse
  <2>2. op[t] \in (Ops \ {"Close"}) \cup {NULL} /\ op[t] # "Close"
    BY <1>2, <1>10 DEF States
  <2>3. CASE filter[t][d] = "29bit"
    BY <1>1, <1>5, <2>1, <2>3, <1>7, <1>10 DEF Clean, AllIn, CloseInv
  <2>4. CASE filter[t][d] # "29bit"
    <3>1. desired'.st = op[t] /\ Adds(op[t])
      BY <1>4, <2>4
    <3>2. Every(deltas', DeltasIn(Ops \ {"Close"}))
      BY <1>2, <2>1, <2>2, <3>1, AddsIn DEF Clean, AllIn
    <3>3. Clean(t, d)'
      BY <1>1, <2>1, <2>2, <3>1, <3>2 DEF Clean, AllIn
    <3> QED
      BY <1>7, <1>10, <3>3 DEF CloseInv
  <2> QED
    BY <2>3, <2>4
<1> QED
  BY <1>8, <1>9, <1>10

\* PassThruClose publishes a second time and frees the client.
LEMMA ClosedCloses ==
    ASSUME NEW CONSTANT t, NEW CONSTANT d, Alone(t, d), SessionTyped, SessionTyped', Attached(t, d), Closed(t, d),
           Controlled(t, d), CloseInv(t, d)
    PROVE  CloseInv(t, d)'
<1>1. /\ inbox'[t][d] = inbox[t][d] /\ client'[t][d] = "freed" /\ UNCHANGED reports
      /\ pc[t] = "publish2" /\ pc'[t] = "idle" /\ op'[t] = op[t] /\ op[t] = "Close"
  BY DEF Closed, Attached
<1>2. /\ Pipeline(t, d) /\ deltas \in Seq(DeltaMessage) /\ logging \in BOOLEAN
      /\ desired' \in [dev : Devices, st : States]
  BY OnlyTester DEF SessionTyped, SessionInv, RouteType, WorldType, Pipeline
<1>3. Written(t, d)
  BY <1>1 DEF Controlled
<1>4. filter[t][d] # "29bit" => desired'.st = "Close" /\ Adds("Close")
  BY <1>1, <1>2, <1>3, OfferAdds DEF Written
<1>5. filter[t][d] = "29bit" => UNCHANGED <<desired, deltas>>
  BY <1>3 DEF Written
<1>6. OnlyClose(t, d) \/ Unclosable(t, d)
  BY <1>1 DEF CloseInv
<1>7. UNCHANGED <<desired, deltas>> /\ OnlyClose(t, d) => OnlyClose(t, d)'
  BY <1>1 DEF OnlyClose, AllIn
<1>8. UNCHANGED <<desired, deltas>> /\ Clean(t, d) => Clean(t, d)'
  BY <1>1 DEF Clean, AllIn
<1>9. Adds("Close") /\ desired'.st = "Close" /\ OnlyClose(t, d) => OnlyClose(t, d)'
  <2>1. "Close" \in {"Close"} \cup {NULL}
    OBVIOUS
  <2>2. Adds("Close") /\ AllIn(t, d, {"Close"}) => AllIn(t, d, {"Close"})'
    BY <1>1, <1>2, <2>1, PublishedIn
  <2> QED
    BY <2>2 DEF OnlyClose
<1>10. Clean(t, d)' \/ OnlyClose(t, d)'
  BY <1>4, <1>5, <1>6, <1>7, <1>8, <1>9 DEF Unclosable
<1>11. ~InUse(t, d)' /\ ~Opens(t)' /\ ~Waits(t, "Open")' /\ ~Waits(t, "Close")' /\ pc'[t] \notin {"unsubscribe", "publish2"}
  BY <1>1 DEF InUse, Opens, Waits
<1> QED
  BY <1>10, <1>11 DEF CloseInv

\* What the library knows of itself stays so.
LEMMA LibraryKept ==
    ASSUME NEW CONSTANT t, NEW CONSTANT d, Controlled(t, d), Library(t, d), Attached(t, d),
           \/ Moved(t, d) \/ Fresh(t, d) \/ Published(t, d) \/ Closed(t, d)
           \/ pc'[t] = pc[t] /\ op'[t] = op[t]
    PROVE  Library(t, d)'
<1>1. cstate'[t][d] = "Close" => ~opened'[t]
  BY DEF Controlled, Library
<1>2. pc'[t] = "publish" /\ op'[t] = "Close" => cstate'[t][d] # "Close"
  <2> SUFFICES ASSUME pc'[t] = "publish", op'[t] = "Close" PROVE cstate'[t][d] # "Close"
    OBVIOUS
  <2>1. \/ pc[t] = "publish" /\ op[t] = "Close"
        \/ pc[t] = "idle"
    BY DEF Moved, Fresh, Published, Closed, Attached
  <2>2. cstate'[t][d] \in {cstate[t][d], NULL}
    BY <2>1 DEF Controlled
  <2>3. cstate[t][d] # "Close"
    BY <2>1 DEF Controlled, Library
  <2> QED
    BY <2>2, <2>3 DEF NULL
<1>3. Opens(t)' \/ Waits(t, "Open")' => filter'[t][d] = "none"
  <2> SUFFICES ASSUME op'[t] = "Open", pc'[t] \in {"connect", "subscribe", "publish", "wait"} PROVE filter'[t][d] = "none"
    BY DEF Opens, Waits
  <2>1. \/ pc[t] \in {"connect", "subscribe", "publish", "wait"} /\ op[t] = "Open"
        \/ pc[t] \in {"idle", "dead"} /\ pc'[t] = "connect"
    BY DEF Moved, Fresh, Published, Closed
  <2>2. CASE pc[t] \in {"connect", "subscribe", "publish", "wait"} /\ op[t] = "Open"
    BY <2>2 DEF Library, Opens, Waits, Controlled
  <2>3. CASE pc[t] \in {"idle", "dead"} /\ pc'[t] = "connect"
    BY <2>3 DEF Controlled
  <2> QED
    BY <2>1, <2>2, <2>3
<1> QED
  BY <1>1, <1>2, <1>3 DEF Library

(* A result says "Close" and STATUS_NOERROR only when the client was deleted. *)
ClosedResult(t) ==
    result[t].op = "Close" /\ result[t].rc = "STATUS_NOERROR" => result[t].canbus = "unknown"

FaultlessInv(t, d) == Attached(t, d) /\ Library(t, d) /\ CloseInv(t, d) /\ ClosedResult(t)
Faultless(t, d) == SessionTyped /\ (faults = 0 => FaultlessInv(t, d))

\* It holds at first.
LEMMA CloseStarts ==
    ASSUME NEW CONSTANT t, NEW CONSTANT d, Alone(t, d), Init
    PROVE  Faultless(t, d)
<1>1. SessionTyped
  BY SessionTypedInit
<1>2. t \in Testers /\ d \in Devices
  BY DEF Alone
<1>3. /\ client[t][d] = "none" /\ cstate[t][d] = NULL /\ inbox[t][d] = <<>> /\ pc[t] = "idle"
      /\ op[t] = NULL /\ result[t].rc = NULL /\ desired.st = NULL
      /\ deltas = <<>> /\ reports = <<>>
  BY <1>2 DEF Init
<1>4. NULL \notin {"Close", "Open", "STATUS_NOERROR"}
  BY DEF NULL
<1>5. Attached(t, d) /\ Library(t, d) /\ ClosedResult(t)
  BY <1>3, <1>4 DEF Attached, Library, ClosedResult, Opens, Waits
<1>6. Clean(t, d)
  BY <1>3, <1>4, AllInNothing DEF Clean
<1>7. ~Opens(t) /\ ~Waits(t, "Open") /\ ~Waits(t, "Close") /\ pc[t] \notin {"unsubscribe", "publish2"}
  BY <1>3 DEF Opens, Waits
<1>8. CloseInv(t, d)
  BY <1>6, <1>7 DEF CloseInv
<1> QED
  BY <1>1, <1>5, <1>8 DEF Faultless, FaultlessInv

\* Every step keeps it.
LEMMA CloseStep ==
    ASSUME NEW CONSTANT t, NEW CONSTANT d, Alone(t, d), Faultless(t, d), [Next]_vars
    PROVE  Faultless(t, d)'
<1>1. SessionTyped /\ SessionTyped'
  BY SessionTypedStep DEF Faultless
<1> SUFFICES ASSUME faults' = 0 PROVE FaultlessInv(t, d)'
  BY <1>1 DEF Faultless
<1>2. faults' = 0 /\ faults = 0
  BY <1>1, CountsGrow
<1>3. Attached(t, d) /\ Library(t, d) /\ CloseInv(t, d) /\ ClosedResult(t)
  BY <1>2 DEF Faultless, FaultlessInv
<1>4. /\ Moved(t, d) \/ Fresh(t, d) \/ Published(t, d) \/ Closed(t, d) \/ Outside(t, d)
      /\ Attached(t, d)'
  BY <1>1, <1>2, <1>3, SessionEffect DEF Outside
<1>5. Controlled(t, d) /\ CloseNoted(t, d)
  BY <1>1, <1>2, <1>3, EveryControls
<1>6. CloseInv(t, d)'
  <2>1. CASE Moved(t, d)
    BY <1>3, <1>4, <1>5, <2>1, MovedCloses
  <2>2. CASE Fresh(t, d)
    BY <1>3, <1>5, <2>2, FreshCloses
  <2>3. CASE Published(t, d)
    BY <1>1, <1>3, <1>5, <2>3, PublishedCloses
  <2>4. CASE Closed(t, d)
    BY <1>1, <1>3, <1>5, <2>4, ClosedCloses
  <2>5. CASE Outside(t, d)
    BY <1>1, <1>3, <1>5, <2>5, OutsideKeeps
  <2> QED
    BY <1>4, <2>1, <2>2, <2>3, <2>4, <2>5
<1>7. Library(t, d)'
  <2>1. Outside(t, d) => pc'[t] = pc[t] /\ op'[t] = op[t]
    BY <1>1, OutsideFlow
  <2> QED
    BY <1>3, <1>4, <1>5, <2>1, LibraryKept
<1>8. ClosedResult(t)'
  <2>1. pc[t] = "publish2" /\ cstate[t][d] = "Close" => CanbusOf(d) = "unknown"
    BY <1>3 DEF CloseInv, Deleted, Unclosable
  <2> QED
    BY <1>3, <1>5, <2>1 DEF CloseNoted, ClosedResult
<1> QED
  BY <1>4, <1>6, <1>7, <1>8 DEF FaultlessInv

(* With one tester and one device, whose library gives up on an answer only *)
(* when none is on its way, every PassThruClose that returns STATUS_NOERROR  *)
(* left the daemon without a client for the device, when nothing is lost,    *)
(* fails or is stopped: for any number of calls and of log requests, any     *)
(* length of the service's queues, and a daemon that dies and is started     *)
(* again over its own code.                                                 *)
THEOREM CloseUndisturbed ==
    ASSUME NEW CONSTANT t, NEW CONSTANT d, Alone(t, d), MaxFaults = 0
    PROVE  Spec => []CloseSound
<1>1. Init => Faultless(t, d)
  BY CloseStarts
<1>2. Faultless(t, d) /\ [Next]_vars => Faultless(t, d)'
  BY CloseStep
<1>3. Faultless(t, d) => CloseSound
  <2> SUFFICES ASSUME Faultless(t, d), NEW u \in Testers, Succeeded(u, "Close")
               PROVE  result[u].canbus = "unknown"
    BY DEF CloseSound
  <2>1. u = t
    BY DEF Alone
  <2>2. faults = 0
    BY DEF Faultless, SessionTyped, WorldType
  <2> QED
    BY <2>1, <2>2 DEF Faultless, FaultlessInv, ClosedResult, Succeeded
<1> QED
  BY <1>1, <1>2, <1>3, PTL DEF Spec

-----------------------------------------------------------------------------
(* PassThruOpen.  A call is taken for answered when the library reads "Open", *)
(* and an old "Open" would do: an older call's, or the report under which    *)
(* the daemon says of an old Disconnect that it knows no client.  Until      *)
(* somebody asks for a log there is only one message on its way at a time    *)
(* (Calm), and it is the waiting call's own.  The first request for a log    *)
(* ends that: its delta takes the place of another one, a call then gives up *)
(* unanswered, and what it desired is carried out later.  From then on       *)
(* OpenInv says of every place of a call what may be on its way while the    *)
(* daemon has no client, and Logged that, while the log is not reported, a    *)
(* "Close" without a log is carried out only for a call that reads it.        *)

\* The daemon has no client.
Missing(d) == CanbusOf(d) = "unknown"

\* Nothing is on its way.
Hushed(t, d) == inbox[t][d] = <<>> /\ reports = <<>> /\ deltas = <<>>

\* While nobody has asked for a log the exchange is one message at a time: the call that
\* waits has published what the one delta, report or update says.
Delivery(t, d) ==
    \/ /\ \E m \in DeltaMessage : deltas = <<m>> /\ m.st = op[t] /\ ~m.log
       /\ reports = <<>> /\ inbox[t][d] = <<>> /\ reported # op[t]
    \/ /\ \E r \in ReportMessage :
            reports = <<r>> /\ (Tells(r, op[t]) \/ (~IsUpdate(r) /\ op[t] = "Connect"))
       /\ deltas = <<>> /\ inbox[t][d] = <<>> /\ reported # op[t]
    \/ inbox[t][d] = <<op[t]>> /\ reports = <<>> /\ deltas = <<>> /\ reported = op[t]
Single(t, d) ==
    \/ Hushed(t, d)
    \/ pc[t] = "wait" /\ desired.st = op[t] /\ cstate[t][d] # op[t] /\ Delivery(t, d)

Calm(t, d) ==
    /\ ~logging /\ Single(t, d)
    /\ client[t][d] = "live" /\ inbox[t][d] = <<>> => cstate[t][d] \in {NULL, reported}
    /\ InUse(t, d) => ~Missing(d)
    /\ Waits(t, "Open") /\ Missing(d) => deltas # <<>>
    /\ Waits(t, "Close") /\ Missing(d) => deltas = <<>>
    /\ Missing(d) => ~opened[t] \/ (Waits(t, "Close") /\ ~Hushed(t, d))
    /\ Missing(d) => reported \in {"Close", NULL} \/ (Waits(t, "Close") /\ reports # <<>>)
    /\ Waits(t, "Close") /\ filter[t][d] # "29bit" => deltas # <<>> \/ reports # <<>> \/ reported = "Close"
    /\ pc[t] \in {"unsubscribe", "publish2"} /\ filter[t][d] # "29bit" => reported = "Close"

\* Where the library has no client of the device, or makes one.
Unused(t, d) == (pc[t] \in {"idle", "dead"} /\ client[t][d] # "live") \/ Opens(t)
Shut(t, d) == desired.st \in {"Close", NULL} /\ AllIn(t, d, {"Close"})

\* An "Open" was published, and nobody has carried it out.
Unopened(t, d) == Reopening(t, d) /\ ~Heard(t, d, "Open") /\ ~Reporting("Open")

\* The call that opened the device gave up.  There is no answer any more, and a
\* Connect is not answered, for the daemon dies of it.
Abandoned(t, d) ==
    /\ inbox[t][d] = <<>> /\ reports = <<>> /\ cstate[t][d] # "Connect" /\ filter[t][d] = "none"
    /\ logs = 1 /\ (opened[t] => ~logging)
    /\ \/ /\ pc[t] # "wait" /\ deltas = <<>>
          /\ pc[t] = "publish" => op[t] \in {"Close", "Connect"} /\ opened[t]
          /\ chan[t][d] => pc[t] = "publish" /\ op[t] = "Connect"
       \/ Waits(t, "Connect") /\ deltas # <<>> /\ Head(deltas).st = "Connect" /\ ~Head(deltas).log

\* Nothing but "Close" was read.
Unread(t, d) == cstate[t][d] \in {"Close", NULL}

OpenInv(t, d) ==
    /\ Opens(t) \/ Waits(t, "Open") =>
         ~chan[t][d] /\ (Missing(d) \/ ~Clean(t, d) => Unread(t, d))
    /\ Missing(d) =>
         /\ Unused(t, d) => Shut(t, d) \/ (Hushed(t, d) /\ logs = 1)
         /\ Waits(t, "Open") => Unopened(t, d)
         /\ InUse(t, d) => Abandoned(t, d)
         /\ Waits(t, "Close") => Closing(t, d)
         /\ pc[t] \in {"unsubscribe", "publish2"} => OnlyClose(t, d)
         /\ ~Reporting("Close") => reported # "Connect" /\ ~Reporting("Connect")

\* Deltas of the state s without a log, and those that are one of "Close" or have a log.
Bare(s) == {m \in DeltaMessage : ~m.log /\ m.st = s}
OrLog(s) == {m \in DeltaMessage : m.log \/ m.st = s}

\* While a log is asked for, "Close" is carried out only for a call that will read it.
Tidings(t, d) ==
    \/ Heard(t, d, "Close")
    \/ Reporting("Close") /\ inbox[t][d] = <<>> /\ Every(reports, UpdatesIn({"Close"}))
Logging(t, d) ==
    /\ logging /\ Missing(d) /\ opened[t] => Waits(t, "Close") /\ Tidings(t, d)
    /\ logging /\ ~Missing(d) /\ Some(deltas, Bare("Close")) =>
         /\ Waits(t, "Close") /\ inbox[t][d] = <<>> /\ Every(reports, UpdatesIn({}))
         /\ Every(deltas, OrLog("Close"))
Logged(t, d) ==
    /\ Logging(t, d)
    /\ Waits(t, "Close") /\ ~opened[t] => cstate[t][d] = "Close"
    /\ pc[t] = "publish" /\ op[t] = "Close" => opened[t]

(* What a step does to the channel, to a filter and to j2534_opened, and to *)
(* a result of PassThruOpen.                                               *)
Entered(t, d) ==
    /\ chan'[t][d] => chan[t][d] \/ (pc[t] = "idle" /\ pc'[t] = "publish" /\ op'[t] = "Connect")
    /\ pc'[t] = "connect" => pc[t] = "connect" \/ ~chan'[t][d]
    /\ pc[t] = "idle" /\ pc'[t] = "publish" =>
         chan[t][d] \/ (op'[t] \in {"Close", "Connect"} /\ opened[t] /\ opened'[t])
    /\ pc[t] \in {"idle", "dead"} => filter'[t][d] \in {filter[t][d], "none"} \/ chan[t][d]
    /\ opened'[t] => \/ opened[t]
                      \/ /\ pc[t] \in {"subscribe", "wait", "unsubscribe"} /\ inbox[t][d] # <<>>
                         /\ Head(inbox[t][d]) = "Open" /\ inbox'[t][d] = Tail(inbox[t][d])
    /\ opened[t] /\ pc[t] # "dead" => opened'[t] \/ cstate'[t][d] = "Close"
OpenNoted(t, d) ==
    \/ result'[t] = result[t]
    \/ result'[t].rc # "STATUS_NOERROR"
    \/ result'[t].op # "Open"
    \/ Waits(t, "Open") /\ cstate[t][d] = "Open" /\ result'[t].canbus = CanbusOf(d)

\* A call begins.
LEMMA CallEnters ==
    ASSUME NEW CONSTANT t, NEW CONSTANT d, Alone(t, d), SessionTyped, Call(t)
    PROVE  Entered(t, d) /\ OpenNoted(t, d)
<1>1. t \in Testers /\ d \in Devices
  BY OnlyTester
<1>2. \/ OpenCall(t, d) \/ CloseCall(t, d) \/ ConnectCall(t, d)
      \/ DisconnectCall(t, d) \/ SelectCall(t, d) \/ StartMsgFilterCall(t, d)
  BY OnlyTester DEF Call
<1>3. \A o : Begins(t, o, d) => pc[t] = "idle" /\ op'[t] = o
  BY <1>1 DEF Begins, SessionTyped, SessionInv, RouteType
<1>4. /\ \A p : GoesOn(t, p) => pc'[t] = p /\ result' = result
      /\ Dies(t) => pc'[t] = "dead" /\ result' = result
  BY Continues
<1>5. \A o, rc : ReturnsAtOnce(t, o, d, rc) => pc' = pc /\ result'[t].rc = rc
  BY <1>1 DEF ReturnsAtOnce, SessionTyped, CallType
<1>6. CASE OpenCall(t, d)
  <2>1. pc[t] = "idle" /\ op'[t] = "Open" /\ UNCHANGED opened
    BY <1>3, <1>6 DEF OpenCall
  <2>2. \/ pc' = pc /\ result'[t].rc = "ERR_DEVICE_IN_USE" /\ UNCHANGED <<chan, filter>>
        \/ /\ chan' = [chan EXCEPT ![t][d] = FALSE] /\ filter' = [filter EXCEPT ![t][d] = "none"]
           /\ pc'[t] = "connect" /\ result' = result
    BY <1>4, <1>5, <1>6 DEF OpenCall
  <2>3. \/ pc' = pc /\ result'[t].rc = "ERR_DEVICE_IN_USE" /\ UNCHANGED <<chan, filter>>
        \/ /\ chan'[t][d] = FALSE /\ filter'[t][d] = "none"
           /\ pc'[t] = "connect" /\ result' = result
    BY <1>1, <2>2 DEF SessionTyped, LibraryType, PerDevice
  <2> QED
    BY <2>1, <2>3 DEF Entered, OpenNoted
<1>7. CASE CloseCall(t, d)
  <2>1. pc[t] = "idle" /\ op'[t] = "Close" /\ UNCHANGED <<opened, chan, filter>>
    BY <1>3, <1>7 DEF CloseCall, dllVars
  <2>2. \/ pc' = pc /\ result'[t].rc # "STATUS_NOERROR"
        \/ opened[t] /\ pc'[t] \in {"publish", "dead"} /\ result' = result
    BY <1>4, <1>5, <1>7 DEF CloseCall
  <2> QED
    BY <2>1, <2>2 DEF Entered, OpenNoted
<1>8. CASE ConnectCall(t, d)
  <2>1. pc[t] = "idle" /\ op'[t] = "Connect" /\ UNCHANGED <<opened, filter>>
    BY <1>3, <1>8 DEF ConnectCall
  <2>2. \/ (pc' = pc \/ pc'[t] = "dead") /\ (result' = result \/ result'[t].rc # "STATUS_NOERROR") /\ UNCHANGED chan
        \/ opened[t] /\ pc'[t] = "publish" /\ result' = result
    BY <1>4, <1>5, <1>8 DEF ConnectCall, Refuses
  <2>3. \/ (pc' = pc \/ pc'[t] = "dead") /\ UNCHANGED chan
        \/ opened[t] /\ opened'[t] /\ pc'[t] = "publish"
    BY <2>1, <2>2
  <2>4. OpenNoted(t, d)
    BY <2>2 DEF OpenNoted
  <2> QED
    BY <2>1, <2>3, <2>4 DEF Entered
<1>9. CASE DisconnectCall(t, d) \/ SelectCall(t, d) \/ StartMsgFilterCall(t, d)
  <2>1. pc[t] = "idle" /\ UNCHANGED <<opened, chan>>
    BY <1>3, <1>9 DEF DisconnectCall, SelectCall, StartMsgFilterCall, dllVars
  <2> DEFINE Ends == /\ pc' = pc \/ pc'[t] = "dead"
                     /\ result' = result \/ result'[t].rc # "STATUS_NOERROR"
                     /\ UNCHANGED filter
             GoesOnWithChannel == FindsChannel(t, d) /\ pc'[t] = "publish" /\ result' = result
  <2>6. ASSUME DisconnectCall(t, d) PROVE Ends \/ GoesOnWithChannel
    BY <1>4, <1>5, <2>6 DEF DisconnectCall, dllVars
  <2>7. ASSUME SelectCall(t, d) PROVE Ends \/ GoesOnWithChannel
    BY <1>4, <1>5, <2>7 DEF SelectCall, Refuses
  <2>8. ASSUME StartMsgFilterCall(t, d) PROVE Ends \/ GoesOnWithChannel
    BY <1>4, <1>5, <2>8 DEF StartMsgFilterCall, Refuses
  <2>9. Ends \/ GoesOnWithChannel
    BY <1>9, <2>6, <2>7, <2>8
  <2>2. \/ (pc' = pc \/ pc'[t] = "dead") /\ (result' = result \/ result'[t].rc # "STATUS_NOERROR") /\ UNCHANGED filter
        \/ chan[t][d] /\ pc'[t] = "publish" /\ result' = result
    BY <2>9 DEF FindsChannel
  <2>3. \/ (pc' = pc \/ pc'[t] = "dead") /\ UNCHANGED filter
        \/ chan[t][d] /\ pc'[t] = "publish"
    BY <2>2
  <2>4. OpenNoted(t, d)
    BY <2>2 DEF OpenNoted
  <2> QED
    BY <2>1, <2>3, <2>4 DEF Entered
<1> QED
  BY <1>2, <1>6, <1>7, <1>8, <1>9

\* A call goes on.
LEMMA StepEnters ==
    ASSUME NEW CONSTANT t, NEW CONSTANT d, Alone(t, d), SessionTyped, Attached(t, d), faults' = 0, CallStep(t)
    PROVE  Entered(t, d) /\ OpenNoted(t, d)
<1>1. /\ t \in Testers /\ d \in Devices /\ dev[t] = d
  BY OnlyTester
<1>2. ~Fault
  BY NoFault DEF SessionTyped
<1>3. /\ \A p : GoesOn(t, p) => pc'[t] = p /\ result' = result
      /\ Dies(t) => pc'[t] = "dead" /\ result' = result
      /\ \A rc : Return(t, rc) => pc'[t] = "idle" /\ result'[t].rc = rc /\ result'[t].op = op[t]
                                  /\ result'[t].canbus = CanbusOf(d)
  BY Continues
<1>4. ASSUME NEW rc, Answered(t, rc)
      PROVE  \/ op[t] = "Close" /\ pc'[t] = "unsubscribe" /\ result' = result
             \/ /\ op[t] # "Close" /\ pc'[t] = "idle" /\ result'[t].rc = rc /\ result'[t].op = op[t]
                /\ result'[t].canbus = CanbusOf(d)
  BY <1>3, <1>4 DEF Answered
<1>5. CASE OpenConnect(t) \/ OpenSubscribe(t)
  <2>1. /\ UNCHANGED <<opened, chan, filter>> /\ pc[t] \in {"connect", "subscribe"}
        /\ GoesOn(t, "subscribe") \/ GoesOn(t, "publish")
    BY <1>2, <1>5 DEF OpenConnect, OpenSubscribe
  <2> QED
    BY <1>3, <2>1 DEF Entered, OpenNoted
<1>6. CASE Publish(t)
  <2>1. pc[t] = "publish" /\ UNCHANGED <<opened, chan, filter>>
    BY <1>6 DEF Publish, dllVars
  <2>2. Online(t)
    BY <1>1, <2>1 DEF Attached, Online
  <2>3. GoesOn(t, "wait")
    BY <1>2, <1>6, <2>2 DEF Publish
  <2> QED
    BY <1>3, <2>1, <2>3 DEF Entered, OpenNoted
<1>7. CASE Receive(t)
  <2>1. /\ pc[t] \in {"subscribe", "wait", "unsubscribe"} /\ UNCHANGED <<chan, filter, pc, result>>
        /\ inbox[t][d] # <<>>
        /\ opened' = [opened EXCEPT ![t] = IF Head(inbox[t][d]) = "Open" THEN TRUE
                                           ELSE IF Head(inbox[t][d]) = "Close" THEN FALSE ELSE @]
        /\ cstate' = [cstate EXCEPT ![t][d] = Head(inbox[t][d])]
        /\ inbox' = [inbox EXCEPT ![t][d] = Tail(@)]
    BY <1>1, <1>7 DEF Receive, callVars
  <2>2. cstate'[t][d] = Head(inbox[t][d]) /\ inbox'[t][d] = Tail(inbox[t][d])
    BY <1>1, <2>1 DEF SessionTyped, LibraryType, PerDevice
  <2>3. /\ Head(inbox[t][d]) = "Open" => opened'[t] = TRUE
        /\ Head(inbox[t][d]) = "Close" => opened'[t] = FALSE
        /\ Head(inbox[t][d]) \notin {"Open", "Close"} => opened'[t] = opened[t]
    BY <1>1, <2>1 DEF SessionTyped, LibraryType
  <2>4. /\ opened'[t] => opened[t] \/ Head(inbox[t][d]) = "Open"
        /\ opened[t] => opened'[t] \/ Head(inbox[t][d]) = "Close"
    BY <2>3
  <2>5. pc[t] # "idle" /\ pc[t] # "dead" /\ pc'[t] # "connect" /\ chan'[t][d] = chan[t][d]
    BY <2>1
  <2>6. OpenNoted(t, d)
    BY <2>1 DEF OpenNoted
  <2> QED
    BY <2>1, <2>2, <2>4, <2>5, <2>6 DEF Entered
<1>8. CASE Acked(t) \/ Timeout(t)
  <2>1. pc[t] = "wait" /\ UNCHANGED <<opened, chan, filter>>
    BY <1>8 DEF Acked, Timeout, dllVars
  <2>2. \/ cstate[t][d] = op[t] /\ \E rc : Answered(t, rc)
        \/ Answered(t, "ERR_DEVICE_NOT_CONNECTED")
        \/ Dies(t)
    BY <1>1, <1>8 DEF Acked, Timeout
  <2>3. pc'[t] \in {"unsubscribe", "idle", "dead"}
    BY <1>3, <1>4, <2>2
  <2>4. OpenNoted(t, d)
    BY <1>3, <1>4, <2>1, <2>2 DEF OpenNoted, Waits
  <2> QED
    BY <2>1, <2>3, <2>4 DEF Entered
<1>9. CASE Unsubscribe(t)
  <2>1. pc[t] = "unsubscribe" /\ UNCHANGED <<opened, chan, filter>>
    BY <1>9 DEF Unsubscribe
  <2>2. link[t][d] = "both"
    BY <2>1 DEF Attached
  <2>3. GoesOn(t, "publish2")
    BY <1>1, <1>2, <1>9, <2>2 DEF Unsubscribe
  <2> QED
    BY <1>3, <2>1, <2>3 DEF Entered, OpenNoted
<1>10. CASE PublishClose(t)
  <2>1. pc[t] = "publish2" /\ UNCHANGED <<opened, chan, filter>>
    BY <1>1, <1>10 DEF PublishClose
  <2>2. op[t] = "Close"
    BY <2>1 DEF Attached
  <2>3. \E rc : Return(t, rc)
    BY <1>1, <1>2, <1>10 DEF PublishClose
  <2> QED
    BY <1>3, <2>1, <2>2, <2>3 DEF Entered, OpenNoted
<1> QED
  BY <1>5, <1>6, <1>7, <1>8, <1>9, <1>10 DEF CallStep

\* Every step, as long as nothing fails.
LEMMA EveryEnters ==
    ASSUME NEW CONSTANT t, NEW CONSTANT d, Alone(t, d), SessionTyped, Attached(t, d), faults' = 0, [Next]_vars
    PROVE  Entered(t, d) /\ OpenNoted(t, d)
<1>1. t \in Testers /\ d \in Devices
  BY OnlyTester
<1>2. ~Fault
  BY NoFault DEF SessionTyped
<1>3. CASE Call(t)
  BY <1>3, CallEnters
<1>4. CASE CallStep(t)
  BY <1>4, StepEnters
<1>5. CASE Restart(t)
  <2>1. /\ pc[t] = "dead" /\ pc' = [pc EXCEPT ![t] = "idle"] /\ UNCHANGED result
        /\ opened' = [opened EXCEPT ![t] = FALSE]
        /\ chan' = [chan EXCEPT ![t] = [e \in Devices |-> FALSE]]
        /\ filter' = [filter EXCEPT ![t] = [e \in Devices |-> "none"]]
    BY <1>2, <1>5 DEF Restart
  <2>2. pc'[t] = "idle" /\ opened'[t] = FALSE /\ chan'[t][d] = FALSE /\ filter'[t][d] = "none"
    BY <1>1, <2>1 DEF SessionTyped, LibraryType, CallType, PerDevice
  <2> QED
    BY <2>1, <2>2 DEF Entered, OpenNoted
<1>6. CASE UNCHANGED <<opened, chan, filter, pc, op, result>>
  BY <1>6 DEF Entered, OpenNoted
<1>7. \A u \in Testers : u = t
  BY OnlyTester
<1>8. \/ Call(t) \/ CallStep(t) \/ Restart(t)
      \/ UNCHANGED <<opened, chan, filter, pc, op, result>>
  <2>1. ServeReport \/ RouteDelta \/ DaemonStart \/ RequestLog \/ UNCHANGED vars
          => UNCHANGED <<opened, chan, filter, pc, op, result>>
    BY DEF ServeReport, RouteDelta, DaemonStart, RequestLog, vars, dllVars, callVars
  <2>2. ~(LoseDelta \/ LoseReport \/ DaemonStop \/ \E u \in Testers, e \in Devices : LoseUpdate(u, e))
    BY <1>2 DEF LoseDelta, LoseReport, DaemonStop, LoseUpdate
  <2> QED
    BY <1>7, <2>1, <2>2 DEF Next
<1> QED
  BY <1>3, <1>4, <1>5, <1>6, <1>8

(* The daemon handles a delta and stays up.                                 *)
Carried(t, d) ==
    /\ SameEntry(t, d) /\ pc'[t] = pc[t] /\ op'[t] = op[t]
    /\ UNCHANGED <<desired, reported>> /\ (~logging => ~logging')
    /\ deltas # <<>> /\ Handled(d, Head(deltas)) /\ deltas' = Tail(deltas)
    /\ Head(deltas).log => CanbusOf(d)' = CanbusOf(d) /\ TellsNothing

\* Only a delta or a fault brings the daemon down.
LEMMA NeverDied ==
    ASSUME SessionTyped, SessionTyped', [Next]_vars, faults' = 0, ~crashed'
    PROVE  ~crashed /\ (daemon = "up" => daemon' = "up")
<1>1. ~Fault
  BY NoFault DEF SessionTyped
<1>2. ~(LoseDelta \/ LoseReport \/ DaemonStop \/ \E u \in Testers, e \in Devices : LoseUpdate(u, e))
  BY <1>1 DEF LoseDelta, LoseReport, DaemonStop, LoseUpdate
<1>3. CASE RouteDelta
  <2>1. crashed' = (crashed \/ daemon' = "down")
    BY <1>3 DEF RouteDelta
  <2>2. daemon' \in {"up", "down"}
    BY DEF SessionTyped, WorldType
  <2> QED
    BY <2>1, <2>2
<1>5. daemon' = daemon \/ DaemonStart \/ RouteDelta
  <2>1. \A u \in Testers : Call(u) => daemon' = daemon
    BY DEF Call, OpenCall, CloseCall, ConnectCall, DisconnectCall, SelectCall, StartMsgFilterCall, daemonVars
  <2>3. \A u \in Testers : CallStep(u) \/ Restart(u) => daemon' = daemon
    BY DEF CallStep, OpenConnect, OpenSubscribe, Publish, Receive, Acked, Timeout, Unsubscribe, PublishClose,
           Restart, daemonVars
  <2>2. ServeReport \/ RequestLog \/ UNCHANGED vars => daemon' = daemon
    BY DEF ServeReport, RequestLog, vars, daemonVars
  <2> QED
    BY <1>2, <2>1, <2>2, <2>3 DEF Next
<1>6. crashed' = crashed \/ RouteDelta
  <2>1. \A u \in Testers : Call(u) => crashed' = crashed
    BY DEF Call, OpenCall, CloseCall, ConnectCall, DisconnectCall, SelectCall, StartMsgFilterCall, Begins
  <2>2. \A u \in Testers : CallStep(u) \/ Restart(u) => crashed' = crashed
    BY DEF CallStep,
           OpenConnect, OpenSubscribe, Publish, Receive, Acked, Timeout, Unsubscribe, PublishClose, Restart, historyVars
  <2>3. ServeReport \/ RequestLog \/ UNCHANGED vars \/ DaemonStart => crashed' = crashed
    BY DEF ServeReport, RequestLog, DaemonStart, vars, historyVars
  <2> QED
    BY <1>2, <2>1, <2>2, <2>3 DEF Next
<1>7. daemon = "up" => ~DaemonStart
  BY DEF DaemonStart
<1> QED
  BY <1>3, <1>5, <1>6, <1>7

(* The kinds of steps there are while the daemon is up.                     *)
LEMMA LiveStep ==
    ASSUME NEW CONSTANT t, NEW CONSTANT d, Alone(t, d), SessionTyped, SessionTyped', Attached(t, d), [Next]_vars,
           faults' = 0, ~crashed', daemon = "up"
    PROVE  /\ ~crashed /\ daemon' = "up" /\ logs \in Nat
           /\ \/ /\ logs' = logs
                 /\ \/ Moved(t, d) \/ Fresh(t, d) \/ Published(t, d) \/ Closed(t, d) \/ Received(t, d)
                    \/ Served(t, d) \/ Carried(t, d)
              \/ logs' = logs + 1 /\ ~logging /\ logging' /\ Asked(t, d)
<1>1. ~crashed /\ daemon' = "up"
  BY NeverDied
<1>2. logs \in Nat /\ (logs' = logs \/ (RequestLog /\ logs' = logs + 1))
  BY CountsGrow
<1>3. \/ Moved(t, d) \/ Fresh(t, d) \/ Published(t, d) \/ Closed(t, d) \/ Received(t, d)
      \/ Served(t, d) \/ Routed(t, d) \/ Started(t, d) \/ (RequestLog /\ Asked(t, d))
  BY SessionEffect
<1>4. RequestLog => logs' = logs + 1 /\ ~logging /\ logging'
  BY DEF RequestLog, Desire
<1>5. RequestLog => Asked(t, d)
  <2> SUFFICES ASSUME RequestLog PROVE Asked(t, d)
    OBVIOUS
  <2>1. UNCHANGED <<dllVars, callVars, daemonVars>> /\ Desire(desired, TRUE)
    BY DEF RequestLog
  <2>2. UNCHANGED <<client, cstate, inbox, pc, op>> /\ UNCHANGED clients /\ UNCHANGED daemon
    BY <2>1 DEF dllVars, callVars, daemonVars
  <2>3. CanbusOf(d)' = CanbusOf(d)
    BY <2>2, SameSocket
  <2>4. UNCHANGED <<desired, reported, reports>> /\ deltas' = Offer(deltas, Delta(desired, reported, TRUE))
    BY <2>1 DEF Desire
  <2> QED
    BY <2>2, <2>3, <2>4 DEF Asked, SameEntry
<1>6. ~Started(t, d)
  BY DEF Started
<1>7. Routed(t, d) => Carried(t, d)
  <2> SUFFICES ASSUME Routed(t, d) PROVE Carried(t, d)
    OBVIOUS
  <2>1. /\ Handled(d, Head(deltas)) /\ deltas' = Tail(deltas)
        /\ Head(deltas).log => CanbusOf(d)' = CanbusOf(d) /\ TellsNothing
    BY <1>1 DEF Routed, Stopped
  <2> QED
    BY <2>1 DEF Routed, Carried
<1>8. logs' # logs + 1 \/ logs' # logs
  BY <1>2
<1> QED
  BY <1>1, <1>2, <1>3, <1>4, <1>5, <1>6, <1>7, <1>8

\* A call that does not wait leaves nothing on its way, nor does one whose wait ends.
LEMMA CalmSilent ==
    ASSUME NEW CONSTANT t, NEW CONSTANT d, Calm(t, d)
    PROVE  /\ pc[t] # "wait" \/ cstate[t][d] = op[t] => Hushed(t, d)
           /\ inbox[t][d] = <<>> /\ reports = <<>> /\ deltas = <<>> => Hushed(t, d)
           /\ Hushed(t, d) => inbox[t][d] = <<>> /\ reports = <<>> /\ deltas = <<>>
  BY DEF Calm, Single, Hushed

\* A queue of one delta, report or update.
LEMMA OfOne ==
    ASSUME NEW m
    PROVE  Head(<<m>>) = m /\ Tail(<<m>>) = <<>> /\ <<m>> # <<>> /\ Append(<<>>, m) = <<m>>
  OBVIOUS

\* j2534_opened is set by an "Open" that is read, and by nothing else.
LEMMA OpenedBy ==
    ASSUME NEW CONSTANT t, NEW CONSTANT d, Alone(t, d), SessionTyped, Entered(t, d), inbox'[t][d] = inbox[t][d], opened'[t]
    PROVE  opened[t]
<1>1. inbox[t][d] \in Seq(Ops)
  BY OnlyTester
<1>2. inbox[t][d] # <<>> => Tail(inbox[t][d]) # inbox[t][d]
  <2> DEFINE q == inbox[t][d]
  <2> SUFFICES ASSUME q # <<>>, Tail(q) = q PROVE FALSE
    OBVIOUS
  <2> HIDE DEF q
  <2>1. Len(Tail(q)) = Len(q) - 1 /\ Len(q) \in Nat
    BY <1>1, TailAt DEF q
  <2>2. Len(q) = Len(q) - 1
    BY <2>1
  <2> QED
    BY <2>1, <2>2
<1>3. opened'[t] => opened[t] \/ (inbox[t][d] # <<>> /\ inbox'[t][d] = Tail(inbox[t][d]))
  BY DEF Entered
<1> QED
  BY <1>2, <1>3

\* A call goes from one point to the next and publishes nothing.
LEMMA MovedCalm ==
    ASSUME NEW CONSTANT t, NEW CONSTANT d, Alone(t, d), SessionTyped, Moved(t, d), Attached(t, d), Attached(t, d)',
           Controlled(t, d), Entered(t, d), Calm(t, d)
    PROVE  Calm(t, d)'
<1>1. /\ UNCHANGED <<deltas, desired, reports, reported, logging, daemon>> /\ CanbusOf(d)' = CanbusOf(d)
      /\ cstate'[t][d] = cstate[t][d] /\ inbox'[t][d] = inbox[t][d] /\ client'[t][d] = client[t][d]
  BY DEF Moved, SameWorld, SameEntry
<1>2. (Missing(d)' <=> Missing(d)) /\ (Hushed(t, d)' <=> Hushed(t, d))
  BY <1>1 DEF Missing, Hushed
<1>3. opened'[t] => opened[t]
  BY <1>1, OpenedBy
<1>4. pc[t] \notin {"idle", "dead"} => filter'[t][d] = filter[t][d]
  BY DEF Controlled
<1>5. CASE pc'[t] = pc[t] /\ op'[t] = op[t]
  <2>1. /\ InUse(t, d)' <=> InUse(t, d)
        /\ Waits(t, "Open")' <=> Waits(t, "Open")
        /\ Waits(t, "Close")' <=> Waits(t, "Close")
    BY <1>1, <1>5 DEF InUse, Waits
  <2>2. Delivery(t, d)' <=> Delivery(t, d)
    BY <1>1, <1>5 DEF Delivery
  <2>3. Single(t, d)' <=> Single(t, d)
    BY <1>1, <1>2, <1>5, <2>2 DEF Single
  <2>4. Waits(t, "Close") \/ pc[t] \in {"unsubscribe", "publish2"} => filter'[t][d] = filter[t][d]
    BY <1>4 DEF Waits
  <2> QED
    BY <1>1, <1>2, <1>3, <1>5, <2>1, <2>3, <2>4 DEF Calm
<1>6. ASSUME Hushed(t, d), pc'[t] # "wait", InUse(t, d)' => ~Missing(d),
             pc'[t] \in {"unsubscribe", "publish2"} /\ filter'[t][d] # "29bit" => reported = "Close"
      PROVE  Calm(t, d)'
  <2>1. Single(t, d)'
    BY <1>2, <1>6 DEF Single
  <2>2. ~Waits(t, "Open")' /\ ~Waits(t, "Close")'
    BY <1>6 DEF Waits
  <2>3. reports = <<>>
    BY <1>6 DEF Hushed
  <2>4. Missing(d) => ~opened[t] /\ reported \in {"Close", NULL}
    BY <1>6, <2>3 DEF Calm
  <2> QED
    BY <1>1, <1>2, <1>3, <1>6, <2>1, <2>2, <2>4 DEF Calm
<1>7. CASE /\ pc[t] = "idle" /\ pc'[t] \in {"idle", "dead", "publish"}
           /\ pc'[t] = "publish" => op'[t] # "Open"
  <2>1. Hushed(t, d)
    BY <1>7, CalmSilent
  <2>2. InUse(t, d)' => client[t][d] = "live"
    <3>1. pc'[t] = "publish" => client'[t][d] = "live"
      BY DEF Attached
    <3> QED
      BY <1>1, <1>7, <3>1 DEF InUse
  <2>3. client[t][d] = "live" => ~Missing(d)
    BY <1>7 DEF Calm, InUse
  <2> QED
    BY <1>6, <1>7, <2>1, <2>2, <2>3
<1>8. CASE /\ \/ pc[t] = "connect" /\ pc'[t] = "subscribe"
              \/ pc[t] = "subscribe" /\ pc'[t] = "publish"
           /\ op'[t] = op[t]
  <2>1. op[t] = "Open" /\ Hushed(t, d)
    BY <1>8, CalmSilent DEF Attached
  <2>2. ~InUse(t, d)'
    BY <1>8, <2>1 DEF InUse
  <2> QED
    BY <1>6, <1>8, <2>1, <2>2
<1>9. CASE /\ pc[t] = "wait" /\ pc'[t] \in {"idle", "dead", "unsubscribe"} /\ op'[t] = op[t]
           /\ \/ cstate[t][d] = op[t]
              \/ deltas = <<>> /\ reports = <<>> /\ inbox[t][d] = <<>>
  <2>1. Hushed(t, d)
    BY <1>9, CalmSilent
  <2>2. inbox[t][d] = <<>> /\ reports = <<>> /\ deltas = <<>>
    BY <2>1, CalmSilent
  <2>3. InUse(t, d)' => ~Missing(d)
    <3>1. CASE op[t] = "Open"
      BY <1>9, <2>2, <3>1 DEF Calm, Waits
    <3>2. CASE op[t] = "Close"
      <4>1. pc'[t] = "unsubscribe"
        BY <1>9, <3>2 DEF Controlled
      <4> QED
        BY <4>1 DEF InUse
    <3>3. CASE op[t] \notin {"Open", "Close"}
      BY <1>9, <3>3 DEF Calm, InUse
    <3> QED
      BY <3>1, <3>2, <3>3
  <2>4. pc'[t] = "unsubscribe" /\ filter'[t][d] # "29bit" => reported = "Close"
    <3>1. pc'[t] = "unsubscribe" => op[t] = "Close"
      BY <1>9 DEF Attached
    <3> QED
      BY <1>4, <1>9, <2>2, <3>1 DEF Calm, Waits
  <2> QED
    BY <1>6, <1>9, <2>1, <2>3, <2>4
<1>10. CASE pc[t] = "unsubscribe" /\ pc'[t] = "publish2" /\ op'[t] = op[t]
  <2>1. Hushed(t, d)
    BY <1>10, CalmSilent
  <2>2. ~InUse(t, d)'
    BY <1>10 DEF InUse
  <2>3. filter'[t][d] # "29bit" => reported = "Close"
    BY <1>4, <1>10 DEF Calm
  <2> QED
    BY <1>6, <1>10, <2>1, <2>2, <2>3
<1>11. \/ pc'[t] = pc[t] /\ op'[t] = op[t]
       \/ /\ pc[t] = "idle" /\ pc'[t] \in {"idle", "dead", "publish"}
          /\ pc'[t] = "publish" => op'[t] # "Open"
       \/ /\ \/ pc[t] = "connect" /\ pc'[t] = "subscribe"
             \/ pc[t] = "subscribe" /\ pc'[t] = "publish"
          /\ op'[t] = op[t]
       \/ /\ pc[t] = "wait" /\ pc'[t] \in {"idle", "dead", "unsubscribe"} /\ op'[t] = op[t]
          /\ \/ cstate[t][d] = op[t]
             \/ deltas = <<>> /\ reports = <<>> /\ inbox[t][d] = <<>>
       \/ pc[t] = "unsubscribe" /\ pc'[t] = "publish2" /\ op'[t] = op[t]
  BY DEF Moved
<1> QED
  BY <1>5, <1>7, <1>8, <1>9, <1>10, <1>11

\* A new process, or a call that finds no client.
LEMMA FreshCalm ==
    ASSUME NEW CONSTANT t, NEW CONSTANT d, Alone(t, d), SessionTyped, Fresh(t, d), Controlled(t, d), Entered(t, d), Calm(t, d)
    PROVE  Calm(t, d)'
<1>1. /\ UNCHANGED <<deltas, desired, reports, reported, logging, daemon>> /\ CanbusOf(d)' = CanbusOf(d)
      /\ cstate'[t][d] = NULL /\ inbox'[t][d] = <<>>
      /\ pc[t] \in {"idle", "dead"} /\ pc'[t] \in {"idle", "connect"}
  BY DEF Fresh, SameWorld
<1>2. Hushed(t, d)
  BY <1>1, CalmSilent
<1>3. inbox[t][d] = <<>> /\ reports = <<>> /\ deltas = <<>>
  BY <1>2 DEF Hushed
<1>4. opened'[t] => opened[t]
  BY <1>1, <1>3, OpenedBy
<1>5. (Missing(d)' <=> Missing(d)) /\ Hushed(t, d)'
  BY <1>1, <1>3 DEF Missing, Hushed
<1>6. InUse(t, d)' => ~Missing(d)
  <2>1. InUse(t, d)' => pc'[t] = "idle" /\ client'[t][d] = "live"
    BY <1>1 DEF InUse
  <2>2. InUse(t, d)' => InUse(t, d)
    BY <1>1, <2>1 DEF InUse, Controlled
  <2> QED
    BY <2>2 DEF Calm
<1>7. ~Waits(t, "Open")' /\ ~Waits(t, "Close")' /\ pc'[t] \notin {"unsubscribe", "publish2"}
  BY <1>1 DEF Waits
<1>8. Missing(d) => ~opened[t] /\ reported \in {"Close", NULL}
  BY <1>2, <1>3 DEF Calm
<1> QED
  BY <1>1, <1>4, <1>5, <1>6, <1>7, <1>8 DEF Calm, Single

\* What the service makes of a published state that differs from the reported one.
LEMMA OfferedFirst ==
    ASSUME daemon = "up", NEW want \in [dev : Devices, st : States], NEW have, deltas = <<>>,
           deltas' = Offer(deltas, Delta(want, have, FALSE))
    PROVE  \/ deltas' = <<>> /\ want.st \in {have, NULL}
           \/ /\ want.st \notin {have, NULL}
              /\ \E m \in DeltaMessage : deltas' = <<m>> /\ m.st = want.st /\ ~m.log
<1> DEFINE m == Delta(want, have, FALSE)
<1>1. m \in DeltaMessage /\ m.log = FALSE /\ m.st = IF want.st = have THEN NULL ELSE want.st
  BY DeltaType DEF Delta
<1>2. deltas' = IF daemon = "up" /\ (m.st # NULL \/ m.log) /\ Len(deltas) < MaxQueue THEN Append(deltas, m) ELSE deltas
  BY DEF Offer
<1> HIDE DEF m
<1>3. Len(deltas) < MaxQueue
  BY SessionAssumption
<1>4. Append(deltas, m) = <<m>>
  BY OfOne
<1> QED
  BY <1>1, <1>2, <1>3, <1>4

\* A call that publishes what it desires, and waits.
LEMMA PublishedCalm ==
    ASSUME NEW CONSTANT t, NEW CONSTANT d, Alone(t, d), SessionTyped, SessionTyped', Published(t, d), Attached(t, d),
           Controlled(t, d), Entered(t, d), Library(t, d), daemon = "up", Calm(t, d)
    PROVE  Calm(t, d)'
<1>1. /\ cstate'[t][d] = cstate[t][d] /\ inbox'[t][d] = inbox[t][d] /\ client'[t][d] = client[t][d]
      /\ UNCHANGED <<reported, reports, logging, daemon>> /\ CanbusOf(d)' = CanbusOf(d)
      /\ pc[t] = "publish" /\ pc'[t] = "wait" /\ op'[t] = op[t]
  BY DEF Published, SameEntry
<1>2. desired' \in [dev : Devices, st : States]
  BY DEF SessionTyped, SessionInv, RouteType, WorldType
<1>3. inbox[t][d] = <<>> /\ reports = <<>> /\ deltas = <<>>
  BY <1>1, CalmSilent
<1>4. Written(t, d) /\ filter'[t][d] = filter[t][d]
  BY <1>1 DEF Controlled
<1>5. opened'[t] => opened[t]
  BY <1>1, OpenedBy
<1>6. ~logging /\ logging = FALSE
  BY DEF Calm, SessionTyped, WorldType
<1>7. \/ deltas' = <<>> /\ (filter[t][d] = "29bit" \/ op[t] \in {reported, NULL})
      \/ /\ op[t] \notin {reported, NULL} /\ desired'.st = op[t]
         /\ \E m \in DeltaMessage : deltas' = <<m>> /\ m.st = op[t] /\ ~m.log
  <2>1. CASE filter[t][d] = "29bit"
    BY <1>3, <1>4, <2>1 DEF Written
  <2>2. CASE filter[t][d] # "29bit"
    <3>1. desired'.st = op[t] /\ deltas' = Offer(deltas, Delta(desired', reported, FALSE))
      BY <1>4, <1>6, <2>2 DEF Written
    <3> QED
      BY <1>2, <1>3, <3>1, OfferedFirst
  <2> QED
    BY <2>1, <2>2
<1>8. Missing(d)' <=> Missing(d)
  BY <1>1 DEF Missing
<1>9. Single(t, d)'
  <2>1. CASE deltas' = <<>>
    BY <1>1, <1>3, <2>1 DEF Single, Hushed
  <2>2. CASE /\ op[t] \notin {reported, NULL} /\ desired'.st = op[t]
             /\ \E m \in DeltaMessage : deltas' = <<m>> /\ m.st = op[t] /\ ~m.log
    <3>1. client[t][d] = "live"
      BY <1>1 DEF Attached
    <3>2. cstate[t][d] \in {NULL, reported}
      BY <1>3, <3>1 DEF Calm
    <3>3. Delivery(t, d)'
      BY <1>1, <1>3, <2>2 DEF Delivery
    <3> QED
      BY <1>1, <2>2, <3>2, <3>3 DEF Single
  <2> QED
    BY <1>7, <2>1, <2>2
<1>10. InUse(t, d)' => ~Missing(d)
  <2>1. InUse(t, d)' => InUse(t, d)
    BY <1>1 DEF InUse
  <2> QED
    BY <2>1 DEF Calm
<1>11. Waits(t, "Open")' /\ Missing(d)' => deltas' # <<>>
  <2> SUFFICES ASSUME op[t] = "Open", Missing(d), deltas' = <<>> PROVE FALSE
    BY <1>1, <1>8 DEF Waits
  <2>1. filter[t][d] = "none"
    BY <1>1 DEF Library, Opens
  <2>2. reported \in {"Close", NULL}
    BY <1>1, <1>3 DEF Calm, Waits
  <2>3. NULL \notin {"Open"}
    BY DEF NULL
  <2>4. op[t] \in {reported, NULL} \/ \E m \in DeltaMessage : deltas' = <<m>>
    BY <1>7, <2>1
  <2>5. \A m : <<m>> # <<>>
    OBVIOUS
  <2> QED
    BY <2>2, <2>3, <2>4, <2>5
<1>12. Waits(t, "Close")' /\ Missing(d)' => deltas' = <<>>
  <2>1. Waits(t, "Close")' => InUse(t, d)
    BY <1>1 DEF Waits, InUse
  <2> QED
    BY <1>8, <2>1 DEF Calm
<1>13. Missing(d)' => ~opened'[t]
  BY <1>1, <1>5, <1>8 DEF Calm, Waits
<1>14. Missing(d)' => reported' \in {"Close", NULL}
  BY <1>1, <1>8 DEF Calm, Waits
<1>15. Waits(t, "Close")' /\ filter'[t][d] # "29bit" => deltas' # <<>> \/ reported' = "Close"
  <2> SUFFICES ASSUME op[t] = "Close", filter[t][d] # "29bit", deltas' = <<>> PROVE reported' = "Close"
    BY <1>1, <1>4 DEF Waits
  <2>1. NULL \notin {"Close"}
    BY DEF NULL
  <2>2. op[t] \in {reported, NULL} \/ \E m \in DeltaMessage : deltas' = <<m>>
    BY <1>7
  <2>3. \A m : <<m>> # <<>>
    OBVIOUS
  <2> QED
    BY <1>1, <2>1, <2>2, <2>3
<1>16. client'[t][d] = "live" /\ inbox'[t][d] = <<>> => cstate'[t][d] \in {NULL, reported'}
  BY <1>1 DEF Calm
<1>17. ~logging' /\ pc'[t] \notin {"unsubscribe", "publish2"}
  BY <1>1, <1>6
<1> QED
  BY <1>8, <1>9, <1>10, <1>11, <1>12, <1>13, <1>14, <1>15, <1>16, <1>17 DEF Calm

\* PassThruClose publishes a second time and frees the client.
LEMMA ClosedCalm ==
    ASSUME NEW CONSTANT t, NEW CONSTANT d, Alone(t, d), SessionTyped, SessionTyped', Closed(t, d), Attached(t, d),
           Controlled(t, d), Entered(t, d), daemon = "up", Calm(t, d)
    PROVE  Calm(t, d)'
<1>1. /\ cstate'[t][d] = cstate[t][d] /\ inbox'[t][d] = inbox[t][d] /\ client'[t][d] = "freed"
      /\ UNCHANGED <<reported, reports, logging, daemon>> /\ CanbusOf(d)' = CanbusOf(d)
      /\ pc[t] = "publish2" /\ pc'[t] = "idle" /\ op[t] = "Close"
  BY DEF Closed, Attached
<1>2. desired' \in [dev : Devices, st : States]
  BY DEF SessionTyped, SessionInv, RouteType, WorldType
<1>3. inbox[t][d] = <<>> /\ reports = <<>> /\ deltas = <<>>
  BY <1>1, CalmSilent
<1>4. Written(t, d)
  BY <1>1 DEF Controlled
<1>5. opened'[t] => opened[t]
  BY <1>1, OpenedBy
<1>6. ~logging /\ logging = FALSE
  BY DEF Calm, SessionTyped, WorldType
<1>7. deltas' = <<>>
  <2>1. CASE filter[t][d] = "29bit"
    BY <1>3, <1>4, <2>1 DEF Written
  <2>2. CASE filter[t][d] # "29bit"
    <3>1. desired'.st = "Close" /\ deltas' = Offer(deltas, Delta(desired', reported, FALSE))
      BY <1>1, <1>4, <1>6, <2>2 DEF Written
    <3>2. reported = "Close"
      BY <1>1, <2>2 DEF Calm
    <3> QED
      BY <1>2, <1>3, <3>1, <3>2, OfferedFirst
  <2> QED
    BY <2>1, <2>2
<1>8. Hushed(t, d)' /\ (Missing(d)' <=> Missing(d))
  BY <1>1, <1>3, <1>7 DEF Hushed, Missing
<1>9. ~InUse(t, d)' /\ ~Waits(t, "Open")' /\ ~Waits(t, "Close")'
  BY <1>1 DEF InUse, Waits
<1>10. Missing(d) => ~opened[t] /\ reported \in {"Close", NULL}
  BY <1>1 DEF Calm, Waits
<1> QED
  BY <1>1, <1>5, <1>6, <1>8, <1>9, <1>10 DEF Calm, Single

\* An update is read: it is what the call waits for.
LEMMA ReceivedCalm ==
    ASSUME NEW CONSTANT t, NEW CONSTANT d, Alone(t, d), SessionTyped, Received(t, d), Controlled(t, d), Entered(t, d),
           Calm(t, d)
    PROVE  Calm(t, d)'
<1>1. /\ UNCHANGED <<deltas, desired, reports, reported, logging, daemon>> /\ CanbusOf(d)' = CanbusOf(d)
      /\ client'[t][d] = client[t][d] /\ inbox[t][d] # <<>> /\ inbox'[t][d] = Tail(inbox[t][d])
      /\ cstate'[t][d] = Head(inbox[t][d]) /\ pc'[t] = pc[t] /\ op'[t] = op[t]
  BY DEF Received, SameWorld
<1>2. pc[t] = "wait" /\ cstate[t][d] # op[t] /\ Delivery(t, d)
  BY <1>1 DEF Calm, Single, Hushed
<1>3. inbox[t][d] = <<op[t]>> /\ reports = <<>> /\ deltas = <<>> /\ reported = op[t]
  BY <1>1, <1>2 DEF Delivery
<1>4. inbox'[t][d] = <<>> /\ cstate'[t][d] = op[t]
  BY <1>1, <1>3, OfOne
<1>5. Hushed(t, d)' /\ (Missing(d)' <=> Missing(d))
  BY <1>1, <1>3, <1>4 DEF Hushed, Missing
<1>6. /\ InUse(t, d)' <=> InUse(t, d)
      /\ Waits(t, "Open")' <=> Waits(t, "Open")
      /\ Waits(t, "Close")' <=> Waits(t, "Close")
  BY <1>1, <1>2 DEF InUse, Waits
<1>7. filter'[t][d] = filter[t][d] /\ pc'[t] = "wait"
  BY <1>1, <1>2 DEF Controlled
<1>8. Missing(d) => ~opened'[t]
  <2> SUFFICES ASSUME Missing(d) PROVE ~opened'[t]
    OBVIOUS
  <2>1. CASE op[t] = "Close"
    BY <1>2, <1>4, <2>1 DEF Controlled
  <2>2. CASE op[t] # "Close"
    <3>1. op[t] # "Open" /\ ~opened[t]
      BY <1>2, <1>3, <2>2 DEF Calm, Waits
    <3>2. opened'[t] => opened[t] \/ Head(inbox[t][d]) = "Open"
      BY DEF Entered
    <3> QED
      BY <1>1, <1>4, <3>1, <3>2
  <2> QED
    BY <2>1, <2>2
<1>9. Missing(d) => reported \in {"Close", NULL}
  BY <1>3 DEF Calm
<1> QED
  BY <1>1, <1>3, <1>4, <1>5, <1>6, <1>7, <1>8, <1>9 DEF Calm, Single

\* The service takes the report: the call is told, unless it was no update.
LEMMA ServedCalm ==
    ASSUME NEW CONSTANT t, NEW CONSTANT d, Alone(t, d), SessionTyped, SessionTyped', Served(t, d), Attached(t, d),
           Controlled(t, d), Entered(t, d), daemon = "up", Calm(t, d)
    PROVE  Calm(t, d)'
<1> DEFINE r == Head(reports)
<1>1. /\ cstate'[t][d] = cstate[t][d] /\ client'[t][d] = client[t][d] /\ pc'[t] = pc[t] /\ op'[t] = op[t]
      /\ CanbusOf(d)' = CanbusOf(d) /\ UNCHANGED <<desired, daemon>>
      /\ reports # <<>> /\ reports' = Tail(reports)
      /\ deltas' \in {deltas, Offer(deltas, Delta(desired, reported', logging'))}
      /\ \/ ~IsUpdate(r) /\ reported' = reported /\ inbox'[t][d] = inbox[t][d]
         \/ /\ IsUpdate(r) /\ reported' = r.st
            /\ inbox'[t][d] \in {inbox[t][d], Append(inbox[t][d], r.st)}
            /\ Subscribed(t, d) => inbox'[t][d] # <<>>
  BY DEF Served
<1>2. pc[t] = "wait" /\ cstate[t][d] # op[t] /\ Delivery(t, d) /\ desired.st = op[t]
  BY <1>1 DEF Calm, Single, Hushed
<1>3. PICK e \in ReportMessage :
        /\ reports = <<e>> /\ (Tells(e, op[t]) \/ (~IsUpdate(e) /\ op[t] = "Connect"))
        /\ deltas = <<>> /\ inbox[t][d] = <<>> /\ reported # op[t]
  BY <1>1, <1>2 DEF Delivery
<1>4. r = e /\ reports' = <<>>
  BY <1>1, <1>3, OfOne
<1>5. logging' = FALSE /\ desired \in [dev : Devices, st : States]
  BY DEF Calm, Served, SessionTyped, SessionInv, RouteType, WorldType
<1>6. \/ deltas' = <<>>
      \/ /\ desired.st \notin {reported', NULL}
         /\ \E m \in DeltaMessage : deltas' = <<m>> /\ m.st = desired.st /\ ~m.log
  <2>1. CASE deltas' = deltas
    BY <1>3, <2>1
  <2>2. CASE deltas' = Offer(deltas, Delta(desired, reported', FALSE))
    BY <1>3, <1>5, <2>2, OfferedFirst
  <2> QED
    BY <1>1, <1>5, <2>1, <2>2
<1>7. Missing(d)' <=> Missing(d)
  BY <1>1 DEF Missing
<1>8. /\ InUse(t, d)' <=> InUse(t, d)
      /\ Waits(t, "Open")' <=> Waits(t, "Open")
      /\ Waits(t, "Close")' <=> Waits(t, "Close")
  BY <1>1, <1>2 DEF InUse, Waits
<1>9. op[t] \notin {"Open", "Close"} => InUse(t, d)
  BY <1>2 DEF InUse
<1>10. filter'[t][d] = filter[t][d] /\ pc'[t] = "wait"
  BY <1>1, <1>2 DEF Controlled
<1>11. opened'[t] => opened[t]
  BY <1>3 DEF Entered
<1>12. CASE Tells(e, op[t])
  <2>1. IsUpdate(r) /\ r.st = op[t]
    BY <1>4, <1>12 DEF Tells
  <2>2. link[t][d] = "both"
    BY <1>2 DEF Attached
  <2>3. Subscribed(t, d)
    BY <1>2, <2>2 DEF Subscribed
  <2>4. reported' = op[t] /\ inbox'[t][d] # <<>> /\ inbox'[t][d] \in {<<>>, Append(<<>>, op[t])}
    BY <1>1, <1>3, <2>1, <2>3
  <2>5. inbox'[t][d] = <<op[t]>>
    BY <2>4, OfOne
  <2>6. deltas' = <<>>
    BY <1>2, <1>6, <2>4
  <2>7. Delivery(t, d)'
    BY <1>1, <1>4, <2>4, <2>5, <2>6 DEF Delivery
  <2>8. Single(t, d)'
    BY <1>1, <1>2, <2>7 DEF Single
  <2>9. Missing(d) => op[t] = "Close"
    BY <1>2, <1>3, <1>9 DEF Calm, Waits
  <2>10. /\ InUse(t, d)' => ~Missing(d)'
         /\ Waits(t, "Open")' /\ Missing(d)' => deltas' # <<>>
    BY <1>3, <1>7, <1>8 DEF Calm
  <2>11. Waits(t, "Close")' <=> op[t] = "Close"
    BY <1>2, <1>8 DEF Waits
  <2>12. Missing(d)' => ~opened'[t] \/ (Waits(t, "Close")' /\ ~Hushed(t, d)')
    BY <1>7, <2>4, <2>9, <2>11 DEF Hushed
  <2> QED
    BY <1>5, <1>7, <1>10, <2>4, <2>6, <2>8, <2>9, <2>10, <2>11, <2>12 DEF Calm
<1>13. CASE ~IsUpdate(e) /\ op[t] = "Connect"
  <2>1. reported' = reported /\ inbox'[t][d] = <<>>
    BY <1>1, <1>3, <1>4, <1>13
  <2>2. Single(t, d)'
    <3>1. CASE deltas' = <<>>
      BY <1>4, <2>1, <3>1 DEF Single, Hushed
    <3>2. CASE \E m \in DeltaMessage : deltas' = <<m>> /\ m.st = desired.st /\ ~m.log
      <4>1. Delivery(t, d)'
        BY <1>1, <1>2, <1>3, <1>4, <2>1, <3>2 DEF Delivery
      <4> QED
        BY <1>1, <1>2, <4>1 DEF Single
    <3> QED
      BY <1>6, <3>1, <3>2
  <2>3. ~Missing(d)
    BY <1>9, <1>13 DEF Calm
  <2>4. ~Waits(t, "Open")' /\ ~Waits(t, "Close")'
    BY <1>8, <1>13 DEF Waits
  <2>5. client'[t][d] = "live" => cstate'[t][d] \in {NULL, reported'}
    BY <1>1, <1>3, <2>1 DEF Calm
  <2> QED
    BY <1>5, <1>7, <1>10, <2>2, <2>3, <2>4, <2>5 DEF Calm
<1> QED
  BY <1>3, <1>12, <1>13

\* The daemon carries out what the call asked for.
LEMMA CarriedCalm ==
    ASSUME NEW CONSTANT t, NEW CONSTANT d, Alone(t, d), SessionTyped, Carried(t, d),
           Controlled(t, d), Entered(t, d), Calm(t, d)
    PROVE  Calm(t, d)'
<1>1. /\ cstate'[t][d] = cstate[t][d] /\ inbox'[t][d] = inbox[t][d] /\ client'[t][d] = client[t][d]
      /\ pc'[t] = pc[t] /\ op'[t] = op[t] /\ UNCHANGED <<desired, reported>> /\ (~logging => ~logging')
      /\ deltas # <<>> /\ Handled(d, Head(deltas)) /\ deltas' = Tail(deltas)
  BY DEF Carried, SameEntry
<1>2. pc[t] = "wait" /\ cstate[t][d] # op[t] /\ Delivery(t, d) /\ desired.st = op[t]
  BY <1>1 DEF Calm, Single, Hushed
<1>3. PICK m \in DeltaMessage :
        /\ deltas = <<m>> /\ m.st = op[t] /\ ~m.log
        /\ reports = <<>> /\ inbox[t][d] = <<>> /\ reported # op[t]
  BY <1>1, <1>2 DEF Delivery
<1>4. Handled(d, m) /\ deltas' = <<>>
  BY <1>1, <1>3, OfOne
<1>5. /\ InUse(t, d)' <=> InUse(t, d)
      /\ Waits(t, "Open")' <=> Waits(t, "Open")
      /\ Waits(t, "Close")' <=> Waits(t, "Close")
      /\ Waits(t, "Close") <=> op[t] = "Close"
      /\ op[t] \notin {"Open", "Close"} => InUse(t, d)
  BY <1>1, <1>2 DEF InUse, Waits
<1>6. op[t] = "Close" \/ InUse(t, d) => ~Missing(d)
  BY <1>2, <1>3, OfOne DEF Calm, Waits
<1>7. \/ op[t] = "Close" /\ Missing(d)' /\ TellsNow(op[t])
      \/ op[t] # "Close" /\ ~Missing(d)' /\ TellsNow(op[t])
      \/ op[t] = "Connect" /\ ~Missing(d)' /\ TellsNothing
  <2>1. Missing(d) => op[t] = "Open"
    BY <1>5, <1>6
  <2>2. "unknown" \notin Acting
    BY DEF Acting
  <2> QED
    BY <1>3, <1>4, <2>1, <2>2 DEF Handled, Missing
<1>8. ASSUME TellsNow(op[t]) PROVE Delivery(t, d)' /\ reports' # <<>>
  <2>1. PICK r \in ReportMessage : Tells(r, op[t]) /\ reports' = Append(reports, r)
    BY <1>8 DEF TellsNow
  <2>2. reports' = <<r>> /\ reports' # <<>>
    BY <1>3, <2>1, OfOne
  <2>3. Tells(r, op'[t])
    BY <1>1, <2>1
  <2> QED
    BY <1>1, <1>3, <1>4, <2>1, <2>2, <2>3 DEF Delivery
<1>9. ASSUME TellsNothing, op[t] = "Connect" PROVE Delivery(t, d)' \/ Hushed(t, d)'
  <2>1. CASE UNCHANGED reports
    BY <1>1, <1>3, <1>4, <2>1 DEF Hushed
  <2>2. ASSUME NEW r \in ReportMessage, ~IsUpdate(r), reports' = Append(reports, r) PROVE Delivery(t, d)'
    <3>1. reports' = <<r>>
      BY <1>3, <2>2, OfOne
    <3> QED
      BY <1>1, <1>3, <1>4, <1>9, <2>2, <3>1 DEF Delivery
  <2> QED
    BY <1>9, <2>1, <2>2 DEF TellsNothing
<1>10. Single(t, d)'
  <2>1. Delivery(t, d)' \/ Hushed(t, d)'
    BY <1>7, <1>8, <1>9
  <2> QED
    BY <1>1, <1>2, <2>1 DEF Single
<1>11. filter'[t][d] = filter[t][d] /\ pc'[t] = "wait" /\ ~logging'
  BY <1>1, <1>2 DEF Controlled, Calm
<1>12. op[t] = "Close" => reports' # <<>>
  BY <1>7, <1>8
<1>13. Missing(d)' => op[t] = "Close"
  BY <1>7
<1>14. client'[t][d] = "live" => cstate'[t][d] \in {NULL, reported'}
  BY <1>1, <1>3 DEF Calm
<1>15. InUse(t, d)' => ~Missing(d)'
  BY <1>2, <1>5, <1>13 DEF InUse
<1>16. op[t] = "Close" => ~Hushed(t, d)'
  BY <1>12 DEF Hushed
<1>17. Waits(t, "Open")' => op[t] = "Open"
  BY <1>5 DEF Waits
<1> QED
  BY <1>4, <1>5, <1>10, <1>11, <1>12, <1>13, <1>14, <1>15, <1>16, <1>17 DEF Calm

\* Every step keeps it, while nobody asks for a log.
LEMMA CalmStep ==
    ASSUME NEW CONSTANT t, NEW CONSTANT d, Alone(t, d), SessionTyped, SessionTyped', Attached(t, d), Attached(t, d)',
           Library(t, d), Controlled(t, d), Entered(t, d), daemon = "up", Calm(t, d),
           \/ Moved(t, d) \/ Fresh(t, d) \/ Published(t, d) \/ Closed(t, d) \/ Received(t, d)
           \/ Served(t, d) \/ Carried(t, d)
    PROVE  Calm(t, d)'
  BY MovedCalm, FreshCalm, PublishedCalm, ClosedCalm, ReceivedCalm, ServedCalm, CarriedCalm

\* Every place of a call is one of these.
LEMMA Places ==
    ASSUME NEW CONSTANT t, NEW CONSTANT d, Alone(t, d), SessionTyped, Attached(t, d)
    PROVE  \/ Unused(t, d) \/ InUse(t, d) \/ Waits(t, "Open") \/ Waits(t, "Close")
           \/ pc[t] \in {"unsubscribe", "publish2"}
<1>1. pc[t] \in {"idle", "connect", "subscribe", "publish", "wait", "unsubscribe", "publish2", "dead"}
  BY OnlyTester DEF Points
<1>2. CASE pc[t] \in {"idle", "dead"}
  BY <1>2 DEF Unused, InUse
<1>3. CASE pc[t] \in {"connect", "subscribe"}
  BY <1>3 DEF Attached, Unused, Opens
<1>4. CASE pc[t] = "publish"
  BY <1>4 DEF Unused, Opens, InUse
<1>5. CASE pc[t] = "wait"
  BY <1>5 DEF InUse, Waits
<1> QED
  BY <1>1, <1>2, <1>3, <1>4, <1>5

\* A call goes from one point to the next and publishes nothing.
LEMMA MovedOpens ==
    ASSUME NEW CONSTANT t, NEW CONSTANT d, Alone(t, d), SessionTyped, Moved(t, d), Attached(t, d), Attached(t, d)',
           Controlled(t, d), Entered(t, d), Library(t, d), logs' = logs,
           logs = 0 => Calm(t, d), logs = 0 \/ logs = 1, OpenInv(t, d), Logged(t, d)
    PROVE  OpenInv(t, d)'
<1>1. /\ UNCHANGED <<deltas, desired, reports, reported, logging, daemon>> /\ CanbusOf(d)' = CanbusOf(d)
      /\ cstate'[t][d] = cstate[t][d] /\ inbox'[t][d] = inbox[t][d] /\ client'[t][d] = client[t][d]
      /\ SameWorld(d) /\ SameEntry(t, d)
  BY DEF Moved, SameWorld, SameEntry
<1>2. /\ Missing(d)' <=> Missing(d)
      /\ Hushed(t, d)' <=> Hushed(t, d)
      /\ Unread(t, d)' <=> Unread(t, d)
      /\ \A s : Reporting(s)' <=> Reporting(s)
      /\ \A s : Heard(t, d, s)' <=> Heard(t, d, s)
      /\ Clean(t, d)' <=> Clean(t, d)
      /\ OnlyClose(t, d)' <=> OnlyClose(t, d)
      /\ Closing(t, d)' <=> Closing(t, d)
      /\ Reopening(t, d)' <=> Reopening(t, d)
  BY <1>1, SameFacts DEF Missing, Hushed, Unread, Reporting, Heard
<1>3. /\ AllIn(t, d, {"Close"})' <=> AllIn(t, d, {"Close"})
      /\ Shut(t, d)' <=> Shut(t, d)
      /\ Unopened(t, d)' <=> Unopened(t, d)
  BY <1>1, <1>2 DEF AllIn, Shut, Unopened
<1>4. opened'[t] => opened[t]
  BY <1>1, OpenedBy
<1>5. pc[t] # "dead" /\ opened[t] => opened'[t]
  BY <1>1 DEF Entered, Library
<1>6. chan'[t][d] => chan[t][d] \/ (pc[t] = "idle" /\ pc'[t] = "publish" /\ op'[t] = "Connect")
  BY DEF Entered
<1>7. Missing(d) => (~Reporting("Close") => reported # "Connect" /\ ~Reporting("Connect"))
  BY DEF OpenInv
<1>8. CASE pc'[t] = pc[t] /\ op'[t] = op[t]
  <2>1. /\ InUse(t, d)' <=> InUse(t, d)
        /\ Unused(t, d)' <=> Unused(t, d)
        /\ Opens(t)' <=> Opens(t)
        /\ Waits(t, "Open")' <=> Waits(t, "Open")
        /\ Waits(t, "Close")' <=> Waits(t, "Close")
    BY <1>1, <1>8 DEF InUse, Unused, Opens, Waits
  <2>2. chan'[t][d] => chan[t][d]
    BY <1>6, <1>8
  <2>3. Abandoned(t, d) => Abandoned(t, d)'
    <3> SUFFICES ASSUME Abandoned(t, d) PROVE Abandoned(t, d)'
      OBVIOUS
    <3>1. filter'[t][d] = "none"
      <4>1. pc[t] \in {"idle", "dead"} => ~chan[t][d]
        BY DEF Abandoned, Waits
      <4> QED
        BY <4>1 DEF Abandoned, Entered, Controlled
    <3>2. Waits(t, "Connect")' <=> Waits(t, "Connect")
      BY <1>8 DEF Waits
    <3>3. /\ inbox[t][d] = <<>> /\ reports = <<>> /\ cstate[t][d] # "Connect"
          /\ logs = 1 /\ (opened[t] => ~logging)
      BY DEF Abandoned
    <3>4. \/ /\ pc[t] # "wait" /\ deltas = <<>>
             /\ pc[t] = "publish" => op[t] \in {"Close", "Connect"} /\ opened[t]
             /\ chan[t][d] => pc[t] = "publish" /\ op[t] = "Connect"
          \/ Waits(t, "Connect") /\ deltas # <<>> /\ Head(deltas).st = "Connect" /\ ~Head(deltas).log
      BY DEF Abandoned
    <3>5. \/ /\ pc'[t] # "wait" /\ deltas' = <<>>
             /\ pc'[t] = "publish" => op'[t] \in {"Close", "Connect"} /\ opened'[t]
             /\ chan'[t][d] => pc'[t] = "publish" /\ op'[t] = "Connect"
          \/ Waits(t, "Connect")' /\ deltas' # <<>> /\ Head(deltas').st = "Connect" /\ ~Head(deltas').log
      BY <1>1, <1>5, <1>8, <2>2, <3>2, <3>4
    <3> QED
      BY <1>1, <1>4, <3>1, <3>3, <3>5 DEF Abandoned
  <2>4. Opens(t)' \/ Waits(t, "Open")' => ~chan'[t][d] /\ (Missing(d)' \/ ~Clean(t, d)' => Unread(t, d)')
    BY <1>2, <2>1, <2>2 DEF OpenInv
  <2>5. Missing(d)' => (Unused(t, d)' => Shut(t, d)' \/ (Hushed(t, d)' /\ logs' = 1))
    BY <1>2, <1>3, <2>1 DEF OpenInv
  <2>6. Missing(d)' => (Waits(t, "Open")' => Unopened(t, d)') /\ (Waits(t, "Close")' => Closing(t, d)')
    BY <1>2, <1>3, <2>1 DEF OpenInv
  <2>7. Missing(d)' => (InUse(t, d)' => Abandoned(t, d)') /\ (pc'[t] \in {"unsubscribe", "publish2"} => OnlyClose(t, d)')
    BY <1>2, <1>8, <2>1, <2>3 DEF OpenInv
  <2> QED
    BY <1>1, <1>2, <1>7, <2>4, <2>5, <2>6, <2>7 DEF OpenInv
<1>9. ASSUME ~Opens(t)', pc'[t] # "wait",
             Missing(d) => (Unused(t, d)' => Shut(t, d) \/ (Hushed(t, d) /\ logs = 1)),
             Missing(d) => (InUse(t, d)' => Abandoned(t, d)'),
             Missing(d) => (pc'[t] \in {"unsubscribe", "publish2"} => OnlyClose(t, d))
      PROVE  OpenInv(t, d)'
  <2>1. ~Waits(t, "Open")' /\ ~Waits(t, "Close")'
    BY <1>9 DEF Waits
  <2> QED
    BY <1>1, <1>2, <1>3, <1>7, <1>9, <2>1 DEF OpenInv
<1>10. CASE /\ pc[t] = "idle" /\ pc'[t] \in {"idle", "dead", "publish"}
            /\ pc'[t] = "publish" => op'[t] # "Open"
  <2>1. ~Opens(t)'
    BY <1>10 DEF Opens
  <2>2. Unused(t, d)' => Unused(t, d)
    BY <1>1, <1>10, <2>1 DEF Unused
  <2>3. InUse(t, d)' => InUse(t, d)
    <3>1. pc'[t] = "publish" => client'[t][d] = "live"
      BY DEF Attached
    <3> QED
      BY <1>1, <1>10, <3>1 DEF InUse
  <2>4. Missing(d) => (InUse(t, d)' => Abandoned(t, d)')
    <3> SUFFICES ASSUME Missing(d), InUse(t, d)' PROVE Abandoned(t, d)'
      OBVIOUS
    <3>1. Abandoned(t, d)
      BY <2>3 DEF OpenInv
    <3>2. /\ inbox[t][d] = <<>> /\ reports = <<>> /\ cstate[t][d] # "Connect" /\ filter[t][d] = "none"
          /\ logs = 1 /\ (opened[t] => ~logging) /\ deltas = <<>> /\ ~chan[t][d]
      BY <1>10, <3>1 DEF Abandoned, Waits
    <3>3. filter'[t][d] = "none"
      BY <1>10, <3>2 DEF Entered
    <3>4. pc'[t] = "publish" => op'[t] \in {"Close", "Connect"} /\ opened'[t]
      BY <1>10, <3>2 DEF Entered
    <3>5. chan'[t][d] => pc'[t] = "publish" /\ op'[t] = "Connect"
      BY <1>6, <3>2
    <3>6. pc'[t] # "wait"
      BY <1>10
    <3> QED
      BY <1>1, <1>4, <3>2, <3>3, <3>4, <3>5, <3>6 DEF Abandoned
  <2>5. Missing(d) => (Unused(t, d)' => Shut(t, d) \/ (Hushed(t, d) /\ logs = 1))
    BY <2>2 DEF OpenInv
  <2>6. pc'[t] \notin {"wait", "unsubscribe", "publish2"}
    BY <1>10
  <2> QED
    BY <1>9, <2>1, <2>4, <2>5, <2>6
<1>11. CASE /\ \/ pc[t] = "connect" /\ pc'[t] = "subscribe"
               \/ pc[t] = "subscribe" /\ pc'[t] = "publish"
            /\ op'[t] = op[t]
  <2>1. op[t] = "Open" /\ Opens(t) /\ Opens(t)'
    BY <1>11 DEF Attached, Opens
  <2>2. ~InUse(t, d)' /\ ~Waits(t, "Open")' /\ ~Waits(t, "Close")' /\ pc'[t] \notin {"unsubscribe", "publish2"}
    BY <1>11, <2>1 DEF InUse, Waits
  <2>3. Unused(t, d)
    BY <2>1 DEF Unused
  <2>4. ~chan'[t][d]
    BY <1>6, <1>11, <2>1 DEF OpenInv
  <2>5. Missing(d)' \/ ~Clean(t, d)' => Unread(t, d)'
    BY <1>2, <2>1 DEF OpenInv
  <2>6. Missing(d)' => Shut(t, d)' \/ (Hushed(t, d)' /\ logs' = 1)
    BY <1>2, <1>3, <2>3 DEF OpenInv
  <2> QED
    BY <1>1, <1>2, <1>7, <2>2, <2>4, <2>5, <2>6 DEF OpenInv
<1>12. CASE /\ pc[t] = "wait" /\ pc'[t] \in {"idle", "dead", "unsubscribe"} /\ op'[t] = op[t]
            /\ \/ cstate[t][d] = op[t]
               \/ deltas = <<>> /\ reports = <<>> /\ inbox[t][d] = <<>>
  <2>1. client[t][d] = "live" /\ filter'[t][d] = filter[t][d]
    BY <1>12 DEF Attached, Controlled
  <2>2. ~Opens(t)' /\ pc'[t] # "wait" /\ ~Unused(t, d)'
    BY <1>1, <1>12, <2>1 DEF Opens, Unused
  <2>3. Missing(d) => (InUse(t, d)' => Abandoned(t, d)')
    <3> SUFFICES ASSUME Missing(d), InUse(t, d)' PROVE Abandoned(t, d)'
      OBVIOUS
    <3>1. pc'[t] \in {"idle", "dead"}
      BY <1>12 DEF InUse
    <3>2. op[t] # "Close"
      BY <1>12, <3>1 DEF Controlled
    <3>3. CASE op[t] = "Open"
      <4>1. Waits(t, "Open")
        BY <1>12, <3>3 DEF Waits
      <4>2. cstate[t][d] # "Open" /\ ~chan[t][d] /\ Unread(t, d)
        BY <4>1 DEF OpenInv, Unopened, Reopening
      <4>3. deltas = <<>> /\ reports = <<>> /\ inbox[t][d] = <<>>
        BY <1>12, <3>3, <4>2
      <4>4. logs = 1
        BY <4>1, <4>3 DEF Calm
      <4>5. opened[t] => ~logging
        BY <1>12, <3>3 DEF Logged, Logging, Waits
      <4>6. filter[t][d] = "none"
        BY <4>1 DEF Library
      <4>7. cstate[t][d] # "Connect"
        BY <4>2 DEF Unread, NULL
      <4>8. ~chan'[t][d]
        BY <1>6, <1>12, <4>2
      <4> QED
        BY <1>1, <1>4, <2>1, <3>1, <4>3, <4>4, <4>5, <4>6, <4>7, <4>8 DEF Abandoned
    <3>4. CASE op[t] # "Open"
      <4>1. InUse(t, d)
        BY <1>12, <3>2, <3>4 DEF InUse
      <4>2. Abandoned(t, d)
        BY <4>1 DEF OpenInv
      <4>3. op[t] = "Connect" /\ deltas # <<>> /\ cstate[t][d] # "Connect"
        BY <1>12, <4>2 DEF Abandoned, Waits
      <4> QED
        BY <1>12, <4>3
    <3> QED
      BY <3>3, <3>4
  <2>4. Missing(d) => (pc'[t] \in {"unsubscribe", "publish2"} => OnlyClose(t, d))
    <3> SUFFICES ASSUME Missing(d), pc'[t] \in {"unsubscribe", "publish2"} PROVE OnlyClose(t, d)
      OBVIOUS
    <3>1. op[t] = "Close" /\ Waits(t, "Close")
      BY <1>12 DEF Attached, Waits
    <3>2. Closing(t, d)
      BY <3>1 DEF OpenInv
    <3>3. AllIn(t, d, {"Close"})
      BY <1>12, <3>1, <3>2, AllInNothing DEF Closing
    <3> QED
      BY <3>2, <3>3 DEF Closing, OnlyClose
  <2> QED
    BY <1>9, <2>2, <2>3, <2>4
<1>13. CASE pc[t] = "unsubscribe" /\ pc'[t] = "publish2" /\ op'[t] = op[t]
  <2>1. ~Opens(t)' /\ ~Unused(t, d)' /\ ~InUse(t, d)' /\ pc'[t] # "wait"
    BY <1>13 DEF Opens, Unused, InUse
  <2>2. Missing(d) => OnlyClose(t, d)
    BY <1>13 DEF OpenInv
  <2> QED
    BY <1>9, <2>1, <2>2
<1>14. \/ pc'[t] = pc[t] /\ op'[t] = op[t]
       \/ /\ pc[t] = "idle" /\ pc'[t] \in {"idle", "dead", "publish"}
          /\ pc'[t] = "publish" => op'[t] # "Open"
       \/ /\ \/ pc[t] = "connect" /\ pc'[t] = "subscribe"
             \/ pc[t] = "subscribe" /\ pc'[t] = "publish"
          /\ op'[t] = op[t]
       \/ /\ pc[t] = "wait" /\ pc'[t] \in {"idle", "dead", "unsubscribe"} /\ op'[t] = op[t]
          /\ \/ cstate[t][d] = op[t]
             \/ deltas = <<>> /\ reports = <<>> /\ inbox[t][d] = <<>>
       \/ pc[t] = "unsubscribe" /\ pc'[t] = "publish2" /\ op'[t] = op[t]
  BY DEF Moved
<1> QED
  BY <1>8, <1>10, <1>11, <1>12, <1>13, <1>14

\* A new process, or a call that finds no client.
LEMMA FreshOpens ==
    ASSUME NEW CONSTANT t, NEW CONSTANT d, Alone(t, d), SessionTyped, Fresh(t, d), Attached(t, d)',
           Controlled(t, d), Entered(t, d), logs' = logs, OpenInv(t, d)
    PROVE  OpenInv(t, d)'
<1>1. /\ UNCHANGED <<deltas, desired, reports, reported, logging, daemon>> /\ CanbusOf(d)' = CanbusOf(d)
      /\ cstate'[t][d] = NULL /\ inbox'[t][d] = <<>>
      /\ pc[t] \in {"idle", "dead"} /\ pc'[t] \in {"idle", "connect"}
  BY DEF Fresh, SameWorld
<1>2. (Missing(d)' <=> Missing(d)) /\ (\A s : Reporting(s)' <=> Reporting(s))
  BY <1>1 DEF Missing, Reporting
<1>3. opened'[t] => opened[t]
  BY <1>1 DEF Entered
<1>4. ~Waits(t, "Open")' /\ ~Waits(t, "Close")' /\ pc'[t] \notin {"unsubscribe", "publish2", "wait", "publish"}
  BY <1>1 DEF Waits
<1>5. Opens(t)' => ~chan'[t][d] /\ Unread(t, d)'
  <2>1. Opens(t)' => pc'[t] = "connect"
    BY <1>1 DEF Opens
  <2> QED
    BY <1>1, <2>1 DEF Entered, Unread
<1>6. Abandoned(t, d) => inbox[t][d] = <<>> /\ reports = <<>> /\ deltas = <<>> /\ logs = 1 /\ ~chan[t][d]
  BY <1>1 DEF Abandoned, Waits
<1>7. Missing(d) => Shut(t, d) \/ (inbox[t][d] = <<>> /\ reports = <<>> /\ deltas = <<>> /\ logs = 1)
  <2>1. Unused(t, d) \/ InUse(t, d)
    BY <1>1 DEF Unused, InUse
  <2> QED
    BY <1>6, <2>1 DEF OpenInv, Hushed
<1>8. Shut(t, d) => Shut(t, d)'
  <2>1. Every(inbox'[t][d], {"Close"})
    BY <1>1, EmptyOrder
  <2> QED
    BY <1>1, <2>1 DEF Shut, AllIn
<1>9. Missing(d) => Shut(t, d)' \/ (Hushed(t, d)' /\ logs' = 1)
  BY <1>1, <1>7, <1>8 DEF Hushed
<1>10. Missing(d) /\ InUse(t, d)' => Abandoned(t, d)'
  <2> SUFFICES ASSUME Missing(d), InUse(t, d)' PROVE Abandoned(t, d)'
    OBVIOUS
  <2>1. pc'[t] = "idle" /\ client'[t][d] = "live"
    BY <1>1 DEF InUse, Attached
  <2>2. client[t][d] = "live"
    BY <2>1 DEF Controlled
  <2>3. Abandoned(t, d)
    BY <1>1, <2>2 DEF OpenInv, InUse
  <2>4. ~chan'[t][d] /\ filter'[t][d] = "none"
    BY <1>1, <1>6, <2>1, <2>3 DEF Entered, Abandoned
  <2>5. cstate'[t][d] # "Connect"
    BY <1>1 DEF NULL
  <2> QED
    BY <1>1, <1>3, <1>6, <2>1, <2>3, <2>4, <2>5 DEF Abandoned
<1>11. Missing(d) => (~Reporting("Close") => reported # "Connect" /\ ~Reporting("Connect"))
  BY DEF OpenInv
<1> QED
  BY <1>1, <1>2, <1>4, <1>5, <1>9, <1>10, <1>11 DEF OpenInv

\* A call that publishes what it desires, and waits.
LEMMA PublishedOpens ==
    ASSUME NEW CONSTANT t, NEW CONSTANT d, Alone(t, d), SessionTyped, SessionTyped', Published(t, d), Attached(t, d),
           Controlled(t, d), Entered(t, d), Library(t, d), CloseInv(t, d)', logs' = logs, daemon = "up",
           OpenInv(t, d)
    PROVE  OpenInv(t, d)'
<1>1. /\ cstate'[t][d] = cstate[t][d] /\ inbox'[t][d] = inbox[t][d] /\ client'[t][d] = client[t][d]
      /\ UNCHANGED <<reported, reports, logging, daemon>> /\ CanbusOf(d)' = CanbusOf(d)
      /\ pc[t] = "publish" /\ pc'[t] = "wait" /\ op'[t] = op[t]
  BY DEF Published, SameEntry
<1>2. /\ Pipeline(t, d) /\ deltas \in Seq(DeltaMessage) /\ logging \in BOOLEAN /\ op[t] \in States
      /\ desired' \in [dev : Devices, st : States]
  BY OnlyTester DEF SessionTyped, SessionInv, RouteType, WorldType, Pipeline
<1>3. filter'[t][d] = filter[t][d] /\ Written(t, d)
  BY <1>1 DEF Controlled
<1>4. filter[t][d] # "29bit" => /\ desired'.st = op[t] /\ Adds(op[t])
                                /\ deltas' = Offer(deltas, Delta(desired', reported, logging))
  BY <1>2, <1>3, OfferAdds DEF Written
<1>5. /\ Missing(d)' <=> Missing(d)
      /\ Unread(t, d)' <=> Unread(t, d)
      /\ \A s : Reporting(s)' <=> Reporting(s)
  BY <1>1 DEF Missing, Unread, Reporting
<1>6. opened'[t] => opened[t]
  BY <1>1, OpenedBy
<1>7. /\ pc'[t] \notin {"idle", "dead", "unsubscribe", "publish2"} /\ ~Opens(t)' /\ ~Unused(t, d)'
      /\ Waits(t, "Open")' <=> op[t] = "Open"
      /\ Waits(t, "Close")' <=> op[t] = "Close"
      /\ Waits(t, "Connect")' <=> op[t] = "Connect"
      /\ InUse(t, d)' <=> op[t] \notin {"Open", "Close"}
      /\ InUse(t, d) <=> op[t] # "Open"
      /\ Opens(t) <=> op[t] = "Open"
  BY <1>1 DEF Opens, Waits, Unused, InUse
<1>8. op[t] = "Open" => ~chan'[t][d] /\ (Missing(d)' \/ ~Clean(t, d)' => Unread(t, d)')
  <2> SUFFICES ASSUME op[t] = "Open" PROVE ~chan'[t][d] /\ (Missing(d)' \/ ~Clean(t, d)' => Unread(t, d)')
    OBVIOUS
  <2>1. ~chan[t][d] /\ (Missing(d) \/ ~Clean(t, d) => Unread(t, d)) /\ filter[t][d] = "none"
    BY <1>7 DEF OpenInv, Library
  <2>2. ~chan'[t][d]
    BY <1>1, <2>1 DEF Entered
  <2>3. desired'.st = "Open" /\ Adds("Open")
    BY <1>4, <2>1
  <2>4. "Open" \in (Ops \ {"Close"}) \cup {NULL}
    BY DEF Ops
  <2>5. AllIn(t, d, Ops \ {"Close"}) => AllIn(t, d, Ops \ {"Close"})'
    BY <1>1, <1>2, <2>3, <2>4, PublishedIn
  <2>6. Clean(t, d) => Clean(t, d)'
    BY <2>3, <2>5 DEF Clean
  <2> QED
    BY <1>5, <2>1, <2>2, <2>6
<1>9. Missing(d) /\ op[t] = "Open" => Unopened(t, d)'
  <2> SUFFICES ASSUME Missing(d), op[t] = "Open" PROVE Unopened(t, d)'
    OBVIOUS
  <2>1. Opens(t) /\ Unused(t, d) /\ filter[t][d] = "none"
    BY <1>7 DEF Unused, Library
  <2>2. desired'.st = "Open" /\ Adds("Open")
    BY <1>4, <2>1
  <2>3. AllIn(t, d, {"Close"})
    <3>1. Shut(t, d) \/ Hushed(t, d)
      BY <2>1 DEF OpenInv
    <3> QED
      BY <3>1, AllInNothing DEF Shut, Hushed
  <2>4. AllIn(t, d, {"Close", "Open"})
    BY <2>3, AllInMore
  <2>5. AllIn(t, d, {"Close", "Open"})'
    BY <1>1, <1>2, <2>2, <2>4, PublishedIn
  <2>6. "Open" \in Ops /\ "Open" \notin {"Close"}
    BY DEF Ops
  <2>7. Follows(t, d, "Open")' /\ ~Heard(t, d, "Open")' /\ ~Reporting("Open")'
    BY <1>1, <1>2, <2>2, <2>3, <2>6, PublishedFollows
  <2>8. cstate'[t][d] # "Open"
    BY <1>1, <2>1 DEF OpenInv, Unread, NULL
  <2> QED
    BY <2>2, <2>5, <2>7, <2>8 DEF Unopened, Reopening
<1>10. Missing(d) /\ op[t] = "Close" => Closing(t, d)'
  <2> SUFFICES ASSUME Missing(d), op[t] = "Close" PROVE Closing(t, d)'
    OBVIOUS
  <2>1. filter[t][d] = "none"
    BY <1>7 DEF OpenInv, Abandoned
  <2>2. Closing(t, d)' \/ Unclosable(t, d)'
    BY <1>7 DEF CloseInv
  <2> QED
    BY <1>3, <2>1, <2>2 DEF Unclosable
<1>11. Missing(d) /\ op[t] \notin {"Open", "Close"} => Abandoned(t, d)'
  <2> SUFFICES ASSUME Missing(d), op[t] \notin {"Open", "Close"} PROVE Abandoned(t, d)'
    OBVIOUS
  <2>1. Abandoned(t, d)
    BY <1>7 DEF OpenInv
  <2>2. /\ inbox[t][d] = <<>> /\ reports = <<>> /\ cstate[t][d] # "Connect" /\ filter[t][d] = "none"
        /\ logs = 1 /\ ~logging /\ deltas = <<>> /\ op[t] = "Connect"
    BY <1>1, <2>1 DEF Abandoned, Waits
  <2>3. ~Reporting("Close")
    BY <2>2, EmptyOrder DEF Reporting
  <2>4. reported # "Connect"
    BY <2>3 DEF OpenInv
  <2>5. logging = FALSE
    BY <1>2, <2>2
  <2>6. desired'.st = "Connect" /\ deltas' = Offer(deltas, Delta(desired', reported, FALSE))
    BY <1>4, <2>2, <2>5
  <2>7. NULL # "Connect"
    BY DEF NULL
  <2>8. PICK m \in DeltaMessage : deltas' = <<m>> /\ m.st = "Connect" /\ ~m.log
    BY <1>2, <2>2, <2>4, <2>6, <2>7, OfferedFirst
  <2>9. deltas' # <<>> /\ Head(deltas') = m
    BY <2>8, OfOne
  <2> QED
    BY <1>1, <1>3, <1>7, <2>2, <2>8, <2>9 DEF Abandoned
<1>12. Missing(d) => (~Reporting("Close") => reported # "Connect" /\ ~Reporting("Connect"))
  BY DEF OpenInv
<1> QED
  BY <1>1, <1>5, <1>7, <1>8, <1>9, <1>10, <1>11, <1>12 DEF OpenInv

\* PassThruClose publishes a second time and frees the client.
LEMMA ClosedOpens ==
    ASSUME NEW CONSTANT t, NEW CONSTANT d, Alone(t, d), SessionTyped, SessionTyped', Closed(t, d), Attached(t, d),
           Controlled(t, d), OpenInv(t, d)
    PROVE  OpenInv(t, d)'
<1>1. /\ inbox'[t][d] = inbox[t][d] /\ client'[t][d] = "freed" /\ UNCHANGED <<reports, reported>>
      /\ pc[t] = "publish2" /\ pc'[t] = "idle" /\ op[t] = "Close" /\ CanbusOf(d)' = CanbusOf(d)
  BY DEF Closed, Attached
<1>2. /\ Pipeline(t, d) /\ deltas \in Seq(DeltaMessage) /\ logging \in BOOLEAN
      /\ desired' \in [dev : Devices, st : States]
  BY OnlyTester DEF SessionTyped, SessionInv, RouteType, WorldType, Pipeline
<1>3. Written(t, d)
  BY <1>1 DEF Controlled
<1>4. filter[t][d] # "29bit" => desired'.st = "Close" /\ Adds("Close")
  BY <1>1, <1>2, <1>3, OfferAdds DEF Written
<1>5. (Missing(d)' <=> Missing(d)) /\ (\A s : Reporting(s)' <=> Reporting(s))
  BY <1>1 DEF Missing, Reporting
<1>6. Missing(d) => Shut(t, d)'
  <2> SUFFICES ASSUME Missing(d) PROVE Shut(t, d)'
    OBVIOUS
  <2>1. desired.st = "Close" /\ AllIn(t, d, {"Close"})
    BY <1>1 DEF OpenInv, OnlyClose
  <2>2. CASE filter[t][d] = "29bit"
    BY <1>1, <1>3, <2>1, <2>2 DEF Written, Shut, AllIn
  <2>3. CASE filter[t][d] # "29bit"
    <3>1. "Close" \in {"Close"} \cup {NULL}
      OBVIOUS
    <3>2. AllIn(t, d, {"Close"})'
      BY <1>1, <1>2, <1>4, <2>1, <2>3, <3>1, PublishedIn
    <3> QED
      BY <1>4, <2>3, <3>2 DEF Shut
  <2> QED
    BY <2>2, <2>3
<1>7. ~InUse(t, d)' /\ ~Opens(t)' /\ ~Waits(t, "Open")' /\ ~Waits(t, "Close")' /\ pc'[t] \notin {"unsubscribe", "publish2"}
  BY <1>1 DEF InUse, Opens, Waits
<1>8. Missing(d) => (~Reporting("Close") => reported # "Connect" /\ ~Reporting("Connect"))
  BY DEF OpenInv
<1> QED
  BY <1>1, <1>5, <1>6, <1>7, <1>8 DEF OpenInv

\* What the steps outside a call leave as it is, and what they keep.
LEMMA OutsideStays ==
    ASSUME NEW CONSTANT t, NEW CONSTANT d, Alone(t, d), SessionTyped, SessionTyped', Entered(t, d), Outside(t, d)
    PROVE  /\ InUse(t, d)' <=> InUse(t, d)
           /\ Unused(t, d)' <=> Unused(t, d)
           /\ Opens(t)' <=> Opens(t)
           /\ \A o : Waits(t, o)' <=> Waits(t, o)
           /\ chan'[t][d] => chan[t][d]
           /\ Clean(t, d) => Clean(t, d)'
           /\ Shut(t, d) => Shut(t, d)'
           /\ OnlyClose(t, d) => OnlyClose(t, d)'
           /\ Closing(t, d) => Closing(t, d)'
           /\ Reopening(t, d) => Reopening(t, d)' \/ Clean(t, d)'
           /\ Reopening(t, d) /\ cstate'[t][d] # "Open" => Reopening(t, d)'
<1>1. /\ Pipeline(t, d) /\ Flow(t, d) /\ UNCHANGED desired
      /\ pc'[t] = pc[t] /\ op'[t] = op[t] /\ client'[t][d] = client[t][d]
  BY OutsideFlow
<1>2. desired \in [dev : Devices, st : States]
  BY DEF SessionTyped, SessionInv, RouteType
<1>3. /\ InUse(t, d)' <=> InUse(t, d)
      /\ Unused(t, d)' <=> Unused(t, d)
      /\ Opens(t)' <=> Opens(t)
      /\ \A o : Waits(t, o)' <=> Waits(t, o)
  BY <1>1 DEF InUse, Unused, Opens, Waits
<1>4. chan'[t][d] => chan[t][d]
  BY <1>1 DEF Entered
<1>5. Clean(t, d) => Clean(t, d)'
  BY <1>1, <1>2, CleanFlow
<1>6. Shut(t, d) => Shut(t, d)'
  <2> SUFFICES ASSUME Shut(t, d) PROVE Shut(t, d)'
    OBVIOUS
  <2>1. desired.st \in {"Close"} \cup {NULL} /\ AllIn(t, d, {"Close"})
    BY DEF Shut
  <2>2. AllIn(t, d, {"Close"})'
    BY <1>1, <2>1, FlowAllIn, YieldsClosed
  <2> QED
    BY <1>1, <2>1, <2>2 DEF Shut
<1>7. OnlyClose(t, d) => OnlyClose(t, d)'
  BY <1>1, OnlyCloseFlow
<1>8. Closing(t, d) => Closing(t, d)'
  BY ClosingFlow
<1>9. /\ Reopening(t, d) => Reopening(t, d)' \/ Clean(t, d)'
      /\ Reopening(t, d) /\ cstate'[t][d] # "Open" => Reopening(t, d)'
  BY ReopeningFlow
<1> QED
  BY <1>3, <1>4, <1>5, <1>6, <1>7, <1>8, <1>9

\* An update is read: no "Open" while the daemon has no client.
LEMMA ReceivedOpens ==
    ASSUME NEW CONSTANT t, NEW CONSTANT d, Alone(t, d), SessionTyped, SessionTyped', Entered(t, d),
           Received(t, d), CloseInv(t, d), OpenInv(t, d)
    PROVE  OpenInv(t, d)'
<1>1. /\ inbox[t][d] # <<>> /\ inbox'[t][d] = Tail(inbox[t][d]) /\ cstate'[t][d] = Head(inbox[t][d])
      /\ UNCHANGED <<reports, reported>> /\ CanbusOf(d)' = CanbusOf(d) /\ pc'[t] = pc[t]
  BY DEF Received, SameWorld
<1>2. Outside(t, d)
  BY DEF Outside
<1>3. /\ InUse(t, d)' <=> InUse(t, d)
      /\ Unused(t, d)' <=> Unused(t, d)
      /\ Opens(t)' <=> Opens(t)
      /\ \A o : Waits(t, o)' <=> Waits(t, o)
      /\ chan'[t][d] => chan[t][d]
      /\ Clean(t, d) => Clean(t, d)'
      /\ Shut(t, d) => Shut(t, d)'
      /\ OnlyClose(t, d) => OnlyClose(t, d)'
      /\ Closing(t, d) => Closing(t, d)'
      /\ Reopening(t, d) => Reopening(t, d)' \/ Clean(t, d)'
      /\ Reopening(t, d) /\ cstate'[t][d] # "Open" => Reopening(t, d)'
  BY <1>2, OutsideStays
<1>4. (Missing(d)' <=> Missing(d)) /\ (\A s : Reporting(s)' <=> Reporting(s))
  BY <1>1 DEF Missing, Reporting
<1>5. Pipeline(t, d) /\ inbox[t][d] \in Seq(Ops)
  BY <1>2, OutsideFlow DEF Pipeline
<1>6. /\ \A U : Head(inbox[t][d]) \in U => Some(inbox[t][d], U)
      /\ \A U : Some(Tail(inbox[t][d]), U) => Some(inbox[t][d], U)
  BY <1>1, <1>5, TailOrder
<1>7. \A S : AllIn(t, d, S) => cstate'[t][d] \in S
  BY <1>1, <1>5, ReadIn
<1>8. Opens(t) /\ (Missing(d) \/ ~Clean(t, d)) => Unread(t, d)'
  <2> SUFFICES ASSUME Opens(t), Missing(d) \/ ~Clean(t, d) PROVE Unread(t, d)'
    OBVIOUS
  <2>1. CASE Missing(d)
    <3>1. Shut(t, d)
      BY <1>1, <2>1 DEF OpenInv, Unused, Hushed
    <3> QED
      BY <1>7, <3>1 DEF Shut, Unread
  <2>2. CASE ~Clean(t, d)
    BY <1>7, <2>2 DEF CloseInv, OnlyClose, Unread
  <2> QED
    BY <2>1, <2>2
<1>9. Waits(t, "Open") /\ Missing(d) => cstate'[t][d] = "Close" /\ Unopened(t, d)'
  <2> SUFFICES ASSUME Waits(t, "Open"), Missing(d) PROVE cstate'[t][d] = "Close" /\ Unopened(t, d)'
    OBVIOUS
  <2>1. Reopening(t, d) /\ ~Heard(t, d, "Open") /\ ~Reporting("Open")
    BY DEF OpenInv, Unopened
  <2>2. cstate'[t][d] \in {"Close", "Open"}
    BY <1>7, <2>1 DEF Reopening
  <2>3. cstate'[t][d] # "Open"
    BY <1>1, <1>6, <2>1 DEF Heard
  <2>4. ~Heard(t, d, "Open")'
    BY <1>1, <1>6, <2>1 DEF Heard
  <2> QED
    BY <1>3, <1>4, <2>1, <2>2, <2>3, <2>4 DEF Unopened
<1>10. Waits(t, "Open") /\ ~Clean(t, d)' => Unread(t, d)'
  <2> SUFFICES ASSUME Waits(t, "Open"), ~Clean(t, d)' PROVE Unread(t, d)'
    OBVIOUS
  <2>1. Reopening(t, d)
    BY <1>3 DEF CloseInv
  <2>2. Reopening(t, d)'
    BY <1>3, <2>1
  <2>3. cstate'[t][d] \in {"Close", "Open"} /\ cstate'[t][d] # "Open"
    BY <1>7, <2>1, <2>2 DEF Reopening
  <2> QED
    BY <2>3 DEF Unread
<1>11. Missing(d) => ~InUse(t, d) /\ (Unused(t, d) => Shut(t, d))
  BY <1>1 DEF OpenInv, Abandoned, Hushed
<1>12. Opens(t)' \/ Waits(t, "Open")' => ~chan'[t][d] /\ (Missing(d)' \/ ~Clean(t, d)' => Unread(t, d)')
  <2>1. Opens(t)' \/ Waits(t, "Open")' => ~chan'[t][d]
    BY <1>3 DEF OpenInv
  <2>2. Waits(t, "Open") /\ Missing(d) => Unread(t, d)'
    BY <1>9 DEF Unread
  <2> QED
    BY <1>3, <1>4, <1>8, <1>10, <2>1, <2>2
<1>13. Missing(d)' =>
         /\ Unused(t, d)' => Shut(t, d)'
         /\ Waits(t, "Open")' => Unopened(t, d)'
         /\ ~InUse(t, d)'
         /\ Waits(t, "Close")' => Closing(t, d)'
         /\ pc'[t] \in {"unsubscribe", "publish2"} => OnlyClose(t, d)'
         /\ ~Reporting("Close")' => reported' # "Connect" /\ ~Reporting("Connect")'
  BY <1>1, <1>3, <1>4, <1>9, <1>11 DEF OpenInv
<1> QED
  BY <1>12, <1>13 DEF OpenInv

\* While the daemon has no client nothing but "Close" comes behind a "Close".
LEMMA NoConnectBehind ==
    ASSUME NEW CONSTANT t, NEW CONSTANT d, Alone(t, d), SessionTyped, Attached(t, d), OpenInv(t, d), Missing(d),
           reports # <<>>, Tells(Head(reports), "Close")
    PROVE  ~Some(Tail(reports), Telling("Connect"))
<1>1. reports \in Seq(ReportMessage)
  BY DEF SessionTyped, WorldType
<1>2. /\ Head(reports) \in ReportMessage
      /\ \A S : Every(reports, S) => Every(Tail(reports), S)
      /\ \A A, B : Order(reports, A, B) /\ Head(reports) \in A => Every(Tail(reports), B)
  BY <1>1, TailOrder
<1>3. Head(reports) \in Telling("Close")
  BY <1>2 DEF Telling
<1>4. \A S : "Connect" \notin S /\ Every(Tail(reports), UpdatesIn(S)) => ~Some(Tail(reports), Telling("Connect"))
  BY DEF Every, Some, UpdatesIn, Telling, Tells
<1>5. CASE Unused(t, d)
  <2>1. AllIn(t, d, {"Close"})
    BY <1>5 DEF OpenInv, Shut, Hushed
  <2>2. Every(Tail(reports), UpdatesIn({"Close"}))
    BY <1>2, <2>1 DEF AllIn
  <2> QED
    BY <1>4, <2>2
<1>6. CASE InUse(t, d)
  BY <1>6 DEF OpenInv, Abandoned
<1>7. CASE Waits(t, "Open")
  <2>1. AllIn(t, d, {"Close", "Open"})
    BY <1>7 DEF OpenInv, Unopened, Reopening
  <2>2. Every(Tail(reports), UpdatesIn({"Close", "Open"}))
    BY <1>2, <2>1 DEF AllIn
  <2> QED
    BY <1>4, <2>2
<1>8. CASE Waits(t, "Close")
  <2>1. Order(reports, Telling("Close"), UpdatesIn({"Close"}))
    BY <1>8 DEF OpenInv, Closing, Follows
  <2>2. Every(Tail(reports), UpdatesIn({"Close"}))
    BY <1>2, <1>3, <2>1
  <2> QED
    BY <1>4, <2>2
<1>9. CASE pc[t] \in {"unsubscribe", "publish2"}
  <2>1. AllIn(t, d, {"Close"})
    BY <1>9 DEF OpenInv, OnlyClose
  <2>2. Every(Tail(reports), UpdatesIn({"Close"}))
    BY <1>2, <2>1 DEF AllIn
  <2> QED
    BY <1>4, <2>2
<1> QED
  BY <1>5, <1>6, <1>7, <1>8, <1>9, Places

\* The service takes a report, and tells the library of an update.
LEMMA ServedOpens ==
    ASSUME NEW CONSTANT t, NEW CONSTANT d, Alone(t, d), SessionTyped, SessionTyped', Entered(t, d), Attached(t, d),
           Served(t, d), CloseInv(t, d), OpenInv(t, d)
    PROVE  OpenInv(t, d)'
<1> DEFINE r == Head(reports)
<1>1. /\ cstate'[t][d] = cstate[t][d] /\ reports # <<>> /\ reports' = Tail(reports) /\ pc'[t] = pc[t]
      /\ CanbusOf(d)' = CanbusOf(d)
      /\ \/ ~IsUpdate(r) /\ reported' = reported /\ inbox'[t][d] = inbox[t][d]
         \/ /\ IsUpdate(r) /\ reported' = r.st
            /\ inbox'[t][d] \in {inbox[t][d], Append(inbox[t][d], r.st)}
  BY DEF Served
<1>2. Outside(t, d)
  BY DEF Outside
<1>3. /\ InUse(t, d)' <=> InUse(t, d)
      /\ Unused(t, d)' <=> Unused(t, d)
      /\ Opens(t)' <=> Opens(t)
      /\ \A o : Waits(t, o)' <=> Waits(t, o)
      /\ chan'[t][d] => chan[t][d]
      /\ Clean(t, d) => Clean(t, d)'
      /\ Shut(t, d) => Shut(t, d)'
      /\ OnlyClose(t, d) => OnlyClose(t, d)'
      /\ Closing(t, d) => Closing(t, d)'
      /\ Reopening(t, d) /\ cstate'[t][d] # "Open" => Reopening(t, d)'
  BY <1>2, OutsideStays
<1>4. (Missing(d)' <=> Missing(d)) /\ (Unread(t, d)' <=> Unread(t, d))
  BY <1>1 DEF Missing, Unread
<1>5. inbox[t][d] \in Seq(Ops) /\ reports \in Seq(ReportMessage)
  BY <1>2, OutsideFlow DEF Pipeline
<1>6. /\ r \in ReportMessage
      /\ \A U : r \in U => Some(reports, U)
      /\ \A U : Some(Tail(reports), U) => Some(reports, U)
      /\ \A U : Some(reports, U) => r \in U \/ Some(Tail(reports), U)
  BY <1>1, <1>5, TailOrder
<1>7. \A s : Reporting(s)' <=> Some(Tail(reports), Telling(s))
  BY <1>1 DEF Reporting
<1>8. \A s : Tells(r, s) => Reporting(s)
  BY <1>6 DEF Reporting, Telling
<1>9. Waits(t, "Open") /\ Missing(d) => Unopened(t, d)'
  <2> SUFFICES ASSUME Waits(t, "Open"), Missing(d) PROVE Unopened(t, d)'
    OBVIOUS
  <2>1. Reopening(t, d) /\ ~Heard(t, d, "Open") /\ ~Reporting("Open") /\ cstate[t][d] # "Open"
    BY DEF OpenInv, Unopened, Reopening
  <2>2. ~Reporting("Open")'
    BY <1>6, <1>7, <2>1 DEF Reporting
  <2>3. ~Heard(t, d, "Open")'
    <3>1. CASE inbox'[t][d] = inbox[t][d]
      BY <2>1, <3>1 DEF Heard
    <3>2. CASE IsUpdate(r) /\ inbox'[t][d] = Append(inbox[t][d], r.st)
      <4>1. r.st \in Ops /\ r.st # "Open"
        BY <1>6, <1>8, <2>1, <3>2, UpdateOf DEF Tells
      <4>2. \A U : Some(Append(inbox[t][d], r.st), U) => Some(inbox[t][d], U) \/ r.st \in U
        BY <1>5, <4>1, AppendOrder
      <4>3. ~Some(Append(inbox[t][d], r.st), {"Open"})
        BY <2>1, <4>1, <4>2 DEF Heard
      <4> QED
        BY <3>2, <4>3 DEF Heard
    <3> QED
      BY <1>1, <3>1, <3>2
  <2> QED
    BY <1>1, <1>3, <2>1, <2>2, <2>3 DEF Unopened
<1>10. Missing(d) /\ ~Reporting("Close")' => reported' # "Connect" /\ ~Reporting("Connect")'
  <2> SUFFICES ASSUME Missing(d), ~Reporting("Close")' PROVE reported' # "Connect" /\ ~Reporting("Connect")'
    OBVIOUS
  <2>1. CASE Reporting("Close")
    <3>1. Tells(r, "Close")
      BY <1>6, <1>7, <2>1 DEF Reporting, Telling
    <3>2. reported' = "Close"
      BY <1>1, <3>1 DEF Tells
    <3>3. ~Some(Tail(reports), Telling("Connect"))
      BY <1>1, <3>1, NoConnectBehind
    <3> QED
      BY <1>7, <3>2, <3>3
  <2>2. CASE ~Reporting("Close")
    <3>1. reported # "Connect" /\ ~Reporting("Connect")
      BY <2>2 DEF OpenInv
    <3>2. reported' # "Connect"
      BY <1>1, <1>8, <3>1 DEF Tells
    <3>3. ~Reporting("Connect")'
      BY <1>6, <1>7, <3>1 DEF Reporting
    <3> QED
      BY <3>2, <3>3
  <2> QED
    BY <2>1, <2>2
<1>11. Missing(d) => ~InUse(t, d) /\ (Unused(t, d) => Shut(t, d))
  BY <1>1 DEF OpenInv, Abandoned, Hushed
<1>12. Opens(t)' \/ Waits(t, "Open")' => ~chan'[t][d] /\ (Missing(d)' \/ ~Clean(t, d)' => Unread(t, d)')
  BY <1>3, <1>4 DEF OpenInv
<1>13. Missing(d)' =>
         /\ Unused(t, d)' => Shut(t, d)'
         /\ Waits(t, "Open")' => Unopened(t, d)'
         /\ ~InUse(t, d)'
         /\ Waits(t, "Close")' => Closing(t, d)'
         /\ pc'[t] \in {"unsubscribe", "publish2"} => OnlyClose(t, d)'
         /\ ~Reporting("Close")' => reported' # "Connect" /\ ~Reporting("Connect")'
  BY <1>1, <1>3, <1>4, <1>9, <1>10, <1>11 DEF OpenInv
<1> QED
  BY <1>12, <1>13 DEF OpenInv

\* What is reported after the daemon has reported one thing more, or none.
LEMMA ReportedMore ==
    ASSUME reports \in Seq(ReportMessage)
    PROVE  /\ \A e, s : TellsNow(e) => (Reporting(s)' <=> Reporting(s) \/ s = e)
           /\ TellsNothing => \A s : Reporting(s)' <=> Reporting(s)
<1>1. ASSUME NEW r \in ReportMessage, reports' = Append(reports, r)
      PROVE  \A s : Reporting(s)' <=> Reporting(s) \/ Tells(r, s)
  <2>1. /\ \A U : Some(Append(reports, r), U) => Some(reports, U) \/ r \in U
        /\ \A U : Some(reports, U) \/ r \in U => Some(Append(reports, r), U)
    BY AppendOrder
  <2>2. \A s : r \in Telling(s) <=> Tells(r, s)
    BY UpdateOf
  <2>3. \A s : Some(reports', Telling(s)) <=> Some(reports, Telling(s)) \/ Tells(r, s)
    BY <1>1, <2>1, <2>2
  <2> QED
    BY <2>3 DEF Reporting
<1>2. ASSUME NEW e, NEW s, TellsNow(e) PROVE Reporting(s)' <=> Reporting(s) \/ s = e
  <2>1. PICK r \in ReportMessage : Tells(r, e) /\ reports' = Append(reports, r)
    BY <1>2 DEF TellsNow
  <2>2. Tells(r, s) <=> s = e
    BY <2>1 DEF Tells
  <2> QED
    BY <1>1, <2>1, <2>2
<1>3. ASSUME TellsNothing PROVE \A s : Reporting(s)' <=> Reporting(s)
  <2>1. CASE UNCHANGED reports
    BY <2>1 DEF Reporting
  <2>2. ASSUME NEW r \in ReportMessage, ~IsUpdate(r), reports' = Append(reports, r)
        PROVE  \A s : Reporting(s)' <=> Reporting(s)
    <3>1. \A s : ~Tells(r, s)
      BY <2>2 DEF Tells
    <3> QED
      BY <1>1, <2>2, <3>1
  <2> QED
    BY <1>3, <2>1, <2>2 DEF TellsNothing
<1> QED
  BY <1>2, <1>3

\* What a delta comes to, by whether the daemon has a client before and after it.
LEMMA CarriedKinds ==
    ASSUME NEW CONSTANT d, NEW m \in DeltaMessage, Handled(d, m)
    PROVE  /\ Missing(d) /\ Missing(d)' =>
                TellsNothing \/ \E e \in {"Open", "Select"} : TellsNow(e)
           /\ Missing(d) /\ Missing(d)' /\ m.st \in {"Close", "Open", NULL} => TellsNothing
           /\ Missing(d) /\ m.st = "Connect" => m.log
           /\ Missing(d) /\ ~Missing(d)' => m.st = "Open"
           /\ ~Missing(d) /\ Missing(d)' => m.st = "Close" /\ TellsNow("Close")
<1>1. "unknown" \notin Acting /\ "unknown" \notin {"unset", "null", "connected", "failed"}
  BY DEF Acting
<1>2. NULL \notin Ops /\ m.log \in BOOLEAN
  BY DEF NULL, Ops, DeltaMessage
<1>3. Missing(d) /\ Missing(d)' => TellsNothing \/ \E e \in {"Open", "Select"} : TellsNow(e)
  BY <1>1 DEF Handled, Missing
<1>4. Missing(d) /\ Missing(d)' /\ m.st \in {"Close", "Open", NULL} => TellsNothing
  BY <1>1, <1>2 DEF Handled, Missing, NULL
<1>5. Missing(d) /\ m.st = "Connect" => m.log
  BY <1>1 DEF Handled, Missing
<1>6. Missing(d) /\ ~Missing(d)' => m.st = "Open"
  BY <1>1 DEF Handled, Missing
<1>7. ~Missing(d) /\ Missing(d)' => m.st = "Close" /\ TellsNow("Close")
  BY <1>1 DEF Handled, Missing
<1> QED
  BY <1>3, <1>4, <1>5, <1>6, <1>7

\* The daemon carries a delta out: a "Close" finds every place ready for a daemon
\* that has no client.
LEMMA CarriedOpens ==
    ASSUME NEW CONSTANT t, NEW CONSTANT d, Alone(t, d), SessionTyped, SessionTyped', Entered(t, d), Attached(t, d),
           Carried(t, d), daemon = "up", daemon' = "up", CloseInv(t, d), OpenInv(t, d)
    PROVE  OpenInv(t, d)'
<1> DEFINE m == Head(deltas)
<1>1. /\ cstate'[t][d] = cstate[t][d] /\ inbox'[t][d] = inbox[t][d] /\ pc'[t] = pc[t] /\ reported' = reported
      /\ deltas # <<>> /\ Handled(d, m)
  BY DEF Carried, SameEntry
<1>2. Outside(t, d)
  BY DEF Outside, Routed, Carried
<1>3. /\ InUse(t, d)' <=> InUse(t, d)
      /\ Unused(t, d)' <=> Unused(t, d)
      /\ Opens(t)' <=> Opens(t)
      /\ \A o : Waits(t, o)' <=> Waits(t, o)
      /\ chan'[t][d] => chan[t][d]
      /\ Clean(t, d) => Clean(t, d)'
      /\ Shut(t, d) => Shut(t, d)'
      /\ OnlyClose(t, d) => OnlyClose(t, d)'
      /\ Closing(t, d) => Closing(t, d)'
      /\ Reopening(t, d) /\ cstate'[t][d] # "Open" => Reopening(t, d)'
  BY <1>2, OutsideStays
<1>4. Unread(t, d)' <=> Unread(t, d)
  BY <1>1 DEF Unread
<1>5. reports \in Seq(ReportMessage) /\ deltas \in Seq(DeltaMessage)
  BY <1>2, OutsideFlow DEF Pipeline
<1>6. m \in DeltaMessage /\ \A U : Every(deltas, U) => m \in U
  BY <1>1, <1>5, TailOrder
<1> HIDE DEF m
<1>7. /\ Missing(d) /\ Missing(d)' => TellsNothing \/ \E e \in {"Open", "Select"} : TellsNow(e)
      /\ Missing(d) /\ Missing(d)' /\ m.st \in {"Close", "Open", NULL} => TellsNothing
      /\ Missing(d) /\ m.st = "Connect" => m.log
      /\ ~Missing(d) /\ Missing(d)' => m.st = "Close" /\ TellsNow("Close")
  BY <1>1, <1>6, CarriedKinds
<1>8. /\ \A e, s : TellsNow(e) => (Reporting(s)' <=> Reporting(s) \/ s = e)
      /\ TellsNothing => \A s : Reporting(s)' <=> Reporting(s)
  BY <1>5, ReportedMore
<1>9. \A S : AllIn(t, d, S) => m.st \in S \cup {NULL}
  BY <1>6 DEF AllIn, DeltasIn
<1>10. ~Missing(d) /\ Missing(d)' => ~Clean(t, d)
  <2>1. Clean(t, d) => m.st \in (Ops \ {"Close"}) \cup {NULL}
    BY <1>9 DEF Clean
  <2> QED
    BY <1>7, <2>1 DEF NULL
<1>11. Missing(d)' /\ Waits(t, "Open") => Unopened(t, d)'
  <2> SUFFICES ASSUME Missing(d)', Waits(t, "Open") PROVE Unopened(t, d)'
    OBVIOUS
  <2>1. Reopening(t, d)
    BY <1>10 DEF OpenInv, CloseInv, Unopened
  <2>2. Reopening(t, d)'
    BY <1>1, <1>3, <2>1 DEF Reopening
  <2>3. ~Heard(t, d, "Open") /\ ~Reporting("Open")'
    <3>1. CASE Missing(d)
      <4>1. m.st \in {"Close", "Open"} \cup {NULL}
        BY <1>9, <2>1 DEF Reopening
      <4>2. TellsNothing
        BY <1>7, <3>1, <4>1
      <4> QED
        BY <1>8, <3>1, <4>2 DEF OpenInv, Unopened
    <3>2. CASE ~Missing(d)
      <4>1. m.st = "Close" /\ TellsNow("Close")
        BY <1>7, <3>2
      <4>2. Every(deltas, DeltasIn({"Open"})) => m.st \in {"Open", NULL}
        BY <1>6 DEF DeltasIn
      <4>3. ~Heard(t, d, "Open") /\ ~Reporting("Open")
        BY <2>1, <4>1, <4>2 DEF Reopening, Follows, NULL
      <4> QED
        BY <1>8, <4>1, <4>3
    <3> QED
      BY <3>1, <3>2
  <2> QED
    BY <1>1, <2>2, <2>3 DEF Unopened, Heard
<1>12. Missing(d)' => ~InUse(t, d)
  <2> SUFFICES ASSUME Missing(d)', InUse(t, d) PROVE FALSE
    OBVIOUS
  <2>1. Missing(d)
    BY <1>10 DEF CloseInv
  <2>2. Abandoned(t, d)
    BY <2>1 DEF OpenInv
  <2>3. m.st = "Connect" /\ ~m.log
    BY <1>1, <2>2 DEF Abandoned, m
  <2> QED
    BY <1>7, <2>1, <2>3
<1>13. Missing(d)' /\ Unused(t, d) => Shut(t, d)'
  <2>1. Missing(d) /\ Unused(t, d) => Shut(t, d)
    BY <1>1 DEF OpenInv, Hushed
  <2>2. ~Clean(t, d) /\ Unused(t, d) => OnlyClose(t, d)
    BY DEF CloseInv, Unused
  <2>3. OnlyClose(t, d) => Shut(t, d)
    BY DEF OnlyClose, Shut
  <2> QED
    BY <1>3, <1>10, <2>1, <2>2, <2>3
<1>14. Missing(d)' /\ Waits(t, "Close") => Closing(t, d)'
  BY <1>3, <1>10 DEF OpenInv, CloseInv, Unclosable
<1>15. Missing(d)' /\ pc[t] \in {"unsubscribe", "publish2"} => OnlyClose(t, d)'
  BY <1>3, <1>10 DEF OpenInv, CloseInv, Unclosable
<1>16. Missing(d)' /\ ~Reporting("Close")' => reported # "Connect" /\ ~Reporting("Connect")'
  <2> SUFFICES ASSUME Missing(d)', ~Reporting("Close")' PROVE reported # "Connect" /\ ~Reporting("Connect")'
    OBVIOUS
  <2>1. Missing(d)
    BY <1>7, <1>8
  <2>2. TellsNothing \/ \E e \in {"Open", "Select"} : TellsNow(e)
    BY <1>7, <2>1
  <2>3. ~Reporting("Close") /\ (Reporting("Connect")' => Reporting("Connect"))
    BY <1>8, <2>2
  <2> QED
    BY <2>1, <2>3 DEF OpenInv
<1>17. Opens(t)' \/ Waits(t, "Open")' => ~chan'[t][d] /\ (Missing(d)' \/ ~Clean(t, d)' => Unread(t, d)')
  BY <1>3, <1>4, <1>10 DEF OpenInv
<1>18. Missing(d)' =>
         /\ Unused(t, d)' => Shut(t, d)'
         /\ Waits(t, "Open")' => Unopened(t, d)'
         /\ ~InUse(t, d)'
         /\ Waits(t, "Close")' => Closing(t, d)'
         /\ pc'[t] \in {"unsubscribe", "publish2"} => OnlyClose(t, d)'
         /\ ~Reporting("Close")' => reported' # "Connect" /\ ~Reporting("Connect")'
  BY <1>1, <1>3, <1>11, <1>12, <1>13, <1>14, <1>15, <1>16
<1> QED
  BY <1>17, <1>18 DEF OpenInv

\* Somebody asks for the first log.
LEMMA AskedOpens ==
    ASSUME NEW CONSTANT t, NEW CONSTANT d, Alone(t, d), SessionTyped, SessionTyped', Entered(t, d),
           Asked(t, d), logs = 0, OpenInv(t, d)
    PROVE  OpenInv(t, d)'
<1>1. /\ cstate'[t][d] = cstate[t][d] /\ inbox'[t][d] = inbox[t][d] /\ pc'[t] = pc[t]
      /\ UNCHANGED <<reported, reports>> /\ CanbusOf(d)' = CanbusOf(d)
  BY DEF Asked, SameEntry
<1>2. Outside(t, d)
  BY DEF Outside
<1>3. /\ InUse(t, d)' <=> InUse(t, d)
      /\ Unused(t, d)' <=> Unused(t, d)
      /\ Opens(t)' <=> Opens(t)
      /\ \A o : Waits(t, o)' <=> Waits(t, o)
      /\ chan'[t][d] => chan[t][d]
      /\ Clean(t, d) => Clean(t, d)'
      /\ Shut(t, d) => Shut(t, d)'
      /\ OnlyClose(t, d) => OnlyClose(t, d)'
      /\ Closing(t, d) => Closing(t, d)'
      /\ Reopening(t, d) /\ cstate'[t][d] # "Open" => Reopening(t, d)'
  BY <1>2, OutsideStays
<1>4. /\ Missing(d)' <=> Missing(d)
      /\ Unread(t, d)' <=> Unread(t, d)
      /\ \A s : Reporting(s)' <=> Reporting(s)
      /\ \A s : Heard(t, d, s)' <=> Heard(t, d, s)
  BY <1>1 DEF Missing, Unread, Reporting, Heard
<1>5. Waits(t, "Open") /\ Missing(d) => Unopened(t, d)'
  <2>1. Reopening(t, d) => cstate'[t][d] # "Open"
    BY <1>1 DEF Reopening
  <2> QED
    BY <1>3, <1>4, <2>1 DEF OpenInv, Unopened
<1>6. Missing(d) => ~InUse(t, d) /\ (Unused(t, d) => Shut(t, d))
  BY DEF OpenInv, Abandoned
<1>7. Opens(t)' \/ Waits(t, "Open")' => ~chan'[t][d] /\ (Missing(d)' \/ ~Clean(t, d)' => Unread(t, d)')
  BY <1>3, <1>4 DEF OpenInv
<1>8. Missing(d)' =>
         /\ Unused(t, d)' => Shut(t, d)'
         /\ Waits(t, "Open")' => Unopened(t, d)'
         /\ ~InUse(t, d)'
         /\ Waits(t, "Close")' => Closing(t, d)'
         /\ pc'[t] \in {"unsubscribe", "publish2"} => OnlyClose(t, d)'
         /\ ~Reporting("Close")' => reported' # "Connect" /\ ~Reporting("Connect")'
  BY <1>1, <1>3, <1>4, <1>5, <1>6 DEF OpenInv
<1> QED
  BY <1>7, <1>8 DEF OpenInv

\* A delta that goes out while a log is asked for has the log in it.
LEMMA OfferedLog ==
    ASSUME deltas \in Seq(DeltaMessage), NEW want \in [dev : Devices, st : States], NEW have,
           deltas' = Offer(deltas, Delta(want, have, TRUE))
    PROVE  /\ Some(deltas', Bare("Close")) => Some(deltas, Bare("Close"))
           /\ Every(deltas, OrLog("Close")) => Every(deltas', OrLog("Close"))
<1> DEFINE m == Delta(want, have, TRUE)
<1>1. m \in DeltaMessage /\ m.log
  BY DeltaType DEF Delta
<1>2. deltas' = Offer(deltas, m)
  OBVIOUS
<1> HIDE DEF m
<1>3. deltas' = deltas \/ deltas' = Append(deltas, m)
  BY <1>2 DEF Offer
<1>4. /\ Some(Append(deltas, m), Bare("Close")) => Some(deltas, Bare("Close")) \/ m \in Bare("Close")
      /\ Every(deltas, OrLog("Close")) /\ m \in OrLog("Close") => Every(Append(deltas, m), OrLog("Close"))
  BY <1>1, AppendOrder
<1>5. m \notin Bare("Close") /\ m \in OrLog("Close")
  BY <1>1 DEF Bare, OrLog
<1> QED
  BY <1>3, <1>4, <1>5

\* What is told once is heard, or is going to be.
LEMMA TidingsWait ==
    ASSUME NEW CONSTANT t, NEW CONSTANT d, Tidings(t, d)
    PROVE  inbox[t][d] # <<>> \/ reports # <<>>
<1>1. inbox[t][d] = <<>> => ~Heard(t, d, "Close")
  BY EmptyOrder DEF Heard
<1>2. reports = <<>> => ~Reporting("Close")
  BY EmptyOrder DEF Reporting
<1> QED
  BY <1>1, <1>2 DEF Tidings

\* Where no call waits nothing has to be told, and no step makes it so.
LEMMA ElsewhereLogs ==
    ASSUME NEW CONSTANT t, NEW CONSTANT d, pc[t] # "wait", logging' => logging, Missing(d)' <=> Missing(d),
           opened'[t] => opened[t], logging /\ Some(deltas', Bare("Close")) => Some(deltas, Bare("Close")),
           Logging(t, d)
    PROVE  Logging(t, d)'
<1>1. ~Waits(t, "Close")
  BY DEF Waits
<1>2. ~(logging' /\ Missing(d)' /\ opened'[t])
  BY <1>1 DEF Logging
<1>3. ~(logging' /\ ~Missing(d)' /\ Some(deltas', Bare("Close")))
  BY <1>1 DEF Logging
<1> QED
  BY <1>2, <1>3 DEF Logging

\* A call goes from one point to the next and publishes nothing.
LEMMA MovedLogs ==
    ASSUME NEW CONSTANT t, NEW CONSTANT d, Alone(t, d), SessionTyped, Moved(t, d), Entered(t, d), Library(t, d),
           CloseInv(t, d), Logging(t, d)
    PROVE  Logging(t, d)'
<1>1. /\ UNCHANGED <<deltas, reports, logging>> /\ CanbusOf(d)' = CanbusOf(d)
      /\ cstate'[t][d] = cstate[t][d] /\ inbox'[t][d] = inbox[t][d]
  BY DEF Moved, SameWorld, SameEntry
<1>2. (Missing(d)' <=> Missing(d)) /\ (Tidings(t, d)' <=> Tidings(t, d)) /\ (opened'[t] => opened[t])
  BY <1>1, OpenedBy DEF Missing, Tidings, Heard, Reporting
<1>3. CASE Waits(t, "Close")' \/ ~Waits(t, "Close")
  BY <1>1, <1>2, <1>3 DEF Logging
<1>4. CASE Waits(t, "Close") /\ ~Waits(t, "Close")'
  <2>1. cstate[t][d] = "Close" \/ (deltas = <<>> /\ reports = <<>> /\ inbox[t][d] = <<>>)
    BY <1>4 DEF Moved, Waits
  <2>2. Tidings(t, d) => cstate[t][d] = "Close"
    BY <2>1, TidingsWait
  <2>3. cstate[t][d] = "Close" => ~opened[t] /\ Missing(d)
    BY <1>4 DEF Library, CloseInv, Closing, Unclosable, Deleted, Missing
  <2>4. deltas = <<>> => ~Some(deltas, Bare("Close"))
    BY EmptyOrder
  <2>5. Missing(d) /\ logging => ~opened[t]
    BY <2>2, <2>3 DEF Logging
  <2>6. ~Missing(d) => ~Some(deltas, Bare("Close"))
    BY <2>1, <2>3, <2>4
  <2> QED
    BY <1>1, <1>2, <2>5, <2>6 DEF Logging
<1> QED
  BY <1>3, <1>4

\* An update is read.
LEMMA ReceivedLogs ==
    ASSUME NEW CONSTANT t, NEW CONSTANT d, Alone(t, d), SessionTyped, SessionTyped', Received(t, d), Entered(t, d),
           Controlled(t, d), Attached(t, d), Library(t, d), OpenInv(t, d), Logged(t, d)
    PROVE  Logging(t, d)'
<1> DEFINE st == Head(inbox[t][d])
<1>1. /\ UNCHANGED <<deltas, reports, logging>> /\ CanbusOf(d)' = CanbusOf(d) /\ pc'[t] = pc[t] /\ op'[t] = op[t]
      /\ inbox[t][d] # <<>> /\ inbox'[t][d] = Tail(inbox[t][d]) /\ cstate'[t][d] = st
  BY DEF Received, SameWorld
<1>2. Pipeline(t, d) /\ inbox[t][d] \in Seq(Ops)
  BY OutsideFlow DEF Outside, Pipeline
<1>3. Missing(d)' <=> Missing(d)
  BY <1>1 DEF Missing
<1>4. \A S : AllIn(t, d, S) => st \in S
  BY <1>1, <1>2, ReadIn
<1>5. \A U : Some(inbox[t][d], U) => st \in U \/ Some(Tail(inbox[t][d]), U)
  BY <1>1, <1>2, TailOrder
<1>6. \A U : st \in U => Some(inbox[t][d], U)
  BY <1>1, <1>2, TailOrder
<1> HIDE DEF st
<1>7. ~(logging /\ ~Missing(d) /\ Some(deltas, Bare("Close")))
  BY <1>1 DEF Logged, Logging
<1>8. ASSUME logging, Missing(d), opened'[t] PROVE Waits(t, "Close")' /\ Tidings(t, d)'
  <2>1. CASE opened[t]
    <3>1. Waits(t, "Close") /\ Heard(t, d, "Close")
      BY <1>1, <1>8, <2>1 DEF Logged, Logging, Tidings
    <3>2. st # "Close"
      BY <1>1, <1>8, <2>1 DEF Controlled, Library
    <3>3. Heard(t, d, "Close")'
      BY <1>1, <1>5, <3>1, <3>2 DEF Heard
    <3> QED
      BY <1>1, <3>1, <3>3 DEF Tidings, Waits
  <2>2. CASE ~opened[t]
    <3>1. st = "Open"
      BY <1>8, <2>2 DEF Entered, st
    <3>2. ~AllIn(t, d, {"Close"})
      BY <1>4, <3>1
    <3>3. ~Unused(t, d)
      BY <1>1, <1>8, <3>2 DEF OpenInv, Shut, Hushed
    <3>4. ~InUse(t, d)
      BY <1>1, <1>8 DEF OpenInv, Abandoned
    <3>5. ~Waits(t, "Open")
      BY <1>6, <1>8, <3>1 DEF OpenInv, Unopened, Heard
    <3>6. ~Waits(t, "Close")
      BY <1>8, <2>2, <3>2 DEF OpenInv, Closing, Logged
    <3>7. pc[t] \notin {"unsubscribe", "publish2"}
      BY <1>8, <3>2 DEF OpenInv, OnlyClose
    <3> QED
      BY <3>3, <3>4, <3>5, <3>6, <3>7, Places
  <2> QED
    BY <2>1, <2>2
<1> QED
  BY <1>1, <1>3, <1>7, <1>8 DEF Logging

\* The service takes a report: a "Close" in it comes to the call that waits for it.
LEMMA ServedLogs ==
    ASSUME NEW CONSTANT t, NEW CONSTANT d, Alone(t, d), SessionTyped, SessionTyped', Served(t, d), Entered(t, d),
           Attached(t, d), Logging(t, d)
    PROVE  Logging(t, d)'
<1> DEFINE r == Head(reports)
<1>1. /\ reports # <<>> /\ reports' = Tail(reports) /\ CanbusOf(d)' = CanbusOf(d) /\ (logging' => logging)
      /\ UNCHANGED desired /\ pc'[t] = pc[t] /\ op'[t] = op[t]
      /\ deltas' \in {deltas, Offer(deltas, Delta(desired, reported', logging'))}
      /\ \/ ~IsUpdate(r) /\ inbox'[t][d] = inbox[t][d]
         \/ /\ IsUpdate(r)
            /\ inbox'[t][d] \in {inbox[t][d], Append(inbox[t][d], r.st)}
            /\ Subscribed(t, d) => inbox'[t][d] # <<>>
  BY DEF Served
<1>2. /\ inbox[t][d] \in Seq(Ops) /\ reports \in Seq(ReportMessage) /\ deltas \in Seq(DeltaMessage)
      /\ desired \in [dev : Devices, st : States] /\ logging' \in BOOLEAN
  BY OnlyTester DEF SessionTyped, SessionInv, RouteType, WorldType
<1>3. /\ r \in ReportMessage
      /\ \A U : Every(reports, U) => r \in U /\ Every(Tail(reports), U)
      /\ \A U : Some(reports, U) => r \in U \/ Some(Tail(reports), U)
  BY <1>1, <1>2, TailOrder
<1> HIDE DEF r
<1>4. IsUpdate(r) => r.st \in Ops
  BY <1>3, UpdateOf
<1>5. inbox'[t][d] = inbox[t][d] \/ (r.st \in Ops /\ inbox'[t][d] = Append(inbox[t][d], r.st))
  BY <1>1, <1>4
<1>6. opened'[t] => opened[t]
  <2>1. inbox'[t][d] = inbox[t][d] => (opened'[t] => opened[t])
    BY OpenedBy
  <2>2. ASSUME r.st \in Ops, inbox'[t][d] = Append(inbox[t][d], r.st), inbox[t][d] # <<>>
        PROVE  inbox'[t][d] # Tail(inbox[t][d])
    <3>1. Len(Append(inbox[t][d], r.st)) = Len(inbox[t][d]) + 1 /\ Len(inbox[t][d]) \in Nat
      BY <1>2, <2>2, AppendAt
    <3>2. Len(Tail(inbox[t][d])) = Len(inbox[t][d]) - 1
      BY <1>2, <2>2, TailAt
    <3> QED
      BY <2>2, <3>1, <3>2
  <2> QED
    BY <1>5, <2>1, <2>2 DEF Entered
<1>7. Missing(d)' <=> Missing(d)
  BY <1>1 DEF Missing
<1>8. Waits(t, "Close")' <=> Waits(t, "Close")
  BY <1>1 DEF Waits
<1>9. Heard(t, d, "Close") => Heard(t, d, "Close")'
  <2>1. CASE inbox'[t][d] = inbox[t][d]
    BY <2>1 DEF Heard
  <2>2. CASE r.st \in Ops /\ inbox'[t][d] = Append(inbox[t][d], r.st)
    <3>1. \A U : Some(inbox[t][d], U) \/ r.st \in U => Some(Append(inbox[t][d], r.st), U)
      BY <1>2, <2>2, AppendOrder
    <3> QED
      BY <2>2, <3>1 DEF Heard
  <2> QED
    BY <1>5, <2>1, <2>2
<1>10. Waits(t, "Close") /\ Tidings(t, d) => Tidings(t, d)'
  <2> SUFFICES ASSUME Waits(t, "Close"), ~Heard(t, d, "Close"), Tidings(t, d) PROVE Tidings(t, d)'
    BY <1>9 DEF Tidings
  <2>1. Reporting("Close") /\ inbox[t][d] = <<>> /\ Every(reports, UpdatesIn({"Close"}))
    BY DEF Tidings
  <2>2. CASE ~IsUpdate(r)
    <3>1. inbox'[t][d] = <<>> /\ Every(reports', UpdatesIn({"Close"}))
      BY <1>1, <1>3, <2>1, <2>2
    <3>2. r \notin Telling("Close")
      BY <2>2 DEF Telling, Tells
    <3>3. Reporting("Close")'
      BY <1>1, <1>3, <2>1, <3>2 DEF Reporting
    <3> QED
      BY <3>1, <3>3 DEF Tidings
  <2>3. CASE IsUpdate(r)
    <3>1. r \in UpdatesIn({"Close"})
      BY <1>3, <2>1
    <3>2. r.st = "Close" /\ "Close" \in Ops
      BY <1>3, <2>3, <3>1, UpdateOf DEF UpdatesIn, Ops
    <3>3. pc[t] = "wait" /\ link[t][d] = "both"
      BY DEF Waits, Attached
    <3>4. Subscribed(t, d)
      BY <3>3 DEF Subscribed
    <3>5. inbox'[t][d] = Append(inbox[t][d], "Close")
      BY <1>1, <2>1, <2>3, <3>2, <3>4
    <3>6. \A U : Some(inbox[t][d], U) \/ "Close" \in U => Some(Append(inbox[t][d], "Close"), U)
      BY <1>2, <3>2, AppendOrder
    <3>7. Heard(t, d, "Close")'
      BY <3>5, <3>6 DEF Heard
    <3> QED
      BY <3>7 DEF Tidings
  <2> QED
    BY <2>2, <2>3
<1>11. ASSUME logging', ~Missing(d), Some(deltas', Bare("Close"))
       PROVE  /\ Waits(t, "Close")' /\ inbox'[t][d] = <<>> /\ Every(reports', UpdatesIn({}))
              /\ Every(deltas', OrLog("Close"))
  <2>1. deltas' \in {deltas, Offer(deltas, Delta(desired, reported', TRUE))}
    <3>1. logging' = TRUE
      BY <1>2, <1>11
    <3> QED
      BY <1>1, <3>1
  <2>2. /\ Some(deltas, Bare("Close"))
        /\ Every(deltas, OrLog("Close")) => Every(deltas', OrLog("Close"))
    <3>1. CASE deltas' = deltas
      BY <1>11, <3>1
    <3>2. CASE deltas' = Offer(deltas, Delta(desired, reported', TRUE))
      BY <1>2, <1>11, <3>2, OfferedLog
    <3> QED
      BY <2>1, <3>1, <3>2
  <2>3. /\ Waits(t, "Close") /\ inbox[t][d] = <<>> /\ Every(reports, UpdatesIn({}))
        /\ Every(deltas, OrLog("Close"))
    BY <1>1, <1>11, <2>2 DEF Logging
  <2>4. ~IsUpdate(r)
    <3>1. r \in UpdatesIn({})
      BY <1>3, <2>3
    <3> QED
      BY <3>1 DEF UpdatesIn
  <2> QED
    BY <1>1, <1>3, <1>8, <2>2, <2>3, <2>4
<1>12. ASSUME logging', Missing(d), opened'[t] PROVE Waits(t, "Close")' /\ Tidings(t, d)'
  <2>1. logging /\ opened[t]
    BY <1>1, <1>6, <1>12
  <2>2. Waits(t, "Close") /\ Tidings(t, d)
    BY <1>12, <2>1 DEF Logging
  <2> QED
    BY <1>8, <1>10, <2>2
<1> QED
  BY <1>7, <1>11, <1>12 DEF Logging

\* No "Close" without a log comes behind a delta of "Open" that the daemon carries
\* out for want of a client.
LEMMA NoCloseBehind ==
    ASSUME NEW CONSTANT t, NEW CONSTANT d, Alone(t, d), SessionTyped, Attached(t, d), OpenInv(t, d), Logged(t, d),
           logging, Missing(d), deltas # <<>>, Head(deltas).st = "Open"
    PROVE  ~Some(Tail(deltas), Bare("Close"))
<1>1. deltas \in Seq(DeltaMessage)
  BY DEF SessionTyped, SessionInv, RouteType
<1>2. /\ Head(deltas) \in DeltaMessage
      /\ \A U : Every(deltas, U) => Head(deltas) \in U
      /\ \A A, B : Order(deltas, A, B) /\ Head(deltas) \in A => Every(Tail(deltas), B)
  BY <1>1, TailOrder
<1>3. ~Every(deltas, DeltasIn({"Close"}))
  <2>1. Head(deltas) \notin DeltasIn({"Close"})
    BY DEF DeltasIn, NULL
  <2> QED
    BY <1>2, <2>1
<1>4. ~AllIn(t, d, {"Close"})
  BY <1>3 DEF AllIn
<1>5. ~Unused(t, d)
  BY <1>4 DEF OpenInv, Shut, Hushed
<1>6. ~InUse(t, d)
  BY DEF OpenInv, Abandoned
<1>7. ~Waits(t, "Close")
  <2> SUFFICES ASSUME Waits(t, "Close") PROVE FALSE
    OBVIOUS
  <2>1. Closing(t, d)
    BY DEF OpenInv
  <2>2. opened[t] => Heard(t, d, "Close") \/ Reporting("Close")
    BY DEF Logged, Logging, Tidings
  <2>3. ~opened[t] => cstate[t][d] = "Close"
    BY DEF Logged
  <2> QED
    BY <1>3, <1>4, <2>1, <2>2, <2>3 DEF Closing, Follows
<1>8. pc[t] \notin {"unsubscribe", "publish2"}
  BY <1>4 DEF OpenInv, OnlyClose
<1>9. Waits(t, "Open")
  BY <1>5, <1>6, <1>7, <1>8, Places
<1>10. Order(deltas, Saying("Open"), DeltasIn({"Open"}))
  BY <1>9 DEF OpenInv, Unopened, Reopening, Follows
<1>11. Head(deltas) \in Saying("Open")
  BY <1>2 DEF Saying
<1>12. Every(Tail(deltas), DeltasIn({"Open"}))
  BY <1>2, <1>10, <1>11
<1>13. \A m \in DeltasIn({"Open"}) : m \notin Bare("Close")
  BY DEF DeltasIn, Bare, NULL
<1> QED
  BY <1>12, <1>13 DEF Every, Some

\* The daemon carries a delta out.
LEMMA CarriedLogs ==
    ASSUME NEW CONSTANT t, NEW CONSTANT d, Alone(t, d), SessionTyped, SessionTyped', Carried(t, d), Entered(t, d),
           Attached(t, d), OpenInv(t, d), Logged(t, d)
    PROVE  Logging(t, d)'
<1> DEFINE m == Head(deltas)
<1>1. /\ inbox'[t][d] = inbox[t][d] /\ pc'[t] = pc[t] /\ op'[t] = op[t] /\ (logging' => logging)
      /\ deltas # <<>> /\ deltas' = Tail(deltas) /\ Handled(d, m)
      /\ m.log => CanbusOf(d)' = CanbusOf(d) /\ TellsNothing
  BY DEF Carried, SameEntry
<1>2. reports \in Seq(ReportMessage) /\ deltas \in Seq(DeltaMessage)
  BY DEF SessionTyped, SessionInv, RouteType, WorldType
<1>3. /\ m \in DeltaMessage
      /\ \A U : Every(deltas, U) => m \in U /\ Every(Tail(deltas), U)
      /\ \A U : Some(Tail(deltas), U) => Some(deltas, U)
      /\ \A U : m \in U => Some(deltas, U)
  BY <1>1, <1>2, TailOrder
<1> HIDE DEF m
<1>4. opened'[t] => opened[t]
  BY <1>1, OpenedBy
<1>5. Waits(t, "Close")' <=> Waits(t, "Close")
  BY <1>1 DEF Waits
<1>6. /\ Missing(d) /\ Missing(d)' /\ m.st \in {"Close", "Open", NULL} => TellsNothing
      /\ Missing(d) /\ ~Missing(d)' => m.st = "Open"
      /\ ~Missing(d) /\ Missing(d)' => m.st = "Close" /\ TellsNow("Close")
  BY <1>1, <1>3, CarriedKinds
<1>7. /\ \A e, s : TellsNow(e) => (Reporting(s)' <=> Reporting(s) \/ s = e)
      /\ TellsNothing => \A s : Reporting(s)' <=> Reporting(s)
  BY <1>2, ReportedMore
<1>8. Heard(t, d, "Close")' <=> Heard(t, d, "Close")
  BY <1>1 DEF Heard
<1>9. m.log => (Missing(d)' <=> Missing(d))
  BY <1>1 DEF Missing
<1>10. ~m.log /\ m.st = "Close" => Some(deltas, Bare("Close"))
  BY <1>3 DEF Bare
<1>11. ASSUME logging', Missing(d)', opened'[t] PROVE Waits(t, "Close")' /\ Tidings(t, d)'
  <2>1. logging /\ opened[t]
    BY <1>1, <1>4, <1>11
  <2>2. CASE Missing(d)
    <3>1. Waits(t, "Close") /\ Tidings(t, d)
      BY <2>1, <2>2 DEF Logged, Logging
    <3>2. Closing(t, d)
      BY <2>2, <3>1 DEF OpenInv
    <3>3. CASE Heard(t, d, "Close")
      BY <1>5, <1>8, <3>1, <3>3 DEF Tidings
    <3>4. CASE ~Heard(t, d, "Close")
      <4>1. Reporting("Close") /\ inbox[t][d] = <<>> /\ Every(reports, UpdatesIn({"Close"}))
        BY <3>1, <3>4 DEF Tidings
      <4>2. Every(deltas, DeltasIn({"Close"}))
        BY <3>2, <4>1 DEF Closing, Follows
      <4>3. m.st \in {"Close", NULL}
        BY <1>3, <4>2 DEF DeltasIn
      <4>4. TellsNothing
        BY <1>6, <1>11, <2>2, <4>3
      <4>5. Every(reports', UpdatesIn({"Close"}))
        BY <1>2, <4>1, <4>4, NothingFollows
      <4> QED
        BY <1>1, <1>5, <1>7, <3>1, <4>1, <4>4, <4>5 DEF Tidings
    <3> QED
      BY <3>3, <3>4
  <2>3. CASE ~Missing(d)
    <3>1. m.st = "Close" /\ TellsNow("Close") /\ ~m.log
      BY <1>6, <1>9, <1>11, <2>3
    <3>2. Waits(t, "Close") /\ inbox[t][d] = <<>> /\ Every(reports, UpdatesIn({}))
      BY <1>10, <2>1, <2>3, <3>1 DEF Logged, Logging
    <3>3. PICK r \in ReportMessage : Tells(r, "Close") /\ reports' = Append(reports, r)
      BY <3>1 DEF TellsNow
    <3>4. Every(reports, UpdatesIn({"Close"})) /\ r \in UpdatesIn({"Close"})
      <4>1. UpdatesIn({}) \subseteq UpdatesIn({"Close"})
        BY DEF UpdatesIn
      <4> QED
        BY <3>2, <3>3, <4>1, UpdateOf DEF Every
    <3>5. \A U : Every(reports, U) /\ r \in U => Every(Append(reports, r), U)
      BY <1>2, AppendOrder
    <3>6. Every(reports', UpdatesIn({"Close"}))
      BY <3>3, <3>4, <3>5
    <3>7. Reporting("Close")'
      BY <1>7, <3>1
    <3> QED
      BY <1>1, <1>5, <3>2, <3>6, <3>7 DEF Tidings
  <2> QED
    BY <2>2, <2>3
<1>12. ASSUME logging', ~Missing(d)', Some(deltas', Bare("Close"))
       PROVE  /\ Waits(t, "Close")' /\ inbox'[t][d] = <<>> /\ Every(reports', UpdatesIn({}))
              /\ Every(deltas', OrLog("Close"))
  <2>1. logging /\ Some(deltas, Bare("Close")) /\ Some(Tail(deltas), Bare("Close"))
    BY <1>1, <1>3, <1>12
  <2>2. ~Missing(d)
    <3> SUFFICES ASSUME Missing(d) PROVE FALSE
      OBVIOUS
    <3>1. m.st = "Open"
      BY <1>6, <1>12
    <3> QED
      BY <1>1, <2>1, <3>1, NoCloseBehind DEF m
  <2>3. /\ Waits(t, "Close") /\ inbox[t][d] = <<>> /\ Every(reports, UpdatesIn({}))
        /\ Every(deltas, OrLog("Close"))
    BY <2>1, <2>2 DEF Logged, Logging
  <2>4. m.log \/ m.st = "Close"
    <3>1. m \in OrLog("Close")
      BY <1>3, <2>3
    <3> QED
      BY <3>1 DEF OrLog
  <2>5. ~Missing(d) /\ m.st = "Close" => m.log \/ Missing(d)'
    BY <1>1 DEF Handled, Missing
  <2>6. TellsNothing
    BY <1>1, <1>12, <2>2, <2>4, <2>5
  <2>7. Every(reports', UpdatesIn({}))
    <3>1. CASE UNCHANGED reports
      BY <2>3, <3>1
    <3>2. ASSUME NEW r \in ReportMessage, ~IsUpdate(r), reports' = Append(reports, r)
          PROVE  Every(reports', UpdatesIn({}))
      <4>1. r \in UpdatesIn({})
        BY <3>2, UpdateOf
      <4>2. \A U : Every(reports, U) /\ r \in U => Every(Append(reports, r), U)
        BY <1>2, AppendOrder
      <4> QED
        BY <2>3, <3>2, <4>1, <4>2
    <3> QED
      BY <2>6, <3>1, <3>2 DEF TellsNothing
  <2>8. Every(deltas', OrLog("Close"))
    BY <1>1, <1>3, <2>3
  <2> QED
    BY <1>1, <1>5, <2>3, <2>7, <2>8
<1> QED
  BY <1>11, <1>12 DEF Logging

\* Somebody asks for the first log while at most one message is on its way.
LEMMA AskedLogs ==
    ASSUME NEW CONSTANT t, NEW CONSTANT d, Alone(t, d), SessionTyped, Asked(t, d), Entered(t, d), Calm(t, d)
    PROVE  Logging(t, d)'
<1>1. /\ inbox'[t][d] = inbox[t][d] /\ pc'[t] = pc[t] /\ op'[t] = op[t] /\ UNCHANGED <<desired, reported, reports>>
      /\ CanbusOf(d)' = CanbusOf(d) /\ deltas' = Offer(deltas, Delta(desired, reported, TRUE))
  BY DEF Asked, SameEntry
<1>2. deltas \in Seq(DeltaMessage) /\ desired \in [dev : Devices, st : States]
  BY DEF SessionTyped, SessionInv, RouteType
<1>3. opened'[t] => opened[t]
  BY <1>1, OpenedBy
<1>4. /\ Missing(d)' <=> Missing(d)
      /\ Waits(t, "Close")' <=> Waits(t, "Close")
      /\ Tidings(t, d)' <=> Tidings(t, d)
  BY <1>1 DEF Missing, Waits, Tidings, Heard, Reporting
<1>5. Hushed(t, d) \/ Delivery(t, d)
  BY DEF Calm, Single
<1>6. ASSUME Missing(d), opened[t] PROVE Waits(t, "Close") /\ Tidings(t, d)
  <2>1. Waits(t, "Close") /\ ~Hushed(t, d) /\ deltas = <<>>
    BY <1>6 DEF Calm
  <2>2. op[t] = "Close"
    BY <2>1 DEF Waits
  <2>3. \A e : <<e>> # <<>>
    BY OfOne
  <2>4. CASE \E r \in ReportMessage : reports = <<r>> /\ Tells(r, "Close") /\ inbox[t][d] = <<>>
    <3>1. PICK r \in ReportMessage : reports = <<r>> /\ Tells(r, "Close") /\ inbox[t][d] = <<>>
      BY <2>4
    <3>2. r \in Telling("Close") /\ r \in UpdatesIn({"Close"})
      BY <3>1, UpdateOf
    <3>3. Len(reports) = 1 /\ reports[1] = r
      BY <3>1
    <3>4. Reporting("Close") /\ Every(reports, UpdatesIn({"Close"}))
      BY <3>2, <3>3 DEF Reporting, Some, Every
    <3> QED
      BY <2>1, <3>1, <3>4 DEF Tidings
  <2>5. CASE inbox[t][d] = <<"Close">>
    <3>1. Len(inbox[t][d]) = 1 /\ inbox[t][d][1] = "Close"
      BY <2>5
    <3>2. Heard(t, d, "Close")
      BY <3>1 DEF Heard, Some
    <3> QED
      BY <2>1, <3>2 DEF Tidings
  <2> QED
    BY <1>5, <2>1, <2>2, <2>3, <2>4, <2>5 DEF Delivery
<1>7. ASSUME Some(deltas', Bare("Close"))
      PROVE  /\ Waits(t, "Close") /\ inbox[t][d] = <<>> /\ Every(reports, UpdatesIn({}))
             /\ Every(deltas', OrLog("Close"))
  <2>1. /\ Some(deltas, Bare("Close"))
        /\ Every(deltas, OrLog("Close")) => Every(deltas', OrLog("Close"))
    BY <1>1, <1>2, <1>7, OfferedLog
  <2>2. deltas # <<>>
    BY <2>1, EmptyOrder
  <2>3. pc[t] = "wait" /\ Delivery(t, d)
    BY <2>2 DEF Calm, Single, Hushed
  <2>4. PICK m \in DeltaMessage : deltas = <<m>> /\ m.st = op[t] /\ reports = <<>> /\ inbox[t][d] = <<>>
    BY <2>2, <2>3 DEF Delivery
  <2>5. Len(deltas) = 1 /\ deltas[1] = m
    BY <2>4
  <2>6. m.st = "Close"
    BY <2>1, <2>5 DEF Some, Bare
  <2>7. Every(deltas, OrLog("Close"))
    BY <2>5, <2>6 DEF Every, OrLog
  <2>8. Every(reports, UpdatesIn({}))
    BY <2>4, EmptyOrder
  <2> QED
    BY <2>1, <2>3, <2>4, <2>6, <2>7, <2>8 DEF Waits
<1> QED
  BY <1>1, <1>3, <1>4, <1>6, <1>7 DEF Logging

\* A call that begins, publishes or ends elsewhere than in a wait.
LEMMA CallLogs ==
    ASSUME NEW CONSTANT t, NEW CONSTANT d, Alone(t, d), SessionTyped, SessionTyped', Entered(t, d), Controlled(t, d),
           Fresh(t, d) \/ Published(t, d) \/ Closed(t, d), Logging(t, d)
    PROVE  Logging(t, d)'
<1>1. pc[t] # "wait" /\ logging' = logging /\ CanbusOf(d)' = CanbusOf(d)
  BY DEF Fresh, SameWorld, Published, Closed
<1>2. Missing(d)' <=> Missing(d)
  BY <1>1 DEF Missing
<1>3. opened'[t] => opened[t]
  <2>1. Published(t, d) \/ Closed(t, d) => inbox'[t][d] = inbox[t][d]
    BY DEF Published, Closed, SameEntry
  <2>2. Fresh(t, d) => pc[t] \in {"idle", "dead"}
    BY DEF Fresh
  <2> QED
    BY <2>1, <2>2, OpenedBy DEF Entered
<1>4. ASSUME logging, Some(deltas', Bare("Close")) PROVE Some(deltas, Bare("Close"))
  <2>1. CASE deltas' = deltas
    BY <1>4, <2>1
  <2>2. CASE deltas' = Offer(deltas, Delta(desired', reported, logging))
    <3>1. deltas \in Seq(DeltaMessage) /\ desired' \in [dev : Devices, st : States] /\ logging = TRUE
      BY <1>4 DEF SessionTyped, SessionInv, RouteType, WorldType
    <3>2. deltas' = Offer(deltas, Delta(desired', reported, TRUE))
      BY <2>2, <3>1
    <3> QED
      BY <1>4, <3>1, <3>2, OfferedLog
  <2>3. deltas' = deltas \/ deltas' = Offer(deltas, Delta(desired', reported, logging))
    BY DEF Fresh, SameWorld, Published, Closed, Desired
  <2> QED
    BY <2>1, <2>2, <2>3
<1> QED
  BY <1>1, <1>2, <1>3, <1>4, ElsewhereLogs

\* What a PassThruClose that waits has read, and that none begins without a device.
LEMMA ClosingLogs ==
    ASSUME NEW CONSTANT t, NEW CONSTANT d, Alone(t, d), SessionTyped, SessionTyped', Attached(t, d), Entered(t, d),
           Controlled(t, d), Library(t, d), Library(t, d)', CloseInv(t, d),
           Moved(t, d) \/ Fresh(t, d) \/ Published(t, d) \/ Closed(t, d) \/ Outside(t, d), Logged(t, d)
    PROVE  /\ Waits(t, "Close")' /\ ~opened'[t] => cstate'[t][d] = "Close"
           /\ pc'[t] = "publish" /\ op'[t] = "Close" => opened'[t]
<1>1. Outside(t, d) => pc'[t] = pc[t] /\ op'[t] = op[t]
  BY OutsideFlow
<1>2. ASSUME pc'[t] = "publish", op'[t] = "Close" PROVE opened'[t]
  <2>1. cstate'[t][d] # "Close"
    BY <1>2 DEF Library
  <2>2. \/ pc[t] = "publish" /\ op[t] = "Close"
        \/ pc[t] = "idle"
    BY <1>1, <1>2 DEF Moved, Fresh, Published, Closed, Attached
  <2>3. opened[t]
    BY <1>2, <2>2 DEF Controlled, Logged
  <2> QED
    BY <2>1, <2>2, <2>3 DEF Entered
<1>3. ASSUME Waits(t, "Close")', ~opened'[t] PROVE cstate'[t][d] = "Close"
  <2>1. pc'[t] = "wait" /\ op'[t] = "Close"
    BY <1>3 DEF Waits
  <2>2. \/ Waits(t, "Close")
        \/ pc[t] = "publish" /\ op[t] = "Close"
    BY <1>1, <2>1 DEF Moved, Fresh, Published, Closed, Waits
  <2>3. CASE opened[t]
    BY <1>3, <2>2, <2>3 DEF Entered, Waits
  <2>4. CASE ~opened[t]
    <3>1. Waits(t, "Close") /\ cstate[t][d] = "Close"
      BY <2>2, <2>4 DEF Logged
    <3>2. AllIn(t, d, {"Close"})
      BY <3>1 DEF CloseInv, Closing, Unclosable
    <3>3. ~Outside(t, d) => cstate'[t][d] = cstate[t][d]
      BY <2>1 DEF Moved, Fresh, Published, Closed, SameEntry
    <3>4. Outside(t, d) => \/ cstate'[t][d] = cstate[t][d]
                           \/ inbox[t][d] # <<>> /\ cstate'[t][d] = Head(inbox[t][d]) /\ Pipeline(t, d)
      BY OutsideFlow
    <3>5. inbox[t][d] # <<>> /\ Pipeline(t, d) => Head(inbox[t][d]) \in {"Close"}
      BY <3>2, ReadIn
    <3> QED
      BY <3>1, <3>3, <3>4, <3>5
  <2> QED
    BY <2>3, <2>4
<1> QED
  BY <1>2, <1>3

(* A result says "Open" and STATUS_NOERROR only when the daemon has a client. *)
OpenedResult(t) ==
    result[t].op = "Open" /\ result[t].rc = "STATUS_NOERROR" => result[t].canbus # "unknown"

LiveInv(t, d) ==
    /\ daemon = "up" /\ (logs = 0 => Calm(t, d))
    /\ OpenInv(t, d) /\ Logged(t, d) /\ OpenedResult(t)
Live(t, d) == Faultless(t, d) /\ (faults = 0 /\ logs <= 1 /\ ~crashed => LiveInv(t, d))

\* It holds at first.
LEMMA OpenStarts ==
    ASSUME NEW CONSTANT t, NEW CONSTANT d, Alone(t, d), Init
    PROVE  Live(t, d)
<1>1. Faultless(t, d)
  BY CloseStarts
<1>2. t \in Testers /\ d \in Devices
  BY DEF Alone
<1>3. /\ client[t][d] = "none" /\ cstate[t][d] = NULL /\ inbox[t][d] = <<>> /\ pc[t] = "idle"
      /\ op[t] = NULL /\ result[t].rc = NULL /\ desired.st = NULL /\ reported = NULL /\ ~opened[t]
      /\ deltas = <<>> /\ reports = <<>> /\ daemon = "up" /\ ~logging
  BY <1>2 DEF Init
<1>4. NULL \notin {"Close", "Open", "Connect", "STATUS_NOERROR"}
  BY DEF NULL
<1>5. ~InUse(t, d) /\ ~Opens(t) /\ ~Waits(t, "Open") /\ ~Waits(t, "Close") /\ pc[t] \notin {"unsubscribe", "publish2", "publish"}
  BY <1>3 DEF InUse, Opens, Waits
<1>6. Hushed(t, d)
  BY <1>3 DEF Hushed
<1>7. Calm(t, d)
  BY <1>3, <1>5, <1>6 DEF Calm, Single
<1>8. Shut(t, d)
  BY <1>3, AllInNothing DEF Shut
<1>9. ~Reporting("Connect")
  BY <1>3, EmptyOrder DEF Reporting
<1>10. OpenInv(t, d)
  BY <1>3, <1>4, <1>5, <1>8, <1>9 DEF OpenInv
<1>11. Logged(t, d)
  BY <1>3, <1>5 DEF Logged, Logging
<1>12. OpenedResult(t)
  BY <1>3, <1>4 DEF OpenedResult
<1> QED
  BY <1>1, <1>3, <1>7, <1>10, <1>11, <1>12 DEF Live, LiveInv

\* Every step keeps it.
LEMMA OpenStep ==
    ASSUME NEW CONSTANT t, NEW CONSTANT d, Alone(t, d), Live(t, d), [Next]_vars
    PROVE  Live(t, d)'
<1>1. Faultless(t, d) /\ Faultless(t, d)'
  BY CloseStep DEF Live
<1>2. SessionTyped /\ SessionTyped'
  BY <1>1 DEF Faultless
<1> SUFFICES ASSUME faults' = 0, logs' <= 1, ~crashed' PROVE LiveInv(t, d)'
  BY <1>1 DEF Live
<1>3. faults = 0 /\ logs \in Nat /\ (logs' = logs \/ logs' = logs + 1)
  BY <1>2, CountsGrow
<1>4. logs <= 1 /\ (logs = 0 \/ logs = 1) /\ (logs' = logs + 1 => logs = 0)
  BY <1>3
<1>5. ~crashed /\ (daemon = "up" => daemon' = "up")
  BY <1>2, NeverDied
<1>6. /\ daemon = "up" /\ (logs = 0 => Calm(t, d))
      /\ OpenInv(t, d) /\ Logged(t, d) /\ OpenedResult(t)
  BY <1>3, <1>4, <1>5 DEF Live, LiveInv
<1>7. Attached(t, d) /\ Library(t, d) /\ CloseInv(t, d)
  BY <1>1, <1>3 DEF Faultless, FaultlessInv
<1>8. Attached(t, d)' /\ Library(t, d)' /\ CloseInv(t, d)'
  BY <1>1 DEF Faultless, FaultlessInv
<1>9. daemon' = "up"
  BY <1>5, <1>6
<1>10. Entered(t, d) /\ OpenNoted(t, d) /\ Controlled(t, d)
  BY <1>2, <1>3, <1>7, EveryEnters, EveryControls
<1>11. \/ /\ logs' = logs
          /\ \/ Moved(t, d) \/ Fresh(t, d) \/ Published(t, d) \/ Closed(t, d) \/ Received(t, d)
             \/ Served(t, d) \/ Carried(t, d)
       \/ logs' = logs + 1 /\ ~logging /\ logging' /\ Asked(t, d)
  BY <1>2, <1>6, <1>7, LiveStep
<1>12. Logging(t, d)
  BY <1>6 DEF Logged, Logging
<1>13. OpenedResult(t)'
  <2>1. Waits(t, "Open") /\ cstate[t][d] = "Open" => CanbusOf(d) # "unknown"
    BY <1>6 DEF OpenInv, Unopened, Reopening, Missing
  <2> QED
    BY <1>6, <1>10, <2>1 DEF OpenNoted, OpenedResult
<1>14. CASE /\ logs' = logs
            /\ \/ Moved(t, d) \/ Fresh(t, d) \/ Published(t, d) \/ Closed(t, d) \/ Received(t, d)
               \/ Served(t, d) \/ Carried(t, d)
  <2>1. logs' = 0 => Calm(t, d)'
    BY <1>2, <1>6, <1>7, <1>8, <1>10, <1>14, CalmStep
  <2>2. OpenInv(t, d)'
    <3>1. CASE Moved(t, d)
      BY <1>2, <1>4, <1>6, <1>7, <1>8, <1>10, <1>14, <3>1, MovedOpens
    <3>2. CASE Fresh(t, d)
      BY <1>2, <1>6, <1>8, <1>10, <1>14, <3>2, FreshOpens
    <3>3. CASE Published(t, d)
      BY <1>2, <1>6, <1>7, <1>8, <1>10, <1>14, <3>3, PublishedOpens
    <3>4. CASE Closed(t, d)
      BY <1>2, <1>6, <1>7, <1>10, <3>4, ClosedOpens
    <3>5. CASE Received(t, d)
      BY <1>2, <1>6, <1>7, <1>10, <3>5, ReceivedOpens
    <3>6. CASE Served(t, d)
      BY <1>2, <1>6, <1>7, <1>10, <3>6, ServedOpens
    <3>7. CASE Carried(t, d)
      BY <1>2, <1>6, <1>7, <1>9, <1>10, <3>7, CarriedOpens
    <3> QED
      BY <1>14, <3>1, <3>2, <3>3, <3>4, <3>5, <3>6, <3>7
  <2>3. Logging(t, d)'
    <3>1. CASE Moved(t, d)
      BY <1>2, <1>7, <1>10, <1>12, <3>1, MovedLogs
    <3>2. CASE Fresh(t, d) \/ Published(t, d) \/ Closed(t, d)
      BY <1>2, <1>10, <1>12, <3>2, CallLogs
    <3>3. CASE Received(t, d)
      BY <1>2, <1>6, <1>7, <1>10, <1>12, <3>3, ReceivedLogs
    <3>4. CASE Served(t, d)
      BY <1>2, <1>7, <1>10, <1>12, <3>4, ServedLogs
    <3>5. CASE Carried(t, d)
      BY <1>2, <1>6, <1>7, <1>10, <1>12, <3>5, CarriedLogs
    <3> QED
      BY <1>14, <3>1, <3>2, <3>3, <3>4, <3>5
  <2>4. Moved(t, d) \/ Fresh(t, d) \/ Published(t, d) \/ Closed(t, d) \/ Outside(t, d)
    <3>1. Carried(t, d) => Routed(t, d)
      BY <1>6, <1>9 DEF Carried, Routed
    <3> QED
      BY <1>14, <3>1 DEF Outside
  <2>5. Logged(t, d)'
    <3>1. /\ Waits(t, "Close")' /\ ~opened'[t] => cstate'[t][d] = "Close"
          /\ pc'[t] = "publish" /\ op'[t] = "Close" => opened'[t]
      BY <1>2, <1>6, <1>7, <1>8, <1>10, <2>4, ClosingLogs
    <3> QED
      BY <2>3, <3>1 DEF Logged, Logging
  <2> QED
    BY <1>9, <1>13, <2>1, <2>2, <2>5 DEF LiveInv
<1>15. CASE logs' = logs + 1 /\ ~logging /\ logging' /\ Asked(t, d)
  <2>1. logs = 0 /\ logs' # 0 /\ Calm(t, d)
    BY <1>3, <1>4, <1>6, <1>15
  <2>2. OpenInv(t, d)'
    BY <1>2, <1>6, <1>10, <1>15, <2>1, AskedOpens
  <2>3. Logging(t, d)'
    BY <1>2, <1>10, <1>15, <2>1, AskedLogs
  <2>4. /\ Waits(t, "Close")' /\ ~opened'[t] => cstate'[t][d] = "Close"
        /\ pc'[t] = "publish" /\ op'[t] = "Close" => opened'[t]
    BY <1>2, <1>6, <1>7, <1>8, <1>10, <1>15, ClosingLogs DEF Outside
  <2>5. Logged(t, d)'
    BY <2>3, <2>4 DEF Logged, Logging
  <2> QED
    BY <1>9, <1>13, <2>1, <2>2, <2>5 DEF LiveInv
<1> QED
  BY <1>11, <1>14, <1>15

(* With one tester and one device, whose library gives up on an answer only *)
(* when none is on its way, every PassThruOpen that returns STATUS_NOERROR   *)
(* left the daemon with a client for the device, when nothing is lost, fails *)
(* or is stopped, the daemon never died and there was at most one request    *)
(* for a log: for any number of calls, any length of the service's queues,   *)
(* and whenever the log is asked for.                                       *)
THEOREM OpenUndisturbed ==
    ASSUME NEW CONSTANT t, NEW CONSTANT d, Alone(t, d)
    PROVE  Spec => []OpenSound
<1>1. Init => Live(t, d)
  BY OpenStarts
<1>2. Live(t, d) /\ [Next]_vars => Live(t, d)'
  BY OpenStep
<1>3. Live(t, d) => OpenSound
  <2> SUFFICES ASSUME Live(t, d), faults = 0, logs <= 1, ~crashed, NEW u \in Testers, Succeeded(u, "Open")
               PROVE  result[u].canbus # "unknown"
    BY DEF OpenSound
  <2>1. u = t
    BY DEF Alone
  <2> QED
    BY <2>1 DEF Live, LiveInv, OpenedResult, Succeeded
<1> QED
  BY <1>1, <1>2, <1>3, PTL DEF Spec
=============================================================================
