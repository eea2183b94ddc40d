------------------------ MODULE PassThruThing_proofs ------------------------
(***************************************************************************)
(* Proofs about the life of the daemon, for any number of signals, deltas, *)
(* faults and slots.                                                       *)
(***************************************************************************)
EXTENDS PassThruThing, ListFacts

\* What the main thread's program point says of the yield thread: there is
\* none before pthread_create, and none any more after pthread_join.
ThreadLife ==
    /\ mpc \in {"start", "connecting", "create"} => ypc = "none"
    /\ mpc \in {"close", "destroy", "destroyed", "exited"} => ypc \in {"none", "ended"}

\* Every step keeps it.
LEMMA ThreadLifeStep == ThreadLife /\ [Next]_vars => ThreadLife'
<1> SUFFICES ASSUME ThreadLife, [Next]_vars PROVE ThreadLife'
  OBVIOUS
<1> USE DEF ThreadLife
<1>1. CASE UNCHANGED <<mpc, ypc>>
  BY <1>1
<1>2. ASSUME NEW t \in Threads, Close(t) PROVE ThreadLife'
  BY <1>1, <1>2 DEF Close, CloseSet, CloseSees, CloseReturn
<1>3. CASE Main
  <2>1. CASE ThingInit \/ Connecting \/ Connected \/ CreateThread
    BY <2>1 DEF ThingInit, Connecting, Connected, CreateThread, mainVars
  <2>2. CASE Join
    BY <2>2 DEF Join
  <2>3. CASE MainClose \/ Destroy \/ Exit
    BY <2>3 DEF MainClose, Destroy, Exit
  <2>4. CASE Close("main")
    BY <1>2, <2>4 DEF Threads
  <2>5. QED
    BY <1>3, <2>1, <2>2, <2>3, <2>4 DEF Main
<1>4. ASSUME NEW s \in Signals, Signal(s) PROVE ThreadLife'
  <2>1. UNCHANGED ypc /\ (UNCHANGED mpc \/ (~Exists /\ mpc # "exited" /\ mpc' = "exited"))
    BY <1>4 DEF Signal, mainVars
  <2>2. QED
    BY <2>1 DEF Exists
\* the yield thread moves only while it exists, and keeps mpc
<1>5. CASE YieldThread
  <2>1. CASE Close("yield")
    BY <1>2, <2>1 DEF Threads
  <2>2. CASE SendConnectReport \/ Loop \/ YieldReturn \/ AfterYield
    BY <2>2 DEF SendConnectReport, Loop, YieldReturn, AfterYield, YieldAt, mainVars
  <2>3. CASE YieldAck \/ YieldDelta \/ \E i \in Slots : YieldExpire(i)
    BY <1>1, <2>3 DEF YieldAck, YieldDelta, YieldExpire, mainVars
  <2>4. QED
    BY <1>5, <2>1, <2>2, <2>3 DEF YieldThread
<1>6. CASE LoseAck \/ NetDown \/ NetUp
  BY <1>1, <1>6 DEF LoseAck, NetDown, NetUp, mainVars
<1>7. CASE UNCHANGED vars
  BY <1>1, <1>7 DEF vars, mainVars
<1>8. QED
  BY <1>3, <1>4, <1>5, <1>6, <1>7 DEF Next

\* passthru_thing_destroy never frees the thing or its MQTT client while the
\* yield thread, which uses both, still runs.
THEOREM NothingFreedUnderThread == Spec => []DestroyedAfterThread
<1>1. Init => ThreadLife
  BY DEF Init, ThreadLife
<1>2. ThreadLife => DestroyedAfterThread
  BY DEF ThreadLife, DestroyedAfterThread
<1>3. QED
  BY <1>1, <1>2, ThreadLifeStep, PTL DEF Spec

-----------------------------------------------------------------------------
(* The calls of passthru_thing_close, and the reports.                     *)

Frame == [who : Signals \cup {"main"}, pc : {"set", "wait", "closed"}]
Ack == [slot : Slots, kind : Kinds, live : BOOLEAN]

StacksTyped == frames \in [Threads -> Seq(Frame)]
ReportsTyped == waiting \in [Slots -> Kinds \cup {NONE}] /\ acks \in Seq(Ack)
ThingTyped ==
    /\ mpc \in {"start", "connecting", "create", "join", "close", "destroy", "destroyed", "exited"}
    /\ ypc \in {"none", "report", "loop", "yield", "after", "ended"}
    /\ state \in ThingStates
    /\ rc \in {"SUCCESS", "ERROR", "ATTEMPTING", "RECONNECTED"}
    /\ rxbuf \in Kinds \cup {NONE}
    /\ client \in {"connected", "deaf", "offline"} /\ net \in {"up", "down"}
    /\ connection \in {NONE, "CONNECT", "DISCONNECT"}
    /\ signals \in 0 .. MaxSignals /\ deltas \in 0 .. MaxDeltas /\ faults \in 0 .. MaxFaults
    /\ stopped \in BOOLEAN /\ greeted \in BOOLEAN

\* A call is put on a stack only when the thing is connected.
LEMMA CallPushed ==
    ASSUME StacksTyped, NEW t \in Threads, NEW who \in Signals \cup {"main"}, Closes(t, who)
    PROVE  /\ frames' \in [Threads -> Seq(Frame)]
           /\ \A u \in Threads : u # t => frames'[u] = frames[u]
           /\ \/ frames' = frames
              \/ /\ state = "CONNECTED" /\ Len(frames'[t]) = Len(frames[t]) + 1
                 /\ frames'[t][Len(frames[t]) + 1].pc = "set"
                 /\ \A i \in 1 .. Len(frames[t]) : frames'[t][i] = frames[t][i]
<1>1. CASE state # "CONNECTED"
  BY <1>1 DEF Closes, StacksTyped
<1>2. CASE state = "CONNECTED"
  <2> DEFINE f == [who |-> who, pc |-> "set"]
  <2>1. f \in Frame /\ f.pc = "set"
    BY DEF Frame
  <2>2. frames' = [frames EXCEPT ![t] = Append(@, f)]
    BY <1>2 DEF Closes
  <2> HIDE DEF f
  <2>3. frames[t] \in Seq(Frame)
    BY DEF StacksTyped
  <2>4. /\ Append(frames[t], f) \in Seq(Frame) /\ Len(Append(frames[t], f)) = Len(frames[t]) + 1
        /\ \A i \in 1 .. Len(frames[t]) : Append(frames[t], f)[i] = frames[t][i]
        /\ Append(frames[t], f)[Len(frames[t]) + 1] = f
    BY <2>1, <2>3
  <2>5. frames'[t] = Append(frames[t], f) /\ \A u \in Threads : u # t => frames'[u] = frames[u]
    BY <2>2 DEF StacksTyped
  <2>6. frames' \in [Threads -> Seq(Frame)]
    BY <2>2, <2>4 DEF StacksTyped
  <2> QED
    BY <1>2, <2>1, <2>4, <2>5, <2>6
<1> QED
  BY <1>1, <1>2

\* The last call of a thread goes on.
LEMMA CallGoesOn ==
    ASSUME StacksTyped, NEW t \in Threads, ~Undisturbed(t),
           NEW p \in {"set", "wait", "closed"}, Goto(t, p)
    PROVE  /\ frames' \in [Threads -> Seq(Frame)]
           /\ \A u \in Threads : u # t => frames'[u] = frames[u]
           /\ Len(frames'[t]) = Len(frames[t]) /\ frames'[t][Len(frames[t])].pc = p /\ frames'[t] # <<>>
           /\ \A i \in 1 .. Len(frames[t]) - 1 : frames'[t][i] = frames[t][i]
<1> DEFINE s == frames[t]
           k == Len(s)
           r == [s EXCEPT ![k].pc = p]
<1>1. s \in Seq(Frame) /\ s # <<>> /\ k \in Nat /\ k > 0 /\ k \in 1 .. k
  BY DEF StacksTyped, Undisturbed
<1>2. frames' = [frames EXCEPT ![t] = r]
  BY DEF Goto
<1>3. s[k] \in Frame
  BY <1>1
<1>4. [s[k] EXCEPT !.pc = p] \in Frame /\ [s[k] EXCEPT !.pc = p].pc = p
  BY <1>3 DEF Frame
<1>5. /\ r \in Seq(Frame) /\ Len(r) = k /\ r # <<>> /\ r[k].pc = p
      /\ \A i \in 1 .. k - 1 : r[i] = s[i]
  <2> DEFINE f == [s[k] EXCEPT !.pc = p]
  <2>1. r = [s EXCEPT ![k] = f] /\ k = Len(s)
    OBVIOUS
  <2>2. f \in Frame /\ f.pc = p
    BY <1>4
  <2> HIDE DEF f, r, k, s
  <2>3. r \in Seq(Frame) /\ Len(r) = k
    BY <1>1, <2>1, <2>2
  <2>4. r[k] = f /\ \A i \in 1 .. k - 1 : r[i] = s[i]
    BY <1>1, <2>1
  <2> QED
    BY <1>1, <2>2, <2>3, <2>4
<1> HIDE DEF r
<1>6. frames'[t] = r /\ \A u \in Threads : u # t => frames'[u] = frames[u]
  BY <1>2 DEF StacksTyped
<1>7. frames' \in [Threads -> Seq(Frame)]
  BY <1>2, <1>5 DEF StacksTyped
<1> QED
  BY <1>5, <1>6, <1>7

\* The last call of a thread returns.
LEMMA CallReturns ==
    ASSUME StacksTyped, NEW t \in Threads, ~Undisturbed(t), Pop(t)
    PROVE  /\ frames' \in [Threads -> Seq(Frame)]
           /\ \A u \in Threads : u # t => frames'[u] = frames[u]
           /\ Len(frames'[t]) = Len(frames[t]) - 1
           /\ \A i \in 1 .. Len(frames[t]) - 1 : frames'[t][i] = frames[t][i]
<1> DEFINE r == SubSeq(frames[t], 1, Len(frames[t]) - 1)
<1>1. frames[t] \in Seq(Frame) /\ frames[t] # <<>>
  BY DEF StacksTyped, Undisturbed
<1>2. r \in Seq(Frame) /\ Len(r) = Len(frames[t]) - 1 /\ \A i \in 1 .. Len(frames[t]) - 1 : r[i] = frames[t][i]
  BY <1>1, FrontOf
<1>3. frames' = [frames EXCEPT ![t] = r]
  BY DEF Pop
<1> HIDE DEF r
<1>4. frames'[t] = r /\ \A u \in Threads : u # t => frames'[u] = frames[u]
  BY <1>3 DEF StacksTyped
<1>5. frames' \in [Threads -> Seq(Frame)]
  BY <1>2, <1>3 DEF StacksTyped
<1> QED
  BY <1>2, <1>4, <1>5

\* What a report may do to the list, the answers and the shadow.
LEMMA UpdateTyped ==
    ASSUME ThingTyped, ReportsTyped, NEW kind \in Kinds, Update(kind)
    PROVE  /\ waiting' \in [Slots -> Kinds \cup {NONE}] /\ acks' \in Seq(Ack)
           /\ rc' \in {"SUCCESS", "ERROR"} /\ connection' \in {NONE, "CONNECT", "DISCONNECT"}
           /\ faults' \in 0 .. MaxFaults
<1> DEFINE stored == IF kind = "other" THEN connection ELSE kind
           free == {i \in Slots : waiting[i] = NONE}
           i == CHOOSE i \in free : TRUE
<1>1. connection \in {NONE, "CONNECT", "DISCONNECT"} /\ stored \in {NONE, "CONNECT", "DISCONNECT"}
  BY DEF ThingTyped, Kinds
<1>2. faults \in 0 .. MaxFaults /\ (Fault => faults' \in 0 .. MaxFaults)
  BY ThingAssumption DEF ThingTyped, Fault
<1>3. CASE UNCHANGED <<waiting, acks, connection, faults>> /\ rc' = "ERROR"
  BY <1>1, <1>2, <1>3 DEF ReportsTyped
<1>4. CASE /\ free # {} /\ rc' = "SUCCESS" /\ waiting' = [waiting EXCEPT ![i] = kind]
           /\ acks' = acks \/ acks' = Append(acks, [slot |-> i, kind |-> kind, live |-> TRUE])
           /\ UNCHANGED faults \/ Fault
           /\ connection' \in {connection, stored}
  <2>1. i \in Slots
    BY <1>4
  <2> HIDE DEF i, free, stored
  <2>2. waiting' \in [Slots -> Kinds \cup {NONE}]
    BY <1>4, <2>1 DEF ReportsTyped
  <2>3. [slot |-> i, kind |-> kind, live |-> TRUE] \in Ack
    BY <2>1 DEF Ack
  <2>4. acks' \in Seq(Ack)
    BY <1>4, <2>3 DEF ReportsTyped
  <2> QED
    BY <1>1, <1>2, <1>4, <2>2, <2>4
<1> QED
  <2>1. \/ UNCHANGED <<waiting, acks, connection, faults>> /\ rc' = "ERROR"
        \/ /\ free # {} /\ rc' = "SUCCESS" /\ waiting' = [waiting EXCEPT ![i] = kind]
           /\ acks' = acks \/ acks' = Append(acks, [slot |-> i, kind |-> kind, live |-> TRUE])
           /\ UNCHANGED faults \/ Fault
           /\ connection' \in {connection, stored}
    BY DEF Update
  <2> QED
    BY <1>3, <1>4, <2>1

-----------------------------------------------------------------------------
(* Types.                                                                  *)

Typed == StacksTyped /\ ReportsTyped /\ ThingTyped

\* A call of passthru_thing_close.
LEMMA CloseTyped ==
    ASSUME Typed, NEW t \in Threads, Close(t)
    PROVE  Typed'
<1> USE DEF Typed, ThingStates
<1>1. CASE CloseSet(t)
  <2>1. StacksTyped'
    BY <1>1, CallGoesOn DEF CloseSet, At, StacksTyped
  <2> QED
    BY <1>1, <2>1 DEF CloseSet, sdkVars, bounds, ThingTyped, ReportsTyped
<1>2. CASE CloseSees(t)
  <2>1. StacksTyped'
    BY <1>2, CallGoesOn DEF CloseSees, At, StacksTyped
  <2> QED
    BY <1>2, <2>1 DEF CloseSees, sdkVars, bounds, ThingTyped, ReportsTyped
<1>3. CASE CloseReturn(t)
  <2>1. StacksTyped'
    BY <1>3, CallReturns DEF CloseReturn, At, StacksTyped
  <2> QED
    BY <1>3, <2>1 DEF CloseReturn, sdkVars, bounds, ThingTyped, ReportsTyped
<1> QED
  BY <1>1, <1>2, <1>3 DEF Close

\* A step of the main thread.
LEMMA MainTyped ==
    ASSUME Typed, Main
    PROVE  Typed'
<1> USE DEF Typed, ThingStates, sdkVars, bounds, mainVars
<1>1. faults \in 0 .. MaxFaults /\ (Fault => faults' \in 0 .. MaxFaults)
  BY ThingAssumption DEF ThingTyped, Fault
<1>2. CASE ThingInit \/ Connecting \/ CreateThread \/ Join \/ Destroy \/ Exit
  BY <1>2 DEF ThingInit, Connecting, CreateThread, Join, Destroy, Exit, StacksTyped, ReportsTyped, ThingTyped
<1>3. CASE Connected
  BY <1>1, <1>3 DEF Connected, StacksTyped, ReportsTyped, ThingTyped
<1>4. CASE MainClose
  <2>1. StacksTyped'
    BY <1>4, CallPushed DEF MainClose, Threads, StacksTyped
  <2> QED
    BY <1>4, <2>1 DEF MainClose, ReportsTyped, ThingTyped
<1>5. CASE Close("main")
  BY <1>5, CloseTyped DEF Threads
<1> QED
  BY <1>2, <1>3, <1>4, <1>5 DEF Main

\* A signal.
LEMMA SignalTyped ==
    ASSUME Typed, NEW s \in Signals, Signal(s)
    PROVE  Typed'
<1>1. StacksTyped'
  <2>1. CASE \E t \in Threads : Target(t, s) /\ Closes(t, s)
    BY <2>1, CallPushed DEF Typed, StacksTyped
  <2>2. CASE UNCHANGED frames
    BY <2>2 DEF Typed, StacksTyped
  <2> QED
    BY <2>1, <2>2 DEF Signal, mainVars
<1>2. signals' \in 0 .. MaxSignals
  BY ThingAssumption DEF Signal, Typed, ThingTyped
<1>3. mpc' \in {mpc, "exited"} /\ UNCHANGED <<ypc, state, rc, sdkVars, connection, deltas, faults, stopped, greeted>>
  BY DEF Signal, mainVars
<1> QED
  BY <1>1, <1>2, <1>3 DEF Typed, ThingTyped, ReportsTyped, sdkVars

\* The state a document sets.
LEMMA RouteTyped ==
    ASSUME ThingTyped, NEW doc, RouteMessage(doc)
    PROVE  state' \in ThingStates
BY DEF RouteMessage, ThingTyped, ThingStates

\* The answer that is read next.
LEMMA NextAck ==
    ASSUME ReportsTyped, acks # <<>>
    PROVE  /\ Head(acks) = acks[1] /\ 1 \in 1 .. Len(acks) /\ Head(acks) \in Ack
           /\ Tail(acks) \in Seq(Ack) /\ Len(Tail(acks)) = Len(acks) - 1
           /\ \A k \in 1 .. Len(Tail(acks)) : k + 1 \in 2 .. Len(acks) /\ Tail(acks)[k] = acks[k + 1]
BY DEF ReportsTyped

\* The answers to a report that expired.
LEMMA ExpiredTyped ==
    ASSUME Typed, NEW i \in Slots,
           acks' = [k \in 1..Len(acks) |-> IF acks[k].slot = i THEN [acks[k] EXCEPT !.live = FALSE] ELSE acks[k]]
    PROVE  acks' \in Seq(Ack)
<1>1. acks \in Seq(Ack) /\ Len(acks) \in Nat /\ \A k \in 1 .. Len(acks) : acks[k] \in Ack
  BY DEF Typed, ReportsTyped
<1>2. \A a \in Ack : [a EXCEPT !.live = FALSE] \in Ack
  BY DEF Ack
<1>3. acks' \in [1 .. Len(acks) -> Ack]
  BY <1>1, <1>2
<1> QED
  BY <1>1, <1>3

\* A step of the yield thread.
LEMMA YieldThreadTyped ==
    ASSUME Typed, YieldThread
    PROVE  Typed'
<1> USE DEF Typed, ThingStates, sdkVars, bounds, mainVars
<1>0. faults \in 0 .. MaxFaults /\ (Fault => faults' \in 0 .. MaxFaults)
  BY ThingAssumption DEF ThingTyped, Fault
<1>1. CASE SendConnectReport
  BY <1>1, UpdateTyped DEF SendConnectReport, Kinds, ThingTyped, ReportsTyped, StacksTyped
<1>2. CASE Loop
  BY <1>2 DEF Loop, ThingTyped, ReportsTyped, StacksTyped
<1>3. CASE YieldAck
  <2> DEFINE a == Head(acks)
  <2>1. a \in Ack /\ acks' \in Seq(Ack)
    BY <1>3, NextAck DEF YieldAck
  <2>2. a.slot \in Slots /\ a.kind \in Kinds
    BY <2>1 DEF Ack
  <2>3. /\ rxbuf' = a.kind
        /\ \/ waiting' = [waiting EXCEPT ![a.slot] = NONE] /\ RouteMessage(a.kind) /\ greeted' = (greeted \/ a.kind = "CONNECT")
           \/ UNCHANGED <<waiting, state, greeted>>
        /\ UNCHANGED <<mainVars, ypc, rc, client, net, connection, bounds, stopped>>
    BY <1>3 DEF YieldAck
  <2> HIDE DEF a
  <2>4. waiting' \in [Slots -> Kinds \cup {NONE}]
    BY <2>2, <2>3 DEF ReportsTyped
  <2>5. state' \in ThingStates
    BY <2>3, RouteTyped DEF ThingTyped
  <2>6. greeted' \in BOOLEAN
    BY <2>3 DEF ThingTyped
  <2>7. rxbuf' \in Kinds \cup {NONE}
    BY <2>2, <2>3
  <2>8. StacksTyped' /\ ReportsTyped'
    BY <2>1, <2>3, <2>4 DEF StacksTyped, ReportsTyped
  <2> QED
    BY <2>3, <2>5, <2>6, <2>7, <2>8 DEF ThingTyped
<1>4. ASSUME NEW i \in Slots, YieldExpire(i)
      PROVE  Typed'
  <2>1. acks' \in Seq(Ack)
    BY <1>4, ExpiredTyped DEF YieldExpire
  <2>2. waiting' \in [Slots -> Kinds \cup {NONE}]
    BY <1>4 DEF YieldExpire, ReportsTyped
  <2>3. state' \in ThingStates
    BY <1>4, RouteTyped DEF YieldExpire
  <2>4. faults' \in 0 .. MaxFaults
    BY <1>0, <1>4 DEF YieldExpire
  <2>5. UNCHANGED <<mainVars, ypc, rc, rxbuf, client, net, connection, signals, deltas, stopped, greeted>>
    BY <1>4 DEF YieldExpire
  <2> QED
    BY <2>1, <2>2, <2>3, <2>4, <2>5 DEF ThingTyped, ReportsTyped, StacksTyped
<1>5. CASE YieldDelta
  <2>1. /\ waiting' \in [Slots -> Kinds \cup {NONE}] /\ acks' \in Seq(Ack)
        /\ rc' \in {"SUCCESS", "ERROR", "ATTEMPTING", "RECONNECTED"}
        /\ connection' \in {NONE, "CONNECT", "DISCONNECT"} /\ faults' \in 0 .. MaxFaults
    <3>1. CASE Update("other")
      BY <3>1, UpdateTyped DEF Kinds
    <3>2. CASE UNCHANGED <<waiting, acks, rc, connection, faults>>
      BY <3>2 DEF ThingTyped, ReportsTyped
    <3> QED
      BY <1>5, <3>1, <3>2 DEF YieldDelta
  <2>2. deltas' \in 0 .. MaxDeltas
    BY <1>5, ThingAssumption DEF YieldDelta, ThingTyped
  <2>3. rxbuf' \in Kinds \cup {NONE} /\ UNCHANGED <<mainVars, ypc, state, client, net, signals, stopped, greeted>>
    BY <1>5 DEF YieldDelta, Kinds
  <2> QED
    BY <2>1, <2>2, <2>3 DEF ThingTyped, ReportsTyped, StacksTyped
<1>6. CASE YieldReturn
  BY <1>6 DEF YieldReturn, ThingTyped, ReportsTyped, StacksTyped
<1>7. CASE AfterYield
  <2>1. /\ waiting' \in [Slots -> Kinds \cup {NONE}] /\ acks' \in Seq(Ack)
        /\ rc' \in {"SUCCESS", "ERROR", "ATTEMPTING", "RECONNECTED"}
        /\ connection' \in {NONE, "CONNECT", "DISCONNECT"} /\ faults' \in 0 .. MaxFaults
    <3>1. CASE Update("DISCONNECT")
      BY <3>1, UpdateTyped DEF Kinds
    <3>2. CASE UNCHANGED <<waiting, acks, rc, connection, faults>>
      BY <3>2 DEF ThingTyped, ReportsTyped
    <3> QED
      BY <1>7, <3>1, <3>2 DEF AfterYield
  <2> QED
    BY <1>7, <2>1 DEF AfterYield, ThingTyped, ReportsTyped, StacksTyped
<1>8. CASE Close("yield")
  BY <1>8, CloseTyped DEF Threads
<1> QED
  BY <1>1, <1>2, <1>3, <1>4, <1>5, <1>6, <1>7, <1>8 DEF YieldThread

\* Every step.
LEMMA TypedStep == Typed /\ [Next]_vars => Typed'
<1> SUFFICES ASSUME Typed, [Next]_vars PROVE Typed'
  OBVIOUS
<1>1. CASE LoseAck \/ NetDown \/ NetUp
  <2>1. faults' \in 0 .. MaxFaults
    BY <1>1, ThingAssumption DEF LoseAck, NetDown, NetUp, bounds, Fault, Typed, ThingTyped
  <2>2. acks' \in Seq(Ack)
    <3>1. <<>> \in Seq(Ack) /\ acks \in Seq(Ack)
      BY DEF Typed, ReportsTyped
    <3> QED
      BY <1>1, <3>1, NextAck DEF LoseAck, NetDown, NetUp, Typed
  <2>3. /\ net' \in {"up", "down"}
        /\ UNCHANGED <<mpc, frames, ypc, state, rc, waiting, rxbuf, client, connection, signals, deltas, stopped, greeted>>
    BY <1>1 DEF LoseAck, NetDown, NetUp, mainVars, bounds, Typed, ThingTyped
  <2> QED
    BY <2>1, <2>2, <2>3 DEF Typed, ThingTyped, ReportsTyped, StacksTyped
<1>2. CASE UNCHANGED vars
  BY <1>2 DEF vars, mainVars, sdkVars, bounds, Typed, ThingTyped, ReportsTyped, StacksTyped
<1> QED
  BY <1>1, <1>2, MainTyped, SignalTyped, YieldThreadTyped DEF Next

\* The first state.
LEMMA TypedFirst == Init => Typed
<1> SUFFICES ASSUME Init PROVE Typed
  OBVIOUS
<1>1. StacksTyped
  <2>1. <<>> \in Seq(Frame)
    OBVIOUS
  <2> QED
    BY <2>1 DEF Init, StacksTyped
<1>2. ReportsTyped
  BY DEF Init, ReportsTyped
<1>3. ThingTyped
  <2>1. signals \in 0 .. MaxSignals /\ deltas \in 0 .. MaxDeltas /\ faults \in 0 .. MaxFaults
    BY ThingAssumption DEF Init
  <2>2. stopped \in BOOLEAN /\ greeted \in BOOLEAN
    BY DEF Init
  <2> QED
    BY <2>1, <2>2, Zenon DEF Init, ThingTyped, ThingStates
<1> QED
  BY <1>1, <1>2, <1>3 DEF Typed

\* The state of the thing, the calls of passthru_thing_close, the SDK's list and
\* the answers keep their types, for any number of slots, signals and faults: a
\* document never sets a state the daemon does not know.
THEOREM ThingTypeCorrect == Spec => []TypeOK
<1>1. Typed => TypeOK
  BY DEF Typed, StacksTyped, ReportsTyped, ThingTyped, TypeOK, Frame, Ack
<1> QED
  BY <1>1, TypedFirst, TypedStep, PTL DEF Spec

-----------------------------------------------------------------------------
(* A thing whose network has not failed.                                   *)

\* The end was seen.
Over == state \in {"DISCONNECTED", "CLOSED"}
\* No acknowledgement of the connection is on its way.
Fresh == \A k \in 1 .. Len(acks) : acks[k].kind # "CONNECT"

\* The main thread before the thing is connected.
Beginning == state \in {NONE, "INITIALIZING", "CONNECTING"} /\ frames = [t \in Threads |-> <<>>]
\* Before the yield thread reports the connection nothing was reported.
Unreported ==
    /\ acks = <<>> /\ waiting = [i \in Slots |-> NONE] /\ rxbuf = NONE /\ connection = NONE
    /\ ~Over /\ ~greeted
Online ==
    /\ net = "up" /\ (mpc = "create" \/ ypc # "none" => client = "connected")
    /\ ypc \in {"none", "report"} => Unreported
    /\ mpc \in {"start", "connecting"} => Beginning
\* Every report is answered, in order; that of the connection was the first.
Answering ==
    /\ \A k \in 1 .. Len(acks) : acks[k].live
    /\ \A k \in 2 .. Len(acks) : acks[k].kind # "CONNECT"
    /\ \A i \in Slots : waiting[i] # NONE => OnItsWay(i)
    /\ greeted \/ Over => Fresh
\* An end that was seen, or is about to be, is in the shadow.
Reporting ==
    /\ \A k \in 1 .. Len(acks) : acks[k].kind = "DISCONNECT" => connection = "DISCONNECT"
    /\ rxbuf = "DISCONNECT" \/ Over => connection = "DISCONNECT"
\* Only the last call on the stack of the main thread has seen the end, and none
\* on that of the yield thread, which would have to read it.
Calling ==
    /\ At("main", "closed") => state = "DISCONNECTED"
    /\ \A i \in 1 .. Len(frames["main"]) - 1 : frames["main"][i].pc # "closed"
    /\ \A i \in 1 .. Len(frames["yield"]) : frames["yield"][i].pc # "closed"
    /\ frames["yield"] # <<>> => state \in {"CONNECTED", "CLOSING"}

Quiet == Online /\ Answering /\ Reporting /\ Calling

\* What nothing of the reports depends on has changed.
LEMMA SameReports ==
    ASSUME Answering, Reporting, UNCHANGED <<acks, waiting, rxbuf, connection, greeted>>, Over' => Over
    PROVE  Answering' /\ Reporting'
BY DEF Answering, Reporting, OnItsWay, Fresh

\* A call of passthru_thing_close is put on a stack.
LEMMA CallingPushed ==
    ASSUME Typed, Calling, NEW t \in Threads, NEW who \in Signals \cup {"main"}, Closes(t, who), UNCHANGED state
    PROVE  Calling'
<1>1. /\ \A u \in Threads : u # t => frames'[u] = frames[u]
      /\ \/ frames' = frames
         \/ /\ state = "CONNECTED" /\ Len(frames'[t]) = Len(frames[t]) + 1
            /\ frames'[t][Len(frames[t]) + 1].pc = "set"
            /\ \A i \in 1 .. Len(frames[t]) : frames'[t][i] = frames[t][i]
  BY CallPushed DEF Typed
<1>2. CASE frames' = frames
  BY <1>2 DEF Calling, At, Undisturbed
<1>3. CASE frames' # frames
  <2>0. frames["main"] \in Seq(Frame) /\ frames["yield"] \in Seq(Frame) /\ "main" \in Threads /\ "yield" \in Threads
    BY DEF Typed, StacksTyped, Threads
  <2>1. ~At("main", "closed")
    BY <1>1, <1>3 DEF Calling
  <2>2. \A i \in 1 .. Len(frames["main"]) : frames["main"][i].pc # "closed"
    <3>1. \A i \in 1 .. Len(frames["main"]) : i \in 1 .. Len(frames["main"]) - 1 \/ i = Len(frames["main"])
      BY <2>0
    <3>2. frames["main"] # <<>> => frames["main"][Len(frames["main"])].pc # "closed"
      BY <2>1 DEF At, Undisturbed
    <3>3. frames["main"] = <<>> => Len(frames["main"]) = 0
      OBVIOUS
    <3> QED
      BY <3>1, <3>2, <3>3 DEF Calling
  <2>3. CASE t = "main"
    <3>1. /\ Len(frames'["main"]) = Len(frames["main"]) + 1 /\ frames'["yield"] = frames["yield"]
          /\ frames'["main"][Len(frames["main"]) + 1].pc = "set"
          /\ \A i \in 1 .. Len(frames["main"]) : frames'["main"][i].pc # "closed"
      BY <1>1, <1>3, <2>0, <2>2, <2>3
    <3>2. ~At("main", "closed")'
      BY <3>1 DEF At
    <3>3. Len(frames'["main"]) - 1 = Len(frames["main"])
      BY <2>0, <3>1
    <3> QED
      BY <3>1, <3>2, <3>3 DEF Calling
  <2>4. CASE t = "yield"
    <3>1. /\ Len(frames'["yield"]) = Len(frames["yield"]) + 1 /\ frames'["main"] = frames["main"]
          /\ frames'["yield"][Len(frames["yield"]) + 1].pc = "set"
          /\ \A i \in 1 .. Len(frames["yield"]) : frames'["yield"][i].pc # "closed"
      BY <1>1, <1>3, <2>0, <2>4 DEF Calling
    <3>2. \A i \in 1 .. Len(frames'["yield"]) : frames'["yield"][i].pc # "closed"
      BY <2>0, <3>1
    <3>3. ~At("main", "closed")' /\ state' \in {"CONNECTED", "CLOSING"}
      BY <1>1, <1>3, <2>1, <3>1 DEF At, Undisturbed
    <3> QED
      BY <3>1, <3>2, <3>3 DEF Calling
  <2> QED
    BY <2>3, <2>4 DEF Threads
<1> QED
  BY <1>2, <1>3

\* A call of passthru_thing_close goes on or returns.
LEMMA CallingCloses ==
    ASSUME Typed, Quiet, NEW t \in Threads, Close(t)
    PROVE  Calling' /\ (Over' => Over) /\ mpc \notin {"start", "connecting"}
<1> DEFINE M == frames["main"]
           Y == frames["yield"]
<1>0. /\ M \in Seq(Frame) /\ Y \in Seq(Frame) /\ "main" \in Threads /\ "yield" \in Threads
      /\ Len(M) \in Nat /\ Len(Y) \in Nat
  BY DEF Typed, StacksTyped, Threads
<1>1. /\ At("main", "closed") => state = "DISCONNECTED"
      /\ \A i \in 1 .. Len(M) - 1 : M[i].pc # "closed"
      /\ \A i \in 1 .. Len(Y) : Y[i].pc # "closed"
      /\ Y # <<>> => state \in {"CONNECTED", "CLOSING"}
  BY DEF Quiet, Calling
<1>2. ~Undisturbed(t) /\ mpc \notin {"start", "connecting"}
  <2>1. ~Undisturbed(t)
    BY DEF Close, CloseSet, CloseSees, CloseReturn, At
  <2> QED
    BY <2>1 DEF Quiet, Online, Beginning, Undisturbed
<1>3. CASE CloseSet(t)
  <2>1. state' = "CLOSING" /\ Goto(t, "wait") /\ At(t, "set")
    BY <1>3 DEF CloseSet
  <2>2. /\ \A u \in Threads : u # t => frames'[u] = frames[u]
        /\ Len(frames'[t]) = Len(frames[t]) /\ frames'[t][Len(frames[t])].pc = "wait"
        /\ \A i \in 1 .. Len(frames[t]) - 1 : frames'[t][i] = frames[t][i]
    BY <1>2, <2>1, CallGoesOn DEF Typed
  <2>3. CASE t = "main"
    <3>1. /\ frames'["yield"] = Y /\ Len(frames'["main"]) = Len(M) /\ frames'["main"][Len(M)].pc = "wait"
          /\ \A i \in 1 .. Len(M) - 1 : frames'["main"][i] = M[i]
      BY <1>0, <2>2, <2>3
    <3>2. ~At("main", "closed")'
      BY <3>1 DEF At
    <3> QED
      BY <1>1, <1>2, <2>1, <3>1, <3>2 DEF Calling, Over
  <2>4. CASE t = "yield"
    <3>1. /\ frames'["main"] = M /\ Len(frames'["yield"]) = Len(Y) /\ frames'["yield"][Len(Y)].pc = "wait"
          /\ \A i \in 1 .. Len(Y) - 1 : frames'["yield"][i] = Y[i]
      BY <1>0, <2>2, <2>4
    <3>2. ~At("main", "closed")'
      <4>1. ~At("main", "closed")
        BY <1>1, <1>2, <2>4 DEF Undisturbed
      <4> QED
        BY <3>1, <4>1 DEF At, Undisturbed
    <3>3. \A i \in 1 .. Len(frames'["yield"]) : frames'["yield"][i].pc # "closed"
      <4>1. \A i \in 1 .. Len(Y) : i \in 1 .. Len(Y) - 1 \/ i = Len(Y)
        BY <1>0
      <4> HIDE DEF Y
      <4> QED
        BY <1>1, <3>1, <4>1
    <3> QED
      BY <1>1, <1>2, <2>1, <3>1, <3>2, <3>3 DEF Calling, Over
  <2> QED
    BY <2>3, <2>4 DEF Threads
<1>4. CASE CloseSees(t)
  <2>1. state = "DISCONNECTED" /\ UNCHANGED state /\ Goto(t, "closed")
    BY <1>4 DEF CloseSees
  <2>2. t = "main"
    BY <1>1, <1>2, <2>1 DEF Undisturbed, Threads
  <2>3. /\ frames'["yield"] = Y /\ Len(frames'["main"]) = Len(M)
        /\ \A i \in 1 .. Len(M) - 1 : frames'["main"][i] = M[i]
    <3>1. Goto("main", "closed") /\ ~Undisturbed("main") /\ StacksTyped
      BY <1>2, <2>1, <2>2 DEF Typed
    <3>2. /\ \A u \in Threads : u # "main" => frames'[u] = frames[u]
          /\ Len(frames'["main"]) = Len(frames["main"])
          /\ \A i \in 1 .. Len(frames["main"]) - 1 : frames'["main"][i] = frames["main"][i]
      BY <1>0, <3>1, CallGoesOn
    <3> QED
      BY <1>0, <3>2
  <2> QED
    BY <1>1, <1>2, <2>1, <2>3 DEF Calling, Over
<1>5. CASE CloseReturn(t)
  <2>1. state' = "CLOSED" /\ Pop(t) /\ At(t, "closed")
    BY <1>5 DEF CloseReturn
  <2>2. t = "main"
    <3>1. t = "yield" => Len(Y) \in 1 .. Len(Y) /\ Y[Len(Y)].pc = "closed"
      BY <1>0, <2>1 DEF At, Undisturbed
    <3> QED
      BY <1>1, <3>1 DEF Threads
  <2>3. state = "DISCONNECTED" /\ Y = <<>>
    BY <1>1, <2>1, <2>2
  <2>4. /\ frames'["yield"] = Y /\ Len(frames'["main"]) = Len(M) - 1
        /\ \A i \in 1 .. Len(M) - 1 : frames'["main"][i] = M[i]
    BY <1>0, <1>2, <2>1, <2>2, CallReturns DEF Typed
  <2>5. frames'["main"] \in Seq(Frame)
    BY <1>0, <1>2, <2>1, <2>2, CallReturns DEF Typed
  <2>6. \A i \in 1 .. Len(frames'["main"]) : frames'["main"][i].pc # "closed"
    BY <1>1, <2>4
  <2>7. ~At("main", "closed")'
    <3>1. frames'["main"] # <<>> => Len(frames'["main"]) \in 1 .. Len(frames'["main"])
      BY <2>5
    <3> QED
      BY <2>6, <3>1 DEF At, Undisturbed
  <2>8. \A i \in 1 .. Len(frames'["main"]) - 1 : frames'["main"][i].pc # "closed"
    BY <1>0, <2>4, <2>6
  <2> QED
    BY <1>1, <1>2, <2>1, <2>3, <2>4, <2>7, <2>8 DEF Calling, Over
<1> QED
  BY <1>3, <1>4, <1>5 DEF Close

\* A report, when no fault is left to happen: it fails, or it takes a free slot,
\* is stored and answered.
LEMMA QuietUpdate ==
    ASSUME Typed, Quiet, faults = 0, faults' = 0, ypc # "none", NEW kind \in Kinds, Update(kind),
           kind = "CONNECT" => Unreported,
           UNCHANGED <<state, greeted>>, rxbuf' \in {rxbuf, "other"}
    PROVE  Answering' /\ Reporting'
<1>1. net = "up" /\ client = "connected" /\ ~Fault
  BY DEF Quiet, Online, Fault
<1>2. /\ \A k \in 1 .. Len(acks) : acks[k].live
      /\ \A k \in 2 .. Len(acks) : acks[k].kind # "CONNECT"
      /\ \A i \in Slots : waiting[i] # NONE => \E k \in 1 .. Len(acks) : acks[k].slot = i /\ acks[k].live
      /\ greeted \/ Over => Fresh
      /\ \A k \in 1 .. Len(acks) : acks[k].kind = "DISCONNECT" => connection = "DISCONNECT"
      /\ rxbuf = "DISCONNECT" \/ Over => connection = "DISCONNECT"
  BY DEF Quiet, Answering, Reporting, OnItsWay
<1>3. acks \in Seq(Ack) /\ Len(acks) \in Nat /\ waiting \in [Slots -> Kinds \cup {NONE}]
  BY DEF Typed, ReportsTyped
<1>4. Over' = Over
  BY DEF Over
<1> DEFINE stored == IF kind = "other" THEN connection ELSE kind
           free == {i \in Slots : waiting[i] = NONE}
           c == CHOOSE i \in free : TRUE
<1>5. CASE UNCHANGED <<waiting, acks, connection>>
  BY <1>2, <1>4, <1>5 DEF Answering, Reporting, OnItsWay, Fresh
<1>6. CASE /\ waiting' = [waiting EXCEPT ![c] = kind]
           /\ acks' = Append(acks, [slot |-> c, kind |-> kind, live |-> TRUE])
           /\ connection' = stored /\ free # {}
  <2>1. PICK i \in Slots : /\ waiting' = [waiting EXCEPT ![i] = kind]
                           /\ acks' = Append(acks, [slot |-> i, kind |-> kind, live |-> TRUE])
    BY <1>6
  <2>2. PICK a \in Ack : /\ a = [slot |-> i, kind |-> kind, live |-> TRUE]
                         /\ a.slot = i /\ a.kind = kind /\ a.live
    <3>1. [slot |-> i, kind |-> kind, live |-> TRUE] \in Ack
      BY DEF Ack
    <3> QED
      BY <3>1
  <2>3. /\ Len(acks') = Len(acks) + 1 /\ acks'[Len(acks) + 1] = a
        /\ \A k \in 1 .. Len(acks) : acks'[k] = acks[k] /\ k \in 1 .. Len(acks')
        /\ Len(acks) + 1 \in 1 .. Len(acks')
        /\ \A k \in 1 .. Len(acks') : k \in 1 .. Len(acks) \/ k = Len(acks) + 1
        /\ \A k \in 2 .. Len(acks') : k \in 2 .. Len(acks) \/ (k = Len(acks) + 1 /\ Len(acks) > 0)
    BY <1>3, <2>1, <2>2
  <2>4. \A k \in 1 .. Len(acks') : acks'[k].live
    BY <1>2, <2>2, <2>3
  <2>5. \A k \in 2 .. Len(acks') : acks'[k].kind # "CONNECT"
    <3>1. kind = "CONNECT" => Len(acks) = 0
      BY DEF Unreported
    <3>2. \A k \in 2 .. Len(acks) : k \in 1 .. Len(acks)
      BY <1>3
    <3> QED
      BY <1>2, <2>2, <2>3, <3>1, <3>2
  <2>6. \A j \in Slots : waiting'[j] # NONE => \E k \in 1 .. Len(acks') : acks'[k].slot = j /\ acks'[k].live
    <3> SUFFICES ASSUME NEW j \in Slots, waiting'[j] # NONE
                 PROVE  \E k \in 1 .. Len(acks') : acks'[k].slot = j /\ acks'[k].live
      OBVIOUS
    <3>1. CASE j = i
      BY <2>2, <2>3, <3>1
    <3>2. CASE j # i
      <4>1. waiting[j] # NONE
        BY <1>3, <2>1, <3>2
      <4> QED
        BY <1>2, <2>3, <4>1
    <3> QED
      BY <3>1, <3>2
  <2>7. greeted' \/ Over' => Fresh'
    <3>1. greeted \/ Over => kind # "CONNECT"
      BY DEF Unreported
    <3> QED
      BY <1>2, <1>4, <2>2, <2>3, <3>1 DEF Fresh
  <2>8. connection = "DISCONNECT" => connection' = "DISCONNECT"
    BY <1>6 DEF Unreported, NONE, Kinds
  <2>9. kind = "DISCONNECT" => connection' = "DISCONNECT"
    BY <1>6
  <2>10. \A k \in 1 .. Len(acks') : acks'[k].kind = "DISCONNECT" => connection' = "DISCONNECT"
    BY <1>2, <2>2, <2>3, <2>8, <2>9
  <2>11. rxbuf' = "DISCONNECT" \/ Over' => connection' = "DISCONNECT"
    BY <1>2, <1>4, <2>8
  <2> QED
    BY <2>4, <2>5, <2>6, <2>7, <2>10, <2>11 DEF Answering, Reporting, OnItsWay
<1> QED
  BY <1>1, <1>5, <1>6 DEF Update

\* An answer is read.
LEMMA QuietAck ==
    ASSUME Typed, Quiet, YieldAck
    PROVE  Answering' /\ Reporting' /\ Calling'
<1>1. /\ frames["yield"] = <<>> /\ acks # <<>> /\ acks' = Tail(acks) /\ rxbuf' = Head(acks).kind
      /\ UNCHANGED <<frames, connection>>
  BY DEF YieldAck, YieldAt, Undisturbed, mainVars
<1>2. /\ \A k \in 1 .. Len(acks) : acks[k].live
      /\ \A k \in 2 .. Len(acks) : acks[k].kind # "CONNECT"
      /\ \A i \in Slots : waiting[i] # NONE => \E k \in 1 .. Len(acks) : acks[k].slot = i /\ acks[k].live
      /\ greeted \/ Over => Fresh
      /\ \A k \in 1 .. Len(acks) : acks[k].kind = "DISCONNECT" => connection = "DISCONNECT"
      /\ rxbuf = "DISCONNECT" \/ Over => connection = "DISCONNECT"
      /\ At("main", "closed") => state = "DISCONNECTED"
      /\ \A i \in 1 .. Len(frames["main"]) - 1 : frames["main"][i].pc # "closed"
  BY DEF Quiet, Answering, Reporting, Calling, OnItsWay
<1>3. PICK a \in Ack : /\ a = acks[1] /\ a = Head(acks) /\ 1 \in 1 .. Len(acks)
                       /\ Len(acks) \in Nat /\ Len(acks') = Len(acks) - 1
                       /\ \A k \in 1 .. Len(acks') : k + 1 \in 2 .. Len(acks) /\ acks'[k] = acks[k + 1]
  BY <1>1, NextAck DEF Typed, ReportsTyped
<1>4. /\ waiting' = [waiting EXCEPT ![a.slot] = NONE] /\ RouteMessage(a.kind)
      /\ rxbuf' = a.kind
  BY <1>1, <1>2, <1>3 DEF YieldAck
<1>5. Over => a.kind # "CONNECT"
  BY <1>2, <1>3 DEF Fresh
<1>6. \A k \in 1 .. Len(acks') : acks'[k].live /\ acks'[k].kind # "CONNECT" /\ k + 1 \in 1 .. Len(acks)
  <2>1. \A k \in 2 .. Len(acks) : k \in 1 .. Len(acks)
    BY <1>3
  <2> QED
    BY <1>2, <1>3, <2>1
<1>7. \A k \in 2 .. Len(acks') : acks'[k].kind # "CONNECT"
  <2>1. \A k \in 2 .. Len(acks') : k \in 1 .. Len(acks')
    BY <1>3
  <2> QED
    BY <1>6, <2>1
<1>8. \A j \in Slots : waiting'[j] # NONE => \E k \in 1 .. Len(acks') : acks'[k].slot = j /\ acks'[k].live
  <2> SUFFICES ASSUME NEW j \in Slots, waiting'[j] # NONE
               PROVE  \E k \in 1 .. Len(acks') : acks'[k].slot = j /\ acks'[k].live
    OBVIOUS
  <2>1. waiting[j] # NONE /\ j # a.slot
    BY <1>4 DEF Typed, ReportsTyped
  <2>2. PICK k \in 1 .. Len(acks) : acks[k].slot = j /\ acks[k].live
    BY <1>2, <2>1
  <2>3. k # 1
    BY <1>3, <2>1, <2>2
  <2>4. k - 1 \in 1 .. Len(acks') /\ (k - 1) + 1 = k
    BY <1>3, <2>3
  <2>5. acks'[k - 1] = acks[k]
    BY <1>3, <2>4
  <2> QED
    BY <2>2, <2>4, <2>5
<1>9. Answering'
  BY <1>2, <1>6, <1>7, <1>8 DEF Answering, Fresh, OnItsWay
<1>10. a.kind = "DISCONNECT" => connection = "DISCONNECT"
  BY <1>2, <1>3
<1>11. Over' => Over \/ a.kind = "DISCONNECT"
  BY <1>4 DEF Over, RouteMessage
<1>12. Reporting'
  BY <1>1, <1>2, <1>3, <1>4, <1>6, <1>10, <1>11 DEF Reporting
<1>13. state = "DISCONNECTED" => state' = "DISCONNECTED"
  BY <1>4, <1>5 DEF Over, RouteMessage
<1>14. frames["yield"] = <<>> => 1 .. Len(frames["yield"]) = {}
  OBVIOUS
<1>15. Calling'
  BY <1>1, <1>2, <1>13, <1>14 DEF Calling, At, Undisturbed
<1> QED
  BY <1>9, <1>12, <1>15

\* A step of the yield thread.
LEMMA QuietYield ==
    ASSUME Typed, ThreadLife, Quiet, faults = 0, faults' = 0, YieldThread
    PROVE  Quiet'
<1> USE DEF sdkVars, bounds, mainVars
<1>0. Online /\ Answering /\ Reporting /\ Calling /\ ~Fault
  BY DEF Quiet, Fault
<1>1. CASE Close("yield")
  <2>1. Calling' /\ (Over' => Over) /\ mpc \notin {"start", "connecting"}
    BY <1>1, CallingCloses DEF Threads
  <2>2. UNCHANGED <<mpc, ypc, rc, waiting, acks, rxbuf, client, net, connection, greeted>>
    BY <1>1 DEF Close, CloseSet, CloseSees, CloseReturn
  <2>3. Answering' /\ Reporting'
    BY <1>0, <2>1, <2>2, SameReports
  <2>4. Online'
    BY <1>0, <2>1, <2>2 DEF Online, Unreported
  <2> QED
    BY <2>1, <2>3, <2>4 DEF Quiet
<1> SUFFICES ASSUME ~Close("yield")
             PROVE  Quiet'
  BY <1>1
<1>2. /\ ypc \notin {"none", "ended"} /\ frames["yield"] = <<>> /\ UNCHANGED <<mpc, frames, net>>
      /\ ypc' \notin {"none", "report"}
  BY DEF YieldThread, SendConnectReport, Loop, YieldAck, YieldExpire, YieldDelta, YieldReturn, AfterYield,
         YieldAt, Undisturbed
<1>3. mpc \notin {"start", "connecting", "create"} /\ client = "connected" /\ net = "up"
  BY <1>0, <1>2 DEF ThreadLife, Online
<1>4. client' = client => Online'
  BY <1>2, <1>3 DEF Online
<1>5. UNCHANGED state => Calling'
  BY <1>0, <1>2 DEF Calling, At, Undisturbed
<1>6. CASE SendConnectReport
  <2>1. Update("CONNECT") /\ UNCHANGED <<state, rxbuf, client, greeted>> /\ Unreported
    BY <1>0, <1>6 DEF SendConnectReport, YieldAt, Online
  <2>2. Answering' /\ Reporting'
    BY <1>2, <2>1, QuietUpdate DEF Kinds
  <2> QED
    BY <1>4, <1>5, <2>1, <2>2 DEF Quiet
<1>7. CASE Loop
  <2>1. UNCHANGED <<state, waiting, acks, rxbuf, client, connection, greeted>>
    BY <1>7 DEF Loop
  <2>2. Answering' /\ Reporting'
    BY <1>0, <2>1, SameReports DEF Over
  <2> QED
    BY <1>4, <1>5, <2>1, <2>2 DEF Quiet
<1>8. CASE YieldAck
  <2>1. UNCHANGED client
    BY <1>8 DEF YieldAck
  <2> QED
    BY <1>4, <1>8, <2>1, QuietAck DEF Quiet
<1>9. ASSUME NEW i \in Slots, YieldExpire(i)
      PROVE  FALSE
  <2>1. OnItsWay(i)
    BY <1>0, <1>9 DEF YieldExpire, Answering
  <2> QED
    BY <1>0, <1>9, <2>1 DEF YieldExpire
<1>10. CASE YieldDelta
  <2>1. UNCHANGED <<state, client, greeted>> /\ rxbuf' = "other"
    BY <1>10 DEF YieldDelta
  <2>2. Answering' /\ Reporting'
    <3>1. CASE Update("other")
      BY <1>2, <2>1, <3>1, QuietUpdate DEF Kinds
    <3>2. CASE UNCHANGED <<waiting, acks, rc, connection, faults>>
      BY <1>0, <2>1, <3>2 DEF Answering, Reporting, Fresh, OnItsWay, Over
    <3> QED
      BY <1>10, <3>1, <3>2 DEF YieldDelta
  <2> QED
    BY <1>4, <1>5, <2>1, <2>2 DEF Quiet
<1>11. CASE YieldReturn
  <2>1. UNCHANGED <<state, waiting, acks, rxbuf, client, connection, greeted>>
    BY <1>3, <1>11 DEF YieldReturn
  <2>2. Answering' /\ Reporting'
    BY <1>0, <2>1, SameReports DEF Over
  <2> QED
    BY <1>4, <1>5, <2>1, <2>2 DEF Quiet
<1>12. CASE AfterYield
  <2>1. UNCHANGED <<state, client, greeted, rxbuf>>
    BY <1>12 DEF AfterYield
  <2>2. Answering' /\ Reporting'
    <3>1. CASE Update("DISCONNECT")
      BY <1>2, <2>1, <3>1, QuietUpdate DEF Kinds
    <3>2. CASE UNCHANGED <<waiting, acks, rc, connection, faults>>
      BY <1>0, <2>1, <3>2, SameReports DEF Over
    <3> QED
      BY <1>12, <3>1, <3>2 DEF AfterYield
  <2> QED
    BY <1>4, <1>5, <2>1, <2>2 DEF Quiet
<1> QED
  BY <1>6, <1>7, <1>8, <1>9, <1>10, <1>11, <1>12 DEF YieldThread

\* A step of the main thread.
LEMMA QuietMain ==
    ASSUME Typed, ThreadLife, Quiet, faults = 0, faults' = 0, Main
    PROVE  Quiet'
<1> USE DEF sdkVars, bounds, mainVars
<1>0. Online /\ Answering /\ Reporting /\ Calling /\ ~Fault
  BY DEF Quiet, Fault
<1>1. CASE Close("main")
  <2>1. Calling' /\ (Over' => Over) /\ mpc \notin {"start", "connecting"}
    BY <1>1, CallingCloses DEF Threads
  <2>2. UNCHANGED <<mpc, ypc, rc, waiting, acks, rxbuf, client, net, connection, greeted>>
    BY <1>1 DEF Close, CloseSet, CloseSees, CloseReturn
  <2>3. Answering' /\ Reporting'
    BY <1>0, <2>1, <2>2, SameReports
  <2>4. Online'
    BY <1>0, <2>1, <2>2 DEF Online, Unreported
  <2> QED
    BY <2>1, <2>3, <2>4 DEF Quiet
<1>2. CASE ThingInit \/ Connecting \/ Connected
  <2>1. /\ mpc \in {"start", "connecting"} /\ UNCHANGED <<frames, ypc, waiting, acks, rxbuf, net, connection, greeted>>
        /\ ypc = "none" /\ Beginning /\ Unreported
    BY <1>0, <1>2 DEF ThingInit, Connecting, Connected, ThreadLife, Online
  <2>2. /\ state' \in {"INITIALIZING", "CONNECTING", "CONNECTED"}
        /\ mpc' = "create" => client' = "connected"
        /\ mpc' \in {"start", "connecting"} => state' \in {"INITIALIZING", "CONNECTING"}
    BY <1>0, <1>2 DEF ThingInit, Connecting, Connected
  <2>3. ~Over'
    BY <2>2 DEF Over
  <2>4. Online'
    BY <1>0, <2>1, <2>2, <2>3 DEF Online, Beginning, Unreported
  <2>5. Answering' /\ Reporting'
    BY <1>0, <2>1, <2>3, SameReports
  <2>6. Calling'
    <3>1. frames'["main"] = <<>> /\ frames'["yield"] = <<>>
      BY <2>1 DEF Beginning, Threads
    <3>2. 1 .. Len(<<>>) = {} /\ 1 .. Len(<<>>) - 1 = {}
      OBVIOUS
    <3> QED
      BY <3>1, <3>2 DEF Calling, At, Undisturbed
  <2> QED
    BY <2>4, <2>5, <2>6 DEF Quiet
<1>3. CASE CreateThread \/ Join \/ Destroy \/ Exit
  <2>1. /\ UNCHANGED <<frames, state, waiting, acks, rxbuf, client, net, connection, greeted>>
        /\ \/ ypc = "none" /\ mpc = "create" /\ ypc' = "report"
           \/ UNCHANGED ypc
        /\ mpc' \notin {"start", "connecting", "create"}
    BY <1>3 DEF CreateThread, Join, Destroy, Exit, ThreadLife
  <2>2. Online'
    BY <1>0, <2>1 DEF Online, Unreported, Over
  <2>3. Answering' /\ Reporting'
    BY <1>0, <2>1, SameReports DEF Over
  <2>4. Calling'
    BY <1>0, <2>1 DEF Calling, At, Undisturbed
  <2> QED
    BY <2>2, <2>3, <2>4 DEF Quiet
<1>4. CASE MainClose
  <2>1. /\ Closes("main", "main") /\ mpc = "close" /\ mpc' = "destroy"
        /\ UNCHANGED <<ypc, state, waiting, acks, rxbuf, client, net, connection, greeted>>
    BY <1>4 DEF MainClose
  <2>2. Calling'
    BY <1>0, <2>1, CallingPushed DEF Threads
  <2>3. Answering' /\ Reporting'
    BY <1>0, <2>1, SameReports DEF Over
  <2>4. Online'
    BY <1>0, <2>1 DEF Online, Unreported, Over
  <2> QED
    BY <2>2, <2>3, <2>4 DEF Quiet
<1> QED
  BY <1>1, <1>2, <1>3, <1>4 DEF Main

\* A signal.
LEMMA QuietSignal ==
    ASSUME Typed, Quiet, NEW s \in Signals, Signal(s)
    PROVE  Quiet'
<1>0. Online /\ Answering /\ Reporting /\ Calling
  BY DEF Quiet
<1>1. /\ UNCHANGED <<ypc, state, waiting, acks, rxbuf, client, net, connection, greeted>>
      /\ mpc' \in {mpc, "exited"}
      /\ (\E t \in Threads : Closes(t, s)) \/ UNCHANGED frames
  BY DEF Signal, sdkVars, mainVars
<1>2. Calling'
  <2>1. CASE \E t \in Threads : Closes(t, s)
    BY <1>0, <1>1, <2>1, CallingPushed
  <2>2. CASE UNCHANGED frames
    BY <1>0, <1>1, <2>2 DEF Calling, At, Undisturbed
  <2> QED
    BY <1>1, <2>1, <2>2
<1>3. Answering' /\ Reporting'
  BY <1>0, <1>1, SameReports DEF Over
<1>4. mpc \in {"start", "connecting"} => UNCHANGED frames
  <2>1. Beginning => state # "CONNECTED"
    BY DEF Beginning, NONE
  <2> QED
    BY <1>0, <1>1, <2>1 DEF Online, Closes
<1>5. Online'
  BY <1>0, <1>1, <1>4 DEF Online, Unreported, Beginning, Over
<1> QED
  BY <1>2, <1>3, <1>5 DEF Quiet

\* The inductive invariant.
Calm == Typed /\ ThreadLife /\ (faults = 0 => Quiet)

\* Every step keeps the order of a thing whose network has not failed.
LEMMA CalmStep == Calm /\ [Next]_vars => Calm'
<1> SUFFICES ASSUME Calm, [Next]_vars PROVE Calm'
  OBVIOUS
<1>1. Typed' /\ ThreadLife'
  BY TypedStep, ThreadLifeStep DEF Calm
<1> SUFFICES ASSUME faults' = 0
             PROVE  Quiet'
  BY <1>1 DEF Calm
<1>2. Typed /\ ThreadLife
  BY DEF Calm
<1>3. CASE UNCHANGED vars
  <2>1. Quiet
    BY <1>3 DEF Calm, vars, bounds
  <2> QED
    BY <1>3, <2>1 DEF Quiet, Online, Unreported, Beginning, Answering, Reporting, Calling, Fresh, OnItsWay, Over,
                      At, Undisturbed, vars, mainVars, sdkVars
<1>4. CASE Next
  <2>1. faults = 0
    <3>1. UNCHANGED faults \/ faults' = faults + 1
      BY <1>4 DEF Next, Main, Signal, YieldThread, LoseAck, NetDown, NetUp, ThingInit, Connecting, Connected,
                  CreateThread, Join, MainClose, Close, CloseSet, CloseSees, CloseReturn, Destroy, Exit,
                  SendConnectReport, Loop, YieldAck, YieldExpire, YieldDelta, YieldReturn, AfterYield, Update,
                  Fault, bounds
    <3> QED
      BY <1>2, <3>1 DEF Typed, ThingTyped
  <2>2. Quiet /\ ~Fault
    BY <2>1 DEF Calm, Fault
  <2>3. CASE LoseAck \/ NetDown \/ NetUp
    BY <2>2, <2>3 DEF LoseAck, NetDown, NetUp, Quiet, Online
  <2> QED
    BY <1>2, <1>4, <2>1, <2>2, <2>3, QuietMain, QuietSignal, QuietYield DEF Next
<1> QED
  BY <1>3, <1>4

\* The first state.
LEMMA CalmFirst == Init => Calm
<1> SUFFICES ASSUME Init PROVE Calm
  OBVIOUS
<1>1. Typed /\ ThreadLife
  BY TypedFirst DEF Init, ThreadLife
<1>2. Online
  BY DEF Init, Online, Unreported, Beginning, Over, NONE
<1>3. 1 .. Len(<<>>) = {} /\ 1 .. Len(<<>>) - 1 = {} /\ 2 .. Len(<<>>) = {}
  OBVIOUS
<1>4. Answering /\ Reporting
  BY <1>3 DEF Init, Answering, Reporting, Fresh, Over, NONE
<1>5. Calling
  BY <1>3 DEF Init, Calling, At, Undisturbed, Threads
<1> QED
  BY <1>1, <1>2, <1>4, <1>5 DEF Calm, Quiet

\* A thing that is CLOSED has told the shadow so, unless its network failed: the
\* state is DISCONNECTED only after the router was handed the answer to the
\* report of the disconnection, and no report of the connection follows it.
THEOREM CloseTellsShadow == Spec => []ClosedIsReported
<1>1. Calm => ClosedIsReported
  BY DEF Calm, Quiet, Reporting, Over, ClosedIsReported, Typed, ThingTyped
<1> QED
  BY <1>1, CalmFirst, CalmStep, PTL DEF Spec

\* A stop is not forgotten: from CLOSING the state only moves on to DISCONNECTED
\* once the report of the connection was answered, if no answer is lost or late.
THEOREM StopIsKept == Spec => ClosingSticks
<1>1. Calm /\ [Next]_vars => [state = "CLOSING" /\ greeted /\ faults' = 0 => state' \in {"CLOSING", "DISCONNECTED"}]_vars
  <2> SUFFICES ASSUME Calm, Next, state = "CLOSING", greeted, faults' = 0
               PROVE  state' \in {"CLOSING", "DISCONNECTED"}
    BY Zenon
  <2>1. faults = 0
    <3>1. UNCHANGED faults \/ faults' = faults + 1
      BY DEF Next, Main, Signal, YieldThread, LoseAck, NetDown, NetUp, ThingInit, Connecting, Connected,
             CreateThread, Join, MainClose, Close, CloseSet, CloseSees, CloseReturn, Destroy, Exit,
             SendConnectReport, Loop, YieldAck, YieldExpire, YieldDelta, YieldReturn, AfterYield, Update,
             Fault, bounds
    <3> QED
      BY <3>1 DEF Calm, Typed, ThingTyped
  <2>2. Typed /\ ThreadLife /\ Online /\ Answering /\ Reporting /\ Calling /\ ~Fault
    BY <2>1 DEF Calm, Quiet, Fault
  <2>3. CASE UNCHANGED state
    BY <2>3
  <2>4. ASSUME NEW t \in Threads, Close(t)
        PROVE  state' \in {"CLOSING", "DISCONNECTED"}
    <3>1. CASE CloseSet(t) \/ CloseSees(t)
      BY <3>1 DEF CloseSet, CloseSees
    <3>2. ~CloseReturn(t)
      <4>1. frames["yield"] \in Seq(Frame)
        BY <2>2 DEF Typed, StacksTyped, Threads
      <4>2. frames["yield"] # <<>> => Len(frames["yield"]) \in 1 .. Len(frames["yield"])
        BY <4>1
      <4> QED
        BY <2>2, <4>2 DEF Calling, CloseReturn, At, Undisturbed, Threads
    <3> QED
      BY <2>4, <3>1, <3>2 DEF Close
  <2>5. CASE ThingInit \/ Connecting \/ Connected
    BY <2>2, <2>5 DEF ThingInit, Connecting, Connected, Online, Beginning, NONE
  <2>6. CASE YieldAck
    <3>1. acks # <<>>
      BY <2>6 DEF YieldAck
    <3>2. Head(acks).kind # "CONNECT"
      BY <2>2, <3>1, NextAck DEF Answering, Fresh, Typed
    <3> QED
      BY <2>6, <3>2 DEF YieldAck, RouteMessage
  <2>7. ASSUME NEW i \in Slots, YieldExpire(i)
        PROVE  FALSE
    BY <2>2, <2>7 DEF YieldExpire, Answering
  <2>8. CASE YieldReturn
    BY <2>8 DEF YieldReturn
  <2>9. CASE \/ CreateThread \/ Join \/ MainClose \/ Destroy \/ Exit \/ (\E s \in Signals : Signal(s))
             \/ SendConnectReport \/ Loop \/ YieldDelta \/ AfterYield \/ LoseAck \/ NetDown \/ NetUp
    BY <2>3, <2>9 DEF CreateThread, Join, MainClose, Destroy, Exit, Signal, SendConnectReport, Loop, YieldDelta,
                      AfterYield, LoseAck, NetDown, NetUp
  <2> QED
    BY <2>4, <2>5, <2>6, <2>7, <2>8, <2>9 DEF Next, Main, YieldThread, Threads
<1> QED
  BY <1>1, CalmFirst, CalmStep, PTL DEF Spec, ClosingSticks
=============================================================================
