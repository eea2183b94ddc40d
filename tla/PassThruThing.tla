---------------------------- MODULE PassThruThing ----------------------------
(***************************************************************************)
(* The life of the daemon (ecutuned.c, passthru_thing.c,                    *)
(* passthru_shadow.c): the main thread connects to the shadow service,      *)
(* starts the yield thread and joins it; the yield thread reads the MQTT    *)
(* connection, runs the callbacks and reports the connection; SIGINT and    *)
(* SIGTERM interrupt a thread, and their handler asks the yield thread to   *)
(* report the disconnection and waits for it.  All of them share            *)
(* thing->state without a lock.                                             *)
(*                                                                         *)
(* The MQTT client and the list of reports that wait for an                 *)
(* acknowledgement belong to the SDK.  Its callback for a report that was   *)
(* never acknowledged gets whatever document was received last.             *)
(***************************************************************************)
EXTENDS Naturals, Sequences

CONSTANTS Slots,       \* entries of the SDK's list of reports that wait
          MaxSignals,  \* bound on the stop signals
          MaxDeltas,   \* bound on the deltas that are answered by a report
          MaxFaults    \* bound on lost messages, late answers, network losses

ASSUME ThingAssumption ==
    /\ Slots # {}
    /\ MaxSignals \in Nat /\ MaxDeltas \in Nat /\ MaxFaults \in Nat

Signals == {"SIGINT", "SIGTERM"}
\* what a report, or the document that acknowledges it, says of the connection
Kinds == {"CONNECT", "DISCONNECT", "other"}
NONE == "none"

VARIABLES
    mpc,        \* where the main thread is
    frames,     \* the calls of passthru_thing_close on each thread's stack
    ypc,        \* where the yield thread is
    state,      \* thing->state
    rc,         \* thing->shadow->rc
    waiting,    \* the SDK's list: what each slot waits for
    acks,       \* acknowledgements on their way to the daemon
    rxbuf,      \* shadowRxBuf: the document received last
    client,     \* does the MQTT client take itself for connected?  It is "deaf"
                \* if it connected again but could not subscribe again
    net,        \* is its connection up?
    connection, \* reported.connection of the shadow
    signals, deltas, faults,
    stopped,    \* (history) has passthru_thing_close asked for the end?
    greeted     \* (history) has the report of the connection been answered?

mainVars == <<mpc, frames>>
sdkVars  == <<waiting, acks, rxbuf, client, net>>
bounds   == <<signals, deltas, faults>>
vars == <<mainVars, ypc, state, rc, sdkVars, connection, bounds, stopped, greeted>>

Fault == faults < MaxFaults /\ faults' = faults + 1

Threads == {"main", "yield"}
\* a thread itself runs only when no call of passthru_thing_close is on its stack
Undisturbed(t) == frames[t] = <<>>
Exists == mpc \notin {"start", "destroyed", "exited"}   \* thing is allocated

-----------------------------------------------------------------------------
(* The main thread: main and passthru_thing_run.                           *)

\* passthru_thing_init, and the state that passthru_thing_run begins with;
\* what passthru_shadow_state_sync restores is not the connection
ThingInit ==
    /\ mpc = "start" /\ Undisturbed("main")
    /\ mpc' = "connecting" /\ state' = "INITIALIZING"
    /\ UNCHANGED <<frames, ypc, rc, sdkVars, connection, bounds, stopped, greeted>>

\* passthru_shadow_connect; when it fails passthru_thing_run returns.
Connecting ==
    /\ mpc = "connecting" /\ Undisturbed("main") /\ state = "INITIALIZING"
    /\ state' = "CONNECTING"
    /\ UNCHANGED <<mainVars, ypc, rc, sdkVars, connection, bounds, stopped, greeted>>

Connected ==
    /\ mpc = "connecting" /\ Undisturbed("main") /\ state = "CONNECTING"
    /\ \/ /\ state' = "CONNECTED" /\ mpc' = "create"
          /\ rc' = "SUCCESS" /\ client' = "connected" /\ UNCHANGED faults
       \/ /\ Fault /\ mpc' = "close" /\ rc' = "ERROR"
          /\ UNCHANGED <<state, client>>
    /\ UNCHANGED <<frames, ypc, waiting, acks, rxbuf, net, connection, signals, deltas,
                   stopped, greeted>>

CreateThread ==
    /\ mpc = "create" /\ Undisturbed("main")
    /\ mpc' = "join" /\ ypc' = "report"
    /\ UNCHANGED <<frames, state, rc, sdkVars, connection, bounds, stopped, greeted>>

\* Mutant: the main thread does not wait for the yield thread.
JoinAtOnce ==
    /\ mpc = "join" /\ Undisturbed("main")
    /\ mpc' = "close"
    /\ UNCHANGED <<frames, ypc, state, rc, sdkVars, connection, bounds, stopped, greeted>>

Join ==
    /\ mpc = "join" /\ Undisturbed("main") /\ ypc = "ended"
    /\ mpc' = "close"
    /\ UNCHANGED <<frames, ypc, state, rc, sdkVars, connection, bounds, stopped, greeted>>

-----------------------------------------------------------------------------
(* passthru_thing_close, called by main and by the signal handler.         *)

\* its first test, and the frame of a call that goes on
Closes(t, who) ==
    frames' = IF state = "CONNECTED"
              THEN [frames EXCEPT ![t] = Append(@, [who |-> who, pc |-> "set"])]
              ELSE frames

MainClose ==
    /\ mpc = "close" /\ Undisturbed("main")
    /\ Closes("main", "main")
    /\ mpc' = "destroy"
    /\ UNCHANGED <<ypc, state, rc, sdkVars, connection, bounds, stopped, greeted>>

\* A signal is delivered to the main thread; while its own handler runs there
\* it is blocked there, and goes to the yield thread instead.
Blocked(t, s) == \E i \in 1..Len(frames[t]) : frames[t][i].who = s
Target(t, s) ==
    \/ t = "main" /\ ~Blocked("main", s)
    \/ t = "yield" /\ Blocked("main", s) /\ ~Blocked("yield", s) /\ ypc \notin {"none", "ended"}

\* Before passthru_thing_init thing is a null pointer, after
\* passthru_thing_destroy it is freed: the process dies, or reads old memory.
Signal(s) ==
    /\ mpc # "exited" /\ signals < MaxSignals
    /\ signals' = signals + 1
    /\ \/ Exists /\ (\E t \in Threads : Target(t, s) /\ Closes(t, s)) /\ UNCHANGED mpc
       \/ ~Exists /\ mpc' = "exited" /\ UNCHANGED frames
       \/ mpc = "destroyed" /\ UNCHANGED mainVars
    /\ UNCHANGED <<ypc, state, rc, sdkVars, connection, deltas, faults, stopped, greeted>>

At(t, p) == ~Undisturbed(t) /\ frames[t][Len(frames[t])].pc = p
Goto(t, p) == frames' = [frames EXCEPT ![t][Len(frames[t])].pc = p]
Pop(t) == frames' = [frames EXCEPT ![t] = SubSeq(@, 1, Len(@) - 1)]

\* Mutant: the close asks for a disconnection as passthru_thing_disconnect does.
CloseSetDisconnecting(t) ==
    /\ At(t, "set")
    /\ state' = "DISCONNECTING" /\ stopped' = TRUE /\ Goto(t, "wait")
    /\ UNCHANGED <<mpc, ypc, rc, sdkVars, connection, bounds, greeted>>

CloseSet(t) ==
    /\ At(t, "set")
    /\ state' = "CLOSING" /\ stopped' = TRUE /\ Goto(t, "wait")
    /\ UNCHANGED <<mpc, ypc, rc, sdkVars, connection, bounds, greeted>>

\* Mutant: the wait does not look at the state.
CloseSeesAtOnce(t) ==
    /\ At(t, "wait") /\ Goto(t, "closed")
    /\ UNCHANGED <<mpc, ypc, state, rc, sdkVars, connection, bounds, stopped, greeted>>

\* the test of the loop that waits, once it sees the disconnection
CloseSees(t) ==
    /\ At(t, "wait") /\ state = "DISCONNECTED" /\ Goto(t, "closed")
    /\ UNCHANGED <<mpc, ypc, state, rc, sdkVars, connection, bounds, stopped, greeted>>

CloseReturn(t) ==
    /\ At(t, "closed")
    /\ state' = "CLOSED" /\ Pop(t)
    /\ UNCHANGED <<mpc, ypc, rc, sdkVars, connection, bounds, stopped, greeted>>

Close(t) == CloseSet(t) \/ CloseSees(t) \/ CloseReturn(t)

\* passthru_thing_destroy and main_exit
Destroy ==
    /\ mpc = "destroy" /\ Undisturbed("main")
    /\ mpc' = "destroyed"
    /\ UNCHANGED <<frames, ypc, state, rc, sdkVars, connection, bounds, stopped, greeted>>

Exit ==
    /\ mpc = "destroyed"
    /\ mpc' = "exited"
    /\ UNCHANGED <<frames, ypc, state, rc, sdkVars, connection, bounds, stopped, greeted>>

Main == ThingInit \/ Connecting \/ Connected \/ CreateThread \/ Join \/ MainClose
        \/ Close("main") \/ Destroy \/ Exit

-----------------------------------------------------------------------------
(* Reports: passthru_shadow_update and iot_shadow_action below it.         *)

\* A report takes a slot and is published; the service stores it and answers,
\* which a deaf client does not hear.  It fails when the client is offline, no
\* slot is free or the connection is down, and may be lost on the way.
Update(kind) ==
    LET stored == IF kind = "other" THEN connection ELSE kind
        free   == {i \in Slots : waiting[i] = NONE}
        i      == CHOOSE i \in free : TRUE IN
    \/ /\ client # "offline" /\ free # {}
       /\ waiting' = [waiting EXCEPT ![i] = kind]
       /\ rc' = "SUCCESS"
       /\ \/ /\ net = "up" /\ client = "deaf" /\ connection' = stored
             /\ UNCHANGED <<acks, faults>>
          \/ /\ net = "up" /\ client = "connected" /\ connection' = stored
             /\ acks' = Append(acks, [slot |-> i, kind |-> kind, live |-> TRUE])
             /\ UNCHANGED faults
          \/ /\ net = "up" /\ Fault
             /\ connection' \in {connection, stored} /\ UNCHANGED acks
          \/ /\ net = "down" /\ UNCHANGED <<connection, acks, faults>>
    \/ /\ client = "offline" \/ free = {} \/ net = "down"
       /\ rc' = "ERROR"
       /\ UNCHANGED <<waiting, acks, connection, faults>>

\* Mutant: a document that does not say DISCONNECT counts as a connection.
RouteMessageElse(doc) ==
    state' = IF doc = "DISCONNECT" THEN "DISCONNECTED" ELSE "CONNECTED"

\* the connection handler, called by the router for the document of an
\* acknowledgement
RouteMessage(doc) ==
    state' = IF doc = "CONNECT" THEN "CONNECTED"
             ELSE IF doc = "DISCONNECT" THEN "DISCONNECTED" ELSE state

-----------------------------------------------------------------------------
(* The yield thread.                                                       *)

YieldAt(pc) == ypc = pc /\ Undisturbed("yield")

SendConnectReport ==
    /\ YieldAt("report")
    /\ Update("CONNECT")
    /\ ypc' = "loop"
    /\ UNCHANGED <<mainVars, state, rxbuf, client, net, signals, deltas, stopped, greeted>>

\* Mutant: the loop also goes on when the connection is lost for good.
LoopForEver ==
    /\ YieldAt("loop")
    /\ ypc' = "yield"
    /\ UNCHANGED <<mainVars, state, rc, sdkVars, connection, bounds, stopped, greeted>>

Loop ==
    /\ YieldAt("loop")
    /\ ypc' = IF state \in {"INITIALIZING", "CONNECTED", "CLOSING"} \/ rc = "ATTEMPTING"
              THEN "yield" ELSE "ended"
    /\ UNCHANGED <<mainVars, state, rc, sdkVars, connection, bounds, stopped, greeted>>

\* aws_iot_shadow_yield reads an acknowledgement: one that a slot waits for
\* is handed to passthru_thing_shadow_onupdate, any other is only copied.
YieldAck ==
    /\ YieldAt("yield") /\ client = "connected" /\ acks # <<>>
    /\ LET a == Head(acks) IN
         /\ acks' = Tail(acks) /\ rxbuf' = a.kind
         /\ IF a.live
            THEN /\ waiting' = [waiting EXCEPT ![a.slot] = NONE]
                 /\ RouteMessage(a.kind)
                 /\ greeted' = (greeted \/ a.kind = "CONNECT")
            ELSE UNCHANGED <<waiting, state, greeted>>
    /\ UNCHANGED <<mainVars, ypc, rc, client, net, connection, bounds, stopped>>

\* A slot expires: the callback is called with the document received last.
\* It is too early if the answer is on its way.
OnItsWay(i) == \E k \in 1..Len(acks) : acks[k].slot = i /\ acks[k].live
YieldExpire(i) ==
    /\ YieldAt("yield") /\ waiting[i] # NONE
    /\ IF OnItsWay(i) THEN Fault ELSE UNCHANGED faults
    /\ waiting' = [waiting EXCEPT ![i] = NONE]
    /\ acks' = [k \in 1..Len(acks) |-> IF acks[k].slot = i THEN [acks[k] EXCEPT !.live = FALSE]
                                       ELSE acks[k]]
    /\ RouteMessage(rxbuf)
    /\ UNCHANGED <<mainVars, ypc, rc, rxbuf, client, net, connection, signals, deltas,
                   stopped, greeted>>

\* It reads a delta, or the accepted update of somebody else; shadowRxBuf takes
\* it in any case.  A delta that is not an old one goes to a handler, and the
\* log handler and the J2534 handler may report something.
YieldDelta ==
    /\ YieldAt("yield") /\ client = "connected" /\ net = "up" /\ deltas < MaxDeltas
    /\ deltas' = deltas + 1
    /\ rxbuf' = "other"
    /\ Update("other") \/ UNCHANGED <<waiting, acks, rc, connection, faults>>
    /\ UNCHANGED <<mainVars, ypc, state, client, net, signals, stopped, greeted>>

\* It returns.  A connection that is down may go unnoticed; once a ping fails
\* passthru_thing_shadow_ondisconnect is called, and from then on the SDK tries
\* to connect again until it gives up.  After it reconnected it may go on with
\* the yield, and return SUCCESS; if it cannot subscribe again, an error.
YieldReturn ==
    /\ YieldAt("yield") /\ ypc' = "after"
    /\ \/ /\ client # "offline" /\ net = "up"
          /\ rc' = "SUCCESS" /\ UNCHANGED <<client, state>>
       \/ /\ client # "offline" /\ net = "down"
          /\ rc' \in {"SUCCESS", "ERROR"} /\ UNCHANGED <<client, state>>
       \/ /\ client # "offline" /\ net = "down"
          /\ rc' = "ATTEMPTING" /\ client' = "offline" /\ state' = "DISCONNECTED"
       \/ /\ client = "offline" /\ net = "down"
          /\ rc' \in {"ATTEMPTING", "ERROR"} /\ UNCHANGED <<client, state>>
       \/ /\ client = "offline" /\ net = "up"
          /\ rc' \in {"RECONNECTED", "SUCCESS"} /\ client' = "connected" /\ UNCHANGED state
       \/ /\ client = "offline" /\ net = "up"
          /\ rc' = "ERROR" /\ client' = "deaf" /\ UNCHANGED state
    /\ UNCHANGED <<mainVars, waiting, acks, rxbuf, net, connection, bounds, stopped, greeted>>

\* Mutant: the disconnection is never reported.
AfterYieldSilent ==
    /\ YieldAt("after") /\ ypc' = "loop"
    /\ IF rc # "ATTEMPTING" /\ state = "CLOSING" THEN state' = "DISCONNECTED" ELSE UNCHANGED state
    /\ UNCHANGED <<mainVars, rc, sdkVars, connection, bounds, stopped, greeted>>

\* A closing thing reports the disconnection, again and again until it is
\* answered; what the report returns makes no difference.
AfterYield ==
    /\ YieldAt("after") /\ ypc' = "loop"
    /\ IF rc # "ATTEMPTING" /\ state = "CLOSING" THEN Update("DISCONNECT")
       ELSE UNCHANGED <<waiting, acks, rc, connection, faults>>
    /\ UNCHANGED <<mainVars, state, rxbuf, client, net, signals, deltas, stopped, greeted>>

YieldThread ==
    \/ SendConnectReport \/ Loop \/ YieldAck \/ (\E i \in Slots : YieldExpire(i))
    \/ YieldDelta \/ YieldReturn \/ AfterYield \/ Close("yield")

-----------------------------------------------------------------------------
(* The network (external).                                                 *)

LoseAck ==
    /\ acks # <<>> /\ Fault /\ acks' = Tail(acks)
    /\ UNCHANGED <<mainVars, ypc, state, rc, waiting, rxbuf, client, net, connection,
                   signals, deltas, stopped, greeted>>

NetDown ==
    /\ net = "up" /\ client # "offline" /\ Fault
    /\ net' = "down" /\ acks' = <<>>
    /\ UNCHANGED <<mainVars, ypc, state, rc, waiting, rxbuf, client, connection,
                   signals, deltas, stopped, greeted>>

NetUp ==
    /\ net = "down" /\ client = "offline"
    /\ net' = "up"
    /\ UNCHANGED <<mainVars, ypc, state, rc, waiting, acks, rxbuf, client, connection,
                   bounds, stopped, greeted>>

-----------------------------------------------------------------------------
Init ==
    /\ mpc = "start" /\ frames = [t \in Threads |-> <<>>] /\ ypc = "none"
    /\ state = NONE /\ rc = "SUCCESS"
    /\ waiting = [i \in Slots |-> NONE] /\ acks = <<>> /\ rxbuf = NONE
    /\ client = "offline" /\ net = "up"
    /\ connection = NONE
    /\ signals = 0 /\ deltas = 0 /\ faults = 0
    /\ stopped = FALSE /\ greeted = FALSE

Next ==
    \/ Main \/ (\E s \in Signals : Signal(s)) \/ YieldThread
    \/ LoseAck \/ NetDown \/ NetUp

Spec == Init /\ [][Next]_vars

\* Both threads are scheduled, a yield ends after 200 ms, and what waits to be
\* read is read in one yield or another.
Fairness ==
    /\ WF_vars(Main) /\ WF_vars(YieldThread)
    /\ WF_vars(YieldReturn) /\ SF_vars(YieldAck)

FairSpec == Spec /\ Fairness

-----------------------------------------------------------------------------
(* Properties.                                                             *)

ThingStates == {NONE, "INITIALIZING", "CONNECTING", "CONNECTED", "CLOSING", "CLOSED",
                "DISCONNECTED"}

\* Type invariant: every variable of the daemon and of the SDK keeps its type.
TypeOK ==
    /\ mpc \in {"start", "connecting", "create", "join", "close", "destroy",
                "destroyed", "exited"}
    /\ frames \in [Threads -> Seq([who : Signals \cup {"main"}, pc : {"set", "wait", "closed"}])]
    /\ ypc \in {"none", "report", "loop", "yield", "after", "ended"}
    /\ state \in ThingStates
    /\ rc \in {"SUCCESS", "ERROR", "ATTEMPTING", "RECONNECTED"}
    /\ waiting \in [Slots -> Kinds \cup {NONE}]
    /\ acks \in Seq([slot : Slots, kind : Kinds, live : BOOLEAN])
    /\ rxbuf \in Kinds \cup {NONE}
    /\ client \in {"connected", "deaf", "offline"} /\ net \in {"up", "down"}
    /\ connection \in {NONE, "CONNECT", "DISCONNECT"}
    /\ signals \in 0..MaxSignals /\ deltas \in 0..MaxDeltas /\ faults \in 0..MaxFaults
    /\ stopped \in BOOLEAN /\ greeted \in BOOLEAN

\* passthru_thing_destroy frees the thing and its MQTT client only when the
\* yield thread, which uses both, has ended: whatever signals arrive, however
\* the calls of passthru_thing_close nest and however the network fails.
DestroyedAfterThread ==
    mpc \in {"destroy", "destroyed", "exited"} => ypc \in {"none", "ended"}

\* A thing that is CLOSED has told the shadow so, unless its network failed:
\* passthru_thing_close never takes an old document, a lost report or an
\* expired one for the answer to the report of the disconnection.
ClosedIsReported ==
    state = "CLOSED" => connection = "DISCONNECT" \/ faults > 0

\* A stop is not forgotten: once passthru_thing_close has written CLOSING, the
\* state moves on to DISCONNECTED and not back to CONNECTED, provided that the
\* report of the connection had been answered and no answer is lost or late.
ClosingSticks ==
    [][state = "CLOSING" /\ greeted /\ faults' = 0 => state' \in {"CLOSING", "DISCONNECTED"}]_vars

\* A stop ends the daemon, under the same proviso, if it is the only call of
\* passthru_thing_close and the yield thread is there to answer it.
\* (Otherwise the acknowledgement of the connection, or an old copy of it that
\* an expired report is handed, sets the state back to CONNECTED and no
\* disconnection is reported; and of two calls that passed the first test, the
\* one that sees DISCONNECTED overwrites it with CLOSED, which the other waits
\* past for ever.)
Calls == Len(frames["main"]) + Len(frames["yield"])
StopEnds ==
    /\ state = "CLOSING" /\ Calls = 1 /\ ypc # "ended"
    /\ greeted /\ faults = 0
    ~> mpc = "exited" \/ faults > 0

\* The yield thread outlives a lost connection that was made again and whose
\* subscriptions are back: "Attempting to reconnect to AWS IoT shadow service"
\* (passthru_thing_shadow_yield_thread).
SurvivesReconnect == ypc = "ended" /\ client = "connected" => stopped
=============================================================================
