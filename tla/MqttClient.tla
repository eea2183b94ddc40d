----------------------------- MODULE MqttClient -----------------------------
(***************************************************************************)
(* The MQTT client of the AWS IoT SDK (aws_iot_mqtt_client*.c), as the      *)
(* daemon and the library use it: without threads support, with a clean     *)
(* session, QoS 0 and automatic reconnection.                               *)
(*                                                                         *)
(* One thread makes the calls.  A call that waits for its acknowledgement   *)
(* reads the connection, and a message that it reads is handed to its       *)
(* handler, which may subscribe: the calls under way are a stack, and each  *)
(* one saves the state of the client and restores it.  A publication at     *)
(* QoS 0 does so too but waits for nothing and leaves no trace here.        *)
(* A connection is lost in one of three ways: it is "reset", it falls       *)
(* "silent", or the peer closes it and every read finds its end ("eof").    *)
(***************************************************************************)
EXTENDS Naturals, Sequences, FiniteSets

CONSTANTS Topics,       \* topics that are subscribed to
          NumHandlers,  \* AWS_IOT_MQTT_NUM_SUBSCRIBE_HANDLERS
          MinWait,      \* AWS_IOT_MQTT_MIN_RECONNECT_WAIT_INTERVAL, in seconds
          MaxWait,      \* AWS_IOT_MQTT_MAX_RECONNECT_WAIT_INTERVAL
          Losses,       \* the ways in which the connection may be lost
          MaxLosses, MaxCalls, MaxMessages  \* bounds

NoTopic == "no topic"

ASSUME ClientAssumption ==
    /\ NoTopic \notin Topics    \* a topic is never NULL
    /\ NumHandlers \in Nat \ {0} /\ MinWait \in Nat \ {0} /\ MaxWait \in Nat
    /\ Losses \subseteq {"reset", "silent", "eof"}
    /\ MaxLosses \in Nat /\ MaxCalls \in Nat /\ MaxMessages \in Nat

Handlers == 0 .. NumHandlers - 1

VARIABLES
    state,        \* clientStatus.clientState
    handlers,     \* topicName of each of clientData.messageHandlers
    stack,        \* the calls under way, the innermost last
    ping,         \* isPingOutstanding: "yes", "no"
    pingTimer,    \* "running", "expired"
    delayTimer,   \* reconnectDelayTimer
    wait,         \* currentReconnectWaitInterval
    net,          \* the connection: "none", "up" or how it was lost
    toBroker, toClient,   \* packets on their way
    subs,         \* the subscriptions that the broker holds
    losses, calls, messages,
    acked,        \* (history) topics whose subscription succeeded and was not cancelled
    mishaps       \* (history) what happened on this connection of: "late", an answer may
                  \* come after its timeout; "deaf", a renewal of the subscriptions
                  \* failed; "hole", it was made with a hole in the table; or ever:
                  \* "nested", a subscription was made inside another

timers == <<ping, pingTimer, delayTimer, wait>>
netVars == <<net, toBroker, toClient, subs>>
bounds == <<losses, calls, messages>>
vars == <<state, handlers, stack, timers, netVars, bounds, acked, mishaps>>

Busy == {"SUBSCRIBE", "UNSUBSCRIBE", "RESUBSCRIBE", "YIELD"}   \* ..._IN_PROGRESS
States == {"INITIALIZED", "CONNECTING", "IDLE", "WAIT_FOR_CB_RETURN", "DISCONNECTED_ERROR",
           "PENDING_RECONNECT"} \cup Busy

\* aws_iot_mqtt_is_client_connected
IsConnected == state \in {"IDLE", "WAIT_FOR_CB_RETURN"} \cup Busy

\* aws_iot_mqtt_set_client_state; nobody stops when it fails
SetClientState(expected, new) == IF state = expected THEN new ELSE state

Top == stack[Len(stack)]
Below == SubSeq(stack, 1, Len(stack) - 1)
InCall(op) == stack # <<>> /\ Top.op = op
Call(op, t, i, n) == [op |-> op, saved |-> state, topic |-> t, idx |-> i, count |-> n, pc |-> "first"]
GoTo(frames, pc) ==
    IF frames = <<>> THEN frames ELSE [frames EXCEPT ![Len(frames)].pc = pc]

\* aws_iot_mqtt_internal_send_packet: nobody hears what is sent after a loss;
\* the system may refuse to send it once the peer has closed or reset.
Sent(p) == IF net = "up" THEN Append(toBroker, p) ELSE toBroker
SendMayFail == net \in {"reset", "eof"}

-----------------------------------------------------------------------------
(* Connection.                                                             *)

\* the network stack is disconnected and destroyed
NetworkDestroyed ==
    /\ net' = "none" /\ toBroker' = <<>> /\ toClient' = <<>> /\ subs' = {}

\* A TLS connection is made, and CONNECT is sent on it.
Dial ==
    /\ net' = "up" /\ toBroker' = <<[type |-> "CONNECT", topic |-> NoTopic]>>
    /\ toClient' = <<>> /\ subs' = {}
    /\ state' = "CONNECTING"
    /\ stack' = Append(stack, Call("connect", NoTopic, 0, 0))
    /\ mishaps' = mishaps \cap {"nested"}
    /\ UNCHANGED <<handlers, timers, bounds, acked>>

\* aws_iot_mqtt_connect, called by the program
Connect ==
    /\ stack = <<>> /\ state \in {"INITIALIZED", "DISCONNECTED_ERROR"}
    /\ Dial

\* Mutant: the interval stays as it is.
SameInterval(w) == w

NextInterval(w) == 2 * w

\* _aws_iot_mqtt_handle_reconnect after an attempt that failed
Backoff ==
    /\ wait' = NextInterval(wait)
    /\ delayTimer' = IF wait' > MaxWait THEN delayTimer ELSE "running"

\* _aws_iot_mqtt_internal_connect fails: no TLS connection, no CONNACK in time,
\* or a refusal.  In a reconnection the yield goes on and waits longer.
ConnectFails ==
    /\ InCall("connect")
    /\ NetworkDestroyed
    /\ stack' = GoTo(Below, "next")
    /\ IF Below = <<>>
       THEN state' = "DISCONNECTED_ERROR" /\ UNCHANGED <<wait, delayTimer>>
       ELSE state' = "PENDING_RECONNECT" /\ Backoff
    /\ UNCHANGED <<handlers, ping, pingTimer, bounds, acked, mishaps>>

-----------------------------------------------------------------------------
(* Subscriptions.                                                          *)

\* _aws_iot_mqtt_get_free_message_handler_index
FreeIndex ==
    CHOOSE i \in 0 .. NumHandlers :
        /\ i < NumHandlers => handlers[i] = NoTopic
        /\ \A j \in 0 .. i - 1 : handlers[j] # NoTopic

\* Mutant: the bound is off by one.
HandlerLeftOffByOne == FreeIndex <= NumHandlers

HandlerLeft == FreeIndex < NumHandlers

\* The operations are refused in any other state, be it inside a callback.
MayBegin ==
    /\ stack = <<>> \/ InCall("callback")
    /\ state \in {"IDLE", "WAIT_FOR_CB_RETURN"}
    /\ calls < MaxCalls /\ calls' = calls + 1

\* aws_iot_mqtt_subscribe up to the wait for SUBACK
Subscribe(t) ==
    /\ MayBegin /\ HandlerLeft
    /\ stack' = Append(stack, Call("subscribe", t, FreeIndex, 0))
    /\ state' = "SUBSCRIBE"
    /\ toBroker' = Sent([type |-> "SUBSCRIBE", topic |-> t])
    /\ mishaps' = IF \E i \in 1 .. Len(stack) : stack[i].op = "subscribe"
                  THEN mishaps \cup {"nested"} ELSE mishaps
    /\ UNCHANGED <<handlers, timers, net, toClient, subs, losses, messages, acked>>

\* aws_iot_mqtt_unsubscribe up to the wait for UNSUBACK
Unsubscribe(t) ==
    /\ MayBegin /\ stack = <<>> /\ t \in acked
    /\ stack' = Append(stack, Call("unsubscribe", t, 0, 0))
    /\ state' = "UNSUBSCRIBE"
    /\ toBroker' = Sent([type |-> "UNSUBSCRIBE", topic |-> t])
    /\ UNCHANGED <<handlers, timers, net, toClient, subs, losses, messages, acked, mishaps>>

\* Mutant: the way out of an error does not restore the state.
RequestFailsBusy ==
    /\ InCall("subscribe") \/ InCall("unsubscribe")
    /\ stack' = Below
    /\ mishaps' = mishaps \cup {"late"}
    /\ UNCHANGED <<state, handlers, timers, netVars, bounds, acked>>

\* No answer within the command timeout.  It may still come.
RequestFails ==
    /\ InCall("subscribe") \/ InCall("unsubscribe")
    /\ state' = SetClientState(IF Top.op = "subscribe" THEN "SUBSCRIBE" ELSE "UNSUBSCRIBE", Top.saved)
    /\ stack' = Below
    /\ mishaps' = IF net = "up" THEN mishaps \cup {"late"} ELSE mishaps
    /\ UNCHANGED <<handlers, timers, netVars, bounds, acked>>

-----------------------------------------------------------------------------
(* aws_iot_mqtt_internal_cycle_read: a packet is read.                     *)

Waiting == stack # <<>> /\ Top.op \in {"connect", "subscribe", "unsubscribe", "resubscribe"}
YieldReads == InCall("yield") /\ Top.pc \in {"first", "next"} /\ state # "PENDING_RECONNECT"
Reads(type) ==
    /\ Waiting \/ YieldReads
    /\ toClient # <<>> /\ Head(toClient).type = type /\ toClient' = Tail(toClient)

\* after a packet a yield goes on with the keep-alive, a waiting call reads on
Goes == IF Top.op = "yield" THEN GoTo(stack, "ping") ELSE stack

ReadPingResp ==
    /\ Reads("PINGRESP")
    /\ ping' = "no" /\ pingTimer' = "running"
    /\ stack' = Goes
    /\ UNCHANGED <<state, handlers, delayTimer, wait, net, toBroker, subs, bounds, acked, mishaps>>

\* _aws_iot_mqtt_internal_deliver_message calls every handler of the topic in turn
Matching(t, from) == {i \in Handlers : i >= from /\ handlers[i] = t}
Least(S) == CHOOSE i \in S : \A j \in S : i <= j

ReadPublish ==
    /\ Reads("PUBLISH")
    /\ LET t == Head(toClient).topic IN
       IF Matching(t, 0) = {}
       THEN stack' = Goes /\ UNCHANGED state
       ELSE /\ stack' = Append(Goes, Call("callback", t, Least(Matching(t, 0)), 0))
            /\ state' = "WAIT_FOR_CB_RETURN"
    /\ UNCHANGED <<handlers, timers, net, toBroker, subs, bounds, acked, mishaps>>

CallbackReturns ==
    /\ InCall("callback")
    /\ LET more == Matching(Top.topic, Top.idx + 1) IN
       IF more # {}
       THEN stack' = [stack EXCEPT ![Len(stack)].idx = Least(more)] /\ UNCHANGED state
       ELSE stack' = Below /\ state' = SetClientState("WAIT_FOR_CB_RETURN", Top.saved)
    /\ UNCHANGED <<handlers, timers, netVars, bounds, acked, mishaps>>

\* An acknowledgement that the innermost call does not wait for is dropped.
\* SUBACK and UNSUBACK are told apart, but not whom they answer.
Awaited == [connect |-> "CONNACK", subscribe |-> "SUBACK", unsubscribe |-> "UNSUBACK",
            resubscribe |-> "SUBACK", yield |-> "none"]
Acks == {"CONNACK", "SUBACK", "UNSUBACK"}

DropAck(type) ==
    /\ Reads(type) /\ Awaited[Top.op] # type
    /\ stack' = Goes
    /\ UNCHANGED <<state, handlers, timers, net, toBroker, subs, bounds, acked, mishaps>>

\* the handler goes where the table was free before the wait
SubscribeDone ==
    /\ InCall("subscribe") /\ Reads("SUBACK")
    /\ handlers' = [handlers EXCEPT ![Top.idx] = Top.topic]
    /\ acked' = acked \cup {Top.topic}
    /\ state' = SetClientState("SUBSCRIBE", Top.saved)
    /\ stack' = Below
    /\ UNCHANGED <<timers, net, toBroker, subs, bounds, mishaps>>

\* Mutant: only the entries up to the topic's are kept.
RemovedAndRest(t) ==
    [i \in Handlers |-> IF \E j \in 0 .. i : handlers[j] = t THEN NoTopic ELSE handlers[i]]

Removed(t) == [i \in Handlers |-> IF handlers[i] = t THEN NoTopic ELSE handlers[i]]

UnsubscribeDone ==
    /\ InCall("unsubscribe") /\ Reads("UNSUBACK")
    /\ handlers' = Removed(Top.topic)
    /\ acked' = acked \ {Top.topic}
    /\ state' = SetClientState("UNSUBSCRIBE", Top.saved)
    /\ stack' = Below
    /\ UNCHANGED <<timers, net, toBroker, subs, bounds, mishaps>>

\* Mutant: the last subscription is not renewed.
ExistingSubsButLast == IF FreeIndex = 0 THEN 0 ELSE FreeIndex - 1

\* The entries before the first free one are taken for all subscriptions.
ExistingSubs == FreeIndex

\* A CONNACK that accepts.  In a reconnection the subscriptions are renewed;
\* the yield in which it happens then goes on, in progress again.
ConnectDone ==
    /\ InCall("connect") /\ Reads("CONNACK")
    /\ ping' = "no" /\ pingTimer' = "running"
    /\ IF Below = <<>>
       THEN state' = "IDLE" /\ stack' = Below /\ UNCHANGED <<toBroker, mishaps>>
       ELSE /\ mishaps' = IF \E i \in Handlers : i > FreeIndex /\ handlers[i] # NoTopic
                          THEN mishaps \cup {"hole"} ELSE mishaps
            /\ IF ExistingSubs = 0
               THEN state' = "YIELD" /\ stack' = GoTo(Below, "next") /\ UNCHANGED toBroker
               ELSE /\ state' = "RESUBSCRIBE"
                    /\ stack' = Append(Below, Call("resubscribe", NoTopic, 0, ExistingSubs))
                    /\ toBroker' = Sent([type |-> "SUBSCRIBE", topic |-> handlers[0]])
    /\ UNCHANGED <<handlers, delayTimer, wait, net, subs, bounds, acked>>

ResubscribeDone ==
    /\ InCall("resubscribe") /\ Reads("SUBACK")
    /\ IF Top.idx + 1 < Top.count
       THEN /\ stack' = [stack EXCEPT ![Len(stack)].idx = @ + 1]
            /\ toBroker' = Sent([type |-> "SUBSCRIBE", topic |-> handlers[Top.idx + 1]])
            /\ UNCHANGED state
       ELSE /\ stack' = GoTo(Below, "next")
            /\ state' = "YIELD"
            /\ UNCHANGED toBroker
    /\ UNCHANGED <<handlers, timers, net, subs, bounds, acked, mishaps>>

\* A renewal is not answered in time or cannot be sent: the client stays
\* connected, the interval is doubled, and nobody tries again.
ResubscribeFails ==
    /\ InCall("resubscribe")
    /\ state' = SetClientState("RESUBSCRIBE", "IDLE")
    /\ stack' = GoTo(Below, "next")
    /\ Backoff
    /\ mishaps' = mishaps \cup {"deaf"}
    /\ UNCHANGED <<handlers, ping, pingTimer, netVars, bounds, acked>>

-----------------------------------------------------------------------------
(* aws_iot_mqtt_yield.                                                     *)

Yield ==
    /\ stack = <<>> /\ state \in {"IDLE", "PENDING_RECONNECT"}
    /\ state' = SetClientState("IDLE", "YIELD")
    /\ stack' = Append(stack, Call("yield", NoTopic, 0, 0))
    /\ UNCHANGED <<handlers, timers, netVars, bounds, acked, mishaps>>

YieldReturns ==
    /\ stack' = Below
    /\ state' = SetClientState("YIELD", "IDLE")
    /\ UNCHANGED <<handlers, timers, netVars, bounds, acked, mishaps>>

\* its time is up, which is looked at after a turn of the loop
YieldTimeIsUp == InCall("yield") /\ Top.pc = "next" /\ YieldReturns

\* the end of the stream reads as a timeout in the middle of a packet: an
\* error, at which the loop ends
YieldReadFails == YieldReads /\ toClient = <<>> /\ net = "eof" /\ YieldReturns

\* no more attempts
YieldGaveUp == InCall("yield") /\ Top.pc # "ping" /\ state = "PENDING_RECONNECT" /\ wait > MaxWait
               /\ YieldReturns

\* Nothing to read, which an error of the connection counts as too.
YieldReadsNothing ==
    /\ YieldReads /\ toClient = <<>> /\ net # "eof"
    /\ stack' = GoTo(stack, "ping")
    /\ UNCHANGED <<state, handlers, timers, netVars, bounds, acked, mishaps>>

\* _aws_iot_mqtt_keep_alive
KeepAliveNotYet ==
    /\ InCall("yield") /\ Top.pc = "ping" /\ pingTimer = "running"
    /\ stack' = GoTo(stack, "next")
    /\ UNCHANGED <<state, handlers, timers, netVars, bounds, acked, mishaps>>

\* Mutant: it is not noted that an answer to the ping is due.
SendPingUnnoted ==
    /\ InCall("yield") /\ Top.pc = "ping" /\ pingTimer = "expired" /\ ping = "no"
    /\ toBroker' = Sent([type |-> "PINGREQ", topic |-> NoTopic])
    /\ pingTimer' = "running"
    /\ stack' = GoTo(stack, "next")
    /\ UNCHANGED <<state, handlers, ping, delayTimer, wait, net, toClient, subs, bounds, acked, mishaps>>

SendPing ==
    /\ InCall("yield") /\ Top.pc = "ping" /\ pingTimer = "expired" /\ ping = "no"
    /\ toBroker' = Sent([type |-> "PINGREQ", topic |-> NoTopic])
    /\ ping' = "yes" /\ pingTimer' = "running"
    /\ stack' = GoTo(stack, "next")
    /\ UNCHANGED <<state, handlers, delayTimer, wait, net, toClient, subs, bounds, acked, mishaps>>

\* The ping was not answered or cannot be sent: _aws_iot_mqtt_handle_disconnect,
\* and the first attempt to reconnect is scheduled.
NoticeLoss ==
    /\ InCall("yield") /\ Top.pc = "ping" /\ pingTimer = "expired"
    /\ ping = "yes" \/ SendMayFail
    /\ NetworkDestroyed
    /\ state' = "PENDING_RECONNECT"
    /\ wait' = MinWait /\ delayTimer' = "running"
    /\ stack' = GoTo(stack, "next")
    /\ UNCHANGED <<handlers, ping, pingTimer, bounds, acked, mishaps>>

\* _aws_iot_mqtt_handle_reconnect
ReconnectNotYet ==
    /\ InCall("yield") /\ Top.pc = "first" /\ state = "PENDING_RECONNECT"
    /\ wait <= MaxWait /\ delayTimer = "running"
    /\ stack' = GoTo(stack, "next")
    /\ UNCHANGED <<state, handlers, timers, netVars, bounds, acked, mishaps>>

Reconnect ==
    /\ InCall("yield") /\ Top.pc # "ping" /\ state = "PENDING_RECONNECT"
    /\ wait <= MaxWait /\ delayTimer = "expired"
    /\ Dial

-----------------------------------------------------------------------------
(* Time, the broker and the network (external).                            *)

ExpirePingTimer ==
    /\ pingTimer = "running" /\ IsConnected /\ pingTimer' = "expired"
    /\ UNCHANGED <<state, handlers, stack, ping, delayTimer, wait, netVars, bounds, acked, mishaps>>

ExpireDelayTimer ==
    /\ delayTimer = "running" /\ state = "PENDING_RECONNECT" /\ delayTimer' = "expired"
    /\ UNCHANGED <<state, handlers, stack, ping, pingTimer, wait, netVars, bounds, acked, mishaps>>

Answer == [CONNECT |-> "CONNACK", SUBSCRIBE |-> "SUBACK", UNSUBSCRIBE |-> "UNSUBACK",
           PINGREQ |-> "PINGRESP"]

Broker ==
    /\ net = "up" /\ toBroker # <<>>
    /\ LET p == Head(toBroker) IN
       /\ subs' = IF p.type = "SUBSCRIBE" THEN subs \cup {p.topic}
                  ELSE IF p.type = "UNSUBSCRIBE" THEN subs \ {p.topic} ELSE subs
       /\ toClient' = Append(toClient, [type |-> Answer[p.type], topic |-> p.topic])
    /\ toBroker' = Tail(toBroker)
    /\ UNCHANGED <<state, handlers, stack, timers, net, bounds, acked, mishaps>>

Message(t) ==
    /\ net = "up" /\ t \in subs /\ messages < MaxMessages
    /\ messages' = messages + 1
    /\ toClient' = Append(toClient, [type |-> "PUBLISH", topic |-> t])
    /\ UNCHANGED <<state, handlers, stack, timers, net, toBroker, subs, losses, calls, acked, mishaps>>

Lose(how) ==
    /\ net = "up" /\ losses < MaxLosses
    /\ losses' = losses + 1
    /\ net' = how /\ toBroker' = <<>> /\ subs' = {}
    /\ toClient' = IF how = "reset" THEN <<>> ELSE toClient
    /\ UNCHANGED <<state, handlers, stack, timers, calls, messages, acked, mishaps>>

-----------------------------------------------------------------------------
Init ==
    /\ state = "INITIALIZED" /\ handlers = [i \in Handlers |-> NoTopic] /\ stack = <<>>
    /\ ping = "no" /\ pingTimer = "running" /\ delayTimer = "running" /\ wait = MinWait
    /\ net = "none" /\ toBroker = <<>> /\ toClient = <<>> /\ subs = {}
    /\ losses = 0 /\ calls = 0 /\ messages = 0
    /\ acked = {} /\ mishaps = {}

Reading ==
    \/ ReadPingResp \/ ReadPublish \/ SubscribeDone \/ UnsubscribeDone
    \/ ConnectDone \/ ResubscribeDone \/ (\E a \in Acks : DropAck(a))

\* the steps that a call under way takes by itself
CallStep ==
    \/ Reading \/ ConnectFails \/ RequestFails \/ ResubscribeFails \/ CallbackReturns
    \/ YieldTimeIsUp \/ YieldReadFails \/ YieldGaveUp \/ YieldReadsNothing
    \/ KeepAliveNotYet \/ SendPing \/ NoticeLoss \/ ReconnectNotYet \/ Reconnect

Next ==
    \/ Connect \/ Yield \/ CallStep
    \/ \E t \in Topics : Subscribe(t) \/ Unsubscribe(t) \/ Message(t)
    \/ ExpirePingTimer \/ ExpireDelayTimer \/ Broker \/ \E l \in Losses : Lose(l)

Spec == Init /\ [][Next]_vars

\* The program yields again and again (the loop of the yield thread), calls make
\* progress, and time passes.  Nothing is assumed of the broker.
Fairness == WF_vars(Yield) /\ WF_vars(CallStep) /\ WF_vars(ExpirePingTimer) /\ WF_vars(ExpireDelayTimer)

FairSpec == Spec /\ Fairness

-----------------------------------------------------------------------------
(* Properties                                                              *)

\* Type invariant of the client and of the packets.
TypeOK ==
    LET Packet == [type : {"CONNECT", "SUBSCRIBE", "UNSUBSCRIBE", "PINGREQ", "PUBLISH", "PINGRESP"}
                          \cup Acks, topic : Topics \cup {NoTopic}] IN
    /\ state \in States
    /\ handlers \in [Handlers -> Topics \cup {NoTopic}]
    /\ stack \in Seq([op : DOMAIN Awaited \cup {"callback"}, saved : States,
                      topic : Topics \cup {NoTopic}, idx : Handlers, count : 0 .. NumHandlers,
                      pc : {"first", "ping", "next"}])
    /\ ping \in {"yes", "no"} /\ pingTimer \in {"running", "expired"}
    /\ delayTimer \in {"running", "expired"} /\ wait \in Nat
    /\ net \in {"none", "up"} \cup Losses
    /\ toBroker \in Seq(Packet) /\ toClient \in Seq(Packet) /\ subs \subseteq Topics
    /\ losses \in 0 .. MaxLosses /\ calls \in 0 .. MaxCalls /\ messages \in 0 .. MaxMessages
    /\ acked \subseteq Topics
    /\ mishaps \subseteq {"late", "deaf", "hole", "nested"}

\* No call leaves the client in a state in which it refuses the next one,
\* although calls nest in callbacks, time out, and reconnect in the middle of a
\* yield: outside calls the client is idle or disconnected, inside it is in
\* the state of the innermost call.
StateFitsCalls ==
    IF stack = <<>> THEN state \in {"INITIALIZED", "DISCONNECTED_ERROR", "IDLE", "PENDING_RECONNECT"}
    ELSE \/ Top.op = "connect" /\ state = "CONNECTING"
         \/ Top.op = "subscribe" /\ state = "SUBSCRIBE"
         \/ Top.op = "unsubscribe" /\ state = "UNSUBSCRIBE"
         \/ Top.op = "resubscribe" /\ state = "RESUBSCRIBE"
         \/ Top.op = "callback" /\ state = "WAIT_FOR_CB_RETURN"
         \/ Top.op = "yield" /\ state \in {"YIELD", "PENDING_RECONNECT"}
         \/ Top.op = "yield" /\ state = "IDLE" /\ "deaf" \in mishaps

\* A topic with a handler is subscribed at the broker as long as the connection
\* stands, across losses and reconnections: "Called to resubscribe to the topics
\* that the client has active subscriptions on"
\* (aws_iot_mqtt_client_interface.h).  Not so if a renewal failed, if the table
\* had a hole, or if the answer to another call may have been taken for the
\* answer to this one.
HandlersSubscribed ==
    (IsConnected /\ net = "up" /\ mishaps = {}
       /\ ~\E i \in 1 .. Len(stack) : stack[i].op \in {"resubscribe", "unsubscribe"})
    => \A i \in Handlers : handlers[i] # NoTopic => handlers[i] \in subs

\* A subscription that succeeded keeps its handler until it is cancelled,
\* unless it was made inside another: then both had the same free entry in mind.
HandlerKept ==
    "nested" \notin mishaps => \A t \in acked : \E i \in Handlers : handlers[i] = t

\* A connection that is reset or falls silent is noticed, whatever the broker does.
LossNoticed == IsConnected /\ net \in {"reset", "silent"} ~> ~IsConnected

\* So is one that the peer closes: the pings are there "to monitor the health of
\* the TCP connection" (aws_iot_mqtt_client_yield.c), and an end of the stream
\* "Will be caught in ping request so ignored here"
\* (network_mbedtls_wrapper.c).
CloseNoticed == IsConnected /\ net = "eof" ~> ~IsConnected

\* A reconnection succeeds or is given up: the client does not try for ever.
ReconnectEnds == state = "PENDING_RECONNECT" ~> IsConnected \/ wait > MaxWait
=============================================================================
