---------------------------- MODULE J2534Session ----------------------------
(***************************************************************************)
(* A J2534 session over the AWS IoT device shadow.  A tester's process      *)
(* loads the J2534 library (j2534.c), which turns an API call into an      *)
(* update of the shadow's desired state and waits until the shadow's       *)
(* reported state shows it.  The shadow service tells the daemon what is   *)
(* desired and not reported (a delta); the daemon's router and J2534       *)
(* handler (passthru_shadow_router.c, passthru_shadow_j2534_handler.c)     *)
(* carry it out and report.                                                *)
(*                                                                         *)
(* MQTT runs at QoS 0: the service keeps the order of the messages of one  *)
(* connection, and may lose any of them.  Lost messages, failed requests    *)
(* and processes that are stopped are faults; their number is bounded by   *)
(* MaxFaults.                                                              *)
(***************************************************************************)
EXTENDS Naturals, Sequences

CONSTANTS Testers,      \* processes that use the library
          Devices,      \* the device ids they pass to PassThruOpen
          MaxCalls,     \* bound on the API calls of each tester
          MaxFaults,    \* bound on the faults
          Patient,      \* is giving up on an answer that is on its way a fault?
          MaxQueue,     \* messages the service keeps for one subscriber
          MaxLogs,      \* bound on the log requests that arrive during the session
          IfaceOption   \* was the daemon started with -i <interface>?

ASSUME SessionAssumption ==
    /\ Devices # {}
    /\ MaxCalls \in Nat /\ MaxFaults \in Nat /\ MaxQueue \in Nat \ {0}
    /\ IfaceOption \in BOOLEAN /\ MaxLogs \in Nat /\ Patient \in BOOLEAN

\* J2534_PassThru*, the values of j2534.state that the daemon knows
Ops == {"Open", "Close", "Connect", "Disconnect", "Select", "StartMsgFilter"}
NULL == "NULL"
States == Ops \cup {NULL}

VARIABLES
    \* the library, in each tester's process
    opened,       \* j2534_opened
    client,       \* client[t][d]: in j2534_client_vector, "freed" by PassThruClose
    cstate,       \* client->state
    chan,         \* has PassThruConnect set client->channelId?
    filter,       \* the width of the identifier in client->filters, if any
    inbox,        \* inbox[t][d]: j2534.state of the updates that wait to be read
    link,         \* the client's connection and its subscriptions
    selected,     \* is the device's client, or a freed one, in j2534_selected_channels?
    pc, op, dev,  \* where the tester is, in which call, on which device
    result,       \* what the last call returned
    calls,        \* number of calls made
    \* the shadow service and the messages in transit
    desired,      \* desired.j2534
    reported,     \* reported.j2534.state
    logs,         \* number of log requests made
    logging,      \* does desired.log differ from reported.log?
    deltas,       \* deltas on their way to the daemon
    reports,      \* updates on their way from the daemon
    \* the daemon
    daemon,       \* "up" or "down"
    clients,      \* thing->j2534->clients
    iface,        \* thing->params->iface: "none", "set" or "freed"
    died,         \* (history) has the daemon died since tester t's call began?
    crashed,      \* (history) has the daemon ever died?
    faults

dllVars     == <<opened, client, cstate, chan, filter, inbox, link, selected>>
callVars    == <<pc, op, dev, result, calls>>
serviceVars == <<desired, reported, logs, logging, deltas, reports>>
daemonVars  == <<daemon, clients, iface>>
historyVars == <<died, crashed>>
vars == <<dllVars, callVars, serviceVars, daemonVars, historyVars, faults>>

Fault == faults < MaxFaults /\ faults' = faults + 1

\* to the accepted updates; "both" is with the error topic, on which nobody
\* ever publishes.  What comes between the request to unsubscribe and the end
\* of the wait is read during the wait.
Subscribed(t, d) == /\ link[t][d] \in {"accepted", "both"}
                    /\ ~(pc[t] = "unsubscribe" /\ dev[t] = d)

\* passthru_shadow_j2534_handler_get_client: a client freed but still in the
\* vector matches as long as its memory has not been used again.
Known(d) == {i \in 1..Len(clients) : clients[i].dev = d}
Index(d) == CHOOSE i \in Known(d) : \A j \in Known(d) : i <= j
CanbusOf(d) == IF Known(d) = {} THEN "unknown" ELSE clients[Index(d)].canbus

-----------------------------------------------------------------------------
(* The shadow service (external).                                          *)

\* the delta it publishes for what is desired and not reported; the device
\* id and the filters are never reported, so there always is one
Delta(want, have, log) ==
    [dev |-> want.dev, st |-> IF want.st = have THEN NULL ELSE want.st, log |-> log]

\* The daemon is subscribed while it is up.  A delta with neither a log nor a
\* j2534 state is one for which the router has no handler.
Offer(q, m) ==
    IF daemon = "up" /\ (m.st # NULL \/ m.log) /\ Len(q) < MaxQueue
    THEN Append(q, m) ELSE q

\* An update of the desired state, by the library or by a log request.
Desire(want, log) ==
    /\ desired' = want /\ logging' = log
    /\ deltas' = Offer(deltas, Delta(want, reported, log))
    /\ UNCHANGED <<reported, reports>>

\* An update that the daemon reports.  A document that is not JSON is
\* rejected; the others reach every subscriber.
ServeReport ==
    /\ reports # <<>>
    /\ LET r == Head(reports) IN
         /\ reports' = Tail(reports)
         /\ IF ~r.json
            THEN UNCHANGED <<reported, logging, deltas, inbox>>
            ELSE /\ reported' = IF r.kind = "j2534" THEN r.st ELSE reported
                 /\ logging'  = (logging /\ r.kind # "log")
                 /\ deltas'   = Offer(deltas, Delta(desired, reported', logging'))
                 /\ inbox'    = [t \in Testers |-> [d \in Devices |->
                      IF r.kind = "j2534" /\ Subscribed(t, d) /\ Len(inbox[t][d]) < MaxQueue
                      THEN Append(inbox[t][d], r.st) ELSE inbox[t][d]]]
    /\ UNCHANGED <<opened, client, cstate, chan, filter, link, selected, callVars,
                   desired, logs, daemonVars, historyVars, faults>>

\* Any message may be lost.
LoseDelta ==
    /\ deltas # <<>> /\ Fault
    /\ deltas' = Tail(deltas)
    /\ UNCHANGED <<dllVars, callVars, desired, reported, logs, logging, reports, daemonVars, historyVars>>

LoseReport ==
    /\ reports # <<>> /\ Fault
    /\ reports' = Tail(reports)
    /\ UNCHANGED <<dllVars, callVars, desired, reported, logs, logging, deltas, daemonVars, historyVars>>

LoseUpdate(t, d) ==
    /\ inbox[t][d] # <<>> /\ Fault
    /\ inbox' = [inbox EXCEPT ![t][d] = Tail(@)]
    /\ UNCHANGED <<opened, client, cstate, chan, filter, link, selected, callVars,
                   serviceVars, daemonVars, historyVars>>

\* Somebody asks for a log (the command line tool, another client).
RequestLog ==
    /\ logs < MaxLogs /\ ~logging
    /\ logs' = logs + 1
    /\ Desire(desired, TRUE)
    /\ UNCHANGED <<dllVars, callVars, daemonVars, historyVars, faults>>

-----------------------------------------------------------------------------
(* The library: how a call begins and ends.                                *)

\* A return also notes, for the properties, how the daemon then stands to
\* the device.
Return(t, rc) ==
    /\ pc' = [pc EXCEPT ![t] = "idle"]
    /\ result' = [result EXCEPT ![t] =
                    [op |-> op[t], dev |-> dev[t], rc |-> rc,
                     died |-> died[t], canbus |-> CanbusOf(dev[t])]]
    /\ UNCHANGED <<op, dev, calls>>

\* a call that returns at once, and one that goes on at program point p
Begins(t, o, d) ==
    /\ pc[t] = "idle" /\ calls[t] < MaxCalls
    /\ calls' = [calls EXCEPT ![t] = @ + 1]
    /\ op' = [op EXCEPT ![t] = o] /\ dev' = [dev EXCEPT ![t] = d]
    /\ died' = [died EXCEPT ![t] = FALSE] /\ UNCHANGED crashed

ReturnsAtOnce(t, o, d, rc) ==
    /\ pc' = pc
    /\ result' = [result EXCEPT ![t] = 
                    [op |-> o, dev |-> d, rc |-> rc, died |-> FALSE,
                     canbus |-> CanbusOf(d)]]

GoesOn(t, p) == pc' = [pc EXCEPT ![t] = p] /\ result' = result

\* The process dies on an invalid pointer.
Dies(t) == pc' = [pc EXCEPT ![t] = "dead"] /\ result' = result

\* j2534_client_by_device_id: a client that PassThruClose freed is still in
\* the vector, and its device id is whatever the memory now holds
Finds(t, d)  == client[t][d] \in {"live", "freed"}
Misses(t, d) == client[t][d] \in {"none", "freed"}

\* j2534_client_by_channel_id, of a channel that PassThruConnect set up
FindsChannel(t, d) == client[t][d] = "live" /\ chan[t][d]

\* The checks of the arguments alone, whichever of them it is that fails
Refuses(t, o, d) == ReturnsAtOnce(t, o, d, "ERR_ARGUMENT")

\* PassThruOpen: its checks, and the new client, which is in the vector
\* before it is connected.
OpenCall(t, d) ==
    /\ Begins(t, "Open", d)
    /\ \/ /\ Finds(t, d)
          /\ ReturnsAtOnce(t, "Open", d, "ERR_DEVICE_IN_USE")
          /\ UNCHANGED <<client, cstate, chan, filter, link, inbox>>
       \/ /\ Misses(t, d)
          /\ client' = [client EXCEPT ![t][d] = "live"]
          /\ cstate' = [cstate EXCEPT ![t][d] = NULL]
          /\ chan'   = [chan EXCEPT ![t][d] = FALSE]
          /\ filter' = [filter EXCEPT ![t][d] = "none"]
          /\ link'   = [link EXCEPT ![t][d] = "none"]
          /\ inbox'  = [inbox EXCEPT ![t][d] = <<>>]
          /\ GoesOn(t, "connect")
    /\ UNCHANGED <<opened, selected, serviceVars, daemonVars, faults>>

\* awsiot_client_connect and the subscription to the accepted updates
OpenConnect(t) ==
    /\ pc[t] = "connect"
    /\ \/ /\ link' = [link EXCEPT ![t][dev[t]] = "accepted"]
          /\ GoesOn(t, "subscribe")
          /\ UNCHANGED <<op, dev, calls, faults>>
       \/ /\ \E l \in {"none", "connected"} : link' = [link EXCEPT ![t][dev[t]] = l]
          /\ Fault /\ Return(t, "ERR_DEVICE_NOT_CONNECTED")
    /\ UNCHANGED <<opened, client, cstate, chan, filter, inbox, selected, serviceVars,
                   daemonVars, historyVars>>

\* the subscription to the error topic
OpenSubscribe(t) ==
    /\ pc[t] = "subscribe"
    /\ \/ /\ link' = [link EXCEPT ![t][dev[t]] = "both"]
          /\ GoesOn(t, "publish") /\ UNCHANGED <<op, dev, calls, faults>>
       \/ Fault /\ Return(t, "ERR_DEVICE_NOT_CONNECTED") /\ UNCHANGED link
    /\ UNCHANGED <<opened, client, cstate, chan, filter, inbox, selected, serviceVars,
                   daemonVars, historyVars>>

\* PassThruClose and PassThruConnect: their checks.
CloseCall(t, d) ==
    /\ Begins(t, "Close", d)
    /\ \/ ~opened[t] /\ ReturnsAtOnce(t, "Close", d, "ERR_DEVICE_NOT_OPEN")
       \/ opened[t] /\ Misses(t, d) /\ ReturnsAtOnce(t, "Close", d, "ERR_INVALID_DEVICE_ID")
       \/ opened[t] /\ client[t][d] = "live" /\ GoesOn(t, "publish")
       \/ opened[t] /\ client[t][d] = "freed" /\ Dies(t)
    /\ UNCHANGED <<dllVars, serviceVars, daemonVars, faults>>

ConnectCall(t, d) ==
    /\ Begins(t, "Connect", d)
    /\ \/ Refuses(t, "Connect", d) /\ UNCHANGED chan
       \/ ~opened[t] /\ ReturnsAtOnce(t, "Connect", d, "ERR_DEVICE_NOT_OPEN") /\ UNCHANGED chan
       \/ opened[t] /\ Misses(t, d) /\ ReturnsAtOnce(t, "Connect", d, "ERR_INVALID_DEVICE_ID")
                    /\ UNCHANGED chan
       \/ /\ opened[t] /\ client[t][d] = "live"
          /\ chan' = [chan EXCEPT ![t][d] = TRUE] /\ GoesOn(t, "publish")
       \/ opened[t] /\ client[t][d] = "freed" /\ Dies(t) /\ UNCHANGED chan
    /\ UNCHANGED <<opened, client, cstate, filter, inbox, link, selected, serviceVars,
                   daemonVars, faults>>

\* PassThruDisconnect.  For a channel it does not know
\* j2534_client_by_channel_id ends without a return statement.
DisconnectCall(t, d) ==
    /\ Begins(t, "Disconnect", d)
    /\ \/ ~opened[t] /\ ReturnsAtOnce(t, "Disconnect", d, "ERR_DEVICE_NOT_OPEN")
       \/ opened[t] /\ FindsChannel(t, d) /\ GoesOn(t, "publish")
       \/ opened[t] /\ ~FindsChannel(t, d)
          /\ (Dies(t) \/ ReturnsAtOnce(t, "Disconnect", d, "ERR_INVALID_CHANNEL_ID"))
    /\ UNCHANGED <<dllVars, serviceVars, daemonVars, faults>>

\* PassThruSelect on one channel; it does not ask whether a device is open,
\* and what it adds to the selected channels stays there.
SelectCall(t, d) ==
    /\ Begins(t, "Select", d)
    /\ \/ Refuses(t, "Select", d) /\ UNCHANGED selected
       \/ /\ FindsChannel(t, d) /\ GoesOn(t, "publish")
          /\ selected' = [selected EXCEPT ![t][d] = IF @ = "no" THEN "live" ELSE @]
       \/ ~FindsChannel(t, d)
          /\ (Dies(t) \/ ReturnsAtOnce(t, "Select", d, "ERR_INVALID_CHANNEL_ID"))
          /\ UNCHANGED selected
    /\ UNCHANGED <<opened, client, cstate, chan, filter, inbox, link, serviceVars,
                   daemonVars, faults>>

\* PassThruStartMsgFilter with an 11-bit or a 29-bit identifier.  The limit
\* is compared with the vector's capacity, which is 10 after the first filter.
StartMsgFilterCall(t, d) ==
    /\ Begins(t, "StartMsgFilter", d)
    /\ \/ Refuses(t, "StartMsgFilter", d) /\ UNCHANGED filter
       \/ ~opened[t] /\ ReturnsAtOnce(t, "StartMsgFilter", d, "ERR_DEVICE_NOT_OPEN") /\ UNCHANGED filter
       \/ opened[t] /\ ~FindsChannel(t, d)
          /\ (Dies(t) \/ ReturnsAtOnce(t, "StartMsgFilter", d, "ERR_INVALID_DEVICE_ID"))
          /\ UNCHANGED filter
       \/ opened[t] /\ FindsChannel(t, d) /\ filter[t][d] # "none"
          /\ ReturnsAtOnce(t, "StartMsgFilter", d, "ERR_EXCEEDED_LIMIT") /\ UNCHANGED filter
       \/ /\ opened[t] /\ FindsChannel(t, d) /\ filter[t][d] = "none"
          /\ \E w \in {"11bit", "29bit"} : filter' = [filter EXCEPT ![t][d] = w]
          /\ GoesOn(t, "publish")
    /\ UNCHANGED <<opened, client, cstate, chan, inbox, link, selected, serviceVars,
                   daemonVars, faults>>

-----------------------------------------------------------------------------
(* The library: j2534_publish_state, and what follows it.                  *)

\* PassThruClose publishes twice; everybody else's answer is the end.
Answered(t, rc) ==
    IF op[t] = "Close" THEN GoesOn(t, "unsubscribe") /\ UNCHANGED <<op, dev, calls>>
    ELSE Return(t, rc)

\* What PassThruSelect returns once the daemon has answered: nothing is ever
\* put in a receive queue, so a threshold of 0 is met and no other.
Answers(t) == IF op[t] = "Select" THEN {"STATUS_NOERROR", "ERR_BUFFER_EMPTY"}
              ELSE {"STATUS_NOERROR"}

\* The document is built in a buffer of 27 bytes per filter: one with 29-bit
\* identifiers is cut off, and the service rejects it.
WellFormed(t) == filter[t][dev[t]] # "29bit"

\* A client whose connection failed stays in the vector.
Online(t) == link[t][dev[t]] # "none"

Publish(t) ==
    /\ pc[t] = "publish"
    /\ \/ /\ Online(t)
          /\ IF WellFormed(t)
             THEN Desire([dev |-> dev[t], st |-> op[t]], logging) /\ UNCHANGED logs
             ELSE UNCHANGED serviceVars
          /\ GoesOn(t, "wait") /\ UNCHANGED <<op, dev, calls, faults>>
       \/ /\ Online(t) /\ Fault                                          \* lost
          /\ GoesOn(t, "wait") /\ UNCHANGED <<op, dev, calls, serviceVars>>
       \/ /\ IF Online(t) THEN Fault ELSE UNCHANGED faults               \* failed
          /\ Answered(t, "ERR_DEVICE_NOT_CONNECTED")
          /\ UNCHANGED serviceVars
    /\ UNCHANGED <<dllVars, daemonVars, historyVars>>

\* j2534_onmessage, called while the client's connection is read: in
\* aws_iot_mqtt_yield, and while a subscription is acknowledged.  An error is
\* reported as a string, of which the parser makes the integer 0.
Receive(t) ==
    LET d == dev[t]  st == Head(inbox[t][d]) IN
    /\ pc[t] \in {"subscribe", "wait", "unsubscribe"}
    /\ inbox[t][d] # <<>>
    /\ inbox'  = [inbox EXCEPT ![t][d] = Tail(@)]
    /\ cstate' = [cstate EXCEPT ![t][d] = st]
    /\ opened' = [opened EXCEPT ![t] = IF st = "Open" THEN TRUE
                                       ELSE IF st = "Close" THEN FALSE ELSE @]
    /\ UNCHANGED <<client, chan, filter, link, selected, callVars, serviceVars,
                   daemonVars, historyVars, faults>>

\* the loop of j2534_publish_state sees the state it waits for
Acked(t) ==
    /\ pc[t] = "wait" /\ cstate[t][dev[t]] = op[t]
    /\ \/ \E rc \in Answers(t) : Answered(t, rc)
       \/ /\ op[t] = "Select" /\ \E d \in Devices : selected[t][d] = "freed"
          /\ Dies(t) /\ UNCHANGED <<op, dev, calls>>
    /\ UNCHANGED <<dllVars, serviceVars, daemonVars, historyVars, faults>>

\* Nothing that t waits for is on its way.
Silent(t) == deltas = <<>> /\ reports = <<>> /\ inbox[t][dev[t]] = <<>>

\* After 50 reads the library gives up; too early, if an answer is on its way.
Timeout(t) ==
    /\ pc[t] = "wait" /\ cstate[t][dev[t]] # op[t]
    /\ IF Silent(t) \/ ~Patient THEN UNCHANGED faults ELSE Fault
    /\ Answered(t, "ERR_DEVICE_NOT_CONNECTED")
    /\ UNCHANGED <<dllVars, serviceVars, daemonVars, historyVars>>

\* PassThruClose unsubscribes from both topics; the messages before the
\* acknowledgement are read, later ones are not sent.  A topic the client is
\* not subscribed to cannot be unsubscribed from.
Unsubscribe(t) ==
    LET d == dev[t] IN
    /\ pc[t] = "unsubscribe"
    /\ \/ /\ link[t][d] = "both" /\ inbox[t][d] = <<>>
          /\ link' = [link EXCEPT ![t][d] = "connected"]
          /\ GoesOn(t, "publish2") /\ UNCHANGED <<op, dev, calls, faults>>
       \/ /\ IF link[t][d] = "both" THEN Fault ELSE UNCHANGED faults
          /\ \/ UNCHANGED link
             \/ /\ link[t][d] \in {"accepted", "both"} /\ inbox[t][d] = <<>>
                /\ link' = [link EXCEPT ![t][d] = "connected"]
          /\ Return(t, "ERR_DEVICE_NOT_CONNECTED")
    /\ UNCHANGED <<opened, client, cstate, chan, filter, inbox, selected, serviceVars,
                   daemonVars, historyVars>>

\* The second j2534_publish_state: no message can arrive any more, so the
\* answer is already decided.  The client is freed and stays in the vector.
PublishClose(t) ==
    LET d == dev[t]  acked == cstate[t][d] = "Close" IN
    /\ pc[t] = "publish2"
    /\ client' = [client EXCEPT ![t][d] = "freed"]
    /\ selected' = [selected EXCEPT ![t][d] = IF @ = "live" THEN "freed" ELSE @]
    /\ \/ /\ IF WellFormed(t)
             THEN Desire([dev |-> d, st |-> "Close"], logging) /\ UNCHANGED logs
             ELSE UNCHANGED serviceVars
          /\ Return(t, IF acked THEN "STATUS_NOERROR" ELSE "ERR_DEVICE_NOT_CONNECTED")
          /\ UNCHANGED faults
       \/ Fault /\ UNCHANGED serviceVars
          /\ Return(t, IF acked THEN "STATUS_NOERROR" ELSE "ERR_DEVICE_NOT_CONNECTED")
       \/ Fault /\ UNCHANGED serviceVars /\ Return(t, "ERR_DEVICE_NOT_CONNECTED")
    /\ UNCHANGED <<opened, cstate, chan, filter, inbox, link, daemonVars, historyVars>>

\* A tester's process ends, or died, and is started again.
Restart(t) ==
    /\ pc[t] = "dead" \/ Fault
    /\ pc[t] = "dead" => UNCHANGED faults
    /\ pc' = [pc EXCEPT ![t] = "idle"]
    /\ opened' = [opened EXCEPT ![t] = FALSE]
    /\ client' = [client EXCEPT ![t] = [d \in Devices |-> "none"]]
    /\ cstate' = [cstate EXCEPT ![t] = [d \in Devices |-> NULL]]
    /\ chan'   = [chan EXCEPT ![t] = [d \in Devices |-> FALSE]]
    /\ filter' = [filter EXCEPT ![t] = [d \in Devices |-> "none"]]
    /\ inbox'  = [inbox EXCEPT ![t] = [d \in Devices |-> <<>>]]
    /\ link'   = [link EXCEPT ![t] = [d \in Devices |-> "none"]]
    /\ selected' = [selected EXCEPT ![t] = [d \in Devices |-> "no"]]
    /\ UNCHANGED <<op, dev, result, calls, serviceVars, daemonVars, historyVars>>

-----------------------------------------------------------------------------
(* The daemon: router, J2534 handler, and its restart.                     *)

\* A report of the J2534 handler.  An error code of two hexadecimal digits
\* does not fit the buffer, and what is sent is not JSON.
Report(st)        == [kind |-> "j2534", st |-> st, json |-> TRUE]
ErrorReport(st, twoDigits) == [kind |-> "j2534", st |-> st, json |-> ~twoDigits]
Send(r) == reports' = Append(reports, r)

\* vector_delete of any element shortens the vector by its last one
DeleteClient(cs, i) == SubSeq([cs EXCEPT ![i].mem = "freed"], 1, Len(cs) - 1)

\* The daemon dies, and its memory with it.
Crash == daemon' = "down" /\ clients' = <<>> /\ UNCHANGED <<iface, reports>>

\* Mutants: the device is reported open although the client was not added, and
\* a device in use is opened again.
DesiredOpenNotAdded(d) ==
    \/ Known(d) # {} /\ Send(ErrorReport("Open", FALSE)) /\ UNCHANGED daemonVars
    \/ Known(d) = {} /\ Send(Report("Open")) /\ UNCHANGED daemonVars

DesiredOpenUnchecked(d) ==
    /\ clients' = Append(clients, [dev |-> d, mem |-> "live", canbus |-> "unset"])
    /\ Send(Report("Open"))
    /\ UNCHANGED <<daemon, iface>>

\* desired_open reads the new client's name, which nothing has set: the
\* daemon dies, or goes on with lengths that do not matter.
DesiredOpen(d) ==
    \/ /\ Known(d) # {}
       /\ Send(ErrorReport("Open", FALSE))                \* ERR_DEVICE_IN_USE
       /\ UNCHANGED daemonVars
    \/ /\ Known(d) = {}
       /\ clients' = Append(clients, [dev |-> d, mem |-> "live", canbus |-> "unset"])
       /\ Send(Report("Open"))
       /\ UNCHANGED <<daemon, iface>>
    \/ Known(d) = {} /\ Crash

\* Mutant: the client is not deleted.
DesiredCloseKeeps(d) ==
    \/ Known(d) = {} /\ Send(ErrorReport("Connect", TRUE)) /\ UNCHANGED daemonVars
    \/ Known(d) # {} /\ Send(Report("Close")) /\ UNCHANGED daemonVars

\* desired_close prints the id of a client it does not know as a string,
\* which kills the daemon unless the id is 0; and it frees client->name.
DesiredClose(d) ==
    \/ /\ Known(d) = {}
       /\ Send(ErrorReport("Connect", TRUE))              \* ERR_INVALID_DEVICE_ID
       /\ UNCHANGED daemonVars
    \/ /\ Known(d) # {}
       /\ clients' = DeleteClient(clients, Index(d))
       /\ Send(Report("Close"))
       /\ UNCHANGED <<daemon, iface>>
    \/ Crash
    \/ /\ Known(d) # {}                                   \* after the report
       /\ Send(Report("Close"))
       /\ daemon' = "down" /\ clients' = <<>> /\ UNCHANGED iface

\* desired_connect dereferences the client unchecked.  When the MQTT
\* connection fails it reports an error, when the CAN socket fails nothing.
DesiredConnect(d) ==
    \/ Known(d) = {} /\ Crash
    \/ /\ Known(d) # {}
       /\ clients' = [clients EXCEPT ![Index(d)].canbus = "connected"]
       /\ Send(Report("Connect"))
       /\ UNCHANGED <<daemon, iface>>
    \/ /\ Known(d) # {}
       /\ Send(ErrorReport("Connect", FALSE))             \* ERR_DEVICE_NOT_CONNECTED
       /\ UNCHANGED daemonVars
    \/ /\ Known(d) # {}
       /\ clients' = [clients EXCEPT ![Index(d)].canbus = "failed"]
       /\ UNCHANGED <<daemon, iface, reports>>

\* Mutants: the socket is not closed, and client->canbus is left dangling.
DesiredDisconnectStaysOpen(d) ==
    \/ Known(d) = {} /\ Send(ErrorReport("Open", FALSE)) /\ UNCHANGED daemonVars
    \/ Known(d) # {} /\ Send(Report("Disconnect")) /\ UNCHANGED daemonVars

DesiredDisconnectDangling(d) ==
    /\ Known(d) # {} /\ clients[Index(d)].canbus = "connected"
    /\ clients' = [clients EXCEPT ![Index(d)].canbus = "dangling"]
    /\ Send(Report("Disconnect"))
    /\ UNCHANGED <<daemon, iface>>

\* desired_disconnect closes client->canbus, whatever it is, and canbus_free
\* frees the interface name, which belongs to the daemon's parameters.
DesiredDisconnect(d) ==
    \/ /\ Known(d) = {}
       /\ Send(ErrorReport("Open", FALSE))                \* ERR_DEVICE_NOT_CONNECTED
       /\ UNCHANGED daemonVars
    \/ /\ Known(d) # {} /\ clients[Index(d)].canbus \in {"connected", "failed"}
       /\ clients' = [clients EXCEPT ![Index(d)].canbus = "null"]
       /\ iface' = IF iface = "set" THEN "freed" ELSE iface
       /\ Send(Report("Disconnect"))
       /\ UNCHANGED daemon
    \/ /\ Known(d) # {}
       /\ clients[Index(d)].canbus \in {"unset", "null"} \/ iface = "freed"
       /\ Crash

\* desired_select prints the id of an unknown client as a string, too.
DesiredSelect(d) ==
    \/ Known(d) = {} /\ (Crash \/ (Send(ErrorReport("Select", FALSE)) /\ UNCHANGED daemonVars))
    \/ Known(d) # {} /\ Send(Report("Select")) /\ UNCHANGED daemonVars

\* Mutant: an unknown client is reported under the state that was desired.
DesiredStartMsgFilterEcho(d) ==
    /\ Send(Report("StartMsgFilter"))
    /\ UNCHANGED daemonVars

\* desired_startMsgFilter hands the filters, if any, to the client's socket.
DesiredStartMsgFilter(d) ==
    \/ /\ Known(d) = {}
       /\ Send(ErrorReport("Select", FALSE))              \* ERR_DEVICE_NOT_CONNECTED
       /\ UNCHANGED daemonVars
    \/ /\ Known(d) # {} /\ clients[Index(d)].canbus \in {"connected", "failed"}
       /\ Send(Report("StartMsgFilter"))
       /\ UNCHANGED daemonVars
    \/ /\ Known(d) # {} /\ clients[Index(d)].canbus \in {"unset", "null"}
       /\ Crash

\* passthru_shadow_j2534_handler_handle_desired_state.  A delta carries no
\* error, so its first test never returns.
HandleJ2534(m) ==
    \/ m.st = "Open" /\ DesiredOpen(m.dev)
    \/ m.st = "Close" /\ DesiredClose(m.dev)
    \/ m.st = "Connect" /\ DesiredConnect(m.dev)
    \/ m.st = "Disconnect" /\ DesiredDisconnect(m.dev)
    \/ m.st = "Select" /\ DesiredSelect(m.dev)
    \/ m.st = "StartMsgFilter" /\ DesiredStartMsgFilter(m.dev)

\* passthru_shadow_log_handler_handle reports the request, or aborts.
HandleLog ==
    /\ Send([kind |-> "log", st |-> NULL, json |-> TRUE]) \/ UNCHANGED reports
    /\ UNCHANGED daemonVars

\* passthru_shadow_router_route_delta: a log comes first, and is all.  A
\* client in freed memory may also kill the daemon.
RouteDelta ==
    /\ daemon = "up" /\ deltas # <<>>
    /\ LET m == Head(deltas) IN
         \/ m.log /\ HandleLog
         \/ ~m.log /\ HandleJ2534(m)
         \/ ~m.log /\ (\E i \in 1..Len(clients) : clients[i].mem = "freed") /\ Crash
    /\ deltas' = IF daemon' = "down" THEN <<>> ELSE Tail(deltas)
    /\ died' = [t \in Testers |-> died[t] \/ daemon' = "down"]
    /\ crashed' = (crashed \/ daemon' = "down")
    /\ UNCHANGED <<dllVars, callVars, desired, reported, logs, logging, faults>>

\* The daemon is stopped or dies; what it has sent is on its way.
DaemonStop ==
    /\ daemon = "up" /\ Fault
    /\ daemon' = "down" /\ clients' = <<>> /\ deltas' = <<>>
    /\ died' = [t \in Testers |-> TRUE] /\ crashed' = TRUE
    /\ UNCHANGED <<dllVars, callVars, desired, reported, logs, logging, reports, iface>>

\* passthru_thing_run: the connection report makes the service compute a delta.
DaemonStart ==
    /\ daemon = "down"
    /\ daemon' = "up"
    /\ iface' = IF IfaceOption THEN "set" ELSE "none"
    /\ Send([kind |-> "connection", st |-> NULL, json |-> TRUE])
    /\ UNCHANGED <<dllVars, callVars, desired, reported, logs, logging, deltas, clients, historyVars, faults>>

-----------------------------------------------------------------------------
Init ==
    /\ opened = [t \in Testers |-> FALSE]
    /\ client = [t \in Testers |-> [d \in Devices |-> "none"]]
    /\ cstate = [t \in Testers |-> [d \in Devices |-> NULL]]
    /\ chan   = [t \in Testers |-> [d \in Devices |-> FALSE]]
    /\ filter = [t \in Testers |-> [d \in Devices |-> "none"]]
    /\ inbox  = [t \in Testers |-> [d \in Devices |-> <<>>]]
    /\ link   = [t \in Testers |-> [d \in Devices |-> "none"]]
    /\ selected = [t \in Testers |-> [d \in Devices |-> "no"]]
    /\ pc  = [t \in Testers |-> "idle"]
    /\ op  = [t \in Testers |-> NULL]
    /\ dev = [t \in Testers |-> CHOOSE d \in Devices : TRUE]
    /\ result = [t \in Testers |-> [op |-> NULL, dev |-> CHOOSE d \in Devices : TRUE,
                                    rc |-> NULL, died |-> FALSE,
                                    canbus |-> "unknown"]]
    /\ calls = [t \in Testers |-> 0]
    /\ desired = [dev |-> CHOOSE d \in Devices : TRUE, st |-> NULL]
    /\ reported = NULL /\ logs = 0 /\ logging = FALSE
    /\ deltas = <<>> /\ reports = <<>>
    /\ daemon = "up" /\ clients = <<>>
    /\ iface = IF IfaceOption THEN "set" ELSE "none"
    /\ died = [t \in Testers |-> FALSE] /\ crashed = FALSE
    /\ faults = 0

Call(t) ==
    \E d \in Devices :
        \/ OpenCall(t, d) \/ CloseCall(t, d) \/ ConnectCall(t, d)
        \/ DisconnectCall(t, d) \/ SelectCall(t, d) \/ StartMsgFilterCall(t, d)

\* the steps a call takes until it returns
CallStep(t) ==
    \/ OpenConnect(t) \/ OpenSubscribe(t) \/ Publish(t) \/ Receive(t)
    \/ Acked(t) \/ Timeout(t) \/ Unsubscribe(t) \/ PublishClose(t)

Next ==
    \/ \E t \in Testers : Call(t) \/ CallStep(t) \/ Restart(t)
    \/ \E t \in Testers, d \in Devices : LoseUpdate(t, d)
    \/ ServeReport \/ LoseDelta \/ LoseReport \/ RequestLog
    \/ RouteDelta \/ DaemonStop \/ DaemonStart

Spec == Init /\ [][Next]_vars

\* The service delivers, a daemon that is up reads its deltas, and a call goes
\* on; the loop of j2534_publish_state ends after 50 reads, whatever it reads.
\* Nothing forces a daemon that died to be started again.
Fairness ==
    /\ WF_vars(ServeReport) /\ WF_vars(RouteDelta)
    /\ \A t \in Testers : WF_vars(CallStep(t)) /\ WF_vars(Acked(t) \/ Timeout(t))

FairSpec == Spec /\ Fairness

-----------------------------------------------------------------------------
(* Properties.                                                             *)

Canbus == {"unset", "connected", "failed", "null"}
ReturnCodes == {NULL, "STATUS_NOERROR", "ERR_DEVICE_IN_USE", "ERR_DEVICE_NOT_CONNECTED",
                "ERR_DEVICE_NOT_OPEN", "ERR_INVALID_DEVICE_ID", "ERR_INVALID_CHANNEL_ID",
                "ERR_EXCEEDED_LIMIT", "ERR_BUFFER_EMPTY", "ERR_ARGUMENT"}
PerDevice(S) == [Testers -> [Devices -> S]]

\* Type invariant: every variable of the library, of the service and of the
\* daemon keeps its type; in particular client->canbus is never left dangling.
TypeOK ==
    /\ opened \in [Testers -> BOOLEAN]
    /\ client \in PerDevice({"none", "live", "freed"})
    /\ cstate \in PerDevice(States)
    /\ chan \in PerDevice(BOOLEAN)
    /\ filter \in PerDevice({"none", "11bit", "29bit"})
    /\ inbox \in PerDevice(Seq(Ops))
    /\ link \in PerDevice({"none", "connected", "accepted", "both"})
    /\ selected \in PerDevice({"no", "live", "freed"})
    /\ pc \in [Testers -> {"idle", "connect", "subscribe", "publish", "wait",
                           "unsubscribe", "publish2", "dead"}]
    /\ op \in [Testers -> States] /\ dev \in [Testers -> Devices]
    /\ result \in [Testers -> [op : States, dev : Devices, rc : ReturnCodes, died : BOOLEAN,
                               canbus : Canbus \cup {"unknown"}]]
    /\ calls \in [Testers -> 0..MaxCalls]
    /\ desired \in [dev : Devices, st : States] /\ reported \in States
    /\ logs \in 0..MaxLogs /\ logging \in BOOLEAN
    /\ deltas \in Seq([dev : Devices, st : States, log : BOOLEAN])
    /\ reports \in Seq([kind : {"j2534", "log", "connection"}, st : States, json : BOOLEAN])
    /\ daemon \in {"up", "down"}
    /\ clients \in Seq([dev : Devices, mem : {"live", "freed"}, canbus : Canbus])
    /\ iface \in {"none", "set", "freed"}
    /\ died \in [Testers -> BOOLEAN] /\ crashed \in BOOLEAN
    /\ faults \in 0..MaxFaults

Succeeded(t, o) == result[t].op = o /\ result[t].rc = "STATUS_NOERROR"

\* With nothing lost, failed or stopped, one log request at most and a daemon
\* that never died, PassThruOpen returns STATUS_NOERROR only when the daemon has a
\* client for the device: an Open that an old report answers, or that the daemon
\* never executed, would break it.  (A daemon that gets an old Disconnect, after a
\* restart or because log requests took the place of other deltas, reports that
\* it does not know the client under the state Open, for which the next
\* PassThruOpen takes it.  Four log requests and eight calls come to that.)
OpenSound ==
    faults = 0 /\ logs <= 1 /\ ~crashed =>
        \A t \in Testers : Succeeded(t, "Open") => result[t].canbus # "unknown"

\* When PassThruClose returns STATUS_NOERROR the daemon has no client for the
\* device any more, although its answer was decided before the second publish
\* and although late reports of earlier calls may still be read.  One fault alone
\* does not break it.  (Two do; so does one with a log request or with a daemon
\* that died: a delta is then repeated, and carried out after the Close.)
CloseSound ==
    faults = 0 \/ (~crashed /\ faults + logs <= 1) =>
        \A t \in Testers : Succeeded(t, "Close") => result[t].canbus = "unknown"

\* When PassThruDisconnect returns STATUS_NOERROR the daemon's CAN socket is
\* closed: "the physical communication channel shall be in a disconnected
\* state" (j2534.c, PassThruDisconnect).
DisconnectSound ==
    \A t \in Testers : Succeeded(t, "Disconnect") => result[t].canbus # "connected"

\* The same holds of every undisturbed session.  (A log request disturbs it,
\* too: after a Connect whose CAN socket failed the log's report repeats the
\* delta, and the socket that then opens is not closed by a Disconnect which an
\* older Disconnect's state answers.)
UndisturbedDisconnect == faults = 0 /\ logs = 0 => DisconnectSound

\* When PassThruStartMsgFilter returns STATUS_NOERROR the daemon has a client
\* to which the filters were applied, unless it died while the call waited; one
\* fault does not break it.  (Five do: the late answers to a process that was
\* stopped then answer the calls of the next one.)
FilterSound ==
    faults <= 1 => \A t \in Testers : Succeeded(t, "StartMsgFilter") =>
        result[t].canbus # "unknown" \/ result[t].died

\* The daemon keeps at most one client per device, whatever deltas arrive, are
\* repeated or are lost, so that get_client finds the one that was opened.
OneClientPerDevice ==
    \A i, j \in 1..Len(clients) : clients[i].dev = clients[j].dev => i = j

\* With a daemon that finally stays up, the exchange of deltas and reports
\* comes to rest again and again: "prevent endless message loop"
\* (passthru_shadow_j2534_handler_handle_desired_state).
ExchangeSettles ==
    <>[](daemon = "up") => []<>(deltas = <<>> /\ reports = <<>>)
=============================================================================
