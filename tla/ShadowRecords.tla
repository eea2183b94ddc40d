--------------------------- MODULE ShadowRecords ---------------------------
(***************************************************************************)
(* The book-keeping of the shadow client (aws_iot_shadow_actions.c and     *)
(* aws_iot_shadow_records.c) that the daemon reports through: the list of  *)
(* the reports whose answer is awaited, the list of the topics the answers *)
(* come on, the numbering of the reports, and the version below which a    *)
(* delta is old.                                                           *)
(*                                                                         *)
(* All of it runs on one thread.  A call that subscribes waits for the     *)
(* broker and reads the connection meanwhile, so that acknowledgements and *)
(* deltas are handled inside the call; a delta's handler may then report,  *)
(* which nests a second call in the first.  The calls under way are a      *)
(* stack.  Callers always give a callback and a client token, as the       *)
(* daemon does.                                                            *)
(***************************************************************************)
EXTENDS Naturals, Sequences, FiniteSets

CONSTANTS MaxAcks,      \* MAX_ACKS_TO_COMEIN_AT_ANY_GIVEN_TIME
          MaxTopics,    \* MAX_TOPICS_AT_ANY_GIVEN_TIME
          Uses,         \* the shadow actions used, each with isPersistentSubscribe
          MaxReports,   \* bound on the calls
          MaxDeltas,    \* bound on the deltas, repeated ones included
          Reentrant     \* may a delta's handler report inside another call?

ASSUME RecordsAssumption ==
    /\ MaxAcks \in Nat \ {0} /\ MaxTopics \in Nat \ {0}
    /\ Uses \subseteq {"update", "get", "delete"} \X BOOLEAN
    /\ MaxReports \in Nat /\ MaxDeltas \in Nat /\ Reentrant \in BOOLEAN

Slots   == 0 .. MaxAcks - 1
Entries == 0 .. MaxTopics - 1
Reports == 1 .. MaxReports
Actions == {u[1] : u \in Uses}

Accepted(a) == <<a, "accepted">>
Rejected(a) == <<a, "rejected">>
Topics  == {Accepted(a) : a \in Actions} \cup {Rejected(a) : a \in Actions}
NoTopic == <<"none", "none">>

VARIABLES
    AckWaitList,        \* records of the awaited answers
    SubscriptionList,   \* records of the topics
    clientTokenNum,     \* the number of the next client token
    version,            \* shadowJsonVersionNum
    calls,              \* the calls of iot_shadow_action under way, innermost last
    subscribed,         \* the topics the MQTT client is subscribed to
    requests,           \* what was published and the service has not answered
    wire,               \* messages on their way to the client, in order
    sver,               \* version of the shadow at the service
    deltas,             \* number of deltas sent
    told,               \* (history) told[r]: the callbacks of report r
    result,             \* (history) result[r]: how far the call of report r is
    said,               \* (history) said[r]: the service's verdict on report r
    applied,            \* (history) applied[v]: how often delta v reached a handler
    topics              \* (history) "broken" once a subscription or its cancellation
                        \* failed, or found the list of topics full

listVars == <<AckWaitList, SubscriptionList, subscribed>>
histVars == <<told, result, said, applied>>
vars == <<listVars, clientTokenNum, version, calls, requests, wire, sver, deltas, histVars, topics>>

Least(S) == CHOOSE i \in S : \A j \in S : i <= j
Replace(f, i, v) == [f EXCEPT ![i] = v]

Top    == calls[Len(calls)]
Others == SubSeq(calls, 1, Len(calls) - 1)

\* The client reads its connection in aws_iot_shadow_yield, and while a call
\* waits for the broker to acknowledge a subscription.
Reading == calls # <<>> => Top.pc \in {"accepted", "rejected"}

-----------------------------------------------------------------------------
(* The list of topics.                                                     *)

Taken(t) == {e \in Entries : ~SubscriptionList[e].isFree /\ SubscriptionList[e].topic = t}

\* isSubscriptionPresent
Present(a) == Taken(Accepted(a)) # {} /\ Taken(Rejected(a)) # {}

\* incrementSubscriptionCnt
Incremented(a, sticky) ==
    [e \in Entries |->
        IF e \in Taken(Accepted(a)) \cup Taken(Rejected(a))
        THEN [SubscriptionList[e] EXCEPT !.count = @ + 1, !.isSticky = sticky]
        ELSE SubscriptionList[e]]

\* Mutant: a topic is left although other reports still wait for it.
DropsAlways(entry) == TRUE

\* Is a topic left when the answer to a report has come?
Drops(entry) == ~entry.isSticky /\ entry.count = 1

\* Mutant: the count is decremented whatever it is.
SharedAlways(entry) == TRUE

\* Is the count of a topic that is not left decremented?
Shared(entry) == entry.count > 1

\* unsubscribeFromAcceptedAndRejected, for one of the two topics: the first
\* entry that has it.  ok: does aws_iot_mqtt_unsubscribe succeed?
Left(list, subs, t, ok) ==
    LET es == {e \in Entries : ~list[e].isFree /\ list[e].topic = t}
        e  == Least(es)
        same(b) == [list |-> list, subs |-> subs, kept |-> b] IN
    IF es = {} THEN same(TRUE)
    ELSE IF Drops(list[e])
    THEN IF ok /\ t \in subs
         THEN [list |-> [list EXCEPT ![e].isFree = TRUE], subs |-> subs \ {t}, kept |-> TRUE]
         ELSE same(FALSE)
    ELSE IF Shared(list[e])
    THEN [list |-> [list EXCEPT ![e].count = @ - 1], subs |-> subs, kept |-> TRUE]
    ELSE same(TRUE)

Unsubscribe(a) ==
    \E ok1, ok2 \in BOOLEAN :
        LET x == Left(SubscriptionList, subscribed, Accepted(a), ok1)
            y == Left(x.list, x.subs, Rejected(a), ok2) IN
        /\ SubscriptionList' = y.list /\ subscribed' = y.subs
        /\ topics' = IF x.kept /\ y.kept THEN topics ELSE "broken"

-----------------------------------------------------------------------------
(* iot_shadow_action.                                                      *)

\* Mutant: the number is not advanced.
SameToken == clientTokenNum

\* aws_iot_fill_with_client_token
NextToken == clientTokenNum + 1

Frame(r, a, sticky, p, i, acc, rej) ==
    [report |-> r, token |-> clientTokenNum, act |-> a, sticky |-> sticky, pc |-> p,
     slot |-> i, acc |-> acc, rej |-> rej]

\* A new call: its document gets a token, then the first free record is looked
\* up (it is taken only at the end), then the topics.  With no free record the
\* call fails.  With one free entry for two topics nothing is subscribed: the
\* entry is given back, and if its last use left a count of 1 the topic of
\* that use is left; the call goes on as if all were well.
Begin(a, sticky) ==
    LET r     == Least({n \in Reports : result[n] = "unused"})
        slots == {i \in Slots : AckWaitList[i].isFree}
        free  == {e \in Entries : SubscriptionList[e].isFree}
        e1    == Least(free)
        e2    == Least(free \ {e1})
        old   == SubscriptionList[e1]
        goes(p, acc, rej) ==
            /\ calls' = Append(calls, Frame(r, a, sticky, p, Least(slots), acc, rej))
            /\ result' = Replace(result, r, "calling")
    IN
    /\ \E n \in Reports : result[n] = "unused"
    /\ clientTokenNum' = NextToken
    /\ \/ /\ slots = {}
          /\ calls' = Append(calls, Frame(r, a, sticky, "fail", 0, 0, 0))
          /\ result' = Replace(result, r, "calling")
          /\ UNCHANGED <<SubscriptionList, subscribed, topics>>
       \/ /\ slots # {} /\ Present(a)
          /\ SubscriptionList' = Incremented(a, sticky)
          /\ goes("publish", 0, 0) /\ UNCHANGED <<subscribed, topics>>
       \/ /\ slots # {} /\ ~Present(a) /\ Cardinality(free) >= 2
          /\ SubscriptionList' = [SubscriptionList EXCEPT
                ![e1] = [@ EXCEPT !.isFree = FALSE, !.topic = Accepted(a)],
                ![e2].isFree = FALSE]
          /\ goes("accepted", e1, e2) /\ UNCHANGED <<subscribed, topics>>
       \/ /\ slots # {} /\ ~Present(a) /\ Cardinality(free) = 1
          /\ subscribed' \in IF old.count = 1 THEN {subscribed, subscribed \ {old.topic}}
                             ELSE {subscribed}
          /\ goes("publish", 0, 0) /\ topics' = "broken" /\ UNCHANGED SubscriptionList
       \/ /\ slots # {} /\ ~Present(a) /\ free = {}
          /\ goes("publish", 0, 0) /\ topics' = "broken"
          /\ UNCHANGED <<SubscriptionList, subscribed>>

\* the innermost call returns
Returns(rc) ==
    /\ calls' = Others
    /\ result' = Replace(result, Top.report, rc)

\* subscribeToShadowActionAcks: the subscription to the accepted topic, then
\* to the rejected one.  After a failure only the entry of the accepted topic
\* is given back, and the topic is left if the entry's count is 1.
SubscribeAccepted ==
    /\ calls # <<>> /\ Top.pc = "accepted"
    /\ SubscriptionList' = [SubscriptionList EXCEPT
          ![Top.acc] = [@ EXCEPT !.count = 1, !.isSticky = Top.sticky],
          ![Top.rej].topic = Rejected(Top.act)]
    /\ subscribed' = subscribed \cup {Accepted(Top.act)}
    /\ calls' = Append(Others, [Top EXCEPT !.pc = "rejected"])
    /\ UNCHANGED <<AckWaitList, clientTokenNum, version, requests, wire, sver, deltas, histVars, topics>>

SubscribeRejected ==
    /\ calls # <<>> /\ Top.pc = "rejected"
    /\ SubscriptionList' = [SubscriptionList EXCEPT
          ![Top.rej] = [@ EXCEPT !.count = 1, !.isSticky = Top.sticky]]
    /\ subscribed' = subscribed \cup {Rejected(Top.act)}
    /\ calls' = Append(Others, [Top EXCEPT !.pc = "publish"])
    /\ UNCHANGED <<AckWaitList, clientTokenNum, version, requests, wire, sver, deltas, histVars, topics>>

SubscribeFails ==
    /\ Reading /\ calls # <<>>
    /\ SubscriptionList' = [SubscriptionList EXCEPT ![Top.acc].isFree = TRUE]
    /\ subscribed' \in IF SubscriptionList[Top.acc].count = 1
                       THEN {subscribed, subscribed \ {Accepted(Top.act)}} ELSE {subscribed}
    /\ Returns("failed") /\ topics' = "broken"
    /\ UNCHANGED <<AckWaitList, clientTokenNum, version, requests, wire, sver, deltas,
                   told, said, applied>>

\* publishToShadowAction, and addToAckWaitList with the record found at the
\* beginning.  A failed publication takes nothing back.
Publish ==
    /\ calls # <<>> /\ Top.pc = "publish"
    /\ \/ /\ requests' = requests \cup {[report |-> Top.report, token |-> Top.token, act |-> Top.act]}
          /\ AckWaitList' = Replace(AckWaitList, Top.slot,
                [isFree |-> FALSE, report |-> Top.report, token |-> Top.token, act |-> Top.act])
          /\ Returns("SUCCESS")
       \/ Returns("failed") /\ UNCHANGED <<requests, AckWaitList>>
    /\ UNCHANGED <<SubscriptionList, subscribed, clientTokenNum, version, wire, sver, deltas,
                   told, said, applied, topics>>

Fail ==
    /\ calls # <<>> /\ Top.pc = "fail"
    /\ Returns("failed")
    /\ UNCHANGED <<listVars, clientTokenNum, version, requests, wire, sver, deltas,
                   told, said, applied, topics>>

\* The program reports between two calls of aws_iot_shadow_yield.
Report ==
    /\ calls = <<>>
    /\ \E u \in Uses : Begin(u[1], u[2])
    /\ UNCHANGED <<AckWaitList, version, requests, wire, sver, deltas, told, said, applied>>

-----------------------------------------------------------------------------
(* What the client reads, and what expires.                                *)

Tell(r, status) == told' = [told EXCEPT ![r] = Append(@, status)]

\* AckStatusCallback: the first record with the token; callback, topics, record.
DeliverAck ==
    /\ Reading /\ wire # <<>> /\ Head(wire).kind = "ack"
    /\ wire' = Tail(wire)
    /\ LET m    == Head(wire)
           mine == {i \in Slots : ~AckWaitList[i].isFree /\ AckWaitList[i].token = m.token}
           i    == Least(mine) IN
       /\ version' = IF m.topic = Accepted("get") /\ m.version > version
                        /\ m.topic \in subscribed
                     THEN m.version ELSE version
       /\ IF m.topic \in subscribed /\ mine # {}
          THEN /\ Tell(AckWaitList[i].report, IF m.topic[2] = "accepted" THEN "ACCEPTED" ELSE "REJECTED")
               /\ Unsubscribe(AckWaitList[i].act)
               /\ AckWaitList' = [AckWaitList EXCEPT ![i].isFree = TRUE]
          ELSE UNCHANGED <<told, listVars, topics>>
    /\ UNCHANGED <<clientTokenNum, calls, requests, sver, deltas, result, said, applied>>

\* Mutant: old deltas reach the handler.
IsNewAlways(v) == TRUE

IsNew(v) == v > version

\* shadow_delta_callback: the handler reports, or not.
DeliverDelta ==
    /\ Reading /\ wire # <<>> /\ Head(wire).kind = "delta"
    /\ wire' = Tail(wire)
    /\ LET v == Head(wire).version IN
       IF IsNew(v)
       THEN /\ version' = v
            /\ applied' = [applied EXCEPT ![v] = @ + 1]
            /\ \/ UNCHANGED <<SubscriptionList, subscribed, clientTokenNum, calls, result, topics>>
               \/ /\ calls = <<>> \/ Reentrant
                  /\ \E u \in Uses : Begin(u[1], u[2])
       ELSE UNCHANGED <<version, applied, SubscriptionList, subscribed, clientTokenNum, calls,
                        result, topics>>
    /\ UNCHANGED <<AckWaitList, requests, sver, deltas, told, said>>

\* Mutants: the record is freed without a callback, and the record stays in use.
ExpireSilently(i) ==
    /\ calls = <<>> /\ ~AckWaitList[i].isFree
    /\ AckWaitList' = [AckWaitList EXCEPT ![i].isFree = TRUE]
    /\ Unsubscribe(AckWaitList[i].act)
    /\ UNCHANGED <<clientTokenNum, version, calls, requests, wire, sver, deltas, histVars>>

ExpireKeeps(i) ==
    /\ calls = <<>> /\ ~AckWaitList[i].isFree
    /\ Tell(AckWaitList[i].report, "TIMEOUT")
    /\ Len(told[AckWaitList[i].report]) < 2
    /\ Unsubscribe(AckWaitList[i].act)
    /\ UNCHANGED <<AckWaitList, clientTokenNum, version, calls, requests, wire, sver, deltas, result, said, applied>>

\* HandleExpiredResponseCallbacks, for one record.  How fast the service is
\* nobody knows, so that a record may expire at any time.
Expire(i) ==
    /\ calls = <<>> /\ ~AckWaitList[i].isFree
    /\ Tell(AckWaitList[i].report, "TIMEOUT")
    /\ AckWaitList' = [AckWaitList EXCEPT ![i].isFree = TRUE]
    /\ Unsubscribe(AckWaitList[i].act)
    /\ UNCHANGED <<clientTokenNum, version, calls, requests, wire, sver, deltas, result, said, applied>>

-----------------------------------------------------------------------------
(* The shadow service (external).  It answers in any order, or never: then  *)
(* the request or its answer is lost.                                      *)

Serve(q, verdict) ==
    LET t == <<q.act, verdict>> IN
    /\ requests' = requests \ {q}
    /\ said' = [said EXCEPT ![q.report] = verdict]
    /\ wire' = IF t \notin subscribed THEN wire
               ELSE Append(wire, [kind |-> "ack", topic |-> t, token |-> q.token, version |-> sver])
    /\ UNCHANGED <<listVars, clientTokenNum, version, calls, sver, deltas, told, result, applied, topics>>

\* Somebody desires something: a new delta; or the last one comes again.
SendDelta ==
    /\ deltas < MaxDeltas
    /\ deltas' = deltas + 1
    /\ sver' \in {sver + 1} \cup (IF sver > 0 THEN {sver} ELSE {})
    /\ wire' = Append(wire, [kind |-> "delta", topic |-> NoTopic, token |-> 0, version |-> sver'])
    /\ UNCHANGED <<listVars, clientTokenNum, version, calls, requests, histVars, topics>>

-----------------------------------------------------------------------------
Init ==
    /\ AckWaitList = [i \in Slots |-> [isFree |-> TRUE, report |-> 0, token |-> 0, act |-> "none"]]
    /\ SubscriptionList = [e \in Entries |-> [isFree |-> TRUE, topic |-> NoTopic,
                                              count |-> 0, isSticky |-> FALSE]]
    /\ clientTokenNum = 0 /\ version = 0 /\ calls = <<>> /\ subscribed = {}
    /\ requests = {} /\ wire = <<>> /\ sver = 0 /\ deltas = 0
    /\ told = [r \in Reports |-> <<>>]
    /\ result = [r \in Reports |-> "unused"]
    /\ said = [r \in Reports |-> "nothing"]
    /\ applied = [v \in 1 .. MaxDeltas |-> 0]
    /\ topics = "kept"

CallStep == SubscribeAccepted \/ SubscribeRejected \/ SubscribeFails \/ Publish \/ Fail

Next ==
    \/ Report \/ CallStep \/ DeliverAck \/ DeliverDelta \/ SendDelta
    \/ \E i \in Slots : Expire(i)
    \/ \E q \in requests, v \in {"accepted", "rejected"} : Serve(q, v)

Spec == Init /\ [][Next]_vars

-----------------------------------------------------------------------------
(* Properties                                                              *)

\* Type invariant of the lists and of what is in transit.
TypeOK ==
    /\ AckWaitList \in [Slots -> [isFree : BOOLEAN, report : 0 .. MaxReports, token : Nat,
                                  act : Actions \cup {"none"}]]
    /\ SubscriptionList \in [Entries -> [isFree : BOOLEAN, topic : Topics \cup {NoTopic},
                                         count : Nat, isSticky : BOOLEAN]]
    /\ clientTokenNum \in Nat /\ version \in 0 .. MaxDeltas /\ sver \in 0 .. MaxDeltas
    /\ calls \in Seq([report : Reports, token : Nat, act : Actions, sticky : BOOLEAN,
                      pc : {"accepted", "rejected", "publish", "fail"},
                      slot : Slots, acc : Entries, rej : Entries])
    /\ subscribed \subseteq Topics
    /\ requests \subseteq [report : Reports, token : Nat, act : Actions]
    /\ deltas \in 0 .. MaxDeltas
    /\ wire \in Seq([kind : {"ack", "delta"}, topic : Topics \cup {NoTopic}, token : Nat,
                     version : 0 .. MaxDeltas])

\* The state of a report as the program sees it.
Seen(r) == IF told[r] = <<>> THEN IF result[r] = "SUCCESS" THEN "waiting" ELSE result[r]
           ELSE IF Len(told[r]) = 1 THEN told[r][1] ELSE "told twice"

\* The lists implement the promise of the interface: a call of
\* aws_iot_shadow_update fails, or its callback comes exactly once, although
\* answers are lost, late or come inside other calls, records are used again,
\* and subscriptions fail half-way.
Promise == INSTANCE ShadowReports WITH state <- [r \in Reports |-> Seen(r)]
ImplementsReports == Promise!Spec

\* A callback with ACCEPTED or REJECTED tells the service's verdict on that very
\* report: an answer that comes after its report has expired is not taken for
\* the answer to the report that now uses the record.
OwnAnswer ==
    \A r \in Reports :
        /\ told[r] = <<"ACCEPTED">> => said[r] = "accepted"
        /\ told[r] = <<"REJECTED">> => said[r] = "rejected"

\* As long as an answer is awaited the client is subscribed to the two topics on
\* which it may come, although reports share topics, leave them and may fail to;
\* provided that no subscription or cancellation failed or found the list of
\* topics full (an entry is then not given back, and a later report leaves the
\* topic by the wrong entry).
AwaitedIsSubscribed ==
    topics = "kept" => \A i \in Slots :
        ~AckWaitList[i].isFree =>
            {Accepted(AckWaitList[i].act), Rejected(AckWaitList[i].act)} \subseteq subscribed

\* No delta reaches its handler twice, although the broker may repeat it and
\* although it is handled inside other calls.
DeltaAppliedOnce == \A v \in 1 .. MaxDeltas : applied[v] <= 1

\* A report whose call succeeded is waiting in the list, or was answered:
\* "timeout_seconds It is the time the SDK will wait for the response on either
\* accepted/rejected before declaring timeout on the action"
\* (aws_iot_shadow_interface.h).
NoReportForgotten ==
    \A r \in Reports : result[r] = "SUCCESS" /\ told[r] = <<>> =>
        \E i \in Slots : ~AckWaitList[i].isFree /\ AckWaitList[i].report = r
=============================================================================
