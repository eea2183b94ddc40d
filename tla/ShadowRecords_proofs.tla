------------------------ MODULE ShadowRecords_proofs ------------------------
(***************************************************************************)
(* Proofs about the shadow client's lists, for every size of the lists,    *)
(* every number of reports and deltas, and every set of shadow actions.    *)
(*                                                                         *)
(* The argument has two halves.  Typed says of what type everything is;    *)
(* Linked says how a report's traces in the lists belong together: report  *)
(* r carries client token r - 1 wherever it goes, it is in at most one     *)
(* place of the stack of calls and of the list of awaited answers, and an  *)
(* answer in transit is the service's verdict on the report whose token it *)
(* carries.  Each step has one of seven effects on the reports (Effect);   *)
(* each effect keeps Linked and is a step of ShadowReports or a stutter.   *)
(*                                                                         *)
(* Two theorems hold without nested calls only (~Reentrant): then a call   *)
(* finds the record that it looked up still free (OneCall), and the two    *)
(* entries of an action's topics are taken, counted and given back         *)
(* together (Kept).                                                        *)
(***************************************************************************)
EXTENDS ShadowRecords, ListFacts, TLAPS

Status == {"ACCEPTED", "REJECTED", "TIMEOUT"}
WaitRecord  == [isFree : BOOLEAN, report : 0 .. MaxReports, token : Nat, act : Actions \cup {"none"}]
TopicRecord == [isFree : BOOLEAN, topic : Topics \cup {NoTopic}, count : Nat, isSticky : BOOLEAN]
CallRecord  == [report : Reports, token : Nat, act : Actions, sticky : BOOLEAN,
                pc : {"accepted", "rejected", "publish", "fail"},
                slot : Slots, acc : Entries, rej : Entries]
Message     == [kind : {"ack", "delta"}, topic : Topics \cup {NoTopic}, token : Nat,
                version : 0 .. MaxDeltas]

Request     == [report : Reports, token : Nat, act : Actions]

(* The types of all variables, the history included, and what TypeOK       *)
(* leaves open: a record in use names a report, and a delta has the        *)
(* version of a change.                                                    *)
TopicsTyped ==
    /\ SubscriptionList \in [Entries -> TopicRecord]
    /\ subscribed \subseteq Topics
    /\ topics \in {"kept", "broken"}

ListTyped ==
    /\ AckWaitList \in [Slots -> WaitRecord]
    /\ \A i \in Slots : ~AckWaitList[i].isFree =>
          AckWaitList[i].report \in Reports /\ AckWaitList[i].act \in Actions
    /\ told \in [Reports -> Seq(Status)]

CallsTyped ==
    /\ calls \in Seq(CallRecord) /\ clientTokenNum \in Nat
    /\ result \in [Reports -> {"unused", "calling", "failed", "SUCCESS"}]

WireTyped ==
    /\ requests \subseteq Request
    /\ wire \in Seq(Message)
    /\ \A n \in 1 .. Len(wire) : wire[n].kind = "delta" => wire[n].version \in 1 .. MaxDeltas
    /\ said \in [Reports -> {"nothing", "accepted", "rejected"}]

DeltasTyped ==
    /\ version \in 0 .. MaxDeltas /\ sver \in 0 .. MaxDeltas /\ deltas \in 0 .. MaxDeltas
    /\ applied \in [1 .. MaxDeltas -> Nat]
    /\ sver <= deltas

Typed == TopicsTyped /\ ListTyped /\ CallsTyped /\ WireTyped /\ DeltasTyped

(* Least(S), the first record or entry found by a scan of the list, is in  *)
(* S and is the smallest.                                                  *)
LEMMA LeastIsIn ==
    ASSUME NEW S \in SUBSET Nat, S # {}
    PROVE  Least(S) \in S /\ \A j \in S : Least(S) <= j
  BY MinimumExists DEF Least

(* What the assumption on the constants says of the sets built from them.  *)
LEMMA Domains ==
    /\ Slots \subseteq Nat /\ 0 \in Slots
    /\ Entries \subseteq Nat /\ 0 \in Entries
    /\ Reports \subseteq Nat
    /\ \A u \in Uses : u[1] \in Actions /\ u[2] \in BOOLEAN
    /\ \A a \in Actions : Accepted(a) \in Topics /\ Rejected(a) \in Topics
  BY RecordsAssumption DEF Slots, Entries, Reports, Actions, Topics

(* A record keeps its type when fields of it are written.                  *)
LEMMA TopicUpdate ==
    ASSUME NEW x \in TopicRecord
    PROVE  /\ x.count \in Nat /\ x.isFree \in BOOLEAN /\ x.isSticky \in BOOLEAN
           /\ x.topic \in Topics \cup {NoTopic}
           /\ \A b \in BOOLEAN : [x EXCEPT !.isFree = b] \in TopicRecord
           /\ \A t \in Topics : [x EXCEPT !.topic = t] \in TopicRecord
           /\ \A b \in BOOLEAN, t \in Topics : [x EXCEPT !.isFree = b, !.topic = t] \in TopicRecord
           /\ \A n \in Nat : [x EXCEPT !.count = n] \in TopicRecord
           /\ \A b \in BOOLEAN, n \in Nat : [x EXCEPT !.count = n, !.isSticky = b] \in TopicRecord
  BY DEF TopicRecord

(* A call has begun: its frame is that of a report never used before, and  *)
(* the record it has looked up is free.                                    *)
Begun ==
    \E f \in CallRecord :
        /\ result[f.report] = "unused" /\ f.token = clientTokenNum
        /\ \A n \in Reports : result[n] = "unused" => f.report <= n
        /\ calls' = Append(calls, f)
        /\ result' = [result EXCEPT ![f.report] = "calling"]
        /\ f.pc # "fail" => AckWaitList[f.slot].isFree

(* What a call that begins does to the lists: the topics keep their type,  *)
(* and the new frame is one of a report that was never used.               *)
LEMMA BeginTyped ==
    ASSUME Typed, NEW a \in Actions, NEW sticky \in BOOLEAN, Begin(a, sticky)
    PROVE  TopicsTyped' /\ clientTokenNum' = clientTokenNum + 1 /\ Begun
<1> USE DEF TopicsTyped
<1> DEFINE unused == {n \in Reports : result[n] = "unused"}
           r     == Least(unused)
           slots == {i \in Slots : AckWaitList[i].isFree}
           slot  == Least(slots)
           free  == {e \in Entries : SubscriptionList[e].isFree}
           e1    == Least(free)
           e2    == Least(free \ {e1})
           old   == SubscriptionList[e1]
           goes(p, acc, rej) ==
              /\ calls' = Append(calls, Frame(r, a, sticky, p, slot, acc, rej))
              /\ result' = Replace(result, r, "calling")
           fails ==
              /\ slots = {}
              /\ calls' = Append(calls, Frame(r, a, sticky, "fail", 0, 0, 0))
              /\ result' = Replace(result, r, "calling")
              /\ UNCHANGED <<SubscriptionList, subscribed, topics>>
           shares ==
              /\ slots # {} /\ Present(a)
              /\ SubscriptionList' = Incremented(a, sticky)
              /\ goes("publish", 0, 0) /\ UNCHANGED <<subscribed, topics>>
           subscribes ==
              /\ slots # {} /\ ~Present(a) /\ Cardinality(free) >= 2
              /\ SubscriptionList' = [SubscriptionList EXCEPT
                    ![e1] = [@ EXCEPT !.isFree = FALSE, !.topic = Accepted(a)],
                    ![e2].isFree = FALSE]
              /\ goes("accepted", e1, e2) /\ UNCHANGED <<subscribed, topics>>
           oneLeft ==
              /\ slots # {} /\ ~Present(a) /\ Cardinality(free) = 1
              /\ subscribed' \in IF old.count = 1 THEN {subscribed, subscribed \ {old.topic}}
                                 ELSE {subscribed}
              /\ goes("publish", 0, 0) /\ topics' = "broken" /\ UNCHANGED SubscriptionList
           noneLeft ==
              /\ slots # {} /\ ~Present(a) /\ free = {}
              /\ goes("publish", 0, 0) /\ topics' = "broken"
              /\ UNCHANGED <<SubscriptionList, subscribed>>
<1>1. /\ \E n \in Reports : result[n] = "unused"
      /\ clientTokenNum' = clientTokenNum + 1
      /\ fails \/ shares \/ subscribes \/ oneLeft \/ noneLeft
  BY Zenon DEF Begin, NextToken
<1>2. /\ r \in Reports /\ result[r] = "unused"
      /\ \A n \in Reports : result[n] = "unused" => r <= n
  <2>1. unused \subseteq Nat /\ unused # {}
    BY <1>1, Domains
  <2>2. r \in unused /\ \A n \in unused : r <= n
    BY <2>1, LeastIsIn
  <2> QED
    BY <2>2
<1>3. slots # {} => slot \in Slots /\ AckWaitList[slot].isFree
  <2> SUFFICES ASSUME slots # {} PROVE slot \in slots
    OBVIOUS
  <2>1. slots \subseteq Nat
    BY Domains
  <2> QED
    BY <2>1, LeastIsIn
<1>4. free # {} => e1 \in Entries
  BY LeastIsIn, Domains
<1>5. free \ {e1} # {} => e2 \in Entries
  BY LeastIsIn, Domains
<1>6. /\ clientTokenNum \in Nat /\ SubscriptionList \in [Entries -> TopicRecord]
      /\ subscribed \subseteq Topics /\ topics \in {"kept", "broken"}
  BY DEF Typed, TopicsTyped, CallsTyped
<1>7. Accepted(a) \in Topics /\ Rejected(a) \in Topics
  BY Domains
<1>8. ASSUME NEW p \in {"accepted", "publish"}, NEW acc \in Entries, NEW rej \in Entries,
             slots # {}, goes(p, acc, rej)
      PROVE  Begun
  <2> DEFINE f == Frame(r, a, sticky, p, slot, acc, rej)
  <2> HIDE DEF r, slots, slot
  <2>1. /\ f \in CallRecord /\ f.report = r /\ f.token = clientTokenNum /\ f.slot = slot
    BY <1>2, <1>3, <1>6, <1>8 DEF CallRecord, Frame
  <2>2. calls' = Append(calls, f) /\ result' = [result EXCEPT ![r] = "calling"]
    BY <1>8 DEF Replace
  <2> HIDE DEF f
  <2> QED
    BY <2>1, <2>2, <1>2, <1>3, <1>8 DEF Begun
<1>9. CASE fails
  <2> DEFINE f == Frame(r, a, sticky, "fail", 0, 0, 0)
  <2> HIDE DEF r, slots
  <2>1. f \in CallRecord /\ f.report = r /\ f.token = clientTokenNum /\ f.pc = "fail"
    BY <1>2, <1>6, Domains DEF CallRecord, Frame
  <2>2. calls' = Append(calls, f) /\ result' = [result EXCEPT ![r] = "calling"]
    BY <1>9 DEF Replace
  <2>3. Begun
    <3> HIDE DEF f
    <3> QED
      BY <2>1, <2>2, <1>2 DEF Begun
  <2> HIDE DEF f
  <2> QED
    BY <2>3, <1>1, <1>6, <1>9
<1>10. CASE shares
  <2>1. SubscriptionList' \in [Entries -> TopicRecord]
    <3> DEFINE both == Taken(Accepted(a)) \cup Taken(Rejected(a))
    <3>1. SubscriptionList' = [e \in Entries |-> IF e \in both
             THEN [SubscriptionList[e] EXCEPT !.count = @ + 1, !.isSticky = sticky]
             ELSE SubscriptionList[e]]
      BY <1>10 DEF Incremented
    <3> HIDE DEF both
    <3>2. \A e \in Entries : [SubscriptionList[e] EXCEPT !.count = @ + 1, !.isSticky = sticky] \in TopicRecord
      <4> SUFFICES ASSUME NEW e \in Entries
                   PROVE  [SubscriptionList[e] EXCEPT !.count = @ + 1, !.isSticky = sticky] \in TopicRecord
        OBVIOUS
      <4> DEFINE x == SubscriptionList[e]
                 n == x.count + 1
      <4>1. x \in TopicRecord
        BY <1>6
      <4>2. n \in Nat
        BY <4>1 DEF TopicRecord
      <4> HIDE DEF n
      <4>3. [x EXCEPT !.count = n, !.isSticky = sticky] \in TopicRecord
        <5> HIDE DEF x
        <5> QED
          BY <4>1, <4>2, TopicUpdate
      <4> QED
        BY <4>3 DEF n
    <3> QED
      BY <1>6, <3>1, <3>2
  <2>2. Begun
    BY <1>8, <1>10, Domains
  <2> HIDE DEF goes, slots
  <2> QED
    BY <2>1, <2>2, <1>1, <1>6, <1>10
<1>11. CASE subscribes
  <2>1. free # {} /\ free \ {e1} # {}
    <3>1. Cardinality({}) = 0 /\ Cardinality({e1}) = 1
      BY FS_EmptySet, FS_Singleton
    <3>2. Cardinality(free) >= 2
      BY <1>11
    <3>3. free # {} /\ free # {e1}
      <4> HIDE DEF free, e1
      <4> QED BY <3>1, <3>2
    <3> QED
      BY <3>3
  <2>2. e1 \in Entries /\ e2 \in Entries
    BY <2>1, <1>4, <1>5
  <2>3. SubscriptionList' \in [Entries -> TopicRecord]
    <3>1. SubscriptionList' = [SubscriptionList EXCEPT
                    ![e1] = [@ EXCEPT !.isFree = FALSE, !.topic = Accepted(a)],
                    ![e2].isFree = FALSE]
      BY <1>11
    <3>2. SubscriptionList \in [Entries -> TopicRecord] /\ Accepted(a) \in Topics
      BY <1>6, <1>7
    <3> HIDE DEF e1, e2
    <3>3. ASSUME NEW list \in [Entries -> TopicRecord], NEW rec \in TopicRecord, NEW e \in Entries
          PROVE  [list EXCEPT ![e] = rec] \in [Entries -> TopicRecord]
      OBVIOUS
    <3>4. \A x \in TopicRecord : /\ [x EXCEPT !.isFree = FALSE, !.topic = Accepted(a)] \in TopicRecord
                                 /\ [x EXCEPT !.isFree = FALSE] \in TopicRecord
      BY <3>2 DEF TopicRecord
    <3> DEFINE list == [SubscriptionList EXCEPT ![e1] = [@ EXCEPT !.isFree = FALSE, !.topic = Accepted(a)]]
    <3>5. list \in [Entries -> TopicRecord]
      BY <2>2, <3>2, <3>3, <3>4
    <3>6. SubscriptionList' = [list EXCEPT ![e2] = [list[e2] EXCEPT !.isFree = FALSE]]
      BY <3>1
    <3> HIDE DEF list
    <3> QED BY <2>2, <3>3, <3>4, <3>5, <3>6
  <2>4. Begun
    BY <1>8, <1>11, <2>2
  <2> HIDE DEF goes, slots, free, e1, e2
  <2> QED
    BY <2>3, <2>4, <1>1, <1>6, <1>11
<1>12. CASE oneLeft
  <2>1. Begun
    BY <1>8, <1>12, Domains
  <2> HIDE DEF goes, slots, free, old
  <2> QED
    BY <2>1, <1>1, <1>6, <1>12
<1>13. CASE noneLeft
  <2>1. Begun
    BY <1>8, <1>13, Domains
  <2> HIDE DEF goes, slots, free
  <2> QED
    BY <2>1, <1>1, <1>6, <1>13
<1> QED
  BY <1>1, <1>9, <1>10, <1>11, <1>12, <1>13

-----------------------------------------------------------------------------
(* The stack without its innermost call, and with that call replaced.      *)
LEMMA Stack ==
    ASSUME calls \in Seq(CallRecord), calls # <<>>
    PROVE  /\ Top \in CallRecord /\ Len(calls) \in Nat \ {0} /\ Top = calls[Len(calls)]
           /\ Others \in Seq(CallRecord) /\ Len(Others) = Len(calls) - 1
           /\ \A n \in 1 .. Len(calls) - 1 : Others[n] = calls[n]
           /\ \A f \in CallRecord :
                 /\ Append(Others, f) \in Seq(CallRecord) /\ Len(Append(Others, f)) = Len(calls)
                 /\ \A n \in 1 .. Len(calls) :
                       Append(Others, f)[n] = IF n = Len(calls) THEN f ELSE calls[n]
<1>1. Len(calls) \in Nat \ {0} /\ Top \in CallRecord
  BY DEF Top
<1>2. /\ Others \in Seq(CallRecord) /\ Len(Others) = Len(calls) - 1
      /\ \A n \in 1 .. Len(calls) - 1 : Others[n] = calls[n]
  BY FrontOf, Zenon DEF Others
<1> HIDE DEF Others
<1> QED
  BY <1>1, <1>2 DEF Top

(* A call that begins is pushed on the stack.                              *)
LEMMA Pushed ==
    ASSUME calls \in Seq(CallRecord), NEW f \in CallRecord
    PROVE  /\ Append(calls, f) \in Seq(CallRecord) /\ Len(Append(calls, f)) = Len(calls) + 1
           /\ \A n \in 1 .. Len(calls) + 1 :
                 Append(calls, f)[n] = IF n = Len(calls) + 1 THEN f ELSE calls[n]
  OBVIOUS

(* Leaving a topic keeps the types of the list and of the subscriptions.   *)
LEMMA LeftTyped ==
    ASSUME NEW list \in [Entries -> TopicRecord], NEW subs \in SUBSET Topics,
           NEW t, NEW ok \in BOOLEAN
    PROVE  /\ Left(list, subs, t, ok).list \in [Entries -> TopicRecord]
           /\ Left(list, subs, t, ok).subs \subseteq Topics
<1> DEFINE es == {e \in Entries : ~list[e].isFree /\ list[e].topic = t}
           e  == Least(es)
           x  == Left(list, subs, t, ok)
           freed == [list EXCEPT ![e].isFree = TRUE]
           fewer == [list EXCEPT ![e].count = @ - 1]
<1>1. CASE es = {}
  BY <1>1 DEF Left
<1>2. CASE es # {}
  <2>1. e \in Entries
    BY <1>2, LeastIsIn, Domains
  <2>2. freed \in [Entries -> TopicRecord]
    <3> HIDE DEF e
    <3> QED BY <2>1 DEF TopicRecord
  <2>3. Shared(list[e]) => fewer \in [Entries -> TopicRecord]
    <3> HIDE DEF e
    <3> QED BY <2>1 DEF TopicRecord, Shared
  <2>4. \/ x.list = list /\ x.subs = subs
        \/ x.list = freed /\ x.subs = subs \ {t}
        \/ Shared(list[e]) /\ x.list = fewer /\ x.subs = subs
    <3> HIDE DEF e
    <3> QED BY <1>2 DEF Left, e
  <2> HIDE DEF x, freed, fewer, e
  <2> QED
    BY <2>2, <2>3, <2>4 DEF x
<1> QED
  BY <1>1, <1>2

(* Unsubscribe, of both topics of an action, keeps the types.              *)
LEMMA UnsubscribeTyped ==
    ASSUME Typed, NEW a \in Actions, Unsubscribe(a)
    PROVE  TopicsTyped'
<1>1. PICK ok1 \in BOOLEAN, ok2 \in BOOLEAN :
        LET x == Left(SubscriptionList, subscribed, Accepted(a), ok1)
            y == Left(x.list, x.subs, Rejected(a), ok2) IN
        /\ SubscriptionList' = y.list /\ subscribed' = y.subs
        /\ topics' = IF x.kept /\ y.kept THEN topics ELSE "broken"
  BY DEF Unsubscribe
<1> DEFINE x == Left(SubscriptionList, subscribed, Accepted(a), ok1)
           y == Left(x.list, x.subs, Rejected(a), ok2)
<1>2. SubscriptionList' = y.list /\ subscribed' = y.subs /\ topics' \in {topics, "broken"}
  BY <1>1
<1>3. /\ SubscriptionList \in [Entries -> TopicRecord] /\ subscribed \in SUBSET Topics
      /\ topics \in {"kept", "broken"}
  BY DEF Typed, TopicsTyped, CallsTyped
<1>4. x.list \in [Entries -> TopicRecord] /\ x.subs \in SUBSET Topics
  BY <1>3, LeftTyped
<1>5. y.list \in [Entries -> TopicRecord] /\ y.subs \in SUBSET Topics
  <2> HIDE DEF x
  <2> QED BY <1>4, LeftTyped
<1> HIDE DEF x, y
<1> QED
  BY <1>2, <1>3, <1>5 DEF TopicsTyped

(* What is on its way to the client.                                       *)
LEMMA WireRead ==
    ASSUME wire \in Seq(Message), wire # <<>>
    PROVE  /\ Head(wire) \in Message /\ Head(wire) = wire[1] /\ Len(wire) \in Nat \ {0}
           /\ Tail(wire) \in Seq(Message) /\ Len(Tail(wire)) = Len(wire) - 1
           /\ \A n \in 1 .. Len(wire) - 1 : Tail(wire)[n] = wire[n + 1]
  OBVIOUS

(* A message is sent.                                                      *)
LEMMA WireGrown ==
    ASSUME wire \in Seq(Message), NEW m \in Message
    PROVE  /\ Append(wire, m) \in Seq(Message) /\ Len(Append(wire, m)) = Len(wire) + 1
           /\ \A n \in 1 .. Len(wire) + 1 :
                 Append(wire, m)[n] = IF n = Len(wire) + 1 THEN m ELSE wire[n]
  OBVIOUS

(* The call that begins keeps the types of the calls.                      *)
LEMMA BegunTyped ==
    ASSUME Typed, Begun, clientTokenNum' = clientTokenNum + 1
    PROVE  CallsTyped'
<1>1. PICK f \in CallRecord :
        calls' = Append(calls, f) /\ result' = [result EXCEPT ![f.report] = "calling"]
  BY DEF Begun
<1>2. f.report \in Reports
  BY DEF CallRecord
<1>3. calls' \in Seq(CallRecord)
  BY <1>1, Pushed DEF Typed, CallsTyped
<1>4. result' \in [Reports -> {"unused", "calling", "failed", "SUCCESS"}]
  BY <1>1, <1>2 DEF Typed, CallsTyped
<1> QED
  BY <1>3, <1>4 DEF Typed, CallsTyped

(* The call that returns keeps the types of the calls.                     *)
LEMMA ReturnsTyped ==
    ASSUME Typed, calls # <<>>, NEW rc \in {"failed", "SUCCESS"}, Returns(rc), UNCHANGED clientTokenNum
    PROVE  CallsTyped'
  BY Stack DEF Typed, CallsTyped, Returns, Replace

(* The answer to a record keeps the types of the lists.                    *)
LEMMA AnswerTyped ==
    ASSUME Typed, NEW i \in Slots, ~AckWaitList[i].isFree, NEW status \in Status,
           Tell(AckWaitList[i].report, status), Unsubscribe(AckWaitList[i].act),
           AckWaitList' = [AckWaitList EXCEPT ![i].isFree = TRUE]
    PROVE  TopicsTyped' /\ ListTyped'
<1>1. AckWaitList[i].report \in Reports /\ AckWaitList[i].act \in Actions
  BY DEF Typed, ListTyped
<1>2. TopicsTyped'
  BY <1>1, UnsubscribeTyped
<1>3. AckWaitList' \in [Slots -> WaitRecord]
  BY DEF Typed, ListTyped, WaitRecord
<1>4. told' \in [Reports -> Seq(Status)]
  BY <1>1 DEF Typed, ListTyped, Tell
<1>5. \A j \in Slots : /\ AckWaitList'[j].report = AckWaitList[j].report
                       /\ AckWaitList'[j].act = AckWaitList[j].act
                       /\ ~AckWaitList'[j].isFree => ~AckWaitList[j].isFree
  BY DEF Typed, ListTyped, WaitRecord
<1> QED
  BY <1>2, <1>3, <1>4, <1>5 DEF Typed, ListTyped

(* Every step keeps the types.                                             *)
LEMMA TypedStep ==
    ASSUME Typed, [Next]_vars
    PROVE  Typed'
<1>1. CASE Report
  <2>1. PICK u \in Uses : Begin(u[1], u[2])
    BY <1>1 DEF Report
  <2>2. TopicsTyped' /\ CallsTyped'
    BY <2>1, BeginTyped, BegunTyped, Domains
  <2> QED
    BY <1>1, <2>2 DEF Report, Typed, ListTyped, WireTyped, DeltasTyped
<1>2. CASE SubscribeAccepted
  <2>1. Top \in CallRecord /\ [Top EXCEPT !.pc = "rejected"] \in CallRecord
    BY <1>2, Stack DEF SubscribeAccepted, Typed, CallsTyped, CallRecord
  <2>2. CallsTyped'
    BY <1>2, <2>1, Stack DEF SubscribeAccepted, Typed, CallsTyped, histVars
  <2>3. TopicsTyped'
    <3>1. Accepted(Top.act) \in Topics /\ Rejected(Top.act) \in Topics
      BY <2>1, Domains DEF CallRecord
    <3>2. Top.acc \in Entries /\ Top.rej \in Entries /\ Top.sticky \in BOOLEAN
      BY <2>1 DEF CallRecord
    <3> DEFINE x == [SubscriptionList[Top.acc] EXCEPT !.count = 1, !.isSticky = Top.sticky]
               l == [SubscriptionList EXCEPT ![Top.acc] = x]
    <3>3. l \in [Entries -> TopicRecord]
      BY <3>2 DEF Typed, TopicsTyped, TopicRecord
    <3>4. SubscriptionList' = [l EXCEPT ![Top.rej].topic = Rejected(Top.act)]
      BY <1>2 DEF SubscribeAccepted
    <3>5. SubscriptionList' \in [Entries -> TopicRecord]
      <4> HIDE DEF l
      <4> QED BY <3>1, <3>2, <3>3, <3>4 DEF TopicRecord
    <3> QED
      BY <1>2, <3>1, <3>5 DEF SubscribeAccepted, Typed, TopicsTyped
  <2> QED
    BY <1>2, <2>2, <2>3 DEF SubscribeAccepted, Typed, ListTyped, WireTyped, DeltasTyped, histVars
<1>3. CASE SubscribeRejected
  <2>1. Top \in CallRecord /\ [Top EXCEPT !.pc = "publish"] \in CallRecord
    BY <1>3, Stack DEF SubscribeRejected, Typed, CallsTyped, CallRecord
  <2>2. CallsTyped'
    BY <1>3, <2>1, Stack DEF SubscribeRejected, Typed, CallsTyped, histVars
  <2>3. TopicsTyped'
    <3>1. Accepted(Top.act) \in Topics /\ Rejected(Top.act) \in Topics
      BY <2>1, Domains DEF CallRecord
    <3>2. Top.acc \in Entries /\ Top.rej \in Entries /\ Top.sticky \in BOOLEAN
      BY <2>1 DEF CallRecord
    <3> QED
      BY <1>3, <3>1, <3>2 DEF SubscribeRejected, Typed, TopicsTyped, TopicRecord
  <2> QED
    BY <1>3, <2>2, <2>3 DEF SubscribeRejected, Typed, ListTyped, WireTyped, DeltasTyped, histVars
<1>4. CASE SubscribeFails
  <2>1. Top \in CallRecord
    BY <1>4, Stack DEF SubscribeFails, Typed, CallsTyped
  <2>2. CallsTyped'
    BY <1>4, ReturnsTyped DEF SubscribeFails
  <2>3. TopicsTyped'
    BY <1>4, <2>1 DEF SubscribeFails, Typed, TopicsTyped, TopicRecord, CallRecord
  <2> QED
    BY <1>4, <2>2, <2>3 DEF SubscribeFails, Typed, ListTyped, WireTyped, DeltasTyped
<1>5. CASE Publish
  <2>1. Top \in CallRecord
    BY <1>5, Stack DEF Publish, Typed, CallsTyped
  <2>2. CallsTyped'
    BY <1>5, ReturnsTyped DEF Publish
  <2> DEFINE q == [report |-> Top.report, token |-> Top.token, act |-> Top.act]
             w == [isFree |-> FALSE, report |-> Top.report, token |-> Top.token, act |-> Top.act]
  <2>3. /\ q \in Request /\ w \in WaitRecord /\ Top.slot \in Slots
        /\ w.report \in Reports /\ w.act \in Actions
    BY <2>1 DEF CallRecord, Request, WaitRecord, Reports
  <2>4. /\ requests' \in {requests \cup {q}, requests}
        /\ AckWaitList' \in {[AckWaitList EXCEPT ![Top.slot] = w], AckWaitList}
    BY <1>5 DEF Publish, Replace
  <2>5. ListTyped'
    <3> HIDE DEF w
    <3> QED BY <1>5, <2>3, <2>4 DEF Publish, Typed, ListTyped
  <2>6. WireTyped'
    <3> HIDE DEF q
    <3> QED BY <1>5, <2>3, <2>4 DEF Publish, Typed, WireTyped
  <2> QED
    BY <1>5, <2>2, <2>5, <2>6 DEF Publish, Typed, TopicsTyped, DeltasTyped
<1>6. CASE Fail
  <2>2. CallsTyped'
    BY <1>6, ReturnsTyped DEF Fail
  <2> QED
    BY <1>6, <2>2 DEF Fail, Typed, TopicsTyped, ListTyped, WireTyped, DeltasTyped, listVars
<1>7. CASE DeliverAck
  <2> DEFINE m    == Head(wire)
             mine == {i \in Slots : ~AckWaitList[i].isFree /\ AckWaitList[i].token = m.token}
             i    == Least(mine)
  <2>1. m \in Message
    BY <1>7, WireRead DEF DeliverAck, Typed, WireTyped
  <2>2. TopicsTyped' /\ ListTyped'
    <3>1. CASE m.topic \in subscribed /\ mine # {}
      <4> DEFINE status == IF m.topic[2] = "accepted" THEN "ACCEPTED" ELSE "REJECTED"
      <4>1. i \in mine
        BY <3>1, LeastIsIn, Domains
      <4>2. /\ Tell(AckWaitList[i].report, status) /\ Unsubscribe(AckWaitList[i].act)
            /\ AckWaitList' = [AckWaitList EXCEPT ![i].isFree = TRUE]
        BY <1>7, <3>1 DEF DeliverAck
      <4>3. status \in Status
        BY DEF Status
      <4>4. i \in Slots /\ ~AckWaitList[i].isFree
        BY <4>1
      <4> HIDE DEF i, status
      <4> QED
        BY <4>2, <4>3, <4>4, AnswerTyped
    <3>2. CASE ~(m.topic \in subscribed /\ mine # {})
      <4>1. UNCHANGED <<told, listVars, topics>>
        BY <1>7, <3>2 DEF DeliverAck
      <4> QED
        BY <4>1 DEF Typed, TopicsTyped, ListTyped, listVars
    <3> QED
      BY <3>1, <3>2
  <2>3. WireTyped'
    BY <1>7, WireRead DEF DeliverAck, Typed, WireTyped
  <2>4. DeltasTyped'
    <3>1. version' \in {version, m.version}
      BY <1>7 DEF DeliverAck
    <3>2. m.version \in 0 .. MaxDeltas
      BY <2>1 DEF Message
    <3> HIDE DEF m
    <3> QED BY <1>7, <3>1, <3>2 DEF DeliverAck, Typed, DeltasTyped
  <2>5. CallsTyped'
    BY <1>7 DEF DeliverAck, Typed, CallsTyped
  <2> QED
    BY <2>2, <2>3, <2>4, <2>5 DEF Typed
<1>8. CASE DeliverDelta
  <2> DEFINE v == Head(wire).version
  <2>1. v \in 1 .. MaxDeltas
    BY <1>8, WireRead DEF DeliverDelta, Typed, WireTyped
  <2>2. /\ \/ version' = v /\ applied' = [applied EXCEPT ![v] = @ + 1]
           \/ UNCHANGED <<version, applied>>
        /\ \/ UNCHANGED <<SubscriptionList, subscribed, clientTokenNum, calls, result, topics>>
           \/ \E u \in Uses : Begin(u[1], u[2])
    BY <1>8 DEF DeliverDelta
  <2>3. TopicsTyped' /\ CallsTyped'
    <3>1. CASE UNCHANGED <<SubscriptionList, subscribed, clientTokenNum, calls, result, topics>>
      BY <3>1 DEF Typed, TopicsTyped, CallsTyped
    <3>2. CASE \E u \in Uses : Begin(u[1], u[2])
      BY <3>2, BeginTyped, BegunTyped, Domains
    <3> QED
      BY <2>2, <3>1, <3>2
  <2>4. DeltasTyped'
    <3> HIDE DEF v
    <3> QED BY <1>8, <2>1, <2>2 DEF DeliverDelta, Typed, DeltasTyped
  <2>5. WireTyped'
    BY <1>8, WireRead DEF DeliverDelta, Typed, WireTyped
  <2> QED
    BY <1>8, <2>3, <2>4, <2>5 DEF DeliverDelta, Typed, ListTyped
<1>9. CASE SendDelta
  <2> DEFINE m == [kind |-> "delta", topic |-> NoTopic, token |-> 0, version |-> sver']
  <2>1. sver' \in 1 .. MaxDeltas /\ deltas' = deltas + 1 /\ sver' <= deltas'
    BY <1>9, RecordsAssumption DEF SendDelta, Typed, DeltasTyped
  <2>2. m \in Message /\ m.version = sver'
    BY <2>1 DEF Message
  <2>3. wire' = Append(wire, m)
    BY <1>9 DEF SendDelta
  <2>4. WireTyped'
    <3> HIDE DEF m
    <3>1. /\ wire' \in Seq(Message) /\ Len(wire') = Len(wire) + 1
          /\ \A n \in 1 .. Len(wire) + 1 : wire'[n] = IF n = Len(wire) + 1 THEN m ELSE wire[n]
      BY <2>2, <2>3, WireGrown DEF Typed, WireTyped
    <3> QED BY <1>9, <2>1, <2>2, <3>1 DEF SendDelta, Typed, WireTyped, histVars
  <2>5. DeltasTyped'
    <3>1. deltas < MaxDeltas /\ UNCHANGED <<version, applied>>
      BY <1>9 DEF SendDelta, histVars
    <3> QED BY <2>1, <3>1, RecordsAssumption DEF Typed, DeltasTyped
  <2> QED
    BY <1>9, <2>4, <2>5 DEF SendDelta, Typed, TopicsTyped, ListTyped, CallsTyped, listVars, histVars
<1>10. ASSUME NEW i \in Slots, Expire(i) PROVE Typed'
  <2>1. TopicsTyped' /\ ListTyped'
    <3>1. "TIMEOUT" \in Status
      BY DEF Status
    <3> QED BY <1>10, <3>1, AnswerTyped DEF Expire
  <2> QED
    BY <1>10, <2>1 DEF Expire, Typed, CallsTyped, WireTyped, DeltasTyped
<1>11. ASSUME NEW q \in requests, NEW v \in {"accepted", "rejected"}, Serve(q, v) PROVE Typed'
  <2> DEFINE m == [kind |-> "ack", topic |-> <<q.act, v>>, token |-> q.token, version |-> sver]
  <2>1. q \in Request
    BY DEF Typed, WireTyped
  <2>2. m \in Message /\ m.kind = "ack"
    <3>1. <<q.act, v>> \in Topics
      BY <2>1 DEF Request, Topics, Accepted, Rejected
    <3> QED BY <2>1, <3>1 DEF Message, Request, Typed, DeltasTyped
  <2>3. wire' = wire \/ wire' = Append(wire, m)
    BY <1>11 DEF Serve
  <2>4. WireTyped'
    <3> HIDE DEF m
    <3>1. /\ wire' \in Seq(Message)
          /\ \A n \in 1 .. Len(wire') : wire'[n].kind = "delta" => wire'[n].version \in 1 .. MaxDeltas
      BY <2>2, <2>3, WireGrown DEF Typed, WireTyped
    <3>2. requests' \subseteq Request /\ said' \in [Reports -> {"nothing", "accepted", "rejected"}]
      BY <1>11, <2>1 DEF Serve, Typed, WireTyped, Request
    <3> QED BY <3>1, <3>2 DEF WireTyped
  <2> QED
    BY <1>11, <2>4 DEF Serve, Typed, TopicsTyped, ListTyped, CallsTyped, DeltasTyped, listVars
<1>12. CASE UNCHANGED vars
  BY <1>12 DEF vars, listVars, histVars, Typed, TopicsTyped, ListTyped, CallsTyped, WireTyped, DeltasTyped
<1> QED
  BY <1>1, <1>2, <1>3, <1>4, <1>5, <1>6, <1>7, <1>8, <1>9, <1>10, <1>11, <1>12 DEF Next, CallStep

(* The types hold at the start.                                            *)
LEMMA TypedInit ==
    ASSUME Init
    PROVE  Typed
<1>1. TopicsTyped
  BY RecordsAssumption DEF Init, TopicsTyped, TopicRecord
<1>2. ListTyped
  BY RecordsAssumption DEF Init, ListTyped, WaitRecord
<1>3. CallsTyped
  BY DEF Init, CallsTyped
<1>4. WireTyped
  BY DEF Init, WireTyped
<1>5. DeltasTyped
  BY RecordsAssumption DEF Init, DeltasTyped
<1> QED
  BY <1>1, <1>2, <1>3, <1>4, <1>5 DEF Typed

(* Typed says at least what TypeOK says.                                   *)
LEMMA TypedIsTypeOK ==
    ASSUME Typed
    PROVE  TypeOK
  BY DEF Typed, TopicsTyped, ListTyped, CallsTyped, WireTyped, DeltasTyped, TypeOK,
         WaitRecord, TopicRecord, CallRecord, Message, Request

(* The lists, the messages in transit and the counters always have their   *)
(* type, nested calls included: no scan yields an index outside of its     *)
(* list, and clients' tokens and versions stay natural numbers.            *)
THEOREM RecordsTypeCorrect == Spec => []TypeOK
<1>1. Init => Typed
  BY TypedInit
<1>2. Typed /\ [Next]_vars => Typed'
  BY TypedStep
<1>3. Typed => TypeOK
  BY TypedIsTypeOK
<1> QED
  BY <1>1, <1>2, <1>3, PTL DEF Spec

-----------------------------------------------------------------------------
(* The inductive invariant.                                                *)

Open   == 1 .. Len(calls)
Acks   == {k \in 1 .. Len(wire) : wire[k].kind = "ack"}
Awaits(i) == ~AckWaitList[i].isFree

(* Report r carries client token r - 1: the tokens are given out in the    *)
(* order of the calls, and never twice.                                    *)
Numbered ==
    /\ \A r \in Reports : result[r] = "unused" <=> r > clientTokenNum
    /\ \A n \in Open : calls[n].report = calls[n].token + 1
    /\ \A i \in Slots : Awaits(i) => AckWaitList[i].report = AckWaitList[i].token + 1
    /\ \A q \in requests : q.report = q.token + 1
    /\ \A k \in Acks : wire[k].token + 1 \in Reports

Framed ==
    /\ \A n \in Open : result[calls[n].report] = "calling"
    /\ \A m, n \in Open : calls[m].report = calls[n].report => m = n

Recorded ==
    /\ \A i \in Slots : Awaits(i) =>
          result[AckWaitList[i].report] = "SUCCESS" /\ told[AckWaitList[i].report] = <<>>
    /\ \A i, j \in Slots : Awaits(i) /\ Awaits(j) /\ AckWaitList[i].report = AckWaitList[j].report => i = j
    /\ \A r \in Reports : told[r] # <<>> => result[r] = "SUCCESS" /\ Len(told[r]) = 1

Served ==
    /\ \A q \in requests : result[q.report] = "SUCCESS" /\ said[q.report] = "nothing"
    /\ \A p, q \in requests : p.report = q.report => p = q
    /\ \A r \in Reports : said[r] # "nothing" => result[r] = "SUCCESS"
    /\ \A k \in Acks : wire[k].topic \in Topics /\ said[wire[k].token + 1] = wire[k].topic[2]

DeltaInv == \A v \in 1 .. MaxDeltas : applied[v] <= 1 /\ (v > version => applied[v] = 0)

Linked == Numbered /\ Framed /\ Recorded /\ Served /\ OwnAnswer

(* No acknowledgement in transit is new.                                   *)
FromWire == \A k \in Acks' : \E j \in Acks : wire'[k] = wire[j]

(* What a step may do to the reports, whatever it does to the topics.      *)
Begins ==
    /\ calls = <<>> \/ Reentrant
    /\ Begun /\ clientTokenNum' = clientTokenNum + 1
    /\ FromWire /\ UNCHANGED <<AckWaitList, requests, told, said>>

Moves(p) ==
    /\ calls # <<>> /\ Top.pc # "fail"
    /\ calls' = Append(Others, [Top EXCEPT !.pc = p])
    /\ UNCHANGED <<AckWaitList, clientTokenNum, requests, wire, told, said, result>>

Fails ==
    /\ calls # <<>> /\ Returns("failed")
    /\ UNCHANGED <<AckWaitList, clientTokenNum, requests, wire, told, said>>

Publishes ==
    /\ calls # <<>> /\ Top.pc = "publish" /\ Returns("SUCCESS")
    /\ requests' = requests \cup {[report |-> Top.report, token |-> Top.token, act |-> Top.act]}
    /\ AckWaitList' = [AckWaitList EXCEPT ![Top.slot] =
          [isFree |-> FALSE, report |-> Top.report, token |-> Top.token, act |-> Top.act]]
    /\ UNCHANGED <<clientTokenNum, wire, told, said>>

Answers(i, status) ==
    /\ Awaits(i) /\ Tell(AckWaitList[i].report, status)
    /\ status = "ACCEPTED" => said[AckWaitList[i].report] = "accepted"
    /\ status = "REJECTED" => said[AckWaitList[i].report] = "rejected"
    /\ AckWaitList' = [AckWaitList EXCEPT ![i].isFree = TRUE]
    /\ FromWire /\ UNCHANGED <<clientTokenNum, calls, requests, said, result>>

Passes == FromWire /\ UNCHANGED <<AckWaitList, clientTokenNum, calls, requests, told, said, result>>

(* The parts of the invariant that speak of what is in transit.            *)
LEMMA WireKept ==
    ASSUME Typed, Numbered, Served, FromWire, UNCHANGED said
    PROVE  \A k \in Acks' : /\ wire'[k].token + 1 \in Reports
                             /\ wire'[k].topic \in Topics
                             /\ said'[wire'[k].token + 1] = wire'[k].topic[2]
  BY DEF Numbered, Served, FromWire

(* Every call on the stack is a frame of its type.                         *)
LEMMA FrameTyped ==
    ASSUME Typed
    PROVE  \A n \in Open : calls[n] \in CallRecord /\ calls[n].report \in Reports
<1>1. \A n \in Open : calls[n] \in CallRecord
  BY DEF Typed, CallsTyped, Open
<1>2. \A f \in CallRecord : f.report \in Reports
  BY DEF CallRecord
<1> QED
  BY <1>1, <1>2

(* A call begins.                                                          *)
LEMMA BeginKeeps ==
    ASSUME Typed, Linked, Begins
    PROVE  Linked'
<1> USE DEF Begins
<1>1. PICK f \in CallRecord :
        /\ result[f.report] = "unused" /\ f.token = clientTokenNum
        /\ \A n \in Reports : result[n] = "unused" => f.report <= n
        /\ calls' = Append(calls, f)
        /\ result' = [result EXCEPT ![f.report] = "calling"]
  BY DEF Begun
<1>2. f.report \in Reports /\ f.token \in Nat
  BY DEF CallRecord
<1>3. f.report = clientTokenNum + 1
  <2>1. clientTokenNum \in Nat /\ MaxReports \in Nat
    BY RecordsAssumption DEF Typed, CallsTyped
  <2>2. f.report > clientTokenNum
    BY <1>1, <1>2 DEF Linked, Numbered
  <2>3. f.report \in 1 .. MaxReports
    BY <1>2 DEF Reports
  <2>4. clientTokenNum + 1 \in 1 .. MaxReports /\ clientTokenNum + 1 > clientTokenNum
    BY <2>1, <2>2, <2>3
  <2>5. result[clientTokenNum + 1] = "unused"
    BY <2>4 DEF Linked, Numbered, Reports
  <2>6. f.report <= clientTokenNum + 1
    BY <1>1, <2>4, <2>5 DEF Reports
  <2> QED
    BY <2>1, <2>2, <2>3, <2>6
<1>4. /\ Len(calls') = Len(calls) + 1 /\ Len(calls) \in Nat
      /\ \A n \in 1 .. Len(calls) + 1 : calls'[n] = IF n = Len(calls) + 1 THEN f ELSE calls[n]
  BY <1>1, Pushed DEF Typed, CallsTyped
<1>5. /\ result'[f.report] = "calling"
      /\ \A r \in Reports : r # f.report => result'[r] = result[r]
  BY <1>1, <1>2 DEF Typed, CallsTyped
<1>6. \A n \in Open : calls[n] \in CallRecord /\ calls[n].report \in Reports
  BY FrameTyped
<1>7. Numbered'
  <2>1. \A r \in Reports : result'[r] = "unused" <=> r > clientTokenNum'
    BY <1>1, <1>2, <1>3, <1>5 DEF Typed, CallsTyped, Linked, Numbered, Reports
  <2>2. \A n \in Open' : calls'[n].report = calls'[n].token + 1
    BY <1>1, <1>3, <1>4 DEF Linked, Numbered, Open
  <2> QED
    BY <2>1, <2>2, WireKept DEF Linked, Numbered, Awaits
<1>8. Framed'
  BY <1>1, <1>2, <1>4, <1>5, <1>6 DEF Linked, Framed, Open
<1>9. Recorded'
  BY <1>1, <1>2, <1>5 DEF Typed, ListTyped, Linked, Recorded, Awaits
<1>10. Served'
  <2>1. \A q \in requests : q.report \in Reports
    BY DEF Typed, WireTyped, Request
  <2> QED
    BY <1>1, <1>2, <1>5, <2>1, WireKept DEF Linked, Served
<1>11. OwnAnswer'
  BY DEF Linked, OwnAnswer
<1> QED
  BY <1>7, <1>8, <1>9, <1>10, <1>11 DEF Linked

(* The innermost call subscribes and goes on.                              *)
LEMMA MoveKeeps ==
    ASSUME Typed, Linked, NEW p \in {"rejected", "publish"}, Moves(p)
    PROVE  Linked'
<1> USE DEF Moves
<1> DEFINE f == [Top EXCEPT !.pc = p]
<1>1. /\ f \in CallRecord /\ f.report = Top.report /\ f.token = Top.token
      /\ Top = calls[Len(calls)] /\ Len(calls) \in Nat \ {0}
  BY Stack DEF Typed, CallsTyped, CallRecord
<1> HIDE DEF f
<1>2. /\ Len(calls') = Len(calls)
      /\ \A n \in 1 .. Len(calls) : calls'[n] = IF n = Len(calls) THEN f ELSE calls[n]
  BY <1>1, Stack DEF Typed, CallsTyped, f
<1>3. Open' = Open /\ \A n \in Open : calls'[n].report = calls[n].report /\ calls'[n].token = calls[n].token
  BY <1>1, <1>2 DEF Open
<1>4. Numbered'
  <2>1. \A n \in Open' : calls'[n].report = calls'[n].token + 1
    BY <1>3 DEF Linked, Numbered
  <2> QED
    BY <2>1 DEF Linked, Numbered, Acks, Awaits
<1>6. Framed'
  <2>1. \A n \in Open' : result'[calls'[n].report] = "calling"
    BY <1>3 DEF Linked, Framed
  <2>2. ASSUME NEW k \in Open, NEW n \in Open, calls'[k].report = calls'[n].report PROVE k = n
    <3>1. calls[k].report = calls[n].report
      BY <1>3, <2>2
    <3>2. \A j, m \in Open : calls[j].report = calls[m].report => j = m
      BY DEF Linked, Framed
    <3> QED
      BY <3>1, <3>2, Zenon
  <2> QED
    BY <1>3, <2>1, <2>2 DEF Framed
<1>5. Recorded' /\ Served' /\ OwnAnswer'
  BY DEF Linked, Recorded, Served, OwnAnswer, Acks, Awaits
<1> QED
  BY <1>4, <1>5, <1>6 DEF Linked

(* The innermost call fails.                                               *)
LEMMA FailKeeps ==
    ASSUME Typed, Linked, Fails
    PROVE  Linked'
<1> USE DEF Fails
<1>1. /\ Top.report \in Reports /\ Top = calls[Len(calls)] /\ Len(calls) \in Nat \ {0}
      /\ \A n \in Open : calls[n].report \in Reports
  BY Stack, FrameTyped DEF Typed, CallsTyped, Open
<1>2. /\ Len(calls') = Len(calls) - 1
      /\ \A n \in 1 .. Len(calls) - 1 : calls'[n] = calls[n]
  BY Stack DEF Typed, CallsTyped, Returns
<1>3. Open' \subseteq Open /\ \A n \in Open' : calls'[n] = calls[n] /\ n # Len(calls)
  BY <1>1, <1>2 DEF Open
<1>4. /\ result[Top.report] = "calling" /\ result'[Top.report] = "failed"
      /\ \A r \in Reports : r # Top.report => result'[r] = result[r]
  BY <1>1 DEF Typed, CallsTyped, Linked, Framed, Open, Returns, Replace
<1>5. \A n \in Open' : calls[n].report # Top.report
  BY <1>1, <1>3 DEF Linked, Framed, Open
<1>6. Numbered'
  BY <1>1, <1>3, <1>4 DEF Linked, Numbered, Acks, Awaits
<1>7. Framed'
  BY <1>1, <1>3, <1>4, <1>5 DEF Linked, Framed
<1>8. Recorded'
  BY <1>4 DEF Typed, ListTyped, Linked, Recorded, Awaits
<1>9. Served'
  <2>1. \A q \in requests : q.report \in Reports
    BY DEF Typed, WireTyped, Request
  <2> QED
    BY <1>4, <2>1 DEF Linked, Served, Acks
<1> QED
  BY <1>6, <1>7, <1>8, <1>9 DEF Linked, OwnAnswer
(* The innermost call publishes, and takes the record it looked up.        *)
LEMMA PublishKeeps ==
    ASSUME Typed, Linked, Publishes
    PROVE  Linked'
<1> USE DEF Publishes
<1> DEFINE new == [report |-> Top.report, token |-> Top.token, act |-> Top.act]
           rec == [isFree |-> FALSE, report |-> Top.report, token |-> Top.token, act |-> Top.act]
<1>1. /\ Top \in CallRecord /\ Top = calls[Len(calls)] /\ Len(calls) \in Nat \ {0}
      /\ \A n \in Open : calls[n].report \in Reports
  BY Stack, FrameTyped DEF Typed, CallsTyped
<1>2. Top.report \in Reports /\ Top.slot \in Slots
  BY <1>1 DEF CallRecord
<1>3. /\ Len(calls') = Len(calls) - 1
      /\ \A n \in 1 .. Len(calls) - 1 : calls'[n] = calls[n]
  BY Stack DEF Typed, CallsTyped, Returns
<1>4. Open' \subseteq Open /\ \A n \in Open' : calls'[n] = calls[n] /\ n # Len(calls)
  BY <1>1, <1>3 DEF Open
<1>5. /\ result[Top.report] = "calling" /\ result'[Top.report] = "SUCCESS"
      /\ \A r \in Reports : r # Top.report => result'[r] = result[r]
      /\ Top.report = Top.token + 1
  BY <1>1, <1>2 DEF Typed, CallsTyped, Linked, Framed, Numbered, Open, Returns, Replace
<1>6. \A n \in Open' : calls[n].report # Top.report
  BY <1>1, <1>4 DEF Linked, Framed, Open
<1>7. /\ \A q \in requests' : q \in requests \/ q = new
      /\ new.report = Top.report /\ new.token = Top.token
  OBVIOUS
<1>8. /\ rec.report = Top.report /\ rec.token = Top.token /\ ~rec.isFree
      /\ \A i \in Slots : AckWaitList'[i] = IF i = Top.slot THEN rec ELSE AckWaitList[i]
  BY <1>2 DEF Typed, ListTyped
<1>9. told[Top.report] = <<>> /\ said[Top.report] = "nothing"
  BY <1>2, <1>5 DEF Linked, Recorded, Served
<1> HIDE DEF new, rec
<1>10. Numbered'
  <2>1. \A r \in Reports : result'[r] = "unused" <=> r > clientTokenNum'
    BY <1>2, <1>5 DEF Linked, Numbered
  <2>2. \A n \in Open' : calls'[n].report = calls'[n].token + 1
    BY <1>4 DEF Linked, Numbered
  <2>3. \A i \in Slots : Awaits(i)' => AckWaitList'[i].report = AckWaitList'[i].token + 1
    BY <1>5, <1>8 DEF Linked, Numbered, Awaits
  <2>4. \A q \in requests' : q.report = q.token + 1
    BY <1>5, <1>7 DEF Linked, Numbered
  <2> QED
    BY <2>1, <2>2, <2>3, <2>4 DEF Linked, Numbered, Acks
<1>11. Framed'
  BY <1>1, <1>4, <1>5, <1>6 DEF Linked, Framed
<1>12. Recorded'
  <2>1. \A i \in Slots : Awaits(i)' => result'[AckWaitList'[i].report] = "SUCCESS" /\ told'[AckWaitList'[i].report] = <<>>
    BY <1>5, <1>8, <1>9 DEF Typed, ListTyped, Linked, Recorded, Awaits
  <2>2. ASSUME NEW i \in Slots, NEW j \in Slots, Awaits(i)', Awaits(j)',
               AckWaitList'[i].report = AckWaitList'[j].report
        PROVE  i = j
    BY <1>5, <1>8, <2>2 DEF Typed, ListTyped, Linked, Recorded, Awaits
  <2>3. \A r \in Reports : told'[r] # <<>> => result'[r] = "SUCCESS" /\ Len(told'[r]) = 1
    BY <1>5, <1>9 DEF Linked, Recorded
  <2> QED
    BY <2>1, <2>2, <2>3 DEF Recorded
<1>13. Served'
  <2>1. \A q \in requests : q.report \in Reports /\ q.report # Top.report
    BY <1>5 DEF Typed, WireTyped, Request, Linked, Served
  <2>2. \A q \in requests' : result'[q.report] = "SUCCESS" /\ said'[q.report] = "nothing"
    BY <1>5, <1>7, <1>9, <2>1 DEF Linked, Served
  <2>3. \A k, q \in requests' : k.report = q.report => k = q
    BY <1>7, <2>1 DEF Linked, Served
  <2>4. \A r \in Reports : said'[r] # "nothing" => result'[r] = "SUCCESS"
    BY <1>5 DEF Linked, Served
  <2> QED
    BY <2>2, <2>3, <2>4 DEF Linked, Served, Acks
<1> QED
  BY <1>10, <1>11, <1>12, <1>13 DEF Linked, OwnAnswer

(* A callback is invoked and its record is given back.                     *)
LEMMA AnswerKeeps ==
    ASSUME Typed, Linked, NEW i \in Slots, NEW status \in Status, Answers(i, status)
    PROVE  Linked'
<1> USE DEF Answers
<1> DEFINE r == AckWaitList[i].report
<1>1. r \in Reports /\ result[r] = "SUCCESS" /\ told[r] = <<>>
  BY DEF Typed, ListTyped, Linked, Recorded, Awaits
<1>2. told'[r] = <<status>> /\ \A n \in Reports : n # r => told'[n] = told[n]
  BY <1>1 DEF Typed, ListTyped, Tell
<1>3. \A j \in Slots : /\ Awaits(j)' => j # i /\ Awaits(j)
                       /\ AckWaitList'[j].report = AckWaitList[j].report
                       /\ AckWaitList'[j].token = AckWaitList[j].token
  BY DEF Typed, ListTyped, WaitRecord, Awaits
<1>4. Numbered'
  BY <1>3, WireKept DEF Linked, Numbered, Open
<1>5. Framed'
  BY DEF Linked, Framed, Open
<1>6. Recorded'
  <2>1. ASSUME NEW j \in Slots, Awaits(j)'
        PROVE  result'[AckWaitList'[j].report] = "SUCCESS" /\ told'[AckWaitList'[j].report] = <<>>
    <3>1. AckWaitList[j].report \in Reports /\ AckWaitList[j].report # r
      BY <1>3, <2>1 DEF Typed, ListTyped, Linked, Recorded, Awaits
    <3> HIDE DEF r
    <3> QED
      BY <1>2, <1>3, <2>1, <3>1 DEF Linked, Recorded
  <2>2. \A j, k \in Slots : Awaits(j)' /\ Awaits(k)' /\ AckWaitList'[j].report = AckWaitList'[k].report => j = k
    BY <1>3 DEF Linked, Recorded
  <2>3. \A n \in Reports : told'[n] # <<>> => result'[n] = "SUCCESS" /\ Len(told'[n]) = 1
    <3>1. Len(<<status>>) = 1
      OBVIOUS
    <3>2. Len(told'[r]) = 1 /\ result'[r] = "SUCCESS"
      BY <1>1, <1>2, <3>1
    <3>3. \A n \in Reports : told[n] # <<>> => result[n] = "SUCCESS" /\ Len(told[n]) = 1
      BY DEF Linked, Recorded
    <3> HIDE DEF r
    <3> QED BY <1>2, <3>2, <3>3
  <2> QED
    BY <2>1, <2>2, <2>3 DEF Recorded
<1>7. Served'
  BY WireKept DEF Linked, Served
<1>8. OwnAnswer'
  <2>1. ASSUME NEW n \in Reports
        PROVE  /\ told'[n] = <<"ACCEPTED">> => said'[n] = "accepted"
               /\ told'[n] = <<"REJECTED">> => said'[n] = "rejected"
    <3>1. CASE n = r
      <4>1. told'[n] = <<status>>
        BY <1>2, <3>1
      <4>2. /\ told'[n] = <<"ACCEPTED">> => status = "ACCEPTED"
            /\ told'[n] = <<"REJECTED">> => status = "REJECTED"
        BY <4>1
      <4> QED
        BY <3>1, <4>2
    <3>2. CASE n # r
      BY <1>2, <3>2 DEF Linked, OwnAnswer
    <3> QED
      BY <3>1, <3>2
  <2> QED
    BY <2>1 DEF OwnAnswer
<1> QED
  BY <1>4, <1>5, <1>6, <1>7, <1>8 DEF Linked

(* Only what is in transit changes.                                        *)
LEMMA TransitKeeps ==
    ASSUME Typed, Linked, Passes
    PROVE  Linked'
<1> USE DEF Passes
<1>1. Numbered'
  BY WireKept DEF Linked, Numbered, Open, Awaits
<1>2. Framed' /\ Recorded' /\ OwnAnswer'
  BY DEF Linked, Framed, Recorded, OwnAnswer, Open, Awaits
<1>3. Served'
  BY WireKept DEF Linked, Served
<1> QED
  BY <1>1, <1>2, <1>3 DEF Linked

(* The service answers.                                                    *)
LEMMA ServeKeeps ==
    ASSUME Typed, Linked, NEW q \in requests, NEW v \in {"accepted", "rejected"}, Serve(q, v)
    PROVE  Linked'
<1> DEFINE m == [kind |-> "ack", topic |-> <<q.act, v>>, token |-> q.token, version |-> sver]
<1>1. q.report \in Reports /\ q.report = q.token + 1 /\ said[q.report] = "nothing"
  BY DEF Typed, WireTyped, Request, Linked, Numbered, Served
<1>2. /\ said'[q.report] = v /\ requests' = requests \ {q}
      /\ \A r \in Reports : r # q.report => said'[r] = said[r]
      /\ UNCHANGED <<AckWaitList, clientTokenNum, calls, told, result>>
  BY <1>1 DEF Serve, Typed, WireTyped, listVars
<1>3. m \in Message /\ m.topic \in Topics /\ m.topic[2] = v /\ m.token = q.token
  <2>1. q \in Request
    BY DEF Typed, WireTyped
  <2>2. <<q.act, v>> \in Topics
    BY <2>1 DEF Request, Topics, Accepted, Rejected
  <2> QED BY <2>1, <2>2 DEF Message, Request, Typed, DeltasTyped
<1>4. wire' = wire \/ wire' = Append(wire, m)
  BY DEF Serve
<1> HIDE DEF m
<1>5. \A k \in Acks' : wire'[k] = m \/ \E j \in Acks : wire'[k] = wire[j]
  <2>1. CASE wire' = wire
    BY <2>1 DEF Acks
  <2>2. CASE wire' = Append(wire, m)
    BY <1>3, <2>2, WireGrown DEF Acks, Typed, WireTyped
  <2> QED
    BY <1>4, <2>1, <2>2
<1>6. \A j \in Acks : wire[j].token + 1 # q.report
  BY <1>1 DEF Linked, Served, Topics, Accepted, Rejected
<1>7. \A k \in Acks' : /\ wire'[k].token + 1 \in Reports /\ wire'[k].topic \in Topics
                       /\ said'[wire'[k].token + 1] = wire'[k].topic[2]
  BY <1>1, <1>2, <1>3, <1>5, <1>6 DEF Linked, Numbered, Served
<1>8. Numbered'
  BY <1>2, <1>7 DEF Linked, Numbered, Open, Awaits
<1>9. Framed' /\ Recorded'
  BY <1>2 DEF Linked, Framed, Recorded, Open, Awaits
<1>10. Served'
  <2>1. \A p \in requests' : p \in requests /\ p.report # q.report /\ p.report \in Reports
    BY <1>2 DEF Linked, Served, Typed, WireTyped, Request
  <2>2. result[q.report] = "SUCCESS"
    BY DEF Linked, Served
  <2>3. \A p \in requests' : result'[p.report] = "SUCCESS" /\ said'[p.report] = "nothing"
    BY <1>2, <2>1 DEF Linked, Served
  <2>4. \A p, k \in requests' : p.report = k.report => p = k
    BY <2>1 DEF Linked, Served
  <2>5. \A r \in Reports : said'[r] # "nothing" => result'[r] = "SUCCESS"
    BY <1>2, <2>2 DEF Linked, Served
  <2> QED
    BY <1>7, <2>3, <2>4, <2>5 DEF Served
<1>11. OwnAnswer'
  BY <1>1, <1>2 DEF Linked, OwnAnswer
<1> QED
  BY <1>8, <1>9, <1>10, <1>11 DEF Linked
(* Every step does one of these things.                                    *)
Effect ==
    \/ Begins \/ Fails \/ Publishes \/ Passes
    \/ \E p \in {"rejected", "publish"} : Moves(p)
    \/ \E i \in Slots, status \in Status : Answers(i, status)
    \/ \E q \in requests, v \in {"accepted", "rejected"} : Serve(q, v)

(* What the client reads leaves the other messages as they were.           *)
LEMMA ReadsFromWire ==
    ASSUME Typed, wire # <<>>, wire' = Tail(wire)
    PROVE  FromWire
<1>1. \A k \in Acks' : k + 1 \in Acks /\ wire'[k] = wire[k + 1]
  BY WireRead DEF Typed, WireTyped, Acks
<1> QED
  BY <1>1 DEF FromWire

(* Every step of the specification has one of the effects.                 *)
LEMMA StepEffect ==
    ASSUME Typed, Linked, [Next]_vars
    PROVE  Effect
<1>0. wire' = wire => FromWire
  BY DEF FromWire, Acks
<1>1. CASE Report
  <2>1. Begun /\ clientTokenNum' = clientTokenNum + 1
    BY <1>1, BeginTyped, Domains DEF Report
  <2> QED
    BY <1>0, <1>1, <2>1 DEF Report, Effect, Begins
<1>2. CASE SubscribeAccepted
  BY <1>2 DEF SubscribeAccepted, Effect, Moves, histVars
<1>3. CASE SubscribeRejected
  BY <1>3 DEF SubscribeRejected, Effect, Moves, histVars
<1>4. CASE SubscribeFails
  BY <1>4 DEF SubscribeFails, Effect, Fails
<1>5. CASE Publish
  BY <1>5 DEF Publish, Effect, Fails, Publishes, Replace
<1>6. CASE Fail
  BY <1>6 DEF Fail, Effect, Fails, listVars
<1>7. CASE DeliverAck
  <2> DEFINE m    == Head(wire)
             mine == {i \in Slots : ~AckWaitList[i].isFree /\ AckWaitList[i].token = m.token}
             i    == Least(mine)
  <2>1. FromWire
    BY <1>7, ReadsFromWire DEF DeliverAck
  <2>2. CASE m.topic \in subscribed /\ mine # {}
    <3> DEFINE status == IF m.topic[2] = "accepted" THEN "ACCEPTED" ELSE "REJECTED"
    <3>1. i \in mine
      BY <2>2, LeastIsIn, Domains
    <3>2. /\ Tell(AckWaitList[i].report, status)
          /\ AckWaitList' = [AckWaitList EXCEPT ![i].isFree = TRUE]
      BY <1>7, <2>2 DEF DeliverAck
    <3>3. i \in Slots /\ Awaits(i) /\ AckWaitList[i].token = m.token
      BY <3>1 DEF Awaits
    <3>4. m.topic \in Topics /\ said[m.token + 1] = m.topic[2]
      <4>1. 1 \in Acks /\ m = wire[1]
        BY <1>7, WireRead DEF DeliverAck, Acks, Typed, WireTyped
      <4> QED BY <4>1 DEF Linked, Served
    <3>5. said[AckWaitList[i].report] = m.topic[2]
      BY <3>3, <3>4 DEF Linked, Numbered
    <3>6. m.topic[2] \in {"accepted", "rejected"}
      BY <3>4 DEF Topics, Accepted, Rejected
    <3>7. /\ status \in Status
          /\ status = "ACCEPTED" => m.topic[2] = "accepted"
          /\ status = "REJECTED" => m.topic[2] = "rejected"
      BY <3>6 DEF Status
    <3>8. UNCHANGED <<clientTokenNum, calls, requests, said, result>>
      BY <1>7 DEF DeliverAck
    <3> HIDE DEF i, status, m
    <3>9. Answers(i, status)
      BY <2>1, <3>2, <3>3, <3>5, <3>7, <3>8 DEF Answers
    <3> QED
      BY <3>3, <3>7, <3>9 DEF Effect
  <2>3. CASE ~(m.topic \in subscribed /\ mine # {})
    <3>1. UNCHANGED <<AckWaitList, clientTokenNum, calls, requests, told, said, result>>
      BY <1>7, <2>3 DEF DeliverAck, listVars
    <3> QED
      BY <2>1, <3>1 DEF Effect, Passes
  <2> QED
    BY <2>2, <2>3
<1>8. CASE DeliverDelta
  <2>1. FromWire /\ UNCHANGED <<AckWaitList, requests, told, said>>
    BY <1>8, ReadsFromWire DEF DeliverDelta
  <2>2. \/ UNCHANGED <<clientTokenNum, calls, result>>
        \/ (calls = <<>> \/ Reentrant) /\ \E u \in Uses : Begin(u[1], u[2])
    BY <1>8 DEF DeliverDelta
  <2>3. CASE UNCHANGED <<clientTokenNum, calls, result>>
    BY <2>1, <2>3 DEF Effect, Passes
  <2>4. CASE (calls = <<>> \/ Reentrant) /\ \E u \in Uses : Begin(u[1], u[2])
    <3>1. Begun /\ clientTokenNum' = clientTokenNum + 1
      BY <2>4, BeginTyped, Domains
    <3> QED BY <2>1, <2>4, <3>1 DEF Effect, Begins
  <2> QED
    BY <2>2, <2>3, <2>4
<1>9. CASE SendDelta
  <2> DEFINE m == [kind |-> "delta", topic |-> NoTopic, token |-> 0, version |-> sver']
  <2>1. wire' = Append(wire, m) /\ m.kind = "delta"
    BY <1>9 DEF SendDelta
  <2>2. wire' \in Seq(Message) /\ wire \in Seq(Message)
    BY TypedStep DEF Typed, WireTyped
  <2> HIDE DEF m
  <2>3. \A k \in Acks' : k \in Acks /\ wire'[k] = wire[k]
    BY <2>1, <2>2 DEF Acks
  <2>4. FromWire
    BY <2>3 DEF FromWire
  <2> QED
    BY <1>9, <2>4 DEF SendDelta, Effect, Passes, listVars, histVars
<1>10. ASSUME NEW i \in Slots, Expire(i) PROVE Effect
  <2>1. "TIMEOUT" \in Status
    BY DEF Status
  <2>2. Answers(i, "TIMEOUT")
    BY <1>0, <1>10 DEF Expire, Answers, Awaits
  <2> QED
    BY <2>1, <2>2 DEF Effect
<1>11. ASSUME NEW q \in requests, NEW v \in {"accepted", "rejected"}, Serve(q, v) PROVE Effect
  BY <1>11 DEF Effect
<1>12. CASE UNCHANGED vars
  BY <1>0, <1>12 DEF vars, listVars, histVars, Effect, Passes
<1> QED
  BY <1>1, <1>2, <1>3, <1>4, <1>5, <1>6, <1>7, <1>8, <1>9, <1>10, <1>11, <1>12 DEF Next, CallStep

(* Every step keeps what links a report's traces.                          *)
LEMMA LinkedStep ==
    ASSUME Typed, Linked, [Next]_vars
    PROVE  Linked'
  BY StepEffect, BeginKeeps, FailKeeps, PublishKeeps, TransitKeeps, MoveKeeps, AnswerKeeps,
     ServeKeeps DEF Effect

(* The links hold at the start, when nothing was reported.                 *)
LEMMA LinkedInit ==
    ASSUME Init
    PROVE  Linked
<1>1. Numbered
  BY DEF Init, Numbered, Awaits, Acks, Open, Reports
<1>2. Framed
  BY DEF Init, Framed, Open
<1>3. Recorded
  BY DEF Init, Recorded, Awaits
<1>4. Served
  BY DEF Init, Served, Acks
<1>5. OwnAnswer
  BY DEF Init, OwnAnswer
<1> QED
  BY <1>1, <1>2, <1>3, <1>4, <1>5 DEF Linked

(* A callback with ACCEPTED or REJECTED always tells the service's verdict *)
(* on that very report, however records are reused, answers delayed and    *)
(* calls nested.                                                           *)
THEOREM AnswersAreOwn == Spec => []OwnAnswer
<1>1. Init => Typed /\ Linked
  BY TypedInit, LinkedInit
<1>2. Typed /\ Linked /\ [Next]_vars => Typed' /\ Linked'
  BY TypedStep, LinkedStep
<1>3. Linked => OwnAnswer
  BY DEF Linked
<1> QED
  BY <1>1, <1>2, <1>3, PTL DEF Spec

(* Every step keeps: no delta was applied twice, and none above the        *)
(* version known.                                                          *)
LEMMA DeltaStep ==
    ASSUME Typed, DeltaInv, [Next]_vars
    PROVE  DeltaInv'
<1>1. CASE DeliverDelta
  <2> DEFINE v == Head(wire).version
  <2>1. v \in 1 .. MaxDeltas
    BY <1>1, WireRead DEF DeliverDelta, Typed, WireTyped
  <2>2. \/ (v > version) /\ (version' = v) /\ (applied' = [applied EXCEPT ![v] = @ + 1])
        \/ UNCHANGED <<version, applied>>
    BY <1>1 DEF DeliverDelta, IsNew
  <2>3. CASE UNCHANGED <<version, applied>>
    BY <2>3 DEF DeltaInv
  <2>4. CASE (v > version) /\ (version' = v) /\ (applied' = [applied EXCEPT ![v] = @ + 1])
    <3> HIDE DEF v
    <3>1. version \in Nat /\ applied \in [1 .. MaxDeltas -> Nat] /\ applied[v] = 0
      BY <2>1, <2>4 DEF DeltaInv, Typed, DeltasTyped
    <3>2. applied'[v] = 1 /\ \A k \in 1 .. MaxDeltas : k # v => applied'[k] = applied[k]
      BY <2>1, <2>4, <3>1
    <3>3. ASSUME NEW k \in 1 .. MaxDeltas
          PROVE  applied'[k] <= 1 /\ (k > version' => applied'[k] = 0)
      <4>1. applied[k] <= 1 /\ (k > version => applied[k] = 0)
        BY DEF DeltaInv
      <4> QED BY <2>1, <2>4, <3>1, <3>2, <4>1
    <3> QED
      BY <3>3 DEF DeltaInv
  <2> QED
    BY <2>2, <2>3, <2>4
<1>2. CASE DeliverAck
  <2> DEFINE m == Head(wire)
  <2>1. /\ applied' = applied
        /\ \/ version' = version
           \/ (version' = m.version) /\ (m.version > version)
    BY <1>2 DEF DeliverAck
  <2>2. m.version \in Nat /\ version \in Nat
    BY <1>2, WireRead DEF DeliverAck, Message, Typed, WireTyped, DeltasTyped
  <2> HIDE DEF m
  <2> QED
    BY <2>1, <2>2 DEF DeltaInv
<1>3. CASE UNCHANGED <<version, applied>>
  BY <1>3 DEF DeltaInv
<1>4. \/ DeliverDelta \/ DeliverAck \/ UNCHANGED <<version, applied>>
  BY DEF Next, CallStep, vars, histVars, Report, SubscribeAccepted, SubscribeRejected, SubscribeFails,
         Publish, Fail, SendDelta, Expire, Serve
<1> QED
  BY <1>1, <1>2, <1>3, <1>4

(* No delta reaches its handler twice: shadow_delta_callback raises the    *)
(* version before the handler runs, and no acknowledgement lowers it.      *)
THEOREM DeltasAppliedOnce == Spec => []DeltaAppliedOnce
<1>1. Init => Typed /\ DeltaInv
  BY TypedInit DEF Init, DeltaInv
<1>2. Typed /\ DeltaInv /\ [Next]_vars => Typed' /\ DeltaInv'
  BY TypedStep, DeltaStep
<1>3. DeltaInv => DeltaAppliedOnce
  BY DEF DeltaInv, DeltaAppliedOnce
<1> QED
  BY <1>1, <1>2, <1>3, PTL DEF Spec
-----------------------------------------------------------------------------
(* The refinement of ShadowReports.                                        *)

State == [r \in Reports |-> Seen(r)]

(* Every step is, as the program sees the reports, a step of ShadowReports *)
(* or none.                                                                *)
LEMMA SeenStep ==
    ASSUME Typed, Linked, [Next]_vars
    PROVE  [Promise!Next]_State
<1> USE DEF State
<1>1. \A r \in Reports : told[r] \in Seq(Status) /\ State[r] = Seen(r) /\ State'[r] = Seen(r)'
  BY DEF Typed, ListTyped
<1>2. ASSUME UNCHANGED <<told, result>> PROVE State' = State
  BY <1>2 DEF Seen
<1>3. CASE Begins
  <2>1. PICK f \in CallRecord :
          result[f.report] = "unused" /\ result' = [result EXCEPT ![f.report] = "calling"]
    BY <1>3 DEF Begins, Begun
  <2> DEFINE r == f.report
  <2>2. r \in Reports /\ told[r] = <<>>
    BY <2>1 DEF CallRecord, Linked, Recorded
  <2>3. State[r] = "unused" /\ State' = [State EXCEPT ![r] = "calling"]
    <3>1. UNCHANGED told
      BY <1>3 DEF Begins
    <3> HIDE DEF r
    <3> QED BY <2>1, <2>2, <3>1 DEF Seen, Typed, CallsTyped, r
  <2> QED
    BY <2>2, <2>3 DEF Promise!Next, Promise!Call, Promise!Move
<1>4. ASSUME calls # <<>>, NEW rc \in {"failed", "SUCCESS"}, Returns(rc), UNCHANGED told
      PROVE  Promise!Next
  <2> DEFINE r == Top.report
             to == IF rc = "SUCCESS" THEN "waiting" ELSE "failed"
  <2>1. r \in Reports /\ result[r] = "calling"
    <3>1. Len(calls) \in Open /\ Top = calls[Len(calls)]
      BY <1>4, Stack DEF Open, Typed, CallsTyped
    <3> QED BY <3>1, FrameTyped DEF Linked, Framed
  <2>2. told[r] = <<>>
    BY <2>1 DEF Linked, Recorded
  <2>3. result' = [result EXCEPT ![r] = rc]
    BY <1>4 DEF Returns, Replace
  <2>4. State[r] = "calling" /\ State' = [State EXCEPT ![r] = to]
    <3> HIDE DEF r
    <3> QED BY <1>4, <2>1, <2>2, <2>3 DEF Seen, Typed, CallsTyped, r
  <2> QED
    BY <1>4, <2>1, <2>4 DEF Promise!Next, Promise!Fail, Promise!Succeed, Promise!Move
<1>5. CASE Fails
  BY <1>4, <1>5 DEF Fails
<1>6. CASE Publishes
  BY <1>4, <1>6 DEF Publishes
<1>7. ASSUME NEW i \in Slots, NEW status \in Status, Answers(i, status)
      PROVE  Promise!Next
  <2> DEFINE r == AckWaitList[i].report
  <2>1. r \in Reports /\ result[r] = "SUCCESS" /\ told[r] = <<>>
    BY <1>7 DEF Answers, Typed, ListTyped, Linked, Recorded, Awaits
  <2>2. told'[r] = <<status>> /\ \A n \in Reports : n # r => told'[n] = told[n]
    BY <1>7, <2>1 DEF Answers, Typed, ListTyped, Tell
  <2>3. Len(<<status>>) = 1 /\ <<status>>[1] = status /\ <<status>> # <<>>
    OBVIOUS
  <2>4. UNCHANGED result
    BY <1>7 DEF Answers
  <2>5. State[r] = "waiting" /\ State'[r] = status /\ \A n \in Reports : n # r => State'[n] = State[n]
    <3> HIDE DEF r
    <3> QED BY <2>1, <2>2, <2>3, <2>4 DEF Seen
  <2>6. State' = [State EXCEPT ![r] = status]
    <3> HIDE DEF r
    <3> QED BY <2>1, <2>5
  <2> QED
    BY <2>1, <2>5, <2>6 DEF Promise!Next, Promise!Answer, Promise!Move, Promise!Answers, Status
<1>8. CASE Passes
  BY <1>2, <1>8 DEF Passes
<1>9. ASSUME NEW p \in {"rejected", "publish"}, Moves(p) PROVE State' = State
  BY <1>2, <1>9 DEF Moves
<1>10. ASSUME NEW q \in requests, NEW v \in {"accepted", "rejected"}, Serve(q, v) PROVE State' = State
  BY <1>2, <1>10 DEF Serve
<1> HIDE DEF State
<1> QED
  BY <1>3, <1>5, <1>6, <1>7, <1>8, <1>9, <1>10, StepEffect DEF Effect

(* The lists implement ShadowReports: a call fails, or its callback comes  *)
(* at most once and only after the call succeeded, for every history of    *)
(* lost, late and nested answers.                                          *)
THEOREM ReportsImplemented == Spec => ImplementsReports
<1>1. Init => Promise!Init
  BY DEF Init, Promise!Init, Seen
<1>2. Init => Typed /\ Linked
  BY TypedInit, LinkedInit
<1>3. Typed /\ Linked /\ [Next]_vars => Typed' /\ Linked'
  BY TypedStep, LinkedStep
<1>4. Typed /\ Linked /\ [Next]_vars => [Promise!Next]_[r \in Reports |-> Seen(r)]
  BY SeenStep DEF State
<1> QED
  BY <1>1, <1>2, <1>3, <1>4, PTL DEF Spec, ImplementsReports, Promise!Spec
-----------------------------------------------------------------------------
(* Without nested calls no record is taken that is in use.                 *)

OneCall ==
    /\ Len(calls) <= 1
    /\ \A n \in Open : calls[n].pc # "fail" => AckWaitList[calls[n].slot].isFree

(* Without nested calls every step keeps the record that a call has looked *)
(* up free until the call takes it, and forgets no report.                 *)
LEMMA RememberedStep ==
    ASSUME Typed, Linked, OneCall, NoReportForgotten, [Next]_vars, ~Reentrant
    PROVE  OneCall' /\ NoReportForgotten'
<1>0. calls \in Seq(CallRecord) /\ \A r \in Reports : told[r] \in Seq(Status)
  BY DEF Typed, CallsTyped, ListTyped
<1>1. CASE Begins
  <2>1. PICK f \in CallRecord :
          /\ calls' = Append(calls, f) /\ result' = [result EXCEPT ![f.report] = "calling"]
          /\ f.pc # "fail" => AckWaitList[f.slot].isFree
    BY <1>1 DEF Begins, Begun
  <2>2. Len(calls') = 1 /\ calls'[1] = f
    BY <1>1, <2>1 DEF Begins
  <2>3. f.report \in Reports /\ UNCHANGED <<AckWaitList, told>>
    BY <1>1 DEF Begins, CallRecord
  <2>4. OneCall'
    BY <2>1, <2>2, <2>3 DEF OneCall, Open
  <2>5. \A r \in Reports : result'[r] = "SUCCESS" => result[r] = "SUCCESS"
    BY <2>1, <2>3 DEF Typed, CallsTyped
  <2> QED
    BY <2>3, <2>4, <2>5 DEF NoReportForgotten
<1>2. ASSUME NEW rc \in {"failed", "SUCCESS"}, calls # <<>>, Returns(rc)
      PROVE  OneCall' /\ Top \in CallRecord /\ Top = calls[1] /\ 1 \in Open
  BY <1>2, Stack DEF Returns, Typed, CallsTyped, OneCall, Open
<1>3. CASE Fails
  <2>1. OneCall' /\ Top.report \in Reports
    BY <1>2, <1>3 DEF Fails, CallRecord
  <2>2. \A r \in Reports : result'[r] = "SUCCESS" => result[r] = "SUCCESS"
    BY <1>3, <2>1 DEF Fails, Returns, Replace, Typed, CallsTyped
  <2> QED
    BY <1>3, <2>1, <2>2 DEF Fails, NoReportForgotten
<1>4. CASE Publishes
  <2> DEFINE rec == [isFree |-> FALSE, report |-> Top.report, token |-> Top.token, act |-> Top.act]
  <2>1. OneCall' /\ Top \in CallRecord /\ AckWaitList[Top.slot].isFree
    <3>1. OneCall' /\ Top \in CallRecord /\ Top = calls[1] /\ 1 \in Open /\ Top.pc = "publish"
      BY <1>2, <1>4 DEF Publishes
    <3> QED
      BY <3>1 DEF OneCall
  <2>2. Top.report \in Reports /\ Top.slot \in Slots
    BY <2>1 DEF CallRecord
  <2>3. /\ \A r \in Reports : r # Top.report => result'[r] = result[r]
        /\ UNCHANGED told
    BY <1>4, <2>2 DEF Publishes, Returns, Replace, Typed, CallsTyped
  <2>4. /\ ~rec.isFree /\ rec.report = Top.report
        /\ \A i \in Slots : AckWaitList'[i] = IF i = Top.slot THEN rec ELSE AckWaitList[i]
    BY <1>4, <2>2 DEF Publishes, Typed, ListTyped
  <2> HIDE DEF rec
  <2>5. ASSUME NEW r \in Reports, result'[r] = "SUCCESS", told'[r] = <<>>
        PROVE  \E i \in Slots : ~AckWaitList'[i].isFree /\ AckWaitList'[i].report = r
    <3>1. CASE r = Top.report
      BY <2>2, <2>4, <3>1
    <3>2. CASE r # Top.report
      <4>1. PICK i \in Slots : ~AckWaitList[i].isFree /\ AckWaitList[i].report = r
        BY <2>3, <2>5, <3>2 DEF NoReportForgotten
      <4> QED
        BY <2>1, <2>4, <4>1
    <3> QED
      BY <3>1, <3>2
  <2> QED
    BY <2>1, <2>5 DEF NoReportForgotten
<1>5. ASSUME NEW i \in Slots, NEW status \in Status, Answers(i, status)
      PROVE  OneCall' /\ NoReportForgotten'
  <2> DEFINE r == AckWaitList[i].report
  <2>1. r \in Reports /\ told[r] = <<>>
    BY <1>5 DEF Answers, Typed, ListTyped, Linked, Recorded, Awaits
  <2>2. told'[r] # <<>> /\ \A n \in Reports : n # r => told'[n] = told[n]
    BY <1>5, <2>1 DEF Answers, Typed, ListTyped, Tell
  <2>3. \A j \in Slots : /\ AckWaitList[j].isFree => AckWaitList'[j].isFree
                         /\ j # i => AckWaitList'[j] = AckWaitList[j]
    BY <1>5 DEF Answers, Typed, ListTyped, WaitRecord
  <2>4. UNCHANGED <<calls, result>>
    BY <1>5 DEF Answers
  <2>5. OneCall'
    <3>1. \A n \in Open : calls[n].slot \in Slots
      BY FrameTyped DEF CallRecord
    <3> QED BY <2>3, <2>4, <3>1 DEF OneCall, Open
  <2>6. ASSUME NEW n \in Reports, result'[n] = "SUCCESS", told'[n] = <<>>
        PROVE  \E j \in Slots : ~AckWaitList'[j].isFree /\ AckWaitList'[j].report = n
    <3>1. n # r /\ told[n] = <<>>
      BY <2>2, <2>6
    <3>2. PICK j \in Slots : ~AckWaitList[j].isFree /\ AckWaitList[j].report = n
      BY <2>4, <2>6, <3>1 DEF NoReportForgotten
    <3>3. j # i
      BY <3>1, <3>2
    <3> QED
      BY <2>3, <3>2, <3>3
  <2> QED
    BY <2>5, <2>6 DEF NoReportForgotten
<1>6. ASSUME NEW p \in {"rejected", "publish"}, Moves(p)
      PROVE  OneCall' /\ NoReportForgotten'
  <2> DEFINE f == [Top EXCEPT !.pc = p]
  <2>1. /\ Top = calls[1] /\ Len(calls) = 1 /\ 1 \in Open /\ Top.pc # "fail"
        /\ f \in CallRecord /\ f.slot = Top.slot
    BY <1>6, Stack DEF Moves, OneCall, Open, Typed, CallsTyped, CallRecord
  <2> HIDE DEF f
  <2>2. Len(calls') = 1 /\ calls'[1] = f
    BY <1>6, <2>1, Stack DEF Moves, Typed, CallsTyped, f
  <2>3. UNCHANGED <<AckWaitList, told, result>>
    BY <1>6 DEF Moves
  <2> QED
    BY <2>1, <2>2, <2>3 DEF OneCall, Open, NoReportForgotten
<1>7. ASSUME UNCHANGED <<AckWaitList, told, result, calls>>
      PROVE  OneCall' /\ NoReportForgotten'
  BY <1>7 DEF OneCall, Open, NoReportForgotten
<1>8. CASE Passes
  BY <1>7, <1>8 DEF Passes
<1>9. ASSUME NEW q \in requests, NEW v \in {"accepted", "rejected"}, Serve(q, v)
      PROVE  OneCall' /\ NoReportForgotten'
  BY <1>7, <1>9 DEF Serve, listVars
<1> QED
  BY <1>1, <1>3, <1>4, <1>5, <1>6, <1>8, <1>9, StepEffect DEF Effect

(* Where no delta's handler reports inside another call, a report whose    *)
(* call succeeded is in the list until its callback comes.  (With nested   *)
(* calls the outer call takes a record that the inner one took meanwhile:  *)
(* the run shadow_reentrant.)                                              *)
THEOREM ReportsRemembered ==
    ASSUME ~Reentrant
    PROVE  Spec => []NoReportForgotten
<1>1. Init => Typed /\ Linked /\ OneCall /\ NoReportForgotten
  BY TypedInit, LinkedInit DEF Init, OneCall, Open, NoReportForgotten
<1>2. /\ Typed /\ Linked /\ OneCall /\ NoReportForgotten /\ [Next]_vars
      => Typed' /\ Linked' /\ OneCall' /\ NoReportForgotten'
  BY TypedStep, LinkedStep, RememberedStep
<1> QED
  BY <1>1, <1>2, PTL DEF Spec

-----------------------------------------------------------------------------
(* The topics that are awaited are subscribed.  Without nested calls, and    *)
(* as long as no subscription failed, the two entries of an action are used  *)
(* together: both count at least the reports that wait on their topics, and  *)
(* a scan of the list finds them before any entry left over.                *)

\* how many reports of action a wait for an answer, the one about to included
AwaitCount(list, a) == Cardinality({i \in Slots : ~list[i].isFree /\ list[i].act = a})
InCall(a) == calls # <<>> /\ Top.pc = "publish" /\ Top.act = a
Users(a)  == AwaitCount(AckWaitList, a) + IF InCall(a) THEN 1 ELSE 0

\* An entry in use is settled when its subscription is complete.
Subscribing == calls # <<>> /\ Top.pc \in {"accepted", "rejected"}
Settled(e)  == ~SubscriptionList[e].isFree /\ ~(Subscribing /\ e \in {Top.acc, Top.rej})
Holds(e, t) == Settled(e) /\ SubscriptionList[e].topic = t

OneEntry ==
    \A e, f \in Entries :
        Settled(e) /\ Settled(f) /\ SubscriptionList[e].topic = SubscriptionList[f].topic => e = f

FirstEntry ==
    \A e, f \in Entries :
        ~Settled(e) /\ Settled(f) /\ SubscriptionList[e].topic = SubscriptionList[f].topic => f < e

Alike(e, f) == /\ SubscriptionList[e].count = SubscriptionList[f].count
               /\ SubscriptionList[e].isSticky = SubscriptionList[f].isSticky
Paired ==
    \A a \in Actions, e \in Entries :
        /\ Holds(e, Accepted(a)) => \E f \in Entries : Holds(f, Rejected(a)) /\ Alike(e, f)
        /\ Holds(e, Rejected(a)) => \E f \in Entries : Holds(f, Accepted(a)) /\ Alike(e, f)

Counts ==
    \A e \in Entries : Settled(e) =>
        /\ SubscriptionList[e].topic \in subscribed
        /\ \A a \in Actions : SubscriptionList[e].topic \in {Accepted(a), Rejected(a)} =>
                                 Users(a) <= SubscriptionList[e].count

Found == \A a \in Actions : Users(a) > 0 => \E e \in Entries : Holds(e, Accepted(a))

\* The two entries that a subscription under way has taken.
PreparesFor(a, acc, rej) ==
    /\ acc # rej /\ ~SubscriptionList[acc].isFree /\ ~SubscriptionList[rej].isFree
    /\ SubscriptionList[acc].topic = Accepted(a)
    /\ \A e \in Entries : ~Holds(e, Accepted(a)) /\ ~Holds(e, Rejected(a))
    /\ \A e \in Entries : SubscriptionList[e].isFree =>
         /\ SubscriptionList[e].topic = Accepted(a) => acc < e
         /\ SubscriptionList[e].topic = Rejected(a) => rej < e
Halfway(a, acc, rej, sticky) ==
    /\ SubscriptionList[rej].topic = Rejected(a) /\ Accepted(a) \in subscribed
    /\ SubscriptionList[acc].count = 1 /\ SubscriptionList[acc].isSticky = sticky
Preparing ==
    Subscribing => /\ PreparesFor(Top.act, Top.acc, Top.rej)
                   /\ Top.pc = "rejected" => Halfway(Top.act, Top.acc, Top.rej, Top.sticky)

Kept == OneEntry /\ FirstEntry /\ Paired /\ Counts /\ Found /\ Preparing

(* The topics of an action are two, and no other action's.                  *)
LEMMA TopicsDiffer ==
    \A a, b \in Actions : /\ Accepted(a) # Rejected(b)
                          /\ Accepted(a) = Accepted(b) => a = b
                          /\ Rejected(a) = Rejected(b) => a = b
<1> SUFFICES ASSUME NEW a \in Actions, NEW b \in Actions
             PROVE  /\ Accepted(a) # Rejected(b)
                    /\ Accepted(a) = Accepted(b) => a = b
                    /\ Rejected(a) = Rejected(b) => a = b
  OBVIOUS
<1>1. Accepted(a)[1] = a /\ Accepted(b)[1] = b /\ Accepted(a)[2] = "accepted"
  BY DEF Accepted
<1>2. Rejected(a)[1] = a /\ Rejected(b)[1] = b /\ Rejected(b)[2] = "rejected"
  BY DEF Rejected
<1>3. "accepted" # "rejected"
  OBVIOUS
<1> QED
  BY <1>1, <1>2, <1>3

(* A topic is one of an action.                                             *)
LEMMA TopicOfAction ==
    \A t \in Topics : \E a \in Actions : t \in {Accepted(a), Rejected(a)}
  BY DEF Topics

(* The awaited reports of an action are finitely many.                      *)
LEMMA CountFacts ==
    ASSUME NEW list, NEW a
    PROVE  /\ IsFiniteSet({i \in Slots : ~list[i].isFree /\ list[i].act = a})
           /\ AwaitCount(list, a) \in Nat
           /\ AwaitCount(list, a) = 0 <=> \A i \in Slots : ~(~list[i].isFree /\ list[i].act = a)
<1> DEFINE W == {i \in Slots : ~list[i].isFree /\ list[i].act = a}
<1>1. IsFiniteSet(Slots)
  <2>1. 0 \in Int /\ MaxAcks - 1 \in Int
    BY RecordsAssumption
  <2> QED
    BY <2>1, FS_Interval, Zenon DEF Slots
<1>2. IsFiniteSet(W)
  BY <1>1, FS_Subset
<1>3. Cardinality(W) \in Nat /\ (Cardinality(W) = 0 <=> W = {})
  BY <1>2, FS_CardinalityType, FS_EmptySet
<1> QED
  BY <1>2, <1>3 DEF AwaitCount

(* A record that is freed, and one that is taken.                           *)
LEMMA CountFreed ==
    ASSUME NEW list \in [Slots -> WaitRecord], NEW i \in Slots, ~list[i].isFree, NEW a
    PROVE  AwaitCount([list EXCEPT ![i].isFree = TRUE], a)
             = IF a = list[i].act THEN AwaitCount(list, a) - 1 ELSE AwaitCount(list, a)
<1> DEFINE W == {j \in Slots : ~list[j].isFree /\ list[j].act = a}
           new == [list EXCEPT ![i].isFree = TRUE]
           V == {j \in Slots : ~new[j].isFree /\ new[j].act = a}
<1>1. IsFiniteSet(W) /\ AwaitCount(list, a) = Cardinality(W) /\ AwaitCount(new, a) = Cardinality(V)
  BY CountFacts DEF AwaitCount
<1>2. new[i].isFree /\ \A j \in Slots : j # i => new[j] = list[j]
  BY DEF WaitRecord
<1>3. V = W \ {i}
  <2> HIDE DEF new
  <2> QED BY <1>2
<1>4. i \in W <=> a = list[i].act
  OBVIOUS
<1> HIDE DEF W, V, new
<1>5. CASE i \in W
  <2>1. Cardinality(W \ {i}) = Cardinality(W) - 1
    BY <1>1, <1>5, FS_RemoveElement
  <2> QED
    BY <1>1, <1>3, <1>4, <1>5, <2>1 DEF new
<1>6. CASE i \notin W
  <2>1. W \ {i} = W
    BY <1>6
  <2> QED
    BY <1>1, <1>3, <1>4, <1>6, <2>1 DEF new
<1> QED
  BY <1>5, <1>6

\* A record that is taken.
LEMMA CountTaken ==
    ASSUME NEW list \in [Slots -> WaitRecord], NEW new, NEW i \in Slots, list[i].isFree, ~new[i].isFree,
           \A j \in Slots : j # i => new[j] = list[j], NEW a
    PROVE  AwaitCount(new, a)
             = IF a = new[i].act THEN AwaitCount(list, a) + 1 ELSE AwaitCount(list, a)
<1> DEFINE W == {j \in Slots : ~list[j].isFree /\ list[j].act = a}
           V == {j \in Slots : ~new[j].isFree /\ new[j].act = a}
<1>1. IsFiniteSet(W) /\ AwaitCount(list, a) = Cardinality(W) /\ AwaitCount(new, a) = Cardinality(V)
  BY CountFacts DEF AwaitCount
<1>2. i \notin W
  OBVIOUS
<1>3. V = IF a = new[i].act THEN W \cup {i} ELSE W
  OBVIOUS
<1> HIDE DEF W, V
<1>4. Cardinality(W \cup {i}) = Cardinality(W) + 1
  BY <1>1, <1>2, FS_AddElement
<1> QED
  BY <1>1, <1>3, <1>4

(* What the types say of an entry.                                          *)
LEMMA EntryTyped ==
    ASSUME Typed, NEW e \in Entries
    PROVE  /\ SubscriptionList[e] \in TopicRecord /\ SubscriptionList[e].count \in Nat /\ e \in Nat
           /\ SubscriptionList[e].isFree \in BOOLEAN /\ SubscriptionList[e].isSticky \in BOOLEAN
<1>1. SubscriptionList[e] \in TopicRecord /\ e \in Nat
  BY Domains DEF Typed, TopicsTyped
<1> QED
  BY <1>1, TopicUpdate

(* A step that leaves the topics alone and adds no user.                    *)
LEMMA KeptQuiet ==
    ASSUME Typed, Kept, UNCHANGED <<SubscriptionList, subscribed>>,
           \A e \in Entries : Settled(e)' <=> Settled(e),
           \A a \in Actions : Users(a)' \in Nat /\ Users(a) \in Nat /\ Users(a)' <= Users(a),
           ~Subscribing' \/ (Subscribing /\ UNCHANGED calls)
    PROVE  Kept'
<1> USE DEF Kept
<1>1. OneEntry' /\ FirstEntry'
  BY DEF OneEntry, FirstEntry
<1>2. \A t : \A e \in Entries : Holds(e, t)' <=> Holds(e, t)
  BY DEF Holds
<1>3. \A e, f \in Entries : Alike(e, f)' <=> Alike(e, f)
  BY DEF Alike
<1>4. Paired'
  BY <1>2, <1>3 DEF Paired
<1>5. Counts'
  <2> SUFFICES ASSUME NEW e \in Entries, Settled(e), NEW a \in Actions,
                      SubscriptionList[e].topic \in {Accepted(a), Rejected(a)}
               PROVE  Users(a)' <= SubscriptionList[e].count
    BY DEF Counts
  <2>1. Users(a) <= SubscriptionList[e].count /\ SubscriptionList[e].count \in Nat
    BY EntryTyped DEF Counts
  <2>2. \A x, y, z \in Nat : x <= y /\ y <= z => x <= z
    OBVIOUS
  <2> QED
    BY <2>1, <2>2
<1>6. Found'
  <2> SUFFICES ASSUME NEW a \in Actions, Users(a)' > 0 PROVE \E e \in Entries : Holds(e, Accepted(a))
    BY <1>2 DEF Found
  <2>1. \A x, y \in Nat : x <= y /\ x > 0 => y > 0
    OBVIOUS
  <2> QED
    BY <2>1 DEF Found
<1>7. Preparing'
  BY <1>2 DEF Preparing, PreparesFor, Halfway, Top, Subscribing
<1> QED
  BY <1>1, <1>4, <1>5, <1>6, <1>7

\* Who uses a topic, in terms of the list and of the call under way.
LEMMA UsersFacts ==
    \A a \in Actions :
        /\ Users(a) \in Nat
        /\ ~InCall(a) => Users(a) = AwaitCount(AckWaitList, a)
        /\ InCall(a) => Users(a) = AwaitCount(AckWaitList, a) + 1
<1> SUFFICES ASSUME NEW a \in Actions
             PROVE  /\ Users(a) \in Nat
                    /\ ~InCall(a) => Users(a) = AwaitCount(AckWaitList, a)
                    /\ InCall(a) => Users(a) = AwaitCount(AckWaitList, a) + 1
  OBVIOUS
<1>1. AwaitCount(AckWaitList, a) \in Nat
  BY CountFacts
<1> QED
  BY <1>1 DEF Users

\* The same after a step.
LEMMA UsersAfter ==
    \A a \in Actions :
        /\ Users(a)' \in Nat
        /\ ~InCall(a)' => Users(a)' = AwaitCount(AckWaitList', a)
        /\ InCall(a)' => Users(a)' = AwaitCount(AckWaitList', a) + 1
<1> SUFFICES ASSUME NEW a \in Actions
             PROVE  /\ Users(a)' \in Nat
                    /\ ~InCall(a)' => Users(a)' = AwaitCount(AckWaitList', a)
                    /\ InCall(a)' => Users(a)' = AwaitCount(AckWaitList', a) + 1
  OBVIOUS
<1>1. AwaitCount(AckWaitList', a) \in Nat
  BY CountFacts
<1>2. Users(a)' = AwaitCount(AckWaitList', a) + IF InCall(a)' THEN 1 ELSE 0
  BY DEF Users, AwaitCount
<1> QED
  BY <1>1, <1>2

\* The entry is given back and the topic left, it counts one report less, or
\* nothing changes.
LeftAs(list, subs, t, e, x) ==
    \/ Drops(list[e]) /\ x.list = [list EXCEPT ![e].isFree = TRUE] /\ x.subs = subs \ {t}
    \/ ~Drops(list[e]) /\ Shared(list[e]) /\ x.list = [list EXCEPT ![e].count = @ - 1] /\ x.subs = subs
    \/ ~Drops(list[e]) /\ ~Shared(list[e]) /\ x.list = list /\ x.subs = subs

(* Leaving a topic, when its entry is the first that has it.                *)
LEMMA LeftFirst ==
    ASSUME NEW list, NEW subs, NEW t, NEW ok, NEW e \in Entries,
           ~list[e].isFree, list[e].topic = t,
           \A g \in Entries : ~list[g].isFree /\ list[g].topic = t => e <= g,
           Left(list, subs, t, ok).kept
    PROVE  LeftAs(list, subs, t, e, Left(list, subs, t, ok))
<1> DEFINE es == {g \in Entries : ~list[g].isFree /\ list[g].topic = t}
<1>1. e \in es /\ \A g \in es : e <= g
  OBVIOUS
<1>2. es \in SUBSET Nat
  BY Domains
<1>3. Least(es) \in es /\ \A g \in es : Least(es) <= g
  BY <1>1, <1>2, LeastIsIn
<1>4. Least(es) = e
  <2>1. e <= Least(es) /\ Least(es) <= e /\ e \in Nat /\ Least(es) \in Nat
    BY <1>1, <1>2, <1>3
  <2> QED
    BY <2>1
<1>5. Left(list, subs, t, ok) =
        IF Drops(list[e])
        THEN IF ok /\ t \in subs
             THEN [list |-> [list EXCEPT ![e].isFree = TRUE], subs |-> subs \ {t}, kept |-> TRUE]
             ELSE [list |-> list, subs |-> subs, kept |-> FALSE]
        ELSE IF Shared(list[e])
        THEN [list |-> [list EXCEPT ![e].count = @ - 1], subs |-> subs, kept |-> TRUE]
        ELSE [list |-> list, subs |-> subs, kept |-> TRUE]
  <2>1. es # {}
    BY <1>1
  <2> QED
    BY <1>4, <2>1 DEF Left
<1> QED
  BY <1>5 DEF LeftAs

(* Of an awaited action the first entries that a scan finds are the two     *)
(* settled ones.                                                            *)
LEMMA ScanFinds ==
    ASSUME Typed, Kept, NEW t, NEW e \in Entries, Holds(e, t)
    PROVE  /\ \A g \in Entries : SubscriptionList[g].topic = t => e <= g \/ Settled(g)
           /\ \A g \in Entries : ~SubscriptionList[g].isFree /\ SubscriptionList[g].topic = t => e <= g
           /\ \A g \in Entries : Holds(g, t) => g = e
<1>1. \A g \in Entries : Holds(g, t) => g = e
  BY DEF Kept, OneEntry, Holds
<1>2. \A g \in Entries : SubscriptionList[g].topic = t /\ ~Settled(g) => e < g
  BY DEF Kept, FirstEntry, Holds
<1>3. \A g \in Entries : g \in Nat
  BY Domains
<1>4. \A g \in Entries : SubscriptionList[g].topic = t => e <= g
  BY <1>1, <1>2, <1>3 DEF Holds
<1> QED
  BY <1>1, <1>4

(* When the answer of an awaited report has come: both entries are given     *)
(* back and both topics left, or both count one report less, or nothing     *)
(* changes.                                                                 *)
PairGone(e, f, b) ==
    /\ SubscriptionList[e].count = 1 /\ SubscriptionList[f].count = 1
    /\ \A g \in Entries : SubscriptionList'[g] =
          IF g \in {e, f} THEN [SubscriptionList[g] EXCEPT !.isFree = TRUE] ELSE SubscriptionList[g]
    /\ subscribed' = (subscribed \ {Accepted(b)}) \ {Rejected(b)}
PairFewer(e, f) ==
    /\ \A g \in Entries : SubscriptionList'[g] =
          IF g \in {e, f} THEN [SubscriptionList[g] EXCEPT !.count = SubscriptionList[g].count - 1]
          ELSE SubscriptionList[g]
    /\ SubscriptionList[e].count > 1 /\ SubscriptionList[f].count > 1
    /\ subscribed' = subscribed

\* The two topics of an action are left together.
LEMMA PairLeft ==
    ASSUME Typed, Kept, NEW b \in Actions, NEW e \in Entries, NEW f \in Entries,
           Holds(e, Accepted(b)), Holds(f, Rejected(b)), Alike(e, f),
           Unsubscribe(b), topics = "kept", topics' = "kept"
    PROVE  \/ PairGone(e, f, b) \/ PairFewer(e, f)
           \/ UNCHANGED <<SubscriptionList, subscribed>>
<1>1. PICK ok1 \in BOOLEAN, ok2 \in BOOLEAN :
        LET x == Left(SubscriptionList, subscribed, Accepted(b), ok1)
            y == Left(x.list, x.subs, Rejected(b), ok2) IN
        /\ SubscriptionList' = y.list /\ subscribed' = y.subs
        /\ topics' = IF x.kept /\ y.kept THEN topics ELSE "broken"
  BY DEF Unsubscribe
<1> DEFINE x == Left(SubscriptionList, subscribed, Accepted(b), ok1)
           y == Left(x.list, x.subs, Rejected(b), ok2)
           L == SubscriptionList
<1>2. x.kept /\ y.kept /\ SubscriptionList' = y.list /\ subscribed' = y.subs
  BY <1>1
<1>3. Accepted(b) # Rejected(b) /\ e # f
  BY TopicsDiffer DEF Holds
<1>4. /\ ~L[e].isFree /\ L[e].topic = Accepted(b) /\ ~L[f].isFree /\ L[f].topic = Rejected(b)
      /\ L[e].count = L[f].count /\ L[e].isSticky = L[f].isSticky /\ L[e].count \in Nat
  BY EntryTyped DEF Holds, Settled, Alike
<1>5. /\ \A g \in Entries : ~L[g].isFree /\ L[g].topic = Accepted(b) => e <= g
      /\ \A g \in Entries : ~L[g].isFree /\ L[g].topic = Rejected(b) => f <= g
  BY ScanFinds
<1>6. LeftAs(L, subscribed, Accepted(b), e, x)
  BY <1>2, <1>4, <1>5, LeftFirst, Zenon
<1>7. L \in [Entries -> TopicRecord] /\ L[e] \in TopicRecord /\ L[f] \in TopicRecord
  BY DEF Typed, TopicsTyped
<1> HIDE DEF x
<1>8. /\ \A g \in Entries : x.list[g].topic = L[g].topic
      /\ \A g \in Entries : g # e => x.list[g] = L[g]
  <2>1. CASE x.list = [L EXCEPT ![e].isFree = TRUE]
    <3>1. [L[e] EXCEPT !.isFree = TRUE].topic = L[e].topic
      BY <1>7 DEF TopicRecord
    <3> QED
      BY <1>7, <2>1, <3>1
  <2>2. CASE x.list = [L EXCEPT ![e].count = @ - 1]
    <3>1. [L[e] EXCEPT !.count = @ - 1].topic = L[e].topic
      BY <1>7 DEF TopicRecord
    <3> QED
      BY <1>7, <2>2, <3>1
  <2>3. CASE x.list = L
    BY <2>3
  <2> QED
    BY <1>6, <2>1, <2>2, <2>3 DEF LeftAs
<1>9. /\ ~x.list[f].isFree /\ x.list[f].topic = Rejected(b) /\ x.list[f] = L[f]
  BY <1>3, <1>4, <1>8
<1>10. \A g \in Entries : ~x.list[g].isFree /\ x.list[g].topic = Rejected(b) => f <= g
  BY <1>3, <1>4, <1>5, <1>8
<1> DEFINE X == x.list
           subs == x.subs
<1>15. LeftAs(X, subs, Rejected(b), f, y)
  <2> HIDE DEF X, subs
  <2>1. y = Left(X, subs, Rejected(b), ok2)
    BY DEF X, subs
  <2>2. ~X[f].isFree /\ X[f].topic = Rejected(b)
        /\ \A g \in Entries : ~X[g].isFree /\ X[g].topic = Rejected(b) => f <= g
    BY <1>9, <1>10 DEF X
  <2> QED
    BY <1>2, <2>1, <2>2, LeftFirst, Zenon
<1> HIDE DEF y
<1>11. (Drops(L[e]) <=> Drops(L[f])) /\ (Shared(L[e]) <=> Shared(L[f]))
  BY <1>4 DEF Drops, Shared
<1>12. CASE Drops(L[e])
  <2>1. x.list = [L EXCEPT ![e].isFree = TRUE] /\ x.subs = subscribed \ {Accepted(b)}
    BY <1>6, <1>12 DEF LeftAs
  <2>2. y.list = [x.list EXCEPT ![f].isFree = TRUE] /\ y.subs = x.subs \ {Rejected(b)}
    BY <1>9, <1>11, <1>12, <1>15 DEF LeftAs
  <2>3. L[e].count = 1 /\ L[f].count = 1
    BY <1>4, <1>12 DEF Drops
  <2>4. \A g \in Entries : y.list[g] = IF g \in {e, f} THEN [L[g] EXCEPT !.isFree = TRUE] ELSE L[g]
    BY <1>3, <1>7, <2>1, <2>2
  <2> QED
    BY <1>2, <2>1, <2>2, <2>3, <2>4 DEF PairGone
<1>13. CASE ~Drops(L[e]) /\ Shared(L[e])
  <2>1. x.list = [L EXCEPT ![e].count = @ - 1] /\ x.subs = subscribed
    BY <1>6, <1>13 DEF LeftAs
  <2>2. y.list = [x.list EXCEPT ![f].count = @ - 1] /\ y.subs = x.subs
    BY <1>9, <1>11, <1>13, <1>15 DEF LeftAs
  <2>3. L[e].count > 1 /\ L[f].count > 1
    BY <1>4, <1>13 DEF Shared
  <2>4. \A g \in Entries : y.list[g] = IF g \in {e, f} THEN [L[g] EXCEPT !.count = L[g].count - 1] ELSE L[g]
    BY <1>3, <1>7, <2>1, <2>2
  <2> QED
    BY <1>2, <2>1, <2>2, <2>3, <2>4 DEF PairFewer
<1>14. CASE ~Drops(L[e]) /\ ~Shared(L[e])
  <2>1. x.list = L /\ x.subs = subscribed
    BY <1>6, <1>14 DEF LeftAs
  <2>2. y.list = x.list /\ y.subs = x.subs
    BY <1>9, <1>11, <1>14, <1>15 DEF LeftAs
  <2> QED
    BY <1>2, <2>1, <2>2
<1> QED
  BY <1>12, <1>13, <1>14

(* An entry that is given back or counted down keeps its topic.             *)
LEMMA PairTopics ==
    ASSUME Typed, NEW e \in Entries, NEW f \in Entries, NEW b,
           PairGone(e, f, b) \/ PairFewer(e, f)
    PROVE  /\ \A g \in Entries : SubscriptionList'[g].topic = SubscriptionList[g].topic
           /\ \A g \in Entries : SubscriptionList'[g].isSticky = SubscriptionList[g].isSticky
           /\ \A g \in Entries \ {e, f} : SubscriptionList'[g] = SubscriptionList[g]
<1>1. \A g \in Entries : /\ [SubscriptionList[g] EXCEPT !.isFree = TRUE].topic = SubscriptionList[g].topic
                         /\ [SubscriptionList[g] EXCEPT !.isFree = TRUE].isSticky = SubscriptionList[g].isSticky
  BY EntryTyped DEF TopicRecord
<1>2. \A g \in Entries :
        LET r == [SubscriptionList[g] EXCEPT !.count = SubscriptionList[g].count - 1] IN
        r.topic = SubscriptionList[g].topic /\ r.isSticky = SubscriptionList[g].isSticky
  BY EntryTyped DEF TopicRecord
<1> QED
  BY <1>1, <1>2 DEF PairGone, PairFewer

(* What the two entries of an awaited action become.                        *)
LEMMA PairFields ==
    ASSUME Typed, NEW e \in Entries, NEW f \in Entries, NEW b
    PROVE  /\ PairGone(e, f, b) => SubscriptionList'[e].isFree /\ SubscriptionList'[f].isFree
           /\ PairFewer(e, f) =>
                \A g \in {e, f} : /\ SubscriptionList'[g].isFree = SubscriptionList[g].isFree
                                  /\ SubscriptionList'[g].count = SubscriptionList[g].count - 1
<1>1. \A g \in Entries : [SubscriptionList[g] EXCEPT !.isFree = TRUE].isFree
  BY EntryTyped DEF TopicRecord
<1>2. \A g \in Entries :
        LET r == [SubscriptionList[g] EXCEPT !.count = SubscriptionList[g].count - 1] IN
        r.isFree = SubscriptionList[g].isFree /\ r.count = SubscriptionList[g].count - 1
  BY EntryTyped DEF TopicRecord
<1> QED
  BY <1>1, <1>2 DEF PairGone, PairFewer

(* The two settled entries of an action are its own, and not those of a      *)
(* subscription under way.                                                  *)
LEMMA PairOwn ==
    ASSUME Typed, Kept, NEW b \in Actions, NEW e \in Entries, NEW f \in Entries,
           Holds(e, Accepted(b)), Holds(f, Rejected(b))
    PROVE  /\ \A g \in Entries : Holds(g, Accepted(b)) <=> g = e
           /\ \A g \in Entries : Holds(g, Rejected(b)) <=> g = f
           /\ \A a \in Actions, g \in Entries : a # b /\ (Holds(g, Accepted(a)) \/ Holds(g, Rejected(a))) => g \notin {e, f}
           /\ Subscribing => Top.act # b /\ {e, f} \cap {Top.acc, Top.rej} = {}
<1>1. /\ \A g \in Entries : Holds(g, Accepted(b)) <=> g = e
      /\ \A g \in Entries : Holds(g, Rejected(b)) <=> g = f
  BY DEF Kept, OneEntry, Holds
<1>2. \A a \in Actions, g \in Entries : a # b /\ (Holds(g, Accepted(a)) \/ Holds(g, Rejected(a))) => g \notin {e, f}
  BY TopicsDiffer DEF Holds
<1>3. Subscribing => Top.act # b
  BY DEF Kept, Preparing, PreparesFor
<1>4. Subscribing => {e, f} \cap {Top.acc, Top.rej} = {}
  BY DEF Holds, Settled
<1> QED
  BY <1>1, <1>2, <1>3, <1>4

(* The two entries of an action are counted up or down together.            *)
LEMMA CountedKept ==
    ASSUME Typed, Kept, NEW b \in Actions, NEW e \in Entries, NEW f \in Entries,
           Holds(e, Accepted(b)), Holds(f, Rejected(b)), Alike(e, f)', Alike(f, e)',
           \A g \in Entries : /\ SubscriptionList'[g].topic = SubscriptionList[g].topic
                              /\ g \notin {e, f} => SubscriptionList'[g] = SubscriptionList[g]
                              /\ Settled(g)' <=> Settled(g),
           subscribed' = subscribed,
           \A a \in Actions : a # b => Users(a)' = Users(a),
           \A g \in {e, f} : Users(b)' <= SubscriptionList'[g].count
    PROVE  OneEntry' /\ FirstEntry' /\ Paired' /\ Counts' /\ Found'
<1>1. \A t : \A g \in Entries : Holds(g, t)' <=> Holds(g, t)
  BY DEF Holds
<1>2. OneEntry' /\ FirstEntry'
  BY DEF Kept, OneEntry, FirstEntry
<1>3. Paired'
  <2>1. \A g, h \in Entries \ {e, f} : Alike(g, h) => Alike(g, h)'
    BY DEF Alike
  <2> SUFFICES ASSUME NEW a \in Actions, NEW g \in Entries
               PROVE  /\ Holds(g, Accepted(a)) => \E h \in Entries : Holds(h, Rejected(a)) /\ Alike(g, h)'
                      /\ Holds(g, Rejected(a)) => \E h \in Entries : Holds(h, Accepted(a)) /\ Alike(g, h)'
    BY <1>1 DEF Paired
  <2>2. CASE a = b
    BY <2>2, PairOwn
  <2>3. CASE a # b
    <3>1. \A h \in Entries : Holds(h, Accepted(a)) \/ Holds(h, Rejected(a)) => h \in Entries \ {e, f}
      BY <2>3, PairOwn
    <3> QED
      BY <2>1, <3>1 DEF Kept, Paired
  <2> QED
    BY <2>2, <2>3
<1>4. Counts'
  <2> SUFFICES ASSUME NEW g \in Entries, Settled(g)
               PROVE  /\ SubscriptionList[g].topic \in subscribed
                      /\ \A a \in Actions : SubscriptionList[g].topic \in {Accepted(a), Rejected(a)} =>
                                               Users(a)' <= SubscriptionList'[g].count
    BY DEF Counts
  <2>1. SubscriptionList[g].topic \in subscribed
    BY DEF Kept, Counts
  <2>2. ASSUME NEW a \in Actions, SubscriptionList[g].topic \in {Accepted(a), Rejected(a)}
        PROVE  Users(a)' <= SubscriptionList'[g].count
    <3>1. Users(a) <= SubscriptionList[g].count
      BY <2>2 DEF Kept, Counts
    <3>2. CASE a = b
      <4>1. g \in {e, f}
        BY <2>2, <3>2, PairOwn DEF Holds
      <4> QED
        BY <3>2, <4>1
    <3>3. CASE a # b
      <4>1. g \notin {e, f}
        BY <2>2, <3>3, PairOwn DEF Holds
      <4> QED
        BY <3>1, <3>3, <4>1
    <3> QED
      BY <3>2, <3>3
  <2> QED
    BY <2>1, <2>2
<1>5. Found'
  <2> SUFFICES ASSUME NEW a \in Actions, Users(a)' > 0 PROVE \E g \in Entries : Holds(g, Accepted(a))
    BY <1>1 DEF Found
  <2>1. CASE a = b
    BY <2>1
  <2>2. CASE a # b
    BY <2>2 DEF Kept, Found
  <2> QED
    BY <2>1, <2>2
<1> QED
  BY <1>2, <1>3, <1>4, <1>5

\* The answer has come, and both entries count one report less.
LEMMA FewerKept ==
    ASSUME Typed, Kept, UNCHANGED calls, NEW b \in Actions, NEW e \in Entries, NEW f \in Entries,
           Holds(e, Accepted(b)), Holds(f, Rejected(b)), Alike(e, f), PairFewer(e, f),
           \A a \in Actions : /\ Users(a) \in Nat /\ Users(a)' \in Nat
                              /\ a # b => Users(a)' = Users(a)
                              /\ a = b => Users(a)' = Users(a) - 1
    PROVE  Kept'
<1> DEFINE L == SubscriptionList
<1>1. /\ \A g \in Entries : SubscriptionList'[g].topic = L[g].topic
      /\ \A g \in Entries : SubscriptionList'[g].isSticky = L[g].isSticky
      /\ \A g \in Entries \ {e, f} : SubscriptionList'[g] = L[g]
      /\ \A g \in {e, f} : SubscriptionList'[g].isFree = L[g].isFree /\ SubscriptionList'[g].count = L[g].count - 1
      /\ subscribed' = subscribed
  <2>1. PairGone(e, f, b) \/ PairFewer(e, f)
    OBVIOUS
  <2>2. /\ \A g \in Entries : SubscriptionList'[g].topic = L[g].topic
        /\ \A g \in Entries : SubscriptionList'[g].isSticky = L[g].isSticky
        /\ \A g \in Entries \ {e, f} : SubscriptionList'[g] = L[g]
    BY <2>1, PairTopics
  <2>3. \A g \in {e, f} : SubscriptionList'[g].isFree = L[g].isFree /\ SubscriptionList'[g].count = L[g].count - 1
    BY PairFields
  <2>4. subscribed' = subscribed
    BY DEF PairFewer
  <2> QED
    BY <2>2, <2>3, <2>4
<1>2. (Subscribing' <=> Subscribing) /\ Top' = Top
  BY DEF Subscribing, Top
<1>3. \A g \in Entries : SubscriptionList'[g].isFree = L[g].isFree
  BY <1>1
<1>4. \A g \in Entries : Settled(g)' <=> Settled(g)
  BY <1>2, <1>3 DEF Settled
<1>5. \A t : \A g \in Entries : Holds(g, t)' <=> Holds(g, t)
  BY <1>1, <1>4 DEF Holds
<1>6. OneEntry' /\ FirstEntry' /\ Paired' /\ Counts' /\ Found'
  <2>1. Alike(e, f)' /\ Alike(f, e)'
    BY <1>1 DEF Alike
  <2>2. ASSUME NEW g \in {e, f} PROVE Users(b)' <= SubscriptionList'[g].count
    <3>1. Users(b) <= L[g].count /\ L[g].count \in Nat /\ Users(b) \in Nat
      BY EntryTyped DEF Kept, Counts, Holds
    <3>2. \A x, y \in Nat : x <= y => x - 1 <= y - 1
      OBVIOUS
    <3> QED
      BY <1>1, <3>1, <3>2
  <2> HIDE DEF L
  <2> QED
    BY <1>1, <1>4, <2>1, <2>2, CountedKept DEF L
<1>7. Preparing'
  <2> SUFFICES ASSUME Subscribing
               PROVE  /\ PreparesFor(Top.act, Top.acc, Top.rej)'
                      /\ Top.pc = "rejected" => Halfway(Top.act, Top.acc, Top.rej, Top.sticky)'
    BY <1>2 DEF Preparing
  <2>1. {Top.acc, Top.rej} \subseteq Entries \ {e, f}
    <3>1. calls \in Seq(CallRecord) /\ calls # <<>>
      BY DEF Typed, CallsTyped, Subscribing
    <3>2. Top \in CallRecord
      BY <3>1, Stack
    <3> QED
      BY <3>2, PairOwn DEF CallRecord
  <2>2. PreparesFor(Top.act, Top.acc, Top.rej) /\ (Top.pc = "rejected" => Halfway(Top.act, Top.acc, Top.rej, Top.sticky))
    BY DEF Kept, Preparing
  <2>3. SubscriptionList'[Top.acc] = L[Top.acc] /\ SubscriptionList'[Top.rej] = L[Top.rej]
    BY <1>1, <2>1
  <2>4. PreparesFor(Top.act, Top.acc, Top.rej)'
    BY <1>1, <1>2, <1>3, <1>5, <2>2, <2>3 DEF PreparesFor
  <2>5. Top.pc = "rejected" => Halfway(Top.act, Top.acc, Top.rej, Top.sticky)'
    BY <1>1, <1>2, <2>2, <2>3 DEF Halfway
  <2> QED
    BY <1>2, <2>4, <2>5
<1> QED
  BY <1>6, <1>7 DEF Kept

\* The answer has come, and both entries are given back.
LEMMA GoneKept ==
    ASSUME Typed, Kept, UNCHANGED calls, NEW b \in Actions, NEW e \in Entries, NEW f \in Entries,
           Holds(e, Accepted(b)), Holds(f, Rejected(b)), PairGone(e, f, b),
           \A a \in Actions : /\ Users(a) \in Nat /\ Users(a)' \in Nat
                              /\ a # b => Users(a)' = Users(a)
                              /\ a = b => Users(a)' = Users(a) - 1
    PROVE  Kept'
<1> DEFINE L == SubscriptionList
<1>1. /\ \A g \in Entries : SubscriptionList'[g].topic = L[g].topic
      /\ \A g \in Entries \ {e, f} : SubscriptionList'[g] = L[g]
      /\ \A g \in {e, f} : SubscriptionList'[g].isFree
      /\ L[e].topic = Accepted(b) /\ L[f].topic = Rejected(b)
      /\ subscribed' = (subscribed \ {Accepted(b)}) \ {Rejected(b)}
  <2>1. PairGone(e, f, b) \/ PairFewer(e, f)
    OBVIOUS
  <2>2. /\ \A g \in Entries : SubscriptionList'[g].topic = L[g].topic
        /\ \A g \in Entries \ {e, f} : SubscriptionList'[g] = L[g]
    BY <2>1, PairTopics
  <2>3. SubscriptionList'[e].isFree /\ SubscriptionList'[f].isFree
    BY PairFields
  <2>4. /\ L[e].topic = Accepted(b) /\ L[f].topic = Rejected(b)
        /\ subscribed' = (subscribed \ {Accepted(b)}) \ {Rejected(b)}
    BY DEF PairGone, Holds
  <2> QED
    BY <2>2, <2>3, <2>4
<1>2. (Subscribing' <=> Subscribing) /\ Top' = Top
  BY DEF Subscribing, Top
<1>3. \A g \in Entries \ {e, f} : SubscriptionList'[g].isFree = L[g].isFree
  BY <1>1
<1>4. \A g \in Entries : Settled(g)' <=> Settled(g) /\ g \notin {e, f}
  BY <1>1, <1>2, <1>3 DEF Settled
<1>5. \A t : \A g \in Entries : Holds(g, t)' <=> Holds(g, t) /\ g \notin {e, f}
  BY <1>1, <1>4 DEF Holds
<1>6. OneEntry'
  BY <1>1, <1>4 DEF Kept, OneEntry
<1>7. FirstEntry'
  <2> SUFFICES ASSUME NEW g \in Entries, NEW h \in Entries, ~Settled(g) \/ g \in {e, f},
                      Settled(h), h \notin {e, f}, L[g].topic = L[h].topic
               PROVE  h < g
    BY <1>1, <1>4 DEF FirstEntry
  <2>1. CASE ~Settled(g)
    BY <2>1 DEF Kept, FirstEntry
  <2>2. CASE g \in {e, f}
    BY <2>2, <1>1, PairOwn DEF Holds
  <2> QED
    BY <2>1, <2>2
<1>8. Paired'
  <2>1. \A g, h \in Entries \ {e, f} : Alike(g, h) => Alike(g, h)'
    BY <1>1 DEF Alike
  <2> SUFFICES ASSUME NEW a \in Actions, NEW g \in Entries, g \notin {e, f}
               PROVE  /\ Holds(g, Accepted(a)) => \E h \in Entries : Holds(h, Rejected(a)) /\ h \notin {e, f} /\ Alike(g, h)'
                      /\ Holds(g, Rejected(a)) => \E h \in Entries : Holds(h, Accepted(a)) /\ h \notin {e, f} /\ Alike(g, h)'
    BY <1>5 DEF Paired
  <2>2. CASE a = b
    BY <2>2, PairOwn
  <2>3. CASE a # b
    <3>1. \A h \in Entries : Holds(h, Accepted(a)) \/ Holds(h, Rejected(a)) => h \in Entries \ {e, f}
      BY <2>3, PairOwn
    <3> QED
      BY <2>1, <3>1 DEF Kept, Paired
  <2> QED
    BY <2>2, <2>3
<1>9. Counts'
  <2> SUFFICES ASSUME NEW g \in Entries, Settled(g), g \notin {e, f}
               PROVE  /\ L[g].topic \in subscribed'
                      /\ \A a \in Actions : L[g].topic \in {Accepted(a), Rejected(a)} => Users(a)' <= L[g].count
    BY <1>1, <1>4 DEF Counts
  <2>1. L[g].topic \notin {Accepted(b), Rejected(b)}
    BY PairOwn DEF Holds
  <2>2. L[g].topic \in subscribed'
    BY <1>1, <2>1 DEF Kept, Counts
  <2>3. ASSUME NEW a \in Actions, L[g].topic \in {Accepted(a), Rejected(a)}
        PROVE  Users(a)' <= L[g].count
    BY <2>1, <2>3 DEF Kept, Counts
  <2> QED
    BY <2>2, <2>3
<1>10. Found'
  <2> SUFFICES ASSUME NEW a \in Actions, Users(a)' > 0
               PROVE  \E g \in Entries : Holds(g, Accepted(a)) /\ g \notin {e, f}
    BY <1>5 DEF Found
  <2>1. CASE a = b
    <3>1. Users(b) <= L[e].count /\ L[e].count = 1
      BY DEF Kept, Counts, PairGone, Holds
    <3>2. \A n \in Nat : n <= 1 => ~(n - 1 > 0)
      OBVIOUS
    <3> QED
      BY <2>1, <3>1, <3>2
  <2>2. CASE a # b
    BY <2>2, PairOwn DEF Kept, Found
  <2> QED
    BY <2>1, <2>2
<1>11. Preparing'
  <2> SUFFICES ASSUME Subscribing
               PROVE  /\ PreparesFor(Top.act, Top.acc, Top.rej)'
                      /\ Top.pc = "rejected" => Halfway(Top.act, Top.acc, Top.rej, Top.sticky)'
    BY <1>2 DEF Preparing
  <2>1. {Top.acc, Top.rej} \subseteq Entries \ {e, f} /\ Top.act \in Actions /\ Top.act # b
    <3>1. calls \in Seq(CallRecord) /\ calls # <<>>
      BY DEF Typed, CallsTyped, Subscribing
    <3>2. Top \in CallRecord
      BY <3>1, Stack
    <3> QED
      BY <3>2, PairOwn DEF CallRecord
  <2>2. PreparesFor(Top.act, Top.acc, Top.rej) /\ (Top.pc = "rejected" => Halfway(Top.act, Top.acc, Top.rej, Top.sticky))
    BY DEF Kept, Preparing
  <2>3. SubscriptionList'[Top.acc] = L[Top.acc] /\ SubscriptionList'[Top.rej] = L[Top.rej]
    BY <1>1, <2>1
  <2>4. {Accepted(Top.act), Rejected(Top.act)} \cap {Accepted(b), Rejected(b)} = {}
    BY <2>1, TopicsDiffer
  <2>5. PreparesFor(Top.act, Top.acc, Top.rej)'
    <3>1. \A g \in Entries : SubscriptionList'[g].isFree =>
             /\ L[g].topic = Accepted(Top.act) => Top.acc < g
             /\ L[g].topic = Rejected(Top.act) => Top.rej < g
      BY <1>1, <2>2, <2>4 DEF PreparesFor
    <3> QED
      BY <1>1, <1>2, <1>5, <2>2, <2>3, <3>1 DEF PreparesFor
  <2>6. Top.pc = "rejected" => Halfway(Top.act, Top.acc, Top.rej, Top.sticky)'
    BY <1>1, <1>2, <2>2, <2>3, <2>4 DEF Halfway
  <2> QED
    BY <1>2, <2>5, <2>6
<1> QED
  BY <1>6, <1>7, <1>8, <1>9, <1>10, <1>11 DEF Kept

\* What the answer to a record does to the users of the topics.
LEMMA AnswerUsers ==
    ASSUME Typed, UNCHANGED calls, NEW i \in Slots, Awaits(i),
           AckWaitList' = [AckWaitList EXCEPT ![i].isFree = TRUE]
    PROVE  \A a \in Actions : /\ Users(a) \in Nat /\ Users(a)' \in Nat
                              /\ a # AckWaitList[i].act => Users(a)' = Users(a)
                              /\ a = AckWaitList[i].act => Users(a)' = Users(a) - 1
<1> SUFFICES ASSUME NEW a \in Actions
             PROVE  /\ Users(a) \in Nat /\ Users(a)' \in Nat
                    /\ a # AckWaitList[i].act => Users(a)' = Users(a)
                    /\ a = AckWaitList[i].act => Users(a)' = Users(a) - 1
  OBVIOUS
<1>1. InCall(a)' <=> InCall(a)
  BY DEF InCall, Top
<1>2. AckWaitList \in [Slots -> WaitRecord] /\ ~AckWaitList[i].isFree
  BY DEF Typed, ListTyped, Awaits
<1>3. AwaitCount(AckWaitList', a) = IF a = AckWaitList[i].act THEN AwaitCount(AckWaitList, a) - 1
                                    ELSE AwaitCount(AckWaitList, a)
  BY <1>2, CountFreed
<1>4. AwaitCount(AckWaitList, a) \in Nat /\ AwaitCount(AckWaitList', a) \in Nat
  BY CountFacts
<1>5. CASE InCall(a)
  <2>1. Users(a) = AwaitCount(AckWaitList, a) + 1 /\ Users(a)' = AwaitCount(AckWaitList', a) + 1
    BY <1>1, <1>5, UsersFacts, UsersAfter
  <2> QED
    BY <1>3, <1>4, <2>1
<1>6. CASE ~InCall(a)
  <2>1. Users(a) = AwaitCount(AckWaitList, a) /\ Users(a)' = AwaitCount(AckWaitList', a)
    BY <1>1, <1>6, UsersFacts, UsersAfter
  <2> QED
    BY <1>3, <1>4, <2>1
<1> QED
  BY <1>5, <1>6

(* An answer, or its absence for too long: the record is freed and the       *)
(* report's two topics are left or counted down.                            *)
LEMMA AnswerKept ==
    ASSUME Typed, Kept, UNCHANGED calls, NEW i \in Slots, Awaits(i),
           Unsubscribe(AckWaitList[i].act), topics = "kept", topics' = "kept",
           AckWaitList' = [AckWaitList EXCEPT ![i].isFree = TRUE]
    PROVE  Kept'
<1>1. PICK b \in Actions : b = AckWaitList[i].act
  BY DEF Typed, ListTyped, Awaits
<1>2. \A a \in Actions : /\ Users(a) \in Nat /\ Users(a)' \in Nat
                         /\ a # b => Users(a)' = Users(a)
                         /\ a = b => Users(a)' = Users(a) - 1
  BY <1>1, AnswerUsers
<1>3. Users(b) > 0
  <2>1. \A n \in Nat : n - 1 \in Nat => n > 0
    OBVIOUS
  <2>2. Users(b) \in Nat /\ Users(b) - 1 \in Nat
    BY <1>2
  <2> QED
    BY <2>1, <2>2
<1>4. PICK e \in Entries : Holds(e, Accepted(b))
  BY <1>3 DEF Kept, Found
<1>5. PICK f \in Entries : Holds(f, Rejected(b)) /\ Alike(e, f)
  BY <1>4 DEF Kept, Paired
<1>6. \/ PairGone(e, f, b) \/ PairFewer(e, f)
      \/ UNCHANGED <<SubscriptionList, subscribed>>
  BY <1>1, <1>4, <1>5, PairLeft
<1>7. CASE PairGone(e, f, b)
  BY <1>2, <1>4, <1>5, <1>7, GoneKept
<1>8. CASE PairFewer(e, f)
  BY <1>2, <1>4, <1>5, <1>8, FewerKept
<1>9. CASE UNCHANGED <<SubscriptionList, subscribed>>
  <2>1. (Subscribing' <=> Subscribing) /\ Top' = Top
    BY DEF Subscribing, Top
  <2>2. \A g \in Entries : Settled(g)' <=> Settled(g)
    BY <1>9, <2>1 DEF Settled
  <2>3. \A a \in Actions : Users(a)' \in Nat /\ Users(a) \in Nat /\ Users(a)' <= Users(a)
    <3>1. \A m, n \in Nat : m = n \/ m = n - 1 => m <= n
      OBVIOUS
    <3> QED
      BY <1>2, <3>1
  <2>4. ~Subscribing' \/ (Subscribing /\ UNCHANGED calls)
    BY <2>1
  <2> QED
    BY <1>9, <2>2, <2>3, <2>4, KeptQuiet
<1> QED
  BY <1>6, <1>7, <1>8, <1>9

\* The first two entries not in use are taken, the first for the accepted topic.
TwoTaken(a, e, f) ==
    /\ e \in Entries /\ f \in Entries /\ e # f
    /\ SubscriptionList[e].isFree /\ SubscriptionList[f].isFree
    /\ \A g \in Entries : SubscriptionList[g].isFree => e <= g /\ (g = e \/ f <= g)
    /\ \A g \in Entries : SubscriptionList'[g] =
          IF g = e THEN [SubscriptionList[g] EXCEPT !.isFree = FALSE, !.topic = Accepted(a)]
          ELSE IF g = f THEN [SubscriptionList[g] EXCEPT !.isFree = FALSE]
          ELSE SubscriptionList[g]

(* The three ways in which a call begins that leave the topics in order.    *)
LEMMA BeginShapes ==
    ASSUME Typed, calls = <<>>, NEW a \in Actions, NEW sticky \in BOOLEAN,
           Begin(a, sticky), topics' = "kept"
    PROVE  /\ calls' # <<>> /\ Top'.act = a /\ Top'.sticky = sticky /\ topics = "kept"
           /\ UNCHANGED subscribed
           /\ \/ Top'.pc = "fail" /\ UNCHANGED SubscriptionList
              \/ Top'.pc = "publish" /\ Present(a) /\ SubscriptionList' = Incremented(a, sticky)
              \/ Top'.pc = "accepted" /\ ~Present(a) /\ TwoTaken(a, Top'.acc, Top'.rej)
<1> DEFINE r     == Least({n \in Reports : result[n] = "unused"})
           slots == {i \in Slots : AckWaitList[i].isFree}
           free  == {e \in Entries : SubscriptionList[e].isFree}
           e1    == Least(free)
           e2    == Least(free \ {e1})
           goes(p, acc, rej) ==
              /\ calls' = Append(calls, Frame(r, a, sticky, p, Least(slots), acc, rej))
              /\ result' = Replace(result, r, "calling")
           fails ==
              /\ calls' = Append(calls, Frame(r, a, sticky, "fail", 0, 0, 0))
              /\ UNCHANGED <<SubscriptionList, subscribed, topics>>
           shares ==
              /\ Present(a) /\ SubscriptionList' = Incremented(a, sticky)
              /\ goes("publish", 0, 0) /\ UNCHANGED <<subscribed, topics>>
           subscribes ==
              /\ ~Present(a) /\ Cardinality(free) >= 2
              /\ SubscriptionList' = [SubscriptionList EXCEPT
                    ![e1] = [@ EXCEPT !.isFree = FALSE, !.topic = Accepted(a)],
                    ![e2].isFree = FALSE]
              /\ goes("accepted", e1, e2) /\ UNCHANGED <<subscribed, topics>>
<1>1. fails \/ shares \/ subscribes \/ topics' = "broken"
  BY Zenon DEF Begin
<1>2. ASSUME NEW f, calls' = Append(calls, f)
      PROVE  calls' # <<>> /\ Top' = f
  <2>1. calls' = <<f>>
    BY <1>2
  <2> QED
    BY <2>1 DEF Top
<1>3. \A x, p, i, acc, rej :
        LET f == Frame(x, a, sticky, p, i, acc, rej) IN
        f.act = a /\ f.sticky = sticky /\ f.pc = p /\ f.acc = acc /\ f.rej = rej
  BY DEF Frame
<1>4. CASE fails
  BY <1>2, <1>3, <1>4
<1>5. CASE shares
  BY <1>2, <1>3, <1>5
<1>6. CASE subscribes
  <2>1. free # {} /\ free \ {e1} # {}
    <3>1. ASSUME NEW S, NEW x, Cardinality(S) >= 2 PROVE S # {} /\ S \ {x} # {}
      <4>1. Cardinality({}) = 0 /\ Cardinality({x}) = 1
        BY FS_EmptySet, FS_Singleton
      <4>2. ~(0 >= 2) /\ ~(1 >= 2)
        OBVIOUS
      <4>3. S # {} /\ S # {x}
        BY <3>1, <4>1, <4>2, Zenon
      <4> QED
        BY <4>3
    <3>2. Cardinality(free) >= 2
      BY <1>6
    <3> HIDE DEF free, e1
    <3> QED
      BY <3>1, <3>2
  <2>2. /\ e1 \in free /\ \A g \in free : e1 <= g
        /\ e2 \in free \ {e1} /\ \A g \in free \ {e1} : e2 <= g
    <3>1. free \in SUBSET Nat /\ free \ {e1} \in SUBSET Nat
      BY Domains
    <3> HIDE DEF free
    <3> QED
      BY <2>1, <3>1, LeastIsIn
  <2>3. \A g \in Entries : SubscriptionList'[g] =
          IF g = e1 THEN [SubscriptionList[g] EXCEPT !.isFree = FALSE, !.topic = Accepted(a)]
          ELSE IF g = e2 THEN [SubscriptionList[g] EXCEPT !.isFree = FALSE]
          ELSE SubscriptionList[g]
    <3>1. SubscriptionList \in [Entries -> TopicRecord]
      BY DEF Typed, TopicsTyped
    <3>2. SubscriptionList' = [SubscriptionList EXCEPT
                    ![e1] = [@ EXCEPT !.isFree = FALSE, !.topic = Accepted(a)],
                    ![e2].isFree = FALSE]
      BY <1>6
    <3>3. e1 # e2
      BY <2>2
    <3> HIDE DEF e1, e2
    <3> QED BY <3>1, <3>2, <3>3
  <2>4. TwoTaken(a, e1, e2)
    <3> HIDE DEF e1, e2
    <3> QED BY <2>2, <2>3 DEF TwoTaken
  <2> HIDE DEF e1, e2, free
  <2>5. calls' # <<>> /\ Top' = Frame(r, a, sticky, "accepted", Least(slots), e1, e2)
    BY <1>2, <1>6
  <2> QED
    BY <1>3, <1>6, <2>4, <2>5
<1> QED
  BY <1>1, <1>4, <1>5, <1>6

\* The users of the topics when only the stack of calls changes.
LEMMA CallUsers ==
    ASSUME UNCHANGED AckWaitList
    PROVE  \A a \in Actions :
              /\ Users(a) \in Nat /\ Users(a)' \in Nat
              /\ (InCall(a)' <=> InCall(a)) => Users(a)' = Users(a)
              /\ ~InCall(a)' => Users(a)' <= Users(a)
              /\ InCall(a)' /\ ~InCall(a) => Users(a)' = Users(a) + 1
<1> SUFFICES ASSUME NEW a \in Actions
             PROVE  /\ Users(a) \in Nat /\ Users(a)' \in Nat
                    /\ (InCall(a)' <=> InCall(a)) => Users(a)' = Users(a)
                    /\ ~InCall(a)' => Users(a)' <= Users(a)
                    /\ InCall(a)' /\ ~InCall(a) => Users(a)' = Users(a) + 1
  OBVIOUS
<1>1. AwaitCount(AckWaitList', a) = AwaitCount(AckWaitList, a) /\ AwaitCount(AckWaitList, a) \in Nat
  BY CountFacts
<1>2. Users(a) \in Nat /\ Users(a)' \in Nat
  BY UsersFacts, UsersAfter
<1>3. \A n \in Nat : n <= n /\ n <= n + 1
  OBVIOUS
<1>4. CASE InCall(a)
  BY <1>1, <1>2, <1>3, <1>4, UsersFacts, UsersAfter
<1>5. CASE ~InCall(a)
  BY <1>1, <1>2, <1>3, <1>5, UsersFacts, UsersAfter
<1> QED
  BY <1>4, <1>5

\* A step after which no subscription is under way and no other call publishes.
LEMMA CallsKept ==
    ASSUME Typed, Kept, UNCHANGED <<SubscriptionList, subscribed, AckWaitList>>,
           ~Subscribing, ~Subscribing', \A a \in Actions : ~InCall(a)'
    PROVE  Kept'
<1>1. \A g \in Entries : Settled(g)' <=> Settled(g)
  BY DEF Settled
<1>2. \A a \in Actions : Users(a)' \in Nat /\ Users(a) \in Nat /\ Users(a)' <= Users(a)
  BY CallUsers
<1> QED
  BY <1>1, <1>2, KeptQuiet

\* A call finds its two topics subscribed, and uses them with those who wait.
LEMMA SharesKept ==
    ASSUME Typed, Kept, calls = <<>>, calls' # <<>>, NEW a \in Actions, NEW sticky \in BOOLEAN,
           Top'.pc = "publish", Top'.act = a, UNCHANGED <<subscribed, AckWaitList>>,
           Present(a), SubscriptionList' = Incremented(a, sticky)
    PROVE  Kept'
<1> DEFINE L == SubscriptionList
<1>1. ~Subscribing /\ ~Subscribing' /\ \A c \in Actions : ~InCall(c) /\ (InCall(c)' <=> c = a)
  BY DEF Subscribing, InCall
<1>2. \A g \in Entries : Settled(g) <=> ~L[g].isFree
  BY <1>1 DEF Settled
<1>3. \A t : Taken(t) = {g \in Entries : Holds(g, t)}
  BY <1>2 DEF Taken, Holds
<1>4. PICK e \in Entries : Holds(e, Accepted(a))
  BY <1>3 DEF Present
<1>5. PICK f \in Entries : Holds(f, Rejected(a)) /\ Alike(e, f)
  BY <1>4 DEF Kept, Paired
<1>6. Taken(Accepted(a)) = {e} /\ Taken(Rejected(a)) = {f}
  BY <1>3, <1>4, <1>5, PairOwn
<1>7. \A g \in Entries : SubscriptionList'[g] =
         IF g \in {e, f} THEN [L[g] EXCEPT !.count = L[g].count + 1, !.isSticky = sticky] ELSE L[g]
  BY <1>6 DEF Incremented
<1>8. \A x \in TopicRecord :
         LET y == [x EXCEPT !.count = x.count + 1, !.isSticky = sticky] IN
         y.topic = x.topic /\ y.isFree = x.isFree /\ y.count = x.count + 1 /\ y.isSticky = sticky
  BY DEF TopicRecord
<1>9. \A g \in Entries : /\ SubscriptionList'[g].topic = L[g].topic
                         /\ SubscriptionList'[g].isFree = L[g].isFree
                         /\ g \notin {e, f} => SubscriptionList'[g] = L[g]
  BY <1>7, <1>8, EntryTyped
<1>10. \A g \in {e, f} : SubscriptionList'[g].count = L[g].count + 1 /\ SubscriptionList'[g].isSticky = sticky
  <2> SUFFICES ASSUME NEW g \in {e, f}
               PROVE  SubscriptionList'[g].count = L[g].count + 1 /\ SubscriptionList'[g].isSticky = sticky
    OBVIOUS
  <2>1. L[g] \in TopicRecord
    BY EntryTyped
  <2>2. SubscriptionList'[g] = [L[g] EXCEPT !.count = L[g].count + 1, !.isSticky = sticky]
    BY <1>7
  <2> HIDE DEF L
  <2> QED
    BY <1>8, <2>1, <2>2
<1>11. \A g \in Entries : Settled(g)' <=> Settled(g)
  BY <1>1, <1>2, <1>9 DEF Settled
<1>12. Alike(e, f)' /\ Alike(f, e)'
  BY <1>5, <1>10 DEF Alike
<1>13. \A c \in Actions : c # a => Users(c)' = Users(c)
  BY <1>1, CallUsers
<1>14. ASSUME NEW g \in {e, f} PROVE Users(a)' <= SubscriptionList'[g].count
  <2>1. Users(a) <= L[g].count /\ L[g].count \in Nat /\ Users(a) \in Nat
    BY <1>4, <1>5, EntryTyped, CallUsers DEF Kept, Counts, Holds
  <2>2. Users(a)' = Users(a) + 1
    BY <1>1, CallUsers
  <2>3. \A x, y \in Nat : x <= y => x + 1 <= y + 1
    OBVIOUS
  <2> QED
    BY <1>10, <2>1, <2>2, <2>3
<1>15. OneEntry' /\ FirstEntry' /\ Paired' /\ Counts' /\ Found'
  <2> HIDE DEF L
  <2> QED
    BY <1>4, <1>5, <1>9, <1>11, <1>12, <1>13, <1>14, CountedKept DEF L
<1>16. Preparing'
  BY <1>1 DEF Preparing
<1> QED
  BY <1>15, <1>16 DEF Kept

\* A call takes two entries for the topics it is going to subscribe to.
LEMMA SubscribesKept ==
    ASSUME Typed, Kept, calls = <<>>, calls' # <<>>, NEW a \in Actions,
           Top'.pc = "accepted", Top'.act = a, UNCHANGED <<subscribed, AckWaitList>>,
           ~Present(a), TwoTaken(a, Top'.acc, Top'.rej)
    PROVE  Kept'
<1> DEFINE L == SubscriptionList
<1>0. PICK e, f : e = Top'.acc /\ f = Top'.rej
  OBVIOUS
<1>1. /\ TwoTaken(a, e, f) /\ e \in Entries /\ f \in Entries /\ e # f
      /\ L[e].isFree /\ L[f].isFree
  BY <1>0 DEF TwoTaken
<1>2. /\ ~Subscribing /\ Subscribing' /\ \A c \in Actions : ~InCall(c) /\ ~InCall(c)'
  BY DEF Subscribing, InCall
<1>3. \A x \in TopicRecord :
        /\ [x EXCEPT !.isFree = FALSE, !.topic = Accepted(a)].topic = Accepted(a)
        /\ ~[x EXCEPT !.isFree = FALSE, !.topic = Accepted(a)].isFree
        /\ [x EXCEPT !.isFree = FALSE].topic = x.topic /\ ~[x EXCEPT !.isFree = FALSE].isFree
  BY DEF TopicRecord
<1>4. /\ SubscriptionList'[e].topic = Accepted(a) /\ SubscriptionList'[f].topic = L[f].topic
      /\ ~SubscriptionList'[e].isFree /\ ~SubscriptionList'[f].isFree
      /\ \A g \in Entries : g \notin {e, f} => SubscriptionList'[g] = L[g]
  <2>1. L[e] \in TopicRecord /\ L[f] \in TopicRecord
    BY <1>1, EntryTyped
  <2>2. /\ SubscriptionList'[e] = [L[e] EXCEPT !.isFree = FALSE, !.topic = Accepted(a)]
        /\ SubscriptionList'[f] = [L[f] EXCEPT !.isFree = FALSE]
        /\ \A g \in Entries : g \notin {e, f} => SubscriptionList'[g] = L[g]
    BY <1>1 DEF TwoTaken
  <2> HIDE DEF L
  <2> QED
    BY <1>3, <2>1, <2>2
<1>5. \A g \in Entries : Settled(g) <=> ~L[g].isFree
  BY <1>2 DEF Settled
<1>6. \A g \in Entries : Settled(g)' <=> ~SubscriptionList'[g].isFree /\ g \notin {e, f}
  BY <1>0, <1>2 DEF Settled
<1>7. \A g \in Entries : (Settled(g)' <=> Settled(g)) /\ (Settled(g) => g \notin {e, f})
  BY <1>1, <1>4, <1>5, <1>6
<1>8. \A t : \A g \in Entries : Holds(g, t)' <=> Holds(g, t)
  BY <1>4, <1>7 DEF Holds
<1>9. \A g \in Entries : ~Holds(g, Accepted(a)) /\ ~Holds(g, Rejected(a))
  <2>1. \A t : Taken(t) = {g \in Entries : Holds(g, t)}
    BY <1>5 DEF Taken, Holds
  <2>2. (\E g \in Entries : Holds(g, Accepted(a))) <=> (\E g \in Entries : Holds(g, Rejected(a)))
    BY DEF Kept, Paired
  <2>3. ~(\E g \in Entries : Holds(g, Accepted(a))) \/ ~(\E g \in Entries : Holds(g, Rejected(a)))
    BY <2>1 DEF Present
  <2> QED
    BY <2>2, <2>3
<1>10. OneEntry'
  BY <1>4, <1>7 DEF Kept, OneEntry
<1>11. FirstEntry'
  <2> SUFFICES ASSUME NEW g \in Entries, NEW h \in Entries, ~Settled(g), Settled(h),
                      SubscriptionList'[g].topic = SubscriptionList'[h].topic
               PROVE  h < g
    BY <1>7 DEF FirstEntry
  <2>1. SubscriptionList'[h].topic = L[h].topic
    BY <1>4, <1>7
  <2>2. CASE g = e
    BY <1>4, <1>9, <2>1, <2>2 DEF Holds
  <2>3. CASE g # e
    <3>1. SubscriptionList'[g].topic = L[g].topic
      BY <1>4, <2>3
    <3> QED
      BY <2>1, <3>1 DEF Kept, FirstEntry
  <2> QED
    BY <2>2, <2>3
<1>12. Paired'
  <2>1. \A g, h \in Entries : Settled(g) /\ Settled(h) /\ Alike(g, h) => Alike(g, h)'
    BY <1>4, <1>7 DEF Alike
  <2> SUFFICES ASSUME NEW c \in Actions, NEW g \in Entries
               PROVE  /\ Holds(g, Accepted(c)) => \E h \in Entries : Holds(h, Rejected(c)) /\ Alike(g, h)'
                      /\ Holds(g, Rejected(c)) => \E h \in Entries : Holds(h, Accepted(c)) /\ Alike(g, h)'
    BY <1>8 DEF Paired
  <2> QED
    BY <2>1 DEF Kept, Paired, Holds
<1>13. \A c \in Actions : Users(c)' = Users(c)
  BY <1>2, CallUsers
<1>14. Counts'
  <2> SUFFICES ASSUME NEW g \in Entries, Settled(g)
               PROVE  /\ L[g].topic \in subscribed
                      /\ \A c \in Actions : L[g].topic \in {Accepted(c), Rejected(c)} => Users(c) <= L[g].count
    BY <1>4, <1>7, <1>13 DEF Counts
  <2> QED
    BY DEF Kept, Counts
<1>15. Found'
  BY <1>8, <1>13 DEF Kept, Found
<1>16. Preparing'
  <2>1. \A g \in Entries : ~Holds(g, Accepted(a))' /\ ~Holds(g, Rejected(a))'
    BY <1>8, <1>9
  <2>2. \A g \in Entries : SubscriptionList'[g].isFree => e < g /\ f < g
    <3> SUFFICES ASSUME NEW g \in Entries, SubscriptionList'[g].isFree PROVE e < g /\ f < g
      OBVIOUS
    <3>1. g \notin {e, f} /\ L[g].isFree
      BY <1>4
    <3>2. e <= g /\ f <= g /\ e \in Nat /\ f \in Nat /\ g \in Nat
      BY <1>1, <3>1, Domains DEF TwoTaken
    <3>3. \A x, y \in Nat : x <= y /\ x # y => x < y
      OBVIOUS
    <3> QED
      BY <3>1, <3>2, <3>3
  <2>3. PreparesFor(a, e, f)'
    BY <1>1, <1>4, <2>1, <2>2 DEF PreparesFor
  <2> QED
    BY <1>0, <2>3 DEF Preparing
<1> QED
  BY <1>10, <1>11, <1>12, <1>14, <1>15, <1>16 DEF Kept

\* The innermost call goes on to its next point.
LEMMA TopMoves ==
    ASSUME Typed, calls # <<>>, NEW p \in {"rejected", "publish"},
           calls' = Append(Others, [Top EXCEPT !.pc = p])
    PROVE  /\ calls' # <<>> /\ Top'.pc = p /\ Top \in CallRecord
           /\ Top'.act = Top.act /\ Top'.sticky = Top.sticky /\ Top'.acc = Top.acc /\ Top'.rej = Top.rej
           /\ Top.act \in Actions /\ Top.sticky \in BOOLEAN /\ Top.acc \in Entries /\ Top.rej \in Entries
<1> DEFINE f == [Top EXCEPT !.pc = p]
<1>1. calls \in Seq(CallRecord) /\ Top \in CallRecord
  BY Stack DEF Typed, CallsTyped
<1>2. /\ f \in CallRecord /\ f.pc = p /\ f.act = Top.act /\ f.sticky = Top.sticky
      /\ f.acc = Top.acc /\ f.rej = Top.rej
      /\ Top.act \in Actions /\ Top.sticky \in BOOLEAN /\ Top.acc \in Entries /\ Top.rej \in Entries
  BY <1>1 DEF CallRecord
<1> HIDE DEF f
<1>3. calls' = Append(Others, f)
  BY DEF f
<1>4. Len(calls') = Len(calls) /\ Len(calls) \in Nat \ {0} /\ calls'[Len(calls)] = f
  BY <1>1, <1>2, <1>3, Stack
<1>5. Top' = f /\ calls' # <<>>
  BY <1>4 DEF Top
<1> QED
  BY <1>1, <1>2, <1>5

(* The accepted topic is subscribed: its entry counts one report, and the    *)
(* other entry is given its topic.                                          *)
LEMMA AcceptedKept ==
    ASSUME Typed, Kept, SubscribeAccepted
    PROVE  Kept'
<1> DEFINE L == SubscriptionList
<1>1. /\ calls # <<>> /\ Top.pc = "accepted" /\ UNCHANGED AckWaitList
      /\ subscribed' = subscribed \cup {Accepted(Top.act)}
      /\ calls' = Append(Others, [Top EXCEPT !.pc = "rejected"])
  BY DEF SubscribeAccepted
<1>2. /\ calls' # <<>> /\ Top'.pc = "rejected" /\ Top'.act = Top.act /\ Top'.sticky = Top.sticky
      /\ Top'.acc = Top.acc /\ Top'.rej = Top.rej
      /\ Top.act \in Actions /\ Top.sticky \in BOOLEAN /\ Top.acc \in Entries /\ Top.rej \in Entries
  BY <1>1, TopMoves
<1>3. PICK a, e, f, sticky : a = Top.act /\ e = Top.acc /\ f = Top.rej /\ sticky = Top.sticky
  OBVIOUS
<1>4. a \in Actions /\ e \in Entries /\ f \in Entries /\ sticky \in BOOLEAN
  BY <1>2, <1>3
<1>5. Subscribing /\ Subscribing' /\ \A c \in Actions : ~InCall(c) /\ ~InCall(c)'
  BY <1>1, <1>2 DEF Subscribing, InCall
<1>6. PreparesFor(a, e, f)
  BY <1>3, <1>5 DEF Kept, Preparing
<1>7. SubscriptionList' = [SubscriptionList EXCEPT
          ![e] = [@ EXCEPT !.count = 1, !.isSticky = sticky], ![f].topic = Rejected(a)]
  BY <1>3 DEF SubscribeAccepted
<1>8. L[e] \in TopicRecord /\ L[f] \in TopicRecord /\ L \in [Entries -> TopicRecord]
  BY <1>4, EntryTyped DEF Typed, TopicsTyped
<1>9. /\ SubscriptionList'[e] = [L[e] EXCEPT !.count = 1, !.isSticky = sticky]
      /\ SubscriptionList'[f] = [L[f] EXCEPT !.topic = Rejected(a)]
      /\ \A g \in Entries : g \notin {e, f} => SubscriptionList'[g] = L[g]
  <2>1. e # f
    BY <1>6 DEF PreparesFor
  <2> QED
    BY <1>4, <1>7, <1>8, <2>1
<1>10. \A x \in TopicRecord :
        /\ [x EXCEPT !.count = 1, !.isSticky = sticky].count = 1
        /\ [x EXCEPT !.count = 1, !.isSticky = sticky].isSticky = sticky
        /\ [x EXCEPT !.count = 1, !.isSticky = sticky].topic = x.topic
        /\ [x EXCEPT !.count = 1, !.isSticky = sticky].isFree = x.isFree
        /\ [x EXCEPT !.topic = Rejected(a)].isFree = x.isFree
        /\ [x EXCEPT !.topic = Rejected(a)].topic = Rejected(a)
  BY DEF TopicRecord
<1>11. /\ SubscriptionList'[e].count = 1 /\ SubscriptionList'[e].isSticky = sticky
       /\ SubscriptionList'[e].topic = L[e].topic /\ SubscriptionList'[f].topic = Rejected(a)
       /\ \A g \in Entries : SubscriptionList'[g].isFree = L[g].isFree
  <2> HIDE DEF L
  <2>1. /\ SubscriptionList'[e].count = 1 /\ SubscriptionList'[e].isSticky = sticky
        /\ SubscriptionList'[e].topic = L[e].topic /\ SubscriptionList'[e].isFree = L[e].isFree
    BY <1>8, <1>9, <1>10
  <2>2. SubscriptionList'[f].topic = Rejected(a) /\ SubscriptionList'[f].isFree = L[f].isFree
    BY <1>8, <1>9, <1>10
  <2>3. \A g \in Entries : SubscriptionList'[g].isFree = L[g].isFree
    BY <1>9, <2>1, <2>2, Zenon
  <2> QED
    BY <2>1, <2>2, <2>3
<1>12. \A g \in Entries : (Settled(g)' <=> Settled(g)) /\ (Settled(g) => g \notin {e, f})
  BY <1>2, <1>3, <1>5, <1>11 DEF Settled
<1>13. \A t : \A g \in Entries : Holds(g, t)' <=> Holds(g, t)
  BY <1>9, <1>12 DEF Holds
<1>14. OneEntry'
  BY <1>9, <1>12 DEF Kept, OneEntry
<1>15. FirstEntry'
  <2> SUFFICES ASSUME NEW g \in Entries, NEW h \in Entries, ~Settled(g), Settled(h),
                      SubscriptionList'[g].topic = SubscriptionList'[h].topic
               PROVE  h < g
    BY <1>12 DEF FirstEntry
  <2>1. SubscriptionList'[h].topic = L[h].topic
    BY <1>9, <1>12
  <2>2. CASE g = f
    BY <1>6, <1>11, <2>1, <2>2 DEF Holds, PreparesFor
  <2>3. CASE g # f
    <3>1. SubscriptionList'[g].topic = L[g].topic
      BY <1>9, <1>11, <2>3
    <3> QED
      BY <2>1, <3>1 DEF Kept, FirstEntry
  <2> QED
    BY <2>2, <2>3
<1>16. Paired'
  <2>1. \A g, h \in Entries : Settled(g) /\ Settled(h) /\ Alike(g, h) => Alike(g, h)'
    BY <1>9, <1>12 DEF Alike
  <2> SUFFICES ASSUME NEW c \in Actions, NEW g \in Entries
               PROVE  /\ Holds(g, Accepted(c)) => \E h \in Entries : Holds(h, Rejected(c)) /\ Alike(g, h)'
                      /\ Holds(g, Rejected(c)) => \E h \in Entries : Holds(h, Accepted(c)) /\ Alike(g, h)'
    BY <1>13 DEF Paired
  <2> QED
    BY <2>1 DEF Kept, Paired, Holds
<1>17. \A c \in Actions : Users(c)' = Users(c)
  BY <1>1, <1>5, CallUsers
<1>18. Counts'
  <2> SUFFICES ASSUME NEW g \in Entries, Settled(g)
               PROVE  /\ L[g].topic \in subscribed
                      /\ \A c \in Actions : L[g].topic \in {Accepted(c), Rejected(c)} => Users(c) <= L[g].count
    BY <1>1, <1>9, <1>12, <1>17 DEF Counts
  <2> QED
    BY DEF Kept, Counts
<1>19. Found'
  BY <1>13, <1>17 DEF Kept, Found
<1>20. Preparing'
  <2>1. PreparesFor(a, e, f)'
    <3>1. \A g \in Entries : SubscriptionList'[g].isFree =>
            /\ SubscriptionList'[g].topic = Accepted(a) => e < g
            /\ SubscriptionList'[g].topic = Rejected(a) => f < g
      <4> SUFFICES ASSUME NEW g \in Entries, SubscriptionList'[g].isFree
                   PROVE  /\ SubscriptionList'[g].topic = Accepted(a) => e < g
                          /\ SubscriptionList'[g].topic = Rejected(a) => f < g
        OBVIOUS
      <4>1. L[g].isFree /\ g \notin {e, f}
        BY <1>6, <1>11 DEF PreparesFor
      <4> QED
        BY <1>6, <1>9, <4>1 DEF PreparesFor
    <3> QED
      BY <1>4, <1>6, <1>11, <1>13, <3>1 DEF PreparesFor
  <2>2. Halfway(a, e, f, sticky)'
    BY <1>1, <1>3, <1>11 DEF Halfway
  <2> QED
    BY <1>2, <1>3, <2>1, <2>2 DEF Preparing
<1> QED
  BY <1>14, <1>15, <1>16, <1>18, <1>19, <1>20 DEF Kept

(* The rejected topic is subscribed: the two entries are settled, and count   *)
(* the report that is about to be published.                                *)
LEMMA RejectedKept ==
    ASSUME Typed, Kept, SubscribeRejected
    PROVE  Kept'
<1> DEFINE L == SubscriptionList
<1>1. /\ calls # <<>> /\ Top.pc = "rejected" /\ UNCHANGED AckWaitList
      /\ subscribed' = subscribed \cup {Rejected(Top.act)}
      /\ calls' = Append(Others, [Top EXCEPT !.pc = "publish"])
  BY DEF SubscribeRejected
<1>2. /\ calls' # <<>> /\ Top'.pc = "publish" /\ Top'.act = Top.act
      /\ Top.act \in Actions /\ Top.sticky \in BOOLEAN /\ Top.acc \in Entries /\ Top.rej \in Entries
  BY <1>1, TopMoves
<1>3. PICK a, e, f, sticky : a = Top.act /\ e = Top.acc /\ f = Top.rej /\ sticky = Top.sticky
  OBVIOUS
<1>4. a \in Actions /\ e \in Entries /\ f \in Entries /\ sticky \in BOOLEAN
  BY <1>2, <1>3
<1>5. /\ Subscribing /\ ~Subscribing'
      /\ \A c \in Actions : ~InCall(c) /\ (InCall(c)' <=> c = a)
  BY <1>1, <1>2, <1>3 DEF Subscribing, InCall
<1>6. PreparesFor(a, e, f) /\ Halfway(a, e, f, sticky) /\ e # f
  BY <1>1, <1>3, <1>5 DEF Kept, Preparing, PreparesFor
<1>7. SubscriptionList' = [SubscriptionList EXCEPT ![f] = [@ EXCEPT !.count = 1, !.isSticky = sticky]]
  BY <1>3 DEF SubscribeRejected
<1>8. L[e] \in TopicRecord /\ L[f] \in TopicRecord /\ L \in [Entries -> TopicRecord]
  BY <1>4, EntryTyped DEF Typed, TopicsTyped
<1>9. /\ SubscriptionList'[f] = [L[f] EXCEPT !.count = 1, !.isSticky = sticky]
      /\ \A g \in Entries : g # f => SubscriptionList'[g] = L[g]
  BY <1>4, <1>7, <1>8
<1>10. \A x \in TopicRecord :
        /\ [x EXCEPT !.count = 1, !.isSticky = sticky].count = 1
        /\ [x EXCEPT !.count = 1, !.isSticky = sticky].isSticky = sticky
        /\ [x EXCEPT !.count = 1, !.isSticky = sticky].topic = x.topic
        /\ [x EXCEPT !.count = 1, !.isSticky = sticky].isFree = x.isFree
  BY DEF TopicRecord
<1>11. /\ \A g \in {e, f} : SubscriptionList'[g].count = 1 /\ SubscriptionList'[g].isSticky = sticky
       /\ \A g \in Entries : /\ SubscriptionList'[g].isFree = L[g].isFree
                             /\ SubscriptionList'[g].topic = L[g].topic
       /\ L[e].topic = Accepted(a) /\ L[f].topic = Rejected(a)
  <2> HIDE DEF L
  <2>1. /\ SubscriptionList'[f].count = 1 /\ SubscriptionList'[f].isSticky = sticky
        /\ SubscriptionList'[f].isFree = L[f].isFree /\ SubscriptionList'[f].topic = L[f].topic
    BY <1>8, <1>9, <1>10
  <2>2. \A g \in Entries : /\ SubscriptionList'[g].isFree = L[g].isFree
                           /\ SubscriptionList'[g].topic = L[g].topic
    BY <1>9, <2>1, Zenon
  <2> USE DEF L
  <2> QED
    BY <1>4, <1>6, <1>9, <2>1, <2>2 DEF PreparesFor, Halfway
<1>12. \A g \in Entries : /\ Settled(g)' <=> Settled(g) \/ g \in {e, f}
                          /\ Settled(g) => g \notin {e, f}
                          /\ Settled(g)' <=> ~L[g].isFree
  BY <1>3, <1>5, <1>6, <1>11 DEF Settled, PreparesFor
<1>13. \A t : \A g \in Entries : Holds(g, t)' <=> Holds(g, t) \/ (g \in {e, f} /\ L[g].topic = t)
  BY <1>11, <1>12 DEF Holds
<1>14. Accepted(a) # Rejected(a) /\ \A g \in Entries : ~Holds(g, Accepted(a)) /\ ~Holds(g, Rejected(a))
  BY <1>4, <1>6, TopicsDiffer DEF PreparesFor
<1>15. \A g \in Entries : /\ Holds(g, Accepted(a))' <=> g = e
                          /\ Holds(g, Rejected(a))' <=> g = f
  BY <1>4, <1>11, <1>13, <1>14
<1>16. \A c \in Actions, g \in Entries : c # a =>
          /\ Holds(g, Accepted(c))' <=> Holds(g, Accepted(c))
          /\ Holds(g, Rejected(c))' <=> Holds(g, Rejected(c))
  <2> SUFFICES ASSUME NEW c \in Actions, NEW g \in Entries, c # a, NEW t \in {Accepted(c), Rejected(c)}
               PROVE  Holds(g, t)' <=> Holds(g, t)
    OBVIOUS
  <2>1. t \notin {Accepted(a), Rejected(a)}
    BY <1>4, TopicsDiffer
  <2>2. g \in {e, f} => L[g].topic # t
    BY <1>11, <2>1
  <2>3. Holds(g, t)' <=> Holds(g, t) \/ (g \in {e, f} /\ L[g].topic = t)
    BY <1>13
  <2> QED
    BY <2>2, <2>3
<1>17. OneEntry'
  <2> SUFFICES ASSUME NEW g \in Entries, NEW h \in Entries, Settled(g) \/ g \in {e, f},
                      Settled(h) \/ h \in {e, f}, L[g].topic = L[h].topic
               PROVE  g = h
    BY <1>11, <1>12 DEF OneEntry
  <2>1. CASE Settled(g) /\ Settled(h)
    BY <2>1 DEF Kept, OneEntry
  <2>2. CASE g \in {e, f} /\ h \in {e, f}
    BY <1>11, <1>14, <2>2
  <2>3. CASE Settled(g) /\ h \in {e, f}
    BY <1>11, <1>14, <2>3 DEF Holds
  <2>4. CASE Settled(h) /\ g \in {e, f}
    BY <1>11, <1>14, <2>4 DEF Holds
  <2> QED
    BY <2>1, <2>2, <2>3, <2>4
<1>18. FirstEntry'
  <2> SUFFICES ASSUME NEW g \in Entries, NEW h \in Entries, ~Settled(g)', Settled(h)',
                      L[g].topic = L[h].topic
               PROVE  h < g
    BY <1>11 DEF FirstEntry
  <2>1. ~Settled(g) /\ L[g].isFree
    BY <1>12
  <2>2. CASE Settled(h)
    BY <2>1, <2>2 DEF Kept, FirstEntry
  <2>3. CASE h \in {e, f}
    BY <1>6, <1>11, <2>1, <2>3 DEF PreparesFor
  <2> QED
    BY <1>12, <2>2, <2>3
<1>19. Paired'
  <2>1. \A g, h \in Entries : Settled(g) /\ Settled(h) /\ Alike(g, h) => Alike(g, h)'
    BY <1>9, <1>12 DEF Alike
  <2>2. Alike(e, f)' /\ Alike(f, e)'
    BY <1>11 DEF Alike
  <2> SUFFICES ASSUME NEW c \in Actions, NEW g \in Entries
               PROVE  /\ Holds(g, Accepted(c))' => \E h \in Entries : Holds(h, Rejected(c))' /\ Alike(g, h)'
                      /\ Holds(g, Rejected(c))' => \E h \in Entries : Holds(h, Accepted(c))' /\ Alike(g, h)'
    BY DEF Paired
  <2>3. CASE c = a
    BY <1>4, <1>15, <2>2, <2>3
  <2>4. CASE c # a
    <3>1. /\ Holds(g, Accepted(c)) => \E h \in Entries : Holds(h, Rejected(c)) /\ Alike(g, h)'
          /\ Holds(g, Rejected(c)) => \E h \in Entries : Holds(h, Accepted(c)) /\ Alike(g, h)'
      BY <2>1 DEF Kept, Paired, Holds
    <3> QED
      BY <1>16, <2>4, <3>1
  <2> QED
    BY <2>3, <2>4
<1>20. Users(a)' = 1 /\ \A c \in Actions : c # a => Users(c)' = Users(c)
  <2>1. Users(a) = 0
    <3>1. ~(Users(a) > 0)
      BY <1>4, <1>14 DEF Kept, Found
    <3>2. Users(a) \in Nat
      BY <1>4, UsersFacts
    <3>3. \A n \in Nat : ~(n > 0) => n = 0
      OBVIOUS
    <3> QED
      BY <3>1, <3>2, <3>3
  <2>2. Users(a)' = Users(a) + 1
    BY <1>1, <1>4, <1>5, CallUsers
  <2>3. \A c \in Actions : c # a => Users(c)' = Users(c)
    BY <1>1, <1>5, CallUsers
  <2> QED
    BY <2>1, <2>2, <2>3
<1>21. Counts'
  <2> SUFFICES ASSUME NEW g \in Entries, Settled(g)'
               PROVE  /\ L[g].topic \in subscribed'
                      /\ \A c \in Actions : L[g].topic \in {Accepted(c), Rejected(c)} =>
                                               Users(c)' <= SubscriptionList'[g].count
    BY <1>11 DEF Counts
  <2>1. CASE g \in {e, f}
    <3>1. L[g].topic \in subscribed'
      BY <1>1, <1>3, <1>6, <1>11, <2>1 DEF Halfway
    <3>2. \A c \in Actions : L[g].topic \in {Accepted(c), Rejected(c)} => c = a
      BY <1>4, <1>11, <2>1, TopicsDiffer
    <3>3. SubscriptionList'[g].count = 1
      BY <1>11, <2>1
    <3> QED
      BY <1>20, <3>1, <3>2, <3>3
  <2>2. CASE Settled(g)
    <3>1. L[g].topic \in subscribed'
      BY <1>1, <2>2 DEF Kept, Counts
    <3>2. ASSUME NEW c \in Actions, L[g].topic \in {Accepted(c), Rejected(c)}
          PROVE  Users(c)' <= SubscriptionList'[g].count
      <4>1. c # a
        BY <1>14, <2>2, <3>2 DEF Holds
      <4>2. Users(c) <= L[g].count
        BY <2>2, <3>2 DEF Kept, Counts
      <4>3. SubscriptionList'[g] = L[g]
        BY <1>9, <1>12, <2>2
      <4> QED
        BY <1>20, <4>1, <4>2, <4>3
    <3> QED
      BY <3>1, <3>2
  <2> QED
    BY <1>12, <2>1, <2>2
<1>22. Found'
  <2> SUFFICES ASSUME NEW c \in Actions, Users(c)' > 0 PROVE \E g \in Entries : Holds(g, Accepted(c))'
    BY DEF Found
  <2>1. CASE c = a
    BY <1>4, <1>15, <2>1
  <2>2. CASE c # a
    BY <1>16, <1>20, <2>2 DEF Kept, Found
  <2> QED
    BY <2>1, <2>2
<1>23. Preparing'
  BY <1>5 DEF Preparing
<1> QED
  BY <1>17, <1>18, <1>19, <1>21, <1>22, <1>23 DEF Kept

\* A call begins.
LEMMA BeginKept ==
    ASSUME Typed, topics = "kept" => Kept, calls = <<>>, UNCHANGED AckWaitList, topics' = "kept",
           NEW a \in Actions, NEW sticky \in BOOLEAN, Begin(a, sticky)
    PROVE  Kept'
<1>1. /\ calls' # <<>> /\ Top'.act = a /\ Top'.sticky = sticky /\ topics = "kept"
      /\ UNCHANGED subscribed
      /\ \/ Top'.pc = "fail" /\ UNCHANGED SubscriptionList
         \/ Top'.pc = "publish" /\ Present(a) /\ SubscriptionList' = Incremented(a, sticky)
         \/ Top'.pc = "accepted" /\ ~Present(a) /\ TwoTaken(a, Top'.acc, Top'.rej)
  BY BeginShapes
<1>2. CASE Top'.pc = "fail" /\ UNCHANGED SubscriptionList
  <2>1. ~Subscribing /\ ~Subscribing' /\ \A c \in Actions : ~InCall(c)'
    BY <1>2 DEF Subscribing, InCall
  <2> QED
    BY <1>1, <1>2, <2>1, CallsKept
<1>3. CASE Top'.pc = "publish" /\ Present(a) /\ SubscriptionList' = Incremented(a, sticky)
  BY <1>1, <1>3, SharesKept
<1>4. CASE Top'.pc = "accepted" /\ ~Present(a) /\ TwoTaken(a, Top'.acc, Top'.rej)
  BY <1>1, <1>4, SubscribesKept
<1> QED
  BY <1>1, <1>2, <1>3, <1>4

\* A call ends: without nested calls none is left.
LEMMA LastReturns ==
    ASSUME Typed, OneCall, calls # <<>>, NEW rc, Returns(rc)
    PROVE  calls' = <<>> /\ Top = calls[1] /\ 1 \in Open /\ Top \in CallRecord
<1>1. calls \in Seq(CallRecord) /\ Len(calls) <= 1
  BY DEF Typed, CallsTyped, OneCall
<1>2. Len(calls) = 1 /\ Top = calls[1] /\ Top \in CallRecord
  BY <1>1, Stack
<1>3. Others \in Seq(CallRecord) /\ Len(Others) = 0
  BY <1>1, <1>2, Stack
<1>4. \A s \in Seq(CallRecord) : Len(s) = 0 => s = <<>>
  OBVIOUS
<1> QED
  BY <1>2, <1>3, <1>4 DEF Returns, Open

(* The report is published: the call's record is taken, and the report that  *)
(* was about to wait now waits.                                             *)
LEMMA PublishKept ==
    ASSUME Typed, OneCall, Kept, Publish
    PROVE  Kept'
<1>1. /\ calls # <<>> /\ Top.pc = "publish" /\ UNCHANGED <<SubscriptionList, subscribed>>
      /\ \/ /\ AckWaitList' = [AckWaitList EXCEPT ![Top.slot] =
                  [isFree |-> FALSE, report |-> Top.report, token |-> Top.token, act |-> Top.act]]
            /\ Returns("SUCCESS")
         \/ Returns("failed") /\ UNCHANGED AckWaitList
  BY DEF Publish, Replace
<1>2. calls' = <<>> /\ Top = calls[1] /\ 1 \in Open /\ Top \in CallRecord
  BY <1>1, LastReturns
<1>3. ~Subscribing /\ ~Subscribing' /\ \A c \in Actions : ~InCall(c)' /\ (InCall(c) <=> c = Top.act)
  BY <1>1, <1>2 DEF Subscribing, InCall
<1>4. CASE UNCHANGED AckWaitList
  BY <1>1, <1>3, <1>4, CallsKept
<1>5. CASE AckWaitList' = [AckWaitList EXCEPT ![Top.slot] =
                  [isFree |-> FALSE, report |-> Top.report, token |-> Top.token, act |-> Top.act]]
  <2> DEFINE rec == [isFree |-> FALSE, report |-> Top.report, token |-> Top.token, act |-> Top.act]
  <2>1. Top.slot \in Slots /\ AckWaitList[Top.slot].isFree /\ AckWaitList \in [Slots -> WaitRecord]
    BY <1>1, <1>2 DEF OneCall, CallRecord, Typed, ListTyped
  <2>2. ~rec.isFree /\ rec.act = Top.act
    OBVIOUS
  <2>3. AckWaitList' = [AckWaitList EXCEPT ![Top.slot] = rec]
    BY <1>5
  <2> HIDE DEF rec
  <2>4. ASSUME NEW a \in Actions
        PROVE  Users(a)' \in Nat /\ Users(a) \in Nat /\ Users(a)' <= Users(a)
    <3>1. AwaitCount(AckWaitList', a) = IF a = Top.act THEN AwaitCount(AckWaitList, a) + 1
                                        ELSE AwaitCount(AckWaitList, a)
      <4>1. PICK i \in Slots : i = Top.slot
        BY <2>1
      <4>2. /\ AckWaitList \in [Slots -> WaitRecord] /\ AckWaitList[i].isFree
            /\ AckWaitList'[i] = rec /\ \A j \in Slots : j # i => AckWaitList'[j] = AckWaitList[j]
        BY <2>1, <2>3, <4>1
      <4>3. AwaitCount(AckWaitList', a)
              = IF a = AckWaitList'[i].act THEN AwaitCount(AckWaitList, a) + 1 ELSE AwaitCount(AckWaitList, a)
        BY <2>2, <4>2, CountTaken
      <4> QED
        BY <2>2, <4>2, <4>3
    <3>2. Users(a)' = AwaitCount(AckWaitList', a) /\ Users(a)' \in Nat
      BY <1>3, UsersAfter
    <3>3. Users(a) = (IF a = Top.act THEN AwaitCount(AckWaitList, a) + 1 ELSE AwaitCount(AckWaitList, a))
      BY <1>3, UsersFacts
    <3>4. \A n \in Nat : n <= n
      OBVIOUS
    <3> QED
      BY <3>1, <3>2, <3>3, <3>4
  <2>5. \A g \in Entries : Settled(g)' <=> Settled(g)
    BY <1>1, <1>3 DEF Settled
  <2> QED
    BY <1>1, <1>3, <2>4, <2>5, KeptQuiet
<1> QED
  BY <1>1, <1>4, <1>5

\* Holds as long as no subscription or cancellation has failed.
KeptInv == topics = "kept" => Kept

(* Without nested calls every step keeps the entries of the topics in order. *)
LEMMA KeptStep ==
    ASSUME Typed, OneCall, KeptInv, [Next]_vars, ~Reentrant
    PROVE  KeptInv'
<1> SUFFICES ASSUME topics' = "kept" PROVE Kept'
  BY DEF KeptInv
<1>1. topics = "kept" => Kept
  BY DEF KeptInv
<1>2. ASSUME UNCHANGED <<SubscriptionList, subscribed, AckWaitList, calls, topics>> PROVE Kept'
  <2>1. (Subscribing' <=> Subscribing) /\ Top' = Top /\ \A a \in Actions : InCall(a)' <=> InCall(a)
    BY <1>2 DEF Subscribing, Top, InCall
  <2>2. \A g \in Entries : Settled(g)' <=> Settled(g)
    BY <1>2, <2>1 DEF Settled
  <2>3. \A a \in Actions : Users(a)' \in Nat /\ Users(a) \in Nat /\ Users(a)' <= Users(a)
    <3>1. \A n \in Nat : n <= n
      OBVIOUS
    <3> QED
      BY <1>2, <2>1, <3>1, CallUsers
  <2>4. ~Subscribing' \/ (Subscribing /\ UNCHANGED calls)
    BY <1>2, <2>1
  <2> QED
    BY <1>1, <1>2, <2>2, <2>3, <2>4, KeptQuiet
<1>3. ASSUME NEW i \in Slots, Awaits(i), UNCHANGED calls, Unsubscribe(AckWaitList[i].act),
             AckWaitList' = [AckWaitList EXCEPT ![i].isFree = TRUE]
      PROVE  Kept'
  <2>1. topics = "kept"
    BY <1>3 DEF Unsubscribe
  <2> QED
    BY <1>1, <1>3, <2>1, AnswerKept
<1>4. ASSUME NEW u \in Uses, calls = <<>>, Begin(u[1], u[2]), UNCHANGED AckWaitList
      PROVE  Kept'
  <2>1. u[1] \in Actions /\ u[2] \in BOOLEAN
    BY Domains
  <2> QED
    BY <1>1, <1>4, <2>1, BeginKept
<1>5. CASE Report
  BY <1>4, <1>5 DEF Report
<1>6. CASE SubscribeAccepted
  <2>1. topics = "kept"
    BY <1>6 DEF SubscribeAccepted
  <2> QED
    BY <1>1, <1>6, <2>1, AcceptedKept
<1>7. CASE SubscribeRejected
  <2>1. topics = "kept"
    BY <1>7 DEF SubscribeRejected
  <2> QED
    BY <1>1, <1>7, <2>1, RejectedKept
<1>8. CASE SubscribeFails
  BY <1>8 DEF SubscribeFails
<1>9. CASE Publish
  <2>1. topics = "kept"
    BY <1>9 DEF Publish
  <2> QED
    BY <1>1, <1>9, <2>1, PublishKept
<1>10. CASE Fail
  <2>1. calls # <<>> /\ Top.pc = "fail" /\ Returns("failed") /\ UNCHANGED <<listVars, topics>>
    BY <1>10 DEF Fail
  <2>2. calls' = <<>>
    BY <2>1, LastReturns
  <2>3. ~Subscribing /\ ~Subscribing' /\ \A c \in Actions : ~InCall(c)'
    BY <2>1, <2>2 DEF Subscribing, InCall
  <2> QED
    BY <1>1, <2>1, <2>3, CallsKept DEF listVars
<1>11. CASE DeliverAck
  <2> DEFINE m    == Head(wire)
             mine == {i \in Slots : ~AckWaitList[i].isFree /\ AckWaitList[i].token = m.token}
             i    == Least(mine)
  <2>1. /\ UNCHANGED calls
        /\ \/ /\ mine # {} /\ Unsubscribe(AckWaitList[i].act)
              /\ AckWaitList' = [AckWaitList EXCEPT ![i].isFree = TRUE]
           \/ UNCHANGED <<listVars, topics>>
    BY <1>11 DEF DeliverAck
  <2>2. mine # {} => i \in mine
    <3>1. mine \in SUBSET Nat
      BY Domains
    <3> HIDE DEF mine
    <3> QED
      BY <3>1, LeastIsIn
  <2>3. CASE mine # {} /\ Unsubscribe(AckWaitList[i].act) /\ AckWaitList' = [AckWaitList EXCEPT ![i].isFree = TRUE]
    <3>1. i \in Slots /\ Awaits(i)
      BY <2>2, <2>3 DEF Awaits
    <3> HIDE DEF i
    <3> QED
      BY <1>3, <2>1, <2>3, <3>1
  <2>4. CASE UNCHANGED <<listVars, topics>>
    BY <1>2, <2>1, <2>4 DEF listVars
  <2> HIDE DEF mine, i
  <2> QED
    BY <2>1, <2>3, <2>4
<1>12. CASE DeliverDelta
  <2>1. /\ UNCHANGED AckWaitList
        /\ \/ UNCHANGED <<SubscriptionList, subscribed, calls, topics>>
           \/ /\ calls = <<>> \/ Reentrant
              /\ \E u \in Uses : Begin(u[1], u[2])
    BY <1>12, Zenon DEF DeliverDelta
  <2> QED
    BY <1>2, <1>4, <2>1
<1>13. CASE SendDelta
  BY <1>2, <1>13 DEF SendDelta, listVars
<1>14. ASSUME NEW i \in Slots, Expire(i) PROVE Kept'
  BY <1>3, <1>14 DEF Expire, Awaits
<1>15. ASSUME NEW q \in requests, NEW v \in {"accepted", "rejected"}, Serve(q, v) PROVE Kept'
  BY <1>2, <1>15 DEF Serve, listVars
<1>16. CASE UNCHANGED vars
  BY <1>2, <1>16 DEF vars, listVars
<1> QED
  BY <1>5, <1>6, <1>7, <1>8, <1>9, <1>10, <1>11, <1>12, <1>13, <1>14, <1>15, <1>16 DEF Next, CallStep

\* Nothing is awaited, and no entry is in use.
LEMMA KeptInit ==
    ASSUME Init
    PROVE  KeptInv
<1>1. /\ \A e \in Entries : SubscriptionList[e].isFree
      /\ \A i \in Slots : AckWaitList[i].isFree /\ calls = <<>>
  BY DEF Init
<1>2. calls = <<>>
  BY DEF Init
<1>3. ~Subscribing /\ \A e \in Entries : ~Settled(e)
  BY <1>1, <1>2 DEF Subscribing, Settled
<1>4. \A a \in Actions : Users(a) = 0
  <2> SUFFICES ASSUME NEW a \in Actions PROVE Users(a) = 0
    OBVIOUS
  <2>1. ~InCall(a) /\ AwaitCount(AckWaitList, a) = 0
    BY <1>1, <1>2, CountFacts DEF InCall
  <2> QED
    BY <2>1, UsersFacts
<1>5. Found
  BY <1>4 DEF Found
<1> QED
  BY <1>3, <1>5 DEF KeptInv, Kept, OneEntry, FirstEntry, Paired, Counts, Preparing, Holds

\* What is awaited uses its topics, and topics in use are subscribed.
LEMMA KeptSubscribed ==
    ASSUME Typed, KeptInv
    PROVE  AwaitedIsSubscribed
<1> SUFFICES ASSUME topics = "kept", NEW i \in Slots, ~AckWaitList[i].isFree
             PROVE  {Accepted(AckWaitList[i].act), Rejected(AckWaitList[i].act)} \subseteq subscribed
  BY DEF AwaitedIsSubscribed
<1>1. PICK a \in Actions : a = AckWaitList[i].act
  BY DEF Typed, ListTyped
<1>2. Kept
  BY DEF KeptInv
<1>3. Users(a) > 0
  <2>1. AwaitCount(AckWaitList, a) \in Nat /\ AwaitCount(AckWaitList, a) # 0
    BY <1>1, CountFacts
  <2>2. \A n \in Nat : n # 0 => n > 0 /\ n + 1 > 0
    OBVIOUS
  <2> QED
    BY <2>1, <2>2, UsersFacts
<1>4. PICK e \in Entries : Holds(e, Accepted(a))
  BY <1>2, <1>3 DEF Kept, Found
<1>5. PICK f \in Entries : Holds(f, Rejected(a))
  BY <1>2, <1>4 DEF Kept, Paired
<1> QED
  BY <1>1, <1>2, <1>4, <1>5 DEF Kept, Counts, Holds

(* Where no delta's handler reports inside another call, and as long as no   *)
(* subscription or cancellation has failed, the client is subscribed to both *)
(* topics of every report whose answer is awaited: iot_shadow_action counts  *)
(* the reports of a topic, and only the last one leaves it.                 *)
THEOREM AwaitedSubscribed ==
    ASSUME ~Reentrant
    PROVE  Spec => []AwaitedIsSubscribed
<1>1. Init => Typed /\ Linked /\ OneCall /\ NoReportForgotten /\ KeptInv
  BY TypedInit, LinkedInit, KeptInit DEF Init, OneCall, Open, NoReportForgotten
<1>2. /\ Typed /\ Linked /\ OneCall /\ NoReportForgotten /\ KeptInv /\ [Next]_vars
      => Typed' /\ Linked' /\ OneCall' /\ NoReportForgotten' /\ KeptInv'
  BY TypedStep, LinkedStep, RememberedStep, KeptStep
<1>3. Typed /\ KeptInv => AwaitedIsSubscribed
  BY KeptSubscribed
<1> QED
  BY <1>1, <1>2, <1>3, PTL DEF Spec
=============================================================================
