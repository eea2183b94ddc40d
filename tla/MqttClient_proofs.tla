------------------------- MODULE MqttClient_proofs -------------------------
(***************************************************************************)
(* Proofs about the MQTT client, for any topics, size of the table, waits  *)
(* and bounds, and for calls that nest to any depth in callbacks.          *)
(*                                                                         *)
(* The state of the client is one variable that every call saves, sets and *)
(* restores.  That it fits the innermost call is not inductive: when the   *)
(* innermost call returns, the state that it restores must fit the call    *)
(* below.  The invariant says so of every call under way (Nested): which   *)
(* call may be made inside which, and what it has saved.  That handlers    *)
(* are kept rests on the entry that a subscription takes before its wait   *)
(* being free still when the answer comes (Reserved).  That the broker     *)
(* holds the topics of the handlers rests on what is on its way: an        *)
(* acknowledgement is owed only to a call that waits for it (Answered), so *)
(* that one which is read says that the broker has done what this call     *)
(* asked for (Tracked).                                                    *)
(***************************************************************************)
EXTENDS MqttClient, ListFacts, TLAPS

\* The calls, their records, and the packets of either direction.
Ops     == {"connect", "subscribe", "unsubscribe", "resubscribe", "yield", "callback"}
Frame   == [op : Ops, saved : States, topic : Topics \cup {NoTopic}, idx : Handlers,
            count : 0 .. NumHandlers, pc : {"first", "ping", "next"}]
Packet  == [type : {"CONNECT", "SUBSCRIBE", "UNSUBSCRIBE", "PINGREQ", "PUBLISH", "PINGRESP",
                    "CONNACK", "SUBACK", "UNSUBACK"}, topic : Topics \cup {NoTopic}]
Request == [type : {"CONNECT", "PINGREQ"}, topic : {NoTopic}]
           \cup [type : {"SUBSCRIBE", "UNSUBSCRIBE"}, topic : Topics]

(* The types, in parts that the actions change separately.                 *)
CallsTyped ==
    /\ state \in States
    /\ stack \in Seq(Frame)

TableTyped ==
    /\ handlers \in [Handlers -> Topics \cup {NoTopic}]
    /\ acked \subseteq Topics
    /\ mishaps \subseteq {"late", "deaf", "hole", "nested"}

TimersTyped ==
    /\ ping \in {"yes", "no"} /\ pingTimer \in {"running", "expired"}
    /\ delayTimer \in {"running", "expired"} /\ wait \in Nat
    /\ losses \in 0 .. MaxLosses /\ calls \in 0 .. MaxCalls /\ messages \in 0 .. MaxMessages

NetTyped ==
    /\ net \in {"none", "up"} \cup Losses
    /\ toBroker \in Seq(Request) /\ toClient \in Seq(Packet) /\ subs \subseteq Topics

Typed == CallsTyped /\ TableTyped /\ TimersTyped /\ NetTyped

(* The state s that the client is in while op is the innermost call, m     *)
(* being the mishaps.                                                      *)
Fits(op, s, m) ==
    \/ op = "connect" /\ s = "CONNECTING"
    \/ op = "subscribe" /\ s = "SUBSCRIBE"
    \/ op = "unsubscribe" /\ s = "UNSUBSCRIBE"
    \/ op = "resubscribe" /\ s = "RESUBSCRIBE"
    \/ op = "callback" /\ s = "WAIT_FOR_CB_RETURN"
    \/ op = "yield" /\ s \in {"YIELD", "PENDING_RECONNECT"}
    \/ op = "yield" /\ s = "IDLE" /\ "deaf" \in m

\* The states of the client outside calls.
Resting == {"INITIALIZED", "DISCONNECTED_ERROR", "IDLE", "PENDING_RECONNECT"}

(* Which call may be made inside which, and the state that it has saved.   *)
Legal(k) ==
    /\ k = 1 => stack[k].op \in {"connect", "subscribe", "unsubscribe", "yield"}
    /\ k = 1 /\ stack[k].op \in {"subscribe", "unsubscribe"} => stack[k].saved = "IDLE"
    /\ k > 1 =>
        \/ /\ stack[k].op = "callback" /\ stack[k - 1].op # "callback"
           /\ Fits(stack[k - 1].op, stack[k].saved, mishaps) /\ stack[k].saved # "PENDING_RECONNECT"
        \/ /\ stack[k].op = "subscribe" /\ stack[k - 1].op = "callback"
           /\ stack[k].saved = "WAIT_FOR_CB_RETURN"
        \/ stack[k].op \in {"connect", "resubscribe"} /\ stack[k - 1].op = "yield"

\* Every call under way is legal where it is.
Nested == \A k \in 1 .. Len(stack) : Legal(k)

(* What the calls under way rely on in the table of the handlers.          *)
Reserved ==
    /\ \A k \in 1 .. Len(stack) :
          /\ stack[k].op \in {"subscribe", "unsubscribe"} => stack[k].topic \in Topics
          /\ stack[k].op = "resubscribe" => \A i \in 0 .. stack[k].count - 1 : handlers[i] # NoTopic
    /\ "nested" \notin mishaps =>
        /\ \A k \in 1 .. Len(stack) : stack[k].op = "subscribe" => handlers[stack[k].idx] = NoTopic
        /\ \A j, k \in 1 .. Len(stack) :
              stack[j].op = "subscribe" /\ stack[k].op = "subscribe" => j = k

\* The inductive invariant.
Inv == Typed /\ Nested /\ StateFitsCalls /\ Reserved /\ HandlerKept

-----------------------------------------------------------------------------
(* The stack, the table and the connection, operator by operator.          *)

\* The stack of calls is its innermost call and those below it.
LEMMA TopFacts ==
    ASSUME Typed, stack # <<>>
    PROVE  /\ Len(stack) \in Nat \ {0} /\ Top \in Frame /\ Top = stack[Len(stack)]
           /\ Below \in Seq(Frame) /\ Len(Below) = Len(stack) - 1
           /\ \A k \in 1 .. Len(stack) - 1 : Below[k] = stack[k]
<1>1. stack \in Seq(Frame)
  BY DEF Typed, CallsTyped
<1>2. Len(stack) \in Nat \ {0} /\ Top \in Frame
  BY <1>1 DEF Top
<1>3. /\ Below \in Seq(Frame) /\ Len(Below) = Len(stack) - 1
      /\ \A k \in 1 .. Len(stack) - 1 : Below[k] = stack[k]
  BY <1>1, FrontOf, Zenon DEF Below
<1> QED
  BY <1>2, <1>3 DEF Top

(* What two versions of a frame have in common.                            *)
Same(f, g) ==
    /\ f.op = g.op /\ f.saved = g.saved /\ f.topic = g.topic /\ f.count = g.count
    /\ g.op = "subscribe" => f.idx = g.idx

\* A yield that goes on is still the same call.
LEMMA GoToFacts ==
    ASSUME NEW s \in Seq(Frame), NEW p \in {"first", "ping", "next"}
    PROVE  /\ GoTo(s, p) \in Seq(Frame) /\ Len(GoTo(s, p)) = Len(s)
           /\ \A k \in 1 .. Len(s) : Same(GoTo(s, p)[k], s[k])
<1>1. CASE s = <<>>
  BY <1>1 DEF GoTo
<1>2. CASE s # <<>>
  <2> DEFINE g == [s[Len(s)] EXCEPT !.pc = p]
  <2>1. s[Len(s)] \in Frame /\ Len(s) \in Nat \ {0}
    BY <1>2
  <2>2. g \in Frame /\ Same(g, s[Len(s)])
    BY <2>1 DEF Frame, Same
  <2>3. GoTo(s, p) = [s EXCEPT ![Len(s)] = g]
    BY <1>2 DEF GoTo
  <2> HIDE DEF g
  <2> QED
    BY <2>1, <2>2, <2>3 DEF Same
<1> QED
  BY <1>1, <1>2

\* The record of a call that begins: it saves the state.
LEMMA CallFacts ==
    ASSUME Typed, NEW op \in Ops, NEW t \in Topics \cup {NoTopic}, NEW i \in Handlers,
           NEW n \in 0 .. NumHandlers
    PROVE  LET f == Call(op, t, i, n) IN
           /\ f \in Frame /\ f.op = op /\ f.saved = state /\ f.topic = t /\ f.idx = i /\ f.count = n
  BY DEF Call, Frame, Typed, CallsTyped

\* The table is a range of natural numbers and has an entry.
LEMMA HandlersFacts == 0 \in Handlers /\ Handlers \subseteq Nat /\ NumHandlers \in Nat
  BY ClientAssumption DEF Handlers

(* The first free entry, or the size of the table.                         *)
LEMMA FreeIndexFacts ==
    ASSUME Typed
    PROVE  /\ FreeIndex \in 0 .. NumHandlers
           /\ FreeIndex < NumHandlers => FreeIndex \in Handlers /\ handlers[FreeIndex] = NoTopic
           /\ \A j \in 0 .. FreeIndex - 1 : j \in Handlers /\ handlers[j] # NoTopic
<1> DEFINE S == {i \in 0 .. NumHandlers : i < NumHandlers => handlers[i] = NoTopic}
<1>1. S \in SUBSET Nat /\ NumHandlers \in S
  BY HandlersFacts
<1>2. PICK x \in S : \A y \in S : x <= y
  BY <1>1, MinimumExists
<1>3. /\ x \in 0 .. NumHandlers
      /\ x < NumHandlers => handlers[x] = NoTopic
      /\ \A j \in 0 .. x - 1 : handlers[j] # NoTopic
  BY <1>2, HandlersFacts
<1>4. /\ FreeIndex \in 0 .. NumHandlers
      /\ FreeIndex < NumHandlers => handlers[FreeIndex] = NoTopic
      /\ \A j \in 0 .. FreeIndex - 1 : handlers[j] # NoTopic
  <2> HIDE DEF S
  <2> QED BY <1>3 DEF FreeIndex
<1> HIDE DEF S
<1> QED
  BY <1>4, HandlersFacts DEF Handlers

\* The next handler that is called is one that matches.
LEMMA MatchingFacts ==
    ASSUME NEW t, NEW from \in Nat, Matching(t, from) # {}
    PROVE  Least(Matching(t, from)) \in Matching(t, from)
<1>1. Matching(t, from) \in SUBSET Nat
  BY HandlersFacts DEF Matching
<1>2. PICK x \in Matching(t, from) : \A y \in Matching(t, from) : x <= y
  BY <1>1, MinimumExists
<1> QED
  BY <1>2 DEF Least

\* What is on its way to the broker are requests.
LEMMA SentFacts ==
    ASSUME Typed, NEW p \in Request
    PROVE  Sent(p) \in Seq(Request)
  BY DEF Sent, Typed, NetTyped

\* Only a call that waits or yields reads, never a callback.
LEMMA ReadsFacts ==
    ASSUME Typed, NEW type, Reads(type)
    PROVE  /\ toClient' \in Seq(Packet) /\ Head(toClient) \in Packet
           /\ stack # <<>> /\ Top.op \in Ops \ {"callback"}
           /\ Top.op = "yield" => state # "PENDING_RECONNECT"
<1>1. stack # <<>> /\ Top.op \in Ops \ {"callback"} /\ (Top.op = "yield" => state # "PENDING_RECONNECT")
  BY DEF Reads, Waiting, YieldReads, InCall, Ops
<1> QED
  BY <1>1 DEF Reads, Typed, NetTyped

\* A packet that is read leaves the calls as they are.
LEMMA GoesFacts ==
    ASSUME Typed
    PROVE  /\ Goes \in Seq(Frame) /\ Len(Goes) = Len(stack)
           /\ \A k \in 1 .. Len(stack) : Same(Goes[k], stack[k])
<1>1. stack \in Seq(Frame)
  BY DEF Typed, CallsTyped
<1> QED
  BY <1>1, GoToFacts DEF Goes, Same

-----------------------------------------------------------------------------
(* How a step changes the stack: it keeps the first n calls, and removes   *)
(* the others or puts one call in their place.                             *)
Keeps(n) ==
    /\ stack' \in Seq(Frame) /\ n \in 0 .. Len(stack) /\ Len(stack') >= n
    /\ \A k \in 1 .. n : Same(stack'[k], stack[k])
Shrinks(n)  == Keeps(n) /\ Len(stack') = n
Grows(n, f) == Keeps(n) /\ Len(stack') = n + 1 /\ stack'[n + 1] = f

\* Three ways to leave the calls as they are.
LEMMA Stays ==
    ASSUME Typed,
           \/ stack' = stack \/ stack' = Goes
           \/ \E p \in {"first", "ping", "next"} : stack' = GoTo(stack, p)
    PROVE  Shrinks(Len(stack))
<1>1. stack \in Seq(Frame) /\ Len(stack) \in 0 .. Len(stack)
  BY DEF Typed, CallsTyped
<1> QED
  BY <1>1, GoesFacts, GoToFacts DEF Shrinks, Keeps, Same

\* Two ways to return to the call below.
LEMMA Pops ==
    ASSUME Typed, stack # <<>>,
           stack' = Below \/ \E p \in {"first", "ping", "next"} : stack' = GoTo(Below, p)
    PROVE  Shrinks(Len(stack) - 1)
<1>1. /\ Below \in Seq(Frame) /\ Len(Below) = Len(stack) - 1 /\ Len(stack) \in Nat \ {0}
      /\ \A k \in 1 .. Len(stack) - 1 : Below[k] = stack[k]
  BY TopFacts
<1>2. stack' \in Seq(Frame) /\ Len(stack') = Len(Below) /\ \A k \in 1 .. Len(Below) : Same(stack'[k], Below[k])
  <2>1. CASE stack' = Below
    BY <1>1, <2>1 DEF Same
  <2>2. CASE \E p \in {"first", "ping", "next"} : stack' = GoTo(Below, p)
    BY <1>1, <2>2, GoToFacts
  <2> QED
    BY <2>1, <2>2
<1> QED
  BY <1>1, <1>2 DEF Shrinks, Keeps

\* Three ways to make a call.
LEMMA Pushes ==
    ASSUME Typed, NEW f \in Frame
    PROVE  /\ stack' = Append(stack, f) => Grows(Len(stack), f)
           /\ stack' = Append(Goes, f) => Grows(Len(stack), f)
           /\ stack # <<>> /\ stack' = Append(Below, f) => Grows(Len(stack) - 1, f)
<1>1. stack \in Seq(Frame) /\ Len(stack) \in 0 .. Len(stack)
  BY DEF Typed, CallsTyped
<1>2. stack' = Append(stack, f) => Grows(Len(stack), f)
  BY <1>1, PushOn DEF Grows, Keeps, Same
<1>3. stack' = Append(Goes, f) => Grows(Len(stack), f)
  BY <1>1, GoesFacts, PushOn DEF Grows, Keeps
<1>4. stack # <<>> /\ stack' = Append(Below, f) => Grows(Len(stack) - 1, f)
  BY <1>1, TopFacts, PushOn DEF Grows, Keeps, Same
<1> QED
  BY <1>2, <1>3, <1>4

(* The innermost call fits the state of the client.                        *)
LEMMA FitsIs ==
    ASSUME Typed
    PROVE  StateFitsCalls <=>
             /\ stack = <<>> => state \in Resting
             /\ stack # <<>> => Fits(Top.op, state, mishaps)
  BY DEF StateFitsCalls, Fits, Resting

\* After a step the state fits if it fits the call that is innermost now.
LEMMA FitsNext ==
    ASSUME Typed', NEW n \in Nat,
           \/ Shrinks(n) /\ (n = 0 => state' \in Resting) /\ (n > 0 => Fits(stack[n].op, state', mishaps'))
           \/ \E f \in Frame : Grows(n, f) /\ Fits(f.op, state', mishaps')
    PROVE  StateFitsCalls'
<1>1. stack' \in Seq(Frame)
  BY DEF Typed, CallsTyped
<1>2. /\ stack' = <<>> => state' \in Resting
      /\ stack' # <<>> => Fits(stack'[Len(stack')].op, state', mishaps')
  BY <1>1 DEF Shrinks, Grows, Keeps, Same
<1> QED
  BY <1>2 DEF StateFitsCalls, Fits, Resting, Top

(* The order of the calls survives a step.                                 *)
LEMMA NestedPrefix ==
    ASSUME Typed, Nested, NEW n \in Nat, Keeps(n), NEW k \in 1 .. n,
           n <= 1 \/ ("deaf" \in mishaps => "deaf" \in mishaps')
    PROVE  Legal(k)'
<1>1. Len(stack') \in Nat /\ Len(stack) \in Nat
  BY DEF Keeps, Typed, CallsTyped
<1>2. Legal(k) /\ Same(stack'[k], stack[k])
  BY <1>1 DEF Nested, Keeps
<1>3. k > 1 => Same(stack'[k - 1], stack[k - 1]) /\ n > 1
  BY <1>1 DEF Keeps
<1> QED
  BY <1>2, <1>3 DEF Legal, Same, Fits

\* Calls that return leave the others in order.
LEMMA NestedShrinks ==
    ASSUME Typed, Nested, NEW n \in Nat, Shrinks(n),
           n <= 1 \/ ("deaf" \in mishaps => "deaf" \in mishaps')
    PROVE  Nested'
  BY NestedPrefix DEF Nested, Shrinks

\* So does a call that is made, if it is in order itself.
LEMMA NestedGrows ==
    ASSUME Typed, Nested, NEW n \in Nat, Keeps(n), Len(stack') = n + 1, Legal(n + 1)',
           n <= 1 \/ ("deaf" \in mishaps => "deaf" \in mishaps')
    PROVE  Nested'
<1> SUFFICES ASSUME NEW k \in 1 .. n + 1
             PROVE  Legal(k)'
  BY DEF Nested
<1>1. CASE k = n + 1
  BY <1>1
<1>2. CASE k # n + 1
  BY <1>2, NestedPrefix
<1> QED
  BY <1>1, <1>2

(* A call is put on top of the first n, where it may be made.              *)
LEMMA NestedPush ==
    ASSUME Typed, Nested, NEW n \in Nat, NEW f \in Frame, Grows(n, f),
           n <= 1 \/ ("deaf" \in mishaps => "deaf" \in mishaps'),
           n = 0 => /\ f.op \in {"connect", "subscribe", "unsubscribe", "yield"}
                    /\ f.op \in {"subscribe", "unsubscribe"} => f.saved = "IDLE",
           n > 0 =>
              \/ /\ f.op = "callback" /\ stack[n].op # "callback"
                 /\ Fits(stack[n].op, f.saved, mishaps') /\ f.saved # "PENDING_RECONNECT"
              \/ f.op = "subscribe" /\ stack[n].op = "callback" /\ f.saved = "WAIT_FOR_CB_RETURN"
              \/ f.op \in {"connect", "resubscribe"} /\ stack[n].op = "yield"
    PROVE  Nested'
<1>1. stack' \in Seq(Frame) /\ Len(stack') = n + 1 /\ stack'[n + 1] = f /\ Keeps(n)
  BY DEF Grows, Keeps
<1>2. n > 0 => Same(stack'[n], stack[n])
  BY <1>1 DEF Keeps
<1>3. Legal(n + 1)'
  BY <1>1, <1>2 DEF Legal, Same
<1> QED
  BY <1>1, <1>3, NestedGrows

(* So does what the calls rely on, if the table and the subscriptions stay *)
(* and no call is made that relies on the table.                           *)
LEMMA ReservedNext ==
    ASSUME Typed, Reserved, HandlerKept, NEW n \in Nat, Keeps(n),
           UNCHANGED <<handlers, acked>>, "nested" \in mishaps => "nested" \in mishaps',
           \/ Len(stack') = n
           \/ Len(stack') = n + 1 /\ stack'[n + 1].op \notin {"subscribe", "unsubscribe", "resubscribe"}
    PROVE  Reserved' /\ HandlerKept'
<1>1. stack' \in Seq(Frame) /\ Len(stack') \in Nat /\ Len(stack) \in Nat /\ n <= Len(stack)
  BY DEF Keeps, Typed, CallsTyped
<1>2. \A k \in 1 .. Len(stack') :
         stack'[k].op \in {"subscribe", "unsubscribe", "resubscribe"} =>
            k \in 1 .. Len(stack) /\ Same(stack'[k], stack[k])
  <2> SUFFICES ASSUME NEW k \in 1 .. Len(stack'),
                      stack'[k].op \in {"subscribe", "unsubscribe", "resubscribe"}
               PROVE  k \in 1 .. Len(stack) /\ Same(stack'[k], stack[k])
    OBVIOUS
  <2>1. k # n + 1
    OBVIOUS
  <2>2. k \in 1 .. n /\ k \in 1 .. Len(stack)
    BY <1>1, <2>1
  <2> QED
    BY <2>2 DEF Keeps
<1>3. Reserved'
  <2>1. \A k \in 1 .. Len(stack') :
           /\ stack'[k].op \in {"subscribe", "unsubscribe"} => stack'[k].topic \in Topics
           /\ stack'[k].op = "resubscribe" => \A i \in 0 .. stack'[k].count - 1 : handlers[i] # NoTopic
    BY <1>2 DEF Reserved, Same
  <2>2. ASSUME "nested" \notin mishaps'
        PROVE  \A k \in 1 .. Len(stack') : stack'[k].op = "subscribe" => handlers[stack'[k].idx] = NoTopic
    BY <1>2, <2>2 DEF Reserved, Same
  <2>3. ASSUME "nested" \notin mishaps'
        PROVE  \A j, k \in 1 .. Len(stack') : stack'[j].op = "subscribe" /\ stack'[k].op = "subscribe" => j = k
    BY <1>2, <2>3 DEF Reserved, Same
  <2> QED
    BY <2>1, <2>2, <2>3 DEF Reserved
<1>4. HandlerKept'
  BY DEF HandlerKept
<1> QED
  BY <1>3, <1>4

(* What the invariant says of the innermost call and the one below it.     *)
LEMMA Inner ==
    ASSUME Inv, stack # <<>>
    PROVE  /\ Len(stack) \in Nat \ {0} /\ Top \in Frame /\ Top = stack[Len(stack)]
           /\ Fits(Top.op, state, mishaps) /\ Legal(Len(stack))
           /\ Top.op \in {"yield", "unsubscribe"} => Len(stack) = 1
           /\ Top.op = "resubscribe" => Len(stack) > 1
           /\ Top.op \in {"connect", "resubscribe"} /\ Len(stack) > 1 =>
                 stack[Len(stack) - 1].op = "yield" /\ Len(stack) = 2
<1>1. /\ Len(stack) \in Nat \ {0} /\ Top \in Frame /\ Top = stack[Len(stack)]
      /\ Fits(Top.op, state, mishaps) /\ Legal(Len(stack))
  BY TopFacts, FitsIs DEF Inv, Nested
<1>2. /\ Top.op \in {"yield", "unsubscribe"} => Len(stack) = 1
      /\ Top.op = "resubscribe" => Len(stack) > 1
      /\ Top.op \in {"connect", "resubscribe"} /\ Len(stack) > 1 => stack[Len(stack) - 1].op = "yield"
  <2>1. CASE Len(stack) = 1
    <3>1. stack[1].op \in {"connect", "subscribe", "unsubscribe", "yield"}
      BY <1>1, <2>1 DEF Legal
    <3> QED
      BY <1>1, <2>1, <3>1
  <2>2. CASE Len(stack) > 1
    <3>1. \/ Top.op = "callback" \/ Top.op = "subscribe"
          \/ Top.op \in {"connect", "resubscribe"} /\ stack[Len(stack) - 1].op = "yield"
      BY <1>1, <2>2 DEF Legal
    <3> QED
      BY <2>2, <3>1
  <2>3. Len(stack) \in Nat \ {0}
    BY <1>1
  <2>4. \A n \in Nat \ {0} : n = 1 \/ n > 1
    OBVIOUS
  <2> QED
    BY <2>1, <2>2, <2>3, <2>4, Zenon
<1>3. Len(stack) > 2 => stack[Len(stack) - 1].op # "yield"
  <2> DEFINE k == Len(stack) - 1
  <2>1. Len(stack) > 2 => k \in 1 .. Len(stack) /\ k > 1
    BY <1>1
  <2>2. Len(stack) > 2 => Legal(k)
    BY <2>1 DEF Inv, Nested
  <2> HIDE DEF k
  <2>3. Len(stack) > 2 => stack[k].op # "yield"
    BY <2>1, <2>2 DEF Legal
  <2> QED
    BY <2>3 DEF k
<1>4. Top.op \in {"connect", "resubscribe"} /\ Len(stack) > 1 =>
         stack[Len(stack) - 1].op = "yield" /\ Len(stack) = 2
  <2> SUFFICES ASSUME Top.op \in {"connect", "resubscribe"}, Len(stack) > 1
               PROVE  stack[Len(stack) - 1].op = "yield" /\ Len(stack) = 2
    OBVIOUS
  <2>1. stack[Len(stack) - 1].op = "yield"
    BY <1>2
  <2>2. ~(Len(stack) > 2)
    BY <2>1, <1>3
  <2>3. Len(stack) \in Nat
    BY TopFacts DEF Inv
  <2>4. Len(stack) = 2
    <3>1. \A n \in Nat : n > 1 /\ ~(n > 2) => n = 2
      OBVIOUS
    <3> QED
      BY <2>2, <2>3, <3>1, Zenon
  <2> QED BY <2>1, <2>4
<1> QED
  BY <1>1, <1>2, <1>4, Zenon

(* A step that leaves the calls as they are.                               *)
LEMMA StaysKeeps ==
    ASSUME Inv, Shrinks(Len(stack)), UNCHANGED <<state, handlers, acked, mishaps>>,
           TimersTyped', NetTyped'
    PROVE  Inv'
<1>1. stack \in Seq(Frame) /\ Len(stack) \in Nat
  BY DEF Inv, Typed, CallsTyped
<1>2. Typed'
  BY DEF Inv, Typed, CallsTyped, TableTyped, Shrinks, Keeps
<1>3. Nested' /\ Reserved' /\ HandlerKept'
  <2>1. Keeps(Len(stack)) /\ Len(stack') = Len(stack) /\ Typed /\ Nested /\ Reserved /\ HandlerKept
    BY DEF Inv, Shrinks
  <2>2. Nested'
    BY <1>1, <2>1, NestedShrinks
  <2>3. Reserved' /\ HandlerKept'
    BY <1>1, <2>1, ReservedNext
  <2> QED
    BY <2>2, <2>3
<1>4. StateFitsCalls'
  <2>1. /\ Len(stack) = 0 => state' \in Resting
        /\ Len(stack) > 0 => Fits(stack[Len(stack)].op, state', mishaps')
    BY <1>1, FitsIs DEF Inv, Top
  <2> QED
    BY <1>1, <1>2, <2>1, FitsNext
<1> QED
  BY <1>2, <1>3, <1>4 DEF Inv

(* A call returns and restores the state that it has saved.                *)
LEMMA RestoreFits ==
    ASSUME Inv, Typed', stack # <<>>, Shrinks(Len(stack) - 1), state' = Top.saved, mishaps \subseteq mishaps',
           Top.op \in {"subscribe", "unsubscribe", "callback"}
    PROVE  StateFitsCalls'
<1>1. /\ Len(stack) \in Nat \ {0} /\ Top = stack[Len(stack)] /\ Legal(Len(stack))
  BY Inner
<1>2. /\ Len(stack) - 1 = 0 => state' \in Resting
      /\ Len(stack) - 1 > 0 => Fits(stack[Len(stack) - 1].op, state', mishaps')
  BY <1>1 DEF Legal, Fits, Resting
<1>3. Len(stack) - 1 \in Nat
  BY <1>1
<1> QED
  BY <1>2, <1>3, FitsNext

(* A call returns to the yield, or ends the call of the program.           *)
LEMMA ReturnKeeps ==
    ASSUME Inv, stack # <<>>, Shrinks(Len(stack) - 1), UNCHANGED <<handlers, acked>>,
           state' \in States, mishaps \subseteq mishaps', mishaps' \subseteq {"late", "deaf", "hole", "nested"},
           TimersTyped', NetTyped',
           \/ state' = Top.saved /\ Top.op \in {"subscribe", "unsubscribe", "callback"}
           \/ /\ Len(stack) = 1 => state' \in Resting
              /\ Len(stack) > 1 => Fits(stack[Len(stack) - 1].op, state', mishaps')
    PROVE  Inv'
<1>1. Len(stack) \in Nat \ {0} /\ Len(stack) - 1 \in Nat
  BY Inner
<1>2. Typed'
  BY DEF Inv, Typed, CallsTyped, TableTyped, Shrinks, Keeps
<1>3. Nested' /\ Reserved' /\ HandlerKept'
  <2> DEFINE n == Len(stack) - 1
  <2>1. /\ n \in Nat /\ Keeps(n) /\ Len(stack') = n /\ Typed /\ Nested /\ Reserved /\ HandlerKept
        /\ "deaf" \in mishaps => "deaf" \in mishaps'
        /\ "nested" \in mishaps => "nested" \in mishaps'
    BY <1>1 DEF Inv, Shrinks
  <2> HIDE DEF n
  <2>2. Nested'
    BY <2>1, NestedShrinks DEF Shrinks
  <2>3. Reserved' /\ HandlerKept'
    BY <2>1, ReservedNext
  <2> QED
    BY <2>2, <2>3
<1>4. CASE state' = Top.saved /\ Top.op \in {"subscribe", "unsubscribe", "callback"}
  BY <1>2, <1>3, <1>4, RestoreFits DEF Inv
<1>5. CASE /\ Len(stack) = 1 => state' \in Resting
           /\ Len(stack) > 1 => Fits(stack[Len(stack) - 1].op, state', mishaps')
  <2> DEFINE n == Len(stack) - 1
  <2>1. n \in Nat /\ Shrinks(n) /\ (n = 0 => state' \in Resting) /\ (n > 0 => Fits(stack[n].op, state', mishaps'))
    BY <1>1, <1>5
  <2> HIDE DEF n
  <2>2. StateFitsCalls'
    BY <1>2, <2>1, FitsNext
  <2> QED
    BY <1>2, <1>3, <2>2 DEF Inv
<1> QED
  BY <1>4, <1>5

(* A call is made that relies on nothing in the table.                     *)
LEMMA PushKeeps ==
    ASSUME Inv, NEW f \in Frame, NEW n \in Nat, Grows(n, f), UNCHANGED <<handlers, acked>>,
           state' \in States, mishaps' \subseteq {"late", "deaf", "hole", "nested"},
           "nested" \in mishaps => "nested" \in mishaps',
           n <= 1 \/ ("deaf" \in mishaps => "deaf" \in mishaps'),
           TimersTyped', NetTyped', Fits(f.op, state', mishaps'),
           f.op \in {"connect", "yield", "callback"},
           n = 0 => f.op # "callback",
           n > 0 => \/ f.op = "callback" /\ stack[n].op # "callback" /\ f.saved # "PENDING_RECONNECT"
                       /\ Fits(stack[n].op, f.saved, mishaps')
                    \/ f.op = "connect" /\ stack[n].op = "yield"
    PROVE  Inv'
<1>1. stack' \in Seq(Frame) /\ Len(stack') = n + 1 /\ stack'[n + 1] = f /\ Keeps(n)
  BY DEF Grows, Keeps
<1>2. Typed'
  BY <1>1 DEF Inv, Typed, CallsTyped, TableTyped
<1>4. Nested' /\ Reserved' /\ HandlerKept'
  <2>1. Nested'
    BY NestedPush DEF Inv
  <2> QED
    BY <1>1, <2>1, ReservedNext DEF Inv
<1>5. StateFitsCalls'
  BY <1>2, FitsNext
<1> QED
  BY <1>2, <1>4, <1>5 DEF Inv

-----------------------------------------------------------------------------
(* The actions.                                                            *)

\* A callback goes to the next handler, a renewal to the next entry.
LEMMA IndexMoves ==
    ASSUME Typed, stack # <<>>, Top.op # "subscribe", NEW i \in Handlers,
           stack' = [stack EXCEPT ![Len(stack)].idx = i]
    PROVE  Shrinks(Len(stack))
<1> DEFINE f == [Top EXCEPT !.idx = i]
<1>1. stack \in Seq(Frame) /\ Len(stack) \in Nat \ {0} /\ Top \in Frame /\ Top = stack[Len(stack)]
  BY TopFacts DEF Typed, CallsTyped
<1>2. f \in Frame /\ Same(f, Top)
  BY <1>1 DEF Frame, Same
<1>3. stack' = [stack EXCEPT ![Len(stack)] = f]
  BY <1>1
<1> HIDE DEF f
<1> QED
  BY <1>1, <1>2, <1>3 DEF Shrinks, Keeps, Same

(* Steps of the yield, of time, of the broker and of the network that leave *)
(* the calls as they are.                                                  *)
LEMMA QuietSteps ==
    ASSUME Inv,
           \/ ReadPingResp \/ YieldReadsNothing \/ KeepAliveNotYet \/ SendPing \/ ReconnectNotYet
           \/ ExpirePingTimer \/ ExpireDelayTimer \/ Broker
           \/ (\E a \in Acks : DropAck(a))
           \/ (\E t \in Topics : Message(t)) \/ (\E l \in Losses : Lose(l))
    PROVE  Inv'
<1> USE DEF timers, netVars, bounds
<1>0. Typed /\ stack \in Seq(Frame)
  BY DEF Inv, Typed, CallsTyped
<1>1. CASE ReadPingResp
  <2>1. Shrinks(Len(stack))
    BY <1>0, <1>1, Stays DEF ReadPingResp
  <2>2. TimersTyped' /\ NetTyped'
    BY <1>0, <1>1, ReadsFacts DEF ReadPingResp, Typed, TimersTyped, NetTyped
  <2> QED
    BY <1>1, <2>1, <2>2, StaysKeeps DEF ReadPingResp
<1>2. CASE YieldReadsNothing
  <2>1. Shrinks(Len(stack))
    BY <1>0, <1>2, Stays DEF YieldReadsNothing
  <2>2. TimersTyped' /\ NetTyped'
    BY <1>0, <1>2 DEF YieldReadsNothing, Typed, TimersTyped, NetTyped
  <2> QED
    BY <1>2, <2>1, <2>2, StaysKeeps DEF YieldReadsNothing
<1>3. CASE KeepAliveNotYet
  <2>1. Shrinks(Len(stack))
    BY <1>0, <1>3, Stays DEF KeepAliveNotYet
  <2>2. TimersTyped' /\ NetTyped'
    BY <1>0, <1>3 DEF KeepAliveNotYet, Typed, TimersTyped, NetTyped
  <2> QED
    BY <1>3, <2>1, <2>2, StaysKeeps DEF KeepAliveNotYet
<1>4. CASE SendPing
  <2>1. Shrinks(Len(stack))
    BY <1>0, <1>4, Stays DEF SendPing
  <2>2. [type |-> "PINGREQ", topic |-> NoTopic] \in Request
    BY DEF Request
  <2>3. TimersTyped' /\ NetTyped'
    BY <1>0, <1>4, <2>2, SentFacts DEF SendPing, Typed, TimersTyped, NetTyped
  <2> QED
    BY <1>4, <2>1, <2>3, StaysKeeps DEF SendPing
<1>5. CASE ReconnectNotYet
  <2>1. Shrinks(Len(stack))
    BY <1>0, <1>5, Stays DEF ReconnectNotYet
  <2>2. TimersTyped' /\ NetTyped'
    BY <1>0, <1>5 DEF ReconnectNotYet, Typed, TimersTyped, NetTyped
  <2> QED
    BY <1>5, <2>1, <2>2, StaysKeeps DEF ReconnectNotYet
<1>6. CASE ExpirePingTimer \/ ExpireDelayTimer
  <2>1. Shrinks(Len(stack))
    BY <1>0, <1>6, Stays DEF ExpirePingTimer, ExpireDelayTimer
  <2>2. TimersTyped' /\ NetTyped'
    BY <1>0, <1>6 DEF ExpirePingTimer, ExpireDelayTimer, Typed, TimersTyped, NetTyped
  <2> QED
    BY <1>6, <2>1, <2>2, StaysKeeps DEF ExpirePingTimer, ExpireDelayTimer
<1>7. CASE Broker
  <2> DEFINE p == Head(toBroker)
             a == [type |-> Answer[p.type], topic |-> p.topic]
  <2>1. Shrinks(Len(stack))
    BY <1>0, <1>7, Stays DEF Broker
  <2>2. p \in Request /\ Tail(toBroker) \in Seq(Request)
    BY <1>0, <1>7 DEF Broker, Typed, NetTyped
  <2>3. a \in Packet
    BY <2>2 DEF Request, Packet, Answer
  <2>4. p.type \in {"SUBSCRIBE", "UNSUBSCRIBE"} => p.topic \in Topics
    BY <2>2 DEF Request
  <2>5. NetTyped'
    <3>1. /\ toClient' = Append(toClient, a) /\ toBroker' = Tail(toBroker) /\ UNCHANGED net
          /\ subs' = IF p.type = "SUBSCRIBE" THEN subs \cup {p.topic}
                      ELSE IF p.type = "UNSUBSCRIBE" THEN subs \ {p.topic} ELSE subs
      BY <1>7 DEF Broker
    <3>2. subs' \subseteq Topics
      <4> HIDE DEF p
      <4> QED BY <1>0, <2>4, <3>1 DEF Typed, NetTyped
    <3> HIDE DEF p, a
    <3> QED
      BY <1>0, <2>2, <2>3, <3>1, <3>2 DEF Typed, NetTyped
  <2>6. TimersTyped'
    BY <1>0, <1>7 DEF Broker, Typed, TimersTyped
  <2> QED
    BY <1>7, <2>1, <2>5, <2>6, StaysKeeps DEF Broker
<1>8. ASSUME NEW a \in Acks, DropAck(a) PROVE Inv'
  <2>1. Shrinks(Len(stack))
    BY <1>0, <1>8, Stays DEF DropAck
  <2>2. TimersTyped' /\ NetTyped'
    BY <1>0, <1>8, ReadsFacts DEF DropAck, Typed, TimersTyped, NetTyped
  <2> QED
    BY <1>8, <2>1, <2>2, StaysKeeps DEF DropAck
<1>9. ASSUME NEW t \in Topics, Message(t) PROVE Inv'
  <2>1. Shrinks(Len(stack))
    BY <1>0, <1>9, Stays DEF Message
  <2>2. [type |-> "PUBLISH", topic |-> t] \in Packet
    BY DEF Packet
  <2>3. TimersTyped' /\ NetTyped'
    BY <1>0, <1>9, <2>2, ClientAssumption DEF Message, Typed, TimersTyped, NetTyped
  <2> QED
    BY <1>9, <2>1, <2>3, StaysKeeps DEF Message
<1>10. ASSUME NEW l \in Losses, Lose(l) PROVE Inv'
  <2>1. Shrinks(Len(stack))
    BY <1>0, <1>10, Stays DEF Lose
  <2>2. TimersTyped' /\ NetTyped'
    BY <1>0, <1>10, ClientAssumption DEF Lose, Typed, TimersTyped, NetTyped
  <2> QED
    BY <1>10, <2>1, <2>2, StaysKeeps DEF Lose
<1> QED
  BY <1>1, <1>2, <1>3, <1>4, <1>5, <1>6, <1>7, <1>8, <1>9, <1>10

\* aws_iot_mqtt_yield returns: nothing else is under way.
LEMMA YieldReturnsKeeps ==
    ASSUME Inv, InCall("yield"), YieldReturns
    PROVE  Inv'
<1> USE DEF timers, netVars, bounds
<1>1. stack # <<>> /\ Top.op = "yield" /\ Len(stack) = 1 /\ Fits(Top.op, state, mishaps) /\ Typed
  BY Inner DEF InCall, Inv
<1>2. Shrinks(Len(stack) - 1)
  BY <1>1, Pops DEF YieldReturns
<1>3. state' \in Resting /\ state' \in States
  BY <1>1 DEF YieldReturns, SetClientState, Fits, Resting, States, Typed, CallsTyped
<1>4. TimersTyped' /\ NetTyped' /\ mishaps' \subseteq {"late", "deaf", "hole", "nested"}
  BY <1>1 DEF YieldReturns, Typed, TimersTyped, NetTyped, TableTyped
<1> QED
  BY <1>1, <1>2, <1>3, <1>4, ReturnKeeps DEF YieldReturns

\* aws_iot_mqtt_yield begins.
LEMMA YieldKeeps ==
    ASSUME Inv, Yield
    PROVE  Inv'
<1> USE DEF timers, netVars, bounds
<1> DEFINE f == Call("yield", NoTopic, 0, 0)
<1>1. f \in Frame /\ f.op = "yield"
  BY CallFacts, HandlersFacts DEF Inv, Ops
<1>2. Typed /\ Len(stack) = 0 /\ stack' = Append(stack, f)
  BY DEF Inv, Yield
<1>3. Grows(0, f)
  BY <1>1, <1>2, Pushes
<1>4. state' \in {"YIELD", "PENDING_RECONNECT"} /\ state' \in States
  <2>1. state \in {"IDLE", "PENDING_RECONNECT"} /\ state' = SetClientState("IDLE", "YIELD")
    BY DEF Yield
  <2>2. state' = IF state = "IDLE" THEN "YIELD" ELSE state
    BY <2>1 DEF SetClientState
  <2>3. state' \in {"YIELD", "PENDING_RECONNECT"}
    BY <2>1, <2>2
  <2> QED BY <2>3 DEF States, Busy
<1>5. TimersTyped' /\ NetTyped' /\ mishaps' \subseteq {"late", "deaf", "hole", "nested"}
  BY <1>2 DEF Yield, Typed, TimersTyped, NetTyped, TableTyped
<1>6. Fits(f.op, state', mishaps')
  BY <1>1, <1>4 DEF Fits
<1> HIDE DEF f
<1> QED
  BY <1>1, <1>3, <1>4, <1>5, <1>6, PushKeeps DEF Yield

\* A connection is made by the program or by the yield.
LEMMA DialKeeps ==
    ASSUME Inv, Dial, stack = <<>> \/ InCall("yield")
    PROVE  Inv'
<1> USE DEF timers, netVars, bounds
<1> DEFINE f == Call("connect", NoTopic, 0, 0)
           n == Len(stack)
<1>1. f \in Frame /\ f.op = "connect"
  BY CallFacts, HandlersFacts DEF Inv, Ops
<1>2. Typed /\ n \in Nat /\ n <= 1 /\ (n > 0 => stack[n].op = "yield")
  BY Inner DEF Inv, InCall, Typed, CallsTyped
<1>3. Grows(n, f)
  BY <1>1, <1>2, Pushes DEF Dial
<1>4. state' = "CONNECTING" /\ state' \in States
  BY DEF Dial, States
<1>5. [type |-> "CONNECT", topic |-> NoTopic] \in Request
  BY DEF Request
<1>6. TimersTyped' /\ NetTyped'
  BY <1>2, <1>5 DEF Dial, Typed, TimersTyped, NetTyped
<1>7. /\ mishaps' \subseteq {"late", "deaf", "hole", "nested"}
      /\ "nested" \in mishaps => "nested" \in mishaps'
  BY DEF Dial
<1>8. Fits(f.op, state', mishaps')
  BY <1>1, <1>4 DEF Fits
<1>9. UNCHANGED <<handlers, acked>>
  BY DEF Dial
<1> HIDE DEF f, n
<1> QED
  BY <1>1, <1>2, <1>3, <1>4, <1>6, <1>7, <1>8, <1>9, PushKeeps

\* _aws_iot_mqtt_handle_disconnect, in a yield.
LEMMA NoticeLossKeeps ==
    ASSUME Inv, NoticeLoss
    PROVE  Inv'
<1> USE DEF timers, netVars, bounds
<1>1. /\ stack # <<>> /\ Top.op = "yield" /\ Len(stack) = 1 /\ Top = stack[Len(stack)]
      /\ Typed /\ Nested /\ Reserved /\ HandlerKept
  BY Inner DEF InCall, Inv, NoticeLoss
<1>2. Shrinks(1)
  BY <1>1, Stays DEF NoticeLoss
<1>3. Typed'
  BY <1>1, <1>2, ClientAssumption DEF NoticeLoss, NetworkDestroyed, Typed, CallsTyped, TableTyped, TimersTyped, NetTyped,
     Shrinks, Keeps, States
<1>4. Nested'
  BY <1>1, <1>2, NestedShrinks
<1>5. Reserved' /\ HandlerKept'
  BY <1>1, <1>2, ReservedNext DEF Shrinks, NoticeLoss
<1>6. StateFitsCalls'
  <2>1. Fits(stack[1].op, state', mishaps')
    BY <1>1 DEF NoticeLoss, Fits
  <2> QED
    BY <1>2, <1>3, <2>1, FitsNext
<1> QED
  BY <1>3, <1>4, <1>5, <1>6 DEF Inv

\* The wait for the next attempt stays a number.
LEMMA BackoffTyped ==
    ASSUME Inv, Backoff
    PROVE  wait' \in Nat /\ delayTimer' \in {"running", "expired"}
  BY DEF Inv, Typed, TimersTyped, Backoff, NextInterval

\* A connection fails: the program is told, or the yield goes on.
LEMMA ConnectFailsKeeps ==
    ASSUME Inv, ConnectFails
    PROVE  Inv'
<1> USE DEF timers, netVars, bounds
<1>1. /\ stack # <<>> /\ Top.op = "connect" /\ Typed /\ Len(stack) \in Nat \ {0}
      /\ Len(stack) > 1 => stack[Len(stack) - 1].op = "yield"
  BY Inner DEF InCall, Inv, ConnectFails
<1>2. Shrinks(Len(stack) - 1)
  BY <1>1, Pops DEF ConnectFails
<1>3. (Below = <<>>) <=> (Len(stack) = 1)
  BY <1>1, TopFacts
<1>4. /\ Len(stack) = 1 => state' = "DISCONNECTED_ERROR"
      /\ Len(stack) > 1 => state' = "PENDING_RECONNECT"
  BY <1>1, <1>3 DEF ConnectFails
<1>5. state' \in States
  <2>1. state' \in {"DISCONNECTED_ERROR", "PENDING_RECONNECT"}
    BY DEF ConnectFails
  <2> QED BY <2>1 DEF States
<1>6. TimersTyped' /\ NetTyped' /\ mishaps' \subseteq {"late", "deaf", "hole", "nested"}
  <2>1. wait' \in Nat /\ delayTimer' \in {"running", "expired"}
    BY <1>1, BackoffTyped DEF ConnectFails, Typed, TimersTyped
  <2> QED
    BY <1>1, <2>1 DEF ConnectFails, NetworkDestroyed, Typed, TimersTyped, NetTyped, TableTyped
<1>7. /\ Len(stack) = 1 => state' \in Resting
      /\ Len(stack) > 1 => Fits(stack[Len(stack) - 1].op, state', mishaps')
  BY <1>1, <1>4 DEF Resting, Fits
<1> QED
  BY <1>1, <1>2, <1>5, <1>6, <1>7, ReturnKeeps DEF ConnectFails

\* A request that is not answered in time restores the state.
LEMMA RequestFailsKeeps ==
    ASSUME Inv, RequestFails
    PROVE  Inv'
<1> USE DEF timers, netVars, bounds
<1>1. /\ stack # <<>> /\ Top.op \in {"subscribe", "unsubscribe"} /\ Typed /\ Top \in Frame
      /\ Fits(Top.op, state, mishaps)
  BY Inner DEF InCall, Inv, RequestFails
<1>2. Shrinks(Len(stack) - 1)
  BY <1>1, Pops DEF RequestFails
<1>3. state' = Top.saved /\ state' \in States
  BY <1>1 DEF RequestFails, SetClientState, Fits, Frame
<1>4. /\ TimersTyped' /\ NetTyped' /\ mishaps' \subseteq {"late", "deaf", "hole", "nested"}
      /\ mishaps \subseteq mishaps'
  BY <1>1 DEF RequestFails, Typed, TimersTyped, NetTyped, TableTyped
<1> QED
  BY <1>1, <1>2, <1>3, <1>4, ReturnKeeps DEF RequestFails

\* A callback returns: the next handler is called or the state restored.
LEMMA CallbackReturnsKeeps ==
    ASSUME Inv, CallbackReturns
    PROVE  Inv'
<1> USE DEF timers, netVars, bounds
<1> DEFINE more == Matching(Top.topic, Top.idx + 1)
<1>1. /\ stack # <<>> /\ Top.op = "callback" /\ Typed /\ Top \in Frame
      /\ Fits(Top.op, state, mishaps)
  BY Inner DEF InCall, Inv, CallbackReturns
<1>2. /\ TimersTyped' /\ NetTyped' /\ mishaps' \subseteq {"late", "deaf", "hole", "nested"}
  BY <1>1 DEF CallbackReturns, Typed, TimersTyped, NetTyped, TableTyped
<1>3. CASE more # {}
  <2>1. Top.idx + 1 \in Nat
    <3>1. Top.idx \in Handlers
      BY <1>1 DEF Frame
    <3>2. Top.idx \in Nat
      BY <3>1, HandlersFacts
    <3> QED BY <3>2
  <2>2. Least(more) \in Handlers
    BY <1>3, <2>1, MatchingFacts DEF Matching
  <2>3. stack' = [stack EXCEPT ![Len(stack)].idx = Least(more)] /\ UNCHANGED state
    BY <1>3 DEF CallbackReturns
  <2> HIDE DEF more
  <2>4. Shrinks(Len(stack))
    BY <1>1, <2>2, <2>3, IndexMoves
  <2> QED
    BY <1>2, <2>3, <2>4, StaysKeeps DEF CallbackReturns
<1>4. CASE more = {}
  <2>1. stack' = Below /\ state' = SetClientState("WAIT_FOR_CB_RETURN", Top.saved)
    BY <1>4 DEF CallbackReturns
  <2>2. Shrinks(Len(stack) - 1)
    BY <1>1, <2>1, Pops
  <2>3. state' = Top.saved /\ state' \in States
    BY <1>1, <2>1 DEF SetClientState, Fits, Frame
  <2> QED
    BY <1>1, <1>2, <2>2, <2>3, ReturnKeeps DEF CallbackReturns
<1> QED
  BY <1>3, <1>4

\* A message is read and handed to its first handler.
LEMMA ReadPublishKeeps ==
    ASSUME Inv, ReadPublish
    PROVE  Inv'
<1> USE DEF timers, netVars, bounds
<1> DEFINE t == Head(toClient).topic
           i == Least(Matching(t, 0))
           f == Call("callback", t, i, 0)
<1>1. /\ Typed /\ stack # <<>> /\ Top.op \in Ops \ {"callback"} /\ Head(toClient) \in Packet
      /\ toClient' \in Seq(Packet) /\ Len(stack) \in Nat \ {0} /\ Top = stack[Len(stack)]
      /\ Fits(Top.op, state, mishaps) /\ (Top.op = "yield" => state # "PENDING_RECONNECT")
  BY ReadsFacts, Inner DEF ReadPublish, Inv
<1>2. TimersTyped' /\ NetTyped' /\ mishaps' \subseteq {"late", "deaf", "hole", "nested"}
  BY <1>1 DEF ReadPublish, Typed, TimersTyped, NetTyped, TableTyped
<1>3. CASE Matching(t, 0) = {}
  <2>1. stack' = Goes /\ UNCHANGED state
    BY <1>3 DEF ReadPublish
  <2>2. Shrinks(Len(stack))
    BY <1>1, <2>1, Stays
  <2> QED
    BY <1>2, <2>1, <2>2, StaysKeeps DEF ReadPublish
<1>4. CASE Matching(t, 0) # {}
  <2>1. stack' = Append(Goes, f) /\ state' = "WAIT_FOR_CB_RETURN"
    BY <1>4 DEF ReadPublish
  <2>2. i \in Handlers
    BY <1>4, MatchingFacts DEF Matching
  <2>3. t \in Topics \cup {NoTopic}
    BY <1>1 DEF Packet
  <2> HIDE DEF t, i
  <2>4. f \in Frame /\ f.op = "callback" /\ f.saved = state
    BY <1>1, <2>2, <2>3, CallFacts, HandlersFacts DEF Ops
  <2> HIDE DEF f
  <2>5. Grows(Len(stack), f)
    BY <1>1, <2>1, <2>4, Pushes
  <2>6. state' \in States /\ Fits(f.op, state', mishaps')
    BY <2>1, <2>4 DEF States, Fits
  <2>7. f.saved # "PENDING_RECONNECT" /\ Fits(stack[Len(stack)].op, f.saved, mishaps')
        /\ stack[Len(stack)].op # "callback"
    BY <1>1, <2>4 DEF Fits, ReadPublish
  <2> QED
    BY <1>1, <1>2, <2>4, <2>5, <2>6, <2>7, PushKeeps DEF ReadPublish
<1> QED
  BY <1>3, <1>4

\* A renewal fails: the yield goes on in an idle client.
LEMMA ResubscribeFailsKeeps ==
    ASSUME Inv, ResubscribeFails
    PROVE  Inv'
<1> USE DEF timers, netVars, bounds
<1>1. /\ stack # <<>> /\ Top.op = "resubscribe" /\ Typed /\ Len(stack) = 2
      /\ stack[Len(stack) - 1].op = "yield" /\ Fits(Top.op, state, mishaps)
  BY Inner DEF InCall, Inv, ResubscribeFails
<1>2. Shrinks(Len(stack) - 1)
  BY <1>1, Pops DEF ResubscribeFails
<1>3. state' = "IDLE" /\ mishaps' = mishaps \cup {"deaf"} /\ state' \in States
  BY <1>1 DEF ResubscribeFails, SetClientState, Fits, States
<1>4. TimersTyped' /\ NetTyped' /\ mishaps' \subseteq {"late", "deaf", "hole", "nested"}
  BY <1>1, <1>3, BackoffTyped DEF ResubscribeFails, Typed, TimersTyped, NetTyped, TableTyped
<1>5. Fits(stack[Len(stack) - 1].op, state', mishaps')
  BY <1>1, <1>3 DEF Fits
<1> QED
  BY <1>1, <1>2, <1>3, <1>4, <1>5, ReturnKeeps DEF ResubscribeFails

\* A renewal is acknowledged: the next entry, or back to the yield.
LEMMA ResubscribeDoneKeeps ==
    ASSUME Inv, ResubscribeDone
    PROVE  Inv'
<1> USE DEF timers, netVars, bounds
<1>1. /\ stack # <<>> /\ Top.op = "resubscribe" /\ Typed /\ Len(stack) = 2 /\ Top = stack[Len(stack)]
      /\ stack[Len(stack) - 1].op = "yield" /\ Top \in Frame /\ toClient' \in Seq(Packet)
  BY Inner, ReadsFacts DEF InCall, Inv, ResubscribeDone
<1>2. TimersTyped' /\ mishaps' \subseteq {"late", "deaf", "hole", "nested"}
  BY <1>1 DEF ResubscribeDone, Typed, TimersTyped, TableTyped
<1>3. CASE Top.idx + 1 < Top.count
  <2> DEFINE j == Top.idx + 1
             p == [type |-> "SUBSCRIBE", topic |-> handlers[j]]
  <2>1. j \in Handlers /\ j \in 0 .. Top.count - 1
    <3>1. Top.idx \in Handlers /\ Top.count \in 0 .. NumHandlers
      BY <1>1 DEF Frame
    <3> QED BY <1>3, <3>1, HandlersFacts DEF Handlers
  <2>2. handlers[j] # NoTopic
    BY <1>1, <2>1 DEF Inv, Reserved
  <2>3. p \in Request
    BY <1>1, <2>1, <2>2 DEF Typed, TableTyped, Request
  <2>4. stack' = [stack EXCEPT ![Len(stack)].idx = j] /\ toBroker' = Sent(p) /\ UNCHANGED state
    BY <1>1, <1>3 DEF ResubscribeDone
  <2> HIDE DEF j, p
  <2>5. Shrinks(Len(stack))
    BY <1>1, <2>1, <2>4, IndexMoves
  <2>6. NetTyped'
    BY <1>1, <2>3, <2>4, SentFacts DEF ResubscribeDone, Typed, NetTyped
  <2> QED
    BY <1>2, <2>4, <2>5, <2>6, StaysKeeps DEF ResubscribeDone
<1>4. CASE ~(Top.idx + 1 < Top.count)
  <2>1. stack' = GoTo(Below, "next") /\ state' = "YIELD" /\ UNCHANGED toBroker
    BY <1>4 DEF ResubscribeDone
  <2>2. Shrinks(Len(stack) - 1)
    BY <1>1, <2>1, Pops
  <2>3. NetTyped'
    BY <1>1, <2>1 DEF ResubscribeDone, Typed, NetTyped
  <2>4. state' \in States /\ Fits(stack[Len(stack) - 1].op, state', mishaps')
    BY <1>1, <2>1 DEF States, Busy, Fits
  <2> QED
    BY <1>1, <1>2, <2>2, <2>3, <2>4, ReturnKeeps DEF ResubscribeDone
<1> QED
  BY <1>3, <1>4

\* A subscription takes the first free entry, which nobody else has in
\* mind unless it is made inside another.
LEMMA SubscribeKeeps ==
    ASSUME Inv, NEW t \in Topics, Subscribe(t)
    PROVE  Inv'
<1> USE DEF timers, netVars, bounds
<1> DEFINE f == Call("subscribe", t, FreeIndex, 0)
           n == Len(stack)
           p == [type |-> "SUBSCRIBE", topic |-> t]
<1>1. Typed /\ n \in Nat /\ stack \in Seq(Frame)
  BY DEF Inv, Typed, CallsTyped
<1>2. FreeIndex \in Handlers /\ handlers[FreeIndex] = NoTopic
  BY <1>1, FreeIndexFacts DEF Subscribe, HandlerLeft
<1>3. f \in Frame /\ f.op = "subscribe" /\ f.saved = state /\ f.topic = t /\ f.idx = FreeIndex
  BY <1>1, <1>2, CallFacts, HandlersFacts DEF Ops
<1>4. /\ stack' = Append(stack, f) /\ state' = "SUBSCRIBE" /\ toBroker' = Sent(p)
      /\ calls' = calls + 1 /\ calls < MaxCalls
      /\ UNCHANGED <<handlers, timers, net, toClient, subs, losses, messages, acked>>
      /\ mishaps' = IF \E k \in 1 .. n : stack[k].op = "subscribe" THEN mishaps \cup {"nested"} ELSE mishaps
  BY DEF Subscribe, MayBegin
<1>5. /\ n = 0 => state = "IDLE"
      /\ n > 0 => stack[n].op = "callback" /\ state = "WAIT_FOR_CB_RETURN"
  <2>1. CASE stack = <<>>
    BY <2>1, FitsIs DEF Inv, Subscribe, MayBegin, Resting
  <2>2. CASE InCall("callback")
    BY <2>2, Inner DEF InCall, Fits
  <2> QED
    BY <1>1, <2>1, <2>2, Inner DEF Subscribe, MayBegin
<1> HIDE DEF f
<1>6. Grows(n, f)
  BY <1>1, <1>3, <1>4, Pushes
<1>7. /\ stack' \in Seq(Frame) /\ Len(stack') = n + 1 /\ stack'[n + 1] = f /\ Keeps(n)
      /\ \A k \in 1 .. n : Same(stack'[k], stack[k])
  BY <1>6 DEF Grows, Keeps
<1>8. Typed'
  <2>1. p \in Request
    BY DEF Request
  <2>2. toBroker' \in Seq(Request)
    BY <1>1, <1>4, <2>1, SentFacts
  <2>3. calls' \in 0 .. MaxCalls
    BY <1>1, <1>4, ClientAssumption DEF Typed, TimersTyped
  <2>4. mishaps' \subseteq {"late", "deaf", "hole", "nested"}
    BY <1>1, <1>4 DEF Typed, TableTyped
  <2>5. state' \in States
    BY <1>4 DEF States, Busy
  <2> QED
    BY <1>1, <1>4, <1>7, <2>2, <2>3, <2>4, <2>5 DEF Typed, CallsTyped, TableTyped, TimersTyped, NetTyped
<1>9. Nested'
  <2>1. Typed /\ Nested /\ mishaps \subseteq mishaps'
    BY <1>4 DEF Inv
  <2> HIDE DEF n
  <2> QED
    BY <1>1, <1>3, <1>5, <1>6, <2>1, NestedPush
<1>10. StateFitsCalls'
  <2>1. Fits(f.op, state', mishaps')
    BY <1>3, <1>4 DEF Fits
  <2> QED
    BY <1>1, <1>3, <1>6, <1>8, <2>1, FitsNext
<1>11. Reserved'
  <2>1. ASSUME NEW k \in 1 .. Len(stack')
        PROVE  /\ stack'[k].op \in {"subscribe", "unsubscribe"} => stack'[k].topic \in Topics
               /\ stack'[k].op = "resubscribe" => \A j \in 0 .. stack'[k].count - 1 : handlers[j] # NoTopic
               /\ "nested" \notin mishaps' /\ stack'[k].op = "subscribe" =>
                     k = n + 1 /\ handlers[stack'[k].idx] = NoTopic
    <3>1. CASE k = n + 1
      BY <1>2, <1>3, <1>7, <3>1
    <3>2. CASE k # n + 1
      <4>1. k \in 1 .. n
        BY <1>1, <1>7, <3>2
      <4>2. Same(stack'[k], stack[k])
        BY <1>7, <4>1
      <4>3. stack[k].op = "subscribe" => "nested" \in mishaps'
        BY <1>4, <4>1
      <4>4. /\ stack[k].op \in {"subscribe", "unsubscribe"} => stack[k].topic \in Topics
            /\ stack[k].op = "resubscribe" => \A j \in 0 .. stack[k].count - 1 : handlers[j] # NoTopic
        BY <4>1 DEF Inv, Reserved
      <4> QED
        BY <4>2, <4>3, <4>4 DEF Same
    <3> QED
      BY <3>1, <3>2
  <2>2. handlers' = handlers
    BY <1>4
  <2> QED
    BY <2>1, <2>2 DEF Reserved
<1>12. HandlerKept'
  <2>1. mishaps \subseteq mishaps' /\ UNCHANGED <<handlers, acked>>
    BY <1>4
  <2> QED
    BY <2>1 DEF Inv, HandlerKept
<1> QED
  BY <1>8, <1>9, <1>10, <1>11, <1>12 DEF Inv

\* A cancellation is made outside every other call.
LEMMA UnsubscribeKeeps ==
    ASSUME Inv, NEW t \in Topics, Unsubscribe(t)
    PROVE  Inv'
<1> USE DEF timers, netVars, bounds
<1> DEFINE f == Call("unsubscribe", t, 0, 0)
           p == [type |-> "UNSUBSCRIBE", topic |-> t]
<1>1. Typed /\ Len(stack) = 0 /\ stack = <<>> /\ state = "IDLE"
  BY FitsIs DEF Inv, Unsubscribe, MayBegin, Resting
<1>2. f \in Frame /\ f.op = "unsubscribe" /\ f.saved = state /\ f.topic = t
  BY <1>1, CallFacts, HandlersFacts DEF Ops
<1>3. /\ stack' = Append(stack, f) /\ state' = "UNSUBSCRIBE" /\ toBroker' = Sent(p)
      /\ calls' = calls + 1 /\ calls < MaxCalls
      /\ UNCHANGED <<handlers, timers, net, toClient, subs, losses, messages, acked, mishaps>>
  BY DEF Unsubscribe, MayBegin
<1> HIDE DEF f
<1>4. Grows(0, f)
  BY <1>1, <1>2, <1>3, Pushes
<1>5. stack' \in Seq(Frame) /\ Len(stack') = 1 /\ stack'[1] = f /\ Keeps(0)
  BY <1>4 DEF Grows, Keeps
<1>6. Typed'
  <2>1. p \in Request
    BY DEF Request
  <2>2. toBroker' \in Seq(Request)
    BY <1>1, <1>3, <2>1, SentFacts
  <2>3. calls' \in 0 .. MaxCalls
    BY <1>1, <1>3, ClientAssumption DEF Typed, TimersTyped
  <2>4. state' \in States
    BY <1>3 DEF States, Busy
  <2> QED
    BY <1>1, <1>3, <1>5, <2>2, <2>3, <2>4 DEF Typed, CallsTyped, TableTyped, TimersTyped, NetTyped
<1>7. Nested'
  BY <1>1, <1>2, <1>5 DEF Nested, Legal
<1>8. StateFitsCalls'
  <2>1. Fits(f.op, state', mishaps')
    BY <1>2, <1>3 DEF Fits
  <2> QED
    BY <1>2, <1>4, <1>6, <2>1, FitsNext
<1>9. Reserved'
  BY <1>2, <1>5 DEF Reserved
<1>10. HandlerKept'
  BY <1>3 DEF Inv, HandlerKept
<1> QED
  BY <1>6, <1>7, <1>8, <1>9, <1>10 DEF Inv

\* The handler enters the table where it was free, so that no other is lost.
LEMMA SubscribeDoneKeeps ==
    ASSUME Inv, SubscribeDone
    PROVE  Inv'
<1> USE DEF timers, netVars, bounds
<1> DEFINE n == Len(stack) - 1
<1>1. /\ stack # <<>> /\ Top.op = "subscribe" /\ Typed /\ Len(stack) \in Nat \ {0} /\ n \in Nat
      /\ Top = stack[Len(stack)] /\ Top \in Frame /\ Fits(Top.op, state, mishaps) /\ toClient' \in Seq(Packet)
  BY Inner, ReadsFacts DEF InCall, Inv, SubscribeDone
<1>2. Shrinks(n)
  BY <1>1, Pops DEF SubscribeDone
<1>3. Top.topic \in Topics /\ Top.idx \in Handlers /\ Top.topic # NoTopic
  BY <1>1, ClientAssumption DEF Frame, Inv, Reserved
<1>4. state' = Top.saved /\ state' \in States
  BY <1>1 DEF SubscribeDone, SetClientState, Fits, Frame
<1>5. /\ handlers' = [handlers EXCEPT ![Top.idx] = Top.topic] /\ acked' = acked \cup {Top.topic}
      /\ mishaps' = mishaps
  BY DEF SubscribeDone
<1>6. /\ handlers'[Top.idx] = Top.topic
      /\ \A j \in Handlers : j # Top.idx => handlers'[j] = handlers[j]
      /\ DOMAIN handlers' = Handlers /\ DOMAIN handlers = Handlers
  BY <1>1, <1>3, <1>5 DEF Typed, TableTyped
<1>7. Typed'
  <2>1. TableTyped'
    BY <1>1, <1>3, <1>5 DEF Typed, TableTyped
  <2>2. TimersTyped' /\ NetTyped'
    BY <1>1 DEF SubscribeDone, Typed, TimersTyped, NetTyped
  <2> QED
    BY <1>2, <1>4, <2>1, <2>2 DEF Typed, CallsTyped, Shrinks, Keeps
<1>8. Nested'
  <2> HIDE DEF n
  <2> QED BY <1>1, <1>2, <1>5, NestedShrinks DEF Inv
<1>9. StateFitsCalls'
  BY <1>1, <1>2, <1>4, <1>5, <1>7, RestoreFits
<1>10. \A k \in 1 .. n : k \in 1 .. Len(stack) /\ k # Len(stack) /\ Same(stack'[k], stack[k])
  BY <1>1, <1>2 DEF Shrinks, Keeps
<1>11. Len(stack') = n /\ Len(stack) \in 1 .. Len(stack)
  BY <1>1, <1>2 DEF Shrinks
<1> HIDE DEF n
<1>12. Reserved'
  <2>1. ASSUME NEW k \in 1 .. n
        PROVE  /\ stack'[k].op \in {"subscribe", "unsubscribe"} => stack'[k].topic \in Topics
               /\ stack'[k].op = "resubscribe" => \A j \in 0 .. stack'[k].count - 1 : handlers'[j] # NoTopic
               /\ "nested" \notin mishaps => stack'[k].op # "subscribe"
    <3>1. k \in 1 .. Len(stack) /\ k # Len(stack) /\ Same(stack'[k], stack[k])
      BY <1>10
    <3>2. stack[k] \in Frame
      BY <1>1, <3>1 DEF Typed, CallsTyped
    <3>3. \A j \in 0 .. stack[k].count - 1 : j \in Handlers
      BY <3>2, HandlersFacts DEF Frame, Handlers
    <3>4. /\ stack[k].op \in {"subscribe", "unsubscribe"} => stack[k].topic \in Topics
          /\ stack[k].op = "resubscribe" => \A j \in 0 .. stack[k].count - 1 : handlers[j] # NoTopic
          /\ "nested" \notin mishaps => stack[k].op # "subscribe"
      BY <1>1, <1>11, <3>1 DEF Inv, Reserved
    <3>5. \A j \in Handlers : handlers[j] # NoTopic => handlers'[j] # NoTopic
      BY <1>3, <1>6
    <3> QED
      BY <3>1, <3>3, <3>4, <3>5 DEF Same
  <2> QED
    BY <1>5, <1>11, <2>1 DEF Reserved
<1>13. HandlerKept'
  <2> SUFFICES ASSUME "nested" \notin mishaps, NEW t \in acked'
               PROVE  \E j \in Handlers : handlers'[j] = t
    BY <1>5 DEF HandlerKept
  <2>1. CASE t = Top.topic
    BY <1>3, <1>6, <2>1
  <2>2. CASE t # Top.topic
    <3>1. t \in acked /\ t # NoTopic
      BY <1>1, <1>5, <2>2, ClientAssumption DEF Typed, TableTyped
    <3>2. PICK j \in Handlers : handlers[j] = t
      BY <3>1 DEF Inv, HandlerKept
    <3>3. handlers[Top.idx] = NoTopic
      BY <1>1, <1>11 DEF Inv, Reserved
    <3>4. handlers'[j] = t
      BY <1>6, <3>1, <3>2, <3>3
    <3> QED
      BY <3>4
  <2> QED
    BY <2>1, <2>2
<1> QED
  BY <1>7, <1>8, <1>9, <1>12, <1>13 DEF Inv

\* A cancellation empties the entries of its topic only.
LEMMA UnsubscribeDoneKeeps ==
    ASSUME Inv, UnsubscribeDone
    PROVE  Inv'
<1> USE DEF timers, netVars, bounds
<1>1. /\ stack # <<>> /\ Top.op = "unsubscribe" /\ Typed /\ Len(stack) = 1 /\ Top = stack[Len(stack)]
      /\ Top \in Frame /\ Fits(Top.op, state, mishaps) /\ toClient' \in Seq(Packet)
  BY Inner, ReadsFacts DEF InCall, Inv, UnsubscribeDone
<1>2. Shrinks(Len(stack) - 1)
  BY <1>1, Pops DEF UnsubscribeDone
<1>3. Len(stack') = 0 /\ stack' \in Seq(Frame)
  BY <1>1, <1>2 DEF Shrinks, Keeps
<1>4. state' = Top.saved /\ state' \in States
  BY <1>1 DEF UnsubscribeDone, SetClientState, Fits, Frame
<1>5. handlers' = Removed(Top.topic) /\ acked' = acked \ {Top.topic} /\ mishaps' = mishaps
  BY DEF UnsubscribeDone
<1>6. Typed'
  <2>1. TableTyped'
    BY <1>1, <1>5 DEF Typed, TableTyped, Removed
  <2>2. TimersTyped' /\ NetTyped'
    BY <1>1 DEF UnsubscribeDone, Typed, TimersTyped, NetTyped
  <2> QED
    BY <1>3, <1>4, <2>1, <2>2 DEF Typed, CallsTyped
<1>7. Nested' /\ Reserved'
  BY <1>3 DEF Nested, Reserved
<1>8. StateFitsCalls'
  BY <1>1, <1>2, <1>4, <1>5, <1>6, RestoreFits
<1>9. HandlerKept'
  BY <1>1, <1>5 DEF Inv, HandlerKept, Removed
<1> QED
  BY <1>6, <1>7, <1>8, <1>9 DEF Inv

(* The renewal of the subscriptions, which takes the entries before the    *)
(* first free one, is made inside the yield.                               *)
LEMMA RenewalKeeps ==
    ASSUME Inv, ConnectDone, Below # <<>>, ExistingSubs # 0
    PROVE  Inv'
<1> USE DEF timers, netVars, bounds
<1> DEFINE f == Call("resubscribe", NoTopic, 0, FreeIndex)
           p == [type |-> "SUBSCRIBE", topic |-> handlers[0]]
<1>1. /\ stack # <<>> /\ Top.op = "connect" /\ Typed /\ Len(stack) = 2 /\ stack[1].op = "yield"
      /\ Below \in Seq(Frame) /\ toClient' \in Seq(Packet)
  <2>1. stack # <<>> /\ Top.op = "connect" /\ Typed /\ toClient' \in Seq(Packet)
    BY ReadsFacts DEF InCall, Inv, ConnectDone
  <2>2. Below \in Seq(Frame) /\ Len(Below) = Len(stack) - 1 /\ Len(stack) \in Nat \ {0}
    BY <2>1, TopFacts
  <2>3. Len(stack) > 1
    BY <2>2
  <2>4. stack[Len(stack) - 1].op = "yield" /\ Len(stack) = 2
    BY <2>1, <2>3, Inner
  <2>5. Len(stack) - 1 = 1
    BY <2>4
  <2> QED
    BY <2>1, <2>2, <2>4, <2>5, Zenon
<1>2. /\ FreeIndex \in 1 .. NumHandlers /\ FreeIndex \in 0 .. NumHandlers
      /\ \A j \in 0 .. FreeIndex - 1 : j \in Handlers /\ handlers[j] # NoTopic
  BY <1>1, FreeIndexFacts, HandlersFacts DEF ExistingSubs
<1>3. f \in Frame /\ f.op = "resubscribe" /\ f.count = FreeIndex
  <2>1. "resubscribe" \in Ops /\ NoTopic \in Topics \cup {NoTopic} /\ 0 \in Handlers
    BY HandlersFacts DEF Ops
  <2>2. FreeIndex \in 0 .. NumHandlers /\ Typed
    BY <1>1, <1>2
  <2> QED
    BY <2>1, <2>2 DEF Call, Frame, Typed, CallsTyped
<1>4. /\ stack' = Append(Below, f) /\ state' = "RESUBSCRIBE" /\ toBroker' = Sent(p)
      /\ ping' = "no" /\ pingTimer' = "running"
      /\ mishaps \subseteq mishaps' /\ mishaps' \subseteq mishaps \cup {"hole"}
      /\ UNCHANGED <<handlers, delayTimer, wait, net, subs, bounds, acked>>
  BY DEF ConnectDone, ExistingSubs
<1>5. p \in Request
  BY <1>1, <1>2, HandlersFacts DEF Typed, TableTyped, Request
<1> HIDE DEF f, p
<1>6. Grows(1, f)
  BY <1>1, <1>3, <1>4, Pushes
<1>7. /\ stack' \in Seq(Frame) /\ Len(stack') = 2 /\ stack'[2] = f /\ Keeps(1)
      /\ 1 \in 1 .. Len(stack) /\ Same(stack'[1], stack[1])
  BY <1>1, <1>6 DEF Grows, Keeps
<1>8. Typed'
  <2>1. toBroker' \in Seq(Request)
    BY <1>1, <1>4, <1>5, SentFacts
  <2>2. mishaps' \subseteq {"late", "deaf", "hole", "nested"}
    BY <1>1, <1>4 DEF Typed, TableTyped
  <2>3. state' \in States
    BY <1>4 DEF States, Busy
  <2> QED
    BY <1>1, <1>4, <1>7, <2>1, <2>2, <2>3 DEF Typed, CallsTyped, TableTyped, TimersTyped, NetTyped
<1>9. Nested'
  BY <1>1, <1>3, <1>6, NestedPush DEF Inv
<1>10. StateFitsCalls'
  <2>1. Fits(f.op, state', mishaps')
    BY <1>3, <1>4 DEF Fits
  <2> QED
    BY <1>3, <1>6, <1>8, <2>1, FitsNext
<1>11. Reserved'
  <2>1. stack'[1].op = "yield" /\ stack'[2].op = "resubscribe" /\ stack'[2].count = FreeIndex
    BY <1>1, <1>3, <1>7 DEF Same
  <2>2. \A k \in 1 .. Len(stack') : k = 1 \/ k = 2
    BY <1>7
  <2>3. ASSUME NEW k \in 1 .. Len(stack')
        PROVE  /\ stack'[k].op \notin {"subscribe", "unsubscribe"}
               /\ stack'[k].op = "resubscribe" => \A j \in 0 .. stack'[k].count - 1 : handlers'[j] # NoTopic
    <3>1. CASE k = 1
      BY <2>1, <3>1
    <3>2. CASE k = 2
      BY <1>2, <1>4, <2>1, <3>2
    <3> QED
      BY <2>2, <3>1, <3>2
  <2> QED
    BY <2>3 DEF Reserved
<1>12. HandlerKept'
  BY <1>4 DEF Inv, HandlerKept
<1> QED
  BY <1>8, <1>9, <1>10, <1>11, <1>12 DEF Inv

\* A connection is accepted.
LEMMA ConnectDoneKeeps ==
    ASSUME Inv, ConnectDone
    PROVE  Inv'
<1> USE DEF timers, netVars, bounds
<1>1. /\ stack # <<>> /\ Top.op = "connect" /\ Typed /\ Len(stack) \in Nat \ {0}
      /\ Len(stack) > 1 => stack[Len(stack) - 1].op = "yield"
      /\ toClient' \in Seq(Packet)
  BY Inner, ReadsFacts DEF InCall, Inv, ConnectDone
<1>2. (Below = <<>>) <=> (Len(stack) = 1)
  BY <1>1, TopFacts
<1>3. CASE Below # <<>> /\ ExistingSubs # 0
  BY <1>3, RenewalKeeps
<1>4. CASE Below = <<>> \/ ExistingSubs = 0
  <2>1. UNCHANGED toBroker
    BY <1>4 DEF ConnectDone
  <2>2. TimersTyped' /\ NetTyped'
    BY <1>1, <2>1 DEF ConnectDone, Typed, TimersTyped, NetTyped
  <2>3. mishaps \subseteq mishaps' /\ mishaps' \subseteq {"late", "deaf", "hole", "nested"}
    <3>1. mishaps' = mishaps \/ mishaps' = mishaps \cup {"hole"}
      BY DEF ConnectDone
    <3> QED
      BY <1>1, <3>1 DEF Typed, TableTyped
  <2>4. /\ Len(stack) = 1 => state' = "IDLE"
        /\ Len(stack) > 1 => state' = "YIELD"
    <3>1. \/ Below = <<>> /\ state' = "IDLE"
          \/ Below # <<>> /\ state' = "YIELD"
      BY <1>4 DEF ConnectDone
    <3>2. Len(stack) = 1 => ~(Len(stack) > 1)
      OBVIOUS
    <3> QED
      BY <1>2, <3>1, <3>2, Zenon
  <2>5. stack' = Below \/ stack' = GoTo(Below, "next")
    BY <1>4 DEF ConnectDone
  <2>6. Shrinks(Len(stack) - 1)
    BY <1>1, <2>5, Pops
  <2>7. /\ Len(stack) = 1 => state' \in Resting
        /\ Len(stack) > 1 => Fits(stack[Len(stack) - 1].op, state', mishaps')
    BY <1>1, <2>4 DEF Resting, Fits
  <2>8. state' \in States
    <3>1. state' \in {"IDLE", "YIELD"}
      BY <1>4 DEF ConnectDone
    <3> QED
      BY <3>1 DEF States, Busy
  <2>9. UNCHANGED <<handlers, acked>>
    BY DEF ConnectDone
  <2> QED
    BY <1>1, <2>2, <2>3, <2>6, <2>7, <2>8, <2>9, ReturnKeeps
<1> QED
  BY <1>3, <1>4

-----------------------------------------------------------------------------
(* The invariant.                                                          *)

\* The client as aws_iot_mqtt_init leaves it.
LEMMA InitInv == Init => Inv
<1> SUFFICES ASSUME Init
             PROVE  Inv
  OBVIOUS
<1>1. Typed
  BY ClientAssumption DEF Init, Typed, CallsTyped, TableTyped, TimersTyped, NetTyped, States
<1>2. Nested /\ Reserved
  BY DEF Init, Nested, Reserved
<1>3. StateFitsCalls /\ HandlerKept
  BY DEF Init, StateFitsCalls, HandlerKept
<1> QED
  BY <1>1, <1>2, <1>3 DEF Inv

\* Stuttering.
LEMMA UnchangedKeeps == Inv /\ UNCHANGED vars => Inv'
<1> SUFFICES ASSUME Inv, UNCHANGED vars
             PROVE  Inv'
  OBVIOUS
<1>1. Shrinks(Len(stack))
  BY Stays DEF Inv, vars
<1>2. TimersTyped' /\ NetTyped'
  BY DEF Inv, Typed, TimersTyped, NetTyped, vars, timers, netVars, bounds
<1> QED
  BY <1>1, <1>2, StaysKeeps DEF vars

\* Every step keeps the invariant.
LEMMA NextInv == Inv /\ [Next]_vars => Inv'
<1> SUFFICES ASSUME Inv, [Next]_vars
             PROVE  Inv'
  OBVIOUS
<1>1. CASE Connect
  BY <1>1, DialKeeps DEF Connect
<1>2. CASE Yield
  BY <1>2, YieldKeeps
<1>3. CASE CallStep
  <2>1. CASE Reading
    BY <2>1, QuietSteps, ReadPublishKeeps, SubscribeDoneKeeps, UnsubscribeDoneKeeps,
       ConnectDoneKeeps, ResubscribeDoneKeeps DEF Reading
  <2>2. CASE ConnectFails \/ RequestFails \/ ResubscribeFails \/ CallbackReturns
    BY <2>2, ConnectFailsKeeps, RequestFailsKeeps, ResubscribeFailsKeeps, CallbackReturnsKeeps
  <2>3. CASE YieldTimeIsUp \/ YieldReadFails \/ YieldGaveUp
    BY <2>3, YieldReturnsKeeps DEF YieldTimeIsUp, YieldReadFails, YieldGaveUp, YieldReads
  <2>4. CASE YieldReadsNothing \/ KeepAliveNotYet \/ SendPing \/ ReconnectNotYet
    BY <2>4, QuietSteps
  <2>5. CASE NoticeLoss
    BY <2>5, NoticeLossKeeps
  <2>6. CASE Reconnect
    BY <2>6, DialKeeps DEF Reconnect
  <2> QED
    BY <1>3, <2>1, <2>2, <2>3, <2>4, <2>5, <2>6 DEF CallStep
<1>4. CASE \E t \in Topics : Subscribe(t) \/ Unsubscribe(t) \/ Message(t)
  BY <1>4, SubscribeKeeps, UnsubscribeKeeps, QuietSteps
<1>5. CASE ExpirePingTimer \/ ExpireDelayTimer \/ Broker \/ \E l \in Losses : Lose(l)
  BY <1>5, QuietSteps
<1>6. CASE UNCHANGED vars
  BY <1>6, UnchangedKeeps
<1> QED
  BY <1>1, <1>2, <1>3, <1>4, <1>5, <1>6 DEF Next

\* The invariant holds in every state.
LEMMA InvHolds == Spec => []Inv
  BY InitInv, NextInv, PTL DEF Spec

(* The client, its stack of calls and the packets on their way are of      *)
(* their types in every state; in particular a call never takes an entry   *)
(* beyond the table of the handlers.                                       *)
THEOREM ClientTypeCorrect == Spec => []TypeOK
<1>1. Inv => TypeOK
  <2> SUFFICES ASSUME Typed
               PROVE  TypeOK
    BY DEF Inv
  <2>1. Frame = [op : DOMAIN Awaited \cup {"callback"}, saved : States, topic : Topics \cup {NoTopic},
                 idx : Handlers, count : 0 .. NumHandlers, pc : {"first", "ping", "next"}]
    <3>1. DOMAIN Awaited \cup {"callback"} = Ops
      BY DEF Awaited, Ops
    <3> QED
      BY <3>1 DEF Frame
  <2>2. Packet = [type : {"CONNECT", "SUBSCRIBE", "UNSUBSCRIBE", "PINGREQ", "PUBLISH", "PINGRESP"} \cup Acks,
                  topic : Topics \cup {NoTopic}]
    <3>1. {"CONNECT", "SUBSCRIBE", "UNSUBSCRIBE", "PINGREQ", "PUBLISH", "PINGRESP"} \cup Acks
          = {"CONNECT", "SUBSCRIBE", "UNSUBSCRIBE", "PINGREQ", "PUBLISH", "PINGRESP",
             "CONNACK", "SUBACK", "UNSUBACK"}
      BY DEF Acks
    <3> QED
      BY <3>1 DEF Packet
  <2>3. toBroker \in Seq(Packet)
    <3>1. Request \subseteq Packet
      BY DEF Request, Packet
    <3> QED
      BY <3>1 DEF Typed, NetTyped
  <2> QED
    BY <2>1, <2>2, <2>3 DEF TypeOK, Typed, CallsTyped, TableTyped, TimersTyped, NetTyped
<1> QED
  BY <1>1, InvHolds, PTL

(* No call leaves the client in a state in which it refuses the next one:  *)
(* the state is that of the innermost call, or an idle or disconnected one *)
(* when no call is under way (aws_iot_mqtt_set_client_state, which fails    *)
(* without anybody noticing if the state is not the expected one).          *)
THEOREM StateFitsCallsAlways == Spec => []StateFitsCalls
<1>1. Inv => StateFitsCalls
  BY DEF Inv
<1> QED
  BY <1>1, InvHolds, PTL

(* A subscription that succeeded keeps its handler in messageHandlers until *)
(* it is cancelled, unless subscriptions have been nested.                 *)
THEOREM HandlersKept == Spec => []HandlerKept
<1>1. Inv => HandlerKept
  BY DEF Inv
<1> QED
  BY <1>1, InvHolds, PTL

-----------------------------------------------------------------------------
(* The subscriptions that the broker holds.                                *)

\* How many of the packets s are of a type.
Marks(s, type) == {i \in 1 .. Len(s) : s[i].type = type}
Count(s, type) == Cardinality(Marks(s, type))

\* A sequence has a natural number of them.
LEMMA MarksFinite ==
    ASSUME NEW S, NEW s \in Seq(S), NEW type
    PROVE  IsFiniteSet(Marks(s, type)) /\ Count(s, type) \in Nat
<1>1. IsFiniteSet(1 .. Len(s))
  BY FS_Interval
<1>2. Marks(s, type) \in SUBSET (1 .. Len(s))
  BY DEF Marks
<1>3. IsFiniteSet(Marks(s, type))
  BY <1>1, <1>2, FS_Subset
<1> QED
  BY <1>3, FS_CardinalityType DEF Count

\* None are counted when none is of the type.
LEMMA CountNone ==
    ASSUME NEW S, NEW s \in Seq(S), NEW type
    PROVE  Count(s, type) = 0 <=> \A i \in 1 .. Len(s) : s[i].type # type
<1>1. Count(s, type) = 0 <=> Marks(s, type) = {}
  BY MarksFinite, FS_EmptySet DEF Count
<1> QED
  BY <1>1 DEF Marks

\* A packet that joins at the end is counted if it is of the type.
LEMMA CountAppend ==
    ASSUME NEW S, NEW s \in Seq(S), NEW p \in S, NEW type
    PROVE  Count(Append(s, p), type) = Count(s, type) + (IF p.type = type THEN 1 ELSE 0)
<1> DEFINE n == Len(s) + 1
           r == Append(s, p)
<1>1. Len(s) \in Nat /\ r \in Seq(S) /\ Len(r) = n /\ \A i \in 1 .. n : r[i] = IF i = n THEN p ELSE s[i]
  BY PushOn
<1>2. n \notin Marks(s, type)
  BY <1>1 DEF Marks
<1>3. Marks(r, type) = IF p.type = type THEN Marks(s, type) \cup {n} ELSE Marks(s, type)
  <2> HIDE DEF r
  <2> QED BY <1>1 DEF Marks
<1>4. Cardinality(Marks(s, type) \cup {n}) = Cardinality(Marks(s, type)) + 1
  BY <1>2, MarksFinite, FS_AddElement
<1>5. Count(s, type) \in Nat
  BY MarksFinite
<1> HIDE DEF n, r
<1>6. Count(r, type) = Count(s, type) + (IF p.type = type THEN 1 ELSE 0)
  BY <1>3, <1>4, <1>5 DEF Count
<1> QED
  BY <1>6 DEF r

\* So is the first packet, until it is taken away.
LEMMA CountTail ==
    ASSUME NEW S, NEW s \in Seq(S), s # <<>>, NEW type
    PROVE  Count(s, type) = Count(Tail(s), type) + (IF Head(s).type = type THEN 1 ELSE 0)
<1> DEFINE t == Tail(s)
           M == Marks(t, type)
           N == Marks(s, type) \ {1}
           f == [i \in M |-> i + 1]
<1>1. /\ Len(s) \in Nat \ {0} /\ t \in Seq(S) /\ Len(t) = Len(s) - 1 /\ Head(s) = s[1]
      /\ \A i \in 1 .. Len(s) - 1 : t[i] = s[i + 1]
  OBVIOUS
<1>2. f \in Bijection(M, N)
  <2> HIDE DEF t
  <2>1. \A i \in M : i \in Nat /\ f[i] = i + 1 /\ f[i] \in N
    BY <1>1 DEF Marks
  <2>2. f \in [M -> N]
    BY <2>1
  <2>3. \A i, j \in M : f[i] = f[j] => i = j
    BY <2>1
  <2>4. \A j \in N : \E i \in M : f[i] = j
    <3> TAKE j \in N
    <3>1. j - 1 \in M
      BY <1>1 DEF Marks
    <3>2. j \in Nat
      BY DEF Marks
    <3> QED
      BY <2>1, <3>1, <3>2
  <2> HIDE DEF f, M, N
  <2> QED
    BY <2>2, <2>3, <2>4 DEF Bijection, Injection, Surjection, IsInjective
<1>3. IsFiniteSet(M) /\ IsFiniteSet(Marks(s, type))
  <2> HIDE DEF t
  <2> QED BY <1>1, MarksFinite
<1>4. Cardinality(N) = Cardinality(M)
  <2>1. ExistsBijection(M, N)
    BY <1>2 DEF ExistsBijection
  <2> QED
    BY <1>3, <2>1, FS_Bijection
<1>5. Cardinality(N) = IF 1 \in Marks(s, type) THEN Cardinality(Marks(s, type)) - 1 ELSE Cardinality(Marks(s, type))
  BY <1>3, FS_RemoveElement
<1>6. 1 \in Marks(s, type) <=> Head(s).type = type
  BY <1>1 DEF Marks
<1>7. Cardinality(Marks(s, type)) \in Nat
  BY <1>3, FS_CardinalityType
<1> HIDE DEF N, f
<1> QED
  BY <1>4, <1>5, <1>6, <1>7 DEF Count

(* The calls under way: whether one is of kind o, which topics are being   *)
(* subscribed to and cancelled, and which entries of the table a renewal   *)
(* under way has already sent or will not send.                            *)
UnderWay(o)  == \E k \in 1 .. Len(stack) : stack[k].op = o
Requested(t) == \E k \in 1 .. Len(stack) : stack[k].op = "subscribe" /\ stack[k].topic = t
Cancelled(t) == \E k \in 1 .. Len(stack) : stack[k].op = "unsubscribe" /\ stack[k].topic = t
Renewed(i)   == \A k \in 1 .. Len(stack) :
                   stack[k].op = "resubscribe" => i <= stack[k].idx \/ i >= stack[k].count
Has(o) == IF UnderWay(o) THEN 1 ELSE 0

(* The packets on their way: requests of a type for a topic, and the       *)
(* acknowledgements that have come or will come.                           *)
InFlight(type, t) == \E i \in 1 .. Len(toBroker) : toBroker[i].type = type /\ toBroker[i].topic = t
Owed      == Count(toBroker, "SUBSCRIBE") + Count(toClient, "SUBACK")
OwedUnsub == Count(toBroker, "UNSUBSCRIBE") + Count(toClient, "UNSUBACK")

\* A connection on which nothing happened that excuses a lost subscription.
Clean == net = "up" /\ mishaps = {}

\* The broker holds the topic, or it is just being cancelled.
Heard(t) == t \in subs \/ Cancelled(t)

\* A program connects for the first time, or after an attempt that failed:
\* it has no handlers, for those are entered on a connection that stands.
Start == {"INITIALIZED", "DISCONNECTED_ERROR"}
NoHandlers == \A i \in Handlers : handlers[i] = NoTopic
Fresh == state \in Start => NoHandlers

\* Before CONNACK nothing else is said on a connection.
OnlyConnects ==
    /\ subs = {}
    /\ \A i \in 1 .. Len(toBroker) : toBroker[i].type = "CONNECT"
    /\ \A i \in 1 .. Len(toClient) : toClient[i].type = "CONNACK"
Dialling == \A k \in 1 .. Len(stack) : stack[k].op = "connect" =>
    k = Len(stack) /\ OnlyConnects /\ (k = 1 => NoHandlers)

\* An acknowledgement is owed only to a call that waits for it.
Answered == Clean => Owed <= Has("subscribe") + Has("resubscribe") /\ OwedUnsub <= Has("unsubscribe")

\* A topic that a call asked for, or that has a handler and is not still to
\* be renewed, is subscribed, or the request for it is on its way.
Tracked == Clean =>
    /\ \A t : Requested(t) => Heard(t) \/ InFlight("SUBSCRIBE", t)
    /\ \A t : InFlight("UNSUBSCRIBE", t) => Cancelled(t)
    /\ ~UnderWay("connect") => \A i \in Handlers : handlers[i] # NoTopic /\ Renewed(i) =>
          Heard(handlers[i]) \/ (UnderWay("resubscribe") /\ InFlight("SUBSCRIBE", handlers[i]))

\* The invariant of the subscriptions, inductive together with Inv.
SubInv == Fresh /\ Dialling /\ Answered /\ Tracked

\* GoTo changes nothing but the place in the loop.
LEMMA GoToIdx ==
    ASSUME NEW s \in Seq(Frame), NEW p \in {"first", "ping", "next"}
    PROVE  \A k \in 1 .. Len(s) : GoTo(s, p)[k].idx = s[k].idx
<1>1. CASE s = <<>>
  BY <1>1 DEF GoTo
<1>2. CASE s # <<>>
  <2> DEFINE g == [s[Len(s)] EXCEPT !.pc = p]
  <2>1. s[Len(s)] \in Frame /\ Len(s) \in Nat \ {0}
    BY <1>2
  <2>2. g.idx = s[Len(s)].idx
    BY <2>1 DEF Frame
  <2>3. GoTo(s, p) = [s EXCEPT ![Len(s)] = g]
    BY <1>2 DEF GoTo
  <2> HIDE DEF g
  <2> QED
    BY <2>1, <2>2, <2>3
<1> QED
  BY <1>1, <1>2

(* A step leaves the first n calls exactly where they are, but for the     *)
(* handler that a callback is at and the place of a yield in its loop.     *)
Frozen(n) == Keeps(n) /\ \A k \in 1 .. n : stack[k].op = "resubscribe" => stack'[k].idx = stack[k].idx

\* A step that pushes and pops nothing.
LEMMA StaysFrozen ==
    ASSUME Typed,
           \/ stack' = stack \/ stack' = Goes
           \/ \E p \in {"first", "ping", "next"} : stack' = GoTo(stack, p)
    PROVE  Frozen(Len(stack)) /\ Len(stack') = Len(stack)
<1>1. Keeps(Len(stack)) /\ Len(stack') = Len(stack)
  BY Stays DEF Shrinks
<1>2. stack \in Seq(Frame)
  BY DEF Typed, CallsTyped
<1>3. \A k \in 1 .. Len(stack) : stack'[k].idx = stack[k].idx
  BY <1>2, GoToIdx DEF Goes
<1> QED
  BY <1>1, <1>3 DEF Frozen

\* The innermost call returns.
LEMMA PopsFrozen ==
    ASSUME Typed, stack # <<>>,
           stack' = Below \/ \E p \in {"first", "ping", "next"} : stack' = GoTo(Below, p)
    PROVE  Frozen(Len(stack) - 1) /\ Len(stack') = Len(stack) - 1
<1>1. Keeps(Len(stack) - 1) /\ Len(stack') = Len(stack) - 1
  BY Pops DEF Shrinks
<1>2. /\ Below \in Seq(Frame) /\ Len(Below) = Len(stack) - 1
      /\ \A k \in 1 .. Len(stack) - 1 : Below[k] = stack[k]
  BY TopFacts
<1>3. \A k \in 1 .. Len(stack) - 1 : stack'[k].idx = stack[k].idx
  BY <1>2, GoToIdx
<1> QED
  BY <1>1, <1>3 DEF Frozen

\* A call begins, which one that goes on or returns may make.
LEMMA PushesFrozen ==
    ASSUME Typed, NEW f \in Frame
    PROVE  /\ stack' = Append(stack, f) => Frozen(Len(stack)) /\ Grows(Len(stack), f)
           /\ stack' = Append(Goes, f) => Frozen(Len(stack)) /\ Grows(Len(stack), f)
           /\ stack # <<>> /\ stack' = Append(Below, f) => Frozen(Len(stack) - 1) /\ Grows(Len(stack) - 1, f)
<1>1. stack \in Seq(Frame)
  BY DEF Typed, CallsTyped
<1>2. stack' = Append(stack, f) => Frozen(Len(stack)) /\ Grows(Len(stack), f)
  BY <1>1, Pushes, PushOn DEF Frozen, Grows
<1>3. stack' = Append(Goes, f) => Frozen(Len(stack)) /\ Grows(Len(stack), f)
  <2>1. Goes \in Seq(Frame) /\ Len(Goes) = Len(stack) /\ \A k \in 1 .. Len(stack) : Goes[k].idx = stack[k].idx
    BY <1>1, GoesFacts, GoToIdx DEF Goes
  <2> QED
    BY <1>1, <2>1, Pushes, PushOn DEF Frozen, Grows
<1>4. stack # <<>> /\ stack' = Append(Below, f) => Frozen(Len(stack) - 1) /\ Grows(Len(stack) - 1, f)
  BY <1>1, TopFacts, Pushes, PushOn DEF Frozen, Grows
<1> QED
  BY <1>2, <1>3, <1>4

(* What the invariant sees of the calls is the same after the step.        *)
SameView ==
    /\ \A o : o \notin {"yield", "callback"} => (UnderWay(o)' <=> UnderWay(o))
    /\ \A t : (Requested(t)' <=> Requested(t)) /\ (Cancelled(t)' <=> Cancelled(t))
    /\ \A i : Renewed(i)' <=> Renewed(i)

\* Only yields and callbacks begin or end.
LEMMA ViewStays ==
    ASSUME Typed, NEW n \in Nat, Frozen(n),
           \A k \in 1 .. Len(stack) : k > n => stack[k].op \in {"yield", "callback"},
           \A k \in 1 .. Len(stack') : k > n => stack'[k].op \in {"yield", "callback"}
    PROVE  SameView
<1>1. n <= Len(stack) /\ n <= Len(stack') /\ Len(stack) \in Nat /\ Len(stack') \in Nat
  BY DEF Frozen, Keeps, Typed, CallsTyped
<1>2. \A k \in 1 .. n : /\ stack'[k].op = stack[k].op /\ stack'[k].topic = stack[k].topic
                        /\ stack'[k].count = stack[k].count
                        /\ stack[k].op = "resubscribe" => stack'[k].idx = stack[k].idx
  BY DEF Frozen, Keeps, Same
<1>3. \A k \in 1 .. Len(stack) : stack[k].op \notin {"yield", "callback"} => k \in 1 .. n /\ k \in 1 .. Len(stack')
  BY <1>1
<1>4. \A k \in 1 .. Len(stack') : stack'[k].op \notin {"yield", "callback"} => k \in 1 .. n /\ k \in 1 .. Len(stack)
  BY <1>1
<1>5. \A o : o \notin {"yield", "callback"} => (UnderWay(o)' <=> UnderWay(o))
  BY <1>2, <1>3, <1>4 DEF UnderWay
<1>6. \A t : (Requested(t)' <=> Requested(t)) /\ (Cancelled(t)' <=> Cancelled(t))
  BY <1>2, <1>3, <1>4 DEF Requested, Cancelled
<1>7. \A i : Renewed(i)' <=> Renewed(i)
  BY <1>2, <1>3, <1>4 DEF Renewed
<1> QED
  BY <1>5, <1>6, <1>7 DEF SameView

(* The packets under way are answered, lost or joined by others that       *)
(* neither subscribe nor acknowledge.                                      *)
Wire ==
    /\ Owed' <= Owed /\ OwedUnsub' <= OwedUnsub
    /\ \A t : t \in subs => t \in subs' \/ Cancelled(t)
    /\ \A t : InFlight("SUBSCRIBE", t) => InFlight("SUBSCRIBE", t)' \/ t \in subs'
    /\ \A t : InFlight("UNSUBSCRIBE", t)' => InFlight("UNSUBSCRIBE", t)

\* The packets that are owed are finitely many.
LEMMA OwedNat ==
    /\ Typed => Owed \in Nat /\ OwedUnsub \in Nat
    /\ Typed' => Owed' \in Nat /\ OwedUnsub' \in Nat
<1>1. \A b \in Seq(Request), c \in Seq(Packet) : \A type : Count(b, type) \in Nat /\ Count(c, type) \in Nat
  BY MarksFinite
<1>2. /\ Typed => toBroker \in Seq(Request) /\ toClient \in Seq(Packet)
      /\ Typed' => toBroker' \in Seq(Request) /\ toClient' \in Seq(Packet)
  BY DEF Typed, NetTyped
<1>3. \A b \in Seq(Request), c \in Seq(Packet) : \A x, y : Count(b, x) + Count(c, y) \in Nat
  BY <1>1
<1> QED
  BY <1>2, <1>3, Zenon DEF Owed, OwedUnsub

\* What is said of the packets holds after a step that changes them so.
LEMMA WireKeeps ==
    ASSUME Typed, Typed', Answered, Tracked, SameView, UNCHANGED handlers, Clean' => Clean /\ Wire
    PROVE  Answered' /\ Tracked'
<1> SUFFICES ASSUME Clean'
             PROVE  /\ Owed' <= Has("subscribe")' + Has("resubscribe")' /\ OwedUnsub' <= Has("unsubscribe")'
                    /\ \A t : Requested(t)' => Heard(t)' \/ InFlight("SUBSCRIBE", t)'
                    /\ \A t : InFlight("UNSUBSCRIBE", t)' => Cancelled(t)'
                    /\ ~UnderWay("connect")' => \A i \in Handlers : handlers'[i] # NoTopic /\ Renewed(i)' =>
                          Heard(handlers[i])' \/ (UnderWay("resubscribe")' /\ InFlight("SUBSCRIBE", handlers[i])')
  BY DEF Answered, Tracked
<1>1. Clean /\ Wire
  OBVIOUS
<1>2. Has("subscribe")' = Has("subscribe") /\ Has("resubscribe")' = Has("resubscribe") /\ Has("unsubscribe")' = Has("unsubscribe")
  BY DEF SameView, Has
<1>3. Owed' <= Has("subscribe")' + Has("resubscribe")' /\ OwedUnsub' <= Has("unsubscribe")'
  <2>1. Owed \in Nat /\ OwedUnsub \in Nat /\ Owed' \in Nat /\ OwedUnsub' \in Nat
    BY OwedNat
  <2>2. Has("subscribe") \in Nat /\ Has("resubscribe") \in Nat /\ Has("unsubscribe") \in Nat
    BY DEF Has
  <2>3. /\ Owed' <= Owed /\ OwedUnsub' <= OwedUnsub
        /\ Owed <= Has("subscribe") + Has("resubscribe") /\ OwedUnsub <= Has("unsubscribe")
    BY <1>1 DEF Answered, Wire
  <2> QED
    BY <1>2, <2>1, <2>2, <2>3
<1>4. \A t : Heard(t) => Heard(t)'
  BY <1>1 DEF Heard, SameView, Wire
<1>5. \A t : InFlight("SUBSCRIBE", t) => InFlight("SUBSCRIBE", t)' \/ Heard(t)'
  BY <1>1 DEF Heard, Wire
<1>6. \A t : Requested(t)' => Heard(t)' \/ InFlight("SUBSCRIBE", t)'
  BY <1>1, <1>4, <1>5 DEF Tracked, SameView
<1>7. \A t : InFlight("UNSUBSCRIBE", t)' => Cancelled(t)'
  BY <1>1 DEF Tracked, SameView, Wire
<1>8. ASSUME ~UnderWay("connect")', NEW i \in Handlers, handlers'[i] # NoTopic, Renewed(i)'
      PROVE  Heard(handlers[i])' \/ (UnderWay("resubscribe")' /\ InFlight("SUBSCRIBE", handlers[i])')
  <2>1. ~UnderWay("connect") /\ Renewed(i) /\ handlers[i] # NoTopic
    BY <1>8 DEF SameView
  <2>2. Heard(handlers[i]) \/ (UnderWay("resubscribe") /\ InFlight("SUBSCRIBE", handlers[i]))
    BY <1>1, <2>1 DEF Tracked
  <2>3. UnderWay("resubscribe")' <=> UnderWay("resubscribe")
    BY DEF SameView
  <2> DEFINE t == handlers[i]
  <2>4. t' = t
    OBVIOUS
  <2>5. \A u : Heard(u) => Heard(u)'
    BY <1>4
  <2>6. Heard(t) \/ (UnderWay("resubscribe") /\ InFlight("SUBSCRIBE", t))
    BY <2>2
  <2> QED
    BY <1>4, <1>5, <2>2, <2>3
<1> QED
  BY <1>3, <1>6, <1>7, <1>8

\* What a packet that is read was still owed.
LEMMA OwedRead ==
    ASSUME Typed, NEW type, Reads(type)
    PROVE  \A a : /\ Count(toClient, a) = Count(toClient', a) + (IF type = a THEN 1 ELSE 0)
                  /\ Count(toClient', a) \in Nat /\ Count(toBroker, a) \in Nat
<1>1. toClient \in Seq(Packet) /\ toClient # <<>> /\ Head(toClient).type = type /\ toClient' = Tail(toClient)
      /\ toClient' \in Seq(Packet) /\ toBroker \in Seq(Request)
  BY DEF Reads, Typed, NetTyped
<1> QED
  BY <1>1, CountTail, MarksFinite

\* What a request that is sent will be owed.
LEMMA OwedSend ==
    ASSUME Typed, NEW p \in Request, toBroker' = Append(toBroker, p)
    PROVE  /\ \A a : /\ Count(toBroker', a) = Count(toBroker, a) + (IF p.type = a THEN 1 ELSE 0)
                     /\ Count(toBroker, a) \in Nat /\ Count(toClient, a) \in Nat
           /\ \A a, t : InFlight(a, t)' <=> InFlight(a, t) \/ (p.type = a /\ p.topic = t)
<1>1. toClient \in Seq(Packet) /\ toBroker \in Seq(Request) /\ Len(toBroker) \in Nat
  BY DEF Typed, NetTyped
<1>2. \A a : Count(toBroker', a) = Count(toBroker, a) + (IF p.type = a THEN 1 ELSE 0)
  BY <1>1, CountAppend
<1>3. \A a : Count(toBroker, a) \in Nat /\ Count(toClient, a) \in Nat
  BY <1>1, MarksFinite
<1>4. /\ Len(toBroker') = Len(toBroker) + 1
      /\ \A i \in 1 .. Len(toBroker) + 1 : toBroker'[i] = IF i = Len(toBroker) + 1 THEN p ELSE toBroker[i]
  BY <1>1, PushOn
<1>5. Len(toBroker) + 1 \in 1 .. Len(toBroker') /\ \A i \in 1 .. Len(toBroker) : i \in 1 .. Len(toBroker') /\ i # Len(toBroker) + 1
  BY <1>1, <1>4
<1>6. \A a, t : InFlight(a, t)' <=> InFlight(a, t) \/ (p.type = a /\ p.topic = t)
  BY <1>4, <1>5 DEF InFlight
<1> QED
  BY <1>2, <1>3, <1>6

\* The wire after a packet was read, or a request was sent that does not subscribe.
LEMMA ReadWire ==
    ASSUME Typed, NEW type, Reads(type), UNCHANGED <<toBroker, subs>>
    PROVE  Wire
<1>1. \A a : /\ Count(toClient, a) = Count(toClient', a) + (IF type = a THEN 1 ELSE 0)
             /\ Count(toClient', a) \in Nat /\ Count(toBroker, a) \in Nat
  BY OwedRead
<1>2. Owed' <= Owed /\ OwedUnsub' <= OwedUnsub
  BY <1>1 DEF Owed, OwedUnsub
<1>3. \A a, t : InFlight(a, t)' <=> InFlight(a, t)
  BY DEF InFlight
<1> QED
  BY <1>2, <1>3 DEF Wire

\* No packet moves.
LEMMA SameWire ==
    ASSUME Typed, UNCHANGED <<toBroker, toClient, subs>>
    PROVE  Wire
<1>1. Owed \in Nat /\ OwedUnsub \in Nat /\ Owed' = Owed /\ OwedUnsub' = OwedUnsub
  BY OwedNat DEF Owed, OwedUnsub
<1>2. \A a, t : InFlight(a, t)' <=> InFlight(a, t)
  BY DEF InFlight
<1> QED
  BY <1>1, <1>2 DEF Wire

\* A connection that is made, or a packet that is not CONNACK: nobody dials.
LEMMA NotDialling ==
    ASSUME Typed, Dialling, stack # <<>>,
           \/ \E type \in {"PINGRESP", "PUBLISH", "SUBACK", "UNSUBACK"} : Reads(type)
           \/ subs # {} \/ Top.op # "connect"
    PROVE  Top.op # "connect"
<1>1. Len(stack) \in 1 .. Len(stack) /\ Top = stack[Len(stack)]
  BY TopFacts
<1> SUFFICES ASSUME Top.op = "connect", NEW type \in {"PINGRESP", "PUBLISH", "SUBACK", "UNSUBACK"}, Reads(type)
             PROVE  FALSE
  BY <1>1 DEF Dialling, OnlyConnects
<1>2. OnlyConnects
  BY <1>1 DEF Dialling
<1>3. toClient # <<>> /\ Head(toClient).type = type /\ toClient \in Seq(Packet)
  BY DEF Reads, Typed, NetTyped
<1>4. Head(toClient) = toClient[1] /\ 1 \in 1 .. Len(toClient)
  BY <1>3
<1> QED
  BY <1>2, <1>3, <1>4 DEF OnlyConnects

\* Nobody dials after a step of a call that does not dial.
LEMMA DiallingNot ==
    ASSUME Typed, Dialling, stack # <<>> => Top.op # "connect", NEW n \in Nat, Keeps(n),
           \A k \in 1 .. Len(stack') : k > n => stack'[k].op # "connect"
    PROVE  Dialling' /\ ~UnderWay("connect") /\ ~UnderWay("connect")'
<1>1. n <= Len(stack) /\ n <= Len(stack') /\ Len(stack) \in Nat /\ Len(stack') \in Nat
  BY DEF Keeps, Typed, CallsTyped
<1>2. \A k \in 1 .. Len(stack) : stack[k].op # "connect"
  BY <1>1, TopFacts DEF Dialling
<1>3. \A k \in 1 .. n : k \in 1 .. Len(stack) /\ stack'[k].op = stack[k].op
  BY <1>1 DEF Keeps, Same
<1>4. \A k \in 1 .. Len(stack') : stack'[k].op # "connect"
  <2> SUFFICES ASSUME NEW k \in 1 .. Len(stack')
               PROVE  stack'[k].op # "connect"
    OBVIOUS
  <2>1. k > n \/ k \in 1 .. n
    BY <1>1
  <2> QED
    BY <1>2, <1>3, <2>1
<1> QED
  BY <1>2, <1>4 DEF Dialling, UnderWay

\* A connection under way stays so while the calls do.
LEMMA DiallingStays ==
    ASSUME Typed, Dialling, UNCHANGED <<stack, handlers>>, OnlyConnects => OnlyConnects'
    PROVE  Dialling'
  BY DEF Dialling, NoHandlers

\* The invariant after a step that the calls, the packets and the table allow.
LEMMA QuietSub ==
    ASSUME Inv, Inv', SubInv, SameView, UNCHANGED handlers, Clean' => Clean /\ Wire,
           Dialling', state' \in Start => state \in Start
    PROVE  SubInv'
<1>1. Fresh'
  BY DEF SubInv, Fresh, NoHandlers
<1>2. Answered' /\ Tracked'
  BY WireKeeps DEF SubInv, Inv
<1> QED
  BY <1>1, <1>2 DEF SubInv

\* The calls after a step that leaves them where they are.
LEMMA StaysView ==
    ASSUME Typed,
           \/ stack' = stack \/ stack' = Goes
           \/ \E p \in {"first", "ping", "next"} : stack' = GoTo(stack, p)
    PROVE  /\ SameView /\ Keeps(Len(stack)) /\ Len(stack) \in Nat
           /\ \A k \in 1 .. Len(stack') : k > Len(stack) => stack'[k].op # "connect"
<1>1. Frozen(Len(stack)) /\ Len(stack') = Len(stack) /\ Len(stack) \in Nat
  BY StaysFrozen DEF Typed, CallsTyped
<1>2. Keeps(Len(stack))
  BY <1>1 DEF Frozen
<1>3. \A k \in 1 .. Len(stack) : ~(k > Len(stack))
  BY <1>1
<1> QED
  BY <1>1, <1>2, <1>3, ViewStays

\* A packet is read and changes neither the calls nor the table.
LEMMA ReadsSub ==
    ASSUME Inv, Inv', SubInv, NEW type, Reads(type), type # "CONNACK" \/ Top.op # "connect",
           type \in {"PINGRESP", "PUBLISH", "CONNACK", "SUBACK", "UNSUBACK"},
           stack' = Goes, UNCHANGED <<state, handlers, net, toBroker, subs, mishaps>>
    PROVE  SubInv'
<1>1. Typed /\ stack # <<>>
  BY ReadsFacts DEF Inv
<1>2. Top.op # "connect"
  BY <1>1, NotDialling DEF SubInv
<1>3. SameView /\ Dialling'
  BY <1>1, <1>2, StaysView, DiallingNot DEF SubInv
<1>4. Wire
  BY <1>1, ReadWire
<1> QED
  BY <1>3, <1>4, QuietSub DEF Clean

\* A yield takes a turn of its loop.
LEMMA YieldTurnsSub ==
    ASSUME Inv, Inv', SubInv, YieldReadsNothing \/ KeepAliveNotYet \/ ReconnectNotYet
    PROVE  SubInv'
<1> USE DEF timers, netVars, bounds
<1>1. stack # <<>> /\ Top.op = "yield"
  BY DEF YieldReadsNothing, YieldReads, KeepAliveNotYet, ReconnectNotYet, InCall
<1>2. /\ \E p \in {"first", "ping", "next"} : stack' = GoTo(stack, p)
      /\ UNCHANGED <<state, handlers, net, toBroker, toClient, subs, mishaps>>
  BY DEF YieldReadsNothing, KeepAliveNotYet, ReconnectNotYet
<1>3. SameView /\ Dialling'
  BY <1>1, <1>2, StaysView, DiallingNot DEF SubInv, Inv
<1>4. Wire
  BY <1>2, SameWire DEF Inv
<1> QED
  BY <1>2, <1>3, <1>4, QuietSub DEF Clean

\* A ping is sent.
LEMMA SendPingSub ==
    ASSUME Inv, Inv', SubInv, SendPing
    PROVE  SubInv'
<1> DEFINE p == [type |-> "PINGREQ", topic |-> NoTopic]
<1>1. stack # <<>> /\ Top.op = "yield" /\ Typed
  BY DEF SendPing, InCall, Inv
<1>2. /\ stack' = GoTo(stack, "next") /\ toBroker' = Sent(p)
      /\ UNCHANGED <<state, handlers, net, toClient, subs, mishaps>>
  BY DEF SendPing
<1>3. SameView /\ Dialling'
  BY <1>1, <1>2, StaysView, DiallingNot DEF SubInv
<1>4. ASSUME Clean' PROVE Clean /\ Wire
  <2>1. Clean /\ toBroker' = Append(toBroker, p) /\ p \in Request /\ p.type = "PINGREQ"
    BY <1>2, <1>4 DEF Clean, Sent, Request
  <2> HIDE DEF p
  <2>2. /\ \A a : /\ Count(toBroker', a) = Count(toBroker, a) + (IF p.type = a THEN 1 ELSE 0)
                  /\ Count(toBroker, a) \in Nat /\ Count(toClient, a) \in Nat
        /\ \A a, t : InFlight(a, t)' <=> InFlight(a, t) \/ (p.type = a /\ p.topic = t)
    BY <1>1, <2>1, OwedSend
  <2>3. Owed' <= Owed /\ OwedUnsub' <= OwedUnsub
    BY <1>2, <2>1, <2>2 DEF Owed, OwedUnsub
  <2> QED
    BY <1>2, <2>1, <2>2, <2>3 DEF Wire
<1> QED
  BY <1>2, <1>3, <1>4, QuietSub

\* Time passes.
LEMMA TimersSub ==
    ASSUME Inv, Inv', SubInv, UNCHANGED <<state, handlers, stack, netVars, mishaps>>
    PROVE  SubInv'
<1> USE DEF netVars
<1>1. SameView
  BY StaysView DEF Inv
<1>2. Dialling'
  BY DiallingStays DEF SubInv, Inv, OnlyConnects
<1>3. Wire
  BY SameWire DEF Inv
<1> QED
  BY <1>1, <1>2, <1>3, QuietSub DEF Clean

\* The broker takes a request and answers it.
LEMMA BrokerSub ==
    ASSUME Inv, Inv', SubInv, Broker
    PROVE  SubInv'
<1> DEFINE p == Head(toBroker)
           a == [type |-> Answer[p.type], topic |-> p.topic]
<1>0. Typed /\ toBroker \in Seq(Request) /\ toClient \in Seq(Packet) /\ toBroker # <<>>
  BY DEF Inv, Typed, NetTyped, Broker
<1>1. /\ toBroker' = Tail(toBroker) /\ toClient' = Append(toClient, a)
      /\ subs' = IF p.type = "SUBSCRIBE" THEN subs \cup {p.topic}
                 ELSE IF p.type = "UNSUBSCRIBE" THEN subs \ {p.topic} ELSE subs
      /\ UNCHANGED <<state, handlers, stack, net, mishaps>>
  BY DEF Broker
<1>2. p \in Request /\ p = toBroker[1] /\ 1 \in 1 .. Len(toBroker) /\ Len(toBroker) \in Nat \ {0}
      /\ Len(toBroker') = Len(toBroker) - 1 /\ \A i \in 1 .. Len(toBroker) - 1 : toBroker'[i] = toBroker[i + 1]
  BY <1>0, <1>1
<1>3. /\ a \in Packet
      /\ p.type = "CONNECT" => a.type = "CONNACK"
      /\ p.type = "SUBSCRIBE" => a.type = "SUBACK"
      /\ p.type = "UNSUBSCRIBE" => a.type = "UNSUBACK"
      /\ p.type = "PINGREQ" => a.type = "PINGRESP"
      /\ p.type \in {"CONNECT", "SUBSCRIBE", "UNSUBSCRIBE", "PINGREQ"}
  BY <1>2 DEF Request, Packet, Answer
<1> HIDE DEF p, a
<1>4. SameView
  BY <1>0, <1>1, StaysView
<1>5. OnlyConnects => OnlyConnects'
  <2> SUFFICES ASSUME OnlyConnects
               PROVE  OnlyConnects'
    OBVIOUS
  <2>1. p.type = "CONNECT"
    BY <1>2 DEF OnlyConnects
  <2>2. \A i \in 1 .. Len(toBroker') : toBroker'[i].type = "CONNECT"
    BY <1>2 DEF OnlyConnects
  <2>3. \A i \in 1 .. Len(toClient') : toClient'[i].type = "CONNACK"
    BY <1>0, <1>1, <1>3, <2>1, PushOn DEF OnlyConnects
  <2> QED
    BY <1>1, <2>1, <2>2, <2>3 DEF OnlyConnects
<1>6. Dialling'
  BY <1>0, <1>1, <1>5, DiallingStays DEF SubInv
<1>7. ASSUME Clean PROVE Wire
  <2>1. \A x : /\ Count(toBroker, x) = Count(toBroker', x) + (IF p.type = x THEN 1 ELSE 0)
               /\ Count(toClient', x) = Count(toClient, x) + (IF a.type = x THEN 1 ELSE 0)
               /\ Count(toBroker', x) \in Nat /\ Count(toClient, x) \in Nat
    <3>1. \A x : Count(toBroker, x) = Count(toBroker', x) + (IF p.type = x THEN 1 ELSE 0)
      BY <1>0, <1>1, CountTail DEF p
    <3>2. \A x : Count(toClient', x) = Count(toClient, x) + (IF a.type = x THEN 1 ELSE 0)
      BY <1>0, <1>1, <1>3, CountAppend
    <3>3. toBroker' \in Seq(Request)
      BY <1>0, <1>1
    <3>4. \A x : Count(toBroker', x) \in Nat /\ Count(toClient, x) \in Nat
      BY <1>0, <3>3, MarksFinite
    <3> QED
      BY <3>1, <3>2, <3>4
  <2>2. Owed' <= Owed /\ OwedUnsub' <= OwedUnsub
    BY <1>3, <2>1 DEF Owed, OwedUnsub
  <2>3. \A x, t : InFlight(x, t) => InFlight(x, t)' \/ (p.type = x /\ p.topic = t)
    <3> SUFFICES ASSUME NEW x, NEW t, NEW i \in 1 .. Len(toBroker),
                        toBroker[i].type = x /\ toBroker[i].topic = t, ~(p.type = x /\ p.topic = t)
                 PROVE  InFlight(x, t)'
      BY DEF InFlight
    <3>1. i # 1
      BY <1>2
    <3>2. i - 1 \in 1 .. Len(toBroker') /\ toBroker'[i - 1] = toBroker[i]
      BY <1>2, <3>1
    <3> QED
      BY <3>2 DEF InFlight
  <2>4. \A x, t : InFlight(x, t)' => InFlight(x, t)
    <3> SUFFICES ASSUME NEW x, NEW t, NEW i \in 1 .. Len(toBroker'),
                        toBroker'[i].type = x /\ toBroker'[i].topic = t
                 PROVE  InFlight(x, t)
      BY DEF InFlight
    <3>1. i + 1 \in 1 .. Len(toBroker) /\ toBroker'[i] = toBroker[i + 1]
      BY <1>2
    <3> QED
      BY <3>1 DEF InFlight
  <2>5. \A t : t \in subs => t \in subs' \/ Cancelled(t)
    <3>1. p.type = "UNSUBSCRIBE" => Cancelled(p.topic)
      BY <1>2, <1>7 DEF SubInv, Tracked, InFlight
    <3> QED
      BY <1>1, <3>1
  <2> QED
    BY <1>1, <2>2, <2>3, <2>4, <2>5 DEF Wire
<1> QED
  BY <1>1, <1>4, <1>6, <1>7, QuietSub DEF Clean

\* A message arrives.
LEMMA MessageSub ==
    ASSUME Inv, Inv', SubInv, NEW t \in Topics, Message(t)
    PROVE  SubInv'
<1> DEFINE p == [type |-> "PUBLISH", topic |-> t]
<1>1. /\ Typed /\ toBroker \in Seq(Request) /\ toClient \in Seq(Packet) /\ toClient' = Append(toClient, p)
      /\ p \in Packet /\ p.type = "PUBLISH" /\ t \in subs
      /\ UNCHANGED <<state, handlers, stack, net, toBroker, subs, mishaps>>
  BY DEF Inv, Typed, NetTyped, Message, Packet
<1> HIDE DEF p
<1>2. SameView /\ ~OnlyConnects
  BY <1>1, StaysView DEF OnlyConnects
<1>3. Dialling'
  BY <1>1, <1>2, DiallingStays DEF SubInv
<1>4. \A a : /\ Count(toClient', a) = Count(toClient, a) + (IF p.type = a THEN 1 ELSE 0)
             /\ Count(toBroker, a) \in Nat /\ Count(toClient, a) \in Nat
  BY <1>1, CountAppend, MarksFinite
<1>5. Owed' <= Owed /\ OwedUnsub' <= OwedUnsub
  <2>1. Count(toClient', "SUBACK") = Count(toClient, "SUBACK") /\ Count(toClient', "UNSUBACK") = Count(toClient, "UNSUBACK")
    BY <1>1, <1>4
  <2> QED
    BY <1>1, <2>1, OwedNat DEF Owed, OwedUnsub
<1>6. \A a, u : InFlight(a, u)' <=> InFlight(a, u)
  BY <1>1 DEF InFlight
<1>7. Wire
  BY <1>1, <1>5, <1>6 DEF Wire
<1> QED
  BY <1>1, <1>2, <1>3, <1>7, QuietSub DEF Clean

\* The connection is lost.
LEMMA LoseSub ==
    ASSUME Inv, Inv', SubInv, NEW l \in Losses, Lose(l)
    PROVE  SubInv'
<1>1. /\ Typed /\ net' # "up" /\ subs' = {} /\ toBroker' = <<>> /\ (toClient' = <<>> \/ UNCHANGED toClient)
      /\ UNCHANGED <<state, handlers, stack, mishaps>>
  BY ClientAssumption DEF Inv, Lose
<1>2. SameView /\ (OnlyConnects => OnlyConnects')
  BY <1>1, StaysView DEF OnlyConnects
<1>3. Dialling'
  BY <1>1, <1>2, DiallingStays DEF SubInv
<1> QED
  BY <1>1, <1>2, <1>3, QuietSub DEF Clean

\* What the invariant sees of the calls when one is made,
LEMMA PushView ==
    ASSUME Typed, NEW n \in Nat, n = Len(stack), NEW f \in Frame, Frozen(n), Grows(n, f)
    PROVE  /\ \A o : UnderWay(o)' <=> UnderWay(o) \/ f.op = o
           /\ \A t : /\ Requested(t)' <=> Requested(t) \/ (f.op = "subscribe" /\ f.topic = t)
                     /\ Cancelled(t)' <=> Cancelled(t) \/ (f.op = "unsubscribe" /\ f.topic = t)
           /\ \A i : Renewed(i)' <=> Renewed(i) /\ (f.op = "resubscribe" => i <= f.idx \/ i >= f.count)
<1>1. Len(stack') = n + 1 /\ stack'[n + 1] = f
  BY DEF Grows
<1>2. \A k \in 1 .. n : /\ stack'[k].op = stack[k].op /\ stack'[k].topic = stack[k].topic
                        /\ stack'[k].count = stack[k].count
                        /\ stack[k].op = "resubscribe" => stack'[k].idx = stack[k].idx
  BY DEF Frozen, Keeps, Same
<1>3. /\ \A k \in 1 .. Len(stack') : k = n + 1 \/ k \in 1 .. Len(stack)
      /\ \A k \in 1 .. Len(stack) : k \in 1 .. Len(stack')
      /\ n + 1 \in 1 .. Len(stack')
  BY <1>1
<1>4. \A o : UnderWay(o)' <=> UnderWay(o) \/ f.op = o
  BY <1>1, <1>2, <1>3 DEF UnderWay
<1>5. \A t : /\ Requested(t)' <=> Requested(t) \/ (f.op = "subscribe" /\ f.topic = t)
             /\ Cancelled(t)' <=> Cancelled(t) \/ (f.op = "unsubscribe" /\ f.topic = t)
  BY <1>1, <1>2, <1>3 DEF Requested, Cancelled
<1>6. \A i : Renewed(i)' <=> Renewed(i) /\ (f.op = "resubscribe" => i <= f.idx \/ i >= f.count)
  BY <1>1, <1>2, <1>3 DEF Renewed
<1> QED
  BY <1>4, <1>5, <1>6

\* and when the innermost one returns.
LEMMA PopView ==
    ASSUME Typed, stack # <<>>,
           stack' = Below \/ \E p \in {"first", "ping", "next"} : stack' = GoTo(Below, p)
    PROVE  /\ \A o : UnderWay(o) <=> UnderWay(o)' \/ Top.op = o
           /\ \A t : /\ Requested(t) <=> Requested(t)' \/ (Top.op = "subscribe" /\ Top.topic = t)
                     /\ Cancelled(t) <=> Cancelled(t)' \/ (Top.op = "unsubscribe" /\ Top.topic = t)
           /\ \A i : Renewed(i) <=> Renewed(i)' /\ (Top.op = "resubscribe" => i <= Top.idx \/ i >= Top.count)
           /\ Len(stack) - 1 \in Nat /\ Keeps(Len(stack) - 1) /\ Len(stack') = Len(stack) - 1
           /\ \A k \in 1 .. Len(stack') : ~(k > Len(stack) - 1)
<1> DEFINE n == Len(stack) - 1
<1>1. n \in Nat /\ Len(stack) = n + 1 /\ Frozen(n) /\ Len(stack') = n /\ Top = stack[n + 1]
  BY PopsFrozen, TopFacts
<1> HIDE DEF n
<1>2. \A k \in 1 .. n : /\ stack'[k].op = stack[k].op /\ stack'[k].topic = stack[k].topic
                        /\ stack'[k].count = stack[k].count
                        /\ stack[k].op = "resubscribe" => stack'[k].idx = stack[k].idx
  BY <1>1 DEF Frozen, Keeps, Same
<1>3. /\ \A k \in 1 .. Len(stack) : k = n + 1 \/ k \in 1 .. Len(stack')
      /\ \A k \in 1 .. Len(stack') : k \in 1 .. Len(stack) /\ ~(k > n)
      /\ n + 1 \in 1 .. Len(stack)
  BY <1>1
<1>4. \A o : UnderWay(o) <=> UnderWay(o)' \/ Top.op = o
  BY <1>1, <1>2, <1>3 DEF UnderWay
<1>5. \A t : /\ Requested(t) <=> Requested(t)' \/ (Top.op = "subscribe" /\ Top.topic = t)
             /\ Cancelled(t) <=> Cancelled(t)' \/ (Top.op = "unsubscribe" /\ Top.topic = t)
  BY <1>1, <1>2, <1>3 DEF Requested, Cancelled
<1>6. \A i : Renewed(i) <=> Renewed(i)' /\ (Top.op = "resubscribe" => i <= Top.idx \/ i >= Top.count)
  BY <1>1, <1>2, <1>3 DEF Renewed
<1> QED
  BY <1>1, <1>3, <1>4, <1>5, <1>6 DEF Frozen, n

\* A yield or a callback that returns takes nothing with it.
LEMMA PopQuiet ==
    ASSUME Typed, Dialling, stack # <<>>, Top.op \in {"yield", "callback"},
           stack' = Below \/ \E p \in {"first", "ping", "next"} : stack' = GoTo(Below, p)
    PROVE  SameView /\ Dialling'
<1>1. SameView
  BY PopView DEF SameView
<1>2. Dialling'
  <2>1. Len(stack) - 1 \in Nat /\ Keeps(Len(stack) - 1) /\ \A k \in 1 .. Len(stack') : ~(k > Len(stack) - 1)
    BY PopView
  <2> QED
    BY <2>1, DiallingNot
<1> QED
  BY <1>1, <1>2

\* One that begins brings nothing.
LEMMA PushQuiet ==
    ASSUME Typed, Dialling, stack # <<>> => Top.op # "connect", NEW f \in Frame,
           f.op \in {"yield", "callback"}, Frozen(Len(stack)), Grows(Len(stack), f)
    PROVE  SameView /\ Dialling'
<1> DEFINE n == Len(stack)
<1>1. n \in Nat /\ Len(stack') = n + 1 /\ stack'[n + 1] = f /\ Keeps(n)
  BY DEF Grows, Typed, CallsTyped
<1>2. SameView
  BY <1>1, PushView DEF SameView
<1>3. \A k \in 1 .. Len(stack') : k > n => stack'[k].op # "connect"
  BY <1>1
<1> QED
  BY <1>1, <1>2, <1>3, DiallingNot

\* Inside a call the client is neither new nor given up.
LEMMA NotStart ==
    ASSUME Inv, stack # <<>>
    PROVE  state \notin Start
  BY FitsIs DEF Inv, Fits, Start

\* Nor after a call that restores what it has saved.
LEMMA RestoredNotStart ==
    ASSUME Inv, stack # <<>>, Top.op \in {"subscribe", "unsubscribe", "callback"}
    PROVE  Top.saved \notin Start
<1>1. /\ Len(stack) \in Nat \ {0} /\ Top = stack[Len(stack)] /\ Legal(Len(stack))
  BY Inner
<1>2. CASE Len(stack) = 1
  <2>1. Top.saved = "IDLE"
    BY <1>1, <1>2 DEF Legal
  <2> QED
    BY <2>1 DEF Start
<1>3. CASE Len(stack) > 1
  <2>1. \/ Fits(stack[Len(stack) - 1].op, Top.saved, mishaps)
        \/ Top.saved = "WAIT_FOR_CB_RETURN"
    BY <1>1, <1>3 DEF Legal
  <2> QED
    BY <2>1 DEF Fits, Start
<1>4. Len(stack) = 1 \/ Len(stack) > 1
  <2>1. Len(stack) \in Nat \ {0}
    BY <1>1
  <2>2. \A n \in Nat \ {0} : n = 1 \/ n > 1
    OBVIOUS
  <2> QED
    BY <2>1, <2>2, Zenon
<1> QED
  BY <1>2, <1>3, <1>4

\* aws_iot_mqtt_yield begins and returns.
LEMMA YieldSub ==
    ASSUME Inv, Inv', SubInv, Yield
    PROVE  SubInv'
<1> USE DEF timers, netVars, bounds
<1> DEFINE f == Call("yield", NoTopic, 0, 0)
<1>1. f \in Frame /\ f.op = "yield" /\ Typed
  BY CallFacts, HandlersFacts DEF Inv, Ops
<1>2. /\ stack = <<>> /\ stack' = Append(stack, f) /\ state \in {"IDLE", "PENDING_RECONNECT"}
      /\ UNCHANGED <<handlers, net, toBroker, toClient, subs, mishaps>>
      /\ state' = IF state = "IDLE" THEN "YIELD" ELSE state
  BY DEF Yield, SetClientState
<1> HIDE DEF f
<1>3. SameView /\ Dialling'
  BY <1>1, <1>2, PushesFrozen, PushQuiet DEF SubInv
<1>4. Wire
  BY <1>1, <1>2, SameWire
<1>5. state' \notin Start
  BY <1>2 DEF Start
<1> QED
  BY <1>2, <1>3, <1>4, <1>5, QuietSub DEF Clean

\* A yield returns, be its time up or a read failed.
LEMMA YieldReturnsSub ==
    ASSUME Inv, Inv', SubInv, InCall("yield"), YieldReturns
    PROVE  SubInv'
<1> USE DEF timers, netVars, bounds
<1>1. /\ stack # <<>> /\ Top.op = "yield" /\ stack' = Below /\ Typed
      /\ UNCHANGED <<handlers, net, toBroker, toClient, subs, mishaps>>
      /\ state' = IF state = "YIELD" THEN "IDLE" ELSE state
  BY DEF InCall, YieldReturns, SetClientState, Inv
<1>2. SameView /\ Dialling'
  BY <1>1, PopQuiet DEF SubInv
<1>3. Wire
  BY <1>1, SameWire
<1>4. state' \in Start => state \in Start
  BY <1>1 DEF Start
<1> QED
  BY <1>1, <1>2, <1>3, <1>4, QuietSub DEF Clean

\* A callback returns: the next handler is called or the state restored.
LEMMA CallbackReturnsSub ==
    ASSUME Inv, Inv', SubInv, CallbackReturns
    PROVE  SubInv'
<1> USE DEF timers, netVars, bounds
<1> DEFINE more == Matching(Top.topic, Top.idx + 1)
<1>1. /\ stack # <<>> /\ Top.op = "callback" /\ Typed /\ Top \in Frame /\ Top = stack[Len(stack)]
      /\ stack \in Seq(Frame) /\ Len(stack) \in Nat \ {0}
      /\ UNCHANGED <<handlers, net, toBroker, toClient, subs, mishaps>>
  BY TopFacts DEF InCall, Inv, CallbackReturns, Typed, CallsTyped
<1>2. Wire
  BY <1>1, SameWire
<1>3. CASE more # {}
  <2>1. stack' = [stack EXCEPT ![Len(stack)].idx = Least(more)] /\ UNCHANGED state
    BY <1>3 DEF CallbackReturns
  <2>2. Least(more) \in Handlers
    <3>1. Top.idx \in Handlers
      BY <1>1 DEF Frame
    <3>2. \A n \in Handlers : n + 1 \in Nat
      BY HandlersFacts
    <3> QED
      BY <1>3, <3>1, <3>2, MatchingFacts DEF Matching
  <2> HIDE DEF more
  <2>3. Keeps(Len(stack)) /\ Len(stack') = Len(stack)
    BY <1>1, <2>1, <2>2, IndexMoves DEF Shrinks
  <2>4. Frozen(Len(stack))
    BY <1>1, <2>1, <2>3 DEF Frozen
  <2>5. \A k \in 1 .. Len(stack) : ~(k > Len(stack))
    BY <1>1
  <2>6. SameView
    BY <1>1, <2>3, <2>4, <2>5, ViewStays
  <2>7. Dialling'
    BY <1>1, <2>3, <2>5, DiallingNot DEF SubInv
  <2> QED
    BY <1>1, <1>2, <2>1, <2>6, <2>7, QuietSub DEF Clean
<1>4. CASE more = {}
  <2>1. stack' = Below /\ state' = SetClientState("WAIT_FOR_CB_RETURN", Top.saved)
    BY <1>4 DEF CallbackReturns
  <2>2. SameView /\ Dialling'
    BY <1>1, <2>1, PopQuiet DEF SubInv
  <2>3. state' \in Start => state \in Start
    BY <1>1, <2>1, RestoredNotStart DEF SetClientState
  <2> QED
    BY <1>1, <1>2, <2>2, <2>3, QuietSub DEF Clean
<1> QED
  BY <1>3, <1>4

\* A message is read and handed to its first handler.
LEMMA ReadPublishSub ==
    ASSUME Inv, Inv', SubInv, ReadPublish
    PROVE  SubInv'
<1> USE DEF timers, netVars, bounds
<1> DEFINE t == Head(toClient).topic
           i == Least(Matching(t, 0))
           f == Call("callback", t, i, 0)
<1>1. /\ Typed /\ stack # <<>> /\ Head(toClient) \in Packet /\ Reads("PUBLISH")
      /\ UNCHANGED <<handlers, net, toBroker, subs, mishaps>>
  BY ReadsFacts DEF ReadPublish, Inv
<1>2. CASE Matching(t, 0) = {}
  BY <1>1, <1>2, ReadsSub DEF ReadPublish
<1>3. CASE Matching(t, 0) # {}
  <2>1. stack' = Append(Goes, f) /\ state' = "WAIT_FOR_CB_RETURN"
    BY <1>3 DEF ReadPublish
  <2>2. i \in Handlers
    BY <1>3, MatchingFacts DEF Matching
  <2>3. t \in Topics \cup {NoTopic}
    BY <1>1 DEF Packet
  <2> HIDE DEF t, i
  <2>4. f \in Frame /\ f.op = "callback"
    BY <1>1, <2>2, <2>3, CallFacts, HandlersFacts DEF Ops
  <2> HIDE DEF f
  <2>5. Frozen(Len(stack)) /\ Grows(Len(stack), f)
    BY <1>1, <2>1, <2>4, PushesFrozen
  <2>6. Top.op # "connect"
    BY <1>1, NotDialling DEF SubInv
  <2>7. SameView /\ Dialling'
    BY <1>1, <2>4, <2>5, <2>6, PushQuiet DEF SubInv
  <2>8. Wire
    BY <1>1, ReadWire
  <2> QED
    BY <1>1, <2>1, <2>7, <2>8, QuietSub DEF Clean, Start
<1> QED
  BY <1>2, <1>3

\* The invariant after a step that loses the connection or an answer.
LEMMA BrokenSub ==
    ASSUME Fresh', Dialling', ~Clean'
    PROVE  SubInv'
  BY DEF SubInv, Answered, Tracked

\* _aws_iot_mqtt_handle_disconnect, in a yield.
LEMMA NoticeLossSub ==
    ASSUME Inv, SubInv, NoticeLoss
    PROVE  SubInv'
<1>1. /\ stack # <<>> /\ Top.op = "yield" /\ Typed /\ net' = "none" /\ state' = "PENDING_RECONNECT"
      /\ stack' = GoTo(stack, "next")
  BY DEF NoticeLoss, NetworkDestroyed, InCall, Inv
<1>2. Dialling'
  BY <1>1, StaysView, DiallingNot DEF SubInv
<1> QED
  BY <1>1, <1>2, BrokenSub DEF Fresh, Start, Clean

\* A connection fails: the program is told, or the yield goes on.
LEMMA ConnectFailsSub ==
    ASSUME Inv, SubInv, ConnectFails
    PROVE  SubInv'
<1> USE DEF timers, netVars, bounds
<1>1. /\ stack # <<>> /\ Top.op = "connect" /\ Typed /\ net' = "none" /\ stack' = GoTo(Below, "next")
      /\ UNCHANGED handlers
      /\ IF Below = <<>> THEN state' = "DISCONNECTED_ERROR" ELSE state' = "PENDING_RECONNECT"
  BY DEF ConnectFails, NetworkDestroyed, InCall, Inv
<1>2. /\ Len(stack) \in Nat \ {0} /\ Top = stack[Len(stack)] /\ Len(Below) = Len(stack) - 1
      /\ Len(stack) > 1 => stack[Len(stack) - 1].op = "yield" /\ Len(stack) = 2
  BY <1>1, Inner, TopFacts
<1>3. Keeps(Len(stack) - 1) /\ Len(stack') = Len(stack) - 1
  BY <1>1, PopView
<1>4. \A k \in 1 .. Len(stack') : stack'[k].op # "connect"
  <2> SUFFICES ASSUME NEW k \in 1 .. Len(stack')
               PROVE  stack'[k].op # "connect"
    OBVIOUS
  <2>1. k = 1 /\ Len(stack) = 2 /\ k \in 1 .. Len(stack) - 1
    BY <1>2, <1>3
  <2>2. stack'[k].op = stack[k].op
    BY <1>3, <2>1 DEF Keeps, Same
  <2>3. stack[1].op = "yield"
    BY <1>2, <2>1
  <2> QED
    BY <2>1, <2>2, <2>3
<1>5. Dialling'
  BY <1>4 DEF Dialling
<1>6. Fresh'
  <2>1. CASE Below = <<>>
    <3>1. Len(stack) = 1 /\ 1 \in 1 .. Len(stack)
      BY <1>2, <2>1
    <3>2. NoHandlers
      BY <1>1, <1>2, <3>1 DEF SubInv, Dialling
    <3> QED
      BY <1>1, <3>2 DEF Fresh, NoHandlers
  <2>2. CASE Below # <<>>
    BY <1>1, <2>2 DEF Fresh, Start
  <2> QED
    BY <2>1, <2>2
<1> QED
  BY <1>1, <1>5, <1>6, BrokenSub DEF Clean

\* A request is not answered in time.
LEMMA RequestFailsSub ==
    ASSUME Inv, SubInv, RequestFails
    PROVE  SubInv'
<1> USE DEF timers, netVars, bounds
<1>1. /\ stack # <<>> /\ Top.op \in {"subscribe", "unsubscribe"} /\ Typed /\ stack' = Below
      /\ UNCHANGED <<net, handlers>> /\ mishaps' = IF net = "up" THEN mishaps \cup {"late"} ELSE mishaps
      /\ (state' = Top.saved \/ UNCHANGED state)
  BY DEF RequestFails, SetClientState, InCall, Inv
<1>2. Dialling'
  <2>1. Len(stack) - 1 \in Nat /\ Keeps(Len(stack) - 1) /\ \A k \in 1 .. Len(stack') : ~(k > Len(stack) - 1)
    BY <1>1, PopView
  <2> QED
    BY <1>1, <2>1, DiallingNot DEF SubInv
<1>3. state' \notin Start
  BY <1>1, NotStart, RestoredNotStart
<1> QED
  BY <1>1, <1>2, <1>3, BrokenSub DEF Clean, Fresh

\* A renewal is not answered in time.
LEMMA ResubscribeFailsSub ==
    ASSUME Inv, Inv', SubInv, ResubscribeFails
    PROVE  SubInv'
<1>1. /\ stack # <<>> /\ Top.op = "resubscribe" /\ Typed /\ stack' = GoTo(Below, "next")
      /\ (state' = "IDLE" \/ UNCHANGED state) /\ "deaf" \in mishaps'
  BY DEF ResubscribeFails, SetClientState, InCall, Inv
<1>2. Dialling'
  <2>1. Len(stack) - 1 \in Nat /\ Keeps(Len(stack) - 1) /\ \A k \in 1 .. Len(stack') : ~(k > Len(stack) - 1)
    BY <1>1, PopView
  <2> QED
    BY <1>1, <2>1, DiallingNot DEF SubInv
<1>3. state' \notin Start
  <2>1. state \notin Start /\ "IDLE" \notin Start
    BY <1>1, NotStart DEF Start
  <2> QED
    BY <1>1, <2>1
<1> QED
  BY <1>1, <1>2, <1>3, BrokenSub DEF Clean, Fresh

\* A connection is made.
LEMMA DialSub ==
    ASSUME Inv, Inv', SubInv, Connect \/ Reconnect
    PROVE  SubInv'
<1> USE DEF timers, netVars, bounds
<1> DEFINE f == Call("connect", NoTopic, 0, 0)
           p == [type |-> "CONNECT", topic |-> NoTopic]
           n == Len(stack)
<1>1. /\ Typed /\ n \in Nat /\ f \in Frame /\ f.op = "connect" /\ p \in Request /\ p.type = "CONNECT"
      /\ stack \in Seq(Frame)
  BY CallFacts, HandlersFacts DEF Inv, Ops, Request, Typed, CallsTyped
<1>2. /\ stack' = Append(stack, f) /\ state' = "CONNECTING" /\ UNCHANGED handlers
      /\ toBroker' = <<p>> /\ toClient' = <<>> /\ subs' = {}
  BY DEF Connect, Reconnect, Dial
<1>3. /\ n = 0 => NoHandlers
      /\ n = 0 \/ (n = 1 /\ stack[1].op = "yield")
  <2>1. CASE Connect
    BY <2>1, <1>1 DEF Connect, SubInv, Fresh, Start
  <2>2. CASE Reconnect
    <3>1. stack # <<>> /\ Top.op = "yield"
      BY <2>2 DEF Reconnect, InCall
    <3>2. n = 1 /\ Top = stack[n]
      BY <3>1, Inner
    <3> QED
      BY <3>1, <3>2
  <2> QED
    BY <2>1, <2>2
<1>4. Frozen(n) /\ Grows(n, f)
  BY <1>1, <1>2, PushesFrozen
<1>5. /\ \A o : UnderWay(o)' <=> UnderWay(o) \/ f.op = o
      /\ \A t : /\ Requested(t)' <=> Requested(t) \/ (f.op = "subscribe" /\ f.topic = t)
                /\ Cancelled(t)' <=> Cancelled(t) \/ (f.op = "unsubscribe" /\ f.topic = t)
  BY <1>1, <1>4, PushView
<1>6. Len(stack') = n + 1 /\ \A k \in 1 .. Len(stack') : k # n + 1 => stack'[k].op # "connect"
  <2>1. Len(stack') = n + 1 /\ \A k \in 1 .. n : stack'[k].op = stack[k].op
    BY <1>4 DEF Grows, Keeps, Same
  <2> SUFFICES ASSUME NEW k \in 1 .. Len(stack'), k # n + 1
               PROVE  stack'[k].op # "connect"
    BY <2>1
  <2>2. k \in 1 .. n
    BY <1>1, <2>1
  <2> QED
    BY <1>3, <2>1, <2>2
<1>7. Len(toBroker') = 1 /\ toBroker'[1] = p /\ Len(toClient') = 0
  BY <1>2
<1> HIDE DEF f, p
<1>8. OnlyConnects'
  BY <1>1, <1>2, <1>7 DEF OnlyConnects
<1>9. Dialling'
  <2>1. NoHandlers' <=> NoHandlers
    BY <1>2 DEF NoHandlers
  <2> SUFFICES ASSUME NEW k \in 1 .. Len(stack'), stack'[k].op = "connect"
               PROVE  k = Len(stack') /\ (k = 1 => NoHandlers')
    BY <1>8 DEF Dialling
  <2>2. k = n + 1
    BY <1>6
  <2> QED
    BY <1>1, <1>3, <1>6, <2>1, <2>2
<1>10. Fresh'
  BY <1>2 DEF Fresh, Start
<1>11. Answered'
  <2>1. toBroker' \in Seq(Request) /\ toClient' \in Seq(Packet)
    BY DEF Inv, Typed, NetTyped
  <2>2. Count(toBroker', "SUBSCRIBE") = 0 /\ Count(toBroker', "UNSUBSCRIBE") = 0
    BY <1>1, <1>7, <2>1, CountNone
  <2>3. Count(toClient', "SUBACK") = 0 /\ Count(toClient', "UNSUBACK") = 0
    <3>1. \A i \in 1 .. Len(toClient') : toClient'[i].type # "SUBACK" /\ toClient'[i].type # "UNSUBACK"
      BY <1>7
    <3>2. \A c \in Seq(Packet) : \A a : (\A i \in 1 .. Len(c) : c[i].type # a) => Count(c, a) = 0
      BY CountNone
    <3> QED
      BY <2>1, <3>1, <3>2
  <2>4. Owed' = 0 /\ OwedUnsub' = 0
    BY <2>2, <2>3 DEF Owed, OwedUnsub
  <2>5. Has("subscribe")' \in Nat /\ Has("resubscribe")' \in Nat /\ Has("unsubscribe")' \in Nat
    BY DEF Has
  <2> QED
    BY <2>4, <2>5 DEF Answered
<1>12. Tracked'
  <2>1. \A t : ~Requested(t)'
    <3>1. \A t : ~Requested(t)
      BY <1>3 DEF Requested
    <3> QED
      BY <1>1, <1>5, <3>1
  <2>2. \A t : ~InFlight("UNSUBSCRIBE", t)'
    BY <1>1, <1>7 DEF InFlight
  <2>3. UnderWay("connect")'
    BY <1>1, <1>5
  <2> QED
    BY <2>1, <2>2, <2>3 DEF Tracked
<1> QED
  BY <1>9, <1>10, <1>11, <1>12 DEF SubInv

\* A subscription is requested.
LEMMA SubscribeSub ==
    ASSUME Inv, Inv', SubInv, NEW t \in Topics, Subscribe(t)
    PROVE  SubInv'
<1> USE DEF timers, netVars, bounds
<1> DEFINE f == Call("subscribe", t, FreeIndex, 0)
           p == [type |-> "SUBSCRIBE", topic |-> t]
           n == Len(stack)
<1>1. Typed /\ n \in Nat /\ p \in Request /\ p.type = "SUBSCRIBE" /\ p.topic = t
  BY DEF Inv, Typed, CallsTyped, Request
<1>2. FreeIndex \in Handlers
  BY <1>1, FreeIndexFacts DEF Subscribe, HandlerLeft
<1>3. f \in Frame /\ f.op = "subscribe" /\ f.topic = t
  BY <1>1, <1>2, CallFacts, HandlersFacts DEF Ops
<1>4. /\ stack' = Append(stack, f) /\ state' = "SUBSCRIBE" /\ toBroker' = Sent(p)
      /\ UNCHANGED <<handlers, net, toClient, subs>> /\ (stack = <<>> \/ Top.op = "callback")
      /\ mishaps' = IF \E k \in 1 .. Len(stack) : stack[k].op = "subscribe" THEN mishaps \cup {"nested"} ELSE mishaps
  BY DEF Subscribe, MayBegin, InCall
<1> HIDE DEF f, p
<1>5. Frozen(n) /\ Grows(n, f) /\ Len(stack') = n + 1 /\ stack'[n + 1] = f
  BY <1>1, <1>3, <1>4, PushesFrozen DEF Grows
<1>6. /\ \A o : UnderWay(o)' <=> UnderWay(o) \/ o = "subscribe"
      /\ \A u : (Requested(u)' <=> Requested(u) \/ u = t) /\ (Cancelled(u)' <=> Cancelled(u))
      /\ \A i : Renewed(i)' <=> Renewed(i)
  BY <1>1, <1>3, <1>5, PushView
<1>7. Fresh'
  BY <1>4 DEF Fresh, Start
<1>8. Dialling' /\ ~UnderWay("connect")
  <2>1. \A k \in 1 .. Len(stack') : k > n => stack'[k].op # "connect"
    BY <1>1, <1>3, <1>5
  <2>2. Keeps(n)
    BY <1>5 DEF Frozen
  <2> QED
    BY <1>1, <1>4, <2>1, <2>2, DiallingNot DEF SubInv
<1>9. ASSUME Clean'
      PROVE  /\ Owed' <= Has("subscribe")' + Has("resubscribe")' /\ OwedUnsub' <= Has("unsubscribe")'
             /\ \A u : Requested(u)' => Heard(u)' \/ InFlight("SUBSCRIBE", u)'
             /\ \A u : InFlight("UNSUBSCRIBE", u)' => Cancelled(u)'
             /\ \A i \in Handlers : handlers'[i] # NoTopic /\ Renewed(i)' =>
                   Heard(handlers[i])' \/ (UnderWay("resubscribe")' /\ InFlight("SUBSCRIBE", handlers[i])')
  <2>1. Clean /\ ~UnderWay("subscribe") /\ toBroker' = Append(toBroker, p)
    BY <1>4, <1>9 DEF Clean, UnderWay, Sent
  <2>2. /\ \A a : /\ Count(toBroker', a) = Count(toBroker, a) + (IF p.type = a THEN 1 ELSE 0)
                  /\ Count(toBroker, a) \in Nat /\ Count(toClient, a) \in Nat
        /\ \A a, u : InFlight(a, u)' <=> InFlight(a, u) \/ (p.type = a /\ p.topic = u)
    BY <1>1, <2>1, OwedSend
  <2>3. Owed <= Has("subscribe") + Has("resubscribe") /\ OwedUnsub <= Has("unsubscribe")
    BY <2>1 DEF SubInv, Answered
  <2>4. Has("subscribe") = 0 /\ Has("subscribe")' = 1 /\ Has("resubscribe")' = Has("resubscribe")
        /\ Has("unsubscribe")' = Has("unsubscribe") /\ Has("resubscribe") \in Nat /\ Has("unsubscribe") \in Nat
    BY <1>6, <2>1 DEF Has
  <2>5. Owed' = Owed + 1 /\ OwedUnsub' = OwedUnsub /\ Owed \in Nat /\ OwedUnsub \in Nat
    <3>1. Count(toBroker', "SUBSCRIBE") = Count(toBroker, "SUBSCRIBE") + 1 /\ Count(toBroker', "UNSUBSCRIBE") = Count(toBroker, "UNSUBSCRIBE")
      BY <1>1, <2>2
    <3>2. toClient' = toClient
      BY <1>4
    <3> QED
      BY <2>2, <3>1, <3>2 DEF Owed, OwedUnsub
  <2>6. Owed' <= Has("subscribe")' + Has("resubscribe")' /\ OwedUnsub' <= Has("unsubscribe")'
    BY <2>3, <2>4, <2>5
  <2>7. \A u : (Heard(u)' <=> Heard(u)) /\ (InFlight("UNSUBSCRIBE", u)' <=> InFlight("UNSUBSCRIBE", u))
               /\ (InFlight("SUBSCRIBE", u)' <=> InFlight("SUBSCRIBE", u) \/ u = t)
    BY <1>1, <1>4, <1>6, <2>2 DEF Heard
  <2>8. /\ \A u : Requested(u) => Heard(u) \/ InFlight("SUBSCRIBE", u)
        /\ \A u : InFlight("UNSUBSCRIBE", u) => Cancelled(u)
        /\ \A i \in Handlers : handlers[i] # NoTopic /\ Renewed(i) =>
              Heard(handlers[i]) \/ (UnderWay("resubscribe") /\ InFlight("SUBSCRIBE", handlers[i]))
    BY <1>8, <2>1 DEF SubInv, Tracked
  <2>9. ASSUME NEW i \in Handlers, handlers'[i] # NoTopic, Renewed(i)'
        PROVE  Heard(handlers[i])' \/ (UnderWay("resubscribe")' /\ InFlight("SUBSCRIBE", handlers[i])')
    <3>1. handlers' = handlers /\ Renewed(i)
      BY <1>4, <1>6, <2>9
    <3>2. Heard(handlers[i]) \/ (UnderWay("resubscribe") /\ InFlight("SUBSCRIBE", handlers[i]))
      BY <2>8, <2>9, <3>1
    <3> QED
      BY <1>6, <2>7, <3>1, <3>2
  <2> QED
    BY <1>6, <2>6, <2>7, <2>8, <2>9
<1> QED
  BY <1>7, <1>8, <1>9 DEF SubInv, Answered, Tracked

\* When nothing is owed, nobody waits for the broker to subscribe.
LEMMA NothingInFlight ==
    ASSUME Typed, NEW a, Count(toBroker, a) = 0
    PROVE  \A t : ~InFlight(a, t)
<1>1. toBroker \in Seq(Request)
  BY DEF Typed, NetTyped
<1> QED
  BY <1>1, CountNone DEF InFlight

\* A cancellation is requested.
LEMMA UnsubscribeSub ==
    ASSUME Inv, Inv', SubInv, NEW t \in Topics, Unsubscribe(t)
    PROVE  SubInv'
<1> USE DEF timers, netVars, bounds
<1> DEFINE f == Call("unsubscribe", t, 0, 0)
           p == [type |-> "UNSUBSCRIBE", topic |-> t]
           n == Len(stack)
<1>1. Typed /\ n \in Nat /\ n = 0 /\ p \in Request /\ p.type = "UNSUBSCRIBE" /\ p.topic = t /\ stack = <<>>
  BY DEF Inv, Typed, CallsTyped, Request, Unsubscribe
<1>2. f \in Frame /\ f.op = "unsubscribe" /\ f.topic = t
  BY <1>1, CallFacts, HandlersFacts DEF Ops
<1>3. /\ stack' = Append(stack, f) /\ state' = "UNSUBSCRIBE" /\ toBroker' = Sent(p)
      /\ UNCHANGED <<handlers, net, toClient, subs, mishaps>>
  BY DEF Unsubscribe
<1> HIDE DEF f, p
<1>4. Frozen(n) /\ Grows(n, f) /\ Len(stack') = n + 1 /\ stack'[n + 1] = f
  BY <1>1, <1>2, <1>3, PushesFrozen DEF Grows
<1>5. /\ \A o : ~UnderWay(o) /\ (UnderWay(o)' <=> o = "unsubscribe")
      /\ \A u : ~Requested(u)' /\ (Cancelled(u)' <=> u = t) /\ ~Cancelled(u)
      /\ \A i : Renewed(i)
  <2>1. (\A o : ~UnderWay(o)) /\ (\A u : ~Requested(u) /\ ~Cancelled(u)) /\ (\A i : Renewed(i))
    BY <1>1 DEF UnderWay, Requested, Cancelled, Renewed
  <2> QED
    BY <1>1, <1>2, <1>4, <2>1, PushView
<1>6. Fresh'
  BY <1>3 DEF Fresh, Start
<1>7. Dialling'
  <2>1. \A k \in 1 .. Len(stack') : k > n => stack'[k].op # "connect"
    BY <1>1, <1>2, <1>4
  <2>2. Keeps(n)
    BY <1>4 DEF Frozen
  <2> QED
    BY <1>1, <2>1, <2>2, DiallingNot DEF SubInv
<1>8. ASSUME Clean'
      PROVE  /\ Owed' <= Has("subscribe")' + Has("resubscribe")' /\ OwedUnsub' <= Has("unsubscribe")'
             /\ \A u : InFlight("UNSUBSCRIBE", u)' => Cancelled(u)'
             /\ \A i \in Handlers : handlers'[i] # NoTopic => Heard(handlers[i])'
  <2>1. Clean /\ toBroker' = Append(toBroker, p)
    BY <1>3, <1>8 DEF Clean, Sent
  <2>2. /\ \A a : /\ Count(toBroker', a) = Count(toBroker, a) + (IF p.type = a THEN 1 ELSE 0)
                  /\ Count(toBroker, a) \in Nat /\ Count(toClient, a) \in Nat
        /\ \A a, u : InFlight(a, u)' <=> InFlight(a, u) \/ (p.type = a /\ p.topic = u)
    BY <1>1, <2>1, OwedSend
  <2>3. Owed = 0 /\ OwedUnsub = 0
    <3>1. Owed <= 0 + 0 /\ OwedUnsub <= 0
      BY <1>5, <2>1 DEF SubInv, Answered, Has
    <3> QED
      BY <1>1, <3>1, OwedNat
  <2>4. Has("subscribe")' = 0 /\ Has("resubscribe")' = 0 /\ Has("unsubscribe")' = 1
    BY <1>5 DEF Has
  <2>5. Owed' = 0 /\ OwedUnsub' = 1
    <3>1. Count(toBroker', "SUBSCRIBE") = Count(toBroker, "SUBSCRIBE") /\ Count(toBroker', "UNSUBSCRIBE") = Count(toBroker, "UNSUBSCRIBE") + 1
      BY <1>1, <2>2
    <3>2. toClient' = toClient
      BY <1>3
    <3> QED
      BY <2>2, <2>3, <3>1, <3>2 DEF Owed, OwedUnsub
  <2>6. \A u : InFlight("UNSUBSCRIBE", u)' => Cancelled(u)'
    <3>1. \A u : InFlight("UNSUBSCRIBE", u) => Cancelled(u)
      BY <2>1 DEF SubInv, Tracked
    <3> QED
      BY <1>1, <1>5, <2>2, <3>1
  <2>7. ASSUME NEW i \in Handlers, handlers'[i] # NoTopic
        PROVE  Heard(handlers[i])'
    <3>1. Heard(handlers[i])
      BY <1>3, <1>5, <2>1, <2>7 DEF SubInv, Tracked
    <3> QED
      BY <1>3, <1>5, <3>1 DEF Heard
  <2> QED
    BY <2>4, <2>5, <2>6, <2>7
<1> QED
  BY <1>5, <1>6, <1>7, <1>8 DEF SubInv, Answered, Tracked

\* A subscription is acknowledged: its handler is entered.
LEMMA SubscribeDoneSub ==
    ASSUME Inv, Inv', SubInv, SubscribeDone
    PROVE  SubInv'
<1> USE DEF timers, netVars, bounds
<1>1. /\ Typed /\ stack # <<>> /\ Top.op = "subscribe" /\ Reads("SUBACK") /\ stack' = Below
      /\ handlers' = [handlers EXCEPT ![Top.idx] = Top.topic]
      /\ (state' = Top.saved \/ UNCHANGED state) /\ UNCHANGED <<net, toBroker, subs, mishaps>>
  BY DEF SubscribeDone, SetClientState, InCall, Inv
<1>2. /\ \A o : UnderWay(o) <=> UnderWay(o)' \/ o = "subscribe"
      /\ \A t : /\ Requested(t) <=> Requested(t)' \/ Top.topic = t
                /\ Cancelled(t) <=> Cancelled(t)'
      /\ \A i : Renewed(i) <=> Renewed(i)'
      /\ Len(stack) - 1 \in Nat /\ Keeps(Len(stack) - 1) /\ Len(stack') = Len(stack) - 1
      /\ \A k \in 1 .. Len(stack') : ~(k > Len(stack) - 1)
  BY <1>1, PopView
<1>3. Dialling' /\ ~UnderWay("connect")
  BY <1>1, <1>2, DiallingNot DEF SubInv
<1>4. Fresh'
  <2>1. state' \notin Start
    BY <1>1, NotStart, RestoredNotStart
  <2> QED
    BY <2>1 DEF Fresh
<1>5. ASSUME Clean'
      PROVE  /\ Owed' <= Has("subscribe")' + Has("resubscribe")' /\ OwedUnsub' <= Has("unsubscribe")'
             /\ \A t : ~Requested(t)'
             /\ \A t : InFlight("UNSUBSCRIBE", t)' => Cancelled(t)'
             /\ \A i \in Handlers : \A t : t = handlers'[i] /\ t # NoTopic /\ Renewed(i)' =>
                   Heard(t)' \/ (UnderWay("resubscribe")' /\ InFlight("SUBSCRIBE", t)')
  <2>1. Clean
    BY <1>1, <1>5 DEF Clean
  <2>2. \A k \in 1 .. Len(stack') : stack'[k].op # "subscribe"
    <3>1. Len(stack) \in 1 .. Len(stack) /\ stack[Len(stack)].op = "subscribe"
      BY <1>1, TopFacts
    <3>2. \A k \in 1 .. Len(stack) : stack[k].op = "subscribe" => k = Len(stack)
      BY <2>1, <3>1 DEF Inv, Reserved, Clean
    <3>3. \A k \in 1 .. Len(stack') : k \in 1 .. Len(stack) /\ k # Len(stack) /\ stack'[k].op = stack[k].op
      BY <1>2 DEF Keeps, Same
    <3> QED
      BY <3>2, <3>3
  <2>3. ~UnderWay("subscribe")' /\ \A t : ~Requested(t)'
    BY <2>2 DEF UnderWay, Requested
  <2>4. \A a : /\ Count(toClient, a) = Count(toClient', a) + (IF "SUBACK" = a THEN 1 ELSE 0)
               /\ Count(toClient', a) \in Nat /\ Count(toBroker, a) \in Nat
    BY <1>1, OwedRead
  <2>5. /\ Count(toClient, "SUBACK") = Count(toClient', "SUBACK") + 1
        /\ Count(toClient, "UNSUBACK") = Count(toClient', "UNSUBACK")
        /\ Count(toClient', "SUBACK") \in Nat /\ Count(toClient', "UNSUBACK") \in Nat
        /\ Count(toBroker, "SUBSCRIBE") \in Nat /\ Count(toBroker, "UNSUBSCRIBE") \in Nat
    BY <2>4
  <2>6. /\ Count(toBroker, "SUBSCRIBE") + Count(toClient, "SUBACK") <= Has("subscribe") + Has("resubscribe")
        /\ Count(toBroker, "UNSUBSCRIBE") + Count(toClient, "UNSUBACK") <= Has("unsubscribe")
    BY <2>1 DEF SubInv, Answered, Owed, OwedUnsub
  <2>7. /\ Has("subscribe") = 1 /\ Has("subscribe")' = 0 /\ Has("resubscribe")' = Has("resubscribe")
        /\ Has("unsubscribe")' = Has("unsubscribe") /\ Has("resubscribe") \in Nat /\ Has("unsubscribe") \in Nat
        /\ ~UnderWay("resubscribe")' => Has("resubscribe") = 0
    BY <1>2, <2>3 DEF Has
  <2>8. Count(toBroker, "SUBSCRIBE") + Count(toClient', "SUBACK") <= Has("resubscribe")
    BY <2>5, <2>6, <2>7
  <2>9. Owed' <= Has("subscribe")' + Has("resubscribe")' /\ OwedUnsub' <= Has("unsubscribe")'
    <3>1. toBroker' = toBroker
      BY <1>1
    <3> QED
      BY <2>5, <2>6, <2>7, <2>8, <3>1 DEF Owed, OwedUnsub
  <2>10. \A t : (Heard(t)' <=> Heard(t)) /\ \A a : InFlight(a, t)' <=> InFlight(a, t)
    BY <1>1, <1>2 DEF Heard, InFlight
  <2>11. ~UnderWay("resubscribe")' => \A t : ~InFlight("SUBSCRIBE", t)
    <3> SUFFICES ASSUME ~UnderWay("resubscribe")'
                 PROVE  \A t : ~InFlight("SUBSCRIBE", t)
      OBVIOUS
    <3>1. Count(toBroker, "SUBSCRIBE") = 0
      BY <2>5, <2>7, <2>8
    <3> QED
      BY <1>1, <3>1, NothingInFlight
  <2>12. /\ \A t : Requested(t) => Heard(t) \/ InFlight("SUBSCRIBE", t)
         /\ \A t : InFlight("UNSUBSCRIBE", t) => Cancelled(t)
         /\ \A i \in Handlers : handlers[i] # NoTopic /\ Renewed(i) =>
              Heard(handlers[i]) \/ (UnderWay("resubscribe") /\ InFlight("SUBSCRIBE", handlers[i]))
    BY <1>3, <2>1 DEF SubInv, Tracked
  <2>13. \A t : InFlight("UNSUBSCRIBE", t)' => Cancelled(t)'
    BY <1>2, <2>10, <2>12
  <2>14. \A t : Heard(t) \/ InFlight("SUBSCRIBE", t) => Heard(t)' \/ (UnderWay("resubscribe")' /\ InFlight("SUBSCRIBE", t)')
    BY <2>10, <2>11
  <2>15. ASSUME NEW i \in Handlers, NEW t, t = handlers'[i], t # NoTopic, Renewed(i)'
         PROVE  Heard(t)' \/ (UnderWay("resubscribe")' /\ InFlight("SUBSCRIBE", t)')
    <3>1. t = IF i = Top.idx THEN Top.topic ELSE handlers[i]
      BY <1>1, <2>15 DEF Typed, TableTyped
    <3>2. Heard(Top.topic) \/ InFlight("SUBSCRIBE", Top.topic)
      BY <1>2, <2>12
    <3>3. i # Top.idx => Heard(handlers[i]) \/ InFlight("SUBSCRIBE", handlers[i])
      BY <1>2, <2>12, <2>15, <3>1
    <3> QED
      BY <2>14, <3>1, <3>2, <3>3
  <2> QED
    BY <2>3, <2>9, <2>13, <2>15
<1> QED
  BY <1>3, <1>4, <1>5 DEF SubInv, Answered, Tracked

\* A cancellation is acknowledged: the topic's handlers are removed.
LEMMA UnsubscribeDoneSub ==
    ASSUME Inv, Inv', SubInv, UnsubscribeDone
    PROVE  SubInv'
<1> USE DEF timers, netVars, bounds
<1>1. /\ Typed /\ stack # <<>> /\ Top.op = "unsubscribe" /\ Reads("UNSUBACK") /\ stack' = Below
      /\ handlers' = Removed(Top.topic) /\ Len(stack) = 1
      /\ (state' = Top.saved \/ UNCHANGED state) /\ UNCHANGED <<net, toBroker, subs, mishaps>>
  BY Inner DEF UnsubscribeDone, SetClientState, InCall, Inv
<1>2. /\ \A o : UnderWay(o) <=> UnderWay(o)' \/ o = "unsubscribe"
      /\ \A t : Cancelled(t) <=> Cancelled(t)' \/ Top.topic = t
      /\ \A i : Renewed(i) <=> Renewed(i)'
      /\ Len(stack') = 0
  BY <1>1, PopView
<1>3. (\A o : ~UnderWay(o)') /\ (\A t : ~Requested(t)' /\ ~Cancelled(t)')
  BY <1>2 DEF UnderWay, Requested, Cancelled
<1>4. Dialling'
  BY <1>2 DEF Dialling
<1>5. Fresh'
  <2>1. state' \notin Start
    BY <1>1, NotStart, RestoredNotStart
  <2> QED
    BY <2>1 DEF Fresh
<1>6. ASSUME Clean'
      PROVE  /\ Owed' <= Has("subscribe")' + Has("resubscribe")' /\ OwedUnsub' <= Has("unsubscribe")'
             /\ \A t : ~InFlight("UNSUBSCRIBE", t)'
             /\ \A i \in Handlers : \A t : t = handlers'[i] /\ t # NoTopic => Heard(t)'
  <2>1. Clean
    BY <1>1, <1>6 DEF Clean
  <2>2. Has("subscribe") = 0 /\ Has("resubscribe") = 0 /\ Has("unsubscribe") = 1
        /\ Has("subscribe")' = 0 /\ Has("resubscribe")' = 0 /\ Has("unsubscribe")' = 0
    BY <1>2, <1>3 DEF Has
  <2>3. \A a : /\ Count(toClient, a) = Count(toClient', a) + (IF "UNSUBACK" = a THEN 1 ELSE 0)
               /\ Count(toClient', a) \in Nat /\ Count(toBroker, a) \in Nat
    BY <1>1, OwedRead
  <2>4. /\ Count(toClient, "SUBACK") = Count(toClient', "SUBACK")
        /\ Count(toClient, "UNSUBACK") = Count(toClient', "UNSUBACK") + 1
        /\ Count(toClient', "SUBACK") \in Nat /\ Count(toClient', "UNSUBACK") \in Nat
        /\ Count(toBroker, "SUBSCRIBE") \in Nat /\ Count(toBroker, "UNSUBSCRIBE") \in Nat
    BY <2>3
  <2>5. /\ Count(toBroker, "SUBSCRIBE") + Count(toClient, "SUBACK") <= 0
        /\ Count(toBroker, "UNSUBSCRIBE") + Count(toClient, "UNSUBACK") <= 1
    BY <2>1, <2>2 DEF SubInv, Answered, Owed, OwedUnsub
  <2>6. /\ Count(toBroker, "UNSUBSCRIBE") = 0 /\ Count(toClient', "UNSUBACK") = 0
        /\ Count(toBroker, "SUBSCRIBE") = 0 /\ Count(toClient', "SUBACK") = 0
    BY <2>4, <2>5
  <2>7. Owed' = 0 /\ OwedUnsub' = 0
    BY <1>1, <2>6 DEF Owed, OwedUnsub
  <2>8. \A t : ~InFlight("UNSUBSCRIBE", t)'
    <3>1. \A t : ~InFlight("UNSUBSCRIBE", t)
      BY <1>1, <2>6, NothingInFlight
    <3> QED
      BY <1>1, <3>1 DEF InFlight
  <2>9. ASSUME NEW i \in Handlers, NEW t, t = handlers'[i], t # NoTopic
        PROVE  Heard(t)'
    <3>1. t = handlers[i] /\ t # Top.topic
      BY <1>1, <2>9 DEF Removed
    <3>2. ~UnderWay("connect") /\ ~UnderWay("resubscribe")
      BY <1>2, <1>3
    <3>3. Renewed(i)
      BY <1>2 DEF Renewed
    <3>4. Heard(handlers[i])
      BY <2>1, <2>9, <3>1, <3>2, <3>3 DEF SubInv, Tracked
    <3>5. t \in subs
      BY <1>2, <1>3, <3>1, <3>4 DEF Heard
    <3> QED
      BY <1>1, <3>5 DEF Heard
  <2> QED
    BY <2>2, <2>7, <2>8, <2>9
<1> QED
  BY <1>3, <1>4, <1>5, <1>6 DEF SubInv, Answered, Tracked

\* A renewal is acknowledged: the next entry, or back to the yield.
LEMMA ResubscribeDoneSub ==
    ASSUME Inv, Inv', SubInv, ResubscribeDone
    PROVE  SubInv'
<1> USE DEF timers, netVars, bounds
<1> DEFINE j == Top.idx + 1
           p == [type |-> "SUBSCRIBE", topic |-> handlers[j]]
<1>1. /\ Typed /\ stack # <<>> /\ Top.op = "resubscribe" /\ Reads("SUBACK") /\ Len(stack) = 2 /\ Top \in Frame
      /\ Top = stack[2] /\ stack[1].op = "yield" /\ stack \in Seq(Frame)
      /\ UNCHANGED <<handlers, net, subs, mishaps>>
  <2>1. /\ Typed /\ stack # <<>> /\ Top.op = "resubscribe" /\ Reads("SUBACK")
        /\ UNCHANGED <<handlers, net, subs, mishaps>>
    BY DEF ResubscribeDone, InCall, Inv
  <2>2. Len(stack) = 2 /\ Top = stack[Len(stack)] /\ stack[Len(stack) - 1].op = "yield" /\ Top \in Frame
    BY <2>1, Inner
  <2>3. Len(stack) - 1 = 1
    BY <2>2
  <2>4. Top = stack[2] /\ stack[1].op = "yield"
    BY <2>2, <2>3, Zenon
  <2>5. stack \in Seq(Frame)
    BY <2>1 DEF Typed, CallsTyped
  <2> QED
    BY <2>1, <2>2, <2>4, <2>5
<1>2. Top.idx \in Nat /\ Top.count \in Nat /\ Top.idx \in Handlers /\ Top.count <= NumHandlers
  <2>1. Top.idx \in Handlers /\ Top.count \in 0 .. NumHandlers
    BY <1>1 DEF Frame
  <2>2. \A c \in 0 .. NumHandlers : c \in Nat /\ c <= NumHandlers
    BY HandlersFacts
  <2>3. \A i \in Handlers : i \in Nat
    BY HandlersFacts
  <2> QED
    BY <2>1, <2>2, <2>3, Zenon
<1>3. \A a : /\ Count(toClient, a) = Count(toClient', a) + (IF "SUBACK" = a THEN 1 ELSE 0)
             /\ Count(toClient', a) \in Nat /\ Count(toBroker, a) \in Nat
  BY <1>1, OwedRead
<1>4. /\ Count(toClient, "SUBACK") = Count(toClient', "SUBACK") + 1
      /\ Count(toClient, "UNSUBACK") = Count(toClient', "UNSUBACK")
      /\ Count(toClient', "SUBACK") \in Nat /\ Count(toClient', "UNSUBACK") \in Nat
      /\ Count(toBroker, "SUBSCRIBE") \in Nat /\ Count(toBroker, "UNSUBSCRIBE") \in Nat
  BY <1>3
<1>5. /\ \A o : UnderWay(o) <=> o \in {"yield", "resubscribe"}
      /\ \A t : ~Requested(t) /\ ~Cancelled(t)
      /\ \A i : Renewed(i) <=> i <= Top.idx \/ i >= Top.count
  <2>1. \A k \in 1 .. Len(stack) : k = 1 \/ k = 2
    BY <1>1
  <2>2. 1 \in 1 .. Len(stack) /\ 2 \in 1 .. Len(stack)
    BY <1>1
  <2> QED
    BY <1>1, <2>1, <2>2 DEF UnderWay, Requested, Cancelled, Renewed
<1>6. Has("subscribe") = 0 /\ Has("resubscribe") = 1 /\ Has("unsubscribe") = 0
  BY <1>5 DEF Has
<1>7. Clean => /\ Count(toBroker, "SUBSCRIBE") = 0 /\ Count(toClient', "SUBACK") = 0
               /\ Count(toBroker, "UNSUBSCRIBE") = 0 /\ Count(toClient', "UNSUBACK") = 0
               /\ \A t : ~InFlight("SUBSCRIBE", t) /\ ~InFlight("UNSUBSCRIBE", t)
               /\ \A i \in Handlers : handlers[i] # NoTopic /\ (i <= Top.idx \/ i >= Top.count) => handlers[i] \in subs
  <2> SUFFICES ASSUME Clean
               PROVE  /\ Count(toBroker, "SUBSCRIBE") = 0 /\ Count(toClient', "SUBACK") = 0
                      /\ Count(toBroker, "UNSUBSCRIBE") = 0 /\ Count(toClient', "UNSUBACK") = 0
                      /\ \A t : ~InFlight("SUBSCRIBE", t) /\ ~InFlight("UNSUBSCRIBE", t)
                      /\ \A i \in Handlers : handlers[i] # NoTopic /\ (i <= Top.idx \/ i >= Top.count) => handlers[i] \in subs
    OBVIOUS
  <2>1. /\ Count(toBroker, "SUBSCRIBE") + Count(toClient, "SUBACK") <= 0 + 1
        /\ Count(toBroker, "UNSUBSCRIBE") + Count(toClient, "UNSUBACK") <= 0
    BY <1>6 DEF SubInv, Answered, Owed, OwedUnsub
  <2>2. /\ Count(toBroker, "SUBSCRIBE") = 0 /\ Count(toClient', "SUBACK") = 0
        /\ Count(toBroker, "UNSUBSCRIBE") = 0 /\ Count(toClient', "UNSUBACK") = 0
    BY <1>4, <2>1
  <2>3. \A t : ~InFlight("SUBSCRIBE", t) /\ ~InFlight("UNSUBSCRIBE", t)
    BY <1>1, <2>2, NothingInFlight
  <2>4. \A i \in Handlers : handlers[i] # NoTopic /\ Renewed(i) => Heard(handlers[i])
    BY <1>5, <2>3 DEF SubInv, Tracked
  <2>5. \A i \in Handlers : handlers[i] # NoTopic /\ (i <= Top.idx \/ i >= Top.count) => handlers[i] \in subs
    BY <1>5, <2>4 DEF Heard
  <2> QED
    BY <2>2, <2>3, <2>5
<1>8. Fresh' /\ (Clean' => Clean)
  <2>1. state \notin Start /\ "YIELD" \notin Start
    BY <1>1, NotStart DEF Start
  <2>2. state' = "YIELD" \/ state' = state
    BY DEF ResubscribeDone
  <2>3. state' \notin Start
    BY <2>1, <2>2
  <2> QED
    BY <1>1, <2>3 DEF Clean, Fresh
<1>9. CASE j < Top.count
  <2>1. stack' = [stack EXCEPT ![2].idx = j] /\ toBroker' = Sent(p)
    BY <1>1, <1>9 DEF ResubscribeDone
  <2>2. j \in Handlers /\ handlers[j] # NoTopic
    <3>1. j \in Handlers /\ j \in 0 .. Top.count - 1
      BY <1>2, <1>9, HandlersFacts DEF Handlers
    <3>2. 2 \in 1 .. Len(stack)
      BY <1>1
    <3> QED
      BY <1>1, <3>1, <3>2 DEF Inv, Reserved
  <2>3. p \in Request /\ p.type = "SUBSCRIBE" /\ p.topic = handlers[j]
    BY <1>1, <2>2 DEF Typed, TableTyped, Request
  <2>4. /\ Len(stack') = 2 /\ stack'[1] = stack[1] /\ stack'[2].op = "resubscribe"
        /\ stack'[2].idx = j /\ stack'[2].count = Top.count
    BY <1>1, <2>1 DEF Frame
  <2> HIDE DEF p
  <2>5. /\ \A o : UnderWay(o)' <=> o \in {"yield", "resubscribe"}
        /\ \A t : ~Requested(t)' /\ ~Cancelled(t)'
        /\ \A i : Renewed(i)' <=> i <= j \/ i >= Top.count
    <3>1. \A k \in 1 .. Len(stack') : k = 1 \/ k = 2
      BY <2>4
    <3>2. 1 \in 1 .. Len(stack') /\ 2 \in 1 .. Len(stack')
      BY <2>4
    <3> QED
      BY <1>1, <2>4, <3>1, <3>2 DEF UnderWay, Requested, Cancelled, Renewed
  <2>6. Dialling'
    <3>1. \A k \in 1 .. Len(stack') : stack'[k].op # "connect"
      BY <2>5 DEF UnderWay
    <3> QED
      BY <3>1 DEF Dialling
  <2>7. ASSUME Clean'
        PROVE  /\ Owed' <= Has("subscribe")' + Has("resubscribe")' /\ OwedUnsub' <= Has("unsubscribe")'
               /\ \A t : ~InFlight("UNSUBSCRIBE", t)'
               /\ \A i \in Handlers : \A t : t = handlers'[i] /\ t # NoTopic /\ Renewed(i)' =>
                     Heard(t)' \/ InFlight("SUBSCRIBE", t)'
    <3>1. Clean /\ toBroker' = Append(toBroker, p)
      BY <1>8, <2>1, <2>7 DEF Clean, Sent
    <3>2. /\ \A a : Count(toBroker', a) = Count(toBroker, a) + (IF p.type = a THEN 1 ELSE 0)
          /\ \A a, u : InFlight(a, u)' <=> InFlight(a, u) \/ (p.type = a /\ p.topic = u)
      BY <1>1, <2>3, <3>1, OwedSend
    <3>3. Count(toBroker', "SUBSCRIBE") = 1 /\ Count(toBroker', "UNSUBSCRIBE") = 0
      BY <1>7, <2>3, <3>1, <3>2
    <3>4. Has("subscribe")' = 0 /\ Has("resubscribe")' = 1 /\ Has("unsubscribe")' = 0
      BY <2>5 DEF Has
    <3>5. Owed' = 1 /\ OwedUnsub' = 0
      BY <1>7, <3>1, <3>3 DEF Owed, OwedUnsub
    <3>6. \A t : ~InFlight("UNSUBSCRIBE", t)'
      BY <1>7, <2>3, <3>1, <3>2
    <3>7. ASSUME NEW i \in Handlers, NEW t, t = handlers'[i], t # NoTopic, Renewed(i)'
          PROVE  Heard(t)' \/ InFlight("SUBSCRIBE", t)'
      <4>1. t = handlers[i] /\ (i = j \/ i <= Top.idx \/ i >= Top.count)
        BY <1>1, <1>2, <2>5, <3>7, HandlersFacts
      <4>2. i = j => InFlight("SUBSCRIBE", t)'
        BY <2>3, <3>2, <4>1
      <4>3. i # j => t \in subs
        BY <1>7, <3>1, <3>7, <4>1
      <4> QED
        BY <1>1, <4>2, <4>3 DEF Heard
    <3> QED
      BY <3>4, <3>5, <3>6, <3>7
  <2> QED
    BY <1>8, <2>5, <2>6, <2>7 DEF SubInv, Answered, Tracked
<1>10. CASE ~(j < Top.count)
  <2>1. stack' = GoTo(Below, "next") /\ UNCHANGED toBroker
    BY <1>10 DEF ResubscribeDone
  <2>2. /\ \A o : UnderWay(o) <=> UnderWay(o)' \/ o = "resubscribe"
        /\ \A t : (Requested(t) <=> Requested(t)') /\ (Cancelled(t) <=> Cancelled(t)')
        /\ Len(stack) - 1 \in Nat /\ Keeps(Len(stack) - 1) /\ Len(stack') = Len(stack) - 1
    BY <1>1, <2>1, PopView
  <2>3. \A o : UnderWay(o)' => o = "yield"
    <3>1. \A k \in 1 .. Len(stack') : k = 1 /\ stack'[k].op = stack[k].op
      BY <1>1, <2>2 DEF Keeps, Same
    <3> QED
      BY <1>1, <3>1 DEF UnderWay
  <2>4. Dialling'
    <3>1. \A k \in 1 .. Len(stack') : stack'[k].op # "connect"
      BY <2>3 DEF UnderWay
    <3> QED
      BY <3>1 DEF Dialling
  <2>5. ASSUME Clean'
        PROVE  /\ Owed' <= Has("subscribe")' + Has("resubscribe")' /\ OwedUnsub' <= Has("unsubscribe")'
               /\ \A t : ~InFlight("UNSUBSCRIBE", t)'
               /\ \A i \in Handlers : \A t : t = handlers'[i] /\ t # NoTopic => Heard(t)'
    <3>1. Clean
      BY <1>8, <2>5
    <3>2. Has("subscribe")' = 0 /\ Has("resubscribe")' = 0 /\ Has("unsubscribe")' = 0
      BY <2>3 DEF Has
    <3>3. Owed' = 0 /\ OwedUnsub' = 0
      BY <1>7, <2>1, <3>1 DEF Owed, OwedUnsub
    <3>4. \A t : ~InFlight("UNSUBSCRIBE", t)'
      BY <1>7, <2>1, <3>1 DEF InFlight
    <3>5. \A i \in Handlers : i <= Top.idx \/ i >= Top.count
      BY <1>2, <1>10, HandlersFacts
    <3> QED
      BY <1>1, <1>7, <3>1, <3>2, <3>3, <3>4, <3>5 DEF Heard
  <2> QED
    BY <1>5, <1>8, <2>2, <2>4, <2>5 DEF SubInv, Answered, Tracked
<1> QED
  BY <1>9, <1>10

\* A call that waits for CONNACK has a connection on which nothing else was said.
LEMMA ConnectFacts ==
    ASSUME Inv, SubInv, ConnectDone
    PROVE  /\ Typed /\ stack # <<>> /\ Top.op = "connect" /\ Reads("CONNACK")
           /\ Len(stack) = 1 \/ (Len(stack) = 2 /\ stack[1].op = "yield")
           /\ Len(stack) = 1 => NoHandlers
           /\ subs = {} /\ (\A t : ~Requested(t) /\ ~Cancelled(t))
           /\ \A t : ~InFlight("SUBSCRIBE", t) /\ ~InFlight("UNSUBSCRIBE", t)
           /\ Count(toBroker, "SUBSCRIBE") = 0 /\ Count(toBroker, "UNSUBSCRIBE") = 0
           /\ Count(toClient', "SUBACK") = 0 /\ Count(toClient', "UNSUBACK") = 0
           /\ (Below = <<>>) <=> (Len(stack) = 1)
<1>1. Typed /\ stack # <<>> /\ Top.op = "connect" /\ Reads("CONNACK")
  BY DEF ConnectDone, InCall, Inv
<1>2. /\ Len(stack) \in Nat \ {0} /\ Top = stack[Len(stack)]
      /\ Len(stack) > 1 => stack[Len(stack) - 1].op = "yield" /\ Len(stack) = 2
  BY <1>1, Inner
<1>3. Len(stack) = 1 \/ (Len(stack) = 2 /\ stack[1].op = "yield")
  <2>1. Len(stack) = 1 \/ Len(stack) > 1
    <3>1. \A n \in Nat \ {0} : n = 1 \/ n > 1
      OBVIOUS
    <3> QED
      BY <1>2, <3>1, Zenon
  <2>2. ASSUME Len(stack) = 2
        PROVE  Len(stack) - 1 = 1
    BY <2>2
  <2> QED
    BY <1>2, <2>1, <2>2, Zenon
<1>4. OnlyConnects /\ (Len(stack) = 1 => NoHandlers)
  BY <1>1, <1>2 DEF SubInv, Dialling
<1>5. \A t : ~Requested(t) /\ ~Cancelled(t)
  <2>1. \A k \in 1 .. Len(stack) : k = Len(stack) \/ stack[k].op = "yield"
    <3> SUFFICES ASSUME NEW k \in 1 .. Len(stack), k # Len(stack)
                 PROVE  stack[k].op = "yield"
      OBVIOUS
    <3>1. CASE Len(stack) = 1
      BY <3>1
    <3>2. CASE Len(stack) = 2 /\ stack[1].op = "yield"
      <4>1. k = 1
        BY <3>2
      <4> QED
        BY <3>2, <4>1, Zenon
    <3> QED
      BY <1>3, <3>1, <3>2
  <2> QED
    BY <1>1, <1>2, <2>1 DEF Requested, Cancelled
<1>6. /\ toBroker \in Seq(Request) /\ toClient \in Seq(Packet)
      /\ \A i \in 1 .. Len(toBroker) : toBroker[i].type = "CONNECT"
      /\ \A i \in 1 .. Len(toClient) : toClient[i].type = "CONNACK"
  BY <1>1, <1>4 DEF OnlyConnects, Typed, NetTyped
<1>7. Count(toBroker, "SUBSCRIBE") = 0 /\ Count(toBroker, "UNSUBSCRIBE") = 0
  <2>1. \A i \in 1 .. Len(toBroker) : toBroker[i].type # "SUBSCRIBE" /\ toBroker[i].type # "UNSUBSCRIBE"
    BY <1>6
  <2> QED
    BY <1>6, <2>1, CountNone
<1>8. Count(toClient, "SUBACK") = 0 /\ Count(toClient, "UNSUBACK") = 0
  <2>1. \A i \in 1 .. Len(toClient) : toClient[i].type # "SUBACK" /\ toClient[i].type # "UNSUBACK"
    BY <1>6
  <2> QED
    BY <1>6, <2>1, CountNone
<1>9. Count(toClient', "SUBACK") = 0 /\ Count(toClient', "UNSUBACK") = 0
  <2>1. \A a : /\ Count(toClient, a) = Count(toClient', a) + (IF "CONNACK" = a THEN 1 ELSE 0)
               /\ Count(toClient', a) \in Nat
    BY <1>1, OwedRead
  <2>2. /\ Count(toClient, "SUBACK") = Count(toClient', "SUBACK") + 0 /\ Count(toClient', "SUBACK") \in Nat
        /\ Count(toClient, "UNSUBACK") = Count(toClient', "UNSUBACK") + 0 /\ Count(toClient', "UNSUBACK") \in Nat
    BY <2>1
  <2> QED
    BY <1>8, <2>2
<1>10. \A t : ~InFlight("SUBSCRIBE", t) /\ ~InFlight("UNSUBSCRIBE", t)
  BY <1>1, <1>7, NothingInFlight
<1>11. (Below = <<>>) <=> (Len(stack) = 1)
  <2>1. Below \in Seq(Frame) /\ Len(Below) = Len(stack) - 1
    BY <1>1, TopFacts
  <2> QED
    BY <1>2, <2>1
<1> QED
  BY <1>1, <1>3, <1>4, <1>5, <1>7, <1>9, <1>10, <1>11 DEF OnlyConnects

\* The table has no entry after the first free one, unless a hole is noted.
LEMMA NoHole ==
    ASSUME Inv, ConnectDone, Below # <<>>, mishaps' = {}
    PROVE  \A i \in Handlers : handlers[i] # NoTopic => i < FreeIndex
<1>1. Typed /\ ~\E i \in Handlers : i > FreeIndex /\ handlers[i] # NoTopic
  BY DEF ConnectDone, Inv
<1>2. /\ FreeIndex \in 0 .. NumHandlers
      /\ FreeIndex < NumHandlers => handlers[FreeIndex] = NoTopic
  BY <1>1, FreeIndexFacts
<1>3. \A i \in Handlers : i \in Nat /\ i < NumHandlers
  BY HandlersFacts DEF Handlers
<1>4. FreeIndex \in Nat
  BY <1>2
<1> SUFFICES ASSUME NEW i \in Handlers, handlers[i] # NoTopic
             PROVE  i < FreeIndex
  OBVIOUS
<1>5. i # FreeIndex
  BY <1>2, <1>3
<1> QED
  BY <1>1, <1>3, <1>4, <1>5

\* The connection is made and there is nothing to renew.
LEMMA ConnectedSub ==
    ASSUME Inv, SubInv, ConnectDone, Below = <<>> \/ ExistingSubs = 0
    PROVE  SubInv'
<1>1. /\ Typed /\ stack # <<>> /\ Top.op = "connect" /\ subs = {}
      /\ Len(stack) = 1 \/ (Len(stack) = 2 /\ stack[1].op = "yield")
      /\ Len(stack) = 1 => NoHandlers
      /\ \A t : ~InFlight("SUBSCRIBE", t) /\ ~InFlight("UNSUBSCRIBE", t)
      /\ Count(toBroker, "SUBSCRIBE") = 0 /\ Count(toBroker, "UNSUBSCRIBE") = 0
      /\ Count(toClient', "SUBACK") = 0 /\ Count(toClient', "UNSUBACK") = 0
      /\ (Below = <<>>) <=> (Len(stack) = 1)
      /\ \A t : ~Requested(t) /\ ~Cancelled(t)
  BY ConnectFacts
<1>2. /\ stack' = Below \/ stack' = GoTo(Below, "next")
      /\ UNCHANGED <<handlers, toBroker>> /\ state' \in {"IDLE", "YIELD"}
  BY DEF ConnectDone
<1>3. /\ \A t : (Requested(t) <=> Requested(t)' \/ (Top.op = "subscribe" /\ Top.topic = t))
             /\ (Cancelled(t) <=> Cancelled(t)' \/ (Top.op = "unsubscribe" /\ Top.topic = t))
      /\ Len(stack) - 1 \in Nat /\ Keeps(Len(stack) - 1) /\ Len(stack') = Len(stack) - 1
  BY <1>1, <1>2, PopView
<1>4. \A t : ~Requested(t)' /\ ~Cancelled(t)'
  BY <1>1, <1>3
<1>5. \A k \in 1 .. Len(stack') : stack'[k].op # "connect"
  <2>1. \A k \in 1 .. Len(stack') : k = 1 /\ stack[1].op = "yield"
    BY <1>1, <1>3
  <2>2. \A k \in 1 .. Len(stack') : stack'[k].op = stack[k].op
    BY <1>3 DEF Keeps, Same
  <2> QED
    BY <2>1, <2>2
<1>6. Dialling'
  BY <1>5 DEF Dialling
<1>7. Fresh'
  <2>1. state' \notin Start
    BY <1>2 DEF Start
  <2> QED
    BY <2>1 DEF Fresh
<1>8. Answered'
  <2>1. Owed' = 0 /\ OwedUnsub' = 0
    BY <1>1, <1>2 DEF Owed, OwedUnsub
  <2>2. Has("subscribe")' \in Nat /\ Has("resubscribe")' \in Nat /\ Has("unsubscribe")' \in Nat
    BY DEF Has
  <2> QED
    BY <2>1, <2>2 DEF Answered
<1>9. Clean' => NoHandlers
  <2>1. CASE Below = <<>>
    BY <1>1, <2>1
  <2>2. CASE Below # <<>>
    <3> SUFFICES ASSUME Clean', NEW i \in Handlers, handlers[i] # NoTopic
                 PROVE  FALSE
      BY DEF NoHandlers
    <3>1. i < FreeIndex /\ FreeIndex = 0
      BY <2>2, NoHole DEF Clean, ExistingSubs
    <3>2. i \in Nat
      BY HandlersFacts
    <3> QED
      BY <3>1, <3>2
  <2> QED
    BY <2>1, <2>2
<1>10. Tracked'
  <2>1. \A t : ~InFlight("UNSUBSCRIBE", t)'
    BY <1>1, <1>2 DEF InFlight
  <2>2. Clean' => \A i \in Handlers : handlers'[i] = NoTopic
    BY <1>2, <1>9 DEF NoHandlers
  <2> QED
    BY <1>4, <2>1, <2>2 DEF Tracked
<1> QED
  BY <1>6, <1>7, <1>8, <1>10 DEF SubInv

\* The renewal begins with the first entry; those after it are to follow.
LEMMA RenewalSub ==
    ASSUME Inv, Inv', SubInv, ConnectDone, Below # <<>>, ExistingSubs # 0
    PROVE  SubInv'
<1> DEFINE f == Call("resubscribe", NoTopic, 0, FreeIndex)
           p == [type |-> "SUBSCRIBE", topic |-> handlers[0]]
<1>1. /\ Typed /\ stack # <<>> /\ Top.op = "connect" /\ subs = {}
      /\ Len(stack) = 2 /\ stack[1].op = "yield"
      /\ \A t : ~InFlight("SUBSCRIBE", t) /\ ~InFlight("UNSUBSCRIBE", t)
      /\ Count(toBroker, "SUBSCRIBE") = 0 /\ Count(toBroker, "UNSUBSCRIBE") = 0
      /\ Count(toClient', "SUBACK") = 0 /\ Count(toClient', "UNSUBACK") = 0
  BY ConnectFacts
<1>2. /\ FreeIndex \in 1 .. NumHandlers /\ FreeIndex \in 0 .. NumHandlers
      /\ 0 \in Handlers /\ handlers[0] # NoTopic /\ handlers[0] \in Topics \cup {NoTopic}
  <2>1. /\ FreeIndex \in 0 .. NumHandlers /\ FreeIndex # 0 /\ 0 \in Handlers
        /\ \A j \in 0 .. FreeIndex - 1 : handlers[j] # NoTopic
    BY <1>1, FreeIndexFacts, HandlersFacts DEF ExistingSubs
  <2>2. 0 \in 0 .. FreeIndex - 1 /\ FreeIndex \in 1 .. NumHandlers
    BY <2>1, HandlersFacts
  <2> QED
    BY <1>1, <2>1, <2>2 DEF Typed, TableTyped
<1>3. f \in Frame /\ f.op = "resubscribe" /\ f.count = FreeIndex /\ f.idx = 0
  <2>1. "resubscribe" \in Ops /\ NoTopic \in Topics \cup {NoTopic}
    BY DEF Ops
  <2> QED
    BY <1>1, <1>2, <2>1 DEF Call, Frame, Typed, CallsTyped
<1>4. /\ stack' = Append(Below, f) /\ state' = "RESUBSCRIBE" /\ toBroker' = Sent(p)
      /\ UNCHANGED <<handlers, net, subs>>
  BY DEF ConnectDone, ExistingSubs
<1>5. p \in Request /\ p.type = "SUBSCRIBE" /\ p.topic = handlers[0]
  BY <1>2 DEF Request
<1> HIDE DEF f, p
<1>6. /\ Len(stack') = 2 /\ stack'[1].op = "yield" /\ stack'[2] = f
  <2>1. Frozen(Len(stack) - 1) /\ Grows(Len(stack) - 1, f)
    BY <1>1, <1>3, <1>4, PushesFrozen
  <2>2. Len(stack) - 1 = 1
    BY <1>1
  <2>3. Keeps(1) /\ Grows(1, f)
    BY <2>1, <2>2 DEF Frozen
  <2> QED
    BY <1>1, <2>3 DEF Keeps, Same, Grows
<1>7. /\ \A o : UnderWay(o)' <=> o \in {"yield", "resubscribe"}
      /\ \A t : ~Requested(t)' /\ ~Cancelled(t)'
      /\ \A i : Renewed(i)' <=> i <= 0 \/ i >= FreeIndex
  <2>1. \A k \in 1 .. Len(stack') : k = 1 \/ k = 2
    BY <1>6
  <2>2. 1 \in 1 .. Len(stack') /\ 2 \in 1 .. Len(stack')
    BY <1>6
  <2> QED
    BY <1>3, <1>6, <2>1, <2>2 DEF UnderWay, Requested, Cancelled, Renewed
<1>8. Dialling'
  <2>1. \A k \in 1 .. Len(stack') : stack'[k].op # "connect"
    BY <1>7 DEF UnderWay
  <2> QED
    BY <2>1 DEF Dialling
<1>9. Fresh'
  BY <1>4 DEF Fresh, Start
<1>10. ASSUME Clean'
       PROVE  /\ Owed' <= Has("subscribe")' + Has("resubscribe")' /\ OwedUnsub' <= Has("unsubscribe")'
              /\ \A t : ~InFlight("UNSUBSCRIBE", t)'
              /\ \A i \in Handlers : \A t : t = handlers'[i] /\ t # NoTopic /\ Renewed(i)' => InFlight("SUBSCRIBE", t)'
  <2>1. toBroker' = Append(toBroker, p)
    BY <1>4, <1>10 DEF Clean, Sent
  <2>2. /\ \A a : Count(toBroker', a) = Count(toBroker, a) + (IF p.type = a THEN 1 ELSE 0)
        /\ \A a, u : InFlight(a, u)' <=> InFlight(a, u) \/ (p.type = a /\ p.topic = u)
    BY <1>1, <1>5, <2>1, OwedSend
  <2>3. Count(toBroker', "SUBSCRIBE") = 1 /\ Count(toBroker', "UNSUBSCRIBE") = 0
    BY <1>1, <1>5, <2>2
  <2>4. Owed' = 1 /\ OwedUnsub' = 0
    BY <1>1, <2>3 DEF Owed, OwedUnsub
  <2>5. Has("subscribe")' = 0 /\ Has("resubscribe")' = 1 /\ Has("unsubscribe")' = 0
    BY <1>7 DEF Has
  <2>6. \A t : ~InFlight("UNSUBSCRIBE", t)'
    BY <1>1, <1>5, <2>2
  <2>7. ASSUME NEW i \in Handlers, NEW t, t = handlers'[i], t # NoTopic, Renewed(i)'
        PROVE  InFlight("SUBSCRIBE", t)'
    <3>1. i < FreeIndex
      BY <1>4, <1>10, <2>7, NoHole DEF Clean
    <3>2. i \in Nat /\ FreeIndex \in Nat
      BY <1>2, HandlersFacts
    <3>3. i = 0
      BY <1>7, <2>7, <3>1, <3>2
    <3> QED
      BY <1>4, <1>5, <2>2, <2>7, <3>3
  <2> QED
    BY <2>4, <2>5, <2>6, <2>7
<1> QED
  BY <1>7, <1>8, <1>9, <1>10 DEF SubInv, Answered, Tracked

\* The client as aws_iot_mqtt_init leaves it: nothing is subscribed or asked for.
LEMMA InitSub == Init => SubInv
<1> SUFFICES ASSUME Init
             PROVE  SubInv
  OBVIOUS
<1>1. Fresh /\ ~Clean
  BY DEF Init, Fresh, NoHandlers, Clean
<1>2. Dialling
  BY DEF Init, Dialling
<1> QED
  BY <1>1, <1>2 DEF SubInv, Answered, Tracked

\* Every step keeps it.
LEMMA NextSub == Inv /\ Inv' /\ SubInv /\ [Next]_vars => SubInv'
<1> USE DEF timers, netVars, bounds
<1> SUFFICES ASSUME Inv, Inv', SubInv, [Next]_vars
             PROVE  SubInv'
  OBVIOUS
<1>1. CASE Connect
  BY <1>1, DialSub
<1>2. CASE Yield
  BY <1>2, YieldSub
<1>3. CASE CallStep
  <2>1. CASE Reading
    <3>1. CASE ReadPingResp
      <4>1. /\ Reads("PINGRESP") /\ stack' = Goes
            /\ UNCHANGED <<state, handlers, net, toBroker, subs, mishaps>>
        BY <3>1 DEF ReadPingResp
      <4> QED
        BY <4>1, ReadsSub
    <3>2. CASE \E a \in Acks : DropAck(a)
      <4>1. PICK a \in Acks : DropAck(a)
        BY <3>2
      <4>2. /\ Reads(a) /\ stack' = Goes /\ Awaited[Top.op] # a
            /\ UNCHANGED <<state, handlers, net, toBroker, subs, mishaps>>
        BY <4>1 DEF DropAck
      <4>3. a # "CONNACK" \/ Top.op # "connect"
        BY <4>2 DEF Awaited
      <4>4. a \in {"PINGRESP", "PUBLISH", "CONNACK", "SUBACK", "UNSUBACK"}
        BY DEF Acks
      <4> QED
        BY <4>2, <4>3, <4>4, ReadsSub
    <3>3. CASE ConnectDone
      BY <3>3, ConnectedSub, RenewalSub
    <3> QED
      BY <2>1, <3>1, <3>2, <3>3, ReadPublishSub, SubscribeDoneSub, UnsubscribeDoneSub,
         ResubscribeDoneSub DEF Reading
  <2>2. CASE ConnectFails \/ RequestFails \/ ResubscribeFails \/ CallbackReturns
    BY <2>2, ConnectFailsSub, RequestFailsSub, ResubscribeFailsSub, CallbackReturnsSub
  <2>3. CASE YieldTimeIsUp \/ YieldReadFails \/ YieldGaveUp
    BY <2>3, YieldReturnsSub DEF YieldTimeIsUp, YieldReadFails, YieldGaveUp, YieldReads
  <2>4. CASE YieldReadsNothing \/ KeepAliveNotYet \/ ReconnectNotYet
    BY <2>4, YieldTurnsSub
  <2>5. CASE SendPing \/ NoticeLoss
    BY <2>5, SendPingSub, NoticeLossSub
  <2>6. CASE Reconnect
    BY <2>6, DialSub
  <2> QED
    BY <1>3, <2>1, <2>2, <2>3, <2>4, <2>5, <2>6 DEF CallStep
<1>4. CASE \E t \in Topics : Subscribe(t) \/ Unsubscribe(t) \/ Message(t)
  BY <1>4, SubscribeSub, UnsubscribeSub, MessageSub
<1>5. CASE ExpirePingTimer \/ ExpireDelayTimer \/ UNCHANGED vars
  <2>1. UNCHANGED <<state, handlers, stack, netVars, mishaps>>
    BY <1>5 DEF ExpirePingTimer, ExpireDelayTimer, vars
  <2> QED
    BY <2>1, TimersSub
<1>6. CASE Broker \/ \E l \in Losses : Lose(l)
  BY <1>6, BrokerSub, LoseSub
<1> QED
  BY <1>1, <1>2, <1>3, <1>4, <1>5, <1>6 DEF Next

(* A topic with a handler is subscribed at the broker as long as the        *)
(* connection stands (aws_iot_mqtt_attempt_reconnect renews the            *)
(* subscriptions, _aws_iot_mqtt_internal_unsubscribe and _subscribe change  *)
(* them), unless a renewal failed, the table had a hole, or the answer to   *)
(* another call may have been taken for the answer to this one.            *)
THEOREM HandlersSubscribedAlways == Spec => []HandlersSubscribed
<1>1. Inv /\ SubInv => HandlersSubscribed
  <2> SUFFICES ASSUME Inv, SubInv, IsConnected, net = "up", mishaps = {},
                      ~\E k \in 1 .. Len(stack) : stack[k].op \in {"resubscribe", "unsubscribe"},
                      NEW i \in Handlers, handlers[i] # NoTopic
               PROVE  handlers[i] \in subs
    BY DEF HandlersSubscribed
  <2>1. Clean /\ state # "CONNECTING"
    BY DEF Clean, IsConnected, Busy
  <2>2. ~UnderWay("connect")
    <3> SUFFICES ASSUME NEW k \in 1 .. Len(stack), stack[k].op = "connect"
                 PROVE  FALSE
      BY DEF UnderWay
    <3>1. k = Len(stack)
      BY DEF SubInv, Dialling
    <3>2. stack # <<>>
      BY DEF Inv, Typed, CallsTyped
    <3>3. Fits(Top.op, state, mishaps) /\ Top = stack[Len(stack)]
      BY <3>2, Inner
    <3> QED
      BY <2>1, <3>1, <3>3 DEF Fits
  <2>3. ~UnderWay("resubscribe") /\ ~Cancelled(handlers[i]) /\ Renewed(i)
    BY DEF UnderWay, Cancelled, Renewed
  <2>4. Heard(handlers[i])
    BY <2>1, <2>2, <2>3 DEF SubInv, Tracked
  <2> QED
    BY <2>3, <2>4 DEF Heard
<1>2. Spec => []SubInv
  BY InitSub, NextSub, InvHolds, PTL DEF Spec
<1> QED
  BY <1>1, <1>2, InvHolds, PTL
=============================================================================
