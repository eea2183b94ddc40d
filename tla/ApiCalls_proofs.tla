-------------------------- MODULE ApiCalls_proofs --------------------------
(***************************************************************************)
(* Proofs about the calls of the library that overlap, for any number of   *)
(* threads, devices, names and calls, and any first capacity of a vector.  *)
(***************************************************************************)
EXTENDS ApiCalls, ListFacts, FiniteSets, FiniteSetTheorems, TLAPS

\* The record of a call, and the elements of the vectors.
Pcs == {"idle", "begun", "entries", "init", "check id", "put", "count", "check"}
Results == {"none", "NOERROR", "FAILED", "CONCURRENT_API_CALL", "BUFFER_EMPTY", "EXCEEDED_LIMIT",
            "DEVICE_IN_USE", "DEVICE_NOT_CONNECTED", "TIMEOUT"}
Args == Devices \cup Responses \cup {"none", "filter"}
CallRecord == [fn : Functions \cup {"none"}, pc : Pcs, arg : Args, i : 0 .. 2, id : Nat,
               result : Results, seen : SUBSET Functions]
Element == [device : Devices \cup {"filter", "null"}, id : 0 .. MaxCalls]
Vector  == [size : Nat, count : 0 .. MaxCalls, data : [0 .. MaxCalls -> Element]]

\* What a call is given.
FitArg(f, arg) ==
    /\ f = "Open" => arg \in Devices
    /\ f = "ScanForDevices" => arg \in Responses
    /\ f = "StartMsgFilter" => arg = "filter"

CallsTyped ==
    /\ current \in Functions \cup {"none"} /\ calls \in 0 .. MaxCalls
    /\ call \in [Threads -> CallRecord]
    /\ \A t \in Threads : FitArg(call[t].fn, call[t].arg) /\ call[t].id <= calls
                          /\ (call[t].fn # "none" => call[t].id > 0)

ListTyped ==
    /\ deviceCount \in 0 .. 2 /\ deviceList \in [1 .. 2 -> Names \cup {NoName}]
    /\ psDevice \in [Threads -> Names \cup {NoName}]
    /\ got \in [Threads -> Seq(Names \cup {NoName})]

-----------------------------------------------------------------------------
(* Calls begin and go on.                                                  *)

\* What the step of one thread leaves alone of the call of another.
Kept(u) ==
    /\ call'[u].fn = call[u].fn /\ call'[u].pc = call[u].pc /\ call'[u].arg = call[u].arg
    /\ call'[u].i = call[u].i /\ call'[u].id = call[u].id /\ call'[u].result = call[u].result

Begins(t, f) ==
    /\ call' \in [Threads -> CallRecord] /\ call[t].pc = "idle"
    /\ calls < MaxCalls /\ calls' = calls + 1 /\ current' = f
    /\ call'[t].fn = f /\ call'[t].pc = "begun" /\ FitArg(f, call'[t].arg)
    /\ call'[t].i = 0 /\ call'[t].id = calls + 1 /\ call'[t].result = "none"
    /\ call'[t].seen \subseteq {f}
    /\ \A u \in Threads \ {t} :
          /\ Kept(u)
          /\ call'[u].seen = IF Active(u) THEN call[u].seen \cup {f} ELSE call[u].seen
          /\ Active(u) /\ call[u].fn = f => f \in call'[t].seen /\ f \in raced'
    /\ f \in call'[t].seen => f \in raced'
    /\ raced \subseteq raced' /\ raced' \subseteq raced \cup {f}

Moves(t) ==
    /\ call' \in [Threads -> CallRecord] /\ call[t].pc # "idle"
    /\ \A u \in Threads \ {t} : call'[u] = call[u]
    /\ call'[t].fn = call[t].fn /\ call'[t].arg = call[t].arg /\ call'[t].id = call[t].id
    /\ call'[t].seen = call[t].seen
    /\ UNCHANGED <<current, calls, raced>>

\* A call begins.
LEMMA BeginFacts ==
    ASSUME CallsTyped, NEW t \in Threads, NEW f \in Functions, NEW arg \in Args, FitArg(f, arg),
           Begin(t, f, arg)
    PROVE  /\ Begins(t, f) /\ call'[t].arg = arg
           /\ UNCHANGED <<deviceCount, deviceList, initialized, clients, filters, found, stored>>
<1> DEFINE others == {u \in Threads \ {t} : Active(u)}
           r == [fn |-> f, pc |-> "begun", arg |-> arg, i |-> 0, id |-> calls',
                 result |-> "none", seen |-> {call[v].fn : v \in others} \cap {f}]
<1>1. /\ calls \in Nat /\ calls < MaxCalls /\ calls' = calls + 1 /\ current' = f /\ call[t].pc = "idle"
      /\ call \in [Threads -> CallRecord]
  BY CallsAssumption DEF Begin, CallsTyped, Active, Entered
<1>2. r \in CallRecord
  <2> DEFINE S == {call[v].fn : v \in others} \cap {f}
  <2>1. S \in SUBSET Functions
    OBVIOUS
  <2>2. calls' \in Nat /\ 0 \in 0 .. 2
    BY <1>1
  <2>3. r = [fn |-> f, pc |-> "begun", arg |-> arg, i |-> 0, id |-> calls', result |-> "none", seen |-> S]
    OBVIOUS
  <2> HIDE DEF S, r
  <2> QED
    BY <2>1, <2>2, <2>3 DEF CallRecord, Pcs, Results
<1>3. /\ call' = [u \in Threads |->
             IF u = t THEN r
             ELSE IF u \in others THEN [call[u] EXCEPT !.seen = @ \cup {f}] ELSE call[u]]
      /\ raced' = IF \E u \in others : call[u].fn = f THEN raced \cup {f} ELSE raced
      /\ UNCHANGED <<devices, vectors, found, stored>>
  BY DEF Begin
<1>4. ASSUME NEW u \in Threads \ {t}
      PROVE  /\ call'[u] \in CallRecord /\ Kept(u)
             /\ call'[u].seen = IF Active(u) THEN call[u].seen \cup {f} ELSE call[u].seen
  <2> HIDE DEF r
  <2>1. call[u] \in CallRecord
    BY <1>1
  <2>2. CASE Active(u)
    <3>1. call'[u] = [call[u] EXCEPT !.seen = @ \cup {f}]
      BY <1>3, <2>2
    <3> QED
      BY <2>1, <2>2, <3>1 DEF CallRecord, Kept
  <2>3. CASE ~Active(u)
    BY <1>3, <2>1, <2>3 DEF Kept
  <2> QED
    BY <2>2, <2>3
<1>5. call'[t] = r
  BY <1>3
<1>6. call' \in [Threads -> CallRecord]
  <2>1. call' = [u \in Threads |-> call'[u]]
    BY <1>3
  <2> QED
    BY <1>2, <1>4, <1>5, <2>1
<1>7. /\ call'[t].fn = f /\ call'[t].pc = "begun" /\ call'[t].arg = arg
      /\ call'[t].i = 0 /\ call'[t].id = calls + 1 /\ call'[t].result = "none"
      /\ call'[t].seen = {call[v].fn : v \in others} \cap {f}
  BY <1>1, <1>5
<1>8. \A u \in Threads \ {t} : Active(u) /\ call[u].fn = f => f \in call'[t].seen /\ f \in raced'
  BY <1>3, <1>7
<1>9. f \in call'[t].seen => f \in raced'
  BY <1>3, <1>7
<1>10. raced \subseteq raced' /\ raced' \subseteq raced \cup {f}
  BY <1>3
<1> HIDE DEF others, r
<1>11. Begins(t, f)
  BY <1>1, <1>4, <1>6, <1>7, <1>8, <1>9, <1>10 DEF Begins
<1> QED
  BY <1>3, <1>7, <1>11 DEF devices, vectors

\* A call goes on in the place that is named.
LEMMA GoToFacts ==
    ASSUME CallsTyped, NEW t \in Threads, NEW p \in Pcs, Active(t), GoTo(t, p),
           UNCHANGED <<current, calls, raced>>
    PROVE  /\ Moves(t)
           /\ call'[t].pc = p /\ call'[t].i = call[t].i /\ call'[t].result = call[t].result
<1> DEFINE r == [call[t] EXCEPT !.pc = p]
<1>1. call[t] \in CallRecord /\ call \in [Threads -> CallRecord]
  BY DEF CallsTyped
<1>2. /\ r \in CallRecord /\ r.fn = call[t].fn /\ r.arg = call[t].arg /\ r.id = call[t].id
      /\ r.seen = call[t].seen /\ r.pc = p /\ r.i = call[t].i /\ r.result = call[t].result
  BY <1>1 DEF CallRecord
<1>3. call' = [call EXCEPT ![t] = r]
  BY DEF GoTo
<1> HIDE DEF r
<1> QED
  BY <1>1, <1>2, <1>3 DEF Moves, Active

\* A call has its result and is about to look whether another has begun.
LEMMA EndsFacts ==
    ASSUME CallsTyped, NEW t \in Threads, NEW x \in Results, Active(t), Ends(t, x),
           UNCHANGED <<current, calls, raced>>
    PROVE  /\ Moves(t)
           /\ call'[t].pc = "check" /\ call'[t].i = call[t].i /\ call'[t].result = x
<1> DEFINE r == [call[t] EXCEPT !.pc = "check", !.result = x]
<1>1. call[t] \in CallRecord /\ call \in [Threads -> CallRecord]
  BY DEF CallsTyped
<1>2. /\ r \in CallRecord /\ r.fn = call[t].fn /\ r.arg = call[t].arg /\ r.id = call[t].id
      /\ r.seen = call[t].seen /\ r.pc = "check" /\ r.i = call[t].i /\ r.result = x
  BY <1>1 DEF CallRecord, Pcs
<1>3. call' = [call EXCEPT ![t] = r]
  BY DEF Ends
<1> HIDE DEF r
<1> QED
  BY <1>1, <1>2, <1>3 DEF Moves, Active

\* A call returns.
LEMMA ReturnFacts ==
    ASSUME CallsTyped, NEW t \in Threads, Return(t)
    PROVE  Moves(t) /\ call'[t].pc = "idle" /\ call'[t].result = Returned(t)
<1> DEFINE r == [call[t] EXCEPT !.pc = "idle", !.result = Returned(t)]
<1>1. call[t] \in CallRecord /\ call \in [Threads -> CallRecord]
  BY DEF CallsTyped
<1>2. Returned(t) \in Results
  BY <1>1 DEF Returned, CallRecord, Results
<1>3. /\ r \in CallRecord /\ r.fn = call[t].fn /\ r.arg = call[t].arg /\ r.id = call[t].id
      /\ r.seen = call[t].seen /\ r.pc = "idle" /\ r.result = Returned(t)
  BY <1>1, <1>2 DEF CallRecord, Pcs
<1>4. call' = [call EXCEPT ![t] = r] /\ UNCHANGED <<current, calls, raced>> /\ call[t].pc = "check"
  BY DEF Return, history
<1> HIDE DEF r
<1> QED
  BY <1>1, <1>3, <1>4 DEF Moves

\* The answers of the discovery service.
LEMMA ResponseFacts ==
    ASSUME NEW r \in Responses
    PROVE  /\ Len(r) \in 0 .. 2 /\ r \in Seq(Names \cup {Bad})
           /\ \A i \in 1 .. Len(r) : r[i] \in Names \cup {Bad}
           /\ \A i, j \in 1 .. Len(r) : r[i] = r[j] => i = j
<1>1. CASE r = <<>>
  BY <1>1
<1>2. CASE \E a \in Names \cup {Bad} : r = <<a>>
  BY <1>2
<1>3. CASE r \in {s \in (Names \cup {Bad}) \X (Names \cup {Bad}) : s[1] # s[2]}
  <2>1. PICK a \in Names \cup {Bad}, b \in Names \cup {Bad} : r = <<a, b>> /\ a # b
    BY <1>3
  <2> QED
    BY <2>1
<1> QED
  BY <1>1, <1>2, <1>3 DEF Responses

\* A scan looks at an entry.
LEMMA ScanEntryFacts ==
    ASSUME CallsTyped, ListTyped, NEW t \in Threads, ScanEntry(t)
    PROVE  LET i == call[t].i + 1 IN
           /\ Moves(t) /\ i \in 1 .. 2
           /\ \/ /\ call'[t].pc = "idle" /\ call'[t].result = "FAILED"
                 /\ scan' = "bad" /\ UNCHANGED deviceList
              \/ /\ call'[t].pc = "entries" /\ call'[t].result = call[t].result /\ call'[t].i = i
                 /\ i <= Len(call[t].arg) /\ call[t].arg[i] \in Names
                 /\ deviceList' = [deviceList EXCEPT ![i] = call[t].arg[i]] /\ UNCHANGED scan
<1> DEFINE i == call[t].i + 1
           name == IF i <= Len(call[t].arg) THEN call[t].arg[i] ELSE Bad
<1>1. /\ call[t] \in CallRecord /\ call \in [Threads -> CallRecord] /\ call[t].arg \in Responses
      /\ call[t].pc = "entries" /\ call[t].i < deviceCount /\ deviceCount \in 0 .. 2
      /\ UNCHANGED <<current, calls, raced>>
  BY DEF CallsTyped, ListTyped, FitArg, ScanEntry, At
<1>2. i \in 1 .. 2 /\ i \in 0 .. 2
  BY <1>1 DEF CallRecord
<1>3. CASE name = Bad
  <2> DEFINE r == [call[t] EXCEPT !.pc = "idle", !.result = "FAILED"]
  <2>1. call' = [call EXCEPT ![t] = r] /\ scan' = "bad" /\ UNCHANGED deviceList
    BY <1>3 DEF ScanEntry
  <2>2. /\ r \in CallRecord /\ r.fn = call[t].fn /\ r.arg = call[t].arg /\ r.id = call[t].id
        /\ r.seen = call[t].seen /\ r.pc = "idle" /\ r.result = "FAILED"
    BY <1>1 DEF CallRecord, Pcs, Results
  <2> HIDE DEF r
  <2> QED
    BY <1>1, <1>2, <2>1, <2>2 DEF Moves
<1>4. CASE name # Bad
  <2> DEFINE r == [call[t] EXCEPT !.i = i]
  <2>1. call' = [call EXCEPT ![t] = r] /\ deviceList' = [deviceList EXCEPT ![i] = name] /\ UNCHANGED scan
    BY <1>4 DEF ScanEntry
  <2>2. i <= Len(call[t].arg) /\ name = call[t].arg[i] /\ name \in Names
    <3>1. \A k \in 1 .. Len(call[t].arg) : call[t].arg[k] \in Names \cup {Bad}
      BY <1>1, ResponseFacts
    <3>2. i <= Len(call[t].arg) /\ name = call[t].arg[i]
      BY <1>4
    <3>3. Len(call[t].arg) \in 0 .. 2
      BY <1>1, ResponseFacts
    <3>4. i \in 1 .. Len(call[t].arg)
      BY <1>2, <3>2, <3>3
    <3> QED
      BY <1>4, <3>1, <3>2, <3>4
  <2> HIDE DEF name, i
  <2>3. /\ r \in CallRecord /\ r.fn = call[t].fn /\ r.arg = call[t].arg /\ r.id = call[t].id
        /\ r.seen = call[t].seen /\ r.pc = call[t].pc /\ r.result = call[t].result /\ r.i = i
    BY <1>1, <1>2 DEF CallRecord
  <2> HIDE DEF r
  <2>4. Moves(t) /\ call'[t].pc = "entries" /\ call'[t].result = call[t].result /\ call'[t].i = i
    BY <1>1, <2>1, <2>3 DEF Moves
  <2> QED
    BY <1>2, <2>1, <2>2, <2>4 DEF i
<1> QED
  BY <1>3, <1>4

-----------------------------------------------------------------------------
(* The steps, by what they do to the calls.                                *)
Works(t) ==
    /\ Moves(t) /\ call'[t].pc # "idle"
    /\ call'[t].result = call[t].result \/ call'[t].result # "CONCURRENT_API_CALL"
Fails(t) == Moves(t) /\ call'[t].pc = "idle" /\ call'[t].result = "FAILED"

BeginStep(t) == BeginScan(t) \/ BeginGetNext(t) \/ BeginOther(t)
ListStep(t) == ScanCount(t) \/ ScanEntry(t) \/ ScanDone(t) \/ GetNext(t)
OpenStep(t) == OpenTests(t) \/ OpenInit(t) \/ OpenChecks(t) \/ OpenPuts(t) \/ OpenCounts(t)
FilterStep(t) == FilterChecks(t) \/ FilterPuts(t) \/ FilterCounts(t)

\* A call begins, of whichever function.
LEMMA BeginKinds ==
    ASSUME CallsTyped, NEW t \in Threads, BeginStep(t)
    PROVE  /\ BeginScan(t) => Begins(t, "ScanForDevices")
           /\ BeginGetNext(t) => Begins(t, "GetNextDevice")
           /\ BeginOther(t) => \E f \in {"Open", "StartMsgFilter", "ReadVersion"} : Begins(t, f)
           /\ \E f \in Functions : Begins(t, f)
           /\ UNCHANGED <<deviceCount, deviceList, initialized, clients, filters, found, stored>>
<1>0. Responses \subseteq Args /\ Devices \subseteq Args /\ {"none", "filter"} \subseteq Args
  BY DEF Args
<1> DEFINE Rest == UNCHANGED <<deviceCount, deviceList, initialized, clients, filters, found, stored>>
<1>1. ASSUME BeginScan(t) PROVE Begins(t, "ScanForDevices") /\ Rest
  <2>1. PICK r \in Responses : Begin(t, "ScanForDevices", r)
    BY <1>1 DEF BeginScan
  <2>2. "ScanForDevices" \in Functions /\ FitArg("ScanForDevices", r) /\ r \in Args
    BY <1>0 DEF Functions, FitArg
  <2> QED
    BY <2>1, <2>2, BeginFacts
<1>2. ASSUME BeginGetNext(t) PROVE Begins(t, "GetNextDevice") /\ Rest
  <2>1. Begin(t, "GetNextDevice", "none")
    BY <1>2 DEF BeginGetNext
  <2>2. "GetNextDevice" \in Functions /\ FitArg("GetNextDevice", "none") /\ "none" \in Args
    BY <1>0 DEF Functions, FitArg
  <2> QED
    BY <2>1, <2>2, BeginFacts
<1>3. ASSUME BeginOther(t)
      PROVE  (\E f \in {"Open", "StartMsgFilter", "ReadVersion"} : Begins(t, f)) /\ Rest
  <2> DEFINE F == {"Open", "StartMsgFilter", "ReadVersion"}
  <2>1. PICK f \in F, a \in Args : Begin(t, f, a) /\ FitArg(f, a)
    <3>1. ASSUME NEW d \in Devices, Begin(t, "Open", d)
          PROVE  \E f \in F, a \in Args : Begin(t, f, a) /\ FitArg(f, a)
      BY <1>0, <3>1 DEF FitArg
    <3>2. ASSUME Begin(t, "StartMsgFilter", "filter")
          PROVE  \E f \in F, a \in Args : Begin(t, f, a) /\ FitArg(f, a)
      BY <1>0, <3>2 DEF FitArg
    <3>3. ASSUME Begin(t, "ReadVersion", "none")
          PROVE  \E f \in F, a \in Args : Begin(t, f, a) /\ FitArg(f, a)
      BY <1>0, <3>3 DEF FitArg
    <3> QED
      BY <1>3, <3>1, <3>2, <3>3 DEF BeginOther
  <2>2. f \in Functions
    BY DEF Functions
  <2> QED
    BY <2>1, <2>2, BeginFacts
<1>4. {"ScanForDevices", "GetNextDevice", "Open", "StartMsgFilter", "ReadVersion"} \subseteq Functions
  BY DEF Functions
<1> HIDE DEF Rest
<1>5. Rest /\ \E f \in Functions : Begins(t, f)
  BY <1>1, <1>2, <1>3, <1>4 DEF BeginStep
<1> QED
  BY <1>1, <1>2, <1>3, <1>5 DEF Rest

\* A call goes on, or fails in a scan; how it returns is in ReturnFacts.
LEMMA StepKinds ==
    ASSUME CallsTyped, ListTyped, NEW t \in Threads,
           ReadVersion(t) \/ ListStep(t) \/ OpenStep(t) \/ FilterStep(t)
    PROVE  Works(t) \/ Fails(t)
<1> USE DEF Pcs, Results, Works, Active, At, history
<1>1. CASE ReadVersion(t)
  BY <1>1, EndsFacts DEF ReadVersion
<1>2. CASE ListStep(t)
  <2>1. CASE ScanCount(t)
    BY <2>1, GoToFacts DEF ScanCount
  <2>2. CASE ScanEntry(t)
    BY <2>2, ScanEntryFacts DEF Fails
  <2>3. CASE ScanDone(t)
    BY <2>3, EndsFacts DEF ScanDone
  <2>4. CASE GetNext(t)
    <3>1. /\ call[t].pc # "idle" /\ UNCHANGED <<current, calls, raced>>
          /\ Ends(t, "BUFFER_EMPTY") \/ Ends(t, "EXCEEDED_LIMIT") \/ Ends(t, "NOERROR")
      BY <2>4 DEF GetNext
    <3> QED
      BY <3>1, EndsFacts
  <2> QED
    BY <1>2, <2>1, <2>2, <2>3, <2>4 DEF ListStep
<1>3. CASE OpenStep(t)
  <2>1. CASE OpenTests(t)
    <3>1. /\ call[t].pc # "idle" /\ UNCHANGED <<current, calls, raced>>
          /\ GoTo(t, "check id") \/ GoTo(t, "init")
      BY <2>1 DEF OpenTests
    <3> QED
      BY <3>1, GoToFacts
  <2>2. CASE OpenInit(t)
    BY <2>2, GoToFacts DEF OpenInit
  <2>3. CASE OpenChecks(t)
    <3>1. /\ call[t].pc # "idle" /\ UNCHANGED <<current, calls, raced>>
          /\ Ends(t, "DEVICE_IN_USE") \/ GoTo(t, "put")
      BY <2>3 DEF OpenChecks
    <3> QED
      BY <3>1, GoToFacts, EndsFacts
  <2>4. CASE OpenPuts(t)
    BY <2>4, GoToFacts DEF OpenPuts
  <2>5. CASE OpenCounts(t)
    BY <2>5, EndsFacts DEF OpenCounts
  <2> QED
    BY <1>3, <2>1, <2>2, <2>3, <2>4, <2>5 DEF OpenStep
<1>4. CASE FilterStep(t)
  <2>1. CASE FilterChecks(t)
    <3>1. /\ call[t].pc # "idle" /\ UNCHANGED <<current, calls, raced>>
          /\ Ends(t, "EXCEEDED_LIMIT") \/ GoTo(t, "put")
      BY <2>1 DEF FilterChecks
    <3> QED
      BY <3>1, GoToFacts, EndsFacts
  <2>2. CASE FilterPuts(t)
    BY <2>2, GoToFacts DEF FilterPuts
  <2>3. CASE FilterCounts(t)
    BY <2>3, EndsFacts DEF FilterCounts
  <2> QED
    BY <1>4, <2>1, <2>2, <2>3 DEF FilterStep
<1> QED
  BY <1>1, <1>2, <1>3, <1>4

\* The calls keep their types.
LEMMA CallsTypedNext ==
    ASSUME CallsTyped, NEW t \in Threads, Moves(t) \/ \E f \in Functions : Begins(t, f)
    PROVE  CallsTyped'
<1>1. CASE Moves(t)
  BY <1>1 DEF CallsTyped, Moves
<1>2. ASSUME NEW f \in Functions, Begins(t, f)
      PROVE  CallsTyped'
  <2>1. calls \in Nat /\ calls' \in 0 .. MaxCalls /\ calls < calls'
    BY <1>2, CallsAssumption DEF CallsTyped, Begins
  <2>2. ASSUME NEW u \in Threads
        PROVE  FitArg(call'[u].fn, call'[u].arg) /\ call'[u].id <= calls'
               /\ (call'[u].fn # "none" => call'[u].id > 0)
    <3>1. CASE u = t
      BY <1>2, <2>1, <3>1 DEF Begins
    <3>2. CASE u # t
      <4>1. call[u].id \in Nat /\ call[u].id <= calls
        BY DEF CallsTyped, CallRecord
      <4>2. call'[u].fn = call[u].fn /\ call'[u].arg = call[u].arg /\ call'[u].id = call[u].id
        BY <1>2, <3>2 DEF Begins, Kept
      <4>3. call'[u].id <= calls'
        BY <2>1, <4>1, <4>2
      <4> QED
        BY <4>2, <4>3 DEF CallsTyped
    <3> QED
      BY <3>1, <3>2
  <2> QED
    BY <1>2, <2>1, <2>2 DEF CallsTyped, Begins
<1> QED
  BY <1>1, <1>2

-----------------------------------------------------------------------------
(* Overlapping calls.  While a call is under way, the number that it        *)
(* compares is its own or that of a call that it has seen begin; its own    *)
(* number comes back only with another call of its function.               *)
NumberSeen ==
    \A t \in Threads :
        /\ Active(t) => /\ current \in call[t].seen \cup {call[t].fn}
                        /\ call[t].result # "CONCURRENT_API_CALL"
        /\ Active(t) /\ Alone(t) /\ call[t].seen \ {call[t].fn} # {} => current # call[t].fn

Overlaps == NumberSeen /\ OverlapReported

\* Every step keeps it.
LEMMA OverlapsNext ==
    ASSUME CallsTyped, Overlaps, NEW t \in Threads,
           Works(t) \/ Fails(t) \/ Return(t) \/ \E f \in Functions : Begins(t, f)
    PROVE  Overlaps'
<1> USE DEF Active, Alone
<1>1. ASSUME NEW f \in Functions, Begins(t, f)
      PROVE  Overlaps'
  <2>1. NumberSeen'
    <3> SUFFICES ASSUME NEW u \in Threads, call'[u].pc # "idle"
                 PROVE  /\ f \in call'[u].seen \cup {call'[u].fn} /\ call'[u].result # "CONCURRENT_API_CALL"
                        /\ call'[u].fn \notin call'[u].seen /\ call'[u].seen \ {call'[u].fn} # {} =>
                              f # call'[u].fn
      BY <1>1 DEF NumberSeen, Begins
    <3>1. CASE u = t
      BY <1>1, <3>1 DEF Begins
    <3>2. CASE u # t
      <4>1. Kept(u) /\ call[u].pc # "idle" /\ call'[u].seen = call[u].seen \cup {f}
        BY <1>1, <3>2 DEF Begins, Kept
      <4> QED
        BY <4>1 DEF Overlaps, NumberSeen, Kept
    <3> QED
      BY <3>1, <3>2
  <2>2. OverlapReported'
    <3> SUFFICES ASSUME NEW u \in Threads, call'[u].pc = "idle", call'[u].result \notin {"none", "FAILED"}
                 PROVE  LET c == call'[u] IN
                        /\ c.result = "CONCURRENT_API_CALL" => c.seen \ {c.fn} # {}
                        /\ c.seen \ {c.fn} # {} /\ c.fn \notin c.seen => c.result = "CONCURRENT_API_CALL"
      BY DEF OverlapReported
    <3>1. u # t /\ Kept(u) /\ call[u].pc = "idle" /\ call'[u].seen = call[u].seen
      <4>1. u # t
        BY <1>1 DEF Begins
      <4> QED
        BY <1>1, <4>1 DEF Begins, Kept
    <3>2. call'[u].fn = call[u].fn /\ call'[u].result = call[u].result
      BY <3>1 DEF Kept
    <3> QED
      BY <3>1, <3>2 DEF Overlaps, OverlapReported
  <2> QED
    BY <2>1, <2>2 DEF Overlaps
<1>2. CASE Works(t) \/ Fails(t)
  <2>1. Moves(t)
    BY <1>2 DEF Works, Fails
  <2>2. NumberSeen'
    BY <1>2, <2>1 DEF Overlaps, NumberSeen, Works, Fails, Moves
  <2>3. OverlapReported'
    BY <1>2, <2>1 DEF Overlaps, OverlapReported, Works, Fails, Moves
  <2> QED
    BY <2>2, <2>3 DEF Overlaps
<1>3. CASE Return(t)
  <2>1. Moves(t) /\ call'[t].pc = "idle" /\ call'[t].result = Returned(t) /\ call[t].pc = "check"
    BY <1>3, ReturnFacts DEF Return
  <2>2. NumberSeen'
    BY <2>1 DEF Overlaps, NumberSeen, Moves
  <2>3. OverlapReported'
    BY <2>1 DEF Overlaps, NumberSeen, OverlapReported, Moves, Returned
  <2> QED
    BY <2>2, <2>3 DEF Overlaps
<1> QED
  BY <1>1, <1>2, <1>3

-----------------------------------------------------------------------------
(* The list of the devices.  A scan that runs alone has copied the entries *)
(* up to its index; after it the list is what it found, and a thread that  *)
(* began to enumerate since then holds the name that it was given last.    *)
Scanning(t) == call[t].fn = "ScanForDevices" /\ call[t].pc \in {"begun", "entries"}
Told(t, r) == call[t].fn = "GetNextDevice" /\ call[t].pc = "check" /\ call[t].result = r

Copied(t) ==
    /\ found = call[t].arg /\ deviceCount = Len(found) /\ call[t].i <= deviceCount
    /\ \A k \in 1 .. call[t].i : deviceList[k] = found[k] /\ found[k] \in Names

Listed ==
    /\ found \in Responses /\ deviceCount = Len(found)
    /\ \A k \in 1 .. deviceCount : deviceList[k] = found[k] /\ found[k] \in Names

Given(t) ==
    /\ Len(got[t]) <= deviceCount /\ \A k \in 1 .. Len(got[t]) : got[t][k] = deviceList[k]
    /\ Len(got[t]) = 0 => psDevice[t] = NoName
    /\ Len(got[t]) > 0 => psDevice[t] = deviceList[Len(got[t])]
    /\ Told(t, "EXCEEDED_LIMIT") => Len(got[t]) = deviceCount
    /\ Told(t, "BUFFER_EMPTY") => deviceCount = 0

ScanInv ==
    /\ scan \in {"none", "running", "good", "bad"} /\ fresh \subseteq Threads
    /\ scan # "good" => fresh = {}
    /\ scan \in {"none", "good"} => \A t \in Threads : ~Scanning(t)
    /\ \A t \in Threads : call[t].fn = "ScanForDevices" /\ call[t].pc = "begun" => call[t].i = 0
    /\ scan = "running" =>
          /\ \A t, u \in Threads : Scanning(t) /\ Scanning(u) => t = u
          /\ \A t \in Threads : Scanning(t) /\ call[t].pc = "entries" => Copied(t)
    /\ scan = "good" => Listed /\ \A t \in fresh : Given(t)

ListInv == ListTyped /\ ScanInv

\* A step that begins or ends no scan and no enumeration.
LEMMA ListUndisturbed ==
    ASSUME ListInv, UNCHANGED <<deviceCount, deviceList, psDevice, got, found, scan, fresh>>,
           \A u \in Threads :
              /\ Scanning(u)' => Scanning(u) /\ Kept(u)
              /\ Told(u, "EXCEEDED_LIMIT")' => Told(u, "EXCEEDED_LIMIT")
              /\ Told(u, "BUFFER_EMPTY")' => Told(u, "BUFFER_EMPTY")
    PROVE  ListInv'
<1>1. ListTyped'
  BY DEF ListInv, ListTyped
<1>2. \A u \in Threads : Scanning(u)' /\ Copied(u) => Copied(u)'
  BY DEF Copied, Kept
<1>3. \A u \in Threads : Given(u) => Given(u)'
  BY DEF Given
<1>4. Listed => Listed'
  BY DEF Listed
<1>5. ScanInv'
  <2>1. scan = "good" => Listed' /\ \A t \in fresh : Given(t)'
    BY <1>3, <1>4 DEF ListInv, ScanInv
  <2>2. \A u \in Threads : Scanning(u)' /\ call'[u].pc = "entries" => Scanning(u) /\ call[u].pc = "entries"
    BY DEF Kept
  <2>3. scan = "running" => \A u \in Threads : Scanning(u)' /\ call'[u].pc = "entries" => Copied(u)'
    BY <1>2, <2>2 DEF ListInv, ScanInv
  <2>4. \A u \in Threads : call'[u].fn = "ScanForDevices" /\ call'[u].pc = "begun" => call'[u].i = 0
    BY DEF ListInv, ScanInv, Scanning, Kept
  <2>5. /\ scan \in {"none", "good"} => \A t \in Threads : ~Scanning(t)'
        /\ scan = "running" => \A t, u \in Threads : Scanning(t)' /\ Scanning(u)' => t = u
        /\ scan \in {"none", "running", "good", "bad"} /\ fresh \subseteq Threads
        /\ scan # "good" => fresh = {}
    BY DEF ListInv, ScanInv
  <2> QED
    BY <2>1, <2>3, <2>4, <2>5 DEF ScanInv
<1> QED
  BY <1>1, <1>5 DEF ListInv

\* Another function begins, or goes on, or a call returns.
LEMMA OthersLeaveTheList ==
    ASSUME CallsTyped, ListInv, NEW t \in Threads,
           \/ BeginOther(t)
           \/ (ReadVersion(t) \/ OpenStep(t) \/ FilterStep(t)) /\ Moves(t)
           \/ Return(t)
    PROVE  ListInv'
<1>1. CASE BeginOther(t)
  <2>1. PICK f \in {"Open", "StartMsgFilter", "ReadVersion"} : Begins(t, f)
    BY <1>1, BeginKinds DEF BeginStep
  <2>2. UNCHANGED <<deviceCount, deviceList, psDevice, got, found, scan, fresh>>
    BY <1>1, BeginKinds DEF BeginStep, BeginOther
  <2>3. \A u \in Threads \ {t} : Kept(u)
    BY <2>1 DEF Begins
  <2>4. call'[t].fn \notin {"ScanForDevices", "GetNextDevice"}
    BY <2>1 DEF Begins
  <2> QED
    BY <2>2, <2>3, <2>4, ListUndisturbed DEF Scanning, Told, Kept
<1>2. CASE (ReadVersion(t) \/ OpenStep(t) \/ FilterStep(t)) /\ Moves(t)
  <2>1. call[t].fn \in {"ReadVersion", "Open", "StartMsgFilter"}
    BY <1>2 DEF At, ReadVersion, OpenStep, OpenTests, OpenInit, OpenChecks, OpenPuts, OpenCounts,
       FilterStep, FilterChecks, FilterPuts, FilterCounts
  <2>2. UNCHANGED <<deviceCount, deviceList, psDevice, got, found, scan, fresh>>
    BY <1>2 DEF history, devices, ReadVersion, OpenStep, OpenTests, OpenInit, OpenChecks, OpenPuts, OpenCounts,
       FilterStep, FilterChecks, FilterPuts, FilterCounts
  <2>3. \A u \in Threads \ {t} : call'[u] = call[u]
    BY <1>2 DEF Moves
  <2>4. call'[t].fn \notin {"ScanForDevices", "GetNextDevice"}
    BY <1>2, <2>1 DEF Moves
  <2> QED
    BY <2>2, <2>3, <2>4, ListUndisturbed DEF Scanning, Told, Kept
<1>3. CASE Return(t)
  <2>1. Moves(t) /\ call'[t].pc = "idle"
    BY <1>3, ReturnFacts
  <2>2. UNCHANGED <<deviceCount, deviceList, psDevice, got, found, scan, fresh>>
    BY <1>3 DEF Return, history, devices
  <2> QED
    BY <2>1, <2>2, ListUndisturbed DEF Scanning, Told, Kept, Moves
<1> QED
  BY <1>1, <1>2, <1>3

\* A scan begins: it is the only one, or the list may mix two.
LEMMA BeginScanKeeps ==
    ASSUME CallsTyped, ListInv, NEW t \in Threads, BeginScan(t)
    PROVE  ListInv'
<1>1. /\ Begins(t, "ScanForDevices")
      /\ UNCHANGED <<deviceCount, deviceList, found, psDevice, got>> /\ fresh' = {}
      /\ scan' = IF \E u \in Threads : Active(u) /\ call[u].fn = "ScanForDevices" THEN "bad" ELSE "running"
  BY BeginKinds DEF BeginStep, BeginScan
<1>2. ListTyped'
  BY <1>1 DEF ListInv, ListTyped
<1>3. \A u \in Threads : call'[u].fn = "ScanForDevices" /\ call'[u].pc = "begun" => call'[u].i = 0
  BY <1>1 DEF Begins, Kept, ListInv, ScanInv
<1>4. scan' = "running" => \A u \in Threads : Scanning(u)' => u = t /\ call'[u].pc = "begun"
  <2> SUFFICES ASSUME scan' = "running", NEW u \in Threads, u # t, Scanning(u)'
               PROVE  FALSE
    BY <1>1 DEF Begins
  <2>1. Kept(u)
    BY <1>1 DEF Begins
  <2>2. Active(u) /\ call[u].fn = "ScanForDevices"
    BY <2>1 DEF Kept, Scanning, Active
  <2> QED
    BY <1>1, <2>2
<1> QED
  BY <1>1, <1>2, <1>3, <1>4 DEF ListInv, ScanInv

\* A thread goes on to enumerate or starts anew.
LEMMA BeginGetNextKeeps ==
    ASSUME CallsTyped, ListInv, NEW t \in Threads, BeginGetNext(t)
    PROVE  ListInv'
<1>1. /\ Begins(t, "GetNextDevice") /\ UNCHANGED <<deviceCount, deviceList, found, scan>>
      /\ \/ /\ psDevice' = [psDevice EXCEPT ![t] = NoName]
            /\ got' = [got EXCEPT ![t] = <<>>]
            /\ fresh' = IF scan = "good" THEN fresh \cup {t} ELSE fresh \ {t}
         \/ UNCHANGED <<psDevice, got, fresh>>
  BY BeginKinds DEF BeginStep, BeginGetNext
<1>2. ListTyped'
  <2>1. psDevice' \in [Threads -> Names \cup {NoName}]
    BY <1>1 DEF ListInv, ListTyped
  <2>2. got' \in [Threads -> Seq(Names \cup {NoName})]
    <3>1. <<>> \in Seq(Names \cup {NoName})
      OBVIOUS
    <3> HIDE DEF NoName
    <3> QED
      BY <1>1, <3>1 DEF ListInv, ListTyped
  <2> QED
    BY <1>1, <2>1, <2>2 DEF ListInv, ListTyped
<1>3. \A u \in Threads : call'[u].fn = "ScanForDevices" /\ call'[u].pc # "idle" => u # t /\ Kept(u)
  BY <1>1 DEF Begins
<1>4. \A u \in Threads : Scanning(u)' => Scanning(u) /\ Kept(u)
  BY <1>3 DEF Scanning, Kept
<1>5. \A u \in Threads : Scanning(u)' /\ Copied(u) => Copied(u)'
  BY <1>1, <1>4 DEF Copied, Kept
<1>6. ASSUME scan = "good"
      PROVE  Listed' /\ \A u \in fresh' : Given(u)'
  <2>1. Listed'
    BY <1>1, <1>6 DEF ListInv, ScanInv, Listed
  <2>2. ~Told(t, "EXCEEDED_LIMIT")' /\ ~Told(t, "BUFFER_EMPTY")'
    BY <1>1 DEF Begins, Told
  <2>3. ASSUME NEW u \in fresh', u # t
        PROVE  Given(u)'
    <3>1. u \in fresh /\ Given(u) /\ u \in Threads
      BY <1>1, <1>6, <2>3 DEF ListInv, ScanInv
    <3>2. got'[u] = got[u] /\ psDevice'[u] = psDevice[u] /\ Kept(u)
      BY <1>1, <2>3, <3>1 DEF Begins, ListInv, ListTyped
    <3> QED
      BY <1>1, <3>1, <3>2 DEF Given, Told, Kept
  <2>4. ASSUME t \in fresh'
        PROVE  Given(t)'
    <3>1. CASE got' = [got EXCEPT ![t] = <<>>] /\ psDevice' = [psDevice EXCEPT ![t] = NoName]
      <4>1. got'[t] = <<>> /\ psDevice'[t] = NoName /\ deviceCount' \in Nat
        BY <1>1, <3>1 DEF ListInv, ListTyped
      <4>2. Len(got'[t]) = 0
        BY <4>1
      <4> QED
        BY <2>2, <4>1, <4>2 DEF Given
    <3>2. CASE UNCHANGED <<psDevice, got, fresh>>
      <4>1. Given(t)
        BY <1>6, <2>4, <3>2 DEF ListInv, ScanInv
      <4> QED
        BY <1>1, <2>2, <3>2, <4>1 DEF Given
    <3> QED
      BY <1>1, <3>1, <3>2
  <2> QED
    BY <2>1, <2>3, <2>4
<1>7. fresh' \subseteq Threads /\ (scan # "good" => fresh' = {})
  BY <1>1 DEF ListInv, ScanInv
<1>8. \A u \in Threads : call'[u].fn = "ScanForDevices" /\ call'[u].pc = "begun" => call'[u].i = 0
  BY <1>3 DEF ListInv, ScanInv, Kept
<1>9. scan = "running" => \A u \in Threads : Scanning(u)' /\ call'[u].pc = "entries" => Copied(u)'
  BY <1>4, <1>5 DEF ListInv, ScanInv, Kept
<1> QED
  BY <1>1, <1>2, <1>4, <1>6, <1>7, <1>8, <1>9 DEF ListInv, ScanInv

\* What the step of a scan says of the others, and of the state of the scans.
LEMMA ScanSteps ==
    ASSUME ListInv, NEW t \in Threads, Scanning(t), Moves(t)
    PROVE  /\ scan \in {"running", "bad"} /\ fresh = {}
           /\ \A u \in Threads \ {t} : Scanning(u)' => Scanning(u) /\ Kept(u)
           /\ scan = "running" => \A u \in Threads \ {t} : ~Scanning(u)'
           /\ \A u \in Threads \ {t} :
                 call'[u].fn = "ScanForDevices" /\ call'[u].pc = "begun" => call'[u].i = 0
<1>1. \A u \in Threads \ {t} : call'[u] = call[u]
  BY DEF Moves
<1>2. \A u \in Threads \ {t} : (Scanning(u)' <=> Scanning(u)) /\ Kept(u)
  BY <1>1 DEF Scanning, Kept
<1> QED
  BY <1>1, <1>2 DEF ListInv, ScanInv

\* The devices of the answer are counted.
LEMMA ScanCountKeeps ==
    ASSUME CallsTyped, ListInv, NEW t \in Threads, ScanCount(t)
    PROVE  ListInv'
<1>1. /\ Moves(t) /\ call'[t].pc = "entries" /\ call'[t].i = call[t].i /\ Scanning(t)
      /\ call[t].fn = "ScanForDevices" /\ call[t].pc = "begun"
  BY GoToFacts DEF ScanCount, Pcs, Active, At, Scanning
<1>2. /\ deviceCount' = Len(call[t].arg) /\ found' = call[t].arg
      /\ UNCHANGED <<deviceList, psDevice, got, scan, fresh>>
  BY DEF ScanCount, Counted
<1>3. call[t].arg \in Responses /\ Len(call[t].arg) \in 0 .. 2
  BY <1>1, ResponseFacts DEF CallsTyped, FitArg
<1>4. ListTyped'
  BY <1>2, <1>3 DEF ListInv, ListTyped
<1>5. Copied(t)'
  <2>1. call'[t].i = 0 /\ call'[t].arg = call[t].arg
    BY <1>1 DEF ListInv, ScanInv, Moves
  <2> QED
    BY <1>2, <1>3, <2>1 DEF Copied
<1> QED
  BY <1>1, <1>2, <1>4, <1>5, ScanSteps DEF ListInv, ScanInv

\* An entry is copied.
LEMMA ScanEntryKeeps ==
    ASSUME CallsTyped, ListInv, NEW t \in Threads, ScanEntry(t)
    PROVE  ListInv'
<1> DEFINE i == call[t].i + 1
<1>1. /\ Moves(t) /\ Scanning(t) /\ call[t].pc = "entries" /\ i \in 1 .. 2 /\ call[t].i < deviceCount
      /\ UNCHANGED <<deviceCount, psDevice, got, found, fresh>>
      /\ call[t].i \in 0 .. 2 /\ call[t].arg \in Responses /\ call[t].fn = "ScanForDevices"
  BY ScanEntryFacts DEF ScanEntry, At, Scanning, ListInv, CallsTyped, CallRecord, FitArg
<1>2. CASE call'[t].pc = "idle" /\ scan' = "bad" /\ UNCHANGED deviceList
  <2>1. ListTyped'
    BY <1>1, <1>2 DEF ListInv, ListTyped
  <2> QED
    BY <1>1, <1>2, <2>1, ScanSteps DEF ListInv, ScanInv
<1>3. CASE /\ call'[t].pc = "entries" /\ call'[t].i = i
           /\ i <= Len(call[t].arg) /\ call[t].arg[i] \in Names
           /\ deviceList' = [deviceList EXCEPT ![i] = call[t].arg[i]] /\ UNCHANGED scan
  <2>1. ListTyped'
    <3>1. deviceList' \in [1 .. 2 -> Names \cup {NoName}]
      BY <1>1, <1>3 DEF ListInv, ListTyped
    <3> QED
      BY <1>1, <3>1 DEF ListInv, ListTyped
  <2>2. scan = "running" => Copied(t)'
    <3> SUFFICES ASSUME scan = "running"
                 PROVE  Copied(t)'
      OBVIOUS
    <3>1. Copied(t)
      BY <1>1 DEF ListInv, ScanInv
    <3>2. found' = call'[t].arg /\ deviceCount' = Len(found') /\ call'[t].i = i /\ found' = call[t].arg
      BY <1>1, <1>3, <3>1 DEF Copied, Moves
    <3>3. i <= deviceCount'
      BY <1>3, <3>2
    <3>4. ASSUME NEW k \in 1 .. i
          PROVE  deviceList'[k] = found'[k] /\ found'[k] \in Names
      <4>1. CASE k = i
        BY <1>1, <1>3, <3>2, <4>1 DEF ListInv, ListTyped
      <4>2. CASE k # i
        <5>1. k \in 1 .. call[t].i /\ k \in 1 .. 2
          BY <1>1, <4>2
        <5>2. deviceList[k] = found[k] /\ found[k] \in Names
          BY <3>1, <5>1 DEF Copied
        <5> QED
          BY <1>1, <1>3, <4>2, <5>1, <5>2 DEF ListInv, ListTyped
      <4> QED
        BY <4>1, <4>2
    <3> HIDE DEF i
    <3> QED
      BY <3>2, <3>3, <3>4 DEF Copied
  <2> QED
    BY <1>1, <1>3, <2>1, <2>2, ScanSteps DEF ListInv, ScanInv
<1> QED
  BY <1>2, <1>3, ScanEntryFacts DEF ListInv

\* All entries have been copied.
LEMMA ScanDoneKeeps ==
    ASSUME CallsTyped, ListInv, NEW t \in Threads, ScanDone(t)
    PROVE  ListInv'
<1>1. /\ Moves(t) /\ call'[t].pc = "check" /\ Scanning(t) /\ call[t].pc = "entries"
      /\ call[t].i >= deviceCount
      /\ UNCHANGED <<deviceCount, deviceList, psDevice, got, found, fresh>>
      /\ scan' = IF scan = "running" THEN "good" ELSE scan
      /\ call[t].i \in 0 .. 2 /\ call[t].arg \in Responses /\ call[t].fn = "ScanForDevices"
  BY EndsFacts DEF ScanDone, Results, Active, At, Scanning, devices, CallsTyped, CallRecord, FitArg
<1>2. ListTyped'
  BY <1>1 DEF ListInv, ListTyped
<1>3. scan = "running" => Listed'
  <2> SUFFICES ASSUME scan = "running"
               PROVE  Listed'
    OBVIOUS
  <2>1. Copied(t)
    BY <1>1 DEF ListInv, ScanInv
  <2>2. call[t].i = deviceCount
    BY <1>1, <2>1 DEF Copied, ListInv, ListTyped
  <2> QED
    BY <1>1, <2>1, <2>2 DEF Copied, Listed
<1>4. ~Scanning(t)'
  BY <1>1 DEF Scanning
<1> QED
  BY <1>1, <1>2, <1>3, <1>4, ScanSteps DEF ListInv, ScanInv

\* The three ends of PassThruGetNextDevice.
LEMMA GetNextEnds ==
    ASSUME CallsTyped, ListInv, NEW t \in Threads, GetNext(t)
    PROVE  /\ Moves(t) /\ call[t].fn = "GetNextDevice" /\ call'[t].pc = "check"
           /\ UNCHANGED <<deviceCount, deviceList, found, scan, fresh>>
           /\ \/ /\ call'[t].result = "BUFFER_EMPTY" /\ UNCHANGED <<psDevice, got>>
                 /\ \/ deviceCount = 0
                    \/ /\ psDevice[t] # NoName
                       /\ \A k \in 1 .. deviceCount : deviceList[k] # psDevice[t]
              \/ /\ call'[t].result = "EXCEEDED_LIMIT" /\ UNCHANGED <<psDevice, got>>
                 /\ deviceCount > 0 /\ deviceList[deviceCount] = psDevice[t] /\ psDevice[t] # NoName
              \/ \E i \in 0 .. deviceCount - 1 :
                    /\ call'[t].result = "NOERROR"
                    /\ psDevice[t] = NoName => i = 0
                    /\ psDevice[t] # NoName => i > 0 /\ deviceList[i] = psDevice[t]
                    /\ psDevice' = [psDevice EXCEPT ![t] = deviceList[i + 1]]
                    /\ got' = [got EXCEPT ![t] = Append(@, deviceList[i + 1])]
<1> DEFINE here == {i \in 1 .. deviceCount : deviceList[i] = psDevice[t]}
           i == IF psDevice[t] = NoName THEN 0 ELSE CHOOSE k \in here : \A m \in here : k <= m
<1>1. /\ Active(t) /\ call[t].fn = "GetNextDevice"
      /\ UNCHANGED <<current, calls, raced, deviceCount, deviceList, found, scan, fresh>>
      /\ deviceCount \in 0 .. 2
  BY DEF GetNext, At, Active, devices, ListInv, ListTyped
<1>2. here # {} => (CHOOSE k \in here : \A m \in here : k <= m) \in here
  <2>1. here \in SUBSET Nat
    BY <1>1
  <2> HIDE DEF here
  <2>2. here # {} => \E x \in here : \A y \in here : x <= y
    BY <2>1, MinimumExists
  <2> QED
    BY <2>2
<1>3. psDevice[t] # NoName /\ here # {} => i \in 1 .. deviceCount /\ deviceList[i] = psDevice[t]
  BY <1>2
<1>4. psDevice[t] = NoName => i = 0
  OBVIOUS
<1>5. \/ /\ deviceCount = 0 \/ (psDevice[t] # NoName /\ here = {})
         /\ Ends(t, "BUFFER_EMPTY") /\ UNCHANGED <<psDevice, got>>
      \/ /\ deviceCount # 0 /\ psDevice[t] # NoName /\ here # {} /\ i >= deviceCount
         /\ Ends(t, "EXCEEDED_LIMIT") /\ UNCHANGED <<psDevice, got>>
      \/ /\ deviceCount # 0 /\ (psDevice[t] = NoName \/ (here # {} /\ ~(i >= deviceCount)))
         /\ Ends(t, "NOERROR")
         /\ psDevice' = [psDevice EXCEPT ![t] = deviceList[i + 1]]
         /\ got' = [got EXCEPT ![t] = Append(@, deviceList[i + 1])]
  BY DEF GetNext, LastDevice
<1> HIDE DEF i
<1>6. CASE /\ deviceCount = 0 \/ (psDevice[t] # NoName /\ here = {})
           /\ Ends(t, "BUFFER_EMPTY") /\ UNCHANGED <<psDevice, got>>
  <2>1. here = {} => \A k \in 1 .. deviceCount : deviceList[k] # psDevice[t]
    OBVIOUS
  <2>2. Moves(t) /\ call'[t].pc = "check" /\ call'[t].result = "BUFFER_EMPTY"
    BY <1>1, <1>6, EndsFacts DEF Results
  <2> QED
    BY <1>1, <1>6, <2>1, <2>2
<1> HIDE DEF here
<1>7. CASE /\ deviceCount # 0 /\ psDevice[t] # NoName /\ here # {} /\ i >= deviceCount
           /\ Ends(t, "EXCEEDED_LIMIT") /\ UNCHANGED <<psDevice, got>>
  <2>1. i = deviceCount /\ deviceCount > 0
    BY <1>1, <1>3, <1>7
  <2>2. Moves(t) /\ call'[t].pc = "check" /\ call'[t].result = "EXCEEDED_LIMIT"
    BY <1>1, <1>7, EndsFacts DEF Results
  <2> QED
    BY <1>1, <1>3, <1>7, <2>1, <2>2
<1>8. CASE /\ deviceCount # 0 /\ (psDevice[t] = NoName \/ (here # {} /\ ~(i >= deviceCount)))
           /\ Ends(t, "NOERROR")
           /\ psDevice' = [psDevice EXCEPT ![t] = deviceList[i + 1]]
           /\ got' = [got EXCEPT ![t] = Append(@, deviceList[i + 1])]
  <2>1. /\ i \in 0 .. deviceCount - 1
        /\ psDevice[t] # NoName => i > 0 /\ deviceList[i] = psDevice[t]
    BY <1>1, <1>3, <1>4, <1>8
  <2>2. Moves(t) /\ call'[t].pc = "check" /\ call'[t].result = "NOERROR"
    BY <1>1, <1>8, EndsFacts DEF Results
  <2> QED
    BY <1>1, <1>4, <1>8, <2>1, <2>2
<1> QED
  BY <1>5, <1>6, <1>7, <1>8

\* The next device is returned, which is the one after the last that was given.
LEMMA GetNextKeeps ==
    ASSUME CallsTyped, ListInv, NEW t \in Threads, GetNext(t)
    PROVE  ListInv'
<1>1. /\ Moves(t) /\ call[t].fn = "GetNextDevice" /\ call'[t].fn = "GetNextDevice" /\ call'[t].pc = "check"
      /\ UNCHANGED <<deviceCount, deviceList, found, scan, fresh>>
      /\ deviceCount \in 0 .. 2 /\ deviceList \in [1 .. 2 -> Names \cup {NoName}]
      /\ psDevice \in [Threads -> Names \cup {NoName}] /\ got \in [Threads -> Seq(Names \cup {NoName})]
  BY GetNextEnds DEF Moves, ListInv, ListTyped
<1>2. \/ UNCHANGED <<psDevice, got>>
      \/ \E i \in 0 .. deviceCount - 1 :
            /\ psDevice' = [psDevice EXCEPT ![t] = deviceList[i + 1]]
            /\ got' = [got EXCEPT ![t] = Append(@, deviceList[i + 1])]
  BY GetNextEnds
<1>3. ListTyped'
  <2>1. CASE UNCHANGED <<psDevice, got>>
    BY <1>1, <2>1 DEF ListTyped
  <2>2. CASE \E i \in 0 .. deviceCount - 1 :
            /\ psDevice' = [psDevice EXCEPT ![t] = deviceList[i + 1]]
            /\ got' = [got EXCEPT ![t] = Append(@, deviceList[i + 1])]
    <3>1. PICK i \in 0 .. deviceCount - 1 :
            /\ psDevice' = [psDevice EXCEPT ![t] = deviceList[i + 1]]
            /\ got' = [got EXCEPT ![t] = Append(@, deviceList[i + 1])]
      BY <2>2
    <3>2. i + 1 \in 1 .. 2
      BY <1>1
    <3>3. deviceList[i + 1] \in Names \cup {NoName}
      BY <1>1, <3>2
    <3>4. Append(got[t], deviceList[i + 1]) \in Seq(Names \cup {NoName})
      BY <1>1, <3>3
    <3>5. psDevice' \in [Threads -> Names \cup {NoName}]
      BY <1>1, <3>1, <3>3
    <3>6. got' \in [Threads -> Seq(Names \cup {NoName})]
      BY <1>1, <3>1, <3>4
    <3> QED
      BY <1>1, <3>5, <3>6 DEF ListTyped
  <2> QED
    BY <1>2, <2>1, <2>2
<1>4. \A u \in Threads \ {t} : call'[u] = call[u] /\ got'[u] = got[u] /\ psDevice'[u] = psDevice[u]
  BY <1>1, <1>2 DEF Moves
<1>5. \A u \in Threads : Scanning(u)' => u # t
  BY <1>1 DEF Scanning
<1>6. ASSUME scan = "good", t \in fresh
      PROVE  Given(t)'
  <2>1. Given(t) /\ Listed
    BY <1>6 DEF ListInv, ScanInv
  <2>2. /\ found \in Responses /\ deviceCount = Len(found)
        /\ \A k \in 1 .. deviceCount : deviceList[k] \in Names /\ deviceList[k] # NoName
        /\ \A j, k \in 1 .. deviceCount : deviceList[j] = deviceList[k] => j = k
    BY <2>1, ResponseFacts, CallsAssumption DEF Listed
  <2>3. Len(got[t]) \in 0 .. deviceCount /\ got[t] \in Seq(Names \cup {NoName})
    BY <1>1, <2>1 DEF Given
  <2>4. psDevice[t] # NoName => Len(got[t]) \in 1 .. deviceCount /\ psDevice[t] = deviceList[Len(got[t])]
    BY <1>1, <2>1, <2>3 DEF Given
  <2>5. psDevice[t] = NoName => Len(got[t]) = 0
    <3>1. Len(got[t]) > 0 => psDevice[t] = deviceList[Len(got[t])]
      BY <2>1 DEF Given
    <3>2. Len(got[t]) > 0 => Len(got[t]) \in 1 .. deviceCount
      BY <1>1, <2>3
    <3>3. Len(got[t]) > 0 => psDevice[t] # NoName
      BY <2>2, <3>1, <3>2, Zenon
    <3> QED
      BY <1>1, <2>3, <3>3
  <2>6. CASE call'[t].result = "BUFFER_EMPTY" /\ UNCHANGED <<psDevice, got>>
    <3>1. deviceCount = 0
      BY <2>4, <2>6, GetNextEnds
    <3> QED
      BY <1>1, <2>1, <2>6, <3>1 DEF Given, Told
  <2>7. CASE call'[t].result = "EXCEEDED_LIMIT" /\ UNCHANGED <<psDevice, got>>
    <3>1. deviceCount > 0 /\ deviceList[deviceCount] = psDevice[t] /\ psDevice[t] # NoName
      BY <2>7, GetNextEnds
    <3>2. Len(got[t]) = deviceCount
      <4>1. deviceCount \in 1 .. deviceCount /\ Len(got[t]) \in 1 .. deviceCount
        BY <1>1, <2>4, <3>1
      <4>2. deviceList[Len(got[t])] = deviceList[deviceCount]
        BY <2>4, <3>1
      <4> QED
        BY <2>2, <4>1, <4>2, Zenon
    <3> QED
      BY <1>1, <2>1, <2>7, <3>2 DEF Given, Told
  <2>8. CASE call'[t].result = "NOERROR"
    <3>1. PICK i \in 0 .. deviceCount - 1 :
                    /\ psDevice[t] = NoName => i = 0
                    /\ psDevice[t] # NoName => i > 0 /\ deviceList[i] = psDevice[t]
                    /\ psDevice' = [psDevice EXCEPT ![t] = deviceList[i + 1]]
                    /\ got' = [got EXCEPT ![t] = Append(@, deviceList[i + 1])]
      BY <2>8, GetNextEnds
    <3>2. i = Len(got[t])
      <4>1. CASE psDevice[t] = NoName
        BY <2>5, <3>1, <4>1
      <4>2. CASE psDevice[t] # NoName
        <5>1. i \in 1 .. deviceCount /\ Len(got[t]) \in 1 .. deviceCount
          BY <1>1, <2>4, <3>1, <4>2
        <5> QED
          BY <2>2, <2>4, <3>1, <4>2, <5>1
      <4> QED
        BY <4>1, <4>2
    <3>3. i + 1 \in 1 .. deviceCount /\ i + 1 \in 1 .. 2
      <4>1. i \in 0 .. deviceCount - 1 /\ deviceCount \in 0 .. 2
        BY <1>1
      <4>2. \A n \in 0 .. 2 : \A k \in 0 .. n - 1 : k + 1 \in 1 .. n /\ k + 1 \in 1 .. 2
        OBVIOUS
      <4> QED
        BY <4>1, <4>2, Zenon
    <3>4. deviceList[i + 1] \in Names \cup {NoName}
      BY <1>1, <3>3
    <3>5. /\ Len(got'[t]) = i + 1 /\ got'[t][i + 1] = deviceList[i + 1]
          /\ \A k \in 1 .. i : got'[t][k] = got[t][k]
          /\ psDevice'[t] = deviceList[i + 1]
      BY <1>1, <2>3, <3>1, <3>2, <3>4
    <3>6. \A k \in 1 .. i : got[t][k] = deviceList[k]
      BY <2>1, <3>2 DEF Given
    <3>7. \A k \in 1 .. i + 1 : got'[t][k] = deviceList[k]
      BY <3>5, <3>6
    <3> QED
      BY <1>1, <2>8, <3>3, <3>5, <3>7 DEF Given, Told
  <2> QED
    BY <2>6, <2>7, <2>8, GetNextEnds
<1>7. ASSUME NEW u \in fresh, scan = "good", u # t
      PROVE  Given(u)'
  <2>1. u \in Threads /\ Given(u)
    BY <1>7 DEF ListInv, ScanInv
  <2> QED
    BY <1>1, <1>4, <1>7, <2>1 DEF Given, Told
<1>8. \A u \in Threads : Scanning(u)' => Scanning(u) /\ Kept(u)
  BY <1>4, <1>5 DEF Scanning, Kept
<1>9. \A u \in Threads : Scanning(u)' /\ Copied(u) => Copied(u)'
  BY <1>1, <1>8 DEF Copied, Kept
<1>10. scan = "running" => \A u \in Threads : Scanning(u)' /\ call'[u].pc = "entries" => Copied(u)'
  BY <1>8, <1>9 DEF ListInv, ScanInv, Kept
<1>11. \A u \in Threads : call'[u].fn = "ScanForDevices" /\ call'[u].pc = "begun" => call'[u].i = 0
  BY <1>1, <1>4 DEF ListInv, ScanInv
<1>12. scan = "good" => Listed'
  BY <1>1 DEF ListInv, ScanInv, Listed
<1> QED
  BY <1>1, <1>3, <1>6, <1>7, <1>8, <1>10, <1>11, <1>12 DEF ListInv, ScanInv

-----------------------------------------------------------------------------
(* The vectors.  A call that overlaps no other of its function finds below *)
(* the count what it has put there, and what such calls have added before  *)
(* it; the count passes the size only if two calls overlapped.             *)

\* The vector v, to which the function f adds; kept: what calls that were
\* alone have added.
VectorInv(v, f, kept) ==
    /\ f \notin raced => v.count <= v.size
    /\ kept \subseteq Held(v) /\ (kept # {} => v.size > 0)
    /\ \A t \in Threads : At(t, f, "count") /\ Alone(t) =>
          v.data[v.count] = Elem(t) /\ v.size > 0 /\ (f \notin raced => v.count < v.size)

\* Two calls of one function that overlap have seen each other, which is noted.
Racing ==
    \A t \in Threads :
        /\ call[t].fn \in call[t].seen => call[t].fn \in raced
        /\ Active(t) => \A u \in Threads \ {t} :
              Active(u) /\ call[u].fn = call[t].fn => call[t].fn \in call[t].seen

\* The vector of the clients is initialised before anything is kept in it.
OpenInv ==
    /\ initialized = "no" => stored.clients = {}
    /\ \A t \in Threads : call[t].fn = "Open" =>
          /\ call[t].pc \in {"check id", "put", "count"} => initialized = "yes"
          /\ call[t].pc = "init" => stored.clients = {}

\* A device has one client, and none while a call that is alone opens it.
Unique ==
    "Open" \notin raced =>
        /\ \A c, d \in Held(clients) : c.device = d.device => c = d
        /\ \A t \in Threads : call[t].fn = "Open" /\ call[t].pc \in {"put", "count"} =>
              \A c \in Held(clients) : c.device # call[t].arg

\* The calls of a function that may still add an element; n have been added.
Pending(f) == {t \in Threads : Active(t) /\ call[t].fn = f /\ call[t].pc # "check"}
CountInv(n, f) == IsFiniteSet(Pending(f)) /\ n + Cardinality(Pending(f)) <= calls

ClientsInv ==
    /\ initialized \in {"yes", "no"} /\ clients \in Vector /\ OpenInv /\ Unique
    /\ VectorInv(clients, "Open", stored.clients) /\ CountInv(clients.count, "Open")

FiltersInv ==
    /\ filters \in Vector
    /\ VectorInv(filters, "StartMsgFilter", stored.filters) /\ CountInv(filters.count, "StartMsgFilter")

StoreInv ==
    /\ stored \in [clients : SUBSET Element, filters : SUBSET Element]
    /\ Racing /\ ClientsInv /\ FiltersInv

-----------------------------------------------------------------------------
(* vector_add.                                                             *)

\* The types of the fields.
LEMMA VectorFields ==
    \A v \in Vector : v.count \in Nat /\ 0 <= v.count /\ v.count <= MaxCalls /\ v.size \in Nat
BY CallsAssumption DEF Vector

\* The vector is allocated and grown.
LEMMA GrownFacts ==
    ASSUME NEW v \in Vector
    PROVE  /\ Grown(v) \in Vector /\ Grown(v).count = v.count /\ Grown(v).size > 0
           /\ v.count <= v.size => v.count < Grown(v).size
           /\ Grown(v).data = IF v.size = 0 THEN Empty.data ELSE v.data
<1> DEFINE w == Allocated(v)
<1>1. Empty.data \in [0 .. MaxCalls -> Element] /\ Capacity \in Nat /\ Capacity > 0
  BY CallsAssumption DEF Empty, Null, Element
<1>2. v.size \in Nat /\ v.count \in 0 .. MaxCalls /\ v.data \in [0 .. MaxCalls -> Element]
  BY DEF Vector
<1> HIDE DEF Empty
<1>3. /\ w \in Vector /\ w.count = v.count /\ w.size > 0
      /\ w.size = IF v.size = 0 THEN Capacity ELSE v.size
      /\ w.data = IF v.size = 0 THEN Empty.data ELSE v.data
  <2>1. CASE v.size = 0
    BY <1>1, <1>2, <2>1 DEF Vector, Allocated
  <2>2. CASE v.size # 0
    BY <1>1, <1>2, <2>2 DEF Vector, Allocated
  <2> QED
    BY <2>1, <2>2
<1>4. Grown(v) = IF w.size = w.count THEN [w EXCEPT !.size = 2 * @] ELSE w
  BY DEF Grown
<1> HIDE DEF w
<1>5. w.size \in Nat /\ w.count \in 0 .. MaxCalls
  BY <1>3 DEF Vector
<1>6. CASE w.size = w.count
  <2>1. Grown(v) = [w EXCEPT !.size = 2 * @]
    BY <1>4, <1>6
  <2>2. /\ Grown(v) \in Vector /\ Grown(v).count = w.count /\ Grown(v).size = 2 * w.size
        /\ Grown(v).data = w.data
    BY <1>3, <1>5, <2>1 DEF Vector
  <2> QED
    BY <1>2, <1>3, <1>5, <1>6, <2>2
<1>7. CASE w.size # w.count
  BY <1>1, <1>2, <1>3, <1>4, <1>5, <1>7
<1> QED
  BY <1>6, <1>7

\* The element is put behind those that are counted, of which none is lost
\* but when the vector is allocated.
LEMMA PutFacts ==
    ASSUME NEW v \in Vector, NEW e \in Element
    PROVE  /\ Put(v, e) \in Vector /\ Put(v, e).count = v.count /\ Put(v, e).size > 0
           /\ v.count <= v.size => v.count < Put(v, e).size
           /\ Put(v, e).data[v.count] = e
           /\ Held(Put(v, e)) \subseteq Held(v)
           /\ v.size > 0 => Held(Put(v, e)) = Held(v)
<1> DEFINE g == Grown(v)
           p == Put(v, e)
<1>1. /\ g \in Vector /\ g.count = v.count /\ g.size > 0
      /\ v.count <= v.size => v.count < g.size
      /\ g.data = IF v.size = 0 THEN Empty.data ELSE v.data
  BY GrownFacts
<1>2. v.size \in Nat /\ v.count \in 0 .. MaxCalls /\ v.data \in [0 .. MaxCalls -> Element]
  BY DEF Vector
<1>3. p = [g EXCEPT !.data[v.count] = e]
  BY DEF Put
<1> HIDE DEF g, p
<1>4. g.data \in [0 .. MaxCalls -> Element]
  BY <1>1 DEF Vector
<1>5. p \in Vector /\ p.count = v.count /\ p.size = g.size /\ p.data = [g.data EXCEPT ![v.count] = e]
  BY <1>1, <1>2, <1>3, <1>4 DEF Vector
<1>6. p.data[v.count] = e /\ \A i \in 0 .. v.count - 1 : p.data[i] = g.data[i]
  <2>1. \A n \in 0 .. MaxCalls : \A i \in 0 .. n - 1 : i \in 0 .. MaxCalls /\ i # n
    BY CallsAssumption
  <2>2. \A i \in 0 .. v.count - 1 : i \in 0 .. MaxCalls /\ i # v.count
    BY <1>2, <2>1, Zenon
  <2>3. p.data = [g.data EXCEPT ![v.count] = e]
    BY <1>5
  <2>4. \A d \in [0 .. MaxCalls -> Element], n \in 0 .. MaxCalls, i \in 0 .. MaxCalls :
           [d EXCEPT ![n] = e][n] = e /\ (i # n => [d EXCEPT ![n] = e][i] = d[i])
    OBVIOUS
  <2> QED
    BY <1>2, <1>4, <2>2, <2>3, <2>4, Zenon
<1>7. Held(p) = {g.data[i] : i \in 0 .. v.count - 1} \ {Null}
  BY <1>5, <1>6 DEF Held
<1>8. CASE v.size = 0
  <2>1. \A i \in 0 .. v.count - 1 : g.data[i] = Null
    <3>1. \A n \in 0 .. MaxCalls : \A i \in 0 .. n - 1 : i \in 0 .. MaxCalls
      BY CallsAssumption
    <3>2. \A i \in 0 .. MaxCalls : Empty.data[i] = Null
      BY DEF Empty
    <3>3. g.data = Empty.data
      BY <1>1, <1>8
    <3> QED
      BY <1>2, <3>1, <3>2, <3>3, Zenon
  <2>2. Held(p) = {}
    BY <1>7, <2>1
  <2> QED
    BY <1>1, <1>5, <1>6, <1>8, <2>2 DEF p
<1>9. CASE v.size # 0
  <2>1. Held(p) = Held(v)
    BY <1>1, <1>7, <1>9 DEF Held
  <2> QED
    BY <1>1, <1>5, <1>6, <2>1 DEF p
<1> QED
  BY <1>8, <1>9

\* The element that was put is counted.
LEMMA CountedFacts ==
    ASSUME NEW v \in Vector, NEW w, w = [v EXCEPT !.count = @ + 1], v.count + 1 <= MaxCalls
    PROVE  /\ w \in Vector /\ w.count = v.count + 1 /\ w.size = v.size /\ w.data = v.data
           /\ Held(v) \subseteq Held(w) /\ Held(w) \subseteq Held(v) \cup {v.data[v.count]}
           /\ v.data[v.count] # Null => v.data[v.count] \in Held(w)
<1>1. v.size \in Nat /\ v.count \in 0 .. MaxCalls /\ v.data \in [0 .. MaxCalls -> Element] /\ MaxCalls \in Nat
  BY CallsAssumption DEF Vector
<1>2. v.count + 1 \in 0 .. MaxCalls
  BY <1>1
<1>3. w \in Vector /\ w.count = v.count + 1 /\ w.size = v.size /\ w.data = v.data
  BY <1>2 DEF Vector
<1>4. 0 .. w.count - 1 = (0 .. v.count - 1) \cup {v.count}
  BY <1>1, <1>3
<1>5. Held(w) = {v.data[i] : i \in (0 .. v.count - 1) \cup {v.count}} \ {Null}
  BY <1>3, <1>4 DEF Held
<1> QED
  BY <1>3, <1>5 DEF Held

-----------------------------------------------------------------------------
(* Calls that add to a vector.                                             *)

\* Calls that overlap are seen and noted.
LEMMA RacingNext ==
    ASSUME Racing, NEW t \in Threads, Moves(t) \/ \E f \in Functions : Begins(t, f)
    PROVE  Racing'
<1> USE DEF Active
<1>1. CASE Moves(t)
  BY <1>1 DEF Racing, Moves
<1>2. ASSUME NEW f \in Functions, Begins(t, f)
      PROVE  Racing'
  <2>1. \A u \in Threads \ {t} : Kept(u) /\ call'[u].seen = IF Active(u) THEN call[u].seen \cup {f} ELSE call[u].seen
    BY <1>2 DEF Begins
  <2>2. ASSUME NEW u \in Threads
        PROVE  call'[u].fn \in call'[u].seen => call'[u].fn \in raced'
    <3>1. CASE u = t
      BY <1>2, <3>1 DEF Begins
    <3>2. CASE u # t
      <4>1. /\ call'[u].fn = call[u].fn /\ call'[u].seen \subseteq call[u].seen \cup {f}
            /\ call[u].fn \in call[u].seen => call[u].fn \in raced'
        BY <1>2, <2>1, <3>2 DEF Racing, Begins, Kept
      <4>2. Active(u) /\ call[u].fn = f => f \in raced'
        BY <1>2, <3>2 DEF Begins
      <4>3. ~Active(u) => call'[u].seen = call[u].seen
        BY <2>1, <3>2
      <4> QED
        BY <4>1, <4>2, <4>3
    <3> QED
      BY <3>1, <3>2
  <2>3. ASSUME NEW u \in Threads, NEW v \in Threads \ {u}, call'[u].pc # "idle", call'[v].pc # "idle",
               call'[v].fn = call'[u].fn
        PROVE  call'[u].fn \in call'[u].seen
    <3>1. CASE u = t
      <4>1. v \in Threads \ {t} /\ Kept(v)
        BY <2>1, <3>1
      <4> QED
        BY <1>2, <2>3, <3>1, <4>1 DEF Begins, Kept
    <3>2. CASE u # t /\ v = t
      <4>1. Kept(u) /\ call'[u].seen = IF Active(u) THEN call[u].seen \cup {f} ELSE call[u].seen
        BY <2>1, <3>2
      <4> QED
        BY <1>2, <2>3, <3>2, <4>1 DEF Begins, Kept
    <3>3. CASE u # t /\ v # t
      <4>1. Kept(u) /\ Kept(v) /\ call[u].seen \subseteq call'[u].seen
        BY <2>1, <3>3
      <4>2. call[u].fn \in call[u].seen
        BY <2>3, <4>1 DEF Racing, Kept
      <4> QED
        BY <4>1, <4>2 DEF Kept
    <3> QED
      BY <3>1, <3>2, <3>3
  <2> QED
    BY <2>2, <2>3 DEF Racing
<1> QED
  BY <1>1, <1>2

\* What VectorInv says of the next state, for the vector w and what is kept then.
VectorNext(w, f, kept) ==
    /\ f \notin raced' => w.count <= w.size
    /\ kept \subseteq Held(w) /\ (kept # {} => w.size > 0)
    /\ \A t \in Threads : call'[t].fn = f /\ call'[t].pc = "count" /\ call'[t].fn \notin call'[t].seen =>
          /\ w.data[w.count] = [device |-> call'[t].arg, id |-> call'[t].id] /\ w.size > 0
          /\ f \notin raced' => w.count < w.size

\* What the step of a thread leaves of another that is about to count its element.
LEMMA OthersAtCount ==
    ASSUME Racing, NEW t \in Threads, NEW f, NEW u \in Threads \ {t},
           Moves(t) \/ \E g \in Functions : Begins(t, g),
           call'[u].fn = f, call'[u].pc = "count", f \notin call'[u].seen
    PROVE  /\ At(u, f, "count") /\ Alone(u)
           /\ Elem(u) = [device |-> call'[u].arg, id |-> call'[u].id]
           /\ Active(t) => call[t].fn # f
<1>1. /\ call[u].fn = f /\ call[u].pc = "count" /\ f \notin call[u].seen
      /\ call[u].arg = call'[u].arg /\ call[u].id = call'[u].id
  BY DEF Moves, Begins, Kept, Active
<1> QED
  BY <1>1 DEF At, Alone, Elem, Racing, Active

\* The vector is not touched.
LEMMA VectorSame ==
    ASSUME Racing, NEW t \in Threads, NEW f, NEW v, NEW kept, VectorInv(v, f, kept),
           Moves(t) \/ \E g \in Functions : Begins(t, g),
           ~(call'[t].fn = f /\ call'[t].pc = "count")
    PROVE  VectorNext(v, f, kept)
<1>1. f \notin raced' => f \notin raced
  BY DEF Moves, Begins
<1>2. ASSUME NEW u \in Threads, call'[u].fn = f, call'[u].pc = "count", f \notin call'[u].seen
      PROVE  /\ v.data[v.count] = [device |-> call'[u].arg, id |-> call'[u].id] /\ v.size > 0
             /\ f \notin raced' => v.count < v.size
  <2>1. u # t
    BY <1>2
  <2>2. At(u, f, "count") /\ Alone(u) /\ Elem(u) = [device |-> call'[u].arg, id |-> call'[u].id]
    BY <1>2, <2>1, OthersAtCount
  <2> QED
    BY <1>1, <2>2 DEF VectorInv
<1> QED
  BY <1>1, <1>2 DEF VectorInv, VectorNext

\* An element is put into the vector.
LEMMA VectorPut ==
    ASSUME Racing, NEW t \in Threads, NEW f, NEW v \in Vector, NEW kept, VectorInv(v, f, kept),
           Moves(t), At(t, f, "put"), Elem(t) \in Element
    PROVE  VectorNext(Put(v, Elem(t)), f, kept)
<1> DEFINE w == Put(v, Elem(t))
<1>1. /\ w.count = v.count /\ w.size > 0 /\ (v.count <= v.size => v.count < w.size)
      /\ w.data[v.count] = Elem(t) /\ (v.size > 0 => Held(w) = Held(v))
      /\ w \in Vector /\ Held(w) \subseteq Held(v)
  BY PutFacts
<1> HIDE DEF w
<1>2. v.count \in Nat /\ v.size \in Nat /\ w.size \in Nat
  BY <1>1 DEF Vector
<1>3. raced' = raced /\ call'[t].arg = call[t].arg /\ call'[t].id = call[t].id
  BY DEF Moves
<1>4. kept \subseteq Held(w)
  <2>1. CASE kept = {}
    BY <2>1
  <2>2. CASE kept # {}
    BY <1>1, <2>2 DEF VectorInv
  <2> QED
    BY <2>1, <2>2
<1>5. f \notin raced' => w.count < w.size
  BY <1>1, <1>3 DEF VectorInv
<1>6. ASSUME NEW u \in Threads, call'[u].fn = f, call'[u].pc = "count", f \notin call'[u].seen
      PROVE  w.data[w.count] = [device |-> call'[u].arg, id |-> call'[u].id]
  <2>1. u = t
    BY <1>6, OthersAtCount DEF At, Active
  <2> QED
    BY <1>1, <1>3, <2>1 DEF Elem
<1> QED
  BY <1>1, <1>2, <1>4, <1>5, <1>6 DEF VectorNext, w

\* An element is counted, and kept if no call overlapped the one that adds it.
LEMMA VectorCount ==
    ASSUME Racing, NEW t \in Threads, NEW f, NEW v \in Vector, NEW kept, VectorInv(v, f, kept),
           Moves(t), At(t, f, "count"), call'[t].pc # "count", Elem(t) # Null,
           NEW w, w = [v EXCEPT !.count = @ + 1], v.count + 1 <= MaxCalls,
           NEW more, more = IF Alone(t) THEN kept \cup {Elem(t)} ELSE kept
    PROVE  VectorNext(w, f, more)
<1>1. /\ w.count = v.count + 1 /\ w.size = v.size /\ w.data = v.data /\ Held(v) \subseteq Held(w)
      /\ v.data[v.count] # Null => v.data[v.count] \in Held(w)
  BY CountedFacts
<1>2. v.count \in Nat /\ v.size \in Nat
  BY DEF Vector
<1>3. raced' = raced /\ (f \notin raced => Alone(t))
  BY DEF Moves, Racing, Alone, At
<1>4. Alone(t) => v.data[v.count] = Elem(t) /\ v.size > 0 /\ (f \notin raced => v.count < v.size)
  BY DEF VectorInv
<1>5. f \notin raced' => w.count <= w.size
  BY <1>1, <1>2, <1>3, <1>4
<1>6. more \subseteq Held(w) /\ (more # {} => w.size > 0)
  BY <1>1, <1>4 DEF VectorInv
<1>7. ASSUME NEW u \in Threads, call'[u].fn = f, call'[u].pc = "count", f \notin call'[u].seen
      PROVE  FALSE
  BY <1>7, OthersAtCount DEF At, Active
<1> QED
  BY <1>5, <1>6, <1>7 DEF VectorNext

\* The vector is made empty while nothing is kept in it.
LEMMA VectorEmptied ==
    ASSUME Racing, NEW t \in Threads, NEW f, Moves(t), At(t, f, "init"), call'[t].pc # "count"
    PROVE  VectorNext(Empty, f, {})
<1>1. Empty.count = 0 /\ Empty.size = 0
  BY DEF Empty
<1>2. ASSUME NEW u \in Threads, call'[u].fn = f, call'[u].pc = "count", f \notin call'[u].seen
      PROVE  FALSE
  BY <1>2, OthersAtCount DEF At, Active
<1> QED
  BY <1>1, <1>2 DEF VectorNext

\* At most one element for each call is counted.
LEMMA CountNext ==
    ASSUME CallsTyped, NEW t \in Threads, Moves(t) \/ \E g \in Functions : Begins(t, g),
           NEW f, NEW n \in Nat, CountInv(n, f), NEW m \in Nat,
           m <= n \/ (m = n + 1 /\ Moves(t) /\ t \in Pending(f) /\ call'[t].pc = "check"),
           Moves(t) /\ call[t].pc = "check" => call'[t].pc = "idle"
    PROVE  IsFiniteSet(Pending(f)') /\ m + Cardinality(Pending(f)') <= calls' /\ m <= MaxCalls
<1> USE DEF Active
<1>0. calls \in Nat /\ calls' \in Nat /\ MaxCalls \in Nat /\ calls <= MaxCalls /\ calls' <= MaxCalls
  <2>1. CallsTyped'
    BY CallsTypedNext
  <2> QED
    BY <2>1, CallsAssumption DEF CallsTyped
<1>1. IsFiniteSet(Pending(f)) /\ Cardinality(Pending(f)) \in Nat /\ n + Cardinality(Pending(f)) <= calls
  BY FS_CardinalityType DEF CountInv
<1>2. CASE m <= n /\ Moves(t)
  <2>1. Pending(f)' \subseteq Pending(f)
    BY <1>2 DEF Pending, Moves
  <2>2. IsFiniteSet(Pending(f)') /\ Cardinality(Pending(f)') <= Cardinality(Pending(f))
    BY <1>1, <2>1, FS_Subset
  <2>3. Cardinality(Pending(f)') \in Nat /\ calls' = calls
    BY <1>2, <2>2, FS_CardinalityType DEF Moves
  <2> QED
    BY <1>0, <1>1, <1>2, <2>2, <2>3
<1>3. CASE m <= n /\ \E g \in Functions : Begins(t, g)
  <2>1. Pending(f)' \subseteq Pending(f) \cup {t} /\ t \notin Pending(f) /\ calls' = calls + 1
    BY <1>3 DEF Pending, Begins, Kept
  <2>2. IsFiniteSet(Pending(f) \cup {t}) /\ Cardinality(Pending(f) \cup {t}) = Cardinality(Pending(f)) + 1
    BY <1>1, <2>1, FS_AddElement
  <2>3. IsFiniteSet(Pending(f)') /\ Cardinality(Pending(f)') <= Cardinality(Pending(f)) + 1
    BY <2>1, <2>2, FS_Subset
  <2>4. Cardinality(Pending(f)') \in Nat
    BY <2>3, FS_CardinalityType
  <2> QED
    BY <1>0, <1>1, <1>3, <2>1, <2>3, <2>4
<1>4. CASE m = n + 1 /\ Moves(t) /\ t \in Pending(f) /\ call'[t].pc = "check"
  <2>1. Pending(f)' \subseteq Pending(f) \ {t} /\ calls' = calls
    BY <1>4 DEF Pending, Moves
  <2>2. IsFiniteSet(Pending(f) \ {t}) /\ Cardinality(Pending(f) \ {t}) = Cardinality(Pending(f)) - 1
    BY <1>1, <1>4, FS_RemoveElement
  <2>3. IsFiniteSet(Pending(f)') /\ Cardinality(Pending(f)') <= Cardinality(Pending(f)) - 1
    BY <2>1, <2>2, FS_Subset
  <2>4. Cardinality(Pending(f)') \in Nat
    BY <2>3, FS_CardinalityType
  <2> QED
    BY <1>0, <1>1, <1>4, <2>1, <2>3, <2>4
<1> QED
  BY <1>2, <1>3, <1>4

\* The same, if no element is counted.
LEMMA CountSame ==
    ASSUME CallsTyped, NEW t \in Threads, Moves(t) \/ \E g \in Functions : Begins(t, g),
           NEW f, NEW n \in Nat, CountInv(n, f),
           Moves(t) /\ call[t].pc = "check" => call'[t].pc = "idle"
    PROVE  IsFiniteSet(Pending(f)') /\ n + Cardinality(Pending(f)') <= calls'
<1>1. n <= n
  OBVIOUS
<1> QED
  BY <1>1, CountNext, Zenon

-----------------------------------------------------------------------------
(* The steps of PassThruOpen and of PassThruStartMsgFilter.                *)

\* The vectors of the next state are as VectorNext says.
LEMMA NextVectors ==
    /\ VectorNext(clients', "Open", stored'.clients) => VectorInv(clients, "Open", stored.clients)'
    /\ VectorNext(filters', "StartMsgFilter", stored'.filters) =>
          VectorInv(filters, "StartMsgFilter", stored.filters)'
BY DEF VectorNext, VectorInv, At, Alone, Elem, Held

\* A step that leaves the vector of the clients alone.
LEMMA ClientsSame ==
    ASSUME CallsTyped, Racing, ClientsInv, NEW t \in Threads, Moves(t) \/ \E f \in Functions : Begins(t, f),
           UNCHANGED <<initialized, clients>>, stored'.clients = stored.clients,
           Moves(t) /\ call[t].pc = "check" => call'[t].pc = "idle",
           call'[t].fn = "Open" =>
              /\ call'[t].pc # "count"
              /\ call'[t].pc = "init" => initialized = "no"
              /\ call'[t].pc \in {"check id", "put"} => initialized = "yes"
              /\ call'[t].pc = "put" => ~InUse(call'[t].arg)
    PROVE  ClientsInv'
<1>1. \A u \in Threads \ {t} :
         call'[u].fn = call[u].fn /\ call'[u].pc = call[u].pc /\ call'[u].arg = call[u].arg
  BY DEF Moves, Begins, Kept
<1>2. "Open" \notin raced' => "Open" \notin raced
  BY DEF Moves, Begins
<1>3. OpenInv'
  BY <1>1 DEF ClientsInv, OpenInv
<1>4. Unique'
  <2>1. Held(clients)' = Held(clients)
    BY DEF Held
  <2>2. ASSUME NEW u \in Threads, call'[u].fn = "Open", call'[u].pc \in {"put", "count"}, "Open" \notin raced'
        PROVE  \A c \in Held(clients) : c.device # call'[u].arg
    <3>1. CASE u = t
      BY <2>2, <3>1 DEF InUse
    <3>2. CASE u # t
      BY <1>1, <1>2, <2>2, <3>2 DEF ClientsInv, Unique
    <3> QED
      BY <3>1, <3>2
  <2>3. "Open" \notin raced' => \A c, d \in Held(clients) : c.device = d.device => c = d
    BY <1>2 DEF ClientsInv, Unique
  <2> QED
    BY <2>1, <2>2, <2>3 DEF Unique
<1>5. VectorInv(clients, "Open", stored.clients)'
  <2>1. VectorInv(clients, "Open", stored.clients) /\ ~(call'[t].fn = "Open" /\ call'[t].pc = "count")
    BY DEF ClientsInv
  <2>2. VectorNext(clients, "Open", stored.clients)
    BY <2>1, VectorSame
  <2> QED
    BY <2>2, NextVectors
<1>6. CountInv(clients.count, "Open")'
  <2>1. clients \in Vector /\ CountInv(clients.count, "Open")
    BY DEF ClientsInv
  <2>2. clients.count \in Nat
    BY <2>1, VectorFields, Zenon
  <2>3. IsFiniteSet(Pending("Open")') /\ clients.count + Cardinality(Pending("Open")') <= calls'
    BY <2>1, <2>2, CountSame
  <2> QED
    BY <2>3 DEF CountInv
<1> QED
  BY <1>3, <1>4, <1>5, <1>6 DEF ClientsInv

\* A step that leaves the vector of the filters alone.
LEMMA FiltersSame ==
    ASSUME CallsTyped, Racing, FiltersInv, NEW t \in Threads, Moves(t) \/ \E f \in Functions : Begins(t, f),
           UNCHANGED filters, stored'.filters = stored.filters,
           Moves(t) /\ call[t].pc = "check" => call'[t].pc = "idle",
           ~(call'[t].fn = "StartMsgFilter" /\ call'[t].pc = "count")
    PROVE  FiltersInv'
<1>1. VectorInv(filters, "StartMsgFilter", stored.filters)'
  <2>1. VectorInv(filters, "StartMsgFilter", stored.filters)
    BY DEF FiltersInv
  <2>2. VectorNext(filters, "StartMsgFilter", stored.filters)
    BY <2>1, VectorSame
  <2> QED
    BY <2>2, NextVectors
<1>2. CountInv(filters.count, "StartMsgFilter")'
  <2>1. filters.count \in Nat /\ CountInv(filters.count, "StartMsgFilter")
    BY DEF FiltersInv, Vector
  <2>2. /\ IsFiniteSet(Pending("StartMsgFilter")')
        /\ filters.count + Cardinality(Pending("StartMsgFilter")') <= calls'
    BY <2>1, CountSame
  <2> QED
    BY <2>2 DEF CountInv
<1> QED
  BY <1>1, <1>2 DEF FiltersInv

\* The element that a call adds.
LEMMA ElemFacts ==
    ASSUME CallsTyped, NEW t \in Threads, call[t].fn \in {"Open", "StartMsgFilter"}
    PROVE  /\ Elem(t) \in Element /\ Elem(t) # Null
           /\ Elem(t).device = call[t].arg
<1>1. call[t].id \in 0 .. MaxCalls /\ call[t].id # 0
  BY CallsAssumption DEF CallsTyped, CallRecord
<1>2. call[t].arg \in Devices \cup {"filter", "null"}
  BY DEF CallsTyped, FitArg
<1> QED
  BY <1>1, <1>2 DEF Elem, Element, Null

\* The vector of the clients is initialised.
LEMMA OpenInitKeeps ==
    ASSUME CallsTyped, StoreInv, NEW t \in Threads, OpenInit(t)
    PROVE  StoreInv'
<1>1. /\ Moves(t) /\ At(t, "Open", "init") /\ call'[t].fn = "Open" /\ call'[t].pc = "check id"
      /\ clients' = Empty /\ initialized' = "yes" /\ UNCHANGED <<filters, stored>>
  <2>1. Active(t) /\ "check id" \in Pcs /\ UNCHANGED <<current, calls, raced>> /\ GoTo(t, "check id")
    BY DEF OpenInit, At, Active, Pcs, history
  <2>2. Moves(t) /\ call'[t].pc = "check id"
    BY <2>1, GoToFacts
  <2> QED
    BY <2>2 DEF OpenInit, history, Moves, At
<1>2. Racing' /\ FiltersInv'
  BY <1>1, RacingNext, FiltersSame DEF StoreInv, At
<1>3. stored.clients = {}
  BY <1>1 DEF StoreInv, ClientsInv, OpenInv, At
<1>4. Empty \in Vector /\ Empty.count = 0 /\ Held(Empty) = {}
  <2>1. Null \in Element /\ 0 \in 0 .. MaxCalls
    BY CallsAssumption DEF Null, Element
  <2>2. Empty \in Vector /\ Empty.count = 0
    BY <2>1 DEF Empty, Vector
  <2> QED
    BY <2>2 DEF Held
<1>5. OpenInv'
  BY <1>1, <1>3 DEF StoreInv, ClientsInv, OpenInv, Moves
<1>6. Unique'
  <2>1. Held(clients)' = {}
    BY <1>1, <1>4 DEF Held
  <2> QED
    BY <2>1 DEF Unique
<1>7. VectorInv(clients, "Open", stored.clients)'
  <2>1. VectorNext(Empty, "Open", {})
    BY <1>1, VectorEmptied DEF StoreInv
  <2> QED
    BY <1>1, <1>3, <2>1, NextVectors
<1>8. CountInv(clients.count, "Open")'
  <2>1. clients \in Vector /\ CountInv(clients.count, "Open")
    BY DEF StoreInv, ClientsInv
  <2>2. clients.count \in Nat
    BY <2>1, VectorFields, Zenon
  <2>3. 0 \in Nat /\ 0 <= clients.count /\ call[t].pc # "check"
    BY <1>1, <2>1, VectorFields DEF At
  <2>4. IsFiniteSet(Pending("Open")') /\ 0 + Cardinality(Pending("Open")') <= calls'
    BY <1>1, <2>1, <2>2, <2>3, CountNext
  <2>5. clients'.count = 0
    BY <1>1, <1>4
  <2> QED
    BY <2>4, <2>5 DEF CountInv
<1> QED
  BY <1>1, <1>2, <1>4, <1>5, <1>6, <1>7, <1>8 DEF StoreInv, ClientsInv

\* A client is put into the vector.
LEMMA OpenPutsKeeps ==
    ASSUME CallsTyped, StoreInv, NEW t \in Threads, OpenPuts(t)
    PROVE  StoreInv'
<1>1. /\ Moves(t) /\ At(t, "Open", "put") /\ call'[t].fn = "Open" /\ call'[t].pc = "count"
      /\ call[t].pc # "check" /\ call[t].fn = "Open" /\ call[t].pc = "put" /\ call'[t].arg = call[t].arg
      /\ clients' = Put(clients, Elem(t)) /\ UNCHANGED <<initialized, filters, stored, raced>>
  <2>1. Active(t) /\ "count" \in Pcs /\ UNCHANGED <<current, calls, raced>> /\ GoTo(t, "count")
    BY DEF OpenPuts, At, Active, Pcs, history
  <2>2. Moves(t) /\ call'[t].pc = "count"
    BY <2>1, GoToFacts
  <2> QED
    BY <2>1, <2>2 DEF OpenPuts, history, Moves, At
<1>2. Racing' /\ FiltersInv'
  BY <1>1, RacingNext, FiltersSame DEF StoreInv
<1>3. clients \in Vector /\ Elem(t) \in Element
  BY <1>1, ElemFacts DEF StoreInv, ClientsInv
<1>4. clients' \in Vector /\ clients'.count = clients.count /\ Held(clients)' \subseteq Held(clients)
  <2>1. Held(Put(clients, Elem(t))) \subseteq Held(clients)
    BY <1>3, PutFacts
  <2>2. Held(clients') = Held(clients)'
    BY DEF Held
  <2> QED
    BY <1>1, <1>3, <2>1, <2>2, PutFacts
<1>5. \A u \in Threads :
         /\ call'[u].fn = call[u].fn /\ call'[u].arg = call[u].arg
         /\ call'[u].pc = IF u = t THEN "count" ELSE call[u].pc
  BY <1>1 DEF Moves
<1>6. OpenInv'
  BY <1>1, <1>5 DEF StoreInv, ClientsInv, OpenInv
<1>7. Unique'
  <2>1. ASSUME NEW u \in Threads, call'[u].fn = "Open", call'[u].pc \in {"put", "count"}, "Open" \notin raced
        PROVE  \A c \in Held(clients) : c.device # call'[u].arg
    BY <1>1, <1>5, <2>1 DEF StoreInv, ClientsInv, Unique
  <2>2. "Open" \notin raced => \A c, d \in Held(clients) : c.device = d.device => c = d
    BY DEF StoreInv, ClientsInv, Unique
  <2> QED
    BY <1>1, <1>4, <2>1, <2>2 DEF Unique
<1>8. VectorInv(clients, "Open", stored.clients)'
  <2>1. Racing /\ VectorInv(clients, "Open", stored.clients)
    BY DEF StoreInv, ClientsInv
  <2>2. VectorNext(Put(clients, Elem(t)), "Open", stored.clients)
    BY <1>1, <1>3, <2>1, VectorPut
  <2> QED
    BY <1>1, <2>2, NextVectors
<1>9. CountInv(clients.count, "Open")'
  <2>1. clients.count \in Nat /\ CountInv(clients.count, "Open")
    BY <1>3, VectorFields DEF StoreInv, ClientsInv
  <2>2. IsFiniteSet(Pending("Open")') /\ clients.count + Cardinality(Pending("Open")') <= calls'
    BY <1>1, <2>1, CountSame
  <2> QED
    BY <1>4, <2>2 DEF CountInv
<1> QED
  BY <1>1, <1>2, <1>4, <1>6, <1>7, <1>8, <1>9 DEF StoreInv, ClientsInv

\* The client is counted.
LEMMA OpenCountsKeeps ==
    ASSUME CallsTyped, StoreInv, NEW t \in Threads, OpenCounts(t)
    PROVE  StoreInv'
<1>1. /\ Moves(t) /\ At(t, "Open", "count") /\ call'[t].fn = "Open" /\ call'[t].pc = "check"
      /\ call[t].pc # "check" /\ call[t].fn = "Open" /\ call[t].pc = "count"
      /\ clients' = [clients EXCEPT !.count = @ + 1] /\ UNCHANGED <<initialized, filters, raced>>
      /\ stored' = IF Alone(t) THEN [stored EXCEPT !.clients = @ \cup {Elem(t)}] ELSE stored
  <2>1. Active(t) /\ UNCHANGED <<current, calls, raced>> /\ \E r \in Results : Ends(t, r)
    BY DEF OpenCounts, At, Active, Results
  <2>2. Moves(t) /\ call'[t].pc = "check"
    BY <2>1, EndsFacts
  <2> QED
    BY <2>1, <2>2 DEF OpenCounts, Moves, At
<1>2. clients \in Vector /\ Elem(t) \in Element /\ Elem(t) # Null /\ Elem(t).device = call[t].arg
  BY <1>1, ElemFacts DEF StoreInv, ClientsInv
<1>3. /\ stored' \in [clients : SUBSET Element, filters : SUBSET Element]
      /\ stored'.filters = stored.filters
      /\ stored'.clients = IF Alone(t) THEN stored.clients \cup {Elem(t)} ELSE stored.clients
  <2>1. CASE Alone(t)
    BY <1>1, <1>2, <2>1 DEF StoreInv
  <2>2. CASE ~Alone(t)
    BY <1>1, <2>2 DEF StoreInv
  <2> QED
    BY <2>1, <2>2
<1>4. Racing' /\ FiltersInv'
  BY <1>1, <1>3, RacingNext, FiltersSame DEF StoreInv
<1>5. \A u \in Threads :
         /\ call'[u].fn = call[u].fn /\ call'[u].arg = call[u].arg
         /\ call'[u].pc = IF u = t THEN "check" ELSE call[u].pc
  BY <1>1 DEF Moves
<1>6. clients.count \in Nat /\ CountInv(clients.count, "Open") /\ t \in Pending("Open")
  BY <1>1, <1>2, VectorFields DEF StoreInv, ClientsInv, Pending, Active
<1>7. /\ IsFiniteSet(Pending("Open")') /\ (clients.count + 1) + Cardinality(Pending("Open")') <= calls'
      /\ clients.count + 1 <= MaxCalls
  <2>1. clients.count + 1 \in Nat
    BY <1>6
  <2> QED
    BY <1>1, <1>6, <2>1, CountNext, Zenon
<1>8. /\ clients' \in Vector /\ clients'.count = clients.count + 1
      /\ Held(clients)' \subseteq Held(clients) \cup {clients.data[clients.count]}
  <2>1. Held(clients') = Held(clients)'
    BY DEF Held
  <2>2. /\ clients' \in Vector /\ clients'.count = clients.count + 1
        /\ Held(clients') \subseteq Held(clients) \cup {clients.data[clients.count]}
    BY <1>1, <1>2, <1>7, CountedFacts
  <2> QED
    BY <2>1, <2>2
<1>9. Racing /\ VectorInv(clients, "Open", stored.clients)
  BY DEF StoreInv, ClientsInv
<1>10. VectorInv(clients, "Open", stored.clients)'
  <2>1. VectorNext(clients', "Open", stored'.clients)
    BY <1>1, <1>2, <1>3, <1>7, <1>9, VectorCount
  <2> QED
    BY <2>1, NextVectors
<1>11. \A u \in Threads \ {t} : call[u].fn = "Open" /\ Active(u) => ~Alone(t)
  BY <1>1, <1>9 DEF Racing, Active, Alone
<1>12. OpenInv'
  <2>1. initialized = "yes"
    BY <1>1 DEF StoreInv, ClientsInv, OpenInv
  <2>2. ASSUME NEW u \in Threads, call'[u].fn = "Open", call'[u].pc = "init"
        PROVE  stored'.clients = {}
    <3>1. u # t /\ Active(u) /\ call[u].fn = "Open" /\ call[u].pc = "init"
      BY <1>5, <2>2 DEF Active
    <3> QED
      BY <1>3, <1>11, <3>1 DEF StoreInv, ClientsInv, OpenInv
  <2> QED
    BY <1>1, <2>1, <2>2 DEF OpenInv
<1>13. Unique'
  <2> SUFFICES ASSUME "Open" \notin raced
               PROVE  Unique'
    BY <1>1 DEF Unique
  <2>1. Alone(t)
    BY <1>1, <1>9 DEF Racing, Alone
  <2>2. clients.data[clients.count] = Elem(t)
    BY <1>1, <1>9, <2>1 DEF VectorInv
  <2>3. \A c, d \in Held(clients) : c.device = d.device => c = d
    BY DEF StoreInv, ClientsInv, Unique
  <2>4. \A c \in Held(clients) : c.device # Elem(t).device
    BY <1>1, <1>2 DEF StoreInv, ClientsInv, Unique
  <2>5. \A u \in Threads : ~(call'[u].fn = "Open" /\ call'[u].pc \in {"put", "count"})
    BY <1>5, <1>11, <2>1 DEF Active
  <2> QED
    BY <1>8, <2>2, <2>3, <2>4, <2>5 DEF Unique
<1>14. CountInv(clients.count, "Open")'
  BY <1>7, <1>8 DEF CountInv
<1> QED
  BY <1>1, <1>3, <1>4, <1>8, <1>10, <1>12, <1>13, <1>14 DEF StoreInv, ClientsInv

\* A filter is put into the vector.
LEMMA FilterPutsKeeps ==
    ASSUME CallsTyped, StoreInv, NEW t \in Threads, FilterPuts(t)
    PROVE  StoreInv'
<1>1. /\ Moves(t) /\ At(t, "StartMsgFilter", "put") /\ call'[t].fn = "StartMsgFilter"
      /\ call[t].pc # "check" /\ call[t].fn = "StartMsgFilter"
      /\ filters' = Put(filters, Elem(t)) /\ UNCHANGED <<initialized, clients, stored>>
  <2>1. Active(t) /\ "count" \in Pcs /\ UNCHANGED <<current, calls, raced>> /\ GoTo(t, "count")
    BY DEF FilterPuts, At, Active, Pcs, history
  <2>2. Moves(t)
    BY <2>1, GoToFacts
  <2> QED
    BY <2>1, <2>2 DEF FilterPuts, history, Moves, At
<1>2. Racing' /\ ClientsInv'
  BY <1>1, RacingNext, ClientsSame DEF StoreInv
<1>3. filters \in Vector /\ Elem(t) \in Element
  BY <1>1, ElemFacts DEF StoreInv, FiltersInv
<1>4. filters' \in Vector /\ filters'.count = filters.count
  BY <1>1, <1>3, PutFacts
<1>5. VectorInv(filters, "StartMsgFilter", stored.filters)'
  <2>1. Racing /\ VectorInv(filters, "StartMsgFilter", stored.filters)
    BY DEF StoreInv, FiltersInv
  <2>2. VectorNext(Put(filters, Elem(t)), "StartMsgFilter", stored.filters)
    BY <1>1, <1>3, <2>1, VectorPut
  <2> QED
    BY <1>1, <2>2, NextVectors
<1>6. CountInv(filters.count, "StartMsgFilter")'
  <2>1. filters.count \in Nat /\ CountInv(filters.count, "StartMsgFilter")
    BY <1>3, VectorFields DEF StoreInv, FiltersInv
  <2>2. /\ IsFiniteSet(Pending("StartMsgFilter")')
        /\ filters.count + Cardinality(Pending("StartMsgFilter")') <= calls'
    BY <1>1, <2>1, CountSame
  <2> QED
    BY <1>4, <2>2 DEF CountInv
<1> QED
  BY <1>1, <1>2, <1>4, <1>5, <1>6 DEF StoreInv, FiltersInv

\* The filter is counted.
LEMMA FilterCountsKeeps ==
    ASSUME CallsTyped, StoreInv, NEW t \in Threads, FilterCounts(t)
    PROVE  StoreInv'
<1>1. /\ Moves(t) /\ At(t, "StartMsgFilter", "count") /\ call'[t].fn = "StartMsgFilter"
      /\ call'[t].pc = "check" /\ call[t].fn = "StartMsgFilter" /\ call[t].pc = "count"
      /\ filters' = [filters EXCEPT !.count = @ + 1] /\ UNCHANGED <<initialized, clients>>
      /\ stored' = IF Alone(t) THEN [stored EXCEPT !.filters = @ \cup {Elem(t)}] ELSE stored
  <2>1. Active(t) /\ UNCHANGED <<current, calls, raced>> /\ \E r \in Results : Ends(t, r)
    BY DEF FilterCounts, At, Active, Results
  <2>2. Moves(t) /\ call'[t].pc = "check"
    BY <2>1, EndsFacts
  <2> QED
    BY <2>1, <2>2 DEF FilterCounts, Moves, At
<1>2. filters \in Vector /\ Elem(t) \in Element /\ Elem(t) # Null
  BY <1>1, ElemFacts DEF StoreInv, FiltersInv
<1>3. /\ stored' \in [clients : SUBSET Element, filters : SUBSET Element]
      /\ stored'.clients = stored.clients
      /\ stored'.filters = IF Alone(t) THEN stored.filters \cup {Elem(t)} ELSE stored.filters
  <2>1. CASE Alone(t)
    BY <1>1, <1>2, <2>1 DEF StoreInv
  <2>2. CASE ~Alone(t)
    BY <1>1, <2>2 DEF StoreInv
  <2> QED
    BY <2>1, <2>2
<1>4. Racing' /\ ClientsInv'
  BY <1>1, <1>3, RacingNext, ClientsSame DEF StoreInv
<1>5. /\ filters.count \in Nat /\ CountInv(filters.count, "StartMsgFilter")
      /\ t \in Pending("StartMsgFilter")
  BY <1>1, <1>2, VectorFields DEF StoreInv, FiltersInv, Pending, Active
<1>6. /\ IsFiniteSet(Pending("StartMsgFilter")')
      /\ (filters.count + 1) + Cardinality(Pending("StartMsgFilter")') <= calls'
      /\ filters.count + 1 <= MaxCalls
  <2>1. filters.count + 1 \in Nat /\ call[t].pc # "check"
    BY <1>1, <1>5
  <2> QED
    BY <1>1, <1>5, <2>1, CountNext, Zenon
<1>7. filters' \in Vector /\ filters'.count = filters.count + 1
  BY <1>1, <1>2, <1>6, CountedFacts
<1>8. VectorInv(filters, "StartMsgFilter", stored.filters)'
  <2>1. Racing /\ VectorInv(filters, "StartMsgFilter", stored.filters)
    BY DEF StoreInv, FiltersInv
  <2>2. VectorNext(filters', "StartMsgFilter", stored'.filters)
    BY <1>1, <1>2, <1>3, <1>6, <2>1, VectorCount
  <2> QED
    BY <2>2, NextVectors
<1>9. CountInv(filters.count, "StartMsgFilter")'
  BY <1>6, <1>7 DEF CountInv
<1> QED
  BY <1>3, <1>4, <1>7, <1>8, <1>9 DEF StoreInv, FiltersInv

\* The steps that add nothing to a vector.
LEMMA OthersKeepStore ==
    ASSUME CallsTyped, ListTyped, StoreInv, NEW t \in Threads,
           \/ BeginStep(t) \/ Return(t) \/ ReadVersion(t) \/ ListStep(t)
           \/ OpenTests(t) \/ OpenChecks(t) \/ FilterChecks(t)
    PROVE  StoreInv'
<1>1. \/ \E f \in Functions : Begins(t, f)
      \/ Moves(t)
  BY BeginKinds, ReturnFacts, StepKinds DEF Works, Fails, OpenStep, FilterStep
<1>2. UNCHANGED <<initialized, clients, filters, stored>>
  <2>1. CASE BeginStep(t)
    BY <2>1, BeginKinds
  <2>2. CASE Return(t) \/ ReadVersion(t) \/ OpenTests(t) \/ OpenChecks(t) \/ FilterChecks(t)
    BY <2>2 DEF Return, ReadVersion, OpenTests, OpenChecks, FilterChecks, vectors, history
  <2>3. CASE ListStep(t)
    BY <2>3 DEF ListStep, ScanCount, ScanEntry, ScanDone, GetNext, vectors
  <2> QED
    BY <2>1, <2>2, <2>3
<1>3. /\ call[t].pc = "check" /\ Moves(t) => call'[t].pc = "idle"
      /\ ~(call'[t].fn = "StartMsgFilter" /\ call'[t].pc = "count")
      /\ call'[t].fn = "Open" =>
            /\ call'[t].pc # "count"
            /\ call'[t].pc = "init" => initialized = "no"
            /\ call'[t].pc \in {"check id", "put"} => initialized = "yes"
            /\ call'[t].pc = "put" => ~InUse(call'[t].arg)
  <2>1. CASE BeginStep(t)
    BY <2>1, BeginKinds DEF Begins, Moves
  <2>2. CASE Return(t)
    BY <2>2, ReturnFacts
  <2>3. CASE ReadVersion(t) \/ ListStep(t)
    <3>1. Moves(t)
      BY <2>3, StepKinds DEF Works, Fails
    <3>2. call[t].fn \in {"ReadVersion", "ScanForDevices", "GetNextDevice"} /\ call[t].pc # "check"
      BY <2>3 DEF ReadVersion, ListStep, ScanCount, ScanEntry, ScanDone, GetNext, At
    <3> QED
      BY <3>1, <3>2 DEF Moves
  <2>4. CASE OpenTests(t)
    <3>1. /\ call[t].pc = "begun" /\ UNCHANGED <<current, calls, raced>>
          /\ \/ GoTo(t, "check id") /\ initialized = "yes"
             \/ GoTo(t, "init") /\ initialized # "yes"
      BY <2>4 DEF OpenTests, At, history
    <3>2. initialized \in {"yes", "no"}
      BY DEF StoreInv, ClientsInv
    <3>3. \/ call'[t].pc = "check id" /\ initialized = "yes"
          \/ call'[t].pc = "init" /\ initialized = "no"
      BY <3>1, <3>2, GoToFacts DEF Pcs, Active
    <3>4. call[t].pc # "check" /\ call'[t].pc # "count" /\ call'[t].pc # "put"
      BY <3>1, <3>3
    <3> QED
      BY <3>3, <3>4
  <2>5. CASE OpenChecks(t)
    <3>1. /\ call[t].pc = "check id" /\ call[t].fn = "Open" /\ UNCHANGED <<current, calls, raced>>
          /\ \/ Ends(t, "DEVICE_IN_USE")
             \/ GoTo(t, "put") /\ ~InUse(call[t].arg)
      BY <2>5 DEF OpenChecks, At, history
    <3>2. initialized = "yes"
      BY <3>1 DEF StoreInv, ClientsInv, OpenInv
    <3>3. /\ call'[t].pc = "check" \/ (call'[t].pc = "put" /\ ~InUse(call[t].arg))
          /\ call'[t].arg = call[t].arg
      BY <3>1, GoToFacts, EndsFacts DEF Pcs, Results, Active, Moves
    <3> QED
      BY <3>1, <3>2, <3>3
  <2>6. CASE FilterChecks(t)
    <3>1. /\ call[t].pc = "begun" /\ call[t].fn = "StartMsgFilter" /\ UNCHANGED <<current, calls, raced>>
          /\ Ends(t, "EXCEEDED_LIMIT") \/ GoTo(t, "put")
      BY <2>6 DEF FilterChecks, At, history
    <3>2. call'[t].fn = "StartMsgFilter" /\ call'[t].pc \in {"check", "put"}
      BY <3>1, GoToFacts, EndsFacts DEF Pcs, Results, Active, Moves
    <3> QED
      BY <3>1, <3>2
  <2> QED
    BY <2>1, <2>2, <2>3, <2>4, <2>5, <2>6
<1>4. Racing' /\ ClientsInv' /\ FiltersInv'
  BY <1>1, <1>2, <1>3, RacingNext, ClientsSame, FiltersSame DEF StoreInv
<1> QED
  BY <1>2, <1>4 DEF StoreInv

-----------------------------------------------------------------------------
(* The invariant of the specification.                                     *)
ApiInv == CallsTyped /\ Overlaps /\ ListInv /\ StoreInv

\* It holds at first.
LEMMA ApiInit == Init => ApiInv
<1> SUFFICES ASSUME Init
             PROVE  ApiInv
  OBVIOUS
<1>0. MaxCalls \in Nat /\ 0 \in 0 .. MaxCalls
  BY CallsAssumption
<1> DEFINE idle == [fn |-> "none", pc |-> "idle", arg |-> "none", i |-> 0, id |-> 0,
                    result |-> "none", seen |-> {}]
<1>1. idle \in CallRecord
  BY DEF CallRecord, Pcs, Args, Results
<1>2. /\ call = [t \in Threads |-> idle]
      /\ idle.fn = "none" /\ idle.pc = "idle" /\ idle.id = 0 /\ idle.seen = {} /\ idle.result = "none"
  BY DEF Init
<1> HIDE DEF idle
<1>3. CallsTyped
  <2>1. current = "none" /\ calls = 0
    BY DEF Init
  <2>2. call \in [Threads -> CallRecord]
    BY <1>1, <1>2
  <2> QED
    BY <1>0, <1>2, <2>1, <2>2 DEF CallsTyped, FitArg
<1>4. Overlaps
  BY <1>2 DEF Overlaps, NumberSeen, OverlapReported, Active
<1>5. ListInv
  <2>1. ListTyped
    <3>1. deviceCount \in 0 .. 2 /\ deviceList \in [1 .. 2 -> Names \cup {NoName}]
      BY DEF Init
    <3>2. psDevice \in [Threads -> Names \cup {NoName}]
      BY DEF Init
    <3>3. got \in [Threads -> Seq(Names \cup {NoName})]
      <4>1. <<>> \in Seq(Names \cup {NoName})
        OBVIOUS
      <4> QED
        BY <4>1 DEF Init
    <3> QED
      BY <3>1, <3>2, <3>3 DEF ListTyped
  <2>2. ScanInv
    BY <1>2 DEF Init, ScanInv, Scanning
  <2> QED
    BY <2>1, <2>2 DEF ListInv
<1>6. StoreInv
  <2>1. Empty \in Vector /\ Empty.count = 0 /\ Empty.size = 0
    <3>1. Null \in Element
      BY <1>0 DEF Null, Element
    <3> QED
      BY <1>0, <3>1 DEF Empty, Vector
  <2>2. /\ initialized = "no" /\ clients = Empty /\ filters = Empty /\ calls = 0 /\ raced = {}
        /\ stored = [clients |-> {}, filters |-> {}]
    BY DEF Init
  <2> HIDE DEF Init
  <2>3. Held(clients) = {} /\ Held(filters) = {}
    BY <2>1, <2>2 DEF Held
  <2>4. Racing /\ OpenInv /\ Unique
    BY <1>2, <2>2, <2>3 DEF Racing, OpenInv, Unique, Active
  <2>5. VectorInv(clients, "Open", stored.clients) /\ VectorInv(filters, "StartMsgFilter", stored.filters)
    BY <1>2, <2>1, <2>2 DEF VectorInv, At
  <2>6. \A f : Pending(f) = {}
    BY <1>2 DEF Pending, Active
  <2>7. IsFiniteSet({}) /\ Cardinality({}) = 0
    BY FS_EmptySet
  <2>8. \A f : CountInv(0, f)
    BY <2>2, <2>6, <2>7 DEF CountInv
  <2> QED
    BY <2>1, <2>2, <2>4, <2>5, <2>8 DEF StoreInv, ClientsInv, FiltersInv
<1> QED
  BY <1>3, <1>4, <1>5, <1>6 DEF ApiInv

\* Every step keeps it.
LEMMA ApiNext == ApiInv /\ [Next]_vars => ApiInv'
<1> SUFFICES ASSUME ApiInv, [Next]_vars
             PROVE  ApiInv'
  OBVIOUS
<1>0. CallsTyped /\ Overlaps /\ ListInv /\ StoreInv /\ ListTyped
  BY DEF ApiInv, ListInv
<1>1. ASSUME NEW t \in Threads,
             BeginStep(t) \/ Return(t) \/ ReadVersion(t) \/ ListStep(t) \/ OpenStep(t) \/ FilterStep(t)
      PROVE  ApiInv'
  <2>1. Works(t) \/ Fails(t) \/ Return(t) \/ \E f \in Functions : Begins(t, f)
    BY <1>0, <1>1, BeginKinds, StepKinds
  <2>2. Moves(t) \/ \E f \in Functions : Begins(t, f)
    BY <1>0, <2>1, ReturnFacts DEF Works, Fails
  <2>3. CallsTyped' /\ Overlaps'
    BY <1>0, <2>1, <2>2, CallsTypedNext, OverlapsNext
  <2>4. ListInv'
    <3>1. CASE BeginStep(t)
      BY <1>0, <3>1, BeginScanKeeps, BeginGetNextKeeps, OthersLeaveTheList DEF BeginStep
    <3>2. CASE Return(t)
      BY <1>0, <3>2, OthersLeaveTheList
    <3>3. CASE ReadVersion(t) \/ OpenStep(t) \/ FilterStep(t)
      <4>1. Moves(t)
        BY <1>0, <3>3, StepKinds DEF Works, Fails
      <4> QED
        BY <1>0, <3>3, <4>1, OthersLeaveTheList
    <3>4. CASE ListStep(t)
      BY <1>0, <3>4, ScanCountKeeps, ScanEntryKeeps, ScanDoneKeeps, GetNextKeeps DEF ListStep
    <3> QED
      BY <1>1, <3>1, <3>2, <3>3, <3>4
  <2>5. StoreInv'
    BY <1>0, <1>1, OthersKeepStore, OpenInitKeeps, OpenPutsKeeps, OpenCountsKeeps,
       FilterPutsKeeps, FilterCountsKeeps DEF OpenStep, FilterStep
  <2> QED
    BY <2>3, <2>4, <2>5 DEF ApiInv
<1>2. ASSUME UNCHANGED vars
      PROVE  ApiInv'
  <2>0. UNCHANGED <<current, call, deviceCount, deviceList, initialized, clients, filters, psDevice, calls,
                    got, found, scan, fresh, stored, raced>>
    BY <1>2 DEF vars, devices, vectors, history
  <2>1. CallsTyped' /\ Overlaps'
    BY <1>0, <2>0 DEF CallsTyped, Overlaps, NumberSeen, OverlapReported, Active, Alone
  <2>2. ListInv'
    BY <1>0, <2>0, ListUndisturbed DEF Scanning, Told, Kept
  <2>3. Racing' /\ OpenInv' /\ Unique'
    <3>1. Racing'
      BY <1>0, <2>0 DEF StoreInv, Racing, Active
    <3>2. OpenInv'
      BY <1>0, <2>0 DEF StoreInv, ClientsInv, OpenInv
    <3>3. Held(clients)' = Held(clients)
      BY <2>0 DEF Held
    <3>4. Unique'
      BY <1>0, <2>0, <3>3 DEF StoreInv, ClientsInv, Unique
    <3> QED
      BY <3>1, <3>2, <3>4
  <2>4. VectorInv(clients, "Open", stored.clients)' /\ VectorInv(filters, "StartMsgFilter", stored.filters)'
    BY <1>0, <2>0 DEF StoreInv, ClientsInv, FiltersInv, VectorInv, Held, At, Alone, Elem
  <2>5. CountInv(clients.count, "Open")' /\ CountInv(filters.count, "StartMsgFilter")'
    BY <1>0, <2>0 DEF StoreInv, ClientsInv, FiltersInv, CountInv, Pending, Active
  <2>6. StoreInv'
    BY <1>0, <2>0, <2>3, <2>4, <2>5 DEF StoreInv, ClientsInv, FiltersInv
  <2> QED
    BY <2>1, <2>2, <2>6 DEF ApiInv
<1> QED
  BY <1>1, <1>2 DEF Next, BeginStep, ListStep, OpenStep, FilterStep

\* The calls and the data that they share keep their types; the count of a
\* vector never exceeds the number of calls.
THEOREM ApiTypeCorrect == Spec => []TypeOK
<1>1. ApiInv => TypeOK
  <2> SUFFICES ASSUME ApiInv
               PROVE  TypeOK
    OBVIOUS
  <2>1. ASSUME NEW t \in Threads
        PROVE  /\ call[t].fn \in Functions \cup {"none"} /\ call[t].id \in 0 .. calls
               /\ call[t].pc \in {"idle", "begun", "entries", "init", "check id", "put", "count", "check"}
               /\ call[t].seen \subseteq Functions
               /\ call[t].i \in 0 .. 2
    <3>1. call[t] \in CallRecord /\ call[t].id <= calls /\ calls \in 0 .. MaxCalls /\ MaxCalls \in Nat
      BY CallsAssumption DEF ApiInv, CallsTyped
    <3>2. /\ call[t].fn \in Functions \cup {"none"} /\ call[t].id \in Nat /\ call[t].pc \in Pcs
          /\ call[t].seen \in SUBSET Functions /\ call[t].i \in 0 .. 2
      BY <3>1 DEF CallRecord
    <3>3. call[t].id \in 0 .. calls
      BY <3>1, <3>2
    <3>4. \A S \in SUBSET Functions : S \subseteq Functions
      OBVIOUS
    <3> QED
      BY <3>2, <3>3, <3>4, Zenon DEF Pcs
  <2>2. clients \in Vector /\ filters \in Vector /\ initialized \in {"yes", "no"}
    BY DEF ApiInv, StoreInv, ClientsInv, FiltersInv
  <2>3. /\ current \in Functions \cup {"none"} /\ calls \in 0 .. MaxCalls
        /\ deviceCount \in 0 .. 2 /\ deviceList \in [1 .. 2 -> Names \cup {NoName}]
        /\ psDevice \in [Threads -> Names \cup {NoName}]
    BY DEF ApiInv, CallsTyped, ListInv, ListTyped
  <2> QED
    BY <2>1, <2>2, <2>3 DEF TypeOK, Vector, Element
<1> QED
  BY <1>1, ApiInit, ApiNext, PTL DEF Spec

\* A call that another function overlaps is told so when it returns, unless
\* its own function was called again, and only if it was overlapped.
THEOREM OverlapsAreReported == Spec => []OverlapReported
<1>1. ApiInv => OverlapReported
  BY DEF ApiInv, Overlaps
<1> QED
  BY <1>1, ApiInit, ApiNext, PTL DEF Spec

\* What a call that was alone has put into a vector is never lost.
THEOREM NothingStoredIsLost == Spec => []StoredIsKept
<1>1. ApiInv => StoredIsKept
  BY DEF ApiInv, StoreInv, ClientsInv, FiltersInv, VectorInv, StoredIsKept
<1> QED
  BY <1>1, ApiInit, ApiNext, PTL DEF Spec

\* While no two calls of PassThruOpen have overlapped a device has one client.
THEOREM DevicesAreOpenedOnce == Spec => []OneClientPerDevice
<1>1. ApiInv => OneClientPerDevice
  BY DEF ApiInv, StoreInv, ClientsInv, Unique, OneClientPerDevice
<1> QED
  BY <1>1, ApiInit, ApiNext, PTL DEF Spec

\* While no two calls that add to a vector have overlapped, the vector is
\* never filled beyond what is allocated.
THEOREM VectorsStayInBounds == Spec => []VectorInBounds
<1>1. ApiInv => VectorInBounds
  BY DEF ApiInv, StoreInv, ClientsInv, FiltersInv, VectorInv, VectorInBounds
<1> QED
  BY <1>1, ApiInit, ApiNext, PTL DEF Spec

\* After a scan that was good, every thread that begins to enumerate is given
\* the devices that it found in their order, and each one before it is told
\* that there are no more.
THEOREM EnumerationIsExact == Spec => []EnumerationExact
<1>1. ApiInv => EnumerationExact
  <2> SUFFICES ASSUME ApiInv, scan = "good", NEW t \in fresh
               PROVE  /\ got[t] = SubSeq(found, 1, Len(got[t]))
                      /\ At(t, "GetNextDevice", "check") /\ call[t].result = "EXCEEDED_LIMIT" => got[t] = found
                      /\ At(t, "GetNextDevice", "check") /\ call[t].result = "BUFFER_EMPTY" => found = <<>>
    BY DEF EnumerationExact
  <2>1. Listed /\ Given(t) /\ t \in Threads /\ got[t] \in Seq(Names \cup {NoName})
    BY DEF ApiInv, ListInv, ScanInv, ListTyped
  <2>2. found \in Seq(Names \cup {Bad}) /\ deviceCount = Len(found)
    BY <2>1, ResponseFacts DEF Listed
  <2> DEFINE n == Len(got[t])
  <2>3. n \in Nat /\ Len(found) \in Nat /\ n <= Len(found)
    BY <2>1, <2>2 DEF Given
  <2>4. \A k \in 1 .. n : got[t][k] = found[k]
    BY <2>1, <2>2, <2>3 DEF Given, Listed
  <2>5. got[t] = SubSeq(found, 1, n)
    BY <2>1, <2>2, <2>3, <2>4
  <2>6. Told(t, "EXCEEDED_LIMIT") => got[t] = found
    <3>1. Told(t, "EXCEEDED_LIMIT") => n = Len(found)
      BY <2>1, <2>2 DEF Given
    <3> QED
      BY <2>1, <2>2, <2>4, <3>1
  <2>7. Told(t, "BUFFER_EMPTY") => found = <<>>
    BY <2>1, <2>2 DEF Given
  <2> QED
    BY <2>5, <2>6, <2>7 DEF Told, At
<1> QED
  BY <1>1, ApiInit, ApiNext, PTL DEF Spec
=============================================================================
