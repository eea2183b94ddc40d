------------------------------ MODULE ApiCalls ------------------------------
(***************************************************************************)
(* Threads of one process call the J2534 library (j2534.c) at the same time.*)
(* Nothing is locked: a call writes its number to j2534_current_api_call    *)
(* when it begins and compares it before it returns (unless_concurrent_call)*)
(* while the list of devices and the vectors (vector.c) are shared.         *)
(*                                                                         *)
(* What a call exchanges with the daemon is in J2534Session; here it ends   *)
(* with any of its results.  The channel to which filters are added is the  *)
(* one of the first client.                                                 *)
(***************************************************************************)
EXTENDS Naturals, Sequences

CONSTANTS Threads, Devices,   \* threads of the process, device ids that are opened
          Names,              \* names of the devices that a scan may find
          Capacity,           \* first capacity of a vector (10)
          MaxCalls            \* bound: calls

Functions == {"ScanForDevices", "GetNextDevice", "Open", "StartMsgFilter", "ReadVersion"}
NoName == "no name"  \* the empty string
Bad == "bad"         \* an entry of the response that is not a device

ASSUME CallsAssumption ==
    /\ NoName \notin Names /\ Bad \notin Names    \* the name of a thing is not empty
    /\ Capacity \in Nat \ {0} /\ MaxCalls \in Nat

Null == [device |-> "null", id |-> 0]

VARIABLES
    current,      \* j2534_current_api_call
    call,         \* the call of each thread that is under way, or the last one
    deviceCount, deviceList,
    initialized,  \* j2534_initialized: "yes", "no"
    clients,      \* j2534_client_vector
    filters,      \* client->filters
    psDevice,     \* the structure that each thread hands to PassThruGetNextDevice
    calls,
    got,          \* (history) the names that each thread was given since it began to enumerate
    found,        \* (history) the names found by the last scan
    scan,         \* (history) the last scan: "none", "running", "good", or "bad": it failed, or
                  \* two scans overlapped
    fresh,        \* (history) the threads that began to enumerate after it
    stored,       \* (history) what was added to each vector by a call that did not overlap
                  \* another call of the same function
    raced         \* (history) the functions of which two calls overlapped

devices == <<deviceCount, deviceList>>
vectors == <<initialized, clients, filters>>
history == <<got, found, scan, fresh, stored, raced>>
vars == <<current, call, devices, vectors, psDevice, calls, history>>

Responses == {<<>>} \cup {<<a>> : a \in Names \cup {Bad}}
             \cup {s \in (Names \cup {Bad}) \X (Names \cup {Bad}) : s[1] # s[2]}

Active(t) == call[t].pc # "idle"
\* (history) seen: the functions of which another call began during this one,
\* and its own if such a call was under way when it began
Alone(t) == call[t].fn \notin call[t].seen
At(t, f, pc) == call[t].fn = f /\ call[t].pc = pc
GoTo(t, pc) == call' = [call EXCEPT ![t].pc = pc]
Ends(t, r) == call' = [call EXCEPT ![t].pc = "check", ![t].result = r]

-----------------------------------------------------------------------------
(* The frame of every call.                                                *)

Entered(f) == f

Begin(t, f, arg) ==
    /\ ~Active(t) /\ calls < MaxCalls
    /\ calls' = calls + 1
    /\ current' = Entered(f)
    /\ LET others == {u \in Threads \ {t} : Active(u)} IN
       /\ call' = [u \in Threads |->
             IF u = t THEN [fn |-> f, pc |-> "begun", arg |-> arg, i |-> 0, id |-> calls',
                            result |-> "none", seen |-> {call[v].fn : v \in others} \cap {f}]
             ELSE IF u \in others THEN [call[u] EXCEPT !.seen = @ \cup {f}]
             ELSE call[u]]
       /\ raced' = IF \E u \in others : call[u].fn = f THEN raced \cup {f} ELSE raced
    /\ UNCHANGED <<devices, vectors, found, stored>>

\* Mutant: nothing is compared.
ReturnedUnchecked(t) == call[t].result

\* unless_concurrent_call
Returned(t) == IF current # call[t].fn THEN "CONCURRENT_API_CALL" ELSE call[t].result

Return(t) ==
    /\ call[t].pc = "check"
    /\ call' = [call EXCEPT ![t].pc = "idle", ![t].result = Returned(t)]
    /\ UNCHANGED <<current, devices, vectors, psDevice, calls, history>>

\* PassThruReadVersion, and the calls that only look at their arguments
ReadVersion(t) ==
    /\ At(t, "ReadVersion", "begun")
    /\ Ends(t, "NOERROR")
    /\ UNCHANGED <<current, devices, vectors, psDevice, calls, history>>

-----------------------------------------------------------------------------
(* PassThruScanForDevices and PassThruGetNextDevice.                       *)

\* the call of the discovery service, with any answer
BeginScan(t) ==
    /\ \E response \in Responses : Begin(t, "ScanForDevices", response)
    /\ scan' = IF \E u \in Threads : Active(u) /\ call[u].fn = "ScanForDevices" THEN "bad" ELSE "running"
    /\ fresh' = {} /\ UNCHANGED <<psDevice, got>>

\* Mutant: one device too many.
CountedOneMore(response) == Len(response) + 1

Counted(response) == Len(response)

\* the count is taken before the entries are looked at
ScanCount(t) ==
    /\ At(t, "ScanForDevices", "begun")
    /\ deviceCount' = Counted(call[t].arg)
    /\ found' = call[t].arg
    /\ GoTo(t, "entries")
    /\ UNCHANGED <<current, deviceList, vectors, psDevice, calls, got, scan, fresh, stored, raced>>

\* an entry is copied; at a bad one the scan fails, without a comparison
ScanEntry(t) ==
    /\ At(t, "ScanForDevices", "entries") /\ call[t].i < deviceCount
    /\ LET i == call[t].i + 1
           name == IF i <= Len(call[t].arg) THEN call[t].arg[i] ELSE Bad IN
       IF name = Bad
       THEN /\ call' = [call EXCEPT ![t].pc = "idle", ![t].result = "FAILED"]
            /\ scan' = "bad" /\ UNCHANGED deviceList
       ELSE /\ call' = [call EXCEPT ![t].i = i]
            /\ deviceList' = [deviceList EXCEPT ![i] = name] /\ UNCHANGED scan
    /\ UNCHANGED <<current, deviceCount, vectors, psDevice, calls, got, found, fresh, stored, raced>>

ScanDone(t) ==
    /\ At(t, "ScanForDevices", "entries") /\ call[t].i >= deviceCount
    /\ Ends(t, "NOERROR")
    /\ scan' = IF scan = "running" THEN "good" ELSE scan
    /\ UNCHANGED <<current, devices, vectors, psDevice, calls, got, found, fresh, stored, raced>>

\* A thread hands in an empty structure, or the one that it was given before.
BeginGetNext(t) ==
    /\ Begin(t, "GetNextDevice", "none")
    /\ \/ /\ psDevice' = [psDevice EXCEPT ![t] = NoName]
          /\ got' = [got EXCEPT ![t] = <<>>]
          /\ fresh' = IF scan = "good" THEN fresh \cup {t} ELSE fresh \ {t}
       \/ UNCHANGED <<psDevice, got, fresh>>
    /\ UNCHANGED scan

\* Mutant: the end of the list is off by one.
LastDeviceOffByOne(i) == i >= deviceCount - 1

LastDevice(i) == i >= deviceCount

\* the index of the device to return: the one after the one that was handed in
GetNext(t) ==
    /\ At(t, "GetNextDevice", "begun")
    /\ LET here == {i \in 1 .. deviceCount : deviceList[i] = psDevice[t]}
           i == IF psDevice[t] = NoName THEN 0 ELSE CHOOSE k \in here : \A m \in here : k <= m IN
       IF deviceCount = 0 \/ (psDevice[t] # NoName /\ here = {})
       THEN Ends(t, "BUFFER_EMPTY") /\ UNCHANGED <<psDevice, got>>
       ELSE IF psDevice[t] # NoName /\ LastDevice(i)
       THEN Ends(t, "EXCEEDED_LIMIT") /\ UNCHANGED <<psDevice, got>>
       ELSE /\ Ends(t, "NOERROR")
            /\ psDevice' = [psDevice EXCEPT ![t] = deviceList[i + 1]]
            /\ got' = [got EXCEPT ![t] = Append(@, deviceList[i + 1])]
    /\ UNCHANGED <<current, devices, vectors, calls, found, scan, fresh, stored, raced>>

-----------------------------------------------------------------------------
(* vector_add, to which PassThruOpen and PassThruStartMsgFilter lead.      *)

Empty == [size |-> 0, count |-> 0, data |-> [i \in 0 .. MaxCalls |-> Null]]

\* the first element allocates the vector
Allocated(v) == IF v.size = 0 THEN [v EXCEPT !.size = Capacity, !.data = Empty.data] ELSE v

\* Mutant: the vector grows when it is already overfull.
GrownLate(v) ==
    LET w == Allocated(v) IN IF w.size < w.count THEN [w EXCEPT !.size = 2 * @] ELSE w

Grown(v) ==
    LET w == Allocated(v) IN IF w.size = w.count THEN [w EXCEPT !.size = 2 * @] ELSE w

Put(v, e) == [Grown(v) EXCEPT !.data[v.count] = e]

Elem(t) == [device |-> call[t].arg, id |-> call[t].id]
Held(v) == {v.data[i] : i \in 0 .. v.count - 1} \ {Null}

\* PassThruOpen up to the test of j2534_initialized
OpenTests(t) ==
    /\ At(t, "Open", "begun")
    /\ GoTo(t, IF initialized = "yes" THEN "check id" ELSE "init")
    /\ UNCHANGED <<current, devices, vectors, psDevice, calls, history>>

\* Mutant: it is not noted that the vector is initialised.
OpenInitUnnoted(t) ==
    /\ At(t, "Open", "init")
    /\ clients' = Empty
    /\ GoTo(t, "check id")
    /\ UNCHANGED <<current, devices, initialized, filters, psDevice, calls, history>>

OpenInit(t) ==
    /\ At(t, "Open", "init")
    /\ clients' = Empty /\ initialized' = "yes"
    /\ GoTo(t, "check id")
    /\ UNCHANGED <<current, devices, filters, psDevice, calls, history>>

\* Mutant: the device is not looked up.
InUseNever(d) == FALSE

\* j2534_client_by_device_id
InUse(d) == \E c \in Held(clients) : c.device = d

OpenChecks(t) ==
    /\ At(t, "Open", "check id")
    /\ IF InUse(call[t].arg) THEN Ends(t, "DEVICE_IN_USE") ELSE GoTo(t, "put")
    /\ UNCHANGED <<current, devices, vectors, psDevice, calls, history>>

OpenPuts(t) ==
    /\ At(t, "Open", "put")
    /\ clients' = Put(clients, Elem(t))
    /\ GoTo(t, "count")
    /\ UNCHANGED <<current, devices, initialized, filters, psDevice, calls, history>>

\* The rest of the call may fail; the client stays in the vector all the same.
OpenCounts(t) ==
    /\ At(t, "Open", "count")
    /\ clients' = [clients EXCEPT !.count = @ + 1]
    /\ \E r \in {"NOERROR", "DEVICE_NOT_CONNECTED"} : Ends(t, r)
    /\ stored' = IF Alone(t) THEN [stored EXCEPT !.clients = @ \cup {Elem(t)}] ELSE stored
    /\ UNCHANGED <<current, devices, initialized, filters, psDevice, calls, got, found, scan, fresh, raced>>

\* PassThruStartMsgFilter: the limit is compared with the capacity
FilterChecks(t) ==
    /\ At(t, "StartMsgFilter", "begun")
    /\ IF filters.size >= Capacity THEN Ends(t, "EXCEEDED_LIMIT") ELSE GoTo(t, "put")
    /\ UNCHANGED <<current, devices, vectors, psDevice, calls, history>>

FilterPuts(t) ==
    /\ At(t, "StartMsgFilter", "put")
    /\ filters' = Put(filters, Elem(t))
    /\ GoTo(t, "count")
    /\ UNCHANGED <<current, devices, initialized, clients, psDevice, calls, history>>

FilterCounts(t) ==
    /\ At(t, "StartMsgFilter", "count")
    /\ filters' = [filters EXCEPT !.count = @ + 1]
    /\ \E r \in {"NOERROR", "TIMEOUT"} : Ends(t, r)
    /\ stored' = IF Alone(t) THEN [stored EXCEPT !.filters = @ \cup {Elem(t)}] ELSE stored
    /\ UNCHANGED <<current, devices, initialized, clients, psDevice, calls, got, found, scan, fresh, raced>>

-----------------------------------------------------------------------------
Init ==
    /\ current = "none"
    /\ call = [t \in Threads |-> [fn |-> "none", pc |-> "idle", arg |-> "none", i |-> 0, id |-> 0,
                                  result |-> "none", seen |-> {}]]
    /\ deviceCount = 0 /\ deviceList = [i \in 1 .. 2 |-> NoName]
    /\ initialized = "no" /\ clients = Empty /\ filters = Empty
    /\ psDevice = [t \in Threads |-> NoName] /\ calls = 0
    /\ got = [t \in Threads |-> <<>>] /\ found = <<>> /\ scan = "none" /\ fresh = {}
    /\ stored = [clients |-> {}, filters |-> {}] /\ raced = {}

BeginOther(t) ==
    /\ \/ \E d \in Devices : Begin(t, "Open", d)
       \/ clients.count > 0 /\ Begin(t, "StartMsgFilter", "filter")
       \/ Begin(t, "ReadVersion", "none")
    /\ UNCHANGED <<psDevice, got, scan, fresh>>

Next ==
    \E t \in Threads :
        \/ BeginScan(t) \/ BeginGetNext(t) \/ BeginOther(t) \/ Return(t) \/ ReadVersion(t)
        \/ ScanCount(t) \/ ScanEntry(t) \/ ScanDone(t) \/ GetNext(t)
        \/ OpenTests(t) \/ OpenInit(t) \/ OpenChecks(t) \/ OpenPuts(t) \/ OpenCounts(t)
        \/ FilterChecks(t) \/ FilterPuts(t) \/ FilterCounts(t)

Spec == Init /\ [][Next]_vars

-----------------------------------------------------------------------------
(* Properties                                                              *)

\* Type invariant of the calls and of the data that they share.
TypeOK ==
    LET Vector == [size : Nat, count : 0 .. MaxCalls,
                   data : [0 .. MaxCalls -> [device : Devices \cup {"filter", "null"}, id : 0 .. MaxCalls]]] IN
    /\ current \in Functions \cup {"none"}
    /\ \A t \in Threads :
          /\ call[t].fn \in Functions \cup {"none"} /\ call[t].id \in 0 .. calls
          /\ call[t].pc \in {"idle", "begun", "entries", "init", "check id", "put", "count", "check"}
          /\ call[t].seen \subseteq Functions
          /\ call[t].i \in 0 .. 2
    /\ deviceCount \in 0 .. 2 /\ deviceList \in [1 .. 2 -> Names \cup {NoName}]
    /\ initialized \in {"yes", "no"} /\ {clients, filters} \subseteq Vector
    /\ psDevice \in [Threads -> Names \cup {NoName}] /\ calls \in 0 .. MaxCalls

\* A call is told of another function that was called before it had returned,
\* unless its own was called again after that, and is told so only if one was:
\* "ERR_CONCURRENT_API_CALL A J2534 API function has been called before the
\* previous J2534 function call has completed" (j2534.c).  A scan that finds a
\* bad entry returns without looking.
OverlapReported ==
    \A t \in Threads :
        LET c == call[t] IN
        c.pc = "idle" /\ c.result \notin {"none", "FAILED"} =>
            /\ c.result = "CONCURRENT_API_CALL" => c.seen \ {c.fn} # {}
            /\ c.seen \ {c.fn} # {} /\ Alone(t) => c.result = "CONCURRENT_API_CALL"

\* What a call has put into a vector stays there, if no call of the same
\* function overlapped it: later calls, however they overlap, take nothing away.
StoredIsKept ==
    stored.clients \subseteq Held(clients) /\ stored.filters \subseteq Held(filters)

\* A device has one client, unless two calls of PassThruOpen overlapped, which
\* the comparison does not notice.
OneClientPerDevice ==
    "Open" \notin raced =>
        \A c, d \in Held(clients) : c.device = d.device => c = d

\* Nothing is put beyond the end of a vector, unless two calls that add to it
\* overlapped: then the count may pass the capacity, which never grows again.
VectorInBounds ==
    /\ "Open" \notin raced => clients.count <= clients.size
    /\ "StartMsgFilter" \notin raced => filters.count <= filters.size

\* A thread that enumerates the devices is given each one that the scan found,
\* once and in its order, before it is told that there are no more, although other
\* threads enumerate too.  (After a scan that failed the list may name one
\* device twice, and the enumeration then never ends.)
EnumerationExact ==
    scan = "good" =>
        \A t \in fresh :
            /\ got[t] = SubSeq(found, 1, Len(got[t]))
            /\ At(t, "GetNextDevice", "check") /\ call[t].result = "EXCEEDED_LIMIT" => got[t] = found
            /\ At(t, "GetNextDevice", "check") /\ call[t].result = "BUFFER_EMPTY" => found = <<>>
=============================================================================
