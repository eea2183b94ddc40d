---------------------------- MODULE CanbusLogger ----------------------------
(***************************************************************************)
(* The data logger of the pass-thru daemon: the log handler that the       *)
(* shadow router calls (passthru_shadow_log_handler.c), the logger object  *)
(* it allocates (canbus_logger.c) and the three kinds of logger thread:    *)
(* to a file (canbus_filelogger.c, canbus_log.c), to AWS IoT and the       *)
(* replay of a file to AWS IoT (canbus_awsiotlogger.c).                    *)
(*                                                                         *)
(* The handler runs on the daemon's MQTT thread, one request at a time.    *)
(* Each logger object has at most one thread, which runs beside it, and    *)
(* the two share the fields of the object without a lock.  A logger is     *)
(* named by its incarnation: every malloc takes a fresh name.              *)
(***************************************************************************)
EXTENDS Naturals

CONSTANTS Loggers,    \* names of the logger objects the daemon may allocate
          NULL,       \* the null pointer
          Requests    \* the log requests the shadow may deliver

\* log.type of the shadow document; REPLAY_NOFILE stands for a replay without
\* log.file, and for a type the handler does not know, which it treats alike
NONE == "LOG_NONE"
RequestTypes == {NONE, "FILE", "AWSIOT", "REPLAY", "REPLAY_NOFILE"}

ASSUME LoggerAssumption ==
    /\ NULL \notin Loggers
    /\ Requests \subseteq RequestTypes

VARIABLES
    logger,         \* static canbus_logger *logger of the handler
    heap,           \* heap[l]: logger l is "unused", "live" or "freed"
    type,           \* logger->type (the request that created it)
    isrunning,      \* logger->isrunning, indeterminate after malloc
    thread_state,   \* logger->canbus_thread_state, indeterminate after malloc
    canbus,         \* state of logger->canbus
    tpc,            \* where the thread of logger l is
    canbus_log,     \* static FILE *canbus_log: the logger whose open
                    \* stream it is, NULL if it is closed or was never open
    iotlogger,      \* static awsiot_client *iotlogger
    hpc, hreq,      \* where the handler is, and the request it handles
    reported,       \* log.type last reported to the shadow
    daemon,         \* "crashed" once it died on an invalid pointer
    spacing         \* (history) "kept" as long as every request found the threads
                    \* of the freed loggers ended

heapVars == <<logger, heap, type>>
vars == <<logger, heap, type, isrunning, thread_state, canbus, tpc,
          canbus_log, iotlogger, hpc, hreq, reported, daemon, spacing>>

ThreadStates == {"RUNNING", "STOPPING", "STOPPED"}
CanStates    == {"CLOSED", "CONNECTING", "CONNECTED"}
ThreadPcs    == {"none", "open", "loop", "read", "check", "replay",
                 "close", "stopped", "iotclose", "iotnull", "done"}
HandlerPcs   == {"idle", "dispatch", "iotinit", "connect", "iotinit2",
                 "create", "running", "stop", "stopping", "wait",
                 "free", "report"}

\* program points at which the thread still has pLogger to dereference
Touches == {"open", "loop", "read", "check", "replay", "stopped"}

\* the thread of l still runs
Alive(l) == tpc[l] \notin {"none", "done"}

-----------------------------------------------------------------------------
(* The handler, passthru_shadow_log_handler_handle.                        *)

\* The router hands over a request.
Receive(r) ==
    /\ daemon = "up" /\ hpc = "idle"
    /\ spacing' = IF \A l \in Loggers : heap[l] = "freed" => ~Alive(l)
                  THEN spacing ELSE "broken"
    /\ hpc' = "dispatch" /\ hreq' = r
    /\ UNCHANGED <<heapVars, isrunning, thread_state, canbus, tpc,
                   canbus_log, iotlogger, reported, daemon>>

\* A logger runs and another is asked for, or none runs and none is asked
\* for: the handler returns and reports nothing.
Abort ==
    /\ daemon = "up" /\ hpc = "dispatch"
    /\ (logger # NULL) # (hreq = NONE)
    /\ hpc' = "idle"
    /\ UNCHANGED <<heapVars, isrunning, thread_state, canbus, tpc,
                   canbus_log, iotlogger, hreq, reported, daemon>>

\* what the handler does next with a new logger; a replay without a file is
\* left as it is, without a report
AfterInit(r) ==
    IF r = "FILE" THEN "connect"
    ELSE IF r = "REPLAY_NOFILE" THEN "idle" ELSE "iotinit"

\* passthru_shadow_log_handler_init: malloc leaves isrunning and
\* canbus_thread_state as they happen to be.
InitLogger(l) ==
    /\ daemon = "up" /\ hpc = "dispatch"
    /\ logger = NULL /\ hreq # NONE
    /\ heap[l] = "unused"
    /\ logger' = l
    /\ heap' = [heap EXCEPT ![l] = "live"]
    /\ type' = [type EXCEPT ![l] = hreq]
    /\ \E b \in BOOLEAN : isrunning' = [isrunning EXCEPT ![l] = b]
    /\ \E s \in ThreadStates : thread_state' = [thread_state EXCEPT ![l] = s]
    /\ hpc' = AfterInit(hreq)
    /\ UNCHANGED <<canbus, tpc, canbus_log, iotlogger, hreq, reported, daemon>>

\* Mutant: the initialisation is skipped by the flag instead of the pointer.
AwsiotInitByFlag ==
    /\ daemon = "up" /\ hpc \in {"iotinit", "iotinit2"}
    /\ IF isrunning[logger]
       THEN UNCHANGED <<iotlogger, isrunning>>
       ELSE /\ iotlogger' = "open"
            /\ isrunning' = [isrunning EXCEPT ![logger] = TRUE]
    /\ hpc' = IF hpc = "iotinit2" THEN "create"
              ELSE IF type[logger] = "AWSIOT" THEN "connect" ELSE "iotinit2"
    /\ UNCHANGED <<heapVars, thread_state, canbus, tpc, canbus_log, hreq,
                   reported, daemon>>

\* canbus_awsiotlogger_init: an iotlogger that is still there is kept, and
\* then isrunning is not set.  Called by the handler and again by
\* canbus_awsiotlogger_run or canbus_awsiotlogger_replay.
AwsiotInit ==
    /\ daemon = "up" /\ hpc \in {"iotinit", "iotinit2"}
    /\ IF iotlogger # "null"
       THEN UNCHANGED <<iotlogger, isrunning>>
       ELSE /\ iotlogger' = "open"
            /\ isrunning' = [isrunning EXCEPT ![logger] = TRUE]
    /\ hpc' = IF hpc = "iotinit2" THEN "create"
              ELSE IF type[logger] = "AWSIOT" THEN "connect" ELSE "iotinit2"
    /\ UNCHANGED <<heapVars, thread_state, canbus, tpc, canbus_log, hreq,
                   reported, daemon>>

\* canbus_connect in canbus_logger_run.  When it fails the run returns
\* without a thread, and the handler reports the request all the same.
ConnectCan ==
    /\ daemon = "up" /\ hpc = "connect"
    /\ \/ /\ canbus' = [canbus EXCEPT ![logger] = "CONNECTED"]
          /\ IF type[logger] = "FILE"
             THEN /\ isrunning' = [isrunning EXCEPT ![logger] = TRUE]
                  /\ hpc' = "create"
             ELSE hpc' = "iotinit2" /\ UNCHANGED isrunning
       \/ /\ \E s \in {"CLOSED", "CONNECTING"} :
                canbus' = [canbus EXCEPT ![logger] = s]
          /\ hpc' = "report" /\ UNCHANGED isrunning
    /\ UNCHANGED <<heapVars, thread_state, tpc, canbus_log, iotlogger, hreq,
                   reported, daemon>>

\* pthread_create, whose result nobody looks at.  Only canbus_logger_run
\* goes on to set the thread state; a replay is not started by it.
CreateThread ==
    /\ daemon = "up" /\ hpc = "create"
    /\ \/ tpc' = [tpc EXCEPT ![logger] =
                    IF type[logger] = "AWSIOT" THEN "loop" ELSE "open"]
       \/ UNCHANGED tpc
    /\ hpc' = IF type[logger] = "REPLAY" THEN "report" ELSE "running"
    /\ UNCHANGED <<heapVars, isrunning, thread_state, canbus, canbus_log,
                   iotlogger, hreq, reported, daemon>>

SetRunning ==
    /\ daemon = "up" /\ hpc = "running"
    /\ thread_state' = [thread_state EXCEPT ![logger] = "RUNNING"]
    /\ hpc' = "report"
    /\ UNCHANGED <<heapVars, isrunning, canbus, tpc, canbus_log, iotlogger,
                   hreq, reported, daemon>>

\* Mutant: the logger is freed without being stopped.
DispatchStopFreesAlways ==
    /\ daemon = "up" /\ hpc = "dispatch"
    /\ logger # NULL /\ hreq = NONE
    /\ hpc' = "free"
    /\ UNCHANGED <<heapVars, isrunning, thread_state, canbus, tpc,
                   canbus_log, iotlogger, hreq, reported, daemon>>

\* LOG_NONE with a logger: stopped if isrunning says so, else just freed.
DispatchStop ==
    /\ daemon = "up" /\ hpc = "dispatch"
    /\ logger # NULL /\ hreq = NONE
    /\ hpc' = IF isrunning[logger] THEN "stop" ELSE "free"
    /\ UNCHANGED <<heapVars, isrunning, thread_state, canbus, tpc,
                   canbus_log, iotlogger, hreq, reported, daemon>>

\* canbus_logger_stop, in its three steps: two assignments and the wait.
ClearRunning ==
    /\ daemon = "up" /\ hpc = "stop"
    /\ isrunning' = [isrunning EXCEPT ![logger] = FALSE]
    /\ hpc' = "stopping"
    /\ UNCHANGED <<heapVars, thread_state, canbus, tpc, canbus_log,
                   iotlogger, hreq, reported, daemon>>

\* Mutant: a constant of the wrong family (CANBUS_STATE_*) is assigned.
SetStoppingWrongConstant ==
    /\ daemon = "up" /\ hpc = "stopping"
    /\ thread_state' = [thread_state EXCEPT ![logger] = "CLOSED"]
    /\ hpc' = "wait"
    /\ UNCHANGED <<heapVars, isrunning, canbus, tpc, canbus_log, iotlogger,
                   hreq, reported, daemon>>

SetStopping ==
    /\ daemon = "up" /\ hpc = "stopping"
    /\ thread_state' = [thread_state EXCEPT ![logger] = "STOPPING"]
    /\ hpc' = "wait"
    /\ UNCHANGED <<heapVars, isrunning, canbus, tpc, canbus_log, iotlogger,
                   hreq, reported, daemon>>

\* Mutant: the stop does not wait for the thread.
StopWithoutWait ==
    /\ daemon = "up" /\ hpc = "wait"
    /\ canbus' = [canbus EXCEPT ![logger] = "CLOSED"]
    /\ hpc' = "free"
    /\ UNCHANGED <<heapVars, isrunning, thread_state, tpc, canbus_log,
                   iotlogger, hreq, reported, daemon>>

StopWait ==
    /\ daemon = "up" /\ hpc = "wait"
    /\ thread_state[logger] = "STOPPED"
    /\ canbus' = [canbus EXCEPT ![logger] = "CLOSED"]   \* canbus_close
    /\ hpc' = "free"
    /\ UNCHANGED <<heapVars, isrunning, thread_state, tpc, canbus_log,
                   iotlogger, hreq, reported, daemon>>

\* Mutant: the handler keeps the pointer to the logger it freed.
FreeLoggerKeepsPointer ==
    /\ daemon = "up" /\ hpc = "free"
    /\ heap' = [heap EXCEPT ![logger] = "freed"]
    /\ hpc' = "report"
    /\ UNCHANGED <<logger, type, isrunning, thread_state, canbus, tpc,
                   canbus_log, iotlogger, hreq, reported, daemon>>

\* passthru_shadow_log_handler_free
FreeLogger ==
    /\ daemon = "up" /\ hpc = "free"
    /\ heap' = [heap EXCEPT ![logger] = "freed"]
    /\ logger' = NULL
    /\ hpc' = "report"
    /\ UNCHANGED <<type, isrunning, thread_state, canbus, tpc, canbus_log,
                   iotlogger, hreq, reported, daemon>>

SendReport ==
    /\ daemon = "up" /\ hpc = "report"
    /\ reported' = hreq
    /\ hpc' = "idle"
    /\ UNCHANGED <<heapVars, isrunning, thread_state, canbus, tpc,
                   canbus_log, iotlogger, hreq, daemon>>

HandlerStep ==
    /\ \/ Abort \/ (\E l \in Loggers : InitLogger(l)) \/ AwsiotInit
       \/ ConnectCan \/ CreateThread \/ SetRunning \/ DispatchStop
       \/ ClearRunning \/ SetStopping \/ StopWait \/ FreeLogger \/ SendReport
    /\ UNCHANGED spacing

-----------------------------------------------------------------------------
(* The logger threads: canbus_filelogger_thread,                           *)
(* canbus_awsiotlogger_thread and canbus_awsiotlogger_replay_thread.       *)

\* Variables no thread assigns.
handlerVars == <<logger, heap, type, isrunning, canbus, hpc, hreq, reported, spacing>>

\* canbus_log_open.  A file logger that cannot open its file returns at once;
\* a replay does not look, and reads through the null stream.
ThreadOpen(l) ==
    /\ daemon = "up" /\ tpc[l] = "open"
    /\ \/ /\ canbus_log' = l
          /\ tpc' = [tpc EXCEPT ![l] = IF type[l] = "FILE" THEN "loop" ELSE "replay"]
          /\ UNCHANGED daemon
       \/ /\ canbus_log' = NULL
          /\ IF type[l] = "FILE"
             THEN tpc' = [tpc EXCEPT ![l] = "done"] /\ UNCHANGED daemon
             ELSE daemon' = "crashed" /\ UNCHANGED tpc
    /\ UNCHANGED <<handlerVars, thread_state, iotlogger>>

\* where a thread goes when its loop ends
AfterLoop(l) == IF type[l] = "AWSIOT" THEN "stopped" ELSE "close"

\* the first conjunct of the loop's condition, canbus_isconnected
ThreadLoop(l) ==
    /\ daemon = "up" /\ tpc[l] = "loop"
    /\ tpc' = [tpc EXCEPT ![l] =
                 IF canbus[l] = "CONNECTED" THEN "read" ELSE AfterLoop(l)]
    /\ UNCHANGED <<handlerVars, thread_state, canbus_log, iotlogger, daemon>>

\* canbus_read blocks until the bus carries a frame; a failed read returns a
\* positive error code, which the loop takes for a frame.
Frame(l) ==
    /\ daemon = "up" /\ tpc[l] = "read"
    /\ tpc' = [tpc EXCEPT ![l] = "check"]
    /\ UNCHANGED <<handlerVars, thread_state, canbus_log, iotlogger, daemon>>

\* the value a thread reads from isrunning: any, once the logger is freed
ReadsRunning(l, b) == isrunning[l] = b \/ heap[l] = "freed"

\* isrunning, the last conjunct, and the body: canbus_log_write, or
\* awsiot_client_publish, which dereferences iotlogger.  A closed stream or
\* a freed client may be used without harm, or not.
ThreadCheck(l) ==
    /\ daemon = "up" /\ tpc[l] = "check"
    /\ \/ /\ ReadsRunning(l, FALSE)
          /\ tpc' = [tpc EXCEPT ![l] = AfterLoop(l)] /\ UNCHANGED daemon
       \/ /\ ReadsRunning(l, TRUE)
          /\ type[l] = "AWSIOT" => iotlogger # "null"
          /\ tpc' = [tpc EXCEPT ![l] = "loop"] /\ UNCHANGED daemon
       \/ /\ ReadsRunning(l, TRUE)
          /\ IF type[l] = "AWSIOT" THEN iotlogger # "open" ELSE canbus_log = NULL
          /\ daemon' = "crashed" /\ UNCHANGED tpc
    /\ UNCHANGED <<handlerVars, thread_state, canbus_log, iotlogger>>

\* canbus_log_read publishes every line and returns 0, which ends the loop.
ThreadReplay(l) ==
    /\ daemon = "up" /\ tpc[l] = "replay"
    /\ \/ /\ iotlogger # "null"
          /\ tpc' = [tpc EXCEPT ![l] = "close"] /\ UNCHANGED daemon
       \/ /\ iotlogger # "open" \/ canbus_log = NULL
          /\ daemon' = "crashed" /\ UNCHANGED tpc
    /\ UNCHANGED <<handlerVars, thread_state, canbus_log, iotlogger>>

\* canbus_log_close: fclose of whatever stream canbus_log now is; closing one
\* that is closed may kill the daemon.
ThreadLogClose(l) ==
    /\ daemon = "up" /\ tpc[l] = "close"
    /\ \/ /\ canbus_log' = NULL
          /\ tpc' = [tpc EXCEPT ![l] = "stopped"] /\ UNCHANGED daemon
       \/ /\ canbus_log = NULL
          /\ daemon' = "crashed" /\ UNCHANGED <<tpc, canbus_log>>
    /\ UNCHANGED <<handlerVars, thread_state, iotlogger>>

\* Mutant: the thread ends without announcing STOPPED.
ThreadStoppedSilently(l) ==
    /\ daemon = "up" /\ tpc[l] = "stopped"
    /\ tpc' = [tpc EXCEPT ![l] = IF type[l] = "FILE" THEN "done" ELSE "iotclose"]
    /\ UNCHANGED <<handlerVars, thread_state, canbus_log, iotlogger, daemon>>

\* the announcement that canbus_logger_stop waits for
ThreadStopped(l) ==
    /\ daemon = "up" /\ tpc[l] = "stopped"
    /\ thread_state' = [thread_state EXCEPT ![l] = "STOPPED"]
    /\ tpc' = [tpc EXCEPT ![l] = IF type[l] = "FILE" THEN "done" ELSE "iotclose"]
    /\ UNCHANGED <<handlerVars, canbus_log, iotlogger, daemon>>

\* canbus_iotlogger_close, after STOPPED: disconnect and free, then clear.
\* A client that is gone is dereferenced (null) or freed twice (freed).
IotloggerClose(l) ==
    /\ daemon = "up" /\ tpc[l] = "iotclose"
    /\ IF iotlogger = "open"
       THEN /\ iotlogger' = "freed"
            /\ tpc' = [tpc EXCEPT ![l] = "iotnull"] /\ UNCHANGED daemon
       ELSE daemon' = "crashed" /\ UNCHANGED <<tpc, iotlogger>>
    /\ UNCHANGED <<handlerVars, thread_state, canbus_log>>

IotloggerNull(l) ==
    /\ daemon = "up" /\ tpc[l] = "iotnull"
    /\ iotlogger' = "null"
    /\ tpc' = [tpc EXCEPT ![l] = "done"]
    /\ UNCHANGED <<handlerVars, thread_state, canbus_log, daemon>>

\* A thread whose logger is freed under it follows a pointer in freed memory:
\* it may read what was there before (the actions above), or the daemon dies.
UseAfterFree(l) ==
    /\ daemon = "up" /\ tpc[l] \in Touches /\ heap[l] = "freed"
    /\ daemon' = "crashed"
    /\ UNCHANGED <<handlerVars, thread_state, tpc, canbus_log, iotlogger>>

ThreadStep(l) ==
    \/ ThreadOpen(l) \/ ThreadLoop(l) \/ ThreadCheck(l) \/ ThreadReplay(l)
    \/ ThreadLogClose(l) \/ ThreadStopped(l)
    \/ IotloggerClose(l) \/ IotloggerNull(l) \/ UseAfterFree(l)

-----------------------------------------------------------------------------
Init ==
    /\ logger = NULL
    /\ heap = [l \in Loggers |-> "unused"]
    /\ type = [l \in Loggers |-> NONE]
    /\ isrunning = [l \in Loggers |-> FALSE]
    /\ thread_state = [l \in Loggers |-> "RUNNING"]
    /\ canbus = [l \in Loggers |-> "CLOSED"]
    /\ tpc = [l \in Loggers |-> "none"]
    /\ canbus_log = NULL
    /\ iotlogger = "null"
    /\ hpc = "idle" /\ hreq = NONE
    /\ reported = NONE
    /\ daemon = "up"
    /\ spacing = "kept"

Next ==
    \/ \E r \in Requests : Receive(r)
    \/ HandlerStep
    \/ \E l \in Loggers : ThreadStep(l) \/ Frame(l)

Spec == Init /\ [][Next]_vars

\* The scheduler runs the handler and every thread, and the vehicle's bus
\* keeps carrying frames.  Nothing obliges the shadow to send requests.
Fairness ==
    /\ WF_vars(HandlerStep)
    /\ \A l \in Loggers : WF_vars(ThreadStep(l)) /\ WF_vars(Frame(l))

FairSpec == Spec /\ Fairness

-----------------------------------------------------------------------------
(* Properties                                                              *)

\* Every variable has the values the code can give it.
TypeOK ==
    /\ logger \in Loggers \cup {NULL}
    /\ heap \in [Loggers -> {"unused", "live", "freed"}]
    /\ type \in [Loggers -> RequestTypes]
    /\ isrunning \in [Loggers -> BOOLEAN]
    /\ thread_state \in [Loggers -> ThreadStates]
    /\ canbus \in [Loggers -> CanStates]
    /\ tpc \in [Loggers -> ThreadPcs]
    /\ canbus_log \in Loggers \cup {NULL}
    /\ iotlogger \in {"null", "open", "freed"}
    /\ hpc \in HandlerPcs
    /\ hreq \in RequestTypes
    /\ reported \in RequestTypes
    /\ daemon \in {"up", "crashed"}
    /\ spacing \in {"kept", "broken"}

\* The handler's static pointer names the one logger that is allocated:
\* passthru_shadow_log_handler_handle neither leaks a logger, nor keeps or
\* frees again one that it freed, whatever requests arrive in whatever order.
OneLiveLogger == \A l \in Loggers : heap[l] = "live" <=> logger = l

\* canbus_logger_stop's handshake protects the file logger: as long as
\* canbus_filelogger_thread has pLogger to dereference, the log handler has
\* not freed it, even when isrunning was never initialised.
FileLoggerNotFreed ==
    \A l \in Loggers :
        type[l] = "FILE" /\ tpc[l] \in Touches => heap[l] = "live"

\* canbus_log is one static stream for all loggers: as long as no replay was
\* started, it is the stream that the file logger which writes to it, or
\* closes it, opened.  (A replay that is still reading when a file logger
\* starts has its stream replaced, and then closes the other's.)
NoReplay == \A l \in Loggers : type[l] # "REPLAY"
StreamOwned ==
    \A l \in Loggers :
        /\ type[l] = "FILE"
        /\ tpc[l] \in {"loop", "read", "check", "close"}
        => canbus_log = l
LogStreamOwned == NoReplay => StreamOwned

\* Every thread that publishes finds the iotlogger open, and no thread of any
\* kind has a freed logger to dereference: no thread's canbus_iotlogger_close,
\* which comes after STOPPED, takes the client from another, as long as no
\* request came between STOPPED and the end of such a thread.
ThreadResourcesLive ==
    spacing = "kept" => \A l \in Loggers :
        /\ /\ type[l] \in {"AWSIOT", "REPLAY"}
           /\ tpc[l] \in {"loop", "read", "check", "replay", "close", "stopped", "iotclose"}
           => iotlogger = "open"
        /\ tpc[l] \in Touches => heap[l] # "freed"

\* canbus_logger_stop returns if, as it begins to wait, the thread has opened
\* its file and has not yet announced STOPPED: the bus brings a frame, the
\* thread sees isrunning cleared and announces it.  (A thread whose file did
\* not open never announces STOPPED, and an announcement made before the stop
\* writes STOPPING is lost; then the daemon's MQTT thread waits for ever.)
StopReturns ==
    \A l \in Loggers :
        /\ hpc = "wait" /\ logger = l
        /\ tpc[l] \in {"loop", "read", "check", "replay", "close", "stopped"}
        ~> (hpc # "wait" \/ daemon = "crashed")
=============================================================================
