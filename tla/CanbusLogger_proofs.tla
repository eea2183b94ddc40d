------------------------ MODULE CanbusLogger_proofs ------------------------
(***************************************************************************)
(* Proofs about the data logger, for any number of logger objects and any  *)
(* sequence of log requests.                                               *)
(***************************************************************************)
EXTENDS CanbusLogger, TLAPS

\* The thread of a file logger that has not yet announced STOPPED.
FileActive(l) == type[l] = "FILE" /\ tpc[l] \in Touches \cup {"close"}

\* What the handler knows of its logger at each of its program points.
HandlerInv ==
    /\ hpc \in {"iotinit", "connect", "iotinit2", "create", "running",
                "stop", "stopping", "wait", "free"} => logger # NULL
    /\ hpc = "connect" => type[logger] \in {"FILE", "AWSIOT"}
    /\ hpc \in {"iotinit", "iotinit2"} => type[logger] \in {"AWSIOT", "REPLAY"}
    /\ hpc = "create" => /\ type[logger] \in {"FILE", "AWSIOT", "REPLAY"}
                         /\ type[logger] = "FILE" => isrunning[logger]

\* A logger that was never allocated has no type and no thread, and neither has a replay
\* without a file; only a file logger or a replay uses the log stream, and
\* only a replay reads from it.
ThreadInv ==
    \A l \in Loggers :
        /\ heap[l] = "unused" => tpc[l] = "none" /\ type[l] = NONE
        /\ tpc[l] # "none" => type[l] \in {"FILE", "AWSIOT", "REPLAY"}
        /\ tpc[l] \in {"open", "close"} => type[l] \in {"FILE", "REPLAY"}
        /\ tpc[l] = "replay" => type[l] = "REPLAY"

\* The handshake between canbus_logger_stop and the file thread: an active
\* thread has a live logger, isrunning is cleared only by a stop in progress,
\* and the stop that waits does not see STOPPED yet.
FileInv ==
    \A l \in Loggers : FileActive(l) =>
        /\ heap[l] = "live"
        /\ isrunning[l] \/ hpc \in {"stopping", "wait"}
        /\ hpc # "free"
        /\ hpc = "wait" => thread_state[l] # "STOPPED"

LoggerInv == TypeOK /\ OneLiveLogger /\ HandlerInv /\ ThreadInv /\ FileInv

-----------------------------------------------------------------------------
\* The invariant holds at the start.
LEMMA LoggerInit == Init => LoggerInv
<1> SUFFICES ASSUME Init PROVE LoggerInv
  OBVIOUS
<1> USE LoggerAssumption DEF Init
<1>1. TypeOK
  BY DEF TypeOK, RequestTypes, NONE, ThreadStates, CanStates, ThreadPcs, HandlerPcs
<1>2. OneLiveLogger
  BY DEF OneLiveLogger
<1>3. HandlerInv
  BY DEF HandlerInv
<1>4. ThreadInv
  BY DEF ThreadInv
<1>5. FileInv
  BY DEF FileInv, FileActive, Touches
<1>6. QED
  BY <1>1, <1>2, <1>3, <1>4, <1>5 DEF LoggerInv

\* One step of any process keeps the type invariant.
LEMMA LoggerType == LoggerInv /\ [Next]_vars => TypeOK'
<1> SUFFICES ASSUME LoggerInv, [Next]_vars PROVE TypeOK'
  OBVIOUS
<1> USE LoggerAssumption DEF LoggerInv, TypeOK, RequestTypes, NONE,
        ThreadStates, CanStates, ThreadPcs, HandlerPcs, heapVars, handlerVars
<1>1. ASSUME NEW r \in Requests, Receive(r) PROVE TypeOK'
  BY <1>1 DEF Receive
<1>2. CASE Abort /\ UNCHANGED spacing
  BY <1>2 DEF Abort
<1>3. ASSUME NEW l \in Loggers, InitLogger(l), UNCHANGED spacing PROVE TypeOK'
  BY <1>3 DEF InitLogger, AfterInit
<1>4. CASE AwsiotInit /\ UNCHANGED spacing
  BY <1>4 DEF AwsiotInit
<1>5. CASE ConnectCan /\ UNCHANGED spacing
  <2>1. isrunning' \in [Loggers -> BOOLEAN]
    BY <1>5 DEF ConnectCan
  <2>2. canbus' \in [Loggers -> CanStates] /\ hpc' \in HandlerPcs
    BY <1>5 DEF ConnectCan
  <2>3. QED
    BY <1>5, <2>1, <2>2 DEF ConnectCan
<1>6. CASE CreateThread /\ UNCHANGED spacing
  BY <1>6 DEF CreateThread
<1>7. CASE SetRunning /\ UNCHANGED spacing
  BY <1>7 DEF SetRunning
<1>8. CASE DispatchStop /\ UNCHANGED spacing
  BY <1>8 DEF DispatchStop
<1>9. CASE ClearRunning /\ UNCHANGED spacing
  BY <1>9 DEF ClearRunning
<1>10. CASE SetStopping /\ UNCHANGED spacing
  BY <1>10 DEF SetStopping
<1>11. CASE StopWait /\ UNCHANGED spacing
  BY <1>11 DEF StopWait
<1>12. CASE FreeLogger /\ UNCHANGED spacing
  BY <1>12 DEF FreeLogger
<1>13. CASE SendReport /\ UNCHANGED spacing
  BY <1>13 DEF SendReport
<1>14. ASSUME NEW l \in Loggers, ThreadStep(l) PROVE TypeOK'
  <2>1. CASE ThreadOpen(l)
    BY <2>1 DEF ThreadOpen
  <2>2. CASE ThreadLoop(l)
    BY <2>2 DEF ThreadLoop, AfterLoop
  <2>3. CASE ThreadCheck(l)
    <3>1. tpc' \in [Loggers -> ThreadPcs] /\ daemon' \in {"up", "crashed"}
      BY <2>3 DEF ThreadCheck, AfterLoop
    <3>2. QED
      BY <2>3, <3>1 DEF ThreadCheck
  <2>4. CASE ThreadReplay(l)
    BY <2>4 DEF ThreadReplay
  <2>5. CASE ThreadLogClose(l)
    BY <2>5 DEF ThreadLogClose
  <2>6. CASE ThreadStopped(l)
    BY <2>6 DEF ThreadStopped
  <2>7. CASE IotloggerClose(l)
    BY <2>7 DEF IotloggerClose
  <2>8. CASE IotloggerNull(l)
    BY <2>8 DEF IotloggerNull
  <2>9. CASE UseAfterFree(l)
    BY <2>9 DEF UseAfterFree
  <2>10. QED
    BY <1>14, <2>1, <2>2, <2>3, <2>4, <2>5, <2>6, <2>7, <2>8, <2>9 DEF ThreadStep
<1>15. ASSUME NEW l \in Loggers, Frame(l) PROVE TypeOK'
  BY <1>15 DEF Frame
<1>16. CASE UNCHANGED vars
  BY <1>16 DEF vars
<1>17. QED
  BY <1>1, <1>2, <1>3, <1>4, <1>5, <1>6, <1>7, <1>8, <1>9, <1>10, <1>11,
     <1>12, <1>13, <1>14, <1>15, <1>16 DEF Next, HandlerStep

\* A step of the handler keeps the rest of the invariant.
LEMMA HandlerKeeps ==
    ASSUME LoggerInv, TypeOK', HandlerStep \/ \E r \in Requests : Receive(r)
    PROVE  OneLiveLogger' /\ HandlerInv' /\ ThreadInv' /\ FileInv'
<1> USE LoggerAssumption DEF LoggerInv, TypeOK, OneLiveLogger, HandlerInv,
        ThreadInv, FileInv, FileActive, Touches, NONE, heapVars
<1> DEFINE Goal == OneLiveLogger' /\ HandlerInv' /\ ThreadInv' /\ FileInv'
<1>1. ASSUME NEW r \in Requests, Receive(r) PROVE Goal
  BY <1>1 DEF Receive
<1>2. ASSUME NEW l \in Loggers, InitLogger(l) PROVE Goal
  BY <1>2 DEF InitLogger, AfterInit, RequestTypes
<1>3. CASE Abort
  BY <1>3 DEF Abort
<1>4. CASE AwsiotInit
  BY <1>4 DEF AwsiotInit
<1>5. CASE ConnectCan
  BY <1>5 DEF ConnectCan
<1>6. CASE CreateThread
  BY <1>6 DEF CreateThread
<1>7. CASE SetRunning
  BY <1>7 DEF SetRunning
<1>8. CASE DispatchStop
  BY <1>8 DEF DispatchStop
<1>9. CASE ClearRunning
  BY <1>9 DEF ClearRunning
<1>10. CASE SetStopping
  BY <1>10 DEF SetStopping
<1>11. CASE StopWait
  BY <1>11 DEF StopWait
<1>12. CASE FreeLogger
  BY <1>12 DEF FreeLogger
<1>13. CASE SendReport
  BY <1>13 DEF SendReport
<1>14. QED
  BY <1>1, <1>2, <1>3, <1>4, <1>5, <1>6, <1>7, <1>8, <1>9, <1>10, <1>11, <1>12, <1>13 DEF HandlerStep

\* A step of a logger thread, or a frame on the bus, keeps it.
LEMMA ThreadKeeps ==
    ASSUME LoggerInv, TypeOK', NEW l \in Loggers, ThreadStep(l) \/ Frame(l)
    PROVE  OneLiveLogger' /\ HandlerInv' /\ ThreadInv' /\ FileInv'
<1> USE LoggerAssumption DEF LoggerInv, TypeOK, OneLiveLogger, HandlerInv,
        ThreadInv, FileInv, FileActive, Touches, NONE, handlerVars
<1> DEFINE Goal == OneLiveLogger' /\ HandlerInv' /\ ThreadInv' /\ FileInv'
<1>1. CASE ThreadOpen(l)
  BY <1>1 DEF ThreadOpen
<1>2. CASE ThreadLoop(l)
  BY <1>2 DEF ThreadLoop, AfterLoop
<1>3. CASE ThreadCheck(l)
  <2>1. /\ UNCHANGED <<logger, heap, type, isrunning, hpc, thread_state>>
        /\ tpc[l] = "check"
    BY <1>3 DEF ThreadCheck
  <2>2. \/ UNCHANGED tpc
        \/ tpc' = [tpc EXCEPT ![l] = "loop"]
        \/ tpc' = [tpc EXCEPT ![l] = AfterLoop(l)]
    BY <1>3 DEF ThreadCheck
  <2>3. OneLiveLogger' /\ HandlerInv'
    BY <2>1
  <2>4. ThreadInv'
    BY <2>1, <2>2 DEF AfterLoop
  <2>5. FileInv'
    BY <2>1, <2>2 DEF AfterLoop
  <2>6. QED
    BY <2>3, <2>4, <2>5
<1>4. CASE ThreadReplay(l)
  BY <1>4 DEF ThreadReplay
<1>5. CASE ThreadLogClose(l)
  BY <1>5 DEF ThreadLogClose
<1>6. CASE ThreadStopped(l)
  BY <1>6 DEF ThreadStopped
<1>7. CASE IotloggerClose(l)
  BY <1>7 DEF IotloggerClose
<1>8. CASE IotloggerNull(l)
  BY <1>8 DEF IotloggerNull
<1>9. CASE UseAfterFree(l)
  BY <1>9 DEF UseAfterFree
<1>10. CASE Frame(l)
  BY <1>10 DEF Frame
<1>11. QED
  BY <1>1, <1>2, <1>3, <1>4, <1>5, <1>6, <1>7, <1>8, <1>9, <1>10 DEF ThreadStep

\* Every step keeps the invariant.
LEMMA LoggerStep == LoggerInv /\ [Next]_vars => LoggerInv'
<1> SUFFICES ASSUME LoggerInv, [Next]_vars PROVE LoggerInv'
  OBVIOUS
<1>1. TypeOK'
  BY LoggerType
<1>2. CASE HandlerStep \/ \E r \in Requests : Receive(r)
  BY <1>1, <1>2, HandlerKeeps DEF LoggerInv
<1>3. CASE \E l \in Loggers : ThreadStep(l) \/ Frame(l)
  BY <1>1, <1>3, ThreadKeeps DEF LoggerInv
<1>4. CASE UNCHANGED vars
  BY <1>1, <1>4 DEF LoggerInv, OneLiveLogger, HandlerInv, ThreadInv, FileInv,
     FileActive, vars
<1>5. QED
  BY <1>2, <1>3, <1>4 DEF Next

\* The invariant holds in every state.
LEMMA LoggerInvariant == Spec => []LoggerInv
  BY LoggerInit, LoggerStep, PTL DEF Spec

-----------------------------------------------------------------------------
\* Every variable of the logger keeps its type: in particular a thread leaves
\* the states of its code path only as the code does.
THEOREM LoggerTypeCorrect == Spec => []TypeOK
  BY LoggerInvariant, PTL DEF LoggerInv

\* The handler of passthru_shadow_log_handler.c owns exactly the one logger
\* that is allocated.
THEOREM LoggerOwnership == Spec => []OneLiveLogger
  BY LoggerInvariant, PTL DEF LoggerInv

\* The handshake of canbus_logger_stop keeps a file logger allocated as long
\* as canbus_filelogger_thread may dereference it.
THEOREM FileLoggerSafe == Spec => []FileLoggerNotFreed
<1>1. LoggerInv => FileLoggerNotFreed
  BY DEF LoggerInv, FileInv, FileActive, FileLoggerNotFreed
<1>2. QED
  BY <1>1, LoggerInvariant, PTL

-----------------------------------------------------------------------------
\* Without replays the log stream is only used by file threads, of which, by
\* FileInv and OneLiveLogger, at most one is active.
StreamInv == NoReplay /\ StreamOwned

\* A logger's type is written once.
LEMMA ReplayStays ==
    ASSUME LoggerInv, [Next]_vars, NoReplay'
    PROVE  NoReplay
<1> USE LoggerAssumption DEF LoggerInv, NoReplay, TypeOK, NONE
<1>1. ASSUME NEW l \in Loggers, InitLogger(l) PROVE NoReplay
  <2>1. type[l] = NONE /\ type' = [type EXCEPT ![l] = hreq]
    BY <1>1 DEF InitLogger, ThreadInv
  <2>2. \A m \in Loggers : m # l => type'[m] = type[m]
    BY <2>1
  <2>3. QED
    BY <2>1, <2>2
<1>2. CASE UNCHANGED type
  BY <1>2
<1>3. CASE HandlerStep
  <2>1. (\E l \in Loggers : InitLogger(l)) \/ UNCHANGED type
    BY <1>3 DEF HandlerStep, Abort, AwsiotInit, ConnectCan, CreateThread, SetRunning,
       DispatchStop, ClearRunning, SetStopping, StopWait, FreeLogger, SendReport, heapVars
  <2>2. QED
    BY <1>1, <1>2, <2>1
<1>4. ASSUME NEW l \in Loggers, ThreadStep(l) \/ Frame(l) PROVE NoReplay
  <2>1. UNCHANGED type
    BY <1>4 DEF ThreadStep, Frame, ThreadOpen, ThreadLoop, ThreadCheck, ThreadReplay,
       ThreadLogClose, ThreadStopped, IotloggerClose, IotloggerNull, UseAfterFree, handlerVars, heapVars
  <2>2. QED
    BY <1>2, <2>1
<1>5. ASSUME NEW r \in Requests, Receive(r) PROVE NoReplay
  BY <1>2, <1>5 DEF Receive, heapVars
<1>6. CASE UNCHANGED vars
  BY <1>2, <1>6 DEF vars, heapVars, handlerVars
<1>7. QED
  BY <1>3, <1>4, <1>5, <1>6 DEF Next

\* Every step keeps the invariant of the record stream.
LEMMA StreamStep ==
    ASSUME LoggerInv, LoggerInv', StreamInv, NoReplay', [Next]_vars
    PROVE  StreamInv'
<1> USE LoggerAssumption DEF LoggerInv, StreamInv, NoReplay, StreamOwned, TypeOK, NONE
<1>1. ASSUME NEW r \in Requests, Receive(r) PROVE StreamInv'
  BY <1>1 DEF Receive, heapVars
<1>2. ASSUME NEW l \in Loggers, InitLogger(l) PROVE StreamInv'
  <2>1. tpc[l] = "none"
    BY <1>2 DEF InitLogger, ThreadInv
  <2>2. QED
    BY <1>2, <2>1 DEF InitLogger
<1>3. CASE CreateThread
  BY <1>3 DEF CreateThread, HandlerInv, heapVars
<1>4. CASE HandlerStep /\ UNCHANGED <<type, tpc>>
  BY <1>4 DEF HandlerStep, InitLogger, Abort, AwsiotInit, ConnectCan, SetRunning, DispatchStop, ClearRunning, SetStopping, StopWait, FreeLogger, SendReport,
     CreateThread, heapVars
<1>5. CASE HandlerStep
  BY <1>2, <1>3, <1>4, <1>5 DEF HandlerStep, Abort, AwsiotInit, ConnectCan, SetRunning, DispatchStop, ClearRunning, SetStopping, StopWait, FreeLogger, SendReport, heapVars
<1>6. ASSUME NEW l \in Loggers, tpc[l] \in {"open", "close"},
             NEW m \in Loggers, type[m] = "FILE", m # l
      PROVE  tpc[m] \notin {"loop", "read", "check", "close"}
  BY <1>6 DEF ThreadInv, FileInv, FileActive, Touches, OneLiveLogger
<1>7. ASSUME NEW l \in Loggers, ThreadStep(l) \/ Frame(l) PROVE StreamInv'
  <2> USE DEF handlerVars
  <2>1. CASE ThreadOpen(l)
    BY <1>6, <2>1 DEF ThreadOpen
  <2>2. CASE ThreadLogClose(l)
    <3>1. /\ UNCHANGED type
          /\ tpc[l] = "close"
          /\ \/ tpc' = [tpc EXCEPT ![l] = "stopped"]
             \/ UNCHANGED <<tpc, canbus_log>>
      BY <2>2 DEF ThreadLogClose
    <3>2. \A m \in Loggers \ {l} :
            type[m] = "FILE" => tpc[m] \notin {"loop", "read", "check", "close"}
      BY <1>6, <3>1
    <3>3. QED
      BY <3>1, <3>2
  <2>3. CASE ThreadLoop(l)
    BY <2>3 DEF ThreadLoop, AfterLoop
  <2>4. CASE ThreadCheck(l)
    <3>1. /\ UNCHANGED <<type, canbus_log>>
          /\ tpc[l] = "check"
      BY <2>4 DEF ThreadCheck
    <3>2. \/ UNCHANGED tpc
          \/ tpc' = [tpc EXCEPT ![l] = "loop"]
          \/ tpc' = [tpc EXCEPT ![l] = AfterLoop(l)]
      BY <2>4 DEF ThreadCheck
    <3>3. QED
      BY <3>1, <3>2 DEF AfterLoop
  <2>5. CASE ThreadReplay(l)
    BY <2>5 DEF ThreadReplay, ThreadInv
  <2>6. CASE ThreadStopped(l) \/ IotloggerClose(l) \/ IotloggerNull(l) \/ UseAfterFree(l)
    BY <2>6 DEF ThreadStopped, IotloggerClose, IotloggerNull, UseAfterFree
  <2>7. CASE Frame(l)
    BY <2>7 DEF Frame
  <2>8. QED
    BY <1>7, <2>1, <2>2, <2>3, <2>4, <2>5, <2>6, <2>7 DEF ThreadStep
<1>8. CASE UNCHANGED vars
  BY <1>8 DEF vars
<1>9. QED
  BY <1>1, <1>5, <1>7, <1>8 DEF Next

\* As long as no replay was started, the static stream of canbus_log.c is the
\* one opened by the file logger that writes to it or closes it.
THEOREM LogStreamSafe == Spec => []LogStreamOwned
<1>1. Init => LogStreamOwned
  BY LoggerAssumption DEF Init, LogStreamOwned, StreamOwned, NONE
<1>2. LoggerInv /\ LoggerInv' /\ LogStreamOwned /\ [Next]_vars => LogStreamOwned'
  BY ReplayStays, StreamStep DEF StreamInv, LogStreamOwned
<1>3. QED
  BY <1>1, <1>2, LoggerInvariant, PTL DEF Spec

-----------------------------------------------------------------------------
(* The loggers that publish to AWS IoT.  They share one iotlogger, and their *)
(* threads announce STOPPED before they close it, so that a logger may be    *)
(* freed under its thread; what keeps the next logger from using the client  *)
(* that thread takes away is that no request comes in between.              *)
IotTypes == {"AWSIOT", "REPLAY"}
IotPoints == {"open", "loop", "read", "check", "replay", "close", "stopped", "iotclose"}
Announced == {"iotclose", "iotnull", "done"}

\* At most one freed logger still has a thread, only while the handler waits
\* for a request, and there is no other logger then.
Ended ==
    \A l, m \in Loggers :
        /\ heap[l] = "freed" /\ Alive(l) => logger = NULL /\ hpc \in {"idle", "report"}
        /\ heap[l] = "freed" /\ Alive(l) /\ heap[m] = "freed" /\ Alive(m) => l = m

\* What the handler has prepared when it creates a thread: canbus_awsiotlogger_init
\* found no client that another thread would still close.
Prepared ==
    /\ hpc \in {"iotinit", "connect", "iotinit2", "create"} => tpc[logger] = "none"
    /\ hpc = "iotinit" => iotlogger = "null"
    /\ hpc \in {"connect", "iotinit2", "create"} /\ type[logger] \in IotTypes => iotlogger = "open"

\* The client is there for the present logger or for a thread that closes it.
Accounted ==
    iotlogger # "null" =>
        \E l \in Loggers : type[l] \in IotTypes /\ (logger = l \/ Alive(l))

\* The handshake with such a thread: it publishes through an open client, its
\* logger is the present one until it announces STOPPED, and the stop returns
\* only after that.
IotThread(l) ==
    /\ tpc[l] \in IotPoints => iotlogger = "open"
    /\ tpc[l] \in IotPoints \ {"iotclose"} => logger = l
    /\ tpc[l] = "done" /\ logger = l => iotlogger = "null"
    /\ logger = l => isrunning[l] \/ hpc \in {"iotinit", "stopping", "wait", "free"}
    /\ logger = l /\ (hpc = "free" \/ (hpc = "wait" /\ thread_state[l] = "STOPPED")) => tpc[l] \in Announced
IotInv ==
    \A l \in Loggers :
        /\ tpc[l] \in {"iotclose", "iotnull"} => type[l] \in IotTypes
        /\ type[l] \in IotTypes => IotThread(l)

Spaced == Ended /\ Prepared /\ Accounted /\ IotInv
SpacedInv == spacing = "kept" => Spaced

\* At most one thread is alive: that of the logger, or that of one freed.
LEMMA OneThread ==
    ASSUME LoggerInv, Ended, NEW l \in Loggers, NEW m \in Loggers, Alive(l), Alive(m)
    PROVE  l = m
<1>1. heap[l] \in {"live", "freed"} /\ heap[m] \in {"live", "freed"}
  BY DEF LoggerInv, TypeOK, ThreadInv, Alive
<1>2. logger # NULL => heap[l] # "freed" /\ heap[m] # "freed"
  BY DEF Ended
<1> QED
  BY <1>1, <1>2, LoggerAssumption DEF LoggerInv, OneLiveLogger, Ended

\* A request that finds the threads of the freed loggers ended.
LEMMA SpacedReceive ==
    ASSUME LoggerInv, Spaced, NEW r \in Requests, Receive(r), spacing' = "kept"
    PROVE  Spaced'
<1>1. \A l \in Loggers : heap[l] = "freed" => ~Alive(l)
  BY DEF Receive
<1>2. UNCHANGED <<logger, heap, type, isrunning, thread_state, tpc, iotlogger>> /\ hpc = "idle" /\ hpc' = "dispatch"
  BY DEF Receive, heapVars
<1>3. Ended'
  BY <1>1, <1>2 DEF Ended, Alive
<1>4. Prepared' /\ Accounted'
  BY <1>2 DEF Spaced, Prepared, Accounted, Alive
<1>5. IotInv'
  BY <1>2 DEF Spaced, IotInv, IotThread
<1> QED
  BY <1>3, <1>4, <1>5 DEF Spaced

\* A new logger finds no client: there is no logger and no thread is left.
LEMMA SpacedInit ==
    ASSUME LoggerInv, LoggerInv', Spaced, NEW l \in Loggers, InitLogger(l)
    PROVE  Spaced'
<1> USE LoggerAssumption DEF LoggerInv, TypeOK
<1>1. /\ hpc = "dispatch" /\ logger = NULL /\ heap[l] = "unused" /\ tpc[l] = "none"
      /\ logger' = l /\ heap' = [heap EXCEPT ![l] = "live"] /\ type' = [type EXCEPT ![l] = hreq]
      /\ UNCHANGED <<tpc, iotlogger>> /\ hpc' = AfterInit(hreq)
  BY DEF InitLogger, ThreadInv
<1>2. \A m \in Loggers : ~Alive(m)
  <2> SUFFICES ASSUME NEW m \in Loggers, Alive(m) PROVE FALSE
    OBVIOUS
  <2>1. heap[m] # "unused" /\ heap[m] # "live"
    BY <1>1 DEF ThreadInv, Alive, OneLiveLogger
  <2> QED
    BY <1>1, <2>1 DEF Spaced, Ended
<1>3. iotlogger = "null"
  BY <1>1, <1>2 DEF Spaced, Accounted
<1>4. Ended' /\ Accounted'
  BY <1>1, <1>2, <1>3 DEF Ended, Accounted, Alive
<1>5. Prepared'
  BY <1>1, <1>3 DEF Prepared, AfterInit, IotTypes, RequestTypes, NONE
<1>6. IotInv'
  <2>1. \A m \in Loggers : tpc[m] \in {"none", "done"}
    BY <1>2 DEF Alive
  <2>2. \A m \in Loggers : m # l => logger' # m
    BY <1>1
  <2>3. type'[l] \in IotTypes => hpc' = "iotinit"
    BY <1>1 DEF AfterInit, IotTypes
  <2> QED
    BY <1>1, <1>3, <2>1, <2>2, <2>3 DEF IotInv, IotThread, IotPoints
<1> QED
  BY <1>4, <1>5, <1>6 DEF Spaced

\* canbus_awsiotlogger_init opens the client and sets isrunning, the first
\* time it is called for the logger.
LEMMA SpacedIot ==
    ASSUME LoggerInv, LoggerInv', Spaced, AwsiotInit
    PROVE  Spaced'
<1> USE LoggerAssumption DEF LoggerInv, TypeOK
<1>1. /\ hpc \in {"iotinit", "iotinit2"} /\ UNCHANGED <<logger, heap, type, thread_state, tpc>>
      /\ hpc' \in {"create", "connect", "iotinit2"}
      /\ \/ iotlogger # "null" /\ UNCHANGED <<iotlogger, isrunning>>
         \/ iotlogger = "null" /\ iotlogger' = "open" /\ isrunning' = [isrunning EXCEPT ![logger] = TRUE]
  BY DEF AwsiotInit, heapVars
<1>2. logger \in Loggers /\ type[logger] \in IotTypes /\ tpc[logger] = "none"
  BY <1>1 DEF HandlerInv, Spaced, Prepared, IotTypes
<1>3. iotlogger' = "open"
  BY <1>1, <1>2 DEF Spaced, Prepared
<1>4. \A m \in Loggers : heap[m] = "freed" => ~Alive(m)
  BY <1>1 DEF Spaced, Ended
<1>5. \A m \in Loggers : ~Alive(m)
  BY <1>2, <1>4 DEF Alive, ThreadInv, OneLiveLogger
<1>6. isrunning'[logger]
  BY <1>1, <1>2 DEF Spaced, Prepared, IotInv, IotThread
<1>7. Ended' /\ Accounted' /\ Prepared'
  BY <1>1, <1>2, <1>3, <1>4 DEF Ended, Accounted, Prepared, Alive
<1>8. IotInv'
  <2>1. \A m \in Loggers : tpc[m] \in {"none", "done"} /\ (logger = m => tpc[m] = "none")
    BY <1>2, <1>5 DEF Alive
  <2> QED
    BY <1>1, <1>2, <1>6, <2>1 DEF IotInv, IotThread, IotPoints
<1> QED
  BY <1>7, <1>8 DEF Spaced

\* The steps of the handler between the client and the thread, and to the report.
LEMMA SpacedHandler ==
    ASSUME LoggerInv, LoggerInv', Spaced, Abort \/ ConnectCan \/ SetRunning \/ DispatchStop \/ SendReport
    PROVE  Spaced'
<1> USE LoggerAssumption DEF LoggerInv, TypeOK
<1>1. UNCHANGED <<logger, heap, type, tpc, iotlogger>>
  BY DEF Abort, ConnectCan, SetRunning, DispatchStop, SendReport, heapVars
<1>2. Accounted'
  BY <1>1 DEF Spaced, Accounted, Alive
<1>3. Ended'
  BY <1>1 DEF Spaced, Ended, Alive, Abort, ConnectCan, SetRunning, DispatchStop, SendReport
<1>4. Prepared'
  <2>1. hpc' \in {"idle", "report", "stop", "free"} \/ (ConnectCan /\ hpc' \in {"create", "iotinit2"})
    BY DEF Abort, ConnectCan, SetRunning, DispatchStop, SendReport
  <2> QED
    BY <1>1, <2>1 DEF Spaced, Prepared, ConnectCan
<1>5. IotInv'
  <2>1. CASE DispatchStop
    <3>1. UNCHANGED <<isrunning, thread_state>> /\ hpc = "dispatch" /\ logger \in Loggers
          /\ hpc' = IF isrunning[logger] THEN "stop" ELSE "free"
      BY <2>1 DEF DispatchStop
    <3>2. type[logger] \in IotTypes => isrunning[logger]
      BY <3>1 DEF Spaced, IotInv, IotThread
    <3> QED
      BY <1>1, <3>1, <3>2 DEF Spaced, IotInv, IotThread
  <2>2. CASE ConnectCan
    <3>1. /\ \A l \in Loggers : isrunning[l] => isrunning'[l]
          /\ UNCHANGED thread_state /\ hpc = "connect" /\ hpc' \in {"create", "iotinit2", "report"}
      BY <2>2 DEF ConnectCan
    <3> QED
      BY <1>1, <3>1 DEF Spaced, IotInv, IotThread
  <2>3. CASE SetRunning
    <3>1. UNCHANGED isrunning /\ hpc = "running" /\ hpc' = "report"
      BY <2>3 DEF SetRunning
    <3> QED
      BY <1>1, <3>1 DEF Spaced, IotInv, IotThread
  <2>4. CASE Abort \/ SendReport
    <3>1. UNCHANGED <<isrunning, thread_state>> /\ hpc \in {"dispatch", "report"} /\ hpc' = "idle"
      BY <2>4 DEF Abort, SendReport
    <3> QED
      BY <1>1, <3>1 DEF Spaced, IotInv, IotThread
  <2> QED
    BY <2>1, <2>2, <2>3, <2>4
<1> QED
  BY <1>2, <1>3, <1>4, <1>5 DEF Spaced

\* The new thread is the only one, and its client is open.
LEMMA SpacedCreate ==
    ASSUME LoggerInv, LoggerInv', Spaced, CreateThread
    PROVE  Spaced'
<1> USE LoggerAssumption DEF LoggerInv, TypeOK
<1>1. /\ hpc = "create" /\ hpc' \in {"report", "running"} /\ logger \in Loggers
      /\ UNCHANGED <<logger, heap, type, isrunning, thread_state, iotlogger>>
      /\ UNCHANGED tpc \/ \E p \in {"loop", "open"} : tpc' = [tpc EXCEPT ![logger] = p]
  BY DEF CreateThread, HandlerInv, heapVars
<1>2. \A m \in Loggers : ~Alive(m)
  BY <1>1 DEF Spaced, Ended, Prepared, Alive, ThreadInv, OneLiveLogger
<1>3. \A m \in Loggers : m # logger => tpc'[m] = tpc[m]
  BY <1>1
<1>4. heap[logger] = "live"
  BY <1>1 DEF OneLiveLogger
<1>5. Ended' /\ Prepared'
  BY <1>1, <1>2, <1>3, <1>4 DEF Ended, Prepared, Alive
<1>6. Accounted'
  <2>1. iotlogger # "null" => \E l \in Loggers : type[l] \in IotTypes /\ logger = l
    BY <1>2 DEF Spaced, Accounted
  <2> QED
    BY <1>1, <2>1 DEF Accounted
<1>7. IotInv'
  <2>1. \A m \in Loggers : m # logger => tpc'[m] \in {"none", "done"}
    BY <1>2, <1>3 DEF Alive
  <2>2. tpc'[logger] \in {"none", "loop", "open"}
    BY <1>1 DEF Spaced, Prepared
  <2>3. type[logger] \in IotTypes => iotlogger = "open" /\ isrunning[logger]
    BY <1>1 DEF Spaced, Prepared, IotInv, IotThread
  <2> QED
    BY <1>1, <2>1, <2>2, <2>3 DEF IotInv, IotThread, IotPoints
<1> QED
  BY <1>5, <1>6, <1>7 DEF Spaced

\* canbus_logger_stop: it waits until the thread announces STOPPED, which a
\* thread cannot have done since SetStopping.
LEMMA SpacedStop ==
    ASSUME LoggerInv, LoggerInv', Spaced, ClearRunning \/ SetStopping \/ StopWait
    PROVE  Spaced'
<1> USE LoggerAssumption DEF LoggerInv, TypeOK
<1>1. UNCHANGED <<logger, heap, type, tpc, iotlogger>>
  BY DEF ClearRunning, SetStopping, StopWait, heapVars
<1>2. hpc' \in {"stopping", "wait", "free"} /\ hpc \in {"stop", "stopping", "wait"} /\ logger \in Loggers
  BY DEF ClearRunning, SetStopping, StopWait, HandlerInv
<1>3. Ended' /\ Prepared' /\ Accounted'
  BY <1>1, <1>2 DEF Spaced, Ended, Prepared, Accounted, Alive
<1>4. \/ hpc' = "stopping"
      \/ hpc' = "wait" /\ thread_state'[logger] = "STOPPING"
      \/ hpc' = "free" /\ hpc = "wait" /\ thread_state[logger] = "STOPPED"
  BY <1>2 DEF ClearRunning, SetStopping, StopWait
<1>5. IotInv'
  <2> SUFFICES ASSUME NEW l \in Loggers, type[l] \in IotTypes PROVE IotThread(l)'
    BY <1>1 DEF Spaced, IotInv
  <2>1. IotThread(l)
    BY DEF Spaced, IotInv
  <2> QED
    BY <1>1, <1>2, <1>4, <2>1 DEF IotThread
<1> QED
  BY <1>3, <1>5 DEF Spaced

\* The logger that is freed has a thread that only closes the client, or none.
LEMMA SpacedFree ==
    ASSUME LoggerInv, LoggerInv', Spaced, FreeLogger
    PROVE  Spaced'
<1> USE LoggerAssumption DEF LoggerInv, TypeOK
<1>1. /\ hpc = "free" /\ hpc' = "report" /\ logger \in Loggers /\ logger' = NULL
      /\ heap' = [heap EXCEPT ![logger] = "freed"]
      /\ UNCHANGED <<type, isrunning, thread_state, tpc, iotlogger>>
  BY DEF FreeLogger, HandlerInv
<1>2. \A m \in Loggers : heap[m] = "freed" => ~Alive(m)
  BY <1>1 DEF Spaced, Ended
<1>3. Ended'
  <2>1. \A m \in Loggers : heap'[m] = "freed" /\ Alive(m) => m = logger
    BY <1>1, <1>2
  <2> QED
    BY <1>1, <2>1 DEF Ended, Alive
<1>4. Prepared'
  BY <1>1 DEF Prepared
<1>5. type[logger] \in IotTypes => tpc[logger] \in Announced
  BY <1>1 DEF Spaced, IotInv, IotThread
<1>6. Accounted'
  <2> SUFFICES ASSUME iotlogger # "null" PROVE \E l \in Loggers : type[l] \in IotTypes /\ Alive(l)
    BY <1>1 DEF Accounted, Alive
  <2>1. PICK l \in Loggers : type[l] \in IotTypes /\ (logger = l \/ Alive(l))
    BY DEF Spaced, Accounted
  <2>2. CASE logger = l
    <3>1. tpc[l] # "done"
      BY <2>1, <2>2 DEF Spaced, IotInv, IotThread
    <3> QED
      BY <1>5, <2>1, <2>2, <3>1 DEF Announced, Alive
  <2> QED
    BY <2>1, <2>2
<1>7. IotInv'
  <2>1. \A m \in Loggers : type[m] \in IotTypes => ~(tpc[m] \in IotPoints \ {"iotclose"})
    BY <1>1, <1>5 DEF Spaced, IotInv, IotThread, IotPoints, Announced
  <2> QED
    BY <1>1, <2>1 DEF Spaced, IotInv, IotThread
<1> QED
  BY <1>3, <1>4, <1>6, <1>7 DEF Spaced

\* What a step of one thread may change: its own place, and what it leaves of
\* the client.
LEMMA SpacedThread ==
    ASSUME LoggerInv, LoggerInv', Spaced, NEW l \in Loggers, ThreadStep(l) \/ Frame(l)
    PROVE  Spaced'
<1> USE LoggerAssumption DEF LoggerInv, TypeOK
<1>1. UNCHANGED <<logger, heap, type, isrunning, hpc>>
  BY DEF ThreadStep, Frame, ThreadOpen, ThreadLoop, ThreadCheck, ThreadReplay, ThreadLogClose, ThreadStopped,
         IotloggerClose, IotloggerNull, UseAfterFree, handlerVars
<1>2. Alive(l)
  BY DEF ThreadStep, Frame, ThreadOpen, ThreadLoop, ThreadCheck, ThreadReplay, ThreadLogClose, ThreadStopped,
         IotloggerClose, IotloggerNull, UseAfterFree, Alive, Touches
<1>3. /\ \A m \in Loggers : m # l => tpc'[m] = tpc[m] /\ thread_state'[m] = thread_state[m]
      /\ \A m \in Loggers : m # l => ~Alive(m)
  <2>1. (\E p : tpc' = [tpc EXCEPT ![l] = p]) \/ UNCHANGED tpc
    BY DEF ThreadStep, Frame, ThreadOpen, ThreadLoop, ThreadCheck, ThreadReplay, ThreadLogClose, ThreadStopped,
           IotloggerClose, IotloggerNull, UseAfterFree
  <2>2. (\E s : thread_state' = [thread_state EXCEPT ![l] = s]) \/ UNCHANGED thread_state
    BY DEF ThreadStep, Frame, ThreadOpen, ThreadLoop, ThreadCheck, ThreadReplay, ThreadLogClose, ThreadStopped,
           IotloggerClose, IotloggerNull, UseAfterFree
  <2>3. \A m \in Loggers : m # l => ~Alive(m)
    BY <1>2, OneThread DEF Spaced
  <2> QED
    BY <2>1, <2>2, <2>3
<1>4. tpc'[l] # "none"
  BY <1>2 DEF ThreadStep, Frame, ThreadOpen, ThreadLoop, ThreadCheck, ThreadReplay, ThreadLogClose, ThreadStopped,
         IotloggerClose, IotloggerNull, UseAfterFree, AfterLoop, Alive
<1>5. Ended'
  BY <1>1, <1>2, <1>3 DEF Spaced, Ended, Alive
<1>6. Prepared'
  <2>1. hpc \in {"iotinit", "connect", "iotinit2", "create"} => logger # l /\ logger \in Loggers
    BY <1>2 DEF Spaced, Prepared, Alive, HandlerInv
  <2>2. hpc \in {"iotinit", "connect", "iotinit2", "create"} => heap[l] # "freed" /\ heap[l] # "live" /\ heap[l] # "unused"
    BY <1>2, <2>1 DEF Spaced, Ended, OneLiveLogger, ThreadInv, Alive
  <2>3. hpc \notin {"iotinit", "connect", "iotinit2", "create"}
    BY <2>2
  <2> QED
    BY <1>1, <2>3 DEF Prepared
<1>7. CASE type[l] \notin IotTypes
  <2>1. UNCHANGED iotlogger /\ tpc'[l] \notin {"iotclose", "iotnull"}
    <3>1. tpc[l] \notin {"iotclose", "iotnull"}
      BY <1>7 DEF Spaced, IotInv
    <3>2. CASE Frame(l) \/ ThreadLoop(l) \/ ThreadCheck(l)
      BY <1>7, <3>2 DEF Frame, ThreadLoop, ThreadCheck, AfterLoop, IotTypes, ThreadInv
    <3>3. CASE ThreadOpen(l) \/ ThreadReplay(l)
      BY <1>7, <3>3 DEF ThreadOpen, ThreadReplay, AfterLoop, IotTypes, ThreadInv
    <3>4. CASE ThreadLogClose(l) \/ ThreadStopped(l) \/ IotloggerClose(l) \/ IotloggerNull(l) \/ UseAfterFree(l)
      BY <1>7, <3>1, <3>4 DEF ThreadLogClose, ThreadStopped, IotloggerClose, IotloggerNull, UseAfterFree, IotTypes, ThreadInv
    <3> QED
      BY <3>2, <3>3, <3>4 DEF ThreadStep
  <2>2. Accounted'
    BY <1>1, <1>3, <1>7, <2>1 DEF Spaced, Accounted, Alive
  <2>3. IotInv'
    BY <1>1, <1>3, <1>7, <2>1 DEF Spaced, IotInv, IotThread
  <2> QED
    BY <1>5, <1>6, <2>2, <2>3 DEF Spaced
<1>8. CASE type[l] \in IotTypes
  <2>1. IotThread(l)
    BY <1>8 DEF Spaced, IotInv
  <2>2. Accounted' /\ IotThread(l)'
    <3>1. CASE IotloggerNull(l)
      <4>1. iotlogger' = "null" /\ tpc'[l] = "done" /\ UNCHANGED thread_state /\ tpc[l] = "iotnull"
        BY <3>1 DEF IotloggerNull
      <4>2. Accounted'
        BY <4>1 DEF Accounted
      <4> QED
        BY <1>1, <2>1, <4>1, <4>2 DEF IotThread, IotPoints, Announced
    <3>2. CASE IotloggerClose(l)
      <4>1. /\ UNCHANGED thread_state /\ tpc[l] = "iotclose"
            /\ (tpc'[l] = "iotnull") \/ UNCHANGED <<iotlogger, tpc>>
        BY <3>2 DEF IotloggerClose
      <4>2. Accounted'
        BY <1>1, <1>2, <1>8, <4>1 DEF Accounted, Alive
      <4> QED
        BY <1>1, <2>1, <4>1, <4>2 DEF IotThread, IotPoints, Announced
    <3>3. CASE ThreadStopped(l)
      <4>1. /\ UNCHANGED iotlogger /\ tpc[l] = "stopped" /\ tpc'[l] = "iotclose"
            /\ thread_state' = [thread_state EXCEPT ![l] = "STOPPED"]
        BY <1>8, <3>3 DEF ThreadStopped, IotTypes
      <4>2. Accounted'
        BY <1>1, <1>8, <4>1 DEF Accounted, Alive
      <4> QED
        BY <1>1, <2>1, <4>1, <4>2 DEF IotThread, IotPoints, Announced
    <3>4. CASE \/ ThreadOpen(l) \/ ThreadLoop(l) \/ ThreadCheck(l) \/ ThreadReplay(l)
               \/ ThreadLogClose(l) \/ UseAfterFree(l) \/ Frame(l)
      <4>1. UNCHANGED <<thread_state, iotlogger>>
        BY <3>4 DEF ThreadOpen, ThreadLoop, ThreadCheck, ThreadReplay, ThreadLogClose, UseAfterFree, Frame
      <4>2. tpc[l] \in IotPoints \ {"iotclose"}
        BY <3>4 DEF ThreadOpen, ThreadLoop, ThreadCheck, ThreadReplay, ThreadLogClose, UseAfterFree, Frame, IotPoints, Touches
      <4>3. tpc'[l] \in IotPoints \ {"iotclose"}
        BY <1>8, <3>4, <4>2 DEF ThreadOpen, ThreadLoop, ThreadCheck, ThreadReplay, ThreadLogClose, UseAfterFree, Frame,
                           IotPoints, IotTypes, AfterLoop
      <4>4. Accounted'
        BY <1>1, <1>8, <4>3 DEF Accounted, Alive, IotPoints
      <4>5. logger = l => ~(hpc = "free" \/ (hpc = "wait" /\ thread_state[l] = "STOPPED"))
        BY <2>1, <4>2 DEF IotThread, IotPoints, Announced
      <4> QED
        BY <1>1, <2>1, <4>1, <4>2, <4>3, <4>4, <4>5 DEF IotThread, IotPoints
    <3> QED
      BY <3>1, <3>2, <3>3, <3>4 DEF ThreadStep
  <2>3. \A m \in Loggers : m # l /\ type[m] \in IotTypes => IotThread(m)'
    <3> SUFFICES ASSUME NEW m \in Loggers, m # l, type[m] \in IotTypes PROVE IotThread(m)'
      OBVIOUS
    <3>1. IotThread(m) /\ tpc[m] \in {"none", "done"} /\ tpc'[m] = tpc[m] /\ thread_state'[m] = thread_state[m]
      BY <1>3 DEF Spaced, IotInv, Alive
    <3>2. iotlogger = "null" => iotlogger' = "null"
      BY <1>2 DEF ThreadStep, Frame, ThreadOpen, ThreadLoop, ThreadCheck, ThreadReplay, ThreadLogClose, ThreadStopped,
             IotloggerClose, IotloggerNull, UseAfterFree
    <3> QED
      BY <1>1, <3>1, <3>2 DEF IotThread, IotPoints
  <2>4. IotInv'
    BY <1>1, <1>3, <1>8, <2>2, <2>3 DEF Spaced, IotInv
  <2> QED
    BY <1>5, <1>6, <2>2, <2>4 DEF Spaced
<1> QED
  BY <1>7, <1>8

\* Every step keeps it, as long as the requests are spaced.
LEMMA SpacedStep ==
    ASSUME LoggerInv, LoggerInv', SpacedInv, [Next]_vars
    PROVE  SpacedInv'
<1> USE DEF SpacedInv
<1> SUFFICES ASSUME spacing' = "kept" PROVE Spaced'
  OBVIOUS
<1>1. CASE \E r \in Requests : Receive(r)
  <2>1. spacing = "kept"
    BY <1>1 DEF Receive
  <2> QED
    BY <1>1, <2>1, SpacedReceive
<1>2. CASE HandlerStep
  BY <1>2, SpacedInit, SpacedIot, SpacedHandler, SpacedCreate, SpacedStop, SpacedFree DEF HandlerStep
<1>3. CASE \E l \in Loggers : ThreadStep(l) \/ Frame(l)
  <2>1. spacing = "kept"
    BY <1>3 DEF ThreadStep, Frame, ThreadOpen, ThreadLoop, ThreadCheck, ThreadReplay, ThreadLogClose, ThreadStopped,
           IotloggerClose, IotloggerNull, UseAfterFree, handlerVars
  <2> QED
    BY <1>3, <2>1, SpacedThread
<1>4. CASE UNCHANGED vars
  BY <1>4 DEF vars, heapVars, Spaced, Ended, Prepared, Accounted, IotInv, IotThread, Alive
<1> QED
  BY <1>1, <1>2, <1>3, <1>4 DEF Next

\* As long as no request comes between a thread's STOPPED and its end, every
\* thread that publishes finds the one AWS IoT client open, and no thread has a
\* freed logger to dereference, whatever loggers of the three kinds follow
\* each other.
THEOREM ThreadResourcesSafe == Spec => []ThreadResourcesLive
<1>1. Init => SpacedInv
  BY LoggerAssumption DEF Init, SpacedInv, Spaced, Ended, Prepared, Accounted, IotInv, IotThread, IotPoints, IotTypes, NONE, Alive
<1>2. LoggerInv /\ LoggerInv' /\ SpacedInv /\ [Next]_vars => SpacedInv'
  BY SpacedStep
<1>3. LoggerInv /\ SpacedInv => ThreadResourcesLive
  <2> SUFFICES ASSUME LoggerInv, Spaced, NEW l \in Loggers
               PROVE  /\ /\ type[l] \in {"AWSIOT", "REPLAY"}
                         /\ tpc[l] \in {"loop", "read", "check", "replay", "close", "stopped", "iotclose"}
                         => iotlogger = "open"
                      /\ tpc[l] \in Touches => heap[l] # "freed"
    BY DEF ThreadResourcesLive, SpacedInv
  <2>1. CASE type[l] \in IotTypes
    <3>1. tpc[l] \in Touches => tpc[l] \in IotPoints \ {"iotclose"}
      BY DEF Touches, IotPoints
    <3>2. tpc[l] \in Touches => logger = l
      BY <2>1, <3>1 DEF Spaced, IotInv, IotThread
    <3> QED
      BY <2>1, <3>2 DEF Spaced, IotInv, IotThread, IotPoints, LoggerInv, OneLiveLogger
  <2>2. CASE type[l] \notin IotTypes
    <3>1. tpc[l] \in Touches => FileActive(l)
      BY <2>2 DEF FileActive, Touches, LoggerInv, ThreadInv, IotTypes
    <3> QED
      BY <2>2, <3>1 DEF LoggerInv, FileInv, IotTypes
  <2> QED
    BY <2>1, <2>2
<1>4. QED
  BY <1>1, <1>2, <1>3, LoggerInvariant, PTL DEF Spec
=============================================================================
