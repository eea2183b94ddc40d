---------------------------- MODULE ShadowCache -----------------------------
(***************************************************************************)
(* The state cache of the daemon (passthru_shadow_state.c): every answer to *)
(* a report is written over the file state_log, and a daemon that starts    *)
(* reads the file to start the logger that ran before, or asks AWS IoT if   *)
(* there is no file.  The daemon may crash at any moment, also between the  *)
(* truncation of the file and the writing of it, or be stopped in order.    *)
(*                                                                         *)
(* The logger is reduced to its type, the J2534 session is left out, and a  *)
(* report is published in one step (ShadowRecords has the steps).           *)
(***************************************************************************)
EXTENDS Naturals, Sequences

CONSTANTS Types,       \* PASSTHRU_LOGTYPE_* that log: "FILE", "AWSIOT", "REPLAY"
          MaxDesires,  \* bound: changes of the desired log
          MaxStarts,   \* bound: starts of the daemon
          MaxReports,  \* bound: reports of one life of the daemon
          MaxLosses,   \* bound: messages that are lost
          MaxTurns     \* turns of the loop that waits for AWS IoT (3)

ASSUME CacheAssumption ==
    /\ Types \subseteq {"FILE", "AWSIOT", "REPLAY"}
    /\ {MaxDesires, MaxStarts, MaxReports, MaxLosses, MaxTurns} \subseteq Nat

NONE == "NONE"     \* PASSTHRU_LOGTYPE_NONE; also: no logger is allocated

\* A document: what it is about, and the type of log it names.
Doc(kind, t) == [kind |-> kind, type |-> t]
Blank == Doc("blank", NONE)          \* the empty string
Missing == Doc("missing", NONE)      \* there is no file

VARIABLES
    proc,       \* "down", "sync" (passthru_shadow_state_sync), "aws" (sync_awsiot_state),
                \* "synced", "connected" (no report sent yet), "run", "closing", "closed"
    dir,        \* the cache directory: "writable", "absent"
    file,       \* the document in state_log
    writing,    \* the answer for which the file was opened, or Blank
    own,        \* id of that answer, 0 if its report expired
    logger,     \* type of the logger, or NONE
    turns,      \* i of passthru_shadow_state_sync_awsiot_state
    waiting,    \* AckWaitList: ids of the reports that await an answer
    rx,         \* shadowRxBuf: the document received last
    toShadow, toDaemon,
    shadowLog,  \* reported.log.type of the shadow
    lastId,     \* id of the last report
    starts, desires, losses,
    was,        \* (history) the logger when the daemon went down
    change,     \* (history) id of the report of the last change of the logger, 0 if it
                \* was not reported
    told        \* (history) "no"; "yes": that report was answered and its answer was
                \* cached; "over": and another answer was cached after it

net == <<toShadow, toDaemon, shadowLog>>
bounds == <<starts, desires, losses>>
vars == <<proc, dir, file, writing, own, logger, turns, waiting, rx, net, lastId, bounds,
          was, change, told>>

Lives == {"connected", "run", "closing"}

-----------------------------------------------------------------------------
(* Reports.                                                                *)

\* passthru_shadow_update, which may fail; nobody looks at what it returns
Report(doc) ==
    \/ UNCHANGED <<lastId, waiting, toShadow>>
    \/ /\ lastId' = lastId + 1
       /\ waiting' = waiting \cup {lastId'}
       /\ toShadow' = Append(toShadow, [id |-> lastId', doc |-> doc])

NoReport == UNCHANGED <<lastId, waiting, toShadow>>

\* Mutant: the logger stays allocated when it is stopped.
AfterHandleKept(t) == IF logger = NONE THEN t ELSE logger

\* The logger after passthru_shadow_log_handler_handle: a start is refused if
\* there is one.
AfterHandle(t) == IF logger = NONE \/ t = NONE THEN t ELSE logger

\* passthru_shadow_log_handler_handle.  A replay without a file to replay
\* allocates the logger and reports nothing.
HandleLog(t, hasFile) ==
    IF (logger = NONE) = (t = NONE)
    THEN NoReport /\ UNCHANGED <<logger, change, told>>
    ELSE /\ logger' = AfterHandle(t)
         /\ IF t = "REPLAY" /\ ~hasFile THEN NoReport ELSE Report(Doc("log", t))
         /\ change' = IF lastId' > lastId THEN lastId' ELSE 0
         /\ told' = "no"

-----------------------------------------------------------------------------
(* The start: passthru_thing_run.                                          *)

Start ==
    /\ proc = "down" /\ starts < MaxStarts
    /\ starts' = starts + 1
    /\ proc' = "sync"
    /\ lastId' = 0 /\ change' = 0
    /\ UNCHANGED <<dir, file, writing, own, logger, turns, waiting, rx, net, desires, losses, was, told>>

\* Mutant: the desired log is looked at.
RestoredDesired(doc) == IF doc.kind = "desired" THEN doc.type ELSE NONE

\* The logger after passthru_shadow_state_restore, which looks at the reported
\* log only.  The file of a replay is parsed as a number, which it is not, and
\* the report of the start fails: the MQTT client is not initialised yet.
Restored(doc) == IF doc.kind = "log" THEN doc.type ELSE NONE

\* passthru_shadow_state_sync with a file: a blank one (getline returns -1,
\* which counts as bytes read) restores nothing.
SyncCache ==
    /\ proc = "sync" /\ file # Missing
    /\ logger' = Restored(file)
    /\ proc' = "synced"
    /\ UNCHANGED <<dir, file, writing, own, turns, waiting, rx, net, lastId, bounds, was, change, told>>

SyncNoFile ==
    /\ proc = "sync" /\ file = Missing
    /\ proc' = "aws" /\ turns' = 0
    /\ UNCHANGED <<dir, file, writing, own, logger, waiting, rx, net, lastId, bounds, was, change, told>>

\* Mutant: the turns are not counted.
SyncTurnUncounted ==
    /\ proc = "aws" /\ turns < MaxTurns
    /\ turns' = 0
    /\ UNCHANGED <<proc, dir, file, writing, own, logger, waiting, rx, net, lastId, bounds, was, change, told>>

\* Mutant: the limit is off by one.
SyncTurnOneMore ==
    /\ proc = "aws" /\ turns <= MaxTurns
    /\ turns' = turns + 1
    /\ UNCHANGED <<proc, dir, file, writing, own, logger, waiting, rx, net, lastId, bounds, was, change, told>>

\* passthru_shadow_state_sync_awsiot_state: 200 ms of yield, without the answer
SyncTurn ==
    /\ proc = "aws" /\ turns < MaxTurns
    /\ turns' = turns + 1
    /\ UNCHANGED <<proc, dir, file, writing, own, logger, waiting, rx, net, lastId, bounds, was, change, told>>

SyncGivesUp ==
    /\ proc = "aws" /\ turns = MaxTurns
    /\ logger' = Restored(Blank)
    /\ proc' = "synced" /\ turns' = 0
    /\ UNCHANGED <<dir, file, writing, own, waiting, rx, net, lastId, bounds, was, change, told>>

\* passthru_shadow_state_read_awsiot_state_handler.  The daemon asked for
\* nothing, but the request of another client has the same answer.  No file is
\* open, so that nothing is written.
SyncAwsIot ==
    /\ proc = "aws" /\ turns < MaxTurns
    /\ logger' = Restored(Doc("log", shadowLog))
    /\ proc' = "synced" /\ turns' = 0
    /\ UNCHANGED <<dir, file, writing, own, waiting, rx, net, lastId, bounds, was, change, told>>

\* passthru_shadow_connect.  The broker drops what it has not read of an
\* earlier connection of the same client.
Connect ==
    /\ proc = "synced"
    /\ proc' = "connected"
    /\ toShadow' = <<>>
    /\ told' = IF logger = was THEN told ELSE "no"
    /\ UNCHANGED <<dir, file, writing, own, logger, turns, waiting, rx, toDaemon, shadowLog, lastId, bounds,
                   was, change>>

\* passthru_thing_send_connect_report.  A report made meanwhile, in a delta read
\* while the first subscription was waited for, had taken the same record.
SendConnectReport ==
    /\ proc = "connected" /\ writing = Blank /\ lastId < MaxReports
    /\ \/ NoReport
       \/ /\ lastId' = lastId + 1
          /\ waiting' = {lastId'} \cup {i \in waiting : \E j \in waiting : j < i}
          /\ toShadow' = Append(toShadow, [id |-> lastId', doc |-> Doc("connect", NONE)])
    /\ proc' = "run"
    /\ UNCHANGED <<dir, file, writing, own, logger, turns, rx, toDaemon, shadowLog, bounds, was, change, told>>

-----------------------------------------------------------------------------
(* The yield thread: deltas, answers and expired reports.                  *)

Reads(id, kind) ==
    /\ proc \in Lives /\ writing = Blank /\ lastId < MaxReports
    /\ toDaemon # <<>> /\ toDaemon' = Tail(toDaemon)
    /\ Head(toDaemon).id = id /\ Head(toDaemon).doc.kind = kind
    /\ rx' = Head(toDaemon).doc

\* passthru_thing_shadow_ondelta
OnDelta ==
    /\ Reads(0, "delta")
    /\ HandleLog(rx'.type, TRUE)
    /\ UNCHANGED <<proc, dir, file, writing, own, turns, shadowLog, bounds, was>>

\* A document that answers no report that waits is read, and remembered.
OnOther ==
    /\ \/ Reads(0, "desired")
       \/ \E id \in 1 .. lastId, k \in {"log", "connect", "disconnect"} : id \notin waiting /\ Reads(id, k)
    /\ UNCHANGED <<proc, dir, file, writing, own, logger, turns, waiting, toShadow, shadowLog, lastId,
                   bounds, was, change, told>>

\* Mutant: the file is opened for appending, and the first line stays.
OpenedAppend == IF dir = "writable" /\ file = Missing THEN Blank ELSE file

\* passthru_shadow_state_open with mode "w"
Opened == IF dir = "writable" THEN Blank ELSE file

\* passthru_shadow_state_write and _close
Written(doc) == IF dir = "writable" /\ file = Blank THEN doc ELSE file

\* passthru_thing_shadow_onupdate up to the opening of the file
OnAnswer ==
    /\ \E id \in waiting, k \in {"log", "connect", "disconnect"} :
          /\ Reads(id, k)
          /\ own' = id /\ waiting' = waiting \ {id}
    /\ writing' = rx'
    /\ file' = Opened
    /\ told' = IF told = "yes" THEN "over" ELSE told
    /\ UNCHANGED <<proc, dir, logger, turns, toShadow, shadowLog, lastId, bounds, was, change>>

\* HandleExpiredResponseCallbacks hands on the document received last
OnTimeout ==
    /\ proc \in Lives /\ writing = Blank /\ lastId < MaxReports
    /\ \E id \in waiting : waiting' = waiting \ {id}
    /\ own' = 0
    /\ file' = Opened
    /\ writing' = IF rx = Blank THEN Doc("empty", NONE) ELSE rx
    /\ told' = IF told = "yes" THEN "over" ELSE told
    /\ UNCHANGED <<proc, dir, logger, turns, rx, net, lastId, bounds, was, change>>

\* the rest of it: the file is written and closed, and the document is routed
\* (passthru_shadow_router_route_message)
OnUpdate ==
    /\ writing # Blank
    /\ writing' = Blank /\ own' = 0
    /\ file' = IF writing.kind = "empty" THEN file ELSE Written(writing)
    /\ \/ /\ writing.kind = "desired"
          /\ HandleLog(writing.type, FALSE)
          /\ UNCHANGED proc
       \/ /\ writing.kind # "desired"
          /\ proc' = IF writing.kind = "disconnect" THEN "closed"
                     ELSE IF writing.kind = "connect" /\ proc = "closing" THEN "run" ELSE proc
          /\ told' = IF own > 0 /\ own = change THEN "yes" ELSE told
          /\ NoReport /\ UNCHANGED <<logger, change>>
    /\ UNCHANGED <<dir, turns, rx, toDaemon, shadowLog, bounds, was>>

\* passthru_thing_close, and the report that the yield thread repeats until
\* its answer is routed
Stop ==
    /\ proc \in {"run", "closing"} /\ writing = Blank /\ lastId < MaxReports
    /\ proc' = "closing"
    /\ Report(Doc("disconnect", NONE))
    /\ UNCHANGED <<dir, file, writing, own, logger, turns, rx, toDaemon, shadowLog, bounds, was, change, told>>

\* the process is gone, and with it the logger and what was on its way to it
Gone ==
    /\ proc' = "down"
    /\ was' = IF proc \in {"sync", "aws"} THEN was ELSE logger
    /\ told' = IF proc = "synced" /\ logger # was THEN "no" ELSE told
    /\ logger' = NONE /\ writing' = Blank /\ own' = 0 /\ turns' = 0 /\ waiting' = {}
    /\ rx' = Blank /\ toDaemon' = <<>>
    /\ UNCHANGED <<dir, file, toShadow, shadowLog, lastId, bounds, change>>

\* The answer to the disconnect report was routed: the yield thread ends, and
\* then the daemon.
Exit == proc = "closed" /\ Gone

Crash == proc # "down" /\ Gone

-----------------------------------------------------------------------------
(* The device shadow and the network (external).                           *)

Serve ==
    /\ toShadow # <<>> /\ toShadow' = Tail(toShadow)
    /\ LET m == Head(toShadow) IN
       /\ shadowLog' = IF m.doc.kind = "log" THEN m.doc.type ELSE shadowLog
       /\ toDaemon' = IF proc \in Lives THEN Append(toDaemon, m) ELSE toDaemon
    /\ UNCHANGED <<proc, dir, file, writing, own, logger, turns, waiting, rx, lastId, bounds, was, change, told>>

\* A client changes the desired log.
Desire(t) ==
    /\ proc \in Lives /\ desires < MaxDesires /\ desires' = desires + 1
    /\ \E first \in {"desired", "delta"} :
          LET second == IF first = "delta" THEN "desired" ELSE "delta" IN
          toDaemon' = toDaemon \o <<[id |-> 0, doc |-> Doc(first, t)], [id |-> 0, doc |-> Doc(second, t)]>>
    /\ UNCHANGED <<proc, dir, file, writing, own, logger, turns, waiting, rx, toShadow, shadowLog, lastId, starts, losses,
                   was, change, told>>

LoseReport ==
    /\ losses < MaxLosses /\ losses' = losses + 1
    /\ toShadow # <<>> /\ toShadow' = Tail(toShadow)
    /\ UNCHANGED <<proc, dir, file, writing, own, logger, turns, waiting, rx, toDaemon, shadowLog, lastId, starts, desires, was, change, told>>

LoseMessage ==
    /\ losses < MaxLosses /\ losses' = losses + 1
    /\ toDaemon # <<>> /\ toDaemon' = Tail(toDaemon)
    /\ UNCHANGED <<proc, dir, file, writing, own, logger, turns, waiting, rx, toShadow, shadowLog, lastId, starts, desires, was, change, told>>
-----------------------------------------------------------------------------
Init ==
    /\ proc = "down" /\ dir \in {"writable", "absent"} /\ file = Missing
    /\ writing = Blank /\ own = 0 /\ logger = NONE /\ turns = 0 /\ waiting = {} /\ rx = Blank
    /\ toShadow = <<>> /\ toDaemon = <<>> /\ shadowLog = NONE
    /\ lastId = 0 /\ starts = 0 /\ desires = 0 /\ losses = 0
    /\ was = NONE /\ change = 0 /\ told = "yes"

\* the steps that the daemon takes by itself
Sync == SyncCache \/ SyncNoFile \/ SyncTurn \/ SyncGivesUp

Next ==
    \/ Start \/ Sync \/ SyncAwsIot \/ Connect \/ SendConnectReport
    \/ OnDelta \/ OnOther \/ OnAnswer \/ OnTimeout \/ OnUpdate \/ Stop \/ Exit \/ Crash
    \/ Serve \/ LoseReport \/ LoseMessage \/ \E t \in Types \cup {NONE} : Desire(t)

Spec == Init /\ [][Next]_vars

\* The daemon that starts goes on; nobody need send it the state of the shadow.
FairSpec == Spec /\ WF_vars(Sync)

-----------------------------------------------------------------------------
(* Properties                                                              *)

\* Type invariant of the daemon, of its cache and of the documents.
TypeOK ==
    LET Kinds == {"blank", "missing", "empty", "log", "connect", "disconnect", "desired", "delta"}
        Docs == [kind : Kinds, type : Types \cup {NONE}] IN
    /\ proc \in {"down", "sync", "aws", "synced", "closed"} \cup Lives
    /\ dir \in {"writable", "absent"}
    /\ {file, writing, rx} \subseteq Docs
    /\ {logger, shadowLog, was} \subseteq Types \cup {NONE}
    /\ turns \in 0 .. MaxTurns
    /\ {lastId, own, change} \cup waiting \subseteq Nat
    /\ toShadow \in Seq([id : Nat, doc : Docs]) /\ toDaemon \in Seq([id : Nat, doc : Docs])
    /\ starts \in 0 .. MaxStarts /\ desires \in 0 .. MaxDesires /\ losses \in 0 .. MaxLosses
    /\ told \in {"no", "yes", "over"}

\* A restart never starts a logger that was not running when the daemon went
\* down, however answers were delayed, lost or handed to other reports, once the
\* last change of the logger was answered.  (Before that it may: the cache still
\* holds the answer to the start when the answer to the stop is on its way.)
NoGhostLogger == proc = "synced" /\ told # "no" => logger \in {NONE, was}

\* The logger that ran is started again, also after several crashes in a row,
\* if the answer to its start was the last one to be cached.
LoggerRemembered == proc = "synced" /\ told = "yes" /\ dir = "writable" => logger = was

\* Once the last change of the logger was answered, the shadow names the logger
\* that the daemon has, across restarts that restored it.
ShadowNamesLogger == proc \in Lives /\ told # "no" => shadowLog = logger

\* The daemon always gets past the synchronisation, whatever AWS IoT does.
SyncEnds == proc \in {"sync", "aws"} ~> proc \in {"synced", "down"}
=============================================================================
