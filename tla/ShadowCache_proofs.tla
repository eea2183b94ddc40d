------------------------- MODULE ShadowCache_proofs -------------------------
(***************************************************************************)
(* Proofs about the state cache, for any types of log, and any number of   *)
(* starts, requests, reports and losses.                                   *)
(*                                                                         *)
(* None of the three properties is inductive.  The proof follows the report *)
(* of the last change of the logger: the service takes the reports of one  *)
(* life in their order and answers in that order (Numbered), so that when  *)
(* the answer to it is read no older report is left that names another     *)
(* logger; from then on nothing that is kept or on its way does (Answered).*)
(***************************************************************************)
EXTENDS ShadowCache, TLAPS

\* The documents and the packets, and the packets of a queue.
Kinds == {"blank", "missing", "empty", "log", "connect", "disconnect", "desired", "delta"}
Docs == [kind : Kinds, type : Types \cup {NONE}]
Packet == [id : Nat, doc : Docs]
In(s) == {s[i] : i \in 1 .. Len(s)}
Ordered(s) == \A i, j \in 1 .. Len(s) : i < j /\ s[i].id > 0 /\ s[j].id > 0 => s[i].id < s[j].id
NoLog(s) == \A m \in In(s) : m.doc.kind # "log"

DaemonTyped ==
    /\ proc \in {"down", "sync", "aws", "synced", "closed"} \cup Lives
    /\ dir \in {"writable", "absent"} /\ told \in {"no", "yes", "over"}
    /\ file \in Docs /\ writing \in Docs /\ rx \in Docs
    /\ logger \in Types \cup {NONE} /\ shadowLog \in Types \cup {NONE} /\ was \in Types \cup {NONE}
    /\ turns \in 0 .. MaxTurns
CountsTyped ==
    /\ lastId \in Nat /\ own \in Nat /\ change \in Nat /\ waiting \in SUBSET Nat
    /\ starts \in 0 .. MaxStarts /\ desires \in 0 .. MaxDesires /\ losses \in 0 .. MaxLosses
QueuesTyped == toShadow \in Seq(Packet) /\ toDaemon \in Seq(Packet)
Typed == DaemonTyped /\ CountsTyped /\ QueuesTyped

Alive == proc \in Lives \cup {"closed"}
\* The logger that runs, or that ran when the daemon went down.
Last == IF Alive THEN logger ELSE was

\* What is at rest between two lives and between two answers.
Still ==
    /\ ~Alive => toDaemon = <<>> /\ writing = Blank /\ own = 0 /\ waiting = {} /\ rx = Blank
    /\ proc \in {"sync", "aws", "synced"} => lastId = 0 /\ change = 0
    /\ proc = "aws" => file = Missing
    /\ own > 0 => writing # Blank /\ rx = writing
    /\ dir = "absent" => file = Missing
    /\ dir = "writable" /\ writing # Blank => file = Blank

\* A packet that is about the log is not younger than the last change, and the
\* one of that change names the logger.
Fit(m) ==
    /\ m.id <= lastId
    /\ m.doc.kind = "log" => m.id > 0 /\ (change > 0 => m.id <= change)
    /\ m.id > 0 /\ m.id = change => m.doc = Doc("log", logger)

\* The reports of a life are served and answered in their order.
Numbered ==
    Alive =>
        /\ change <= lastId /\ own <= lastId
        /\ \A n \in In(toShadow) : n.id > 0 /\ Fit(n) /\ own < n.id
        /\ \A m \in In(toDaemon) : Fit(m) /\ (m.id > 0 => own < m.id)
        /\ \A m \in In(toDaemon), n \in In(toShadow) : m.id < n.id
        /\ Ordered(toShadow) /\ Ordered(toDaemon)
        /\ \A m \in In(toDaemon) : m.id > 0 /\ m.id = change => shadowLog = logger
        /\ own > 0 /\ own = change => shadowLog = logger /\ writing = Doc("log", logger)

\* Once the last change was answered nothing names another logger.
Answered ==
    told # "no" =>
        /\ shadowLog = Last /\ NoLog(toShadow) /\ NoLog(toDaemon)
        /\ file.kind = "log" => file.type = Last
        /\ rx.kind = "log" => rx.type = Last
        /\ writing.kind = "log" => writing.type = Last
        /\ told = "yes" => writing = Blank
        /\ told = "yes" /\ dir = "writable" => file = Doc("log", Last) \/ (file = Missing /\ Last = NONE)
        /\ proc = "synced" => logger \in {NONE, was} /\ (told = "yes" /\ dir = "writable" => logger = was)

Inv == Typed /\ Still /\ Numbered /\ Answered

-----------------------------------------------------------------------------
(* Documents and queues.                                                   *)

\* A document is its two fields.
LEMMA DocFacts ==
    /\ \A k \in Kinds, t \in Types \cup {NONE} : Doc(k, t) \in Docs /\ Doc(k, t).kind = k /\ Doc(k, t).type = t
    /\ \A d \in Docs : d.kind \in Kinds /\ d.type \in Types \cup {NONE} /\ d = Doc(d.kind, d.type)
    /\ Blank \in Docs /\ Missing \in Docs /\ Blank.kind = "blank" /\ Missing.kind = "missing"
    /\ Blank # Missing
<1>1. \A k \in Kinds, t \in Types \cup {NONE} : Doc(k, t) \in Docs /\ Doc(k, t).kind = k /\ Doc(k, t).type = t
  BY DEF Doc, Docs
<1>2. \A d \in Docs : d.kind \in Kinds /\ d.type \in Types \cup {NONE} /\ d = Doc(d.kind, d.type)
  BY DEF Doc, Docs
<1>3. "blank" \in Kinds /\ "missing" \in Kinds /\ NONE \in Types \cup {NONE}
  BY DEF Kinds
<1>4. /\ Blank \in Docs /\ Missing \in Docs /\ Blank.kind = "blank" /\ Missing.kind = "missing"
  BY <1>1, <1>3 DEF Blank, Missing
<1> QED
  BY <1>1, <1>2, <1>4

\* What is in a queue, and its first packet.
LEMMA HeadAndTail ==
    ASSUME NEW s \in Seq(Packet)
    PROVE  /\ In(s) \subseteq Packet
           /\ s # <<>> =>
                 /\ Tail(s) \in Seq(Packet) /\ In(Tail(s)) \subseteq In(s)
                 /\ Head(s) \in In(s) /\ Head(s) \in Packet
                 /\ Ordered(s) =>
                       /\ Ordered(Tail(s))
                       /\ \A m \in In(Tail(s)) : m.id > 0 /\ Head(s).id > 0 => Head(s).id < m.id
<1>1. In(s) \subseteq Packet
  BY DEF In
<1> SUFFICES ASSUME s # <<>>
             PROVE  /\ Tail(s) \in Seq(Packet) /\ In(Tail(s)) \subseteq In(s)
                    /\ Head(s) \in In(s) /\ Head(s) \in Packet
                    /\ Ordered(s) =>
                          /\ Ordered(Tail(s))
                          /\ \A m \in In(Tail(s)) : m.id > 0 /\ Head(s).id > 0 => Head(s).id < m.id
  BY <1>1
<1> DEFINE r == Tail(s)
<1>2. r \in Seq(Packet) /\ Len(s) \in Nat /\ Len(s) > 0 /\ Len(r) = Len(s) - 1 /\ Head(s) = s[1]
  OBVIOUS
<1>3. \A i \in 1 .. Len(r) : r[i] = s[i + 1] /\ i + 1 \in 1 .. Len(s) /\ i + 1 > 1
  BY <1>2
<1>4. 1 \in 1 .. Len(s)
  BY <1>2
<1> HIDE DEF r
<1>5. Head(s) \in In(s) /\ Head(s) \in Packet
  BY <1>1, <1>2, <1>4 DEF In
<1>6. In(r) \subseteq In(s)
  BY <1>3 DEF In
<1>7. ASSUME Ordered(s)
      PROVE  Ordered(r) /\ \A m \in In(r) : m.id > 0 /\ Head(s).id > 0 => Head(s).id < m.id
  <2>1. ASSUME NEW i \in 1 .. Len(r), NEW j \in 1 .. Len(r), i < j, r[i].id > 0, r[j].id > 0
        PROVE  r[i].id < r[j].id
    <3>1. i + 1 \in 1 .. Len(s) /\ j + 1 \in 1 .. Len(s) /\ i + 1 < j + 1
      BY <1>3, <2>1
    <3> QED
      BY <1>3, <1>7, <2>1, <3>1 DEF Ordered
  <2>2. \A i \in 1 .. Len(r) : r[i].id > 0 /\ s[1].id > 0 => s[1].id < r[i].id
    <3>1. \A i \in 1 .. Len(r) : 1 < i + 1
      OBVIOUS
    <3> QED
      BY <1>3, <1>4, <1>7, <3>1 DEF Ordered
  <2> QED
    BY <1>2, <2>1, <2>2 DEF Ordered, In
<1> QED
  BY <1>2, <1>5, <1>6, <1>7 DEF r

\* A packet is put at the end of a queue.
LEMMA AtTheEnd ==
    ASSUME NEW s \in Seq(Packet), NEW x \in Packet
    PROVE  /\ Append(s, x) \in Seq(Packet) /\ In(Append(s, x)) = In(s) \cup {x}
           /\ Ordered(s) /\ (\A m \in In(s) : x.id = 0 \/ m.id < x.id) => Ordered(Append(s, x))
<1> DEFINE r == Append(s, x)
<1>1. /\ r \in Seq(Packet) /\ Len(s) \in Nat /\ Len(r) = Len(s) + 1 /\ r[Len(s) + 1] = x
      /\ \A i \in 1 .. Len(s) : r[i] = s[i]
  OBVIOUS
<1>2. 1 .. Len(r) = (1 .. Len(s)) \cup {Len(s) + 1}
  BY <1>1
<1>3. \A i \in 1 .. Len(s) : s[i] \in In(s) /\ s[i].id \in Nat /\ i < Len(s) + 1
  <2>1. \A i \in 1 .. Len(s) : s[i] \in Packet /\ s[i] \in In(s)
    BY DEF In
  <2>2. \A m \in Packet : m.id \in Nat
    BY DEF Packet
  <2>3. \A n \in Nat : \A i \in 1 .. n : i < n + 1
    OBVIOUS
  <2> QED
    BY <1>1, <2>1, <2>2, <2>3, Zenon
<1> HIDE DEF r
<1>4. In(r) = In(s) \cup {x}
  <2>1. In(r) = {r[i] : i \in (1 .. Len(s)) \cup {Len(s) + 1}}
    BY <1>2 DEF In
  <2> QED
    BY <1>1, <2>1 DEF In
<1>5. ASSUME Ordered(s), \A m \in In(s) : x.id = 0 \/ m.id < x.id
      PROVE  Ordered(r)
  <2> SUFFICES ASSUME NEW i \in 1 .. Len(r), NEW j \in 1 .. Len(r), i < j, r[i].id > 0, r[j].id > 0
               PROVE  r[i].id < r[j].id
    BY DEF Ordered
  <2>1. i \in 1 .. Len(s)
    BY <1>1
  <2>2. CASE j \in 1 .. Len(s)
    BY <1>1, <1>5, <2>1, <2>2 DEF Ordered
  <2>3. CASE j = Len(s) + 1
    <3>1. x.id # 0
      BY <1>1, <2>3
    <3> QED
      BY <1>1, <1>3, <1>5, <2>1, <2>3, <3>1
  <2> QED
    BY <1>2, <2>2, <2>3
<1> QED
  BY <1>1, <1>4, <1>5 DEF r

\* Nothing is in the empty queue.
LEMMA EmptyQueue == <<>> \in Seq(Packet) /\ In(<<>>) = {} /\ Ordered(<<>>)
BY DEF In, Ordered

\* Two packets are put at the end.
LEMMA TwoMore ==
    ASSUME NEW s \in Seq(Packet), NEW a \in Packet, NEW b \in Packet
    PROVE  s \o <<a, b>> = Append(Append(s, a), b)
OBVIOUS

-----------------------------------------------------------------------------
(* Reports.                                                                *)

\* A document is reported, or the report fails.
Reported(doc) ==
    \/ UNCHANGED <<lastId, waiting, toShadow>>
    \/ /\ lastId' = lastId + 1 /\ waiting' \in SUBSET Nat
       /\ toShadow' = Append(toShadow, [id |-> lastId + 1, doc |-> doc])

\* What passthru_shadow_log_handler_handle does.
Changed(t) ==
    /\ told' = "no" /\ logger' = t
    /\ \/ UNCHANGED <<lastId, waiting, toShadow>> /\ change' = 0
       \/ /\ lastId' = lastId + 1 /\ change' = lastId + 1 /\ waiting' \in SUBSET Nat
          /\ toShadow' = Append(toShadow, [id |-> lastId + 1, doc |-> Doc("log", t)])

\* A report takes a number of its own.
LEMMA ReportFacts ==
    ASSUME CountsTyped, NEW doc, Report(doc)
    PROVE  Reported(doc)
<1>1. lastId \in Nat /\ lastId + 1 \in Nat /\ waiting \in SUBSET Nat
  BY DEF CountsTyped
<1>2. CASE UNCHANGED <<lastId, waiting, toShadow>>
  BY <1>2 DEF Reported
<1>3. CASE /\ lastId' = lastId + 1 /\ waiting' = waiting \cup {lastId'}
           /\ toShadow' = Append(toShadow, [id |-> lastId', doc |-> doc])
  <2>1. waiting' \in SUBSET Nat
    BY <1>1, <1>3
  <2> QED
    BY <1>3, <2>1 DEF Reported
<1> QED
  BY <1>2, <1>3 DEF Report

\* The log handler changes the logger, or does nothing.
LEMMA HandleFacts ==
    ASSUME CountsTyped, NEW t, NEW b \in BOOLEAN, HandleLog(t, b)
    PROVE  UNCHANGED <<logger, change, told, lastId, waiting, toShadow>> \/ Changed(t)
<1>1. lastId \in Nat /\ lastId + 1 > lastId
  BY DEF CountsTyped
<1>2. CASE (logger = NONE) = (t = NONE)
  BY <1>2 DEF HandleLog, NoReport
<1>3. CASE ~((logger = NONE) = (t = NONE))
  <2>1. logger' = t /\ told' = "no" /\ change' = IF lastId' > lastId THEN lastId' ELSE 0
    BY <1>3 DEF HandleLog, AfterHandle
  <2>2. UNCHANGED <<lastId, waiting, toShadow>> \/ Reported(Doc("log", t))
    BY <1>3, ReportFacts DEF HandleLog, NoReport
  <2> QED
    BY <1>1, <2>1, <2>2 DEF Changed, Reported
<1> QED
  BY <1>2, <1>3

\* The first packet is read.
LEMMA ReadsFacts ==
    ASSUME Typed, NEW id, NEW kind, Reads(id, kind)
    PROVE  /\ proc \in Lives /\ Alive /\ writing = Blank
           /\ toDaemon # <<>> /\ toDaemon' = Tail(toDaemon) /\ toDaemon' \in Seq(Packet)
           /\ In(toDaemon') \subseteq In(toDaemon)
           /\ \E m \in In(toDaemon) :
                 /\ m \in Packet /\ m.id = id /\ rx' = m.doc /\ m.doc.kind = kind /\ m.doc \in Docs
                 /\ Ordered(toDaemon) => \A n \in In(toDaemon') : n.id > 0 /\ id > 0 => id < n.id
           /\ Ordered(toDaemon) => Ordered(toDaemon')
<1>1. /\ proc \in Lives /\ writing = Blank /\ toDaemon # <<>> /\ toDaemon' = Tail(toDaemon)
      /\ Head(toDaemon).id = id /\ rx' = Head(toDaemon).doc /\ Head(toDaemon).doc.kind = kind
  BY DEF Reads
<1>2. /\ Head(toDaemon) \in In(toDaemon) /\ Head(toDaemon) \in Packet
      /\ toDaemon' \in Seq(Packet) /\ In(toDaemon') \subseteq In(toDaemon)
      /\ Ordered(toDaemon) =>
            /\ Ordered(toDaemon')
            /\ \A n \in In(toDaemon') : n.id > 0 /\ Head(toDaemon).id > 0 => Head(toDaemon).id < n.id
  BY <1>1, HeadAndTail DEF Typed, QueuesTyped
<1>3. Head(toDaemon).doc \in Docs
  BY <1>2 DEF Packet
<1> QED
  BY <1>1, <1>2, <1>3 DEF Alive

-----------------------------------------------------------------------------
(* Types.                                                                  *)

\* The queue of the reports after a report.
LEMMA ReportedTyped ==
    ASSUME Typed, NEW doc \in Docs, Reported(doc)
    PROVE  lastId' \in Nat /\ waiting' \in SUBSET Nat /\ toShadow' \in Seq(Packet)
<1>1. lastId \in Nat /\ waiting \in SUBSET Nat /\ toShadow \in Seq(Packet)
  BY DEF Typed, CountsTyped, QueuesTyped
<1>2. [id |-> lastId + 1, doc |-> doc] \in Packet
  BY <1>1 DEF Packet
<1>3. Append(toShadow, [id |-> lastId + 1, doc |-> doc]) \in Seq(Packet)
  BY <1>1, <1>2, AtTheEnd
<1>4. lastId + 1 \in Nat
  BY <1>1
<1> QED
  BY <1>1, <1>3, <1>4, Zenon DEF Reported

\* The same after a change of the logger.
LEMMA ChangedTyped ==
    ASSUME Typed, NEW t \in Types \cup {NONE},
           UNCHANGED <<logger, change, told, lastId, waiting, toShadow>> \/ Changed(t)
    PROVE  /\ lastId' \in Nat /\ waiting' \in SUBSET Nat /\ toShadow' \in Seq(Packet) /\ change' \in Nat
           /\ logger' \in Types \cup {NONE} /\ told' \in {"no", "yes", "over"}
<1>1. CASE UNCHANGED <<logger, change, told, lastId, waiting, toShadow>>
  BY <1>1 DEF Typed, CountsTyped, QueuesTyped, DaemonTyped
<1>2. CASE Changed(t)
  <2>1. Doc("log", t) \in Docs
    BY DocFacts DEF Kinds
  <2>2. Reported(Doc("log", t)) /\ lastId \in Nat
    BY <1>2 DEF Changed, Reported, Typed, CountsTyped
  <2> QED
    BY <1>2, <2>1, <2>2, ReportedTyped DEF Changed
<1> QED
  BY <1>1, <1>2

\* The variables of the daemon keep their types, whatever step is taken.
LEMMA DaemonTypedNext ==
    ASSUME Typed, Next
    PROVE  DaemonTyped'
<1> USE DEF DaemonTyped, Typed, Lives, net
<1>0. /\ NONE \in Types \cup {NONE} /\ Blank \in Docs /\ \A d \in Docs : d.type \in Types \cup {NONE}
      /\ MaxTurns \in Nat /\ Restored(Blank) \in Types \cup {NONE} /\ \A d \in Docs : Restored(d) \in Types \cup {NONE}
  BY DocFacts, CacheAssumption DEF Restored
<1>1. CASE Start \/ Connect \/ SendConnectReport \/ Stop \/ LoseReport \/ LoseMessage
  BY <1>1 DEF Start, Connect, SendConnectReport, Stop, LoseReport, LoseMessage
<1>2. CASE Sync \/ SyncAwsIot
  <2>1. CASE SyncCache
    BY <1>0, <2>1 DEF SyncCache
  <2>2. CASE SyncNoFile
    BY <1>0, <2>2 DEF SyncNoFile
  <2>3. CASE SyncTurn
    BY <1>0, <2>3 DEF SyncTurn
  <2>4. CASE SyncGivesUp
    BY <1>0, <2>4 DEF SyncGivesUp
  <2>5. CASE SyncAwsIot
    <3>1. Restored(Doc("log", shadowLog)) \in Types \cup {NONE}
      BY DocFacts, <1>0 DEF Kinds
    <3> QED
      BY <1>0, <2>5, <3>1 DEF SyncAwsIot
  <2> QED
    BY <1>2, <2>1, <2>2, <2>3, <2>4, <2>5 DEF Sync
<1>3. CASE OnDelta
  <2>1. Reads(0, "delta") /\ HandleLog(rx'.type, TRUE) /\ UNCHANGED <<proc, dir, file, writing, own, turns, shadowLog, was>>
    BY <1>3 DEF OnDelta
  <2>2. rx' \in Docs
    BY <2>1, ReadsFacts
  <2>3. rx'.type \in Types \cup {NONE}
    BY <1>0, <2>2
  <2>4. logger' \in Types \cup {NONE} /\ told' \in {"no", "yes", "over"}
    BY <2>1, <2>3, HandleFacts, ChangedTyped
  <2> QED
    BY <2>1, <2>2, <2>4
<1>4. CASE OnOther
  <2>1. /\ \E id \in Nat, k \in Kinds : Reads(id, k)
        /\ UNCHANGED <<proc, dir, file, writing, logger, turns, shadowLog, was, told>>
    <3>1. 0 \in Nat /\ 1 .. lastId \subseteq Nat /\ {"desired", "log", "connect", "disconnect"} \subseteq Kinds
      BY DEF Kinds
    <3> QED
      BY <1>4, <3>1 DEF OnOther
  <2>2. rx' \in Docs
    BY <2>1, ReadsFacts
  <2> QED
    BY <2>1, <2>2
<1>5. CASE OnAnswer
  <2>1. /\ \E id, k : Reads(id, k)
        /\ writing' = rx' /\ file' = Opened /\ told' = IF told = "yes" THEN "over" ELSE told
        /\ UNCHANGED <<proc, dir, logger, turns, shadowLog, was>>
    BY <1>5 DEF OnAnswer
  <2>2. rx' \in Docs
    BY <2>1, ReadsFacts
  <2>3. Opened \in Docs
    BY <1>0 DEF Opened
  <2> QED
    BY <2>1, <2>2, <2>3
<1>6. CASE OnTimeout
  <2>1. Opened \in Docs /\ Doc("empty", NONE) \in Docs
    BY <1>0, DocFacts DEF Opened, Kinds
  <2> QED
    BY <1>6, <2>1 DEF OnTimeout
<1>7. CASE OnUpdate
  <2>1. /\ writing' = Blank /\ UNCHANGED <<dir, turns, rx, shadowLog, was>>
        /\ file' = IF writing.kind = "empty" THEN file ELSE Written(writing)
    BY <1>7 DEF OnUpdate
  <2>2. file' \in Docs
    BY <2>1 DEF Written
  <2>3. CASE HandleLog(writing.type, FALSE) /\ UNCHANGED proc
    <3>1. logger' \in Types \cup {NONE} /\ told' \in {"no", "yes", "over"}
      BY <1>0, <2>3, HandleFacts, ChangedTyped
    <3> QED
      BY <1>0, <2>1, <2>2, <2>3, <3>1
  <2>4. CASE /\ proc' = IF writing.kind = "disconnect" THEN "closed"
                        ELSE IF writing.kind = "connect" /\ proc = "closing" THEN "run" ELSE proc
             /\ told' = IF own > 0 /\ own = change THEN "yes" ELSE told
             /\ UNCHANGED logger
    BY <1>0, <2>1, <2>2, <2>4
  <2> QED
    BY <1>7, <2>3, <2>4 DEF OnUpdate
<1>8. CASE Exit \/ Crash
  BY <1>0, <1>8 DEF Exit, Crash, Gone
<1>9. CASE Serve
  <2>1. Head(toShadow) \in Packet
    BY <1>9, HeadAndTail DEF Serve, QueuesTyped
  <2>2. Head(toShadow).doc.type \in Types \cup {NONE}
    BY <1>0, <2>1 DEF Packet
  <2> QED
    BY <1>9, <2>2 DEF Serve
<1>10. ASSUME NEW t \in Types \cup {NONE}, Desire(t)
       PROVE  DaemonTyped'
  BY <1>10 DEF Desire
<1> QED
  BY <1>1, <1>2, <1>3, <1>4, <1>5, <1>6, <1>7, <1>8, <1>9, <1>10 DEF Next

\* The report of the connection.
LEMMA ConnectReported ==
    ASSUME Typed, SendConnectReport
    PROVE  Reported(Doc("connect", NONE)) /\ Doc("connect", NONE) \in Docs
<1>1. Doc("connect", NONE) \in Docs
  BY DocFacts DEF Kinds
<1>2. CASE NoReport
  BY <1>1, <1>2 DEF NoReport, Reported
<1>3. CASE /\ lastId' = lastId + 1
           /\ waiting' = {lastId'} \cup {i \in waiting : \E j \in waiting : j < i}
           /\ toShadow' = Append(toShadow, [id |-> lastId', doc |-> Doc("connect", NONE)])
  <2>1. lastId + 1 \in Nat /\ waiting \in SUBSET Nat
    BY DEF Typed, CountsTyped
  <2>2. {i \in waiting : \E j \in waiting : j < i} \in SUBSET Nat
    BY <2>1
  <2>3. waiting' \in SUBSET Nat
    BY <1>3, <2>1, <2>2
  <2> QED
    BY <1>1, <1>3, <2>3 DEF Reported
<1> QED
  BY <1>2, <1>3 DEF SendConnectReport

\* So do the counters.
LEMMA CountsTypedNext ==
    ASSUME Typed, Next
    PROVE  CountsTyped'
<1> USE DEF CountsTyped, Typed, bounds
<1>0. /\ {0} \subseteq Nat /\ {} \in SUBSET Nat
      /\ {MaxStarts, MaxDesires, MaxLosses} \subseteq Nat
      /\ \A n \in Nat : \A k \in 0 .. n : k < n => k + 1 \in 0 .. n
  BY CacheAssumption
<1>1. CASE Start
  <2>1. starts' \in 0 .. MaxStarts
    BY <1>0, <1>1 DEF Start
  <2> QED
    BY <1>0, <1>1, <2>1 DEF Start
<1>2. CASE Sync \/ SyncAwsIot \/ Connect \/ Exit \/ Crash \/ Serve
  BY <1>0, <1>2 DEF Sync, SyncCache, SyncNoFile, SyncTurn, SyncGivesUp, SyncAwsIot, Connect, Exit, Crash, Gone, Serve
<1>3. CASE SendConnectReport
  <2>1. lastId' \in Nat /\ waiting' \in SUBSET Nat
    BY <1>3, ConnectReported, ReportedTyped
  <2> QED
    BY <1>3, <2>1 DEF SendConnectReport
<1>4. CASE OnDelta
  <2>1. Reads(0, "delta") /\ HandleLog(rx'.type, TRUE) /\ UNCHANGED <<own, bounds>>
    BY <1>4 DEF OnDelta
  <2>2. rx'.type \in Types \cup {NONE}
    BY <2>1, ReadsFacts, DocFacts
  <2>3. lastId' \in Nat /\ waiting' \in SUBSET Nat /\ change' \in Nat
    BY <2>1, <2>2, HandleFacts, ChangedTyped
  <2> QED
    BY <2>1, <2>3
<1>5. CASE OnOther
  BY <1>5 DEF OnOther
<1>6. CASE OnAnswer
  BY <1>6 DEF OnAnswer
<1>7. CASE OnTimeout
  BY <1>7 DEF OnTimeout
<1>8. CASE OnUpdate
  <2>1. own' = 0 /\ UNCHANGED bounds
    BY <1>8 DEF OnUpdate
  <2>2. lastId' \in Nat /\ waiting' \in SUBSET Nat /\ change' \in Nat
    <3>1. CASE HandleLog(writing.type, FALSE)
      <4>1. writing.type \in Types \cup {NONE}
        BY DocFacts DEF DaemonTyped
      <4> QED
        BY <3>1, <4>1, HandleFacts, ChangedTyped
    <3>2. CASE NoReport /\ UNCHANGED change
      BY <3>2 DEF NoReport
    <3> QED
      BY <1>8, <3>1, <3>2 DEF OnUpdate
  <2> QED
    BY <1>0, <2>1, <2>2
<1>9. CASE Stop
  <2>1. Reported(Doc("disconnect", NONE)) /\ Doc("disconnect", NONE) \in Docs
    BY <1>9, ReportFacts, DocFacts DEF Stop, Kinds
  <2>2. lastId' \in Nat /\ waiting' \in SUBSET Nat
    BY <2>1, ReportedTyped
  <2> QED
    BY <1>9, <2>2 DEF Stop
<1>10. CASE LoseReport \/ LoseMessage
  <2>1. losses' \in 0 .. MaxLosses
    BY <1>0, <1>10 DEF LoseReport, LoseMessage
  <2> QED
    BY <1>10, <2>1 DEF LoseReport, LoseMessage
<1>11. ASSUME NEW t \in Types \cup {NONE}, Desire(t)
       PROVE  CountsTyped'
  <2>1. desires' \in 0 .. MaxDesires
    BY <1>0, <1>11 DEF Desire
  <2> QED
    BY <1>11, <2>1 DEF Desire
<1> QED
  BY <1>1, <1>2, <1>3, <1>4, <1>5, <1>6, <1>7, <1>8, <1>9, <1>10, <1>11 DEF Next

\* The service takes a report.
LEMMA ServeFacts ==
    ASSUME Typed, Serve
    PROVE  \E m \in In(toShadow) :
              /\ m \in Packet /\ toShadow' = Tail(toShadow) /\ toShadow # <<>>
              /\ toShadow' \in Seq(Packet) /\ toDaemon' \in Seq(Packet)
              /\ In(toShadow') \subseteq In(toShadow)
              /\ Ordered(toShadow) =>
                    Ordered(toShadow') /\ \A n \in In(toShadow') : n.id > 0 /\ m.id > 0 => m.id < n.id
              /\ shadowLog' = IF m.doc.kind = "log" THEN m.doc.type ELSE shadowLog
              /\ toDaemon' = IF proc \in Lives THEN Append(toDaemon, m) ELSE toDaemon
<1> DEFINE m == Head(toShadow)
<1>1. /\ toShadow # <<>> /\ toShadow' = Tail(toShadow)
      /\ shadowLog' = IF m.doc.kind = "log" THEN m.doc.type ELSE shadowLog
      /\ toDaemon' = IF proc \in Lives THEN Append(toDaemon, m) ELSE toDaemon
  BY DEF Serve
<1>2. toShadow \in Seq(Packet) /\ toDaemon \in Seq(Packet)
  BY DEF Typed, QueuesTyped
<1>3. /\ m \in In(toShadow) /\ m \in Packet /\ toShadow' \in Seq(Packet) /\ In(toShadow') \subseteq In(toShadow)
      /\ Ordered(toShadow) =>
            Ordered(toShadow') /\ \A n \in In(toShadow') : n.id > 0 /\ m.id > 0 => m.id < n.id
  BY <1>1, <1>2, HeadAndTail
<1> HIDE DEF m
<1>4. toDaemon' \in Seq(Packet)
  BY <1>1, <1>2, <1>3, AtTheEnd
<1> QED
  BY <1>1, <1>3, <1>4

\* A client changes the desired log.
LEMMA DesireFacts ==
    ASSUME Typed, NEW t \in Types \cup {NONE}, Desire(t)
    PROVE  \E a, b \in Packet :
              /\ a.id = 0 /\ b.id = 0 /\ {a.doc.kind, b.doc.kind} \subseteq {"desired", "delta"}
              /\ toDaemon' = Append(Append(toDaemon, a), b)
              /\ toDaemon' \in Seq(Packet) /\ In(toDaemon') = In(toDaemon) \cup {a, b}
              /\ Ordered(toDaemon) => Ordered(toDaemon')
<1>1. PICK k, l \in {"desired", "delta"} :
         toDaemon' = toDaemon \o <<[id |-> 0, doc |-> Doc(k, t)], [id |-> 0, doc |-> Doc(l, t)]>>
  BY DEF Desire
<1> DEFINE a == [id |-> 0, doc |-> Doc(k, t)]
           b == [id |-> 0, doc |-> Doc(l, t)]
<1>2. k \in Kinds /\ l \in Kinds /\ 0 \in Nat
  BY DEF Kinds
<1>3. Doc(k, t) \in Docs /\ Doc(l, t) \in Docs /\ Doc(k, t).kind = k /\ Doc(l, t).kind = l
  BY <1>2, DocFacts
<1>4. a \in Packet /\ b \in Packet /\ a.id = 0 /\ b.id = 0 /\ a.doc.kind = k /\ b.doc.kind = l
  BY <1>2, <1>3 DEF Packet
<1>5. toDaemon \in Seq(Packet)
  BY DEF Typed, QueuesTyped
<1>6. toDaemon' = toDaemon \o <<a, b>>
  BY <1>1
<1> HIDE DEF a, b
<1>7. toDaemon' = Append(Append(toDaemon, a), b)
  BY <1>4, <1>5, <1>6, TwoMore
<1>8. /\ Append(toDaemon, a) \in Seq(Packet) /\ In(Append(toDaemon, a)) = In(toDaemon) \cup {a}
      /\ Ordered(toDaemon) => Ordered(Append(toDaemon, a))
  BY <1>4, <1>5, AtTheEnd
<1>9. /\ toDaemon' \in Seq(Packet) /\ In(toDaemon') = In(Append(toDaemon, a)) \cup {b}
      /\ Ordered(toDaemon) => Ordered(toDaemon')
  BY <1>4, <1>7, <1>8, AtTheEnd
<1> QED
  BY <1>4, <1>7, <1>8, <1>9

\* The queues hold packets.
LEMMA QueuesTypedNext ==
    ASSUME Typed, Next
    PROVE  QueuesTyped'
<1> USE DEF QueuesTyped, Typed, net
<1>1. CASE Start \/ Sync \/ SyncAwsIot \/ OnTimeout
  BY <1>1 DEF Start, Sync, SyncCache, SyncNoFile, SyncTurn, SyncGivesUp, SyncAwsIot, OnTimeout
<1>2. CASE Connect \/ Exit \/ Crash
  BY <1>2, EmptyQueue DEF Connect, Exit, Crash, Gone
<1>3. CASE SendConnectReport
  BY <1>3, ConnectReported, ReportedTyped DEF SendConnectReport
<1>4. CASE OnDelta
  <2>1. Reads(0, "delta") /\ HandleLog(rx'.type, TRUE)
    BY <1>4 DEF OnDelta
  <2>2. rx'.type \in Types \cup {NONE}
    BY <2>1, ReadsFacts, DocFacts
  <2> QED
    BY <2>1, <2>2, ReadsFacts, HandleFacts, ChangedTyped
<1>5. CASE OnOther \/ OnAnswer
  <2>1. (\E id, k : Reads(id, k)) /\ UNCHANGED toShadow
    BY <1>5 DEF OnOther, OnAnswer
  <2> QED
    BY <2>1, ReadsFacts
<1>6. CASE OnUpdate
  <2>1. CASE HandleLog(writing.type, FALSE)
    <3>1. writing.type \in Types \cup {NONE}
      BY DocFacts DEF DaemonTyped
    <3> QED
      BY <1>6, <2>1, <3>1, HandleFacts, ChangedTyped DEF OnUpdate
  <2>2. CASE NoReport
    BY <1>6, <2>2 DEF NoReport, OnUpdate
  <2> QED
    BY <1>6, <2>1, <2>2 DEF OnUpdate
<1>7. CASE Stop
  <2>1. Reported(Doc("disconnect", NONE)) /\ Doc("disconnect", NONE) \in Docs
    BY <1>7, ReportFacts, DocFacts DEF Stop, Kinds
  <2> QED
    BY <1>7, <2>1, ReportedTyped DEF Stop
<1>8. CASE Serve
  BY <1>8, ServeFacts
<1>9. CASE LoseReport \/ LoseMessage
  BY <1>9, HeadAndTail DEF LoseReport, LoseMessage
<1>10. ASSUME NEW t \in Types \cup {NONE}, Desire(t)
       PROVE  QueuesTyped'
  BY <1>10, DesireFacts DEF Desire
<1> QED
  BY <1>1, <1>2, <1>3, <1>4, <1>5, <1>6, <1>7, <1>8, <1>9, <1>10 DEF Next

-----------------------------------------------------------------------------
(* What is at rest.                                                        *)

\* No life, no packets; no answer, no open file.
LEMMA StillNext ==
    ASSUME Typed, Still, Next
    PROVE  Still'
<1> USE DEF Still, Alive, Lives, net
<1>0. /\ Blank \in Docs /\ Missing \in Docs /\ Blank # Missing /\ Blank.kind = "blank" /\ lastId \in Nat
      /\ file \in Docs /\ writing \in Docs /\ rx \in Docs /\ dir \in {"writable", "absent"} /\ own \in Nat
  BY DocFacts DEF Typed, DaemonTyped, CountsTyped
<1>1. CASE Start \/ Connect
  BY <1>1 DEF Start, Connect
<1>2. CASE Sync \/ SyncAwsIot
  BY <1>2 DEF Sync, SyncCache, SyncNoFile, SyncTurn, SyncGivesUp, SyncAwsIot
<1>3. CASE SendConnectReport \/ Stop
  BY <1>3 DEF SendConnectReport, Stop
<1>4. CASE OnDelta \/ OnOther
  <2>1. /\ \E id, k : Reads(id, k)
        /\ UNCHANGED <<proc, dir, file, writing, own>>
    BY <1>4 DEF OnDelta, OnOther
  <2>2. proc \in Lives /\ writing = Blank
    BY <2>1, ReadsFacts
  <2> QED
    BY <1>0, <2>1, <2>2
<1>5. CASE OnAnswer
  <2>1. PICK id \in waiting, k \in {"log", "connect", "disconnect"} : Reads(id, k)
    BY <1>5 DEF OnAnswer
  <2>2. proc \in Lives /\ writing = Blank /\ rx'.kind = k
    BY <2>1, ReadsFacts
  <2>3. rx' # Blank
    BY <1>0, <2>2
  <2>4. writing' = rx' /\ file' = Opened /\ UNCHANGED <<proc, dir>>
    BY <1>5 DEF OnAnswer
  <2> QED
    BY <1>0, <2>2, <2>3, <2>4 DEF Opened
<1>6. CASE OnTimeout
  BY <1>0, <1>6 DEF OnTimeout, Opened
<1>7. CASE OnUpdate
  <2>1. /\ writing # Blank /\ writing' = Blank /\ own' = 0 /\ UNCHANGED <<dir, rx, toDaemon>>
        /\ file' = file \/ file' = Written(writing)
        /\ UNCHANGED proc \/ proc' = "closed" \/ (proc = "closing" /\ proc' = "run")
    BY <1>7 DEF OnUpdate
  <2>2. proc \in Lives \cup {"closed"}
    BY <2>1
  <2>3. proc' \in Lives \cup {"closed"}
    BY <2>1, <2>2
  <2>4. dir = "absent" => file' = Missing
    BY <2>1 DEF Written
  <2> QED
    BY <2>1, <2>3, <2>4
<1>8. CASE Exit \/ Crash
  BY <1>8 DEF Exit, Crash, Gone
<1>9. CASE Serve
  BY <1>9 DEF Serve
<1>10. CASE LoseReport \/ LoseMessage
  BY <1>10 DEF LoseReport, LoseMessage
<1>11. ASSUME NEW t \in Types \cup {NONE}, Desire(t)
       PROVE  Still'
  BY <1>11 DEF Desire
<1> QED
  BY <1>1, <1>2, <1>3, <1>4, <1>5, <1>6, <1>7, <1>8, <1>9, <1>10, <1>11 DEF Next

-----------------------------------------------------------------------------
(* The order of the reports.                                               *)

\* A packet that was fit stays so when a report is made.
LEMMA StaysFit ==
    ASSUME Typed, Typed', change <= lastId, NEW m \in Packet, Fit(m),
           \/ UNCHANGED <<logger, change, lastId>>
           \/ lastId' = lastId + 1 /\ UNCHANGED <<logger, change>>
           \/ lastId' = lastId + 1 /\ change' = lastId + 1
           \/ lastId' = lastId /\ change' = 0
    PROVE  Fit(m)'
<1>1. /\ m.id \in Nat /\ lastId \in Nat /\ change \in Nat /\ lastId' \in Nat /\ change' \in Nat
  BY DEF Typed, CountsTyped, Packet
<1>2. CASE UNCHANGED <<logger, change, lastId>>
  BY <1>2 DEF Fit
<1>3. CASE lastId' = lastId + 1 /\ UNCHANGED <<logger, change>>
  BY <1>1, <1>3 DEF Fit
<1>4. CASE lastId' = lastId + 1 /\ change' = lastId + 1
  BY <1>1, <1>4 DEF Fit
<1>5. CASE lastId' = lastId /\ change' = 0
  BY <1>1, <1>5 DEF Fit
<1> QED
  BY <1>2, <1>3, <1>4, <1>5

\* The order survives a report of a document that is not about the log, and a
\* change of the logger with or without its report.
LEMMA NumberedReport ==
    ASSUME Typed, Typed', Numbered, Alive, NEW doc \in Docs,
           \/ UNCHANGED <<lastId, toShadow, logger, change>>
           \/ Reported(doc) /\ doc.kind # "log" /\ UNCHANGED <<logger, change>>
           \/ \E t \in Types \cup {NONE} : Changed(t),
           UNCHANGED shadowLog, own' = 0 \/ (own' = own /\ UNCHANGED writing),
           In(toDaemon') \subseteq In(toDaemon), Ordered(toDaemon')
    PROVE  Numbered'
<1>1. /\ lastId \in Nat /\ change \in Nat /\ own \in Nat /\ lastId' \in Nat /\ change' \in Nat /\ own' \in Nat
      /\ toShadow \in Seq(Packet) /\ toDaemon \in Seq(Packet)
  BY DEF Typed, CountsTyped, QueuesTyped
<1>2. In(toShadow) \subseteq Packet /\ In(toDaemon) \subseteq Packet /\ \A m \in Packet : m.id \in Nat
  BY <1>1, HeadAndTail DEF Packet
<1>3. /\ change <= lastId /\ own <= lastId
      /\ \A n \in In(toShadow) : n.id > 0 /\ Fit(n) /\ own < n.id
      /\ \A m \in In(toDaemon) : Fit(m) /\ (m.id > 0 => own < m.id)
      /\ \A m \in In(toDaemon), n \in In(toShadow) : m.id < n.id
      /\ Ordered(toShadow)
      /\ \A m \in In(toDaemon) : m.id > 0 /\ m.id = change => shadowLog = logger
      /\ own > 0 /\ own = change => shadowLog = logger /\ writing = Doc("log", logger)
  BY DEF Numbered
<1>4. /\ \/ UNCHANGED <<logger, change, lastId>>
         \/ lastId' = lastId + 1 /\ UNCHANGED <<logger, change>>
         \/ lastId' = lastId + 1 /\ change' = lastId + 1
         \/ lastId' = lastId /\ change' = 0
      /\ UNCHANGED <<logger, change>> \/ change' = 0 \/ change' = lastId + 1
  BY DEF Reported, Changed
<1>5. \A m \in In(toShadow) \cup In(toDaemon) : Fit(m)'
  <2> SUFFICES ASSUME NEW m \in In(toShadow) \cup In(toDaemon)
               PROVE  Fit(m)'
    OBVIOUS
  <2>1. m \in Packet /\ Fit(m)
    BY <1>2, <1>3
  <2> QED
    BY <1>3, <1>4, <2>1, StaysFit
<1>6. change' <= lastId' /\ own' <= lastId'
  BY <1>1, <1>3, <1>4
<1>7. \A m \in In(toDaemon') : (Fit(m)') /\ (m.id > 0 => own' < m.id)
  BY <1>1, <1>2, <1>3, <1>5
<1>8. \A m \in In(toDaemon') : m.id > 0 /\ m.id = change' => shadowLog' = logger'
  <2> SUFFICES ASSUME NEW m \in In(toDaemon'), m.id > 0, m.id = change'
               PROVE  shadowLog' = logger'
    OBVIOUS
  <2>1. m \in In(toDaemon) /\ m.id \in Nat /\ m.id <= lastId
    BY <1>2, <1>3 DEF Fit
  <2>2. UNCHANGED <<logger, change>>
    BY <1>1, <1>4, <2>1
  <2> QED
    BY <1>3, <2>1, <2>2
<1>9. own' > 0 /\ own' = change' => shadowLog' = logger' /\ writing' = Doc("log", logger')
  <2> SUFFICES ASSUME own' > 0, own' = change'
               PROVE  shadowLog' = logger' /\ writing' = Doc("log", logger')
    OBVIOUS
  <2>1. own' = own /\ UNCHANGED writing
    BY <1>1
  <2>2. UNCHANGED <<logger, change>>
    BY <1>1, <1>3, <1>4, <2>1
  <2> QED
    BY <1>3, <2>1, <2>2
<1>10. /\ \A n \in In(toShadow') : n.id > 0 /\ (Fit(n)') /\ own' < n.id
       /\ \A m \in In(toDaemon'), n \in In(toShadow') : m.id < n.id
       /\ Ordered(toShadow')
  <2>1. CASE toShadow' = toShadow
    BY <1>1, <1>2, <1>3, <1>5, <2>1
  <2>2. CASE toShadow' # toShadow
    <3>1. PICK d \in Docs : /\ toShadow' = Append(toShadow, [id |-> lastId + 1, doc |-> d]) /\ lastId' = lastId + 1
                            /\ \/ d.kind # "log" /\ UNCHANGED <<logger, change>>
                               \/ d = Doc("log", logger') /\ change' = lastId + 1
      <4>1. \A t \in Types \cup {NONE} : Doc("log", t) \in Docs
        BY DocFacts DEF Kinds
      <4> QED
        BY <2>2, <4>1 DEF Reported, Changed
    <3>2. PICK x \in Packet : x = [id |-> lastId + 1, doc |-> d] /\ x.id = lastId + 1 /\ x.doc = d
      <4>1. [id |-> lastId + 1, doc |-> d] \in Packet
        BY <1>1 DEF Packet
      <4> QED
        BY <4>1
    <3>3. \A m \in In(toShadow) \cup In(toDaemon) : m.id < x.id
      <4>1. \A m \in In(toShadow) \cup In(toDaemon) : m.id \in Nat /\ m.id <= lastId
        BY <1>2, <1>3 DEF Fit
      <4> QED
        BY <1>1, <3>2, <4>1
    <3>4. In(toShadow') = In(toShadow) \cup {x} /\ Ordered(toShadow')
      BY <1>1, <1>3, <3>1, <3>2, <3>3, AtTheEnd
    <3>5. x.id > 0 /\ own' < x.id
      BY <1>1, <1>3, <3>2
    <3>6. Fit(x)'
      <4>1. x.id > 0 /\ x.id = lastId' /\ lastId' > change
        BY <1>1, <1>3, <3>1, <3>2
      <4>2. CASE d.kind # "log" /\ UNCHANGED <<logger, change>>
        BY <1>1, <3>2, <4>1, <4>2 DEF Fit
      <4>3. CASE d = Doc("log", logger') /\ change' = lastId + 1
        BY <1>1, <3>1, <3>2, <4>1, <4>3 DEF Fit
      <4> QED
        BY <3>1, <4>2, <4>3
    <3>7. \A n \in In(toShadow) : n.id > 0 /\ own' < n.id
      BY <1>1, <1>2, <1>3
    <3> QED
      BY <1>3, <1>5, <3>3, <3>4, <3>5, <3>6, <3>7
  <2> QED
    BY <2>1, <2>2
<1> QED
  BY <1>6, <1>7, <1>8, <1>9, <1>10 DEF Numbered

\* The service takes the next report, or it is lost.
LEMMA NumberedServe ==
    ASSUME Typed, Typed', Still, Numbered, Serve
    PROVE  Numbered'
<1> SUFFICES ASSUME Alive
             PROVE  Numbered'
  BY DEF Numbered, Serve, Alive
<1>1. /\ lastId \in Nat /\ change \in Nat /\ own \in Nat
      /\ toShadow \in Seq(Packet) /\ toDaemon \in Seq(Packet)
      /\ UNCHANGED <<proc, own, writing, logger, lastId, change>>
  BY DEF Typed, CountsTyped, QueuesTyped, Serve
<1>2. In(toShadow) \subseteq Packet /\ In(toDaemon) \subseteq Packet /\ \A m \in Packet : m.id \in Nat
  BY <1>1, HeadAndTail DEF Packet
<1>3. /\ change <= lastId /\ own <= lastId
      /\ \A n \in In(toShadow) : n.id > 0 /\ Fit(n) /\ own < n.id
      /\ \A m \in In(toDaemon) : Fit(m) /\ (m.id > 0 => own < m.id)
      /\ \A m \in In(toDaemon), n \in In(toShadow) : m.id < n.id
      /\ Ordered(toShadow) /\ Ordered(toDaemon)
      /\ \A m \in In(toDaemon) : m.id > 0 /\ m.id = change => shadowLog = logger
      /\ own > 0 /\ own = change => shadowLog = logger /\ writing = Doc("log", logger)
  BY DEF Numbered
<1>4. PICK m \in In(toShadow) :
         /\ m \in Packet
         /\ In(toShadow') \subseteq In(toShadow)
         /\ Ordered(toShadow') /\ \A n \in In(toShadow') : n.id > 0 /\ m.id > 0 => m.id < n.id
         /\ shadowLog' = IF m.doc.kind = "log" THEN m.doc.type ELSE shadowLog
         /\ toDaemon' = IF proc \in Lives THEN Append(toDaemon, m) ELSE toDaemon
  BY <1>3, ServeFacts
<1>5. /\ Append(toDaemon, m) \in Seq(Packet) /\ In(Append(toDaemon, m)) = In(toDaemon) \cup {m}
      /\ Ordered(Append(toDaemon, m))
  BY <1>1, <1>3, <1>4, AtTheEnd
<1>6. In(toDaemon') \subseteq In(toDaemon) \cup {m} /\ Ordered(toDaemon')
  BY <1>3, <1>4, <1>5
<1>7. \A k \in Packet : Fit(k) => Fit(k)'
  BY <1>1 DEF Fit
<1>8. m.id > 0 /\ Fit(m) /\ own < m.id /\ m.id \in Nat
  BY <1>2, <1>3, <1>4
<1>9. \A n \in In(toShadow') : n.id > 0 /\ (Fit(n)') /\ own' < n.id
  BY <1>1, <1>2, <1>3, <1>4, <1>7
<1>10. \A k \in In(toDaemon') : (Fit(k)') /\ (k.id > 0 => own' < k.id)
  BY <1>1, <1>2, <1>3, <1>4, <1>6, <1>7, <1>8
<1>11. \A k \in In(toDaemon'), n \in In(toShadow') : k.id < n.id
  BY <1>3, <1>4, <1>6, <1>8
<1>12. change > 0 /\ change < m.id => shadowLog' = shadowLog
  BY <1>1, <1>4, <1>8 DEF Fit
<1>13. ASSUME NEW k \in In(toDaemon'), k.id > 0, k.id = change'
       PROVE  shadowLog' = logger'
  <2>1. CASE k = m
    <3>1. m.doc = Doc("log", logger)
      BY <1>1, <1>8, <1>13, <2>1 DEF Fit
    <3>2. m.doc.kind = "log" /\ m.doc.type = logger
      BY <3>1 DEF Doc
    <3> QED
      BY <1>1, <1>4, <3>2
  <2>2. CASE k # m
    <3>1. k \in In(toDaemon)
      BY <1>6, <1>13, <2>2
    <3>2. k.id < m.id /\ shadowLog = logger
      BY <1>1, <1>3, <1>13, <3>1
    <3> QED
      BY <1>1, <1>12, <1>13, <3>2
  <2> QED
    BY <2>1, <2>2
<1>14. own' > 0 /\ own' = change' => shadowLog' = logger' /\ writing' = Doc("log", logger')
  BY <1>1, <1>3, <1>8, <1>12
<1> QED
  BY <1>1, <1>3, <1>4, <1>6, <1>9, <1>10, <1>11, <1>13, <1>14 DEF Numbered

\* The answer to a report that waits is read.
LEMMA NumberedAnswer ==
    ASSUME Typed, Typed', Still, Numbered, OnAnswer
    PROVE  Numbered'
<1>1. PICK id \in waiting, kind \in {"log", "connect", "disconnect"} : Reads(id, kind) /\ own' = id
  BY DEF OnAnswer
<1>2. writing' = rx' /\ UNCHANGED <<proc, logger, toShadow, shadowLog, lastId, change>>
  BY DEF OnAnswer
<1>3. /\ lastId \in Nat /\ change \in Nat /\ own \in Nat /\ id \in Nat
      /\ toShadow \in Seq(Packet) /\ toDaemon \in Seq(Packet)
  BY DEF Typed, CountsTyped, QueuesTyped
<1>4. In(toShadow) \subseteq Packet /\ In(toDaemon) \subseteq Packet /\ \A m \in Packet : m.id \in Nat
  BY <1>3, HeadAndTail DEF Packet
<1>5. Alive
  BY <1>1, ReadsFacts
<1>6. /\ change <= lastId
      /\ \A n \in In(toShadow) : n.id > 0 /\ Fit(n)
      /\ \A m \in In(toDaemon) : Fit(m)
      /\ \A m \in In(toDaemon), n \in In(toShadow) : m.id < n.id
      /\ Ordered(toShadow) /\ Ordered(toDaemon)
      /\ \A m \in In(toDaemon) : m.id > 0 /\ m.id = change => shadowLog = logger
  BY <1>5 DEF Numbered
<1>7. PICK m \in In(toDaemon) : /\ m.id = id /\ rx' = m.doc
                                /\ \A n \in In(toDaemon') : n.id > 0 /\ id > 0 => id < n.id
  BY <1>1, <1>6, ReadsFacts
<1>8. In(toDaemon') \subseteq In(toDaemon) /\ Ordered(toDaemon')
  BY <1>1, <1>6, ReadsFacts
<1>9. \A k \in Packet : Fit(k) => Fit(k)'
  BY <1>2 DEF Fit
<1>10. own' <= lastId'
  BY <1>1, <1>2, <1>6, <1>7 DEF Fit
<1>11. \A n \in In(toShadow') : n.id > 0 /\ (Fit(n)') /\ own' < n.id
  BY <1>1, <1>2, <1>4, <1>6, <1>7, <1>9
<1>12. \A k \in In(toDaemon') : (Fit(k)') /\ (k.id > 0 => own' < k.id)
  BY <1>1, <1>3, <1>4, <1>6, <1>7, <1>8, <1>9
<1>13. own' > 0 /\ own' = change' => shadowLog' = logger' /\ writing' = Doc("log", logger')
  BY <1>1, <1>2, <1>6, <1>7 DEF Fit
<1> QED
  BY <1>2, <1>6, <1>8, <1>10, <1>11, <1>12, <1>13 DEF Numbered

\* The order of the reports is kept, whatever step is taken.
LEMMA NumberedNext ==
    ASSUME Typed, Typed', Still, Numbered, Next
    PROVE  Numbered'
<1> USE DEF net
<1>0. /\ lastId \in Nat /\ change \in Nat /\ own \in Nat
      /\ toShadow \in Seq(Packet) /\ toDaemon \in Seq(Packet)
      /\ Blank \in Docs
  BY DocFacts DEF Typed, CountsTyped, QueuesTyped
<1>1. CASE Start \/ Sync \/ SyncAwsIot \/ Exit \/ Crash
  <2>1. ~Alive'
    BY <1>1 DEF Start, Sync, SyncCache, SyncNoFile, SyncTurn, SyncGivesUp, SyncAwsIot, Exit, Crash, Gone,
                Alive, Lives
  <2> QED
    BY <2>1 DEF Numbered
<1>2. CASE Connect
  <2>1. /\ lastId = 0 /\ change = 0 /\ own = 0 /\ toDaemon = <<>>
        /\ UNCHANGED <<lastId, change, own, toDaemon>> /\ toShadow' = <<>>
    BY <1>2 DEF Connect, Still, Alive, Lives
  <2> QED
    BY <2>1, EmptyQueue DEF Numbered
<1>3. CASE SendConnectReport
  <2>1. Alive /\ UNCHANGED <<writing, own, logger, toDaemon, shadowLog, change>>
    BY <1>3 DEF SendConnectReport, Alive, Lives
  <2>2. Reported(Doc("connect", NONE)) /\ Doc("connect", NONE) \in Docs /\ Doc("connect", NONE).kind # "log"
    BY <1>3, ConnectReported DEF Doc
  <2> QED
    BY <2>1, <2>2, NumberedReport DEF Numbered
<1>4. CASE OnDelta
  <2>1. Reads(0, "delta") /\ HandleLog(rx'.type, TRUE) /\ UNCHANGED <<writing, own, shadowLog>>
    BY <1>4 DEF OnDelta
  <2>2. Alive /\ In(toDaemon') \subseteq In(toDaemon) /\ Ordered(toDaemon') /\ rx'.type \in Types \cup {NONE}
    BY <2>1, ReadsFacts, DocFacts DEF Numbered
  <2>3. \/ UNCHANGED <<lastId, toShadow, logger, change>>
        \/ \E t \in Types \cup {NONE} : Changed(t)
    BY <2>1, <2>2, HandleFacts DEF Typed
  <2> QED
    BY <1>0, <2>1, <2>2, <2>3, NumberedReport
<1>5. CASE OnOther
  <2>1. (\E id, k : Reads(id, k)) /\ UNCHANGED <<writing, own, shadowLog, lastId, toShadow, logger, change>>
    BY <1>5 DEF OnOther
  <2>2. Alive /\ In(toDaemon') \subseteq In(toDaemon) /\ Ordered(toDaemon')
    BY <2>1, ReadsFacts DEF Numbered
  <2> QED
    BY <1>0, <2>1, <2>2, NumberedReport
<1>6. CASE OnAnswer
  BY <1>6, NumberedAnswer
<1>7. CASE OnTimeout
  <2>1. Alive /\ own' = 0 /\ UNCHANGED <<toDaemon, shadowLog, lastId, toShadow, logger, change>>
    BY <1>7 DEF OnTimeout, Alive
  <2> QED
    BY <1>0, <2>1, NumberedReport DEF Numbered
<1>8. CASE OnUpdate
  <2>1. Alive /\ own' = 0 /\ UNCHANGED <<toDaemon, shadowLog>>
    BY <1>8 DEF OnUpdate, Still
  <2>2. \/ UNCHANGED <<lastId, toShadow, logger, change>>
        \/ \E t \in Types \cup {NONE} : Changed(t)
    <3>1. CASE HandleLog(writing.type, FALSE)
      <4>1. writing.type \in Types \cup {NONE}
        BY DocFacts DEF Typed, DaemonTyped
      <4> QED
        BY <3>1, <4>1, HandleFacts DEF Typed
    <3>2. CASE NoReport /\ UNCHANGED <<logger, change>>
      BY <3>2 DEF NoReport
    <3> QED
      BY <1>8, <3>1, <3>2 DEF OnUpdate
  <2> QED
    BY <1>0, <2>1, <2>2, NumberedReport DEF Numbered
<1>9. CASE Stop
  <2>1. Alive /\ UNCHANGED <<writing, own, logger, toDaemon, shadowLog, change>>
    BY <1>9 DEF Stop, Alive, Lives
  <2>2. /\ Reported(Doc("disconnect", NONE)) /\ Doc("disconnect", NONE) \in Docs
        /\ Doc("disconnect", NONE).kind # "log"
    BY <1>9, ReportFacts, DocFacts DEF Stop, Kinds, Typed
  <2> QED
    BY <2>1, <2>2, NumberedReport DEF Numbered
<1>10. CASE Serve
  BY <1>10, NumberedServe
<1>11. CASE LoseReport
  <2>1. In(toShadow') \subseteq In(toShadow) /\ (Ordered(toShadow) => Ordered(toShadow'))
    BY <1>0, <1>11, HeadAndTail DEF LoseReport
  <2>2. UNCHANGED <<proc, writing, own, logger, toDaemon, shadowLog, lastId, change>>
    BY <1>11 DEF LoseReport
  <2>3. \A k \in Packet : Fit(k) => Fit(k)'
    BY <2>2 DEF Fit
  <2>4. In(toShadow) \subseteq Packet /\ In(toDaemon) \subseteq Packet
    BY <1>0, HeadAndTail
  <2> QED
    BY <2>1, <2>2, <2>3, <2>4 DEF Numbered, Alive
<1>12. CASE LoseMessage
  <2>1. In(toDaemon') \subseteq In(toDaemon) /\ (Ordered(toDaemon) => Ordered(toDaemon'))
    BY <1>0, <1>12, HeadAndTail DEF LoseMessage
  <2>2. UNCHANGED <<proc, writing, own, logger, toShadow, shadowLog, lastId, change>>
    BY <1>12 DEF LoseMessage
  <2>3. CASE Alive
    BY <1>0, <2>1, <2>2, <2>3, NumberedReport DEF Numbered
  <2>4. CASE ~Alive
    BY <2>2, <2>4 DEF Numbered, Alive
  <2> QED
    BY <2>3, <2>4
<1>13. ASSUME NEW t \in Types \cup {NONE}, Desire(t)
       PROVE  Numbered'
  <2>1. Alive /\ UNCHANGED <<proc, writing, own, logger, toShadow, shadowLog, lastId, change>>
    BY <1>13 DEF Desire, Alive
  <2>2. PICK a, b \in Packet :
          /\ a.id = 0 /\ b.id = 0 /\ {a.doc.kind, b.doc.kind} \subseteq {"desired", "delta"}
          /\ In(toDaemon') = In(toDaemon) \cup {a, b}
          /\ Ordered(toDaemon) => Ordered(toDaemon')
    BY <1>13, DesireFacts
  <2>3. /\ change <= lastId /\ own <= lastId
        /\ \A n \in In(toShadow) : n.id > 0 /\ Fit(n) /\ own < n.id
        /\ \A m \in In(toDaemon) : Fit(m) /\ (m.id > 0 => own < m.id)
        /\ \A m \in In(toDaemon), n \in In(toShadow) : m.id < n.id
        /\ Ordered(toShadow) /\ Ordered(toDaemon)
        /\ \A m \in In(toDaemon) : m.id > 0 /\ m.id = change => shadowLog = logger
        /\ own > 0 /\ own = change => shadowLog = logger /\ writing = Doc("log", logger)
    BY <2>1 DEF Numbered
  <2>4. \A k \in Packet : Fit(k) => Fit(k)'
    BY <2>1 DEF Fit
  <2>5. In(toShadow) \subseteq Packet /\ In(toDaemon) \subseteq Packet
    BY <1>0, HeadAndTail
  <2>6. Fit(a) /\ Fit(b)
    BY <1>0, <2>2 DEF Fit
  <2>7. \A n \in In(toShadow') : n.id > 0 /\ (Fit(n)') /\ own' < n.id
    BY <2>1, <2>3, <2>4, <2>5
  <2>8. \A m \in In(toDaemon') : (Fit(m)') /\ (m.id > 0 => own' < m.id)
    BY <2>1, <2>2, <2>3, <2>4, <2>5, <2>6
  <2>9. \A m \in In(toDaemon'), n \in In(toShadow') : m.id < n.id
    BY <2>1, <2>2, <2>3
  <2>10. \A m \in In(toDaemon') : m.id > 0 /\ m.id = change' => shadowLog' = logger'
    BY <2>1, <2>2, <2>3
  <2> QED
    BY <2>1, <2>2, <2>3, <2>7, <2>8, <2>9, <2>10 DEF Numbered
<1> QED
  BY <1>1, <1>2, <1>3, <1>4, <1>5, <1>6, <1>7, <1>8, <1>9, <1>10, <1>11, <1>12, <1>13 DEF Next

-----------------------------------------------------------------------------
(* What is kept names the logger.                                          *)

\* Nothing new is said about the log.
LEMMA AnsweredQuietly ==
    ASSUME Typed, Answered, Alive, Alive', told' # "no" => UNCHANGED <<logger, shadowLog>> /\ told # "no",
           NoLog(toShadow) => NoLog(toShadow'), NoLog(toDaemon) => NoLog(toDaemon'),
           file' = file \/ file'.kind # "log" \/ file' = writing,
           rx' = rx \/ rx'.kind # "log",
           writing' = writing \/ writing'.kind # "log" \/ writing' = rx,
           told' = "yes" => writing' = Blank /\ UNCHANGED <<file, dir>> /\ told = "yes"
    PROVE  Answered'
<1> SUFFICES ASSUME told' # "no"
             PROVE  /\ shadowLog' = Last' /\ NoLog(toShadow') /\ NoLog(toDaemon')
                    /\ file'.kind = "log" => file'.type = Last'
                    /\ rx'.kind = "log" => rx'.type = Last'
                    /\ writing'.kind = "log" => writing'.type = Last'
                    /\ told' = "yes" => writing' = Blank
                    /\ told' = "yes" /\ dir' = "writable" => file' = Doc("log", Last') \/ (file' = Missing /\ Last' = NONE)
                    /\ proc' # "synced"
  BY DEF Answered
<1>1. Last' = Last /\ Last = logger
  BY DEF Last
<1>2. /\ shadowLog = Last /\ NoLog(toShadow) /\ NoLog(toDaemon)
      /\ file.kind = "log" => file.type = Last
      /\ rx.kind = "log" => rx.type = Last
      /\ writing.kind = "log" => writing.type = Last
      /\ told = "yes" /\ dir = "writable" => file = Doc("log", Last) \/ (file = Missing /\ Last = NONE)
  BY DEF Answered
<1>3. proc' # "synced"
  BY DEF Alive, Lives
<1>4. shadowLog' = Last' /\ NoLog(toShadow') /\ NoLog(toDaemon')
  BY <1>1, <1>2
<1>5. /\ file'.kind = "log" => file'.type = Last'
      /\ rx'.kind = "log" => rx'.type = Last'
      /\ writing'.kind = "log" => writing'.type = Last'
  BY <1>1, <1>2
<1>6. told' = "yes" /\ dir' = "writable" => file' = Doc("log", Last') \/ (file' = Missing /\ Last' = NONE)
  BY <1>1, <1>2
<1> QED
  BY <1>3, <1>4, <1>5, <1>6

\* A report that is not about the log leaves the queue without one.
LEMMA QuietReport ==
    ASSUME Typed, NEW doc \in Docs, doc.kind # "log", Reported(doc)
    PROVE  NoLog(toShadow) => NoLog(toShadow')
<1>1. toShadow \in Seq(Packet) /\ lastId + 1 \in Nat
  BY DEF Typed, QueuesTyped, CountsTyped
<1>2. PICK x \in Packet : x = [id |-> lastId + 1, doc |-> doc] /\ x.doc = doc
  <2>1. [id |-> lastId + 1, doc |-> doc] \in Packet
    BY <1>1 DEF Packet
  <2> QED
    BY <2>1
<1>3. toShadow' = toShadow \/ toShadow' = Append(toShadow, x)
  BY <1>2 DEF Reported
<1>4. In(toShadow') \subseteq In(toShadow) \cup {x}
  BY <1>1, <1>3, AtTheEnd
<1> QED
  BY <1>2, <1>4 DEF NoLog

\* The start restores the logger that ran, or none.
LEMMA AnsweredSync ==
    ASSUME Typed, Still, Answered, Start \/ Sync \/ SyncAwsIot
    PROVE  Answered'
<1> USE DEF net
<1>1. /\ UNCHANGED <<dir, file, writing, rx, toShadow, toDaemon, shadowLog, was, told>>
      /\ ~Alive /\ ~Alive'
  BY DEF Start, Sync, SyncCache, SyncNoFile, SyncTurn, SyncGivesUp, SyncAwsIot, Alive, Lives
<1>2. Last = was /\ Last' = was
  BY <1>1 DEF Last
<1> SUFFICES ASSUME told' # "no", proc' = "synced"
             PROVE  logger' \in {NONE, was} /\ (told = "yes" /\ dir = "writable" => logger' = was)
  BY <1>1, <1>2 DEF Answered
<1>3. /\ shadowLog = was
      /\ file.kind = "log" => file.type = was
      /\ told = "yes" /\ dir = "writable" => file = Doc("log", was) \/ (file = Missing /\ was = NONE)
  BY <1>1, <1>2 DEF Answered
<1>4. CASE SyncCache
  <2>1. logger' = Restored(file) /\ file # Missing
    BY <1>4 DEF SyncCache
  <2>2. logger' \in {NONE, was}
    BY <1>3, <2>1 DEF Restored
  <2>3. file = Doc("log", was) => logger' = was
    BY <2>1 DEF Restored, Doc
  <2> QED
    BY <1>3, <2>1, <2>2, <2>3
<1>5. CASE SyncGivesUp
  <2>1. logger' = NONE /\ file = Missing
    BY <1>5 DEF SyncGivesUp, Still, Restored, Blank, Doc
  <2>2. Missing # Doc("log", was)
    BY DEF Missing, Doc
  <2> QED
    BY <1>3, <2>1, <2>2
<1>6. CASE SyncAwsIot
  <2>1. logger' = shadowLog
    BY <1>6 DEF SyncAwsIot, Restored, Doc
  <2> QED
    BY <1>3, <2>1
<1>7. CASE Start \/ SyncNoFile \/ SyncTurn
  BY <1>7 DEF Start, SyncNoFile, SyncTurn
<1> QED
  BY <1>4, <1>5, <1>6, <1>7 DEF Sync

\* The answer is written over the file.
LEMMA AnsweredUpdate ==
    ASSUME Typed, Still, Still', Numbered, Answered, OnUpdate
    PROVE  Answered'
<1>1. /\ writing # Blank /\ writing' = Blank /\ UNCHANGED <<dir, rx, toDaemon, shadowLog>>
      /\ file' = IF writing.kind = "empty" THEN file ELSE Written(writing)
  BY DEF OnUpdate
<1>2. /\ dir \in {"writable", "absent"} /\ own \in Nat /\ change \in Nat /\ lastId \in Nat
      /\ toShadow \in Seq(Packet) /\ toDaemon \in Seq(Packet)
      /\ Blank.kind = "blank" /\ Missing.kind = "missing"
  BY DocFacts DEF Typed, DaemonTyped, CountsTyped, QueuesTyped
<1>3. Alive /\ Alive'
  BY <1>1 DEF Still, Alive, Lives, OnUpdate
<1>4. told # "yes"
  BY <1>1 DEF Answered
<1>5. file' = file \/ file' = writing
  BY <1>1 DEF Written
<1>6. CASE HandleLog(writing.type, FALSE)
  <2>1. UNCHANGED <<logger, told, toShadow>> \/ told' = "no"
    BY <1>6, HandleFacts DEF Typed, Changed
  <2>2. CASE told' = "no"
    BY <2>2 DEF Answered
  <2>3. CASE UNCHANGED <<logger, told, toShadow>>
    BY <1>1, <1>2, <1>3, <1>4, <1>5, <2>3, AnsweredQuietly
  <2> QED
    BY <2>1, <2>2, <2>3
<1>7. CASE /\ told' = IF own > 0 /\ own = change THEN "yes" ELSE told
           /\ UNCHANGED <<logger, toShadow>>
  <2>1. CASE ~(own > 0 /\ own = change)
    BY <1>1, <1>2, <1>3, <1>4, <1>5, <1>7, <2>1, AnsweredQuietly
  <2>2. CASE own > 0 /\ own = change
    <3>1. shadowLog = logger /\ writing = Doc("log", logger) /\ rx = writing
      BY <1>3, <2>2 DEF Numbered, Still
    <3>2. writing.kind = "log" /\ writing.type = logger
      BY <3>1 DEF Doc
    <3>3. NoLog(toShadow)
      <4>1. \A n \in In(toShadow) : n \in Packet /\ n.id \in Nat /\ Fit(n) /\ own < n.id
        BY <1>2, <1>3, HeadAndTail DEF Numbered, Packet
      <4> QED
        BY <1>2, <2>2, <4>1 DEF Fit, NoLog
    <3>4. NoLog(toDaemon)
      <4>1. \A m \in In(toDaemon) : m \in Packet /\ m.id \in Nat /\ Fit(m) /\ (m.id > 0 => own < m.id)
        BY <1>2, <1>3, HeadAndTail DEF Numbered, Packet
      <4> QED
        BY <1>2, <2>2, <4>1 DEF Fit, NoLog
    <3>5. dir = "writable" => file' = Doc("log", logger)
      BY <1>1, <3>1, <3>2 DEF Still, Written
    <3>6. dir = "absent" => file' = Missing
      BY <1>1 DEF Still
    <3>7. Last' = logger
      BY <1>3, <1>7 DEF Last
    <3>8. file'.kind = "log" => file'.type = logger
      BY <1>2, <3>1, <3>2, <3>5, <3>6
    <3>9. proc' # "synced"
      BY <1>3 DEF Alive, Lives
    <3> QED
      BY <1>1, <1>2, <1>7, <3>1, <3>2, <3>3, <3>4, <3>5, <3>7, <3>8, <3>9 DEF Answered
  <2> QED
    BY <2>1, <2>2
<1> QED
  BY <1>6, <1>7 DEF OnUpdate, NoReport

\* What is kept names the logger, whatever step is taken.
LEMMA AnsweredNext ==
    ASSUME Typed, Still, Still', Numbered, Answered, Next
    PROVE  Answered'
<1> USE DEF net
<1>0. /\ toShadow \in Seq(Packet) /\ toDaemon \in Seq(Packet)
      /\ told \in {"no", "yes", "over"}
      /\ Blank \in Docs /\ Blank.kind = "blank" /\ Missing.kind = "missing"
  BY DocFacts DEF Typed, DaemonTyped, QueuesTyped
<1>1. CASE Start \/ Sync \/ SyncAwsIot
  BY <1>1, AnsweredSync
<1>2. CASE Connect
  <2> SUFFICES ASSUME told' # "no"
               PROVE  Answered'
    BY DEF Answered
  <2>1. /\ proc = "synced" /\ proc' = "connected" /\ toShadow' = <<>> /\ logger = was /\ told # "no"
        /\ UNCHANGED <<dir, file, writing, rx, toDaemon, shadowLog, logger, told>>
    BY <1>2 DEF Connect
  <2>2. Last = was /\ Last' = was
    BY <2>1 DEF Last, Alive, Lives
  <2>3. NoLog(toShadow')
    BY <2>1, EmptyQueue DEF NoLog
  <2> QED
    BY <2>1, <2>2, <2>3 DEF Answered
<1>3. CASE SendConnectReport
  <2>1. Alive /\ Alive' /\ UNCHANGED <<dir, file, writing, rx, logger, toDaemon, shadowLog, told>>
    BY <1>3 DEF SendConnectReport, Alive, Lives
  <2>2. NoLog(toShadow) => NoLog(toShadow')
    <3>1. Reported(Doc("connect", NONE)) /\ Doc("connect", NONE) \in Docs /\ Doc("connect", NONE).kind # "log"
      BY <1>3, ConnectReported DEF Doc
    <3> QED
      BY <3>1, QuietReport
  <2>3. told' = "yes" => writing' = Blank
    BY <2>1 DEF Answered
  <2> QED
    BY <2>1, <2>2, <2>3, AnsweredQuietly
<1>4. CASE OnDelta
  <2>1. /\ Reads(0, "delta") /\ HandleLog(rx'.type, TRUE)
        /\ UNCHANGED <<proc, dir, file, writing, shadowLog>>
    BY <1>4 DEF OnDelta
  <2>2. Alive /\ Alive' /\ In(toDaemon') \subseteq In(toDaemon) /\ rx'.kind = "delta"
    BY <2>1, ReadsFacts DEF Alive
  <2>3. UNCHANGED <<logger, told, toShadow>> \/ told' = "no"
    BY <2>1, HandleFacts DEF Typed, Changed
  <2>4. CASE told' = "no"
    BY <2>4 DEF Answered
  <2>5. CASE UNCHANGED <<logger, told, toShadow>>
    <3>1. told' = "yes" => writing' = Blank
      BY <2>1, <2>5 DEF Answered
    <3>2. NoLog(toDaemon) => NoLog(toDaemon')
      BY <2>2 DEF NoLog
    <3> QED
      BY <2>1, <2>2, <2>5, <3>1, <3>2, AnsweredQuietly
  <2> QED
    BY <2>3, <2>4, <2>5
<1>5. CASE OnOther \/ OnAnswer
  <2>1. PICK id, kind : Reads(id, kind)
    BY <1>5 DEF OnOther, OnAnswer
  <2>2. UNCHANGED <<proc, dir, logger, shadowLog, toShadow>> /\ writing = Blank
    BY <1>5, <2>1, ReadsFacts DEF OnOther, OnAnswer
  <2>3. PICK m \in In(toDaemon) : rx' = m.doc
    BY <2>1, ReadsFacts
  <2>4. Alive /\ Alive' /\ In(toDaemon') \subseteq In(toDaemon)
    BY <2>1, <2>2, ReadsFacts DEF Alive
  <2> SUFFICES ASSUME told' # "no"
               PROVE  Answered'
    BY DEF Answered
  <2>5. told # "no"
    BY <1>5 DEF OnOther, OnAnswer
  <2>6. NoLog(toDaemon)
    BY <2>5 DEF Answered
  <2>7. rx'.kind # "log" /\ NoLog(toDaemon')
    BY <2>3, <2>4, <2>6 DEF NoLog
  <2>8. CASE OnOther
    <3>1. UNCHANGED <<file, writing, told>>
      BY <2>8 DEF OnOther
    <3> QED
      BY <2>2, <2>4, <2>5, <2>7, <3>1, AnsweredQuietly
  <2>9. CASE OnAnswer
    <3>1. writing' = rx' /\ file' = Opened /\ told' # "yes"
      BY <2>9 DEF OnAnswer
    <3>2. file' = file \/ file'.kind # "log"
      BY <1>0, <3>1 DEF Opened
    <3> QED
      BY <2>2, <2>4, <2>5, <2>7, <3>1, <3>2, AnsweredQuietly
  <2> QED
    BY <1>5, <2>8, <2>9
<1>6. CASE OnTimeout
  <2>1. /\ Alive /\ Alive' /\ UNCHANGED <<logger, shadowLog, toShadow, toDaemon, dir, rx>>
        /\ file' = Opened /\ (writing' = Doc("empty", NONE) \/ writing' = rx)
        /\ told' # "yes" /\ (told' # "no" => told # "no")
    BY <1>6 DEF OnTimeout, Alive
  <2>2. file' = file \/ file'.kind # "log"
    BY <1>0, <2>1 DEF Opened
  <2>3. writing'.kind # "log" \/ writing' = rx
    BY <2>1 DEF Doc
  <2> QED
    BY <2>1, <2>2, <2>3, AnsweredQuietly
<1>7. CASE OnUpdate
  BY <1>7, AnsweredUpdate
<1>8. CASE Stop
  <2>1. Alive /\ Alive' /\ UNCHANGED <<dir, file, writing, rx, logger, toDaemon, shadowLog, told>>
    BY <1>8 DEF Stop, Alive, Lives
  <2>2. NoLog(toShadow) => NoLog(toShadow')
    <3>1. /\ Reported(Doc("disconnect", NONE)) /\ Doc("disconnect", NONE) \in Docs
          /\ Doc("disconnect", NONE).kind # "log"
      BY <1>8, ReportFacts, DocFacts DEF Stop, Kinds, Typed
    <3> QED
      BY <3>1, QuietReport
  <2>3. told' = "yes" => writing' = Blank
    BY <2>1 DEF Answered
  <2> QED
    BY <2>1, <2>2, <2>3, AnsweredQuietly
<1>9. CASE Exit \/ Crash
  <2> SUFFICES ASSUME told' # "no"
               PROVE  Answered'
    BY DEF Answered
  <2>1. /\ proc # "down" /\ proc' = "down"
        /\ was' = IF proc \in {"sync", "aws"} THEN was ELSE logger
        /\ told' = IF proc = "synced" /\ logger # was THEN "no" ELSE told
        /\ writing' = Blank /\ rx' = Blank /\ toDaemon' = <<>>
        /\ UNCHANGED <<dir, file, toShadow, shadowLog>>
    BY <1>9 DEF Exit, Crash, Gone
  <2>2. told' = told /\ (proc = "synced" => logger = was)
    BY <2>1
  <2>3. Last' = Last
    <3>1. Last' = was'
      BY <2>1 DEF Last, Alive, Lives
    <3>2. CASE Alive
      BY <2>1, <3>1, <3>2 DEF Last, Alive, Lives
    <3>3. CASE ~Alive
      <4>1. proc \in {"sync", "aws", "synced"}
        BY <2>1, <3>3 DEF Typed, DaemonTyped, Alive
      <4> QED
        BY <2>1, <2>2, <3>1, <3>3, <4>1 DEF Last
    <3> QED
      BY <3>2, <3>3
  <2>4. NoLog(toDaemon')
    BY <2>1, EmptyQueue DEF NoLog
  <2> QED
    BY <1>0, <2>1, <2>2, <2>3, <2>4 DEF Answered
<1>10. CASE Serve
  <2> SUFFICES ASSUME told' # "no"
               PROVE  Answered'
    BY DEF Answered
  <2>1. UNCHANGED <<proc, dir, file, writing, logger, rx, was, told>>
    BY <1>10 DEF Serve
  <2>2. NoLog(toShadow) /\ NoLog(toDaemon)
    BY <2>1 DEF Answered
  <2>3. PICK m \in In(toShadow) :
           /\ m \in Packet /\ In(toShadow') \subseteq In(toShadow)
           /\ shadowLog' = IF m.doc.kind = "log" THEN m.doc.type ELSE shadowLog
           /\ toDaemon' = IF proc \in Lives THEN Append(toDaemon, m) ELSE toDaemon
    BY <1>10, ServeFacts
  <2>4. m.doc.kind # "log"
    BY <2>2, <2>3 DEF NoLog
  <2>5. In(toDaemon') \subseteq In(toDaemon) \cup {m}
    BY <1>0, <2>3, AtTheEnd
  <2>6. NoLog(toShadow') /\ NoLog(toDaemon') /\ shadowLog' = shadowLog
    BY <2>2, <2>3, <2>4, <2>5 DEF NoLog
  <2>7. Last' = Last
    BY <2>1 DEF Last, Alive
  <2> QED
    BY <2>1, <2>6, <2>7 DEF Answered
<1>11. CASE LoseReport \/ LoseMessage
  <2>1. UNCHANGED <<proc, dir, file, writing, logger, rx, was, told, shadowLog>>
    BY <1>11 DEF LoseReport, LoseMessage
  <2>2. In(toShadow') \subseteq In(toShadow) /\ In(toDaemon') \subseteq In(toDaemon)
    BY <1>0, <1>11, HeadAndTail DEF LoseReport, LoseMessage
  <2>3. (NoLog(toShadow) => NoLog(toShadow')) /\ (NoLog(toDaemon) => NoLog(toDaemon'))
    BY <2>2 DEF NoLog
  <2>4. Last' = Last
    BY <2>1 DEF Last, Alive
  <2> QED
    BY <2>1, <2>3, <2>4 DEF Answered
<1>12. ASSUME NEW t \in Types \cup {NONE}, Desire(t)
       PROVE  Answered'
  <2>1. Alive /\ Alive' /\ UNCHANGED <<proc, dir, file, writing, logger, rx, told, shadowLog, toShadow>>
    BY <1>12 DEF Desire, Alive
  <2>2. PICK a, b \in Packet :
          /\ {a.doc.kind, b.doc.kind} \subseteq {"desired", "delta"}
          /\ In(toDaemon') = In(toDaemon) \cup {a, b}
    BY <1>12, DesireFacts
  <2>3. NoLog(toDaemon) => NoLog(toDaemon')
    BY <2>2 DEF NoLog
  <2>4. told' = "yes" => writing' = Blank
    BY <2>1 DEF Answered
  <2> QED
    BY <2>1, <2>3, <2>4, AnsweredQuietly
<1> QED
  BY <1>1, <1>2, <1>3, <1>4, <1>5, <1>6, <1>7, <1>8, <1>9, <1>10, <1>11, <1>12 DEF Next

-----------------------------------------------------------------------------
(* The theorems.                                                           *)

\* The invariant is that of the specification.
LEMMA InvAlways == Spec => []Inv
<1>1. ASSUME Init
      PROVE  Inv
  <2> USE <1>1 DEF Init
  <2>1. DaemonTyped
    BY DocFacts, CacheAssumption DEF DaemonTyped
  <2>2. CountsTyped
    BY CacheAssumption DEF CountsTyped
  <2>3. QueuesTyped
    BY EmptyQueue DEF QueuesTyped
  <2>4. Still /\ Numbered /\ ~Alive
    BY DEF Still, Numbered, Alive, Lives
  <2>5. Last = NONE
    BY <2>4 DEF Last
  <2>6. NoLog(toShadow) /\ NoLog(toDaemon)
    BY EmptyQueue DEF NoLog
  <2>7. Answered
    BY <2>5, <2>6, DocFacts DEF Answered
  <2> QED
    BY <2>1, <2>2, <2>3, <2>4, <2>7 DEF Inv, Typed
<1>2. ASSUME Inv, [Next]_vars
      PROVE  Inv'
  <2>1. CASE Next
    <3>1. Typed /\ Typed'
      BY <1>2, <2>1, DaemonTypedNext, CountsTypedNext, QueuesTypedNext DEF Inv, Typed
    <3>2. Still /\ Still' /\ Numbered /\ Answered
      BY <1>2, <2>1, <3>1, StillNext DEF Inv
    <3>3. Numbered' /\ Answered'
      BY <2>1, <3>1, <3>2, NumberedNext, AnsweredNext
    <3> QED
      BY <3>1, <3>2, <3>3 DEF Inv
  <2>2. CASE UNCHANGED vars
    <3> USE <2>2 DEF vars, net, bounds
    <3>1. Typed => Typed'
      BY DEF Typed, DaemonTyped, CountsTyped, QueuesTyped, Lives
    <3>2. Still => Still'
      BY DEF Still, Alive, Lives
    <3>3. Numbered => Numbered'
      BY DEF Numbered, Alive, Lives, Fit
    <3>4. Answered => Answered'
      BY DEF Answered, Last, Alive, Lives
    <3> QED
      BY <1>2, <3>1, <3>2, <3>3, <3>4 DEF Inv
  <2> QED
    BY <1>2, <2>1, <2>2
<1> QED
  BY <1>1, <1>2, PTL DEF Spec

\* The daemon, its cache and the queues hold what they may hold, for any types
\* of log and any bounds: no document of another kind, and no other type of log,
\* is ever written to the file or restored from it.
THEOREM CacheTypeCorrect == Spec => []TypeOK
<1>1. Inv => TypeOK
  <2> SUFFICES ASSUME Inv
               PROVE  TypeOK
    OBVIOUS
  <2>1. {file, writing, rx} \subseteq Docs /\ {logger, shadowLog, was} \subseteq Types \cup {NONE}
    BY DEF Inv, Typed, DaemonTyped
  <2>2. {lastId, own, change} \cup waiting \subseteq Nat
    BY DEF Inv, Typed, CountsTyped
  <2> QED
    BY <2>1, <2>2 DEF TypeOK, Inv, Typed, DaemonTyped, CountsTyped, QueuesTyped, Packet, Docs, Kinds
<1> QED
  BY <1>1, InvAlways, PTL

\* A restart never starts a logger that was not running when the daemon went
\* down, once the last change of the logger was answered: the file
\* passthru_shadow_state_sync_cache reads, and the shadow that the answer of AWS
\* IoT describes, name no other.
THEOREM NoLoggerFromThePast == Spec => []NoGhostLogger
<1>1. Inv => NoGhostLogger
  BY DEF Inv, Answered, NoGhostLogger
<1> QED
  BY <1>1, InvAlways, PTL

\* The logger that ran is started again, after any number of crashes, if the
\* answer to the report of its start was the last that was cached.
THEOREM CachedLoggerRestarts == Spec => []LoggerRemembered
<1>1. Inv => LoggerRemembered
  BY DEF Inv, Answered, LoggerRemembered
<1> QED
  BY <1>1, InvAlways, PTL

\* Once the last change of the logger was answered, the reported state of the
\* shadow is the logger of the daemon, across restarts.
THEOREM ShadowKnowsLogger == Spec => []ShadowNamesLogger
<1>1. Inv => ShadowNamesLogger
  BY DEF Inv, Answered, ShadowNamesLogger, Last, Alive
<1> QED
  BY <1>1, InvAlways, PTL
=============================================================================
