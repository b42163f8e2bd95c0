---------------------------- MODULE AuditRecorder ----------------------------
(***************************************************************************)
(* internal/audit/audit.go: a bounded queue that callers of Emit fill and  *)
(* never wait for, and one goroutine that writes the events, through a     *)
(* buffer, to a file for each day (UTC).  What is in a file is read back   *)
(* by Recent.  Crashes, failing opens and failing writes are modelled.     *)
(***************************************************************************)
EXTENDS Naturals, SequencesExt

CONSTANTS Event,
          QueueSize,              \* 1024
          RecentFiles,            \* 3
          DefaultPage, MaxPage,   \* 50 and 500
          PerDay,                 \* moments in a day
          MaxTime, MaxFaults,     \* bounds of the model
          Never

ASSUME AuditAssumption ==
    /\ {QueueSize, RecentFiles, DefaultPage, MaxPage, PerDay} \subseteq Nat \ {0}
    /\ {MaxTime, MaxFaults} \subseteq Nat
    /\ Never \notin Event \cup Nat \cup [lines : Seq(Event), part : Event \cup {Never}]

VARIABLES
    clock,
    stamp,   \* Timestamp of each event
    step,    \* where each event is
    queue,   \* r.ch
    out,     \* current: its day, its buffer, and whether its file is closed or
             \* its bufio.Writer has met an error: such a one writes no more
    log,     \* by day: the lines that parse, and the event whose bytes begin
             \* an unfinished last line
    phase,   \* "up", "closing" or "closed"
    faults,  \* crashes and failures so far
    doomed   \* history: events in memory at a fault, or given to a writer that
             \* had failed, or that json could not encode

avars == <<clock, stamp, step, queue, out, log, phase, faults, doomed>>

DayOf(t) == t \div PerDay
Days == 0 .. DayOf(MaxTime)
NoOut == [day |-> Never, bad |-> FALSE, buf |-> <<>>]
NoLines == [lines |-> <<>>, part |-> Never]

AuditInit == /\ clock = 0
        /\ stamp = [e \in Event |-> 0]
        /\ step = [e \in Event |-> "new"]
        /\ queue = <<>>
        /\ out = NoOut
        /\ log = [d \in Days |-> Never]
        /\ phase = "up" /\ faults = 0 /\ doomed = {}

\* f after all bytes of b: an unfinished line ruins the event behind it, unless
\* that event is its own.
With(f, b) ==
    IF b = <<>> THEN f
    ELSE [lines |-> f.lines \o (IF f.part \in {Never, Head(b)} THEN b ELSE Tail(b)),
          part |-> Never]

\* The same, and then the first bytes of e.
WithPart(f, b, e) ==
    LET g == With(f, b) IN [g EXCEPT !.part = IF @ = Never THEN e ELSE @]

ReadableIn(d) == IF log[d] = Never THEN {} ELSE ToSet(log[d].lines)
Readable == UNION {ReadableIn(d) : d \in Days}

\* The line of the next event; json may not encode it (Extras can hold any
\* value), and then there is none and the event is gone.
Lines == {<<Head(queue)>>, <<>>}
Unencoded(line) == {Head(queue)} \ ToSet(line)

-----------------------------------------------------------------------------
(* Wrong variants of some definitions below, each a bug the code could have. *)

OpenNoFlush(d, line) == \* the old file is closed without Flush
    /\ out' = [day |-> d, bad |-> FALSE, buf |-> line]
    /\ log' = IF log[d] = Never THEN [log EXCEPT ![d] = NoLines] ELSE log
    /\ doomed' = doomed \cup Unencoded(line)
    /\ UNCHANGED faults
SendOver(e) == \* the queue has no bound
    /\ step[e] = "stamped"
    /\ IF phase = "up"
       THEN queue' = Append(queue, e) /\ step' = [step EXCEPT ![e] = "queued"]
       ELSE step' = [step EXCEPT ![e] = "dropped"] /\ UNCHANGED queue
    /\ UNCHANGED <<clock, stamp, out, log, phase, faults, doomed>>
NewestOldest == \* in ascending order
    {d \in Days : log[d] # Never /\
        Cardinality({x \in Days : log[x] # Never /\ x < d}) < RecentFiles}

-----------------------------------------------------------------------------
(* Emit *)

Time == /\ clock < MaxTime
        /\ clock' = clock + 1
        /\ UNCHANGED <<stamp, step, queue, out, log, phase, faults, doomed>>

Stamp(e) == /\ step[e] = "new"
            /\ stamp' = [stamp EXCEPT ![e] = clock]
            /\ step' = [step EXCEPT ![e] = "stamped"]
            /\ UNCHANGED <<clock, queue, out, log, phase, faults, doomed>>

\* select: a full queue costs the event, a closed one costs a panic too.
Send(e) ==
    /\ step[e] = "stamped"
    /\ IF phase = "up" /\ Len(queue) < QueueSize
       THEN queue' = Append(queue, e) /\ step' = [step EXCEPT ![e] = "queued"]
       ELSE step' = [step EXCEPT ![e] = "dropped"] /\ UNCHANGED queue
    /\ UNCHANGED <<clock, stamp, out, log, phase, faults, doomed>>

-----------------------------------------------------------------------------
(* loop *)

\* What flushing the buffer can lead to.  A write may fail after any number of
\* bytes; the errors are not looked at.
Flushes ==
    LET b == out.buf
        f == log[out.day]
        Result(g, failed) ==
            [log |-> [log EXCEPT ![out.day] = g], bad |-> failed,
             lost |-> IF failed THEN ToSet(b) \ ToSet(g.lines) ELSE {}]
    IN  IF b = <<>> THEN {[log |-> log, bad |-> out.bad, lost |-> {}]}
        ELSE IF out.bad THEN {Result(f, TRUE)}
        ELSE {Result(With(f, b), FALSE)} \cup
             {r \in UNION {{Result(With(f, SubSeq(b, 1, k)), TRUE),
                            Result(WithPart(f, SubSeq(b, 1, k), b[k + 1]), TRUE)} :
                              k \in 0 .. Len(b) - 1} : faults < MaxFaults}

\* Whether result r is a failure that had not been met before.
Cost(r) == IF r.bad /\ ~out.bad THEN 1 ELSE 0

\* The next event belongs to day d, which is not the current one: the current
\* file is closed, then the other opened.  When that fails the event is gone,
\* and the closed file stays current.
Open(d, line) ==
    \E r \in Flushes :
       \/ /\ out' = [day |-> d, bad |-> FALSE, buf |-> line]
          /\ log' = IF log[d] = Never THEN [r.log EXCEPT ![d] = NoLines] ELSE r.log
          /\ faults' = faults + Cost(r)
          /\ doomed' = doomed \cup r.lost \cup Unencoded(line)
       \/ /\ faults + Cost(r) < MaxFaults
          /\ out' = IF out.day = Never THEN out ELSE [out EXCEPT !.bad = TRUE, !.buf = <<>>]
          /\ log' = r.log
          /\ faults' = faults + Cost(r) + 1
          /\ doomed' = doomed \cup r.lost \cup {Head(queue)}

Take == /\ queue # <<>>
        /\ LET d == DayOf(stamp[Head(queue)])
           IN  \E line \in Lines :
                 \/ /\ out.day = d
                    /\ out' = [out EXCEPT !.buf = @ \o line]
                    /\ doomed' = doomed \cup Unencoded(line)
                    /\ UNCHANGED <<log, faults>>
                 \/ out.day # d /\ Open(d, line)
        /\ step' = [step EXCEPT ![Head(queue)] = "taken"]
        /\ queue' = Tail(queue)
        /\ UNCHANGED <<clock, stamp, phase>>

FlushTo(r) == /\ log' = r.log
              /\ faults' = faults + Cost(r)
              /\ doomed' = doomed \cup r.lost
              /\ UNCHANGED <<clock, stamp, step, queue>>

FlushTick == /\ out.day # Never /\ out.buf # <<>>
             /\ \E r \in Flushes :
                   /\ out' = [out EXCEPT !.bad = r.bad, !.buf = <<>>]
                   /\ FlushTo(r)
             /\ UNCHANGED phase

\* The buffer is full: its bytes are written, the last event in part.
BufferFull ==
    /\ out.buf # <<>> /\ ~out.bad
    /\ LET b == out.buf
       IN  log' = [log EXCEPT ![out.day] = WithPart(@, Front(b), Last(b))]
    /\ out' = [out EXCEPT !.buf = <<Last(@)>>]
    /\ UNCHANGED <<clock, stamp, step, queue, phase, faults, doomed>>

\* The closed queue is empty: flush, close the file, return.
Finish == /\ phase = "closing" /\ queue = <<>>
          /\ \E r \in Flushes : FlushTo(r)
          /\ out' = NoOut
          /\ phase' = "closed"

-----------------------------------------------------------------------------
Close == /\ phase = "up"
         /\ phase' = "closing"
         /\ UNCHANGED <<clock, stamp, step, queue, out, log, faults, doomed>>

\* The process dies and is started again; callers of Emit die with it.
Crash == /\ faults < MaxFaults
         /\ queue' = <<>> /\ out' = NoOut /\ phase' = "up"
         /\ step' = [e \in Event |-> CASE step[e] = "stamped" -> "dropped"
                                       [] step[e] = "queued" -> "taken"
                                       [] OTHER -> step[e]]
         /\ faults' = faults + 1
         /\ doomed' = doomed \cup ToSet(queue) \cup ToSet(out.buf)
         /\ UNCHANGED <<clock, stamp, log>>

AuditNext == \/ Time \/ Close \/ Crash
        \/ \E e \in Event : Stamp(e) \/ Send(e)
        \/ Take \/ FlushTick \/ BufferFull \/ Finish

AuditSpec == AuditInit /\ [][AuditNext]_avars

\* The goroutine goes on while it has something to do; with as few events as
\* the model has, select need not even be fair to the ticker's case.
AuditWork == Take \/ FlushTick \/ Finish
AuditFairSpec == AuditSpec /\ WF_avars(AuditWork)

-----------------------------------------------------------------------------
(* Recent and its handler *)

Newest == {d \in Days : log[d] # Never /\
              Cardinality({x \in Days : log[x] # Never /\ x > d}) < RecentFiles}

\* The answers Recent(n) may give: the n latest, which ones of a moment is open.
Recent(n) ==
    LET All == UNION {ReadableIn(d) : d \in Newest}
    IN  IF Cardinality(All) <= n THEN {All}
        ELSE {R \in SUBSET All : /\ Cardinality(R) = n
                                 /\ \A e \in All \ R, x \in R : stamp[e] <= stamp[x]}

handleAuditList(n) == Recent(LET m == IF n = 0 THEN DefaultPage ELSE n
                             IN  IF m > MaxPage THEN MaxPage ELSE m)

-----------------------------------------------------------------------------
AuditTypeOK ==
    /\ clock \in 0 .. MaxTime /\ stamp \in [Event -> 0 .. MaxTime]
    /\ step \in [Event -> {"new", "stamped", "queued", "taken", "dropped"}]
    /\ queue \in Seq(Event) /\ Len(queue) <= QueueSize
    /\ out \in [day : Days \cup {Never}, bad : BOOLEAN, buf : Seq(Event)]
    /\ log \in [Days -> [lines : Seq(Event), part : Event \cup {Never}] \cup {Never}]
    /\ phase \in {"up", "closing", "closed"}
    /\ faults \in 0 .. MaxFaults
    /\ doomed \subseteq Event

InBuffer(e) == \E i \in DOMAIN out.buf : out.buf[i] = e
Torn == {e \in Event : step[e] = "taken" /\ e \notin Readable \cup doomed /\ ~InBuffer(e)}

\* An event the writer took is in its buffer or in a line, save those that were
\* in memory at a fault or that json cannot encode; and beyond these each crash
\* or failed write spoils at most one: the event written behind the line it left
\* unfinished.
LossNeedsFault == Cardinality(Torn) <= faults

\* An event is in one line at most, in the file of its day.
OneLineEach == \A d \in Days : log[d] # Never =>
                  /\ IsInjective(log[d].lines)
                  /\ \A e \in ReadableIn(d) : DayOf(stamp[e]) = d

\* "Close drains the queue": when it has returned nothing is left in memory.
CloseDrains == phase = "closed" => \A e \in Event : step[e] # "queued" /\ ~InBuffer(e)

\* What was accepted can be read back later, once, from where Recent looks for it,
\* or a fault or an event that json cannot encode explains why not.
AuditIsKept == LossNeedsFault /\ OneLineEach /\ CloseDrains

\* Recent looks at a few files, never at all, and yet no readable event is later
\* than one it gives.
RecentIsLatest ==
    \A n \in 0 .. MaxPage + 1 : \A R \in handleAuditList(n) :
       \A e \in Readable \ R, x \in R : stamp[e] <= stamp[x]

\* When the callers fall silent, as with finitely many events they must, what
\* is in the queue leaves the memory, also without a Close: by LossNeedsFault it
\* can then be read, or is lost to a fault.
ReachesDisk == queue # <<>> ~> queue = <<>> /\ out.buf = <<>>
=============================================================================
