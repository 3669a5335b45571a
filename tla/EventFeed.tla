------------------------------ MODULE EventFeed ------------------------------
(***************************************************************************)
(* From a line in an events file to a browser.  A cook appends lines to     *)
(* .events/<session>.jsonl.  The dashboard's tailer reads what has been     *)
(* added and publishes each line on the bus, at a limited rate; its         *)
(* snapshotter builds the snapshot again and publishes what has become of   *)
(* it.  Every client of GET /api/events has a bounded queue of its own, and *)
(* a client that has to connect again also asks for the snapshot.           *)
(* The file is counted in halves of lines: a line is there, for a reader,   *)
(* when its second half is, with the newline.                               *)
(***************************************************************************)
EXTENDS Naturals, Sequences, FiniteSets, SequencesExt

CONSTANTS
    MaxReads,   \* bound: reads of the file under way at a time
    MaxQueue,
    LogLimit,   \* log.append lines per window
    MaxLines,   \* bound: lines written
    MaxFaults,  \* bound: reads and snapshots that fail, connections that break
    MaxWindows  \* bound: windows of the rate limit that end

ASSUME FeedAssumption ==
    /\ MaxQueue \in Nat \ {0} /\ LogLimit \in Nat \ {0}
    /\ MaxLines \in Nat /\ MaxFaults \in Nat /\ MaxWindows \in Nat

VARIABLES
    written,    \* halves of lines in the file
    changed,    \* the tailer's watcher has a change to report
    offset,     \* how far the tailer has read
    reads,      \* the reads under way: which halves each covers
    limiter,    \* the window of the rate limit
    feed,       \* the event stream of one client
    view,       \* the snapshot the client shows, by what the file was like
    fetches,    \* its requests for the snapshot: not answered, or the answer
    due,        \* the snapshotter's debounce timer runs
    cached,     \* the snapshot the server holds, likewise
    faults, windows,
    passed,     \* history: lines published, or dropped by the rate limit
    unread      \* history: the last read has failed

eventsFile == <<written, changed, due>>
tail == <<offset, reads, unread>>
out == <<limiter, feed, passed>>
client == <<view, fetches>>
feedVars == <<eventsFile, tail, out, client, cached, faults, windows>>

BusEvent(type, line) == [type |-> type, line |-> line]
Overflow == BusEvent("overflow", 0)
Errors == {"error", "overflow"}

NoFeed == [phase |-> "closed", queue |-> <<>>, hand |-> <<>>, overflowed |-> FALSE,
           told |-> FALSE, lost |-> {}, frame |-> 0, again |-> FALSE, missed |-> 0]
Unanswered == [answered |-> FALSE, snapshot |-> 0]

Later(v, w) == IF v < w THEN w ELSE v
-----------------------------------------------------------------------------
FeedInit ==
    /\ written = 0
    /\ changed = FALSE
    /\ offset = 0
    /\ reads = <<>>
    /\ limiter = [over |-> FALSE, consumed |-> 0, dropped |-> 0]
    /\ feed = NoFeed
    /\ view = 0
    /\ fetches = <<>>
    /\ due = FALSE
    /\ cached = 0
    /\ faults = 0
    /\ windows = 0
    /\ passed = {}
    /\ unread = FALSE

(* The bus, and the queue of a client *)

\* Seeded fault: the oldest event goes, whatever it is.
DroppableAny(queue) == IF queue = <<>> THEN 0 ELSE 1

\* The first event in the queue that is no error, or 0.
Droppable(queue) ==
    LET candidates == {i \in DOMAIN queue : queue[i].type \notin Errors}
    IN IF candidates = {} THEN 0 ELSE CHOOSE i \in candidates : \A j \in candidates : i <= j

\* The queue at its limit: one event goes, and the first time an error comes.
Overrun(f) ==
    LET drop == Droppable(f.queue)
        rest == IF drop = 0 THEN f.queue ELSE RemoveAt(f.queue, drop)
    IN [f EXCEPT !.queue = IF f.overflowed THEN rest ELSE Append(rest, Overflow),
                 !.overflowed = TRUE,
                 !.lost = IF drop = 0 THEN @ ELSE @ \cup {f.queue[drop].type},
                 !.missed = IF drop = 0 \/ f.queue[drop].type # "state.changed" THEN @
                            ELSE Later(@, f.queue[drop].line)]

\* The writer that waits is handed the event, past the queue.
Pushed(f, event) ==
    IF f.phase # "live"
    THEN [f EXCEPT !.missed = IF f.phase = "opening" /\ event.type = "state.changed"
                              THEN event.line ELSE @]
    ELSE IF f.hand = <<>> THEN [f EXCEPT !.hand = <<event>>]
    ELSE LET g == IF Len(f.queue) >= MaxQueue THEN Overrun(f) ELSE f
         IN [g EXCEPT !.queue = Append(@, event)]

(* The rate limit *)

\* State of a read that hands over its lines: [limiter, feed, passed].
Dropped(st) == [st EXCEPT !.limiter.dropped = @ + 1]

\* A window that has ended tells what it has dropped, and another begins.
NextWindow(st) ==
    IF ~st.limiter.over THEN st
    ELSE [st EXCEPT
             !.feed = IF st.limiter.dropped > 0 THEN Pushed(@, BusEvent("notice", 0)) ELSE @,
             !.limiter = [over |-> FALSE, consumed |-> 0, dropped |-> 0]]

\* onLine.  The second half of a line by itself is no JSON, and skipped.
OnLine(st, line) ==
    IF ~line.whole THEN st
    ELSE LET next == NextWindow(st)
             seen == [next EXCEPT !.passed = @ \cup {line.line}]
         IN IF next.limiter.consumed >= LogLimit THEN Dropped(seen)
            ELSE [seen EXCEPT !.limiter.consumed = @ + 1,
                              !.feed = Pushed(@, BusEvent("log.append", line.line))]

WindowEnds ==
    /\ ~limiter.over
    /\ windows < MaxWindows
    /\ windows' = windows + 1
    /\ limiter' = [limiter EXCEPT !.over = TRUE]
    /\ UNCHANGED <<eventsFile, tail, feed, passed, client, cached, faults>>

(* The file, and the tailer *)

\* A writer appends half a line; both watchers hear of it, and the debounce
\* timer starts anew.
Write ==
    /\ written < 2 * MaxLines
    /\ written' = written + 1
    /\ changed' = TRUE
    /\ due' = TRUE
    /\ UNCHANGED <<tail, out, client, cached, faults, windows>>

\* Seeded fault: one read at a time, and a change during it is forgotten.
StartReadUnlessBusy ==
    /\ changed
    /\ changed' = FALSE
    /\ reads' = IF reads = <<>> /\ written > offset
                THEN <<[from |-> offset, to |-> written]>> ELSE reads
    /\ unread' = FALSE
    /\ UNCHANGED <<written, due, offset, out, client, cached, faults, windows>>

\* readNewLines: stat, and a read from the offset of the moment.
StartRead ==
    /\ changed
    /\ Len(reads) < MaxReads
    /\ changed' = FALSE
    /\ IF written > offset
       THEN /\ reads' = Append(reads, [from |-> offset, to |-> written])
            /\ UNCHANGED offset
       ELSE /\ offset' = written
            /\ UNCHANGED reads
    /\ unread' = FALSE
    /\ UNCHANGED <<written, due, out, client, cached, faults, windows>>

\* The newline-terminated pieces of what has been read.
LinesIn(read) ==
    LET first == read.from \div 2 + 1
    IN [i \in 1 .. (read.to \div 2) + 1 - first |->
            [line |-> first + i - 1, whole |-> read.from <= 2 * (first + i - 2)]]

\* Seeded fault: the fragment at the end counts as read.
RewoundNever(read) == read.to

\* The offset is set back to where the line that has no newline yet begins.
Rewound(read) == 2 * (read.to \div 2)

\* The lines of a read, one after the other.
HandedOn(st, lines) ==
    LET after[i \in 0 .. Len(lines)] ==
            IF i = 0 THEN st ELSE OnLine(after[i - 1], lines[i])
    IN after[Len(lines)]

EndRead(r) ==
    /\ LET st == HandedOn([limiter |-> limiter, feed |-> feed, passed |-> passed],
                          LinesIn(reads[r]))
       IN limiter' = st.limiter /\ feed' = st.feed /\ passed' = st.passed
    /\ offset' = Rewound(reads[r])
    /\ reads' = RemoveAt(reads, r)
    /\ UNCHANGED <<eventsFile, unread, client, cached, faults, windows>>

ReadFails(r) ==
    /\ faults < MaxFaults
    /\ faults' = faults + 1
    /\ reads' = RemoveAt(reads, r)
    /\ unread' = TRUE
    /\ UNCHANGED <<eventsFile, offset, out, client, cached, windows>>

(* The snapshotter *)

\* Nothing has become of the change, or everybody is told.
Rebuild ==
    /\ due
    /\ due' = FALSE
    /\ cached' = written
    /\ feed' = IF cached = written THEN feed
               ELSE Pushed(feed, BusEvent("state.changed", written))
    /\ UNCHANGED <<written, changed, tail, limiter, passed, client, faults, windows>>

\* Seeded fault: the snapshot that could not be told is kept.
RebuildFailsKeeping ==
    /\ due
    /\ faults < MaxFaults
    /\ faults' = faults + 1
    /\ due' = FALSE
    /\ cached' = written
    /\ feed' = Pushed(feed, BusEvent("error", 0))
    /\ UNCHANGED <<written, changed, tail, limiter, passed, client, windows>>

\* buildSnapshot throws: E_REDUCER_FAILED, and the old snapshot stays.
RebuildFails ==
    /\ due
    /\ faults < MaxFaults
    /\ faults' = faults + 1
    /\ due' = FALSE
    /\ feed' = Pushed(feed, BusEvent("error", 0))
    /\ UNCHANGED <<written, changed, tail, limiter, passed, client, cached, windows>>

(* A client of GET /api/events: the store of a browser tab, which has fetched a
   snapshot before it connects for the first time *)

\* The request, and the snapshot that is written first and awaited.  On a
\* connection that is not the first, the store also asks for the snapshot.
Connect ==
    /\ feed.phase = "closed"
    /\ feed' = [NoFeed EXCEPT !.phase = "opening", !.frame = cached]
    /\ fetches' = IF feed.again THEN Append(fetches, Unanswered) ELSE fetches
    /\ UNCHANGED <<eventsFile, tail, limiter, passed, view, cached, faults, windows>>

\* The snapshot has been written; only now the handler subscribes.
Subscribe ==
    /\ feed.phase = "opening"
    /\ feed' = [feed EXCEPT !.phase = "live", !.frame = 0]
    /\ view' = feed.frame
    /\ UNCHANGED <<eventsFile, tail, limiter, passed, fetches, cached, faults, windows>>

\* writeSSE resolves: the next event of the queue, or wait.
Sent ==
    /\ feed.hand # <<>>
    /\ feed' = [feed EXCEPT
                   !.told = @ \/ feed.hand = <<Overflow>>,
                   !.hand = IF feed.queue = <<>> THEN <<>> ELSE <<Head(feed.queue)>>,
                   !.queue = IF @ = <<>> THEN <<>> ELSE Tail(@)]
    /\ view' = IF Head(feed.hand).type = "state.changed" THEN Head(feed.hand).line ELSE view
    /\ UNCHANGED <<eventsFile, tail, limiter, passed, fetches, cached, faults, windows>>

\* A write or the heartbeat fails, or the client aborts; openSseConnection
\* will open the next connection.
Break ==
    /\ feed.phase # "closed"
    /\ faults < MaxFaults
    /\ faults' = faults + 1
    /\ feed' = [NoFeed EXCEPT !.again = TRUE]
    /\ UNCHANGED <<eventsFile, tail, limiter, passed, client, cached, windows>>

\* GET /api/snapshot, at the server
FetchAnswered(i) ==
    /\ ~fetches[i].answered
    /\ fetches' = [fetches EXCEPT ![i] = [answered |-> TRUE, snapshot |-> cached]]
    /\ UNCHANGED <<eventsFile, tail, out, view, cached, faults, windows>>

\* onReconnected sets what comes back, whatever has come over the stream.
FetchApplied(i) ==
    /\ fetches[i].answered
    /\ view' = fetches[i].snapshot
    /\ feed' = [feed EXCEPT !.missed = IF view' < view THEN Later(@, view) ELSE @]
    /\ fetches' = RemoveAt(fetches, i)
    /\ UNCHANGED <<eventsFile, tail, limiter, passed, cached, faults, windows>>

\* The store goes on with what it has.
FetchFails(i) ==
    /\ fetches' = RemoveAt(fetches, i)
    /\ UNCHANGED <<eventsFile, tail, out, view, cached, faults, windows>>
-----------------------------------------------------------------------------
FeedNext ==
    \/ WindowEnds \/ Write \/ StartRead \/ Rebuild \/ RebuildFails
    \/ \E r \in DOMAIN reads : EndRead(r) \/ ReadFails(r)
    \/ Connect \/ Subscribe \/ Sent \/ Break
    \/ \E i \in DOMAIN fetches : FetchAnswered(i) \/ FetchApplied(i) \/ FetchFails(i)

FeedSpec == FeedInit /\ [][FeedNext]_feedVars

\* The watcher reports a change, a read ends, a timer fires.
FeedFairness ==
    /\ WF_feedVars(StartRead)
    /\ WF_feedVars(reads # <<>> /\ (EndRead(1) \/ ReadFails(1)))
    /\ WF_feedVars(Rebuild \/ RebuildFails)

FairFeed == FeedSpec /\ FeedFairness
-----------------------------------------------------------------------------
\* What the tailer has behind it, it has handed on: no line is torn in two by
\* a read that came in the middle of it, and none skipped, however reads of
\* the same stretch overlap, end in whatever order, or fail (readNewLines).
NoLineSkipped == 1 .. offset \div 2 \subseteq passed

\* A client that is too slow never loses an error; of anything else it loses
\* it is told, by an error that is on its way or has come.  What waits for it
\* is bounded but for errors.
LossAnnounced ==
    /\ feed.lost \cap Errors = {}
    /\ feed.lost # {} => feed.told \/ Overflow \in Range(feed.queue \o feed.hand)
    /\ Cardinality({i \in DOMAIN feed.queue : feed.queue[i].type \notin Errors}) <= MaxQueue

\* A client that is connected, and to which nothing is on its way, shows the
\* snapshot the server holds.  It can miss the newest one in three ways only,
\* each of which `missed` records: it was published between the snapshot of
\* the connection and the subscription, it was dropped from the queue, or the
\* late answer to a request undid it (applyEvent, onReconnected).
ViewCurrent ==
    feed.phase = "live" /\ fetches = <<>>
    /\ (\A i \in DOMAIN (feed.hand \o feed.queue) : (feed.hand \o feed.queue)[i].type # "state.changed")
        => view = cached \/ feed.missed = cached

\* Every line that is complete gets past the tailer, unless the last read has
\* failed: nothing reads again before the file changes.
LinesGetOut ==
    \A k \in 1 .. MaxLines : written >= 2 * k ~> (k \in passed \/ unread)
=============================================================================
