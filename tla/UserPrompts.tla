----------------------------- MODULE UserPrompts -----------------------------
(***************************************************************************)
(* Questions to the user.  A cook's `askUser` publishes a prompt at the     *)
(* dashboard and only then opens an event stream to hear the answer.  The   *)
(* server keeps the open prompts in a map and sends requests and responses  *)
(* to the streams; a browser tab fills its cards from a GET and from a      *)
(* stream of its own.  Each prompt has a session of its own (no caller      *)
(* passes `sessionId`), which is what its stream is filtered by.            *)
(***************************************************************************)
EXTENDS Naturals, Sequences, FiniteSets, SequencesExt

CONSTANTS
    Prompt,
    Tab,         \* browser tabs that show PromptCard
    Answer,
    NoAnswer,
    GaveUp,
    Unknown,     \* the session of a response to a prompt the server does not hold
    MaxBreaks    \* bound: how often a connection or a POST breaks, a queue overflows,
                 \* or the server restarts

ASSUME PromptsAssumption ==
    /\ Prompt \cap Tab = {}
    /\ Unknown \notin Prompt
    /\ NoAnswer \notin Answer /\ GaveUp \notin Answer /\ NoAnswer # GaveUp
    /\ MaxBreaks \in Nat

VARIABLES
    asker,     \* asker[q]: where the call of askUser is
    learned,   \* learned[q]: what it has returned
    pending,   \* the server's pendingPrompts
    stream,    \* the event stream of each asker and of each tab
    cards,     \* cards[t]: the prompts the tab shows
    boot,      \* boot[t]: where its GET /api/prompts/pending is
    reply,     \* reply[t]: what the server has put into the answer to it
    posts,     \* the answers tabs are posting
    breaks,    \* how often one of these has happened so far
    accepted,  \* history: the answer published while the prompt was pending
    unheard,   \* history: prompts whose answer found no stream, or was dropped from it
    missed     \* history: missed[t], prompts whose request never got to the tab

server == <<pending, accepted, unheard, missed>>
tab == <<cards, boot, reply, posts>>
vars == <<asker, learned, pending, stream, cards, boot, reply, posts, breaks,
          accepted, unheard, missed>>

Client == Prompt \cup Tab
Event == [type : {"prompt.request", "prompt.response"}, prompt : Prompt,
          session : Prompt \cup {Unknown}, answer : Answer \cup {NoAnswer}]

Closed == [phase |-> "closed", queue |-> <<>>]
Post == [tab : Tab, prompt : Prompt, answer : Answer, done : BOOLEAN]

\* The prompts a stream still has an event of this type for.
Queued(c, type) ==
    {stream[c].queue[i].prompt : i \in {j \in DOMAIN stream[c].queue :
                                            stream[c].queue[j].type = type}}
-----------------------------------------------------------------------------
Init ==
    /\ asker = [q \in Prompt |-> "idle"]
    /\ learned = [q \in Prompt |-> NoAnswer]
    /\ pending = {}
    /\ stream = [c \in Client |-> Closed]
    /\ cards = [t \in Tab |-> {}]
    /\ boot = [t \in Tab |-> "unmounted"]
    /\ reply = [t \in Tab |-> {}]
    /\ posts = {}
    /\ breaks = 0
    /\ accepted = [q \in Prompt |-> NoAnswer]
    /\ unheard = {}
    /\ missed = [t \in Tab |-> {}]

(* The server: the bus and GET /api/events *)

\* matchesSession: a tab asks for no session and gets everything.
Matches(c, event) == c \in Tab \/ event.session = c

\* bus.publish: every stream that has subscribed queues the event.
Published(event) ==
    [c \in Client |->
        IF stream[c].phase = "live" /\ Matches(c, event)
        THEN [stream[c] EXCEPT !.queue = Append(@, event)]
        ELSE stream[c]]

\* The handler writes the snapshot first and awaits it.
Accept(c) == stream' = [stream EXCEPT ![c].phase = "opening"]

Subscribe(c) ==
    /\ stream[c].phase = "opening"
    /\ stream' = [stream EXCEPT ![c].phase = "live"]
    /\ UNCHANGED <<asker, learned, breaks, server, tab>>

\* A tab that has not read the map yet, or hears the bus, gets the request.
DeafTabs == {t \in Tab : stream[t].phase # "live"
                         /\ boot[t] \notin {"unmounted", "sent"}}

(* askUser.  A call that has ended closes its stream. *)

Ends(q, how, what) ==
    /\ asker' = [asker EXCEPT ![q] = how]
    /\ learned' = [learned EXCEPT ![q] = what]
    /\ UNCHANGED <<breaks, tab>>

Throws(q) ==
    /\ Ends(q, "failed", GaveUp)
    /\ stream' = [stream EXCEPT ![q] = Closed]
    /\ UNCHANGED server

\* The health check fails or takes over 100 ms: a terminal, or the
\* recommended option.
AskAlone(q, a) ==
    /\ asker[q] = "idle"
    /\ Ends(q, "answered", a)
    /\ accepted' = [accepted EXCEPT ![q] = a]
    /\ UNCHANGED <<pending, stream, unheard, missed>>

\* An invalid question, or a choice at the terminal that is no option.
AskFails(q) == asker[q] = "idle" /\ Throws(q)

Ask(q) ==
    /\ asker[q] = "idle"
    /\ asker' = [asker EXCEPT ![q] = "publishing"]
    /\ UNCHANGED <<learned, stream, breaks, server, tab>>

\* POST /api/prompts/publish
Publish(q) ==
    /\ asker[q] = "publishing"
    /\ asker' = [asker EXCEPT ![q] = "opening"]
    /\ pending' = pending \cup {q}
    /\ stream' = Published([type |-> "prompt.request", prompt |-> q, session |-> q,
                            answer |-> NoAnswer])
    /\ missed' = [t \in Tab |-> IF t \in DeafTabs THEN missed[t] \cup {q} ELSE missed[t]]
    /\ UNCHANGED <<learned, breaks, accepted, unheard, tab>>

PublishFails(q) == asker[q] = "publishing" /\ Throws(q)

OpenStream(q) ==
    /\ asker[q] = "opening"
    /\ asker' = [asker EXCEPT ![q] = "waiting"]
    /\ Accept(q)
    /\ UNCHANGED <<learned, breaks, server, tab>>

\* Seeded fault: the end of the stream is taken for the end of the call.
StreamEndsSilently(q) ==
    /\ asker[q] \in {"opening", "waiting"}
    /\ stream[q].phase = "closed"
    /\ Ends(q, "answered", NoAnswer)
    /\ UNCHANGED <<server, stream>>

\* The request fails, or the stream ends with no response in it.
StreamEnds(q) ==
    /\ asker[q] \in {"opening", "waiting"}
    /\ stream[q].phase = "closed"
    /\ Throws(q)

\* Seeded fault: the timer is armed when the stream is there.
TimerOnceOpen(q) == asker[q] = "waiting" /\ stream[q].phase = "live"

\* The timer runs from before the request of the stream.
TimerRuns(q) == asker[q] \in {"opening", "waiting"}

TimesOut(q) == TimerRuns(q) /\ Throws(q)

\* Everything else on the stream is skipped: a stream gets its own prompt's
\* session only, in which no other prompt is.
Hear(q) ==
    /\ asker[q] = "waiting"
    /\ stream[q].queue # <<>>
    /\ LET event == Head(stream[q].queue)
       IN IF event.type = "prompt.response"
          THEN /\ Ends(q, "answered", event.answer)
               /\ stream' = [stream EXCEPT ![q] = Closed]
          ELSE /\ stream' = [stream EXCEPT ![q].queue = Tail(@)]
               /\ UNCHANGED <<asker, learned, breaks, tab>>
    /\ UNCHANGED server

(* A tab *)

\* onMount starts the GET and the event stream, and awaits neither.
Mount(t) ==
    /\ boot[t] = "unmounted"
    /\ boot' = [boot EXCEPT ![t] = "sent"]
    /\ Accept(t)
    /\ UNCHANGED <<asker, learned, breaks, server, cards, reply, posts>>

ReadPending(t) ==
    /\ boot[t] = "sent"
    /\ boot' = [boot EXCEPT ![t] = "replied"]
    /\ reply' = [reply EXCEPT ![t] = pending]
    /\ UNCHANGED <<asker, learned, stream, breaks, server, cards, posts>>

\* Seeded fault: the reply replaces what the stream has brought meanwhile.
ApplyPendingReplaces(t) ==
    /\ boot[t] = "replied"
    /\ boot' = [boot EXCEPT ![t] = "done"]
    /\ cards' = [cards EXCEPT ![t] = reply[t]]
    /\ reply' = [reply EXCEPT ![t] = {}]
    /\ UNCHANGED <<asker, learned, stream, breaks, server, posts>>

\* bootstrapPending adds what it has no card for.
ApplyPending(t) ==
    /\ boot[t] = "replied"
    /\ boot' = [boot EXCEPT ![t] = "done"]
    /\ cards' = [cards EXCEPT ![t] = @ \cup reply[t]]
    /\ reply' = [reply EXCEPT ![t] = {}]
    /\ UNCHANGED <<asker, learned, stream, breaks, server, posts>>

PendingFails(t) ==
    /\ boot[t] \in {"sent", "replied"}
    /\ boot' = [boot EXCEPT ![t] = "done"]
    /\ reply' = [reply EXCEPT ![t] = {}]
    /\ missed' = [missed EXCEPT ![t] =
                      @ \cup ((pending \cup reply[t])
                               \ (cards[t] \cup Queued(t, "prompt.request")))]
    /\ UNCHANGED <<asker, learned, stream, breaks, pending, accepted, unheard, cards, posts>>

Deliver(t) ==
    /\ stream[t].queue # <<>>
    /\ LET event == Head(stream[t].queue)
       IN cards' = [cards EXCEPT ![t] = IF event.type = "prompt.request"
                                        THEN @ \cup {event.prompt}
                                        ELSE @ \ {event.prompt}]
    /\ stream' = [stream EXCEPT ![t].queue = Tail(@)]
    /\ UNCHANGED <<asker, learned, breaks, server, boot, reply, posts>>

\* The buttons of a card are disabled while its answer is being posted.
Submit(t, q, a) ==
    /\ q \in cards[t]
    /\ ~\E p \in posts : p.tab = t /\ p.prompt = q
    /\ posts' = posts \cup {[tab |-> t, prompt |-> q, answer |-> a, done |-> FALSE]}
    /\ UNCHANGED <<asker, learned, stream, breaks, server, cards, boot, reply>>

\* POST /api/prompts/:id/respond, at the server
\* Seeded faults: the prompt is deleted before its session is looked up; a
\* response keeps its session, also when the prompt is no longer pending.
SessionAfterDelete(q) == IF q \in pending \ {q} THEN q ELSE Unknown
SessionAnyway(q) == q

SessionOf(q) == IF q \in pending THEN q ELSE Unknown

Respond(p) ==
    /\ ~p.done
    /\ posts' = (posts \ {p}) \cup {[p EXCEPT !.done = TRUE]}
    /\ stream' = Published([type |-> "prompt.response", prompt |-> p.prompt,
                            session |-> SessionOf(p.prompt), answer |-> p.answer])
    /\ pending' = pending \ {p.prompt}
    /\ IF p.prompt \in pending
       THEN /\ accepted' = [accepted EXCEPT ![p.prompt] = p.answer]
            /\ unheard' = IF stream[p.prompt].phase = "live"
                          THEN unheard ELSE unheard \cup {p.prompt}
       ELSE UNCHANGED <<accepted, unheard>>
    /\ UNCHANGED <<asker, learned, breaks, missed, cards, boot, reply>>

\* The card goes before the response comes back over the stream.
PostDone(p) ==
    /\ p.done
    /\ posts' = posts \ {p}
    /\ cards' = [cards EXCEPT ![p.tab] = @ \ {p.prompt}]
    /\ UNCHANGED <<asker, learned, stream, breaks, server, boot, reply>>

\* Before or after the server has seen it: the card stays, to be used again.
PostFails(p) ==
    /\ breaks < MaxBreaks
    /\ breaks' = breaks + 1
    /\ posts' = posts \ {p}
    /\ UNCHANGED <<asker, learned, stream, server, cards, boot, reply>>

(* Connections *)

\* EventSource connects again by itself; askUser does not.  What was under
\* way is lost, and nothing reads the pending prompts a second time.
Broken(c) == [phase |-> IF c \in Tab THEN "opening" ELSE "closed", queue |-> <<>>]

Break(c) ==
    /\ breaks < MaxBreaks
    /\ stream[c].phase # "closed"
    /\ breaks' = breaks + 1
    /\ stream' = [stream EXCEPT ![c] = Broken(c)]
    /\ missed' = [t \in Tab |-> IF t = c THEN missed[t] \cup Queued(t, "prompt.request")
                                         ELSE missed[t]]
    /\ UNCHANGED <<asker, learned, pending, accepted, unheard, tab>>

\* The bus carries more than prompts.  When 1000 events wait for a slow client,
\* each further one costs it the oldest that the handler has not begun to send
\* and that is no error; the error event that says so, neither kind of client
\* looks at (EventFeed has it).
Overflow(c) ==
    /\ breaks < MaxBreaks
    /\ stream[c].phase = "live"
    /\ breaks' = breaks + 1
    /\ \E i \in DOMAIN stream[c].queue :
          LET event == stream[c].queue[i]
          IN /\ stream' = [stream EXCEPT ![c].queue = RemoveAt(@, i)]
             /\ missed' = [t \in Tab |-> IF t = c /\ event.type = "prompt.request"
                                        THEN missed[t] \cup {event.prompt} ELSE missed[t]]
             /\ unheard' = IF c \in Prompt /\ event.type = "prompt.response"
                           THEN unheard \cup {c} ELSE unheard
    /\ UNCHANGED <<asker, learned, pending, accepted, tab>>

\* The map is in memory.
Restart ==
    /\ breaks < MaxBreaks
    /\ breaks' = breaks + 1
    /\ pending' = {}
    /\ stream' = [c \in Client |-> IF stream[c].phase = "closed" THEN Closed ELSE Broken(c)]
    /\ UNCHANGED <<asker, learned, accepted, unheard, missed, tab>>
-----------------------------------------------------------------------------
AskerStep(q) ==
    \/ Ask(q) \/ AskFails(q) \/ Publish(q) \/ PublishFails(q) \/ OpenStream(q)
    \/ StreamEnds(q) \/ TimesOut(q) \/ Hear(q)
    \/ \E a \in Answer : AskAlone(q, a)

TabStep(t) ==
    \/ Mount(t) \/ ReadPending(t) \/ ApplyPending(t) \/ PendingFails(t) \/ Deliver(t)
    \/ \E q \in Prompt, a \in Answer : Submit(t, q, a)

PostStep(p) == Respond(p) \/ PostDone(p) \/ PostFails(p)

Next ==
    \/ \E q \in Prompt : AskerStep(q)
    \/ \E t \in Tab : TabStep(t)
    \/ \E p \in posts : PostStep(p)
    \/ \E c \in Client : Subscribe(c) \/ Break(c) \/ Overflow(c)
    \/ Restart

Spec == Init /\ [][Next]_vars

\* The publishing fetch settles, and the timer of a call fires.
Fairness ==
    \A q \in Prompt :
        /\ WF_vars(Publish(q) \/ PublishFails(q))
        /\ WF_vars(TimesOut(q))

FairSpec == Spec /\ Fairness
-----------------------------------------------------------------------------
TypeOK ==
    /\ asker \in [Prompt -> {"idle", "publishing", "opening", "waiting", "answered", "failed"}]
    /\ learned \in [Prompt -> Answer \cup {NoAnswer, GaveUp}]
    /\ pending \subseteq Prompt
    /\ stream \in [Client -> [phase : {"closed", "opening", "live"}, queue : Seq(Event)]]
    /\ cards \in [Tab -> SUBSET Prompt]
    /\ boot \in [Tab -> {"unmounted", "sent", "replied", "done"}]
    /\ reply \in [Tab -> SUBSET Prompt]
    /\ posts \subseteq Post
    /\ breaks \in 0 .. MaxBreaks
    /\ accepted \in [Prompt -> Answer \cup {NoAnswer}]
    /\ unheard \subseteq Prompt
    /\ missed \in [Tab -> SUBSET Prompt]
    /\ \A q \in Prompt :
        (learned[q] = NoAnswer) <=> (asker[q] \notin {"answered", "failed"})

\* A tab that has read the pending prompts shows each of them or is about to,
\* in whatever order the GET, the stream and other tabs' answers come: what
\* it lacks was published while it did not listen, lost with a connection, or
\* dropped from a full queue (bootstrapPending and handleEvent in
\* state/prompts.ts, the cap in routes/events.ts:71).
PendingShown ==
    \A t \in Tab :
        boot[t] \in {"replied", "done"} =>
            pending \subseteq cards[t] \cup reply[t] \cup Queued(t, "prompt.request")
                              \cup missed[t]

\* An accepted answer is on the stream of the call that waits for it, unless
\* it was given before that stream had been opened (askViaDashboard, which
\* publishes first and listens second), or dropped from its queue.
AnswerOnItsWay ==
    \A q \in Prompt :
        accepted[q] # NoAnswer /\ asker[q] = "waiting" /\ stream[q].phase = "live"
        /\ q \notin unheard
        => \E i \in DOMAIN stream[q].queue :
               /\ stream[q].queue[i].type = "prompt.response"
               /\ stream[q].queue[i].answer = accepted[q]

Asked == INSTANCE Question WITH decided <- accepted, told <- learned

\* A question is decided by the first answer only, however many tabs answer
\* it and however often an answer is posted again; askUser returns that
\* decision or throws, and never a later answer.
ImplementsQuestion == Asked!Spec

\* A call of askUser that has published a question ends, also when the request
\* of its stream hangs or the answer has gone elsewhere.
AsksEnd ==
    \A q \in Prompt : asker[q] = "publishing" ~> asker[q] \in {"answered", "failed"}
=============================================================================
