-------------------------- MODULE UserPromptsProofs --------------------------
(***************************************************************************)
(* What askUser returns is the first answer the server took, an accepted    *)
(* answer reaches a call that listens, and a tab shows the open prompts.    *)
(* Core serves all three; Listening and Shown strengthen the second and     *)
(* the third.                                                               *)
(***************************************************************************)
EXTENDS UserPrompts, TLAPS

\* The tail of a sequence holds the sequence's members but the first.
LEMMA TailFacts ==
  ASSUME NEW S, NEW s \in Seq(S), s # <<>>
  PROVE  /\ Tail(s) \in Seq(S)
         /\ Head(s) \in S /\ Head(s) = s[1] /\ 1 \in DOMAIN s
         /\ \A i \in DOMAIN Tail(s) : i + 1 \in DOMAIN s /\ Tail(s)[i] = s[i + 1]
         /\ \A i \in DOMAIN s : i = 1 \/ (i - 1 \in DOMAIN Tail(s) /\ Tail(s)[i - 1] = s[i])
  OBVIOUS

\* A stream's state, as in TypeOK.
Stream == [phase : {"closed", "opening", "live"}, queue : Seq(Event)]

\* What bus.publish does to the stream of one client: it keeps the queue, and
\* adds the event for a client that has subscribed and whom the event is for.
LEMMA PublishedFacts ==
  ASSUME TypeOK, NEW event \in Event, NEW c \in Client, stream' = Published(event)
  PROVE  /\ stream'[c] \in Stream
         /\ stream'[c].phase = stream[c].phase
         /\ \A i \in DOMAIN stream[c].queue :
               i \in DOMAIN stream'[c].queue /\ stream'[c].queue[i] = stream[c].queue[i]
         /\ \A i \in DOMAIN stream'[c].queue :
               \/ i \in DOMAIN stream[c].queue /\ stream'[c].queue[i] = stream[c].queue[i]
               \/ stream'[c].queue[i] = event /\ stream[c].phase = "live" /\ Matches(c, event)
         /\ stream[c].phase = "live" /\ Matches(c, event)
               => \E i \in DOMAIN stream'[c].queue : stream'[c].queue[i] = event
  <1> DEFINE s == stream[c].queue
  <1>1. s \in Seq(Event) /\ stream[c] \in Stream
    BY DEF TypeOK, Stream
  <1>2. CASE stream[c].phase = "live" /\ Matches(c, event)
    <2>1. stream'[c] = [stream[c] EXCEPT !.queue = Append(@, event)]
      BY <1>2 DEF Published
    <2>2. stream'[c].phase = stream[c].phase /\ stream'[c].queue = Append(s, event)
      BY <1>1, <2>1 DEF Stream
    <2>3. /\ Append(s, event) \in Seq(Event)
          /\ \A i \in DOMAIN s : i \in DOMAIN Append(s, event) /\ Append(s, event)[i] = s[i]
          /\ \A i \in DOMAIN Append(s, event) :
               (i \in DOMAIN s /\ Append(s, event)[i] = s[i]) \/ Append(s, event)[i] = event
          /\ Len(s) + 1 \in DOMAIN Append(s, event) /\ Append(s, event)[Len(s) + 1] = event
      BY <1>1
    <2>4. stream'[c] \in Stream
      BY <1>1, <2>1, <2>3 DEF Stream
    <2> QED
      BY <1>2, <2>2, <2>3, <2>4
  <1>3. CASE ~(stream[c].phase = "live" /\ Matches(c, event))
    <2>1. stream'[c] = stream[c]
      BY <1>3 DEF Published
    <2> QED
      BY <1>1, <1>3, <2>1
  <1> QED
    BY <1>2, <1>3


\* Changing the phase of one stream changes nothing else.
LEMMA PhaseSet ==
  ASSUME NEW f \in [Client -> Stream], NEW c \in Client, NEW x \in {"closed", "opening", "live"}
  PROVE  LET g == [f EXCEPT ![c].phase = x]
         IN /\ g \in [Client -> Stream]
            /\ g[c].phase = x /\ g[c].queue = f[c].queue
            /\ \A d \in Client \ {c} : g[d] = f[d]
  BY DEF Stream

\* Changing the queue of one stream changes nothing else.
LEMMA QueueSet ==
  ASSUME NEW f \in [Client -> Stream], NEW c \in Client, NEW x \in Seq(Event)
  PROVE  LET g == [f EXCEPT ![c].queue = x]
         IN /\ g \in [Client -> Stream]
            /\ g[c].queue = x /\ g[c].phase = f[c].phase
            /\ \A d \in Client \ {c} : g[d] = f[d]
  BY DEF Stream

\* A response on the stream of a call of askUser is the accepted answer.  Its
\* session is the prompt's only if the server still held the prompt.
Heard ==
    \A q \in Prompt : \A i \in DOMAIN stream[q].queue :
        stream[q].queue[i].type = "prompt.response"
            => stream[q].queue[i].answer = accepted[q] /\ accepted[q] # NoAnswer

\* The initial state has the right types.
LEMMA TypeInit == Init => TypeOK
  BY PromptsAssumption DEF Init, TypeOK, Closed, Client

\* The fields of an event.
LEMMA EventFields ==
  ASSUME NEW e \in Event
  PROVE  /\ e.prompt \in Prompt /\ e.answer \in Answer \cup {NoAnswer}
         /\ e.type \in {"prompt.request", "prompt.response"}
  BY DEF Event

\* What a stream holds are events.
LEMMA QueueMember ==
  ASSUME TypeOK, NEW c \in Client, NEW i \in DOMAIN stream[c].queue
  PROVE  stream[c].queue[i] \in Event
  <1>1. stream[c].queue \in Seq(Event)
    BY DEF TypeOK
  <1> HIDE DEF Event
  <1> QED
    BY <1>1

\* The prompts a stream has events for are prompts.
LEMMA QueuedType ==
  ASSUME TypeOK, NEW c \in Client, NEW type
  PROVE  Queued(c, type) \subseteq Prompt
  BY QueueMember, EventFields DEF Queued

\* Taking one element out of a sequence leaves the others, and adds none.
LEMMA RemoveAtFacts ==
  ASSUME NEW S, NEW s \in Seq(S), NEW i \in DOMAIN s
  PROVE  LET rest == RemoveAt(s, i)
         IN  /\ rest \in Seq(S)
             /\ \A j \in DOMAIN rest : \E k \in DOMAIN s : rest[j] = s[k]
             /\ \A k \in DOMAIN s : k = i \/ \E j \in DOMAIN rest : rest[j] = s[k]
  <1> DEFINE a == SubSeq(s, 1, i - 1)
             b == SubSeq(s, i + 1, Len(s))
             rest == a \o b
  <1>1. RemoveAt(s, i) = rest
    BY DEF RemoveAt
  <1>2. i \in 1 .. Len(s) /\ Len(s) \in Nat /\ DOMAIN s = 1 .. Len(s)
    OBVIOUS
  <1>3. a \in Seq(S) /\ Len(a) = i - 1
    OBVIOUS
  <1>4. b \in Seq(S) /\ Len(b) = Len(s) - i
    OBVIOUS
  <1>5. \A j \in 1 .. i - 1 : a[j] = s[j]
    OBVIOUS
  <1>6. \A j \in 1 .. Len(s) - i : b[j] = s[i + j]
    OBVIOUS
  <1> HIDE DEF a, b
  <1>7. rest \in Seq(S) /\ Len(rest) = Len(s) - 1 /\ DOMAIN rest = 1 .. Len(s) - 1
    <2>1. rest \in Seq(S) /\ Len(rest) = (i - 1) + (Len(s) - i)
      BY <1>2, <1>3, <1>4
    <2>2. (i - 1) + (Len(s) - i) = Len(s) - 1
      BY <1>2
    <2>3. DOMAIN rest = 1 .. Len(rest)
      BY <2>1
    <2> QED
      BY <2>1, <2>2, <2>3
  <1>8. \A j \in 1 .. i - 1 : rest[j] = s[j]
    BY <1>2, <1>3, <1>4, <1>5
  <1>9. \A j \in i .. Len(s) - 1 : rest[j] = s[j + 1]
    <2> SUFFICES ASSUME NEW j \in i .. Len(s) - 1 PROVE rest[j] = s[j + 1]
      OBVIOUS
    <2>1. rest[j] = b[j - (i - 1)] /\ j - (i - 1) \in 1 .. Len(s) - i
      BY <1>2, <1>3, <1>4
    <2>2. i + (j - (i - 1)) = j + 1
      BY <1>2
    <2> QED
      BY <1>6, <2>1, <2>2
  <1> HIDE DEF rest
  <1>10. ASSUME NEW j \in DOMAIN rest
         PROVE  \E k \in DOMAIN s : rest[j] = s[k]
    <2>1. CASE j < i
      BY <1>2, <1>7, <1>8, <2>1
    <2>2. CASE ~(j < i)
      <3>1. j \in i .. Len(s) - 1 /\ j + 1 \in DOMAIN s
        BY <1>2, <1>7, <2>2
      <3> QED
        BY <1>9, <3>1
    <2> QED
      BY <2>1, <2>2
  <1>11. ASSUME NEW k \in DOMAIN s, k # i
         PROVE  \E j \in DOMAIN rest : rest[j] = s[k]
    <2>1. CASE k < i
      BY <1>2, <1>7, <1>8, <2>1
    <2>2. CASE ~(k < i)
      <3>1. k - 1 \in i .. Len(s) - 1 /\ k - 1 \in DOMAIN rest /\ (k - 1) + 1 = k
        BY <1>2, <1>7, <1>11, <2>2
      <3> QED
        BY <1>9, <3>1
    <2> QED
      BY <2>1, <2>2
  <1> QED
    BY <1>1, <1>7, <1>10, <1>11

\* What a full queue costs one client: one of its events, and nothing else.
LEMMA OverflowFacts ==
  ASSUME TypeOK, NEW d \in Client, Overflow(d)
  PROVE  /\ stream' \in [Client -> Stream]
         /\ \A c \in Client \ {d} : stream'[c] = stream[c]
         /\ stream[d].phase = "live" /\ stream'[d].phase = "live"
         /\ \A j \in DOMAIN stream'[d].queue :
               \E k \in DOMAIN stream[d].queue : stream'[d].queue[j] = stream[d].queue[k]
         /\ \E i \in DOMAIN stream[d].queue :
               LET event == stream[d].queue[i]
               IN  /\ \A k \in DOMAIN stream[d].queue :
                        k = i \/ \E j \in DOMAIN stream'[d].queue :
                                    stream'[d].queue[j] = stream[d].queue[k]
                   /\ missed' = [t \in Tab |-> IF t = d /\ event.type = "prompt.request"
                                              THEN missed[t] \cup {event.prompt} ELSE missed[t]]
                   /\ unheard' = IF d \in Prompt /\ event.type = "prompt.response"
                                 THEN unheard \cup {d} ELSE unheard
  <1>1. stream \in [Client -> Stream] /\ stream[d].queue \in Seq(Event)
    BY DEF TypeOK, Stream
  <1>2. PICK i \in DOMAIN stream[d].queue :
           LET event == stream[d].queue[i]
           IN  /\ stream' = [stream EXCEPT ![d].queue = RemoveAt(stream[d].queue, i)]
               /\ missed' = [t \in Tab |-> IF t = d /\ event.type = "prompt.request"
                                          THEN missed[t] \cup {event.prompt} ELSE missed[t]]
               /\ unheard' = IF d \in Prompt /\ event.type = "prompt.response"
                             THEN unheard \cup {d} ELSE unheard
    BY DEF Overflow
  <1> DEFINE rest == RemoveAt(stream[d].queue, i)
  <1>3. /\ rest \in Seq(Event)
        /\ \A j \in DOMAIN rest : \E k \in DOMAIN stream[d].queue : rest[j] = stream[d].queue[k]
        /\ \A k \in DOMAIN stream[d].queue :
              k = i \/ \E j \in DOMAIN rest : rest[j] = stream[d].queue[k]
    BY <1>1, RemoveAtFacts
  <1>4. stream' = [stream EXCEPT ![d].queue = rest]
    BY <1>2
  <1> HIDE DEF rest, Event
  <1>5. /\ stream' \in [Client -> Stream]
        /\ stream'[d].queue = rest /\ stream'[d].phase = stream[d].phase
        /\ \A c \in Client \ {d} : stream'[c] = stream[c]
    BY <1>1, <1>3, <1>4, QueueSet
  <1>6. stream[d].phase = "live"
    BY DEF Overflow
  <1>7. \A j \in DOMAIN stream'[d].queue :
           \E k \in DOMAIN stream[d].queue : stream'[d].queue[j] = stream[d].queue[k]
    BY <1>3, <1>5
  <1>8. \A k \in DOMAIN stream[d].queue :
           k = i \/ \E j \in DOMAIN stream'[d].queue : stream'[d].queue[j] = stream[d].queue[k]
    BY <1>3, <1>5
  <1>9. LET event == stream[d].queue[i]
        IN  /\ missed' = [t \in Tab |-> IF t = d /\ event.type = "prompt.request"
                                       THEN missed[t] \cup {event.prompt} ELSE missed[t]]
            /\ unheard' = IF d \in Prompt /\ event.type = "prompt.response"
                          THEN unheard \cup {d} ELSE unheard
    BY <1>2
  <1> HIDE <1>2, <1>3, <1>4
  <1> QED
    BY <1>5, <1>6, <1>7, <1>8, <1>9, Zenon

\* The fields of an answer under way, before and after the server has seen it.
LEMMA PostFacts ==
  ASSUME NEW p \in Post
  PROVE  /\ p.tab \in Tab /\ p.prompt \in Prompt /\ p.answer \in Answer
         /\ [p EXCEPT !.done = TRUE] \in Post
         /\ [p EXCEPT !.done = TRUE].prompt = p.prompt
         /\ [p EXCEPT !.done = TRUE].done
  BY DEF Post

\* Every step keeps the types.  Hear needs Heard: what askUser returns is the
\* answer of an event, which must not be NoAnswer.
LEMMA TypeStep ==
  ASSUME TypeOK, Heard, [Next]_vars
  PROVE  TypeOK'
  <1> DEFINE Others == /\ asker \in [Prompt -> {"idle", "publishing", "opening", "waiting", "answered", "failed"}]
    /\ learned \in [Prompt -> Answer \cup {NoAnswer, GaveUp}]
    /\ pending \subseteq Prompt
    /\ cards \in [Tab -> SUBSET Prompt]
    /\ boot \in [Tab -> {"unmounted", "sent", "replied", "done"}]
    /\ reply \in [Tab -> SUBSET Prompt]
    /\ posts \subseteq Post
    /\ breaks \in 0 .. MaxBreaks
    /\ accepted \in [Prompt -> Answer \cup {NoAnswer}]
    /\ unheard \subseteq Prompt
    /\ missed \in [Tab -> SUBSET Prompt]
    /\ \A q \in Prompt :
        (learned[q] = NoAnswer) <=> (asker[q] \notin {"answered", "failed"})
  <1>a. stream \in [Client -> Stream] /\ Others
    BY DEF TypeOK, Stream
  <1>b. SUFFICES stream' \in [Client -> Stream] /\ Others'
    BY DEF TypeOK, Stream
  <1>c. Closed \in Stream
    BY DEF Closed, Stream
  <1> HIDE DEF Others
  <1> USE <1>a, PromptsAssumption DEF Ends, Throws, Accept, server, tab
  <1>1. ASSUME NEW q \in Prompt, Ask(q)
       PROVE  (stream \in [Client -> Stream] /\ Others)'
    BY <1>1 DEF Ask, Others
  <1>2. ASSUME NEW q \in Prompt, AskFails(q)
       PROVE  (stream \in [Client -> Stream] /\ Others)'
    BY <1>2, <1>c DEF AskFails, Others, Client
  <1>3. ASSUME NEW q \in Prompt, NEW a \in Answer, AskAlone(q, a)
       PROVE  (stream \in [Client -> Stream] /\ Others)'
    BY <1>3 DEF AskAlone, Others
  <1>4. ASSUME NEW q \in Prompt, Publish(q)
       PROVE  (stream \in [Client -> Stream] /\ Others)'
    <2> DEFINE event == [type |-> "prompt.request", prompt |-> q, session |-> q, answer |-> NoAnswer]
    <2>1. event \in Event
      BY DEF Event
    <2>2. stream' \in [Client -> Stream]
      BY <1>4, <2>1, PublishedFacts DEF Publish, Published
    <2> QED
      BY <1>4, <2>2 DEF Publish, Others
  <1>5. ASSUME NEW q \in Prompt, PublishFails(q)
       PROVE  (stream \in [Client -> Stream] /\ Others)'
    BY <1>5, <1>c DEF PublishFails, Others, Client
  <1>6. ASSUME NEW q \in Prompt, OpenStream(q)
       PROVE  (stream \in [Client -> Stream] /\ Others)'
    <2>1. stream' \in [Client -> Stream]
      BY <1>6, PhaseSet DEF OpenStream, Client
    <2> QED
      BY <1>6, <2>1 DEF OpenStream, Others
  <1>7. ASSUME NEW q \in Prompt, StreamEnds(q)
       PROVE  (stream \in [Client -> Stream] /\ Others)'
    BY <1>7, <1>c DEF StreamEnds, Others, Client
  <1>8. ASSUME NEW q \in Prompt, TimesOut(q)
       PROVE  (stream \in [Client -> Stream] /\ Others)'
    BY <1>8, <1>c DEF TimesOut, Others, Client, TimerRuns
  <1>9. ASSUME NEW q \in Prompt, Hear(q)
       PROVE  (stream \in [Client -> Stream] /\ Others)'
    <2>1. stream[q].queue \in Seq(Event) /\ stream[q].queue # <<>>
      BY <1>9 DEF Hear, Stream, Client
    <2>2. Head(stream[q].queue) \in Event /\ Tail(stream[q].queue) \in Seq(Event)
      BY <2>1, TailFacts
    <2>3. CASE Head(stream[q].queue).type = "prompt.response"
      <3>1. Head(stream[q].queue).answer = accepted[q] /\ accepted[q] # NoAnswer
        BY <2>1, <2>3, TailFacts DEF Heard
      <3>2. accepted[q] \in Answer
        BY <3>1 DEF Others
      <3>3. /\ asker' = [asker EXCEPT ![q] = "answered"]
            /\ learned' = [learned EXCEPT ![q] = accepted[q]]
            /\ stream' = [stream EXCEPT ![q] = Closed]
            /\ UNCHANGED <<breaks, server, tab>>
        BY <1>9, <2>3, <3>1 DEF Hear
      <3> QED
        BY <3>2, <3>3, <1>c DEF Others, Client
    <2>4. CASE Head(stream[q].queue).type # "prompt.response"
      <3>0. stream' = [stream EXCEPT ![q].queue = Tail(stream[q].queue)]
        BY <1>9, <2>4 DEF Hear
      <3>1. stream' \in [Client -> Stream]
        BY <2>2, <3>0, QueueSet DEF Client
      <3> QED
        BY <1>9, <2>4, <3>1 DEF Hear, Others
    <2> QED
      BY <2>3, <2>4
  <1>10. ASSUME NEW t \in Tab, Mount(t)
       PROVE  (stream \in [Client -> Stream] /\ Others)'
    <2>1. stream' \in [Client -> Stream]
      BY <1>10, PhaseSet DEF Mount, Client
    <2> QED
      BY <1>10, <2>1 DEF Mount, Others
  <1>11. ASSUME NEW t \in Tab, ReadPending(t)
       PROVE  (stream \in [Client -> Stream] /\ Others)'
    BY <1>11 DEF ReadPending, Others
  <1>12. ASSUME NEW t \in Tab, ApplyPending(t)
       PROVE  (stream \in [Client -> Stream] /\ Others)'
    BY <1>12 DEF ApplyPending, Others
  <1>13. ASSUME NEW t \in Tab, PendingFails(t)
       PROVE  (stream \in [Client -> Stream] /\ Others)'
    <2>1. Queued(t, "prompt.request") \subseteq Prompt
      BY QueuedType DEF Client
    <2> QED
      BY <1>13, <2>1 DEF PendingFails, Others
  <1>14. ASSUME NEW t \in Tab, Deliver(t)
       PROVE  (stream \in [Client -> Stream] /\ Others)'
    <2>1. stream[t].queue \in Seq(Event) /\ stream[t].queue # <<>>
      BY <1>14 DEF Deliver, Stream, Client
    <2>2. Head(stream[t].queue).prompt \in Prompt /\ Tail(stream[t].queue) \in Seq(Event)
      BY <2>1, TailFacts, EventFields
    <2>4. stream' = [stream EXCEPT ![t].queue = Tail(stream[t].queue)]
      BY <1>14 DEF Deliver
    <2>3. stream' \in [Client -> Stream]
      <3>1. t \in Client
        BY DEF Client
      <3>2. Tail(stream[t].queue) \in Seq(Event)
        BY <2>2
      <3> QED
        BY <2>4, <3>1, <3>2, QueueSet
    <2> QED
      BY <1>14, <2>2, <2>3 DEF Deliver, Others
  <1>15. ASSUME NEW t \in Tab, NEW q \in Prompt, NEW a \in Answer, Submit(t, q, a)
       PROVE  (stream \in [Client -> Stream] /\ Others)'
    <2>1. [tab |-> t, prompt |-> q, answer |-> a, done |-> FALSE] \in Post
      BY DEF Post
    <2> QED
      BY <1>15, <2>1 DEF Submit, Others
  <1>16. ASSUME NEW p \in posts, Respond(p)
       PROVE  (stream \in [Client -> Stream] /\ Others)'
    <2> DEFINE event == [type |-> "prompt.response", prompt |-> p.prompt,
                         session |-> SessionOf(p.prompt), answer |-> p.answer]
    <2>0. p \in Post
      BY DEF Others
    <2>1. event \in Event
      BY <2>0, PostFacts DEF Event, SessionOf
    <2>2. stream' \in [Client -> Stream]
      BY <1>16, <2>1, PublishedFacts DEF Respond, Published
    <2>3. p.prompt \in Prompt /\ p.answer \in Answer /\ [p EXCEPT !.done = TRUE] \in Post
      BY <2>0, PostFacts
    <2>4. posts' \subseteq Post
      BY <1>16, <2>3 DEF Respond, Others
    <2> QED
      BY <1>16, <2>2, <2>3, <2>4 DEF Respond, Others
  <1>17. ASSUME NEW p \in posts, PostDone(p)
       PROVE  (stream \in [Client -> Stream] /\ Others)'
    BY <1>17, PostFacts DEF PostDone, Others
  <1>18. ASSUME NEW p \in posts, PostFails(p)
       PROVE  (stream \in [Client -> Stream] /\ Others)'
    BY <1>18 DEF PostFails, Others
  <1>19. ASSUME NEW d \in Client, Subscribe(d)
       PROVE  (stream \in [Client -> Stream] /\ Others)'
    <2>1. stream' \in [Client -> Stream]
      BY <1>19, PhaseSet DEF Subscribe
    <2> QED
      BY <1>19, <2>1 DEF Subscribe, Others
  <1>20. ASSUME NEW d \in Client, Break(d)
       PROVE  (stream \in [Client -> Stream] /\ Others)'
    <2>1. Queued(d, "prompt.request") \subseteq Prompt
      BY QueuedType
    <2>2. Broken(d) \in Stream
      BY DEF Broken, Stream
    <2> QED
      BY <1>20, <2>1, <2>2 DEF Break, Others
  <1>21. ASSUME Restart
       PROVE  (stream \in [Client -> Stream] /\ Others)'
    <2>1. \A c \in Client : Broken(c) \in Stream
      BY DEF Broken, Stream
    <2> QED
      BY <1>21, <2>1, <1>c DEF Restart, Others
  <1>22. CASE UNCHANGED vars
    BY <1>22 DEF vars, server, tab, Others
  <1>23. ASSUME NEW d \in Client, Overflow(d)
       PROVE  (stream \in [Client -> Stream] /\ Others)'
    <2>1. stream' \in [Client -> Stream]
      BY <1>23, OverflowFacts
    <2>2. PICK i \in DOMAIN stream[d].queue :
             LET event == stream[d].queue[i]
             IN  /\ missed' = [t \in Tab |-> IF t = d /\ event.type = "prompt.request"
                                            THEN missed[t] \cup {event.prompt} ELSE missed[t]]
                 /\ unheard' = IF d \in Prompt /\ event.type = "prompt.response"
                               THEN unheard \cup {d} ELSE unheard
      BY <1>23, OverflowFacts
    <2>3. stream[d].queue[i].prompt \in Prompt
      BY QueueMember, EventFields
    <2>4. missed' \in [Tab -> SUBSET Prompt] /\ unheard' \subseteq Prompt
      BY <2>2, <2>3 DEF Others
    <2> QED
      BY <1>23, <2>1, <2>4 DEF Overflow, Others
  <1> QED
    BY <1>1, <1>2, <1>3, <1>4, <1>5, <1>6, <1>7, <1>8, <1>9, <1>10, <1>11,
       <1>12, <1>13, <1>14, <1>15, <1>16, <1>17, <1>18, <1>19, <1>20,
       <1>21, <1>22, <1>23 DEF Next, AskerStep, TabStep, PostStep

\* The prompts that have been asked somewhere: at a dashboard or alone.
Known == {q \in Prompt : asker[q] \notin {"idle", "publishing"}}

\* The server holds prompts that have been published.
PendingAsked == pending \subseteq Known

\* A prompt that is open, or that nobody has heard of, has no accepted answer.
Undecided == \A q \in Prompt : q \in pending \/ q \notin Known => accepted[q] = NoAnswer

\* The event of a published prompt.
RequestOf(q) == [type |-> "prompt.request", prompt |-> q, session |-> q, answer |-> NoAnswer]

\* The event of an answer the server has got.
ResponseOf(p) == [type |-> "prompt.response", prompt |-> p.prompt,
                  session |-> SessionOf(p.prompt), answer |-> p.answer]

\* A prompt that has been asked stays asked.
LEMMA KnownGrows ==
  ASSUME TypeOK, [Next]_vars
  PROVE  Known \subseteq Known'
  <1> USE DEF Ends, Throws, Accept, server, tab
  <1>0. asker \in [Prompt -> {"idle", "publishing", "opening", "waiting", "answered", "failed"}]
    BY DEF TypeOK
  <1>1. ASSUME NEW q \in Prompt, Ask(q)
       PROVE  Known \subseteq Known'
    BY <1>0, <1>1 DEF Ask, Known
  <1>2. ASSUME NEW q \in Prompt, AskFails(q)
       PROVE  Known \subseteq Known'
    BY <1>0, <1>2 DEF AskFails, Known
  <1>3. ASSUME NEW q \in Prompt, NEW a \in Answer, AskAlone(q, a)
       PROVE  Known \subseteq Known'
    BY <1>0, <1>3 DEF AskAlone, Known
  <1>4. ASSUME NEW q \in Prompt, Publish(q)
       PROVE  Known \subseteq Known'
    BY <1>0, <1>4 DEF Publish, Known
  <1>5. ASSUME NEW q \in Prompt, PublishFails(q)
       PROVE  Known \subseteq Known'
    BY <1>0, <1>5 DEF PublishFails, Known
  <1>6. ASSUME NEW q \in Prompt, OpenStream(q)
       PROVE  Known \subseteq Known'
    BY <1>0, <1>6 DEF OpenStream, Known
  <1>7. ASSUME NEW q \in Prompt, StreamEnds(q)
       PROVE  Known \subseteq Known'
    BY <1>0, <1>7 DEF StreamEnds, Known
  <1>8. ASSUME NEW q \in Prompt, TimesOut(q)
       PROVE  Known \subseteq Known'
    BY <1>0, <1>8 DEF TimesOut, Known
  <1>9. ASSUME NEW q \in Prompt, Hear(q)
       PROVE  Known \subseteq Known'
    <2>1. asker' = asker \/ asker' = [asker EXCEPT ![q] = "answered"]
      BY <1>9 DEF Hear
    <2> QED
      BY <1>0, <2>1 DEF Known
  <1>10. ASSUME NEW t \in Tab, Mount(t)
       PROVE  Known \subseteq Known'
    BY <1>0, <1>10 DEF Mount, Known
  <1>11. ASSUME NEW t \in Tab, ReadPending(t)
       PROVE  Known \subseteq Known'
    BY <1>0, <1>11 DEF ReadPending, Known
  <1>12. ASSUME NEW t \in Tab, ApplyPending(t)
       PROVE  Known \subseteq Known'
    BY <1>0, <1>12 DEF ApplyPending, Known
  <1>13. ASSUME NEW t \in Tab, PendingFails(t)
       PROVE  Known \subseteq Known'
    BY <1>0, <1>13 DEF PendingFails, Known
  <1>14. ASSUME NEW t \in Tab, Deliver(t)
       PROVE  Known \subseteq Known'
    BY <1>0, <1>14 DEF Deliver, Known
  <1>15. ASSUME NEW t \in Tab, NEW q \in Prompt, NEW a \in Answer, Submit(t, q, a)
       PROVE  Known \subseteq Known'
    BY <1>0, <1>15 DEF Submit, Known
  <1>16. ASSUME NEW p \in posts, Respond(p)
       PROVE  Known \subseteq Known'
    BY <1>0, <1>16 DEF Respond, Known
  <1>17. ASSUME NEW p \in posts, PostDone(p)
       PROVE  Known \subseteq Known'
    BY <1>0, <1>17 DEF PostDone, Known
  <1>18. ASSUME NEW p \in posts, PostFails(p)
       PROVE  Known \subseteq Known'
    BY <1>0, <1>18 DEF PostFails, Known
  <1>19. ASSUME NEW d \in Client, Subscribe(d)
       PROVE  Known \subseteq Known'
    BY <1>0, <1>19 DEF Subscribe, Known
  <1>20. ASSUME NEW d \in Client, Break(d)
       PROVE  Known \subseteq Known'
    BY <1>0, <1>20 DEF Break, Known
  <1>21. ASSUME Restart
       PROVE  Known \subseteq Known'
    BY <1>0, <1>21 DEF Restart, Known
  <1>22. CASE UNCHANGED vars
    BY <1>22 DEF vars, server, tab, Known
  <1>23. ASSUME NEW d \in Client, Overflow(d)
       PROVE  Known \subseteq Known'
    BY <1>0, <1>23 DEF Overflow, Known
  <1> QED
    BY <1>1, <1>2, <1>3, <1>4, <1>5, <1>6, <1>7, <1>8, <1>9, <1>10, <1>11,
       <1>12, <1>13, <1>14, <1>15, <1>16, <1>17, <1>18, <1>19, <1>20,
       <1>21, <1>22, <1>23 DEF Next, AskerStep, TabStep, PostStep

\* An accepted answer is never replaced.
LEMMA DecidedOnce ==
  ASSUME TypeOK, PendingAsked, Undecided, [Next]_vars, NEW r \in Prompt, accepted[r] # NoAnswer
  PROVE  accepted'[r] = accepted[r]
  <1> USE DEF Ends, Throws, Accept, server, tab
  <1>0. /\ accepted \in [Prompt -> Answer \cup {NoAnswer}]
        /\ posts \subseteq Post
    BY DEF TypeOK
  <1>1. ASSUME NEW q \in Prompt, Ask(q)
       PROVE  accepted'[r] = accepted[r]
    BY <1>1 DEF Ask
  <1>2. ASSUME NEW q \in Prompt, AskFails(q)
       PROVE  accepted'[r] = accepted[r]
    BY <1>2 DEF AskFails
  <1>3. ASSUME NEW q \in Prompt, NEW a \in Answer, AskAlone(q, a)
       PROVE  accepted'[r] = accepted[r]
    BY <1>0, <1>3 DEF AskAlone, Undecided, Known
  <1>4. ASSUME NEW q \in Prompt, Publish(q)
       PROVE  accepted'[r] = accepted[r]
    BY <1>4 DEF Publish
  <1>5. ASSUME NEW q \in Prompt, PublishFails(q)
       PROVE  accepted'[r] = accepted[r]
    BY <1>5 DEF PublishFails
  <1>6. ASSUME NEW q \in Prompt, OpenStream(q)
       PROVE  accepted'[r] = accepted[r]
    BY <1>6 DEF OpenStream
  <1>7. ASSUME NEW q \in Prompt, StreamEnds(q)
       PROVE  accepted'[r] = accepted[r]
    BY <1>7 DEF StreamEnds
  <1>8. ASSUME NEW q \in Prompt, TimesOut(q)
       PROVE  accepted'[r] = accepted[r]
    BY <1>8 DEF TimesOut
  <1>9. ASSUME NEW q \in Prompt, Hear(q)
       PROVE  accepted'[r] = accepted[r]
    BY <1>9 DEF Hear
  <1>10. ASSUME NEW t \in Tab, Mount(t)
       PROVE  accepted'[r] = accepted[r]
    BY <1>10 DEF Mount
  <1>11. ASSUME NEW t \in Tab, ReadPending(t)
       PROVE  accepted'[r] = accepted[r]
    BY <1>11 DEF ReadPending
  <1>12. ASSUME NEW t \in Tab, ApplyPending(t)
       PROVE  accepted'[r] = accepted[r]
    BY <1>12 DEF ApplyPending
  <1>13. ASSUME NEW t \in Tab, PendingFails(t)
       PROVE  accepted'[r] = accepted[r]
    BY <1>13 DEF PendingFails
  <1>14. ASSUME NEW t \in Tab, Deliver(t)
       PROVE  accepted'[r] = accepted[r]
    BY <1>14 DEF Deliver
  <1>15. ASSUME NEW t \in Tab, NEW q \in Prompt, NEW a \in Answer, Submit(t, q, a)
       PROVE  accepted'[r] = accepted[r]
    BY <1>15 DEF Submit
  <1>16. ASSUME NEW p \in posts, Respond(p)
       PROVE  accepted'[r] = accepted[r]
    BY <1>0, <1>16 DEF Respond, Undecided
  <1>17. ASSUME NEW p \in posts, PostDone(p)
       PROVE  accepted'[r] = accepted[r]
    BY <1>17 DEF PostDone
  <1>18. ASSUME NEW p \in posts, PostFails(p)
       PROVE  accepted'[r] = accepted[r]
    BY <1>18 DEF PostFails
  <1>19. ASSUME NEW d \in Client, Subscribe(d)
       PROVE  accepted'[r] = accepted[r]
    BY <1>19 DEF Subscribe
  <1>20. ASSUME NEW d \in Client, Break(d)
       PROVE  accepted'[r] = accepted[r]
    BY <1>20 DEF Break
  <1>21. ASSUME Restart
       PROVE  accepted'[r] = accepted[r]
    BY <1>21 DEF Restart
  <1>22. CASE UNCHANGED vars
    BY <1>22 DEF vars, server, tab
  <1>23. ASSUME NEW d \in Client, Overflow(d)
       PROVE  accepted'[r] = accepted[r]
    BY <1>23 DEF Overflow
  <1> QED
    BY <1>1, <1>2, <1>3, <1>4, <1>5, <1>6, <1>7, <1>8, <1>9, <1>10, <1>11,
       <1>12, <1>13, <1>14, <1>15, <1>16, <1>17, <1>18, <1>19, <1>20,
       <1>21, <1>22, <1>23 DEF Next, AskerStep, TabStep, PostStep

\* Every step keeps the server's prompts asked and undecided.
LEMMA UndecidedStep ==
  ASSUME TypeOK, PendingAsked, Undecided, [Next]_vars
  PROVE  PendingAsked' /\ Undecided'
  <1> USE DEF Ends, Throws, Accept, server, tab
  <1>0. /\ accepted \in [Prompt -> Answer \cup {NoAnswer}]
        /\ asker \in [Prompt -> {"idle", "publishing", "opening", "waiting", "answered", "failed"}]
        /\ posts \subseteq Post
    BY DEF TypeOK
  <1>a. Known \subseteq Known'
    BY KnownGrows
  <1>b. SUFFICES \/ pending' \subseteq pending /\ accepted' = accepted
                 \/ PendingAsked' /\ Undecided'
    BY <1>a DEF PendingAsked, Undecided
  <1>1. ASSUME NEW q \in Prompt, Ask(q)
       PROVE  (pending' \subseteq pending /\ accepted' = accepted) \/ (PendingAsked' /\ Undecided')
    BY <1>1 DEF Ask
  <1>2. ASSUME NEW q \in Prompt, AskFails(q)
       PROVE  (pending' \subseteq pending /\ accepted' = accepted) \/ (PendingAsked' /\ Undecided')
    BY <1>2 DEF AskFails
  <1>3. ASSUME NEW q \in Prompt, NEW a \in Answer, AskAlone(q, a)
       PROVE  (pending' \subseteq pending /\ accepted' = accepted) \/ (PendingAsked' /\ Undecided')
    BY <1>0, <1>a, <1>3 DEF AskAlone, Undecided, PendingAsked, Known
  <1>4. ASSUME NEW q \in Prompt, Publish(q)
       PROVE  (pending' \subseteq pending /\ accepted' = accepted) \/ (PendingAsked' /\ Undecided')
    BY <1>0, <1>a, <1>4 DEF Publish, Undecided, PendingAsked, Known
  <1>5. ASSUME NEW q \in Prompt, PublishFails(q)
       PROVE  (pending' \subseteq pending /\ accepted' = accepted) \/ (PendingAsked' /\ Undecided')
    BY <1>5 DEF PublishFails
  <1>6. ASSUME NEW q \in Prompt, OpenStream(q)
       PROVE  (pending' \subseteq pending /\ accepted' = accepted) \/ (PendingAsked' /\ Undecided')
    BY <1>6 DEF OpenStream
  <1>7. ASSUME NEW q \in Prompt, StreamEnds(q)
       PROVE  (pending' \subseteq pending /\ accepted' = accepted) \/ (PendingAsked' /\ Undecided')
    BY <1>7 DEF StreamEnds
  <1>8. ASSUME NEW q \in Prompt, TimesOut(q)
       PROVE  (pending' \subseteq pending /\ accepted' = accepted) \/ (PendingAsked' /\ Undecided')
    BY <1>8 DEF TimesOut
  <1>9. ASSUME NEW q \in Prompt, Hear(q)
       PROVE  (pending' \subseteq pending /\ accepted' = accepted) \/ (PendingAsked' /\ Undecided')
    BY <1>9 DEF Hear
  <1>10. ASSUME NEW t \in Tab, Mount(t)
       PROVE  (pending' \subseteq pending /\ accepted' = accepted) \/ (PendingAsked' /\ Undecided')
    BY <1>10 DEF Mount
  <1>11. ASSUME NEW t \in Tab, ReadPending(t)
       PROVE  (pending' \subseteq pending /\ accepted' = accepted) \/ (PendingAsked' /\ Undecided')
    BY <1>11 DEF ReadPending
  <1>12. ASSUME NEW t \in Tab, ApplyPending(t)
       PROVE  (pending' \subseteq pending /\ accepted' = accepted) \/ (PendingAsked' /\ Undecided')
    BY <1>12 DEF ApplyPending
  <1>13. ASSUME NEW t \in Tab, PendingFails(t)
       PROVE  (pending' \subseteq pending /\ accepted' = accepted) \/ (PendingAsked' /\ Undecided')
    BY <1>13 DEF PendingFails
  <1>14. ASSUME NEW t \in Tab, Deliver(t)
       PROVE  (pending' \subseteq pending /\ accepted' = accepted) \/ (PendingAsked' /\ Undecided')
    BY <1>14 DEF Deliver
  <1>15. ASSUME NEW t \in Tab, NEW q \in Prompt, NEW a \in Answer, Submit(t, q, a)
       PROVE  (pending' \subseteq pending /\ accepted' = accepted) \/ (PendingAsked' /\ Undecided')
    BY <1>15 DEF Submit
  <1>16. ASSUME NEW p \in posts, Respond(p)
       PROVE  (pending' \subseteq pending /\ accepted' = accepted) \/ (PendingAsked' /\ Undecided')
    <2>1. pending' \subseteq pending /\ asker' = asker /\ p \in Post
      BY <1>0, <1>16 DEF Respond
    <2>2. p.prompt \in Prompt /\ p.prompt \notin pending'
      BY <2>1, <1>16, PostFacts DEF Respond
    <2>3. \A q \in Prompt : q # p.prompt => accepted'[q] = accepted[q]
      BY <1>0, <1>16 DEF Respond
    <2>4. p.prompt \in pending \/ accepted' = accepted
      BY <1>16 DEF Respond
    <2> QED
      BY <2>1, <2>2, <2>3, <2>4 DEF Undecided, PendingAsked, Known
  <1>17. ASSUME NEW p \in posts, PostDone(p)
       PROVE  (pending' \subseteq pending /\ accepted' = accepted) \/ (PendingAsked' /\ Undecided')
    BY <1>17 DEF PostDone
  <1>18. ASSUME NEW p \in posts, PostFails(p)
       PROVE  (pending' \subseteq pending /\ accepted' = accepted) \/ (PendingAsked' /\ Undecided')
    BY <1>18 DEF PostFails
  <1>19. ASSUME NEW d \in Client, Subscribe(d)
       PROVE  (pending' \subseteq pending /\ accepted' = accepted) \/ (PendingAsked' /\ Undecided')
    BY <1>19 DEF Subscribe
  <1>20. ASSUME NEW d \in Client, Break(d)
       PROVE  (pending' \subseteq pending /\ accepted' = accepted) \/ (PendingAsked' /\ Undecided')
    BY <1>20 DEF Break
  <1>21. ASSUME Restart
       PROVE  (pending' \subseteq pending /\ accepted' = accepted) \/ (PendingAsked' /\ Undecided')
    BY <1>21 DEF Restart
  <1>22. CASE UNCHANGED vars
    BY <1>22 DEF vars, server, tab
  <1>23. ASSUME NEW d \in Client, Overflow(d)
       PROVE  (pending' \subseteq pending /\ accepted' = accepted) \/ (PendingAsked' /\ Undecided')
    BY <1>23 DEF Overflow
  <1> QED
    BY <1>1, <1>2, <1>3, <1>4, <1>5, <1>6, <1>7, <1>8, <1>9, <1>10, <1>11,
       <1>12, <1>13, <1>14, <1>15, <1>16, <1>17, <1>18, <1>19, <1>20,
       <1>21, <1>22, <1>23 DEF Next, AskerStep, TabStep, PostStep

\* Where the events of a stream come from: it had them before, or a prompt is
\* published, or an answer is, on a stream that is open and that it is for.
LEMMA QueueStep ==
  ASSUME TypeOK, [Next]_vars, NEW k \in Client, NEW i \in DOMAIN stream'[k].queue
  PROVE  \/ \E j \in DOMAIN stream[k].queue : stream'[k].queue[i] = stream[k].queue[j]
         \/ \E q \in Prompt : Publish(q) /\ stream'[k].queue[i] = RequestOf(q)
         \/ \E p \in posts : /\ Respond(p)
                             /\ stream'[k].queue[i] = ResponseOf(p)
                             /\ stream[k].phase = "live" /\ Matches(k, ResponseOf(p))
  <1> USE DEF Ends, Throws, Accept, server, tab
  <1> DEFINE Old == \E j \in DOMAIN stream[k].queue : stream'[k].queue[i] = stream[k].queue[j]
             Goal == \/ Old
                     \/ \E q \in Prompt : Publish(q) /\ stream'[k].queue[i] = RequestOf(q)
                     \/ \E p \in posts : /\ Respond(p)
                                         /\ stream'[k].queue[i] = ResponseOf(p)
                                         /\ stream[k].phase = "live" /\ Matches(k, ResponseOf(p))
  <1>a. stream \in [Client -> Stream] /\ posts \subseteq Post
    BY DEF TypeOK, Stream
  <1>b. \A x \in Client : stream[x].queue \in Seq(Event)
    BY DEF TypeOK
  <1>k. stream' = stream \/ stream'[k].queue = stream[k].queue => Old
    OBVIOUS
  <1>d. stream'[k].queue = <<>> => Old
    OBVIOUS
  <1>e. /\ stream[k].queue # <<>>
        /\ stream'[k].queue = Tail(stream[k].queue)
        => Old
    <2> SUFFICES ASSUME stream[k].queue # <<>>, stream'[k].queue = Tail(stream[k].queue)
                 PROVE  Old
      OBVIOUS
    <2>1. i + 1 \in DOMAIN stream[k].queue /\ stream'[k].queue[i] = stream[k].queue[i + 1]
      BY <1>b, TailFacts
    <2> QED
      BY <2>1
  <1>f. Closed.queue = <<>>
    BY DEF Closed
  <1> HIDE DEF Old
  <1>1. ASSUME NEW q \in Prompt, Ask(q)
       PROVE  Goal
    BY <1>k, <1>1 DEF Ask
  <1>2. ASSUME NEW q \in Prompt, AskFails(q)
       PROVE  Goal
    <2>1. stream' = [stream EXCEPT ![q] = Closed]
      BY <1>2 DEF AskFails
    <2> QED
      BY <1>a, <1>k, <1>d, <1>f, <2>1 DEF Client
  <1>3. ASSUME NEW q \in Prompt, NEW a \in Answer, AskAlone(q, a)
       PROVE  Goal
    BY <1>k, <1>3 DEF AskAlone
  <1>4. ASSUME NEW q \in Prompt, Publish(q)
       PROVE  Goal
    <2>1. RequestOf(q) \in Event /\ stream' = Published(RequestOf(q))
      BY <1>4 DEF Publish, RequestOf, Event
    <2>2. Old \/ stream'[k].queue[i] = RequestOf(q)
      BY <2>1, PublishedFacts DEF Old
    <2> QED
      BY <1>4, <2>2
  <1>5. ASSUME NEW q \in Prompt, PublishFails(q)
       PROVE  Goal
    <2>1. stream' = [stream EXCEPT ![q] = Closed]
      BY <1>5 DEF PublishFails
    <2> QED
      BY <1>a, <1>k, <1>d, <1>f, <2>1 DEF Client
  <1>6. ASSUME NEW q \in Prompt, OpenStream(q)
       PROVE  Goal
    <2>1. stream'[k].queue = stream[k].queue
      BY <1>a, <1>6, PhaseSet DEF OpenStream, Client
    <2> QED
      BY <1>k, <2>1
  <1>7. ASSUME NEW q \in Prompt, StreamEnds(q)
       PROVE  Goal
    <2>1. stream' = [stream EXCEPT ![q] = Closed]
      BY <1>7 DEF StreamEnds
    <2> QED
      BY <1>a, <1>k, <1>d, <1>f, <2>1 DEF Client
  <1>8. ASSUME NEW q \in Prompt, TimesOut(q)
       PROVE  Goal
    <2>1. stream' = [stream EXCEPT ![q] = Closed]
      BY <1>8 DEF TimesOut
    <2> QED
      BY <1>a, <1>k, <1>d, <1>f, <2>1 DEF Client
  <1>9. ASSUME NEW q \in Prompt, Hear(q)
       PROVE  Goal
    <2>1. stream[q].queue # <<>> /\ q \in Client
      BY <1>9 DEF Hear, Client
    <2>2. Tail(stream[q].queue) \in Seq(Event)
      BY <1>b, <2>1, TailFacts
    <2>3. CASE stream' = [stream EXCEPT ![q] = Closed]
      BY <1>a, <1>k, <1>d, <1>f, <2>1, <2>3
    <2>4. CASE stream' = [stream EXCEPT ![q].queue = Tail(stream[q].queue)]
      <3>1. IF k = q THEN stream'[k].queue = Tail(stream[k].queue) ELSE stream'[k] = stream[k]
        BY <1>a, <2>1, <2>2, <2>4, QueueSet
      <3> QED
        BY <1>k, <1>e, <2>1, <3>1
    <2> QED
      BY <1>9, <2>3, <2>4 DEF Hear
  <1>10. ASSUME NEW t \in Tab, Mount(t)
       PROVE  Goal
    <2>1. stream'[k].queue = stream[k].queue
      BY <1>a, <1>10, PhaseSet DEF Mount, Client
    <2> QED
      BY <1>k, <2>1
  <1>11. ASSUME NEW t \in Tab, ReadPending(t)
       PROVE  Goal
    BY <1>k, <1>11 DEF ReadPending
  <1>12. ASSUME NEW t \in Tab, ApplyPending(t)
       PROVE  Goal
    BY <1>k, <1>12 DEF ApplyPending
  <1>13. ASSUME NEW t \in Tab, PendingFails(t)
       PROVE  Goal
    BY <1>k, <1>13 DEF PendingFails
  <1>14. ASSUME NEW t \in Tab, Deliver(t)
       PROVE  Goal
    <2>1. stream[t].queue # <<>> /\ t \in Client
      BY <1>14 DEF Deliver, Client
    <2>2. Tail(stream[t].queue) \in Seq(Event)
      BY <1>b, <2>1, TailFacts
    <2>3. stream' = [stream EXCEPT ![t].queue = Tail(stream[t].queue)]
      BY <1>14 DEF Deliver
    <2>4. IF k = t THEN stream'[k].queue = Tail(stream[k].queue) ELSE stream'[k] = stream[k]
      BY <1>a, <2>1, <2>2, <2>3, QueueSet
    <2> QED
      BY <1>k, <1>e, <2>1, <2>4
  <1>15. ASSUME NEW t \in Tab, NEW q \in Prompt, NEW a \in Answer, Submit(t, q, a)
       PROVE  Goal
    BY <1>k, <1>15 DEF Submit
  <1>16. ASSUME NEW p \in posts, Respond(p)
       PROVE  Goal
    <2>0. p \in Post
      BY <1>a
    <2>1. ResponseOf(p) \in Event /\ stream' = Published(ResponseOf(p))
      BY <1>16, <2>0, PostFacts DEF Respond, ResponseOf, Event, SessionOf
    <2>2. Old \/ (/\ stream'[k].queue[i] = ResponseOf(p)
                  /\ stream[k].phase = "live" /\ Matches(k, ResponseOf(p)))
      BY <2>1, PublishedFacts DEF Old
    <2> QED
      BY <1>16, <2>2
  <1>17. ASSUME NEW p \in posts, PostDone(p)
       PROVE  Goal
    BY <1>k, <1>17 DEF PostDone
  <1>18. ASSUME NEW p \in posts, PostFails(p)
       PROVE  Goal
    BY <1>k, <1>18 DEF PostFails
  <1>19. ASSUME NEW d \in Client, Subscribe(d)
       PROVE  Goal
    <2>1. stream'[k].queue = stream[k].queue
      BY <1>a, <1>19, PhaseSet DEF Subscribe
    <2> QED
      BY <1>k, <2>1
  <1>20. ASSUME NEW d \in Client, Break(d)
       PROVE  Goal
    <2>1. stream' = [stream EXCEPT ![d] = Broken(d)]
      BY <1>20 DEF Break
    <2> QED
      BY <1>a, <1>k, <1>d, <2>1 DEF Broken
  <1>21. ASSUME Restart
       PROVE  Goal
    <2>1. stream'[k] = Closed \/ stream'[k] = Broken(k)
      BY <1>21 DEF Restart
    <2> QED
      BY <1>d, <1>f, <2>1 DEF Broken
  <1>22. ASSUME UNCHANGED vars PROVE Goal
    <2>1. stream' = stream
      BY <1>22 DEF vars
    <2> QED
      BY <1>k, <2>1
  <1>23. ASSUME NEW d \in Client, Overflow(d)
       PROVE  Goal
    <2>1. CASE k = d
      <3>1. \A j \in DOMAIN stream'[k].queue :
               \E l \in DOMAIN stream[k].queue : stream'[k].queue[j] = stream[k].queue[l]
        BY <1>23, <2>1, OverflowFacts
      <3>2. Old
        BY <3>1 DEF Old
      <3> QED
        BY <3>2
    <2>2. CASE k # d
      <3>1. stream'[k] = stream[k]
        BY <1>23, <2>2, OverflowFacts
      <3> QED
        BY <1>k, <3>1
    <2> QED
      BY <2>1, <2>2
  <1> HIDE DEF Goal, Ends, Throws, Accept, server, tab
  <1>z. Goal
    BY <1>1, <1>2, <1>3, <1>4, <1>5, <1>6, <1>7, <1>8, <1>9, <1>10, <1>11,
       <1>12, <1>13, <1>14, <1>15, <1>16, <1>17, <1>18, <1>19, <1>20,
       <1>21, <1>22, <1>23 DEF Next, AskerStep, TabStep, PostStep
  <1> QED
    BY <1>z DEF Goal, Old

\* Every step keeps Heard: a response reaches the call only with its prompt's
\* session, which SessionOf gives it while the prompt is pending, so that it is
\* the answer accepted in the same step.
LEMMA HeardStep ==
  ASSUME TypeOK, Heard, PendingAsked, Undecided, [Next]_vars
  PROVE  Heard'
  <1> SUFFICES ASSUME NEW r \in Prompt, NEW i \in DOMAIN stream'[r].queue,
                      stream'[r].queue[i].type = "prompt.response"
               PROVE  stream'[r].queue[i].answer = accepted'[r] /\ accepted'[r] # NoAnswer
    BY DEF Heard
  <1>0. r \in Client /\ r \notin Tab
    BY PromptsAssumption DEF Client
  <1>1. CASE \E j \in DOMAIN stream[r].queue : stream'[r].queue[i] = stream[r].queue[j]
    <2>1. stream'[r].queue[i].answer = accepted[r] /\ accepted[r] # NoAnswer
      BY <1>1 DEF Heard
    <2> QED
      BY <2>1, DecidedOnce
  <1>2. CASE \E q \in Prompt : stream'[r].queue[i] = RequestOf(q)
    BY <1>2 DEF RequestOf
  <1>3. ASSUME NEW p \in posts, Respond(p), stream'[r].queue[i] = ResponseOf(p),
               Matches(r, ResponseOf(p))
        PROVE  stream'[r].queue[i].answer = accepted'[r] /\ accepted'[r] # NoAnswer
    <2>1. p \in Post /\ accepted \in [Prompt -> Answer \cup {NoAnswer}]
      BY DEF TypeOK
    <2>2. p.prompt \in Prompt /\ p.answer \in Answer
      BY <2>1, PostFacts
    <2>3. ResponseOf(p).session = r /\ ResponseOf(p).answer = p.answer
      BY <1>0, <1>3 DEF Matches, ResponseOf
    <2>4. p.prompt \in pending /\ p.prompt = r
      BY <2>2, <2>3, PromptsAssumption DEF ResponseOf, SessionOf
    <2>5. accepted'[r] = p.answer
      BY <1>3, <2>1, <2>4 DEF Respond
    <2> QED
      BY <1>3, <2>2, <2>3, <2>5, PromptsAssumption
  <1> QED
    BY <1>0, <1>1, <1>2, <1>3, QueueStep

\* The inductive part of the argument for what askUser returns.
Core == TypeOK /\ Heard /\ PendingAsked /\ Undecided

\* The initial state satisfies Core.
LEMMA CoreInit == Init => Core
  <1> SUFFICES ASSUME Init PROVE Core
    OBVIOUS
  <1>1. Heard
    BY DEF Init, Heard, Closed, Client
  <1>2. PendingAsked /\ Undecided
    BY DEF Init, PendingAsked, Undecided
  <1> QED
    BY <1>1, <1>2, TypeInit DEF Core

\* Every step keeps Core.
LEMMA CoreStep ==
  ASSUME Core, [Next]_vars
  PROVE  Core'
  <1>1. TypeOK'
    BY TypeStep DEF Core
  <1>2. Heard'
    BY HeardStep DEF Core
  <1>3. PendingAsked' /\ Undecided'
    BY UndecidedStep DEF Core
  <1> QED
    BY <1>1, <1>2, <1>3 DEF Core

\* Core holds in every reachable state.
THEOREM CoreAlways == Spec => []Core
  <1>1. Core /\ [Next]_vars => Core'
    BY CoreStep
  <1> QED
    BY CoreInit, <1>1, PTL DEF Spec

\* The variables keep their types, and a call of askUser has returned or
\* thrown exactly when it has a value.
THEOREM TypeCorrect == Spec => []TypeOK
  <1>1. Core => TypeOK
    BY DEF Core
  <1> QED
    BY <1>1, CoreAlways, PTL

\* Every step is a step of Question or leaves the decision and what the call
\* has returned alone.
LEMMA QuestionStep ==
  ASSUME Core, [Next]_vars
  PROVE  [Asked!Next]_<<accepted, learned>>
  <1> USE DEF Ends, Throws, Accept, server, tab
  <1>0. /\ accepted \in [Prompt -> Answer \cup {NoAnswer}]
        /\ learned \in [Prompt -> Answer \cup {NoAnswer, GaveUp}]
        /\ posts \subseteq Post
        /\ \A q \in Prompt :
            (learned[q] = NoAnswer) <=> (asker[q] \notin {"answered", "failed"})
    BY DEF Core, TypeOK
  <1> DEFINE Step == Asked!Next \/ UNCHANGED <<accepted, learned>>
  <1>b. SUFFICES Step
    OBVIOUS
  <1>1. ASSUME NEW q \in Prompt, Ask(q)
       PROVE  Step
    BY <1>1 DEF Ask
  <1>2. ASSUME NEW q \in Prompt, AskFails(q)
       PROVE  Step
    <2>1. Asked!GiveUp(q)
      BY <1>0, <1>2 DEF AskFails, Asked!GiveUp
    <2> QED
      BY <2>1 DEF Asked!Next
  <1>3. ASSUME NEW q \in Prompt, NEW a \in Answer, AskAlone(q, a)
       PROVE  Step
    <2>1. Asked!DecideAlone(q, a)
      BY <1>0, <1>3 DEF AskAlone, Asked!DecideAlone, Core, Undecided, Known
    <2> QED
      BY <2>1 DEF Asked!Next
  <1>4. ASSUME NEW q \in Prompt, Publish(q)
       PROVE  Step
    BY <1>4 DEF Publish
  <1>5. ASSUME NEW q \in Prompt, PublishFails(q)
       PROVE  Step
    <2>1. Asked!GiveUp(q)
      BY <1>0, <1>5 DEF PublishFails, Asked!GiveUp
    <2> QED
      BY <2>1 DEF Asked!Next
  <1>6. ASSUME NEW q \in Prompt, OpenStream(q)
       PROVE  Step
    BY <1>6 DEF OpenStream
  <1>7. ASSUME NEW q \in Prompt, StreamEnds(q)
       PROVE  Step
    <2>1. Asked!GiveUp(q)
      BY <1>0, <1>7 DEF StreamEnds, Asked!GiveUp
    <2> QED
      BY <2>1 DEF Asked!Next
  <1>8. ASSUME NEW q \in Prompt, TimesOut(q)
       PROVE  Step
    <2>1. Asked!GiveUp(q)
      BY <1>0, <1>8 DEF TimesOut, TimerRuns, Asked!GiveUp
    <2> QED
      BY <2>1 DEF Asked!Next
  <1>9. ASSUME NEW q \in Prompt, Hear(q)
       PROVE  Step
    <2>0. stream[q].queue \in Seq(Event) /\ stream[q].queue # <<>>
      BY <1>9 DEF Hear, Core, TypeOK, Client
    <2>1. CASE Head(stream[q].queue).type = "prompt.response"
      <3>1. Head(stream[q].queue).answer = accepted[q] /\ accepted[q] # NoAnswer
        BY <2>0, <2>1, TailFacts DEF Core, Heard
      <3>2. Asked!Tell(q)
        BY <1>0, <1>9, <2>1, <3>1 DEF Hear, Asked!Tell
      <3> QED
        BY <3>2 DEF Asked!Next
    <2>2. CASE Head(stream[q].queue).type # "prompt.response"
      BY <1>9, <2>2 DEF Hear
    <2> QED
      BY <2>1, <2>2
  <1>10. ASSUME NEW t \in Tab, Mount(t)
       PROVE  Step
    BY <1>10 DEF Mount
  <1>11. ASSUME NEW t \in Tab, ReadPending(t)
       PROVE  Step
    BY <1>11 DEF ReadPending
  <1>12. ASSUME NEW t \in Tab, ApplyPending(t)
       PROVE  Step
    BY <1>12 DEF ApplyPending
  <1>13. ASSUME NEW t \in Tab, PendingFails(t)
       PROVE  Step
    BY <1>13 DEF PendingFails
  <1>14. ASSUME NEW t \in Tab, Deliver(t)
       PROVE  Step
    BY <1>14 DEF Deliver
  <1>15. ASSUME NEW t \in Tab, NEW q \in Prompt, NEW a \in Answer, Submit(t, q, a)
       PROVE  Step
    BY <1>15 DEF Submit
  <1>16. ASSUME NEW p \in posts, Respond(p)
       PROVE  Step
    <2>1. p.prompt \in Prompt /\ p.answer \in Answer
      BY <1>0, PostFacts
    <2>2. CASE p.prompt \in pending
      <3>1. Asked!Decide(p.prompt, p.answer)
        BY <1>0, <1>16, <2>1, <2>2 DEF Respond, Asked!Decide, Core, Undecided
      <3> QED
        BY <2>1, <3>1 DEF Asked!Next
    <2>3. CASE p.prompt \notin pending
      BY <1>16, <2>3 DEF Respond
    <2> QED
      BY <2>2, <2>3
  <1>17. ASSUME NEW p \in posts, PostDone(p)
       PROVE  Step
    BY <1>17 DEF PostDone
  <1>18. ASSUME NEW p \in posts, PostFails(p)
       PROVE  Step
    BY <1>18 DEF PostFails
  <1>19. ASSUME NEW d \in Client, Subscribe(d)
       PROVE  Step
    BY <1>19 DEF Subscribe
  <1>20. ASSUME NEW d \in Client, Break(d)
       PROVE  Step
    BY <1>20 DEF Break
  <1>21. ASSUME Restart
       PROVE  Step
    BY <1>21 DEF Restart
  <1>22. CASE UNCHANGED vars
    BY <1>22 DEF vars, server, tab
  <1>23. ASSUME NEW d \in Client, Overflow(d)
       PROVE  Step
    BY <1>23 DEF Overflow
  <1> QED
    BY <1>1, <1>2, <1>3, <1>4, <1>5, <1>6, <1>7, <1>8, <1>9, <1>10, <1>11,
       <1>12, <1>13, <1>14, <1>15, <1>16, <1>17, <1>18, <1>19, <1>20,
       <1>21, <1>22, <1>23 DEF Next, AskerStep, TabStep, PostStep

\* However many tabs answer a prompt, repeat an answer or lose one, the first
\* answer the server takes while the prompt is open decides it, and askUser
\* returns that one or throws (askViaDashboard and POST /api/prompts/:id/respond).
THEOREM QuestionImplemented == Spec => ImplementsQuestion
  <1>1. Init => Asked!Init
    BY DEF Init, Asked!Init
  <1>2. Core /\ [Next]_vars => [Asked!Next]_<<accepted, learned>>
    BY QuestionStep
  <1> QED
    BY <1>1, <1>2, CoreAlways, PTL DEF Spec, ImplementsQuestion, Asked!Spec

\* A call has an event stream only while it reads it.
Streams(r) == asker[r] # "waiting" => stream[r] = Closed

\* An answer accepted before the call's stream is open is known to be lost.
OnTime(r) ==
    /\ accepted[r] # NoAnswer
    /\ asker[r] = "opening" \/ (asker[r] = "waiting" /\ stream[r].phase = "opening")
    => r \in unheard

\* AnswerOnItsWay, for one prompt.
Reached(r) ==
    accepted[r] # NoAnswer /\ asker[r] = "waiting" /\ stream[r].phase = "live" /\ r \notin unheard
    => \E i \in DOMAIN stream[r].queue :
           /\ stream[r].queue[i].type = "prompt.response"
           /\ stream[r].queue[i].answer = accepted[r]

\* The inductive part of AnswerOnItsWay, for one prompt.
Listening(r) == Streams(r) /\ OnTime(r) /\ Reached(r)

\* A step that leaves a call alone keeps Listening.
LEMMA ListeningSame ==
  ASSUME NEW r \in Prompt, Listening(r), asker'[r] = asker[r], stream'[r] = stream[r],
         accepted'[r] = accepted[r], unheard \subseteq unheard'
  PROVE  Listening(r)'
  BY DEF Listening, Streams, OnTime, Reached

\* A step that closes the stream of a call keeps Listening.
LEMMA ListeningClosed ==
  ASSUME NEW r \in Prompt, stream'[r] = Closed, asker'[r] # "opening"
  PROVE  Listening(r)'
  BY DEF Listening, Streams, OnTime, Reached, Closed

\* Every step keeps Listening.
LEMMA ListeningStep ==
  ASSUME Core, [Next]_vars, NEW r \in Prompt, Listening(r)
  PROVE  Listening(r)'
  <1> USE DEF Ends, Throws, Accept, server, tab
  <1>0. /\ accepted \in [Prompt -> Answer \cup {NoAnswer}]
        /\ asker \in [Prompt -> {"idle", "publishing", "opening", "waiting", "answered", "failed"}]
        /\ stream \in [Client -> Stream]
        /\ posts \subseteq Post
        /\ stream[r].queue \in Seq(Event)
        /\ \A c \in Client : stream[c].queue \in Seq(Event)
    BY DEF Core, TypeOK, Stream, Client
  <1>c. r \in Client /\ r \notin Tab
    BY PromptsAssumption DEF Client
  <1>t. TypeOK
    BY DEF Core
  <1>1. ASSUME NEW q \in Prompt, Ask(q)
       PROVE  Listening(r)'
    <2>1. CASE r = q
      BY <1>0, <1>1, <2>1 DEF Ask, Listening, Streams, OnTime, Reached, Closed
    <2> QED
      BY <1>0, <1>1, <2>1, ListeningSame DEF Ask
  <1>2. ASSUME NEW q \in Prompt, AskFails(q)
       PROVE  Listening(r)'
    BY <1>0, <1>c, <1>2, ListeningSame, ListeningClosed DEF AskFails
  <1>3. ASSUME NEW q \in Prompt, NEW a \in Answer, AskAlone(q, a)
       PROVE  Listening(r)'
    <2>1. CASE r = q
      BY <1>0, <1>3, <2>1 DEF AskAlone, Listening, Streams, OnTime, Reached, Closed
    <2> QED
      BY <1>0, <1>3, <2>1, ListeningSame DEF AskAlone
  <1>4. ASSUME NEW q \in Prompt, Publish(q)
       PROVE  Listening(r)'
    <2>1. stream[r].phase # "live" => stream'[r] = stream[r]
      BY <1>c, <1>4 DEF Publish, Published
    <2>2. CASE r = q
      <3>1. accepted[r] = NoAnswer /\ stream[r] = Closed
        BY <1>4, <2>2 DEF Publish, Core, Undecided, Known, Listening, Streams
      <3> QED
        BY <1>0, <1>4, <2>1, <2>2, <3>1 DEF Publish, Closed, Listening, Streams, OnTime, Reached
    <2>3. CASE r # q
      <3>1. stream'[r] = stream[r]
        BY <1>c, <1>4, <2>3 DEF Publish, Published, Matches
      <3> QED
        BY <1>0, <1>4, <2>3, <3>1, ListeningSame DEF Publish
    <2> QED
      BY <2>2, <2>3
  <1>5. ASSUME NEW q \in Prompt, PublishFails(q)
       PROVE  Listening(r)'
    BY <1>0, <1>c, <1>5, ListeningSame, ListeningClosed DEF PublishFails
  <1>6. ASSUME NEW q \in Prompt, OpenStream(q)
       PROVE  Listening(r)'
    <2>1. CASE r = q
      <3>1. asker'[r] = "waiting" /\ stream'[r].phase = "opening"
        BY <1>0, <1>c, <1>6, <2>1, PhaseSet DEF OpenStream
      <3> QED
        BY <1>6, <2>1, <3>1 DEF OpenStream, Listening, Streams, OnTime, Reached
    <2>2. CASE r # q
      BY <1>0, <1>c, <1>6, <2>2, ListeningSame DEF OpenStream
    <2> QED
      BY <2>1, <2>2
  <1>7. ASSUME NEW q \in Prompt, StreamEnds(q)
       PROVE  Listening(r)'
    BY <1>0, <1>c, <1>7, ListeningSame, ListeningClosed DEF StreamEnds
  <1>8. ASSUME NEW q \in Prompt, TimesOut(q)
       PROVE  Listening(r)'
    BY <1>0, <1>c, <1>8, ListeningSame, ListeningClosed DEF TimesOut
  <1>9. ASSUME NEW q \in Prompt, Hear(q)
       PROVE  Listening(r)'
    <2>1. CASE r # q
      BY <1>0, <1>c, <1>9, <2>1, ListeningSame DEF Hear
    <2>2. CASE r = q /\ Head(stream[q].queue).type = "prompt.response"
      BY <1>0, <1>c, <1>9, <2>2, ListeningClosed DEF Hear
    <2>3. CASE r = q /\ Head(stream[q].queue).type # "prompt.response"
      <3>1. stream' = [stream EXCEPT ![r].queue = Tail(stream[r].queue)]
        BY <1>9, <2>3 DEF Hear
      <3>2. stream[r].queue # <<>>
        BY <1>9, <2>3 DEF Hear
      <3>3. Tail(stream[r].queue) \in Seq(Event)
        BY <1>0, <3>2, TailFacts
      <3>4. stream'[r].queue = Tail(stream[r].queue) /\ stream'[r].phase = stream[r].phase
        BY <1>0, <1>c, <3>1, <3>3, QueueSet
      <3>5. asker' = asker /\ accepted' = accepted /\ unheard' = unheard
        BY <1>9, <2>3 DEF Hear
      <3>6. Streams(r)' /\ OnTime(r)'
        BY <1>9, <2>3, <3>4, <3>5 DEF Hear, Listening, Streams, OnTime
      <3>7. ASSUME NEW i \in DOMAIN stream[r].queue, stream[r].queue[i].type = "prompt.response"
            PROVE  i - 1 \in DOMAIN Tail(stream[r].queue)
                   /\ Tail(stream[r].queue)[i - 1] = stream[r].queue[i]
        BY <1>0, <2>3, <3>2, <3>7, TailFacts
      <3>8. Reached(r)'
        BY <3>4, <3>5, <3>7 DEF Listening, Reached
      <3> QED
        BY <3>6, <3>8 DEF Listening
    <2> QED
      BY <2>1, <2>2, <2>3
  <1>10. ASSUME NEW t \in Tab, Mount(t)
       PROVE  Listening(r)'
    <2>1. stream'[r] = stream[r]
      BY <1>0, <1>c, <1>10 DEF Mount
    <2> QED
      BY <1>10, <2>1, ListeningSame DEF Mount
  <1>11. ASSUME NEW t \in Tab, ReadPending(t)
       PROVE  Listening(r)'
    BY <1>0, <1>c, <1>11, ListeningSame, ListeningClosed DEF ReadPending
  <1>12. ASSUME NEW t \in Tab, ApplyPending(t)
       PROVE  Listening(r)'
    BY <1>0, <1>c, <1>12, ListeningSame, ListeningClosed DEF ApplyPending
  <1>13. ASSUME NEW t \in Tab, PendingFails(t)
       PROVE  Listening(r)'
    BY <1>0, <1>c, <1>13, ListeningSame, ListeningClosed DEF PendingFails
  <1>14. ASSUME NEW t \in Tab, Deliver(t)
       PROVE  Listening(r)'
    <2>1. stream' = [stream EXCEPT ![t].queue = Tail(stream[t].queue)] /\ t # r
      BY <1>14, <1>c DEF Deliver
    <2>2. stream'[r] = stream[r]
      BY <1>0, <1>c, <2>1
    <2> QED
      BY <1>14, <2>2, ListeningSame DEF Deliver
  <1>15. ASSUME NEW t \in Tab, NEW q \in Prompt, NEW a \in Answer, Submit(t, q, a)
       PROVE  Listening(r)'
    BY <1>0, <1>c, <1>15, ListeningSame, ListeningClosed DEF Submit
  <1>16. ASSUME NEW p \in posts, Respond(p)
       PROVE  Listening(r)'
    <2> DEFINE event == ResponseOf(p)
    <2>0. p.prompt \in Prompt /\ p.answer \in Answer
      BY <1>0, PostFacts
    <2>1. event \in Event /\ stream' = Published(event)
      BY <1>16, <2>0 DEF Respond, ResponseOf, Event, SessionOf
    <2>2. asker' = asker /\ unheard \subseteq unheard'
      BY <1>16 DEF Respond
    <2>3. stream[r].phase # "live" => stream'[r] = stream[r]
      BY <1>c, <2>1 DEF Published
    <2>4. stream'[r].phase = stream[r].phase
      BY <1>c, <1>t, <2>1, PublishedFacts
    <2>5. \A i \in DOMAIN stream[r].queue :
               i \in DOMAIN stream'[r].queue /\ stream'[r].queue[i] = stream[r].queue[i]
      BY <1>c, <1>t, <2>1, PublishedFacts
    <2>6. Streams(r)'
      BY <2>2, <2>3 DEF Listening, Streams, Closed
    <2>7. CASE r = p.prompt /\ r \in pending
      <3>1. accepted'[r] = p.answer /\ (stream[r].phase # "live" => r \in unheard')
        BY <1>0, <1>16, <2>7 DEF Respond
      <3>2. event.session = r /\ event.type = "prompt.response" /\ event.answer = p.answer
        BY <2>7 DEF ResponseOf, SessionOf
      <3>3. stream[r].phase = "live" => \E i \in DOMAIN stream'[r].queue : stream'[r].queue[i] = event
        BY <1>c, <1>t, <2>1, <3>2, PublishedFacts DEF Matches
      <3>4. OnTime(r)'
        BY <2>2, <2>4, <3>1 DEF OnTime, Listening, Streams, Closed
      <3>5. Reached(r)'
        BY <2>2, <2>4, <3>1, <3>2, <3>3 DEF Reached
      <3> QED
        BY <2>6, <3>4, <3>5 DEF Listening
    <2>8. CASE ~(r = p.prompt /\ r \in pending)
      <3>1. accepted'[r] = accepted[r]
        BY <1>0, <1>16, <2>8 DEF Respond
      <3>2. OnTime(r)'
        BY <2>2, <2>4, <3>1 DEF OnTime, Listening
      <3>3. Reached(r)'
        BY <2>2, <2>4, <2>5, <3>1 DEF Reached, Listening
      <3> QED
        BY <2>6, <3>2, <3>3 DEF Listening
    <2> QED
      BY <2>7, <2>8
  <1>17. ASSUME NEW p \in posts, PostDone(p)
       PROVE  Listening(r)'
    BY <1>0, <1>c, <1>17, ListeningSame, ListeningClosed DEF PostDone
  <1>18. ASSUME NEW p \in posts, PostFails(p)
       PROVE  Listening(r)'
    BY <1>0, <1>c, <1>18, ListeningSame, ListeningClosed DEF PostFails
  <1>19. ASSUME NEW d \in Client, Subscribe(d)
       PROVE  Listening(r)'
    <2>1. CASE r = d
      <3>1. asker[r] = "waiting" /\ (accepted[r] # NoAnswer => r \in unheard)
        BY <1>19, <2>1 DEF Subscribe, Listening, Streams, OnTime, Closed
      <3>2. stream'[r].phase = "live"
        BY <1>0, <1>c, <1>19, <2>1, PhaseSet DEF Subscribe
      <3> QED
        BY <1>19, <3>1, <3>2 DEF Subscribe, Listening, Streams, OnTime, Reached
    <2>2. CASE r # d
      BY <1>0, <1>c, <1>19, <2>2, ListeningSame DEF Subscribe
    <2> QED
      BY <2>1, <2>2
  <1>20. ASSUME NEW d \in Client, Break(d)
       PROVE  Listening(r)'
    <2>1. CASE r = d
      <3>1. stream'[r] = Closed /\ asker[r] # "opening"
        BY <1>0, <1>c, <1>20, <2>1 DEF Break, Broken, Closed, Listening, Streams
      <3> QED
        BY <1>20, <3>1, ListeningClosed DEF Break
    <2> QED
      BY <1>0, <1>c, <1>20, <2>1, ListeningSame DEF Break
  <1>21. ASSUME Restart
       PROVE  Listening(r)'
    <2>1. CASE stream[r].phase = "closed"
      <3>1. stream'[r] = Closed
        BY <1>c, <1>21, <2>1 DEF Restart
      <3> QED
        BY <1>21, <2>1, <3>1 DEF Restart, Closed, Listening, Streams, OnTime, Reached
    <2>2. CASE stream[r].phase # "closed"
      <3>1. asker[r] = "waiting" /\ stream'[r] = Closed
        BY <1>c, <1>21, <2>2 DEF Restart, Broken, Closed, Listening, Streams
      <3> QED
        BY <1>21, <3>1, ListeningClosed DEF Restart
    <2> QED
      BY <2>1, <2>2
  <1>22. CASE UNCHANGED vars
    BY <1>22 DEF vars, server, tab, Listening, Streams, OnTime, Reached
  <1>23. ASSUME NEW d \in Client, Overflow(d)
       PROVE  Listening(r)'
    <2>1. asker' = asker /\ accepted' = accepted
      BY <1>23 DEF Overflow
    <2>2. CASE r # d
      <3>1. stream'[r] = stream[r] /\ unheard \subseteq unheard'
        BY <1>c, <1>t, <1>23, <2>2, OverflowFacts
      <3> QED
        BY <2>1, <3>1, ListeningSame
    <2>3. CASE r = d
      <3>1. stream[r].phase = "live" /\ stream'[r].phase = "live"
        BY <1>t, <1>23, <2>3, OverflowFacts
      <3>2. PICK i \in DOMAIN stream[r].queue :
               /\ \A k \in DOMAIN stream[r].queue :
                    k = i \/ \E j \in DOMAIN stream'[r].queue :
                                stream'[r].queue[j] = stream[r].queue[k]
               /\ unheard' = IF stream[r].queue[i].type = "prompt.response"
                             THEN unheard \cup {r} ELSE unheard
        BY <1>t, <1>23, <2>3, OverflowFacts
      <3>3. Streams(r)' /\ OnTime(r)'
        BY <2>1, <3>1, <3>2 DEF Listening, Streams, OnTime, Closed
      <3>4. Reached(r)'
        <4> SUFFICES ASSUME accepted[r] # NoAnswer, asker[r] = "waiting", r \notin unheard'
                     PROVE  \E j \in DOMAIN stream'[r].queue :
                               /\ stream'[r].queue[j].type = "prompt.response"
                               /\ stream'[r].queue[j].answer = accepted[r]
          BY <2>1 DEF Reached
        <4>1. r \notin unheard /\ stream[r].queue[i].type # "prompt.response"
          BY <3>2
        <4>2. PICK k \in DOMAIN stream[r].queue :
                 /\ stream[r].queue[k].type = "prompt.response"
                 /\ stream[r].queue[k].answer = accepted[r]
          BY <3>1, <4>1 DEF Listening, Reached
        <4>3. PICK j \in DOMAIN stream'[r].queue : stream'[r].queue[j] = stream[r].queue[k]
          BY <3>2, <4>1, <4>2
        <4> QED
          BY <4>2, <4>3
      <3> QED
        BY <3>3, <3>4 DEF Listening
    <2> QED
      BY <2>2, <2>3
  <1> QED
    BY <1>1, <1>2, <1>3, <1>4, <1>5, <1>6, <1>7, <1>8, <1>9, <1>10, <1>11,
       <1>12, <1>13, <1>14, <1>15, <1>16, <1>17, <1>18, <1>19, <1>20,
       <1>21, <1>22, <1>23 DEF Next, AskerStep, TabStep, PostStep

\* An accepted answer is on the stream of the call that waits for it, unless it
\* was given before the stream had been opened (askViaDashboard).
THEOREM AnswersReach == Spec => []AnswerOnItsWay
  <1> DEFINE Inv == Core /\ \A r \in Prompt : Listening(r)
  <1>1. Init => Inv
    <2> SUFFICES ASSUME Init, NEW r \in Prompt PROVE Listening(r)
      BY CoreInit
    <2> QED
      BY DEF Init, Client, Listening, Streams, OnTime, Reached
  <1>2. Inv /\ [Next]_vars => Inv'
    BY CoreStep, ListeningStep
  <1>3. Inv => AnswerOnItsWay
    BY DEF Listening, Reached, AnswerOnItsWay
  <1> QED
    BY <1>1, <1>2, <1>3, PTL DEF Spec

\* What tabs show, are about to show or answer are prompts that have been asked.
Seen ==
    /\ \A t \in Tab : cards[t] \cup reply[t] \subseteq Known
    /\ \A t \in Tab : \A i \in DOMAIN stream[t].queue : stream[t].queue[i].prompt \in Known
    /\ \A p \in posts : p.prompt \in Known

\* What the server has answered, and every response a tab still has to read,
\* concerns a prompt the server no longer holds.
Settled ==
    /\ \A p \in posts : p.done => p.prompt \notin pending
    /\ \A t \in Tab : \A i \in DOMAIN stream[t].queue :
           stream[t].queue[i].type = "prompt.response"
               => stream[t].queue[i].prompt \notin pending

\* A prompt that has been asked does not become pending again.
LEMMA PendingOnce ==
  ASSUME Core, [Next]_vars, NEW x \in Known, x \notin pending
  PROVE  x \notin pending'
  <1> USE DEF Ends, Throws, Accept, server, tab
  <1>1. ASSUME NEW q \in Prompt, Ask(q)
       PROVE  x \notin pending'
    BY <1>1 DEF Ask
  <1>2. ASSUME NEW q \in Prompt, AskFails(q)
       PROVE  x \notin pending'
    BY <1>2 DEF AskFails
  <1>3. ASSUME NEW q \in Prompt, NEW a \in Answer, AskAlone(q, a)
       PROVE  x \notin pending'
    BY <1>3 DEF AskAlone
  <1>4. ASSUME NEW q \in Prompt, Publish(q)
       PROVE  x \notin pending'
    BY <1>4 DEF Publish, Known
  <1>5. ASSUME NEW q \in Prompt, PublishFails(q)
       PROVE  x \notin pending'
    BY <1>5 DEF PublishFails
  <1>6. ASSUME NEW q \in Prompt, OpenStream(q)
       PROVE  x \notin pending'
    BY <1>6 DEF OpenStream
  <1>7. ASSUME NEW q \in Prompt, StreamEnds(q)
       PROVE  x \notin pending'
    BY <1>7 DEF StreamEnds
  <1>8. ASSUME NEW q \in Prompt, TimesOut(q)
       PROVE  x \notin pending'
    BY <1>8 DEF TimesOut
  <1>9. ASSUME NEW q \in Prompt, Hear(q)
       PROVE  x \notin pending'
    BY <1>9 DEF Hear
  <1>10. ASSUME NEW t \in Tab, Mount(t)
       PROVE  x \notin pending'
    BY <1>10 DEF Mount
  <1>11. ASSUME NEW t \in Tab, ReadPending(t)
       PROVE  x \notin pending'
    BY <1>11 DEF ReadPending
  <1>12. ASSUME NEW t \in Tab, ApplyPending(t)
       PROVE  x \notin pending'
    BY <1>12 DEF ApplyPending
  <1>13. ASSUME NEW t \in Tab, PendingFails(t)
       PROVE  x \notin pending'
    BY <1>13 DEF PendingFails
  <1>14. ASSUME NEW t \in Tab, Deliver(t)
       PROVE  x \notin pending'
    BY <1>14 DEF Deliver
  <1>15. ASSUME NEW t \in Tab, NEW q \in Prompt, NEW a \in Answer, Submit(t, q, a)
       PROVE  x \notin pending'
    BY <1>15 DEF Submit
  <1>16. ASSUME NEW p \in posts, Respond(p)
       PROVE  x \notin pending'
    BY <1>16 DEF Respond
  <1>17. ASSUME NEW p \in posts, PostDone(p)
       PROVE  x \notin pending'
    BY <1>17 DEF PostDone
  <1>18. ASSUME NEW p \in posts, PostFails(p)
       PROVE  x \notin pending'
    BY <1>18 DEF PostFails
  <1>19. ASSUME NEW d \in Client, Subscribe(d)
       PROVE  x \notin pending'
    BY <1>19 DEF Subscribe
  <1>20. ASSUME NEW d \in Client, Break(d)
       PROVE  x \notin pending'
    BY <1>20 DEF Break
  <1>21. ASSUME Restart
       PROVE  x \notin pending'
    BY <1>21 DEF Restart
  <1>22. CASE UNCHANGED vars
    BY <1>22 DEF vars, server, tab
  <1>23. ASSUME NEW d \in Client, Overflow(d)
       PROVE  x \notin pending'
    BY <1>23 DEF Overflow
  <1> QED
    BY <1>1, <1>2, <1>3, <1>4, <1>5, <1>6, <1>7, <1>8, <1>9, <1>10, <1>11,
       <1>12, <1>13, <1>14, <1>15, <1>16, <1>17, <1>18, <1>19, <1>20,
       <1>21, <1>22, <1>23 DEF Next, AskerStep, TabStep, PostStep

\* Where the prompts a tab shows come from.
LEMMA CardsStep ==
  ASSUME Core, [Next]_vars, NEW u \in Tab
  PROVE  cards'[u] \cup reply'[u] \subseteq
             cards[u] \cup reply[u] \cup pending
             \cup {stream[u].queue[i].prompt : i \in DOMAIN stream[u].queue}
  <1> USE DEF Ends, Throws, Accept, server, tab
  <1> DEFINE Got == {stream[u].queue[i].prompt : i \in DOMAIN stream[u].queue}
             Goal == cards'[u] \cup reply'[u] \subseteq cards[u] \cup reply[u] \cup pending \cup Got
  <1>k. /\ cards \in [Tab -> SUBSET Prompt] /\ reply \in [Tab -> SUBSET Prompt]
        /\ stream[u].queue \in Seq(Event)
        /\ posts \subseteq Post
    BY DEF Core, TypeOK, Client
  <1> HIDE DEF Got
  <1>1. ASSUME NEW q \in Prompt, Ask(q)
       PROVE  Goal
    BY <1>k, <1>1 DEF Ask
  <1>2. ASSUME NEW q \in Prompt, AskFails(q)
       PROVE  Goal
    BY <1>k, <1>2 DEF AskFails
  <1>3. ASSUME NEW q \in Prompt, NEW a \in Answer, AskAlone(q, a)
       PROVE  Goal
    BY <1>k, <1>3 DEF AskAlone
  <1>4. ASSUME NEW q \in Prompt, Publish(q)
       PROVE  Goal
    BY <1>k, <1>4 DEF Publish
  <1>5. ASSUME NEW q \in Prompt, PublishFails(q)
       PROVE  Goal
    BY <1>k, <1>5 DEF PublishFails
  <1>6. ASSUME NEW q \in Prompt, OpenStream(q)
       PROVE  Goal
    BY <1>k, <1>6 DEF OpenStream
  <1>7. ASSUME NEW q \in Prompt, StreamEnds(q)
       PROVE  Goal
    BY <1>k, <1>7 DEF StreamEnds
  <1>8. ASSUME NEW q \in Prompt, TimesOut(q)
       PROVE  Goal
    BY <1>k, <1>8 DEF TimesOut
  <1>9. ASSUME NEW q \in Prompt, Hear(q)
       PROVE  Goal
    <2>1. cards' = cards /\ reply' = reply
      BY <1>9 DEF Hear
    <2> QED
      BY <2>1
  <1>10. ASSUME NEW t \in Tab, Mount(t)
       PROVE  Goal
    BY <1>k, <1>10 DEF Mount
  <1>11. ASSUME NEW t \in Tab, ReadPending(t)
       PROVE  Goal
    BY <1>k, <1>11 DEF ReadPending
  <1>12. ASSUME NEW t \in Tab, ApplyPending(t)
       PROVE  Goal
    BY <1>k, <1>12 DEF ApplyPending
  <1>13. ASSUME NEW t \in Tab, PendingFails(t)
       PROVE  Goal
    BY <1>k, <1>13 DEF PendingFails
  <1>14. ASSUME NEW t \in Tab, Deliver(t)
       PROVE  Goal
    <2>1. CASE u # t
      BY <1>k, <1>14, <2>1 DEF Deliver
    <2>2. CASE u = t
      <3>1. Head(stream[u].queue).prompt \in Got
        BY <1>k, <1>14, <2>2, TailFacts DEF Deliver, Got
      <3>2. cards'[u] \subseteq cards[u] \cup {Head(stream[u].queue).prompt} /\ reply' = reply
        BY <1>k, <1>14, <2>2 DEF Deliver
      <3> QED
        BY <3>1, <3>2
    <2> QED
      BY <2>1, <2>2
  <1>15. ASSUME NEW t \in Tab, NEW q \in Prompt, NEW a \in Answer, Submit(t, q, a)
       PROVE  Goal
    BY <1>k, <1>15 DEF Submit
  <1>16. ASSUME NEW p \in posts, Respond(p)
       PROVE  Goal
    BY <1>k, <1>16 DEF Respond
  <1>17. ASSUME NEW p \in posts, PostDone(p)
       PROVE  Goal
    <2>1. cards'[u] \subseteq cards[u] /\ reply' = reply
      BY <1>k, <1>17 DEF PostDone
    <2> QED
      BY <2>1
  <1>18. ASSUME NEW p \in posts, PostFails(p)
       PROVE  Goal
    BY <1>k, <1>18 DEF PostFails
  <1>19. ASSUME NEW d \in Client, Subscribe(d)
       PROVE  Goal
    BY <1>k, <1>19 DEF Subscribe
  <1>20. ASSUME NEW d \in Client, Break(d)
       PROVE  Goal
    BY <1>k, <1>20 DEF Break
  <1>21. ASSUME Restart
       PROVE  Goal
    BY <1>k, <1>21 DEF Restart
  <1>22. ASSUME UNCHANGED vars PROVE Goal
    BY <1>22 DEF vars, server, tab
  <1>23. ASSUME NEW d \in Client, Overflow(d)
       PROVE  Goal
    BY <1>k, <1>23 DEF Overflow
  <1> HIDE DEF Goal, Ends, Throws, Accept, server, tab
  <1>z. Goal
    BY <1>1, <1>2, <1>3, <1>4, <1>5, <1>6, <1>7, <1>8, <1>9, <1>10, <1>11,
       <1>12, <1>13, <1>14, <1>15, <1>16, <1>17, <1>18, <1>19, <1>20,
       <1>21, <1>22, <1>23 DEF Next, AskerStep, TabStep, PostStep
  <1> QED
    BY <1>z DEF Goal, Got

\* Where the answers under way come from.
LEMMA PostsStep ==
  ASSUME Core, [Next]_vars, NEW o \in posts'
  PROVE  \/ o \in posts
         \/ ~o.done /\ \E t \in Tab : o.prompt \in cards[t]
         \/ \E p \in posts : Respond(p) /\ o.prompt = p.prompt /\ p.prompt \notin pending'
  <1> USE DEF Ends, Throws, Accept, server, tab
  <1>k. posts \subseteq Post
    BY DEF Core, TypeOK
  <1> DEFINE Goal == \/ o \in posts
                     \/ ~o.done /\ \E t \in Tab : o.prompt \in cards[t]
                     \/ \E p \in posts : Respond(p) /\ o.prompt = p.prompt /\ p.prompt \notin pending'
  <1>1. ASSUME NEW q \in Prompt, Ask(q)
       PROVE  Goal
    BY <1>k, <1>1 DEF Ask
  <1>2. ASSUME NEW q \in Prompt, AskFails(q)
       PROVE  Goal
    BY <1>k, <1>2 DEF AskFails
  <1>3. ASSUME NEW q \in Prompt, NEW a \in Answer, AskAlone(q, a)
       PROVE  Goal
    BY <1>k, <1>3 DEF AskAlone
  <1>4. ASSUME NEW q \in Prompt, Publish(q)
       PROVE  Goal
    BY <1>k, <1>4 DEF Publish
  <1>5. ASSUME NEW q \in Prompt, PublishFails(q)
       PROVE  Goal
    BY <1>k, <1>5 DEF PublishFails
  <1>6. ASSUME NEW q \in Prompt, OpenStream(q)
       PROVE  Goal
    BY <1>k, <1>6 DEF OpenStream
  <1>7. ASSUME NEW q \in Prompt, StreamEnds(q)
       PROVE  Goal
    BY <1>k, <1>7 DEF StreamEnds
  <1>8. ASSUME NEW q \in Prompt, TimesOut(q)
       PROVE  Goal
    BY <1>k, <1>8 DEF TimesOut
  <1>9. ASSUME NEW q \in Prompt, Hear(q)
       PROVE  Goal
    BY <1>k, <1>9 DEF Hear
  <1>10. ASSUME NEW t \in Tab, Mount(t)
       PROVE  Goal
    BY <1>k, <1>10 DEF Mount
  <1>11. ASSUME NEW t \in Tab, ReadPending(t)
       PROVE  Goal
    BY <1>k, <1>11 DEF ReadPending
  <1>12. ASSUME NEW t \in Tab, ApplyPending(t)
       PROVE  Goal
    BY <1>k, <1>12 DEF ApplyPending
  <1>13. ASSUME NEW t \in Tab, PendingFails(t)
       PROVE  Goal
    BY <1>k, <1>13 DEF PendingFails
  <1>14. ASSUME NEW t \in Tab, Deliver(t)
       PROVE  Goal
    BY <1>k, <1>14 DEF Deliver
  <1>15. ASSUME NEW t \in Tab, NEW q \in Prompt, NEW a \in Answer, Submit(t, q, a)
       PROVE  Goal
    BY <1>k, <1>15 DEF Submit
  <1>16. ASSUME NEW p \in posts, Respond(p)
       PROVE  Goal
    <2>1. p \in Post /\ p.prompt \notin pending'
      BY <1>k, <1>16 DEF Respond
    <2>2. o \in posts \/ o.prompt = p.prompt
      BY <1>k, <1>16, <2>1, PostFacts DEF Respond
    <2> QED
      BY <1>16, <2>1, <2>2
  <1>17. ASSUME NEW p \in posts, PostDone(p)
       PROVE  Goal
    BY <1>k, <1>17 DEF PostDone
  <1>18. ASSUME NEW p \in posts, PostFails(p)
       PROVE  Goal
    BY <1>k, <1>18 DEF PostFails
  <1>19. ASSUME NEW d \in Client, Subscribe(d)
       PROVE  Goal
    BY <1>k, <1>19 DEF Subscribe
  <1>20. ASSUME NEW d \in Client, Break(d)
       PROVE  Goal
    BY <1>k, <1>20 DEF Break
  <1>21. ASSUME Restart
       PROVE  Goal
    BY <1>k, <1>21 DEF Restart
  <1>22. ASSUME UNCHANGED vars PROVE Goal
    BY <1>22 DEF vars, server, tab
  <1>23. ASSUME NEW d \in Client, Overflow(d)
       PROVE  Goal
    BY <1>k, <1>23 DEF Overflow
  <1> HIDE DEF Goal, Ends, Throws, Accept, server, tab
  <1>z. Goal
    BY <1>1, <1>2, <1>3, <1>4, <1>5, <1>6, <1>7, <1>8, <1>9, <1>10, <1>11,
       <1>12, <1>13, <1>14, <1>15, <1>16, <1>17, <1>18, <1>19, <1>20,
       <1>21, <1>22, <1>23 DEF Next, AskerStep, TabStep, PostStep
  <1> QED
    BY <1>z DEF Goal

\* Every step keeps Seen and Settled.
LEMMA SeenStep ==
  ASSUME Core, Seen, Settled, [Next]_vars
  PROVE  Seen' /\ Settled'
  <1>a. Known \subseteq Known'
    BY KnownGrows DEF Core
  <1>b. \A t \in Tab : cards'[t] \cup reply'[t] \subseteq Known'
    <2> SUFFICES ASSUME NEW t \in Tab PROVE cards'[t] \cup reply'[t] \subseteq Known
      BY <1>a
    <2>1. {stream[t].queue[i].prompt : i \in DOMAIN stream[t].queue} \subseteq Known
      BY DEF Seen
    <2> QED
      BY <2>1, CardsStep DEF Seen, Core, PendingAsked
  <1>c. ASSUME NEW p \in posts, Respond(p)
        PROVE  p.prompt \in Known' /\ p.prompt \notin pending'
    BY <1>a, <1>c DEF Seen, Respond
  <1>d. ASSUME NEW q \in Prompt, Publish(q)
        PROVE  q \in Known'
    BY <1>d DEF Publish, Known, Core, TypeOK
  <1>e. ASSUME NEW t \in Tab, NEW i \in DOMAIN stream'[t].queue
        PROVE  /\ stream'[t].queue[i].prompt \in Known'
               /\ stream'[t].queue[i].type = "prompt.response"
                    => stream'[t].queue[i].prompt \notin pending'
    <2>0. t \in Client /\ TypeOK
      BY DEF Client, Core
    <2>1. CASE \E j \in DOMAIN stream[t].queue : stream'[t].queue[i] = stream[t].queue[j]
      BY <1>a, <2>1, PendingOnce DEF Seen, Settled
    <2>2. CASE \E q \in Prompt : Publish(q) /\ stream'[t].queue[i] = RequestOf(q)
      BY <1>d, <2>2 DEF RequestOf
    <2>3. CASE \E p \in posts : Respond(p) /\ stream'[t].queue[i] = ResponseOf(p)
      BY <1>c, <2>3 DEF ResponseOf
    <2> QED
      BY <2>0, <2>1, <2>2, <2>3, QueueStep
  <1>f. ASSUME NEW o \in posts'
        PROVE  o.prompt \in Known' /\ (o.done => o.prompt \notin pending')
    <2>1. CASE o \in posts
      BY <1>a, <2>1, PendingOnce DEF Seen, Settled
    <2>2. CASE ~o.done /\ \E t \in Tab : o.prompt \in cards[t]
      BY <1>a, <2>2 DEF Seen
    <2>3. CASE \E p \in posts : Respond(p) /\ o.prompt = p.prompt
      BY <1>c, <2>3
    <2> QED
      BY <2>1, <2>2, <2>3, PostsStep
  <1>g. Seen'
    BY <1>b, <1>e, <1>f DEF Seen
  <1>h. Settled'
    BY <1>e, <1>f DEF Settled
  <1> QED
    BY <1>g, <1>h

\* PendingShown, for one tab.
Shown(u) ==
    boot[u] \in {"replied", "done"} =>
        pending \subseteq cards[u] \cup reply[u] \cup Queued(u, "prompt.request") \cup missed[u]

\* A step that takes nothing away from a tab keeps Shown.
LEMMA ShownSame ==
  ASSUME NEW u \in Tab, Shown(u), boot'[u] = boot[u], stream'[u].queue = stream[u].queue,
         cards[u] \cup reply[u] \subseteq cards'[u] \cup reply'[u], missed[u] \subseteq missed'[u],
         pending' \subseteq pending
  PROVE  Shown(u)'
  BY DEF Shown, Queued

\* Every step keeps Shown: a card goes only for a prompt that is settled.
LEMMA ShownStep ==
  ASSUME Core, Seen, Settled, [Next]_vars, NEW u \in Tab, Shown(u)
  PROVE  Shown(u)'
  <1> USE DEF Ends, Throws, Accept, server, tab
  <1>0. /\ cards \in [Tab -> SUBSET Prompt] /\ reply \in [Tab -> SUBSET Prompt]
        /\ missed \in [Tab -> SUBSET Prompt]
        /\ boot \in [Tab -> {"unmounted", "sent", "replied", "done"}]
        /\ stream \in [Client -> Stream]
        /\ stream[u].queue \in Seq(Event)
        /\ posts \subseteq Post /\ pending \subseteq Prompt
    BY DEF Core, TypeOK, Client, Stream
  <1>c. u \in Client /\ u \notin Prompt /\ TypeOK
    BY PromptsAssumption DEF Client, Core
  <1>1. ASSUME NEW q \in Prompt, Ask(q)
       PROVE  Shown(u)'
    BY <1>0, <1>c, <1>1, ShownSame DEF Ask
  <1>2. ASSUME NEW q \in Prompt, AskFails(q)
       PROVE  Shown(u)'
    BY <1>0, <1>c, <1>2, ShownSame DEF AskFails
  <1>3. ASSUME NEW q \in Prompt, NEW a \in Answer, AskAlone(q, a)
       PROVE  Shown(u)'
    BY <1>0, <1>c, <1>3, ShownSame DEF AskAlone
  <1>4. ASSUME NEW q \in Prompt, Publish(q)
       PROVE  Shown(u)'
    <2>1. stream' = Published(RequestOf(q)) /\ RequestOf(q) \in Event
      BY <1>4 DEF Publish, RequestOf, Event
    <2>2. /\ pending' = pending \cup {q} /\ boot' = boot /\ cards' = cards /\ reply' = reply
          /\ missed'[u] = IF u \in DeafTabs THEN missed[u] \cup {q} ELSE missed[u]
      BY <1>4 DEF Publish
    <2>3. Queued(u, "prompt.request") \subseteq Queued(u, "prompt.request")'
      BY <1>c, <2>1, PublishedFacts DEF Queued
    <2>4. stream[u].phase = "live" => q \in Queued(u, "prompt.request")'
      <3>1. SUFFICES ASSUME stream[u].phase = "live" PROVE q \in Queued(u, "prompt.request")'
        OBVIOUS
      <3>2. \E i \in DOMAIN stream'[u].queue : stream'[u].queue[i] = RequestOf(q)
        BY <1>c, <2>1, <3>1, PublishedFacts DEF Matches
      <3> QED
        BY <3>2 DEF Queued, RequestOf
    <2>5. boot[u] \in {"replied", "done"} => q \in Queued(u, "prompt.request")' \cup missed'[u]
      BY <2>2, <2>4 DEF DeafTabs
    <2> HIDE DEF Queued
    <2> QED
      BY <2>2, <2>3, <2>5 DEF Shown
  <1>5. ASSUME NEW q \in Prompt, PublishFails(q)
       PROVE  Shown(u)'
    BY <1>0, <1>c, <1>5, ShownSame DEF PublishFails
  <1>6. ASSUME NEW q \in Prompt, OpenStream(q)
       PROVE  Shown(u)'
    <2>1. stream'[u] = stream[u]
      BY <1>0, <1>c, <1>6 DEF OpenStream
    <2> QED
      BY <1>6, <2>1, ShownSame DEF OpenStream
  <1>7. ASSUME NEW q \in Prompt, StreamEnds(q)
       PROVE  Shown(u)'
    BY <1>0, <1>c, <1>7, ShownSame DEF StreamEnds
  <1>8. ASSUME NEW q \in Prompt, TimesOut(q)
       PROVE  Shown(u)'
    BY <1>0, <1>c, <1>8, ShownSame DEF TimesOut
  <1>9. ASSUME NEW q \in Prompt, Hear(q)
       PROVE  Shown(u)'
    <2>1. stream'[u] = stream[u]
      BY <1>0, <1>c, <1>9 DEF Hear
    <2>2. UNCHANGED <<boot, cards, reply, missed, pending>>
      BY <1>9 DEF Hear
    <2> QED
      BY <2>1, <2>2, ShownSame
  <1>10. ASSUME NEW t \in Tab, Mount(t)
       PROVE  Shown(u)'
    <2>1. CASE u = t
      BY <1>0, <1>10, <2>1 DEF Mount, Shown
    <2>2. CASE u # t
      <3>1. stream'[u].queue = stream[u].queue
        BY <1>0, <1>c, <1>10, <2>2 DEF Mount
      <3> QED
        BY <1>0, <1>10, <2>2, <3>1, ShownSame DEF Mount
    <2> QED
      BY <2>1, <2>2
  <1>11. ASSUME NEW t \in Tab, ReadPending(t)
       PROVE  Shown(u)'
    <2>1. CASE u = t
      BY <1>0, <1>11, <2>1 DEF ReadPending, Shown
    <2> QED
      BY <1>0, <1>11, <2>1, ShownSame DEF ReadPending
  <1>12. ASSUME NEW t \in Tab, ApplyPending(t)
       PROVE  Shown(u)'
    <2>1. cards[u] \cup reply[u] \subseteq cards'[u] \cup reply'[u]
      BY <1>0, <1>12 DEF ApplyPending
    <2>2. boot[u] \in {"replied", "done"} \/ boot'[u] = boot[u]
      BY <1>0, <1>12 DEF ApplyPending
    <2>3. stream' = stream /\ pending' = pending /\ missed' = missed
      BY <1>12 DEF ApplyPending
    <2> QED
      BY <2>1, <2>2, <2>3 DEF Shown, Queued
  <1>13. ASSUME NEW t \in Tab, PendingFails(t)
       PROVE  Shown(u)'
    <2>1. CASE u = t
      <3>1. missed'[u] = missed[u] \cup ((pending \cup reply[u])
                               \ (cards[u] \cup Queued(u, "prompt.request")))
        BY <1>0, <1>13, <2>1 DEF PendingFails
      <3>2. pending' = pending /\ stream' = stream /\ cards' = cards
        BY <1>13 DEF PendingFails
      <3>3. Queued(u, "prompt.request")' = Queued(u, "prompt.request")
        BY <3>2 DEF Queued
      <3> HIDE DEF Queued
      <3> QED
        BY <3>1, <3>2, <3>3 DEF Shown
    <2>2. CASE u # t
      BY <1>0, <1>13, <2>2, ShownSame DEF PendingFails
    <2> QED
      BY <2>1, <2>2
  <1>14. ASSUME NEW t \in Tab, Deliver(t)
       PROVE  Shown(u)'
    <2>0. stream' = [stream EXCEPT ![t].queue = Tail(stream[t].queue)]
      BY <1>14 DEF Deliver
    <2>1. CASE u # t
      <3>1. stream'[u] = stream[u]
        BY <1>0, <1>c, <2>0, <2>1
      <3> QED
        BY <1>0, <1>14, <2>1, <3>1, ShownSame DEF Deliver
    <2>2. CASE u = t
      <3> DEFINE s == stream[u].queue
      <3>1. s # <<>> /\ s \in Seq(Event)
        BY <1>0, <1>14, <2>2 DEF Deliver
      <3>2. Tail(s) \in Seq(Event) /\ Head(s) = s[1] /\ 1 \in DOMAIN s
            /\ \A i \in DOMAIN s : i = 1 \/ (i - 1 \in DOMAIN Tail(s) /\ Tail(s)[i - 1] = s[i])
        BY <3>1, TailFacts
      <3>3. stream'[u].queue = Tail(s)
        BY <1>0, <1>c, <2>0, <2>2, <3>2, QueueSet
      <3>4. \A x \in Queued(u, "prompt.request") :
              x \in Queued(u, "prompt.request")' \/ (x = s[1].prompt /\ s[1].type = "prompt.request")
        <4> SUFFICES ASSUME NEW i \in DOMAIN s, s[i].type = "prompt.request", i # 1
                     PROVE  s[i].prompt \in Queued(u, "prompt.request")'
          BY DEF Queued
        <4>1. i - 1 \in DOMAIN Tail(s) /\ Tail(s)[i - 1] = s[i]
          BY <3>2
        <4>2. i - 1 \in DOMAIN stream'[u].queue /\ stream'[u].queue[i - 1] = s[i]
          BY <3>3, <4>1
        <4> QED
          BY <4>2 DEF Queued
      <3>5. /\ cards'[u] = IF s[1].type = "prompt.request" THEN cards[u] \cup {s[1].prompt}
                                                         ELSE cards[u] \ {s[1].prompt}
            /\ pending' = pending /\ reply' = reply /\ missed' = missed /\ boot' = boot
        BY <1>0, <1>14, <2>2, <3>2 DEF Deliver
      <3>6. s[1].type # "prompt.request" => s[1].prompt \notin pending
        BY <1>c, <3>2, QueueMember, EventFields DEF Settled
      <3> HIDE DEF s, Queued
      <3> QED
        BY <3>4, <3>5, <3>6 DEF Shown
    <2> QED
      BY <2>1, <2>2
  <1>15. ASSUME NEW t \in Tab, NEW q \in Prompt, NEW a \in Answer, Submit(t, q, a)
       PROVE  Shown(u)'
    BY <1>0, <1>c, <1>15, ShownSame DEF Submit
  <1>16. ASSUME NEW p \in posts, Respond(p)
       PROVE  Shown(u)'
    <2>0. p \in Post
      BY <1>0
    <2>1. ResponseOf(p) \in Event /\ stream' = Published(ResponseOf(p))
      BY <1>16, <2>0, PostFacts DEF Respond, ResponseOf, Event, SessionOf
    <2>2. Queued(u, "prompt.request") \subseteq Queued(u, "prompt.request")'
      BY <1>c, <2>1, PublishedFacts DEF Queued
    <2>3. UNCHANGED <<boot, cards, reply, missed>> /\ pending' \subseteq pending
      BY <1>16 DEF Respond
    <2> HIDE DEF Queued
    <2> QED
      BY <2>2, <2>3 DEF Shown
  <1>17. ASSUME NEW p \in posts, PostDone(p)
       PROVE  Shown(u)'
    <2>1. p.prompt \notin pending
      BY <1>17 DEF PostDone, Settled
    <2>2. cards[u] \subseteq cards'[u] \cup {p.prompt}
      BY <1>0, <1>17 DEF PostDone
    <2>3. UNCHANGED <<boot, stream, reply, missed, pending>>
      BY <1>17 DEF PostDone
    <2> QED
      BY <2>1, <2>2, <2>3 DEF Shown, Queued
  <1>18. ASSUME NEW p \in posts, PostFails(p)
       PROVE  Shown(u)'
    BY <1>0, <1>c, <1>18, ShownSame DEF PostFails
  <1>19. ASSUME NEW d \in Client, Subscribe(d)
       PROVE  Shown(u)'
    <2>1. stream'[u].queue = stream[u].queue
      BY <1>0, <1>c, <1>19, PhaseSet DEF Subscribe
    <2> QED
      BY <1>19, <2>1, ShownSame DEF Subscribe
  <1>20. ASSUME NEW d \in Client, Break(d)
       PROVE  Shown(u)'
    <2>1. /\ UNCHANGED <<boot, cards, reply, pending>>
          /\ missed'[u] = IF u = d THEN missed[u] \cup Queued(d, "prompt.request") ELSE missed[u]
      BY <1>20 DEF Break
    <2>2. CASE u = d
      <3> HIDE DEF Queued
      <3> QED
        BY <2>1, <2>2 DEF Shown
    <2>3. CASE u # d
      <3>1. stream'[u] = stream[u]
        BY <1>0, <1>c, <1>20, <2>3 DEF Break
      <3> QED
        BY <2>1, <2>3, <3>1, ShownSame
    <2> QED
      BY <2>2, <2>3
  <1>21. ASSUME Restart
       PROVE  Shown(u)'
    BY <1>21 DEF Restart, Shown
  <1>22. CASE UNCHANGED vars
    BY <1>22 DEF vars, server, tab, Shown, Queued
  <1>23. ASSUME NEW d \in Client, Overflow(d)
       PROVE  Shown(u)'
    <2>1. UNCHANGED <<boot, cards, reply, pending>>
      BY <1>23 DEF Overflow
    <2>2. CASE u # d
      <3>1. stream'[u] = stream[u]
        BY <1>c, <1>23, <2>2, OverflowFacts
      <3>2. missed'[u] = missed[u]
        BY <1>c, <1>23, <2>2, OverflowFacts
      <3> QED
        BY <2>1, <3>1, <3>2, ShownSame
    <2>3. CASE u = d
      <3>0. PICK i \in DOMAIN stream[u].queue :
               LET event == stream[u].queue[i]
               IN  /\ \A k \in DOMAIN stream[u].queue :
                        k = i \/ \E j \in DOMAIN stream'[u].queue :
                                    stream'[u].queue[j] = stream[u].queue[k]
                   /\ missed' = [t \in Tab |-> IF t = u /\ event.type = "prompt.request"
                                              THEN missed[t] \cup {event.prompt} ELSE missed[t]]
        BY <1>c, <1>23, <2>3, OverflowFacts
      <3>1. /\ \A k \in DOMAIN stream[u].queue :
                  k = i \/ \E j \in DOMAIN stream'[u].queue :
                              stream'[u].queue[j] = stream[u].queue[k]
            /\ missed'[u] = IF stream[u].queue[i].type = "prompt.request"
                            THEN missed[u] \cup {stream[u].queue[i].prompt} ELSE missed[u]
        BY <3>0
      <3>2. Queued(u, "prompt.request") \subseteq
                Queued(u, "prompt.request")' \cup missed'[u]
        <4> SUFFICES ASSUME NEW k \in DOMAIN stream[u].queue,
                            stream[u].queue[k].type = "prompt.request"
                     PROVE  \/ stream[u].queue[k].prompt \in Queued(u, "prompt.request")'
                            \/ stream[u].queue[k].prompt \in missed'[u]
          BY DEF Queued
        <4>1. CASE k = i
          BY <3>1, <4>1
        <4>2. CASE k # i
          <5>1. PICK j \in DOMAIN stream'[u].queue : stream'[u].queue[j] = stream[u].queue[k]
            BY <3>1, <4>2
          <5> QED
            BY <5>1 DEF Queued
        <4> QED
          BY <4>1, <4>2
      <3>3. missed[u] \subseteq missed'[u]
        BY <3>1
      <3> HIDE DEF Queued
      <3> QED
        BY <2>1, <3>2, <3>3 DEF Shown
    <2> QED
      BY <2>2, <2>3
  <1> QED
    BY <1>1, <1>2, <1>3, <1>4, <1>5, <1>6, <1>7, <1>8, <1>9, <1>10, <1>11,
       <1>12, <1>13, <1>14, <1>15, <1>16, <1>17, <1>18, <1>19, <1>20,
       <1>21, <1>22, <1>23 DEF Next, AskerStep, TabStep, PostStep

\* A tab that has read the pending prompts shows each of them or is about to,
\* but for those whose request it has lost (state/prompts.ts).
THEOREM PromptsShown == Spec => []PendingShown
  <1> DEFINE Inv == Core /\ Seen /\ Settled /\ \A u \in Tab : Shown(u)
  <1>1. Init => Inv
    <2> SUFFICES ASSUME Init PROVE Inv
      OBVIOUS
    <2>1. \A t \in Tab : stream[t].queue = <<>> /\ boot[t] = "unmounted"
      BY DEF Init, Client, Closed
    <2>2. Seen /\ Settled
      BY <2>1 DEF Init, Seen, Settled
    <2> QED
      BY <2>1, <2>2, CoreInit DEF Shown
  <1>2. Inv /\ [Next]_vars => Inv'
    BY CoreStep, SeenStep, ShownStep
  <1>3. Inv => PendingShown
    BY DEF Shown, PendingShown
  <1> QED
    BY <1>1, <1>2, <1>3, PTL DEF Spec
=============================================================================
