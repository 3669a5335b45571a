---------------------------- MODULE ChatSessions ----------------------------
(***************************************************************************)
(* Chat sessions of the dashboard.  A turn, one POST /api/chat, looks its   *)
(* session up in a registry by chat id and by provider and model, or        *)
(* creates one and registers it; the registry disposes of a session that is *)
(* replaced, unused for ten minutes, or left at shutdown.  Turns interleave *)
(* wherever they await.                                                     *)
(***************************************************************************)
EXTENDS FiniteSets

CONSTANTS
    Turn,     \* POSTs; a session is named for the turn that creates it
    Chat,     \* chat_session_id
    Binding,  \* provider and model, as the user selects them
    Nobody

ASSUME ChatAssumption == Nobody \notin Turn /\ Binding # {}

VARIABLES
    selected,  \* what config.json says
    pc,        \* pc[t]: where the turn is
    chat,      \* chat[t]: its chat id
    binding,   \* binding[t]: the selection it has read
    uses,      \* uses[t]: its session
    open,      \* sessions that are created and not disposed of
    bound,     \* bound[s]: what the session was created with
    registry,  \* registry[ch]: the registered session
    stale,     \* chats whose session has not been looked up for ttlMs
    closed

turns == <<pc, chat, binding, uses>>
sessions == <<open, bound, registry, stale, closed>>
chatVars == <<selected, turns, sessions>>
-----------------------------------------------------------------------------
ChatInit ==
    /\ selected \in Binding
    /\ pc = [t \in Turn |-> "idle"]
    /\ chat \in [Turn -> Chat]
    /\ binding = [t \in Turn |-> selected]
    /\ uses = [t \in Turn |-> Nobody]
    /\ open = {}
    /\ bound = [t \in Turn |-> selected]
    /\ registry = [ch \in Chat |-> Nobody]
    /\ stale = {}
    /\ closed = FALSE

Goto(t, label) == pc' = [pc EXCEPT ![t] = label]

\* The Provider and Model menus write config.json.
SelectBinding ==
    /\ selected' \in Binding \ {selected}
    /\ UNCHANGED <<turns, sessions>>

(* One turn *)

\* resolveActiveProvider reads config.json, and getMatching follows at once.
Begin(t) ==
    /\ pc[t] = "idle"
    /\ binding' = [binding EXCEPT ![t] = selected]
    /\ UNCHANGED <<selected, chat, bound, closed>>

Matches(t) ==
    IF registry[chat[t]] = Nobody THEN FALSE ELSE bound[registry[chat[t]]] = selected

\* Seeded fault: any session of the chat will do.
ReuseUnmatched(t) ==
    /\ registry[chat[t]] # Nobody
    /\ Begin(t)
    /\ Goto(t, "starting")
    /\ uses' = [uses EXCEPT ![t] = registry[chat[t]]]
    /\ stale' = stale \ {chat[t]}
    /\ UNCHANGED <<open, registry>>

Reuse(t) ==
    /\ Matches(t)
    /\ Begin(t)
    /\ Goto(t, "starting")
    /\ uses' = [uses EXCEPT ![t] = registry[chat[t]]]
    /\ stale' = stale \ {chat[t]}
    /\ UNCHANGED <<open, registry>>

\* A session that does not match is disposed of and forgotten.
Miss(t) ==
    /\ ~Matches(t)
    /\ Begin(t)
    /\ Goto(t, "credential")
    /\ open' = open \ {registry[chat[t]]}
    /\ registry' = [registry EXCEPT ![chat[t]] = Nobody]
    /\ stale' = stale \ {chat[t]}
    /\ UNCHANGED uses

\* No provider is configured: chat.error and chat.complete.
Refuse(t) ==
    /\ Begin(t)
    /\ Goto(t, "done")
    /\ UNCHANGED <<uses, open, registry, stale>>

Credential(t) ==
    /\ pc[t] = "credential"
    /\ Goto(t, "creating") \/ Goto(t, "done")
    /\ UNCHANGED <<selected, chat, binding, uses, sessions>>

\* Seeded fault: the session that was registered meanwhile is just replaced.
ReplacedKept(t) == open \cup {t}

\* What is open when registry.set has replaced a session of another turn.
Replaced(t) == (open \cup {t}) \ {registry[chat[t]]}

\* createSession, and registry.set
Create(t) ==
    /\ pc[t] = "creating"
    /\ ~closed
    /\ Goto(t, "starting")
    /\ uses' = [uses EXCEPT ![t] = t]
    /\ open' = Replaced(t)
    /\ bound' = [bound EXCEPT ![t] = binding[t]]
    /\ registry' = [registry EXCEPT ![chat[t]] = t]
    /\ stale' = stale \ {chat[t]}
    /\ UNCHANGED <<selected, chat, binding, closed>>

\* After close, set throws and nobody disposes of the session.
CreateClosed(t) ==
    /\ pc[t] = "creating"
    /\ closed
    /\ Goto(t, "threw")
    /\ open' = open \cup {t}
    /\ bound' = [bound EXCEPT ![t] = binding[t]]
    /\ UNCHANGED <<selected, chat, binding, uses, registry, stale, closed>>

\* There is no catch: the stream ends with neither chat.error nor chat.complete.
CreateFails(t) ==
    /\ pc[t] = "creating"
    /\ Goto(t, "failed")
    /\ UNCHANGED <<selected, chat, binding, uses, sessions>>

\* chat.start is written, awaited, and the prompt begins: perhaps on a session
\* that was disposed of meanwhile.
Start(t) ==
    /\ pc[t] = "starting"
    /\ Goto(t, "prompting")
    /\ UNCHANGED <<selected, chat, binding, uses, sessions>>

\* The prompt resolves or throws; chat.complete.
PromptEnds(t) ==
    /\ pc[t] = "prompting"
    /\ Goto(t, "done")
    /\ UNCHANGED <<selected, chat, binding, uses, sessions>>

(* The registry *)

\* ttlMs since the last lookup, whatever the session is doing.
Age(ch) ==
    /\ registry[ch] # Nobody
    /\ ch \notin stale
    /\ stale' = stale \cup {ch}
    /\ UNCHANGED <<selected, turns, open, bound, registry, closed>>

Sweep ==
    /\ ~closed
    /\ stale # {}
    /\ open' = open \ {registry[ch] : ch \in stale}
    /\ registry' = [ch \in Chat |-> IF ch \in stale THEN Nobody ELSE registry[ch]]
    /\ stale' = {}
    /\ UNCHANGED <<selected, turns, bound, closed>>

Close ==
    /\ ~closed
    /\ closed' = TRUE
    /\ open' = open \ {registry[ch] : ch \in Chat}
    /\ registry' = [ch \in Chat |-> Nobody]
    /\ stale' = {}
    /\ UNCHANGED <<selected, turns, bound>>
-----------------------------------------------------------------------------
TurnStep(t) ==
    \/ Reuse(t) \/ Miss(t) \/ Refuse(t) \/ Credential(t) \/ Create(t) \/ CreateClosed(t)
    \/ CreateFails(t) \/ Start(t) \/ PromptEnds(t)

ChatNext ==
    \/ \E t \in Turn : TurnStep(t)
    \/ \E ch \in Chat : Age(ch)
    \/ SelectBinding \/ Sweep \/ Close

ChatSpec == ChatInit /\ [][ChatNext]_chatVars
-----------------------------------------------------------------------------
\* However turns that create, reuse, replace and sweep the sessions of a chat
\* interleave, an open session is one the registry will dispose of, but for
\* one that comes after close(), which nobody holds (ChatSessionRegistry).
SessionsAccounted ==
    /\ \A s \in open : registry[chat[s]] = s \/ pc[s] = "threw"
    /\ \A ch \in Chat : registry[ch] # Nobody => registry[ch] \in open /\ chat[registry[ch]] = ch

\* A turn talks to the provider and the model that were selected when it
\* began, also when the user has switched since an earlier turn, or while two
\* turns were creating a session for the same chat (getMatching).
BindingHonoured ==
    \A t \in Turn :
        pc[t] \in {"starting", "prompting"} =>
            uses[t] # Nobody /\ bound[uses[t]] = binding[t] /\ chat[uses[t]] = chat[t]
=============================================================================
