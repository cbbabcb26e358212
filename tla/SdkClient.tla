----------------------------- MODULE SdkClient -----------------------------
(***************************************************************************)
(* AgentChatClient (agentchat/client.py): connect, the reconnect loop, the *)
(* channel joins and disconnect, over Transport.  connect() and the loop   *)
(* go through the same stages (open the socket, join the user channel,     *)
(* list the conversations, join them, fetch the trust list) and differ in  *)
(* what a failure does to them.  Conversations that appear later are       *)
(* announced on the user channel and joined by coroutines of their own.    *)
(***************************************************************************)
EXTENDS Transport, FiniteSets

CONSTANTS
  Boot, Loop,       \* the callers connect() and _reconnect_loop
  Spawned,          \* the callers _join_conv started for an event
  Convs,            \* conversations
  User,             \* the user channel
  NoConv,
  GiveUp,           \* _AUTH_GIVEUP_AFTER
  MaxErrors         \* bound: connects and listings that fail

ASSUME SdkAssumption ==
  /\ Callers = {Boot, Loop, Ping} \cup Spawned /\ User \notin Convs
  /\ Boot # Loop /\ Ping \notin {Boot, Loop} /\ Spawned \cap {Boot, Loop, Ping} = {}
  /\ GiveUp \in Nat \ {0} /\ MaxErrors \in Nat

VARIABLES
  pc,        \* where each coroutine is
  todo,      \* of connect() and the loop: conversations of the list still to come
  at,        \* the conversation a coroutine is joining
  signal,    \* _disconnect_event: "none" (not created yet), "clear", "set"
  connected, \* _connected
  joined,    \* _joined
  strikes,   \* consecutive_auth_failures
  quit,      \* disconnect(): "no", "closing", "done"
  exited,    \* os._exit(2)
  chans,     \* server: channels joined on this socket
  members,   \* server: conversations of the agent
  news,      \* announcements on the wire
  missed,    \* conversations given up on since the last listing
  errors     \* errors so far

client == <<pc, todo, at>>
flags  == <<signal, connected, strikes, quit, exited>>
server == <<chans, members, news>>
vars   == <<transport, faults, client, flags, joined, server, missed, errors>>

Init ==
  /\ TransportInit
  /\ pc = [x \in Callers |-> IF x = Boot THEN "opening" ELSE "off"]
  /\ todo = [x \in {Boot, Loop} |-> {}]
  /\ at = [x \in Callers |-> NoConv]
  /\ signal = "none" /\ connected = FALSE /\ joined = {}
  /\ strikes = 0 /\ quit = "no" /\ exited = FALSE
  /\ chans = {} /\ news = {} /\ members \in SUBSET Convs
  /\ missed = {} /\ errors = 0

Running == ~exited
Quiescent == \A a \in Spawned : pc[a] = "off"
Resting ==
  /\ pc[Boot] = "done" /\ pc[Loop] = "wait" /\ signal = "clear"
  /\ ws = "open" /\ Quiescent /\ news = {}

----------------------------------------------------------------------------
(* The network and the server (external).                                  *)

Fault ==
  /\ PeerCloses \/ GoesMute
  /\ chans' = {} /\ news' = {}
  /\ UNCHANGED <<client, flags, joined, members, missed, errors>>

\* The topic a caller waits to join.
Topic(x) == IF pc[x] = "user" THEN User ELSE at[x]

Answer(c) ==
  /\ Answered(c)
  /\ chans' = IF c # Ping /\ ws = "open" THEN chans \cup {Topic(c)} ELSE chans
  /\ UNCHANGED <<client, flags, joined, members, news, missed, errors>>

\* No reply in time; a slow server may have joined the channel all the same.
Timeout(c) ==
  /\ TimedOut(c)
  /\ \/ ws = "mute" /\ UNCHANGED <<errors, chans>>
     \/ /\ ws = "open" /\ errors < MaxErrors /\ errors' = errors + 1
        /\ chans' \in IF c = Ping THEN {chans} ELSE {chans, chans \cup {Topic(c)}}
  /\ UNCHANGED <<client, flags, joined, members, news, missed>>

\* A new conversation is announced if the user channel is joined.
NewConversation(c) ==
  /\ c \notin members
  /\ members' = members \cup {c}
  /\ news' = IF User \in chans THEN news \cup {c} ELSE news
  /\ UNCHANGED <<transport, faults, client, flags, joined, chans, missed, errors>>

----------------------------------------------------------------------------
(* The receive loop's callbacks.                                           *)

\* Mutant: announcements are dropped until connect() is through.
AnnouncedOnceReady(a, c) ==
  /\ reader /\ ws = "open" /\ c \in news /\ pc[a] = "off"
  /\ news' = news \ {c}
  /\ pc' = [pc EXCEPT ![a] = IF pc[Boot] = "done" THEN "start" ELSE "off"]
  /\ at' = [at EXCEPT ![a] = IF pc[Boot] = "done" THEN c ELSE NoConv]
  /\ UNCHANGED <<transport, faults, todo, flags, joined, chans, members, missed, errors>>

\* _on_ws_event: _join_conv is spawned, and runs later.
Announced(a, c) ==
  /\ reader /\ ws = "open" /\ c \in news /\ pc[a] = "off"
  /\ news' = news \ {c}
  /\ pc' = [pc EXCEPT ![a] = "start"]
  /\ at' = [at EXCEPT ![a] = c]
  /\ UNCHANGED <<transport, faults, todo, flags, joined, chans, members, missed, errors>>

\* _on_transport_disconnect: nothing to wake before the event exists.
Disconnected ==
  /\ ReaderEnds
  /\ signal' = IF signal = "none" THEN "none" ELSE "set"
  /\ UNCHANGED <<client, connected, strikes, quit, exited, joined, server, missed, errors>>

----------------------------------------------------------------------------
(* connect() and the reconnect loop, x being either.                       *)

\* The next conversation of the list that is not joined yet, or on to trust.
NextConv(x, rest, have) ==
  IF rest \ have = {}
  THEN /\ pc' = [pc EXCEPT ![x] = "trust"]
       /\ todo' = [todo EXCEPT ![x] = {}]
       /\ at' = [at EXCEPT ![x] = NoConv]
       /\ call' = [call EXCEPT ![x] = "idle"]
  ELSE \E c \in rest \ have :
         /\ pc' = [pc EXCEPT ![x] = "convs"]
         /\ todo' = [todo EXCEPT ![x] = rest \ (have \cup {c})]
         /\ at' = [at EXCEPT ![x] = c]
         /\ call' = [call EXCEPT ![x] = Sent]

\* A failed attempt: connect() raises, the loop backs off and tries again.
FailedAs(x) == IF x = Boot THEN "failed" ELSE "backoff"

\* The socket is open; the join of the user channel is sent at once.
Opened(x) ==
  /\ Running /\ pc[x] = "opening"
  /\ Opens /\ call' = [call EXCEPT ![x] = "waiting"]
  /\ pc' = [pc EXCEPT ![x] = "user"]
  /\ connected' = (connected \/ x = Boot)
  /\ chans' = {}
  /\ UNCHANGED <<faults, todo, at, signal, strikes, quit, exited, joined, members,
                 news, missed, errors>>

\* The connection is refused, or the token endpoint has no token for us.
OpenFails(x, auth) ==
  /\ Running /\ pc[x] = "opening" /\ errors < MaxErrors
  /\ errors' = errors + 1
  /\ pc' = [pc EXCEPT ![x] = FailedAs(x)]
  /\ strikes' = IF auth /\ x = Loop THEN strikes + 1 ELSE strikes
  /\ exited' = (strikes' = GiveUp)
  /\ UNCHANGED <<transport, faults, todo, at, signal, connected, quit, joined, server, missed>>

UserJoined(x) ==
  /\ Running /\ pc[x] = "user" /\ Settled(x, "replied")
  /\ pc' = [pc EXCEPT ![x] = "listing"]
  /\ UNCHANGED <<ws, reader, pinger, tries, faults, todo, at, flags, joined, server,
                 missed, errors>>

UserFailed(x) ==
  /\ Running /\ pc[x] = "user" /\ Settled(x, "failed")
  /\ pc' = [pc EXCEPT ![x] = FailedAs(x)]
  /\ UNCHANGED <<ws, reader, pinger, tries, faults, todo, at, flags, joined, server,
                 missed, errors>>

\* The join was cancelled with the socket.  No handler of an Exception sees
\* a CancelledError: connect() raises it, the loop returns for good.
Cancelled(x) ==
  /\ Running /\ pc[x] \in {"user", "convs"} /\ Settled(x, "cancelled")
  /\ pc' = [pc EXCEPT ![x] = IF x = Boot THEN "failed" ELSE "ended"]
  /\ UNCHANGED <<ws, reader, pinger, tries, faults, todo, at, flags, joined, server,
                 missed, errors>>

\* The list is in; what is in `joined` is skipped.
Listed(x) ==
  /\ Running /\ pc[x] = "listing"
  /\ NextConv(x, members, joined)
  /\ missed' = {}
  /\ UNCHANGED <<ws, reader, pinger, tries, faults, flags, joined, server, errors>>

\* connect() logs a failed listing and goes on without.
ListFails(x) ==
  /\ Running /\ pc[x] = "listing" /\ errors < MaxErrors
  /\ errors' = errors + 1
  /\ pc' = [pc EXCEPT ![x] = IF x = Boot THEN "trust" ELSE "backoff"]
  /\ missed' = IF x = Boot THEN members ELSE missed
  /\ UNCHANGED <<transport, faults, todo, at, flags, joined, server>>

ConvJoined(x) ==
  /\ Running /\ pc[x] = "convs" /\ call[x] = "replied"
  /\ joined' = joined \cup {at[x]}
  /\ NextConv(x, todo[x], joined')
  /\ UNCHANGED <<ws, reader, pinger, tries, faults, flags, server, missed, errors>>

\* A join that fails is logged and given up.
ConvFailed(x) ==
  /\ Running /\ pc[x] = "convs" /\ call[x] = "failed"
  /\ missed' = missed \cup {at[x]}
  /\ NextConv(x, todo[x], joined)
  /\ UNCHANGED <<ws, reader, pinger, tries, faults, flags, joined, server, errors>>

\* refresh_trust swallows its errors; connect() now creates event and loop.
BootDone ==
  /\ Running /\ pc[Boot] = "trust"
  /\ signal' = "clear"
  /\ pc' = [pc EXCEPT ![Boot] = "done", ![Loop] = "start"]
  /\ UNCHANGED <<transport, faults, todo, at, connected, strikes, quit, exited, joined,
                 server, missed, errors>>

\* Top of the loop: clear the event, then wait for it.
Rest(from) ==
  /\ Running /\ pc[Loop] = from
  /\ pc' = [pc EXCEPT ![Loop] = IF connected THEN "wait" ELSE "ended"]
  /\ signal' = IF connected THEN "clear" ELSE signal
  /\ strikes' = 0
  /\ UNCHANGED <<transport, faults, todo, at, connected, quit, exited, joined, server,
                 missed, errors>>

Wakes ==
  /\ Running /\ pc[Loop] = "wait" /\ signal = "set"
  /\ pc' = [pc EXCEPT ![Loop] = IF connected THEN "backoff" ELSE "ended"]
  /\ UNCHANGED <<transport, faults, todo, at, flags, joined, server, missed, errors>>

\* The sleep is seconds long: coroutines that were ready have run by then.
Ready(a) == pc[a] = "start" \/ (pc[a] = "joining" /\ call[a] # "waiting")
BackoffOver ==
  /\ Running /\ pc[Loop] = "backoff" /\ \A a \in Spawned : ~Ready(a)
  /\ \/ /\ DisconnectIdle
        /\ pc' = [pc EXCEPT ![Loop] = "opening"]
        /\ joined' = {}
     \/ /\ DisconnectBegins
        /\ pc' = [pc EXCEPT ![Loop] = "closing"]
        /\ UNCHANGED joined
  /\ chans' = {} /\ news' = {}
  /\ UNCHANGED <<todo, at, flags, members, missed, errors>>

\* Mutant: the old set of joined conversations survives the reconnect.
KeepsJoined ==
  /\ Running /\ pc[Loop] = "closing"
  /\ DisconnectEnds
  /\ pc' = [pc EXCEPT ![Loop] = "opening"]
  /\ UNCHANGED <<todo, at, flags, joined, server, missed, errors>>

ClosedOld ==
  /\ Running /\ pc[Loop] = "closing"
  /\ DisconnectEnds
  /\ pc' = [pc EXCEPT ![Loop] = "opening"]
  /\ joined' = {}
  /\ UNCHANGED <<todo, at, flags, server, missed, errors>>

----------------------------------------------------------------------------
(* _join_conv in a coroutine of its own.                                   *)

JoinStarts(a) ==
  /\ Running /\ pc[a] = "start"
  /\ IF at[a] \in joined
     THEN pc' = [pc EXCEPT ![a] = "off"] /\ at' = [at EXCEPT ![a] = NoConv]
          /\ UNCHANGED call
     ELSE pc' = [pc EXCEPT ![a] = "joining"] /\ Ask(a) /\ UNCHANGED at
  /\ UNCHANGED <<ws, reader, pinger, tries, faults, todo, flags, joined, server, missed, errors>>

JoinEnds(a, how) ==
  /\ Running /\ pc[a] = "joining" /\ Settled(a, how)
  /\ pc' = [pc EXCEPT ![a] = "off"]
  /\ at' = [at EXCEPT ![a] = NoConv]
  /\ joined' = IF how = "replied" THEN joined \cup {at[a]} ELSE joined
  /\ missed' = IF how = "failed" THEN missed \cup {at[a]} ELSE missed
  /\ UNCHANGED <<ws, reader, pinger, tries, faults, todo, flags, server, errors>>

----------------------------------------------------------------------------
(* disconnect(), called by the application once it is connected.           *)

Quit ==
  /\ Running /\ quit = "no" /\ pc[Boot] = "done"
  /\ connected' = FALSE
  /\ \/ DisconnectIdle /\ joined' = {} /\ quit' = "done"
     \/ DisconnectBegins /\ UNCHANGED joined /\ quit' = "closing"
  /\ pc' = [pc EXCEPT ![Loop] = "ended"]
  /\ chans' = {} /\ news' = {}
  /\ UNCHANGED <<todo, at, signal, strikes, exited, members, missed, errors>>

QuitEnds ==
  /\ quit = "closing"
  /\ DisconnectEnds
  /\ joined' = {} /\ quit' = "done"
  /\ UNCHANGED <<client, signal, connected, strikes, exited, server, missed, errors>>

Pings == Running /\ PingStep
         /\ UNCHANGED <<client, flags, joined, server, missed, errors>>

----------------------------------------------------------------------------
Stage(x) ==
  \/ Opened(x) \/ \E auth \in BOOLEAN : OpenFails(x, auth)
  \/ UserJoined(x) \/ UserFailed(x) \/ Cancelled(x)
  \/ Listed(x) \/ ListFails(x) \/ ConvJoined(x) \/ ConvFailed(x)

LoopStep == Rest("start") \/ Rest("trust") \/ Wakes \/ BackoffOver \/ ClosedOld

JoinStep(a) == JoinStarts(a) \/ \E how \in {"replied", "failed", "cancelled"} : JoinEnds(a, how)

Next ==
  \/ Fault \/ \E c \in Callers : Answer(c) \/ Timeout(c)
  \/ \E c \in Convs : NewConversation(c) \/ \E a \in Spawned : Announced(a, c)
  \/ Disconnected \/ Pings
  \/ \E x \in {Boot, Loop} : Stage(x)
  \/ BootDone \/ LoopStep
  \/ \E a \in Spawned : JoinStep(a)
  \/ Quit \/ QuitEnds

Spec == Init /\ [][Next]_vars

\* The event loop runs every coroutine that is ready, sleeps and wait_for's
\* timeouts end, and a socket that is not mute answers.
Fairness ==
  /\ \A c \in Callers : WF_vars(Answer(c) \/ Timeout(c))
  /\ \A c \in Convs : WF_vars(\E a \in Spawned : Announced(a, c))
  /\ WF_vars(Disconnected) /\ WF_vars(Pings) /\ WF_vars(LoopStep)
  /\ \A x \in {Boot, Loop} : WF_vars(Stage(x))
  /\ WF_vars(BootDone) /\ WF_vars(QuitEnds)
  /\ \A a \in Spawned : WF_vars(JoinStep(a))

FairSpec == Spec /\ Fairness

----------------------------------------------------------------------------
TypeOK ==
  /\ TransportTypeOK
  /\ pc \in [Callers -> {"off", "start", "opening", "user", "listing", "convs", "trust",
                         "done", "failed", "wait", "backoff", "closing", "ended", "joining"}]
  /\ todo \in [{Boot, Loop} -> SUBSET Convs] /\ at \in [Callers -> Convs \cup {NoConv}]
  /\ signal \in {"none", "clear", "set"} /\ connected \in BOOLEAN
  /\ joined \subseteq Convs /\ strikes \in 0..GiveUp
  /\ quit \in {"no", "closing", "done"} /\ exited \in BOOLEAN
  /\ chans \subseteq Convs \cup {User} /\ members \subseteq Convs /\ news \subseteq members
  /\ missed \subseteq Convs /\ errors \in 0..MaxErrors

\* Nobody waits for a reply that no receive loop is there to read, except
\* while the socket is being closed, which cancels the call.
NoOrphanCall ==
  \A c \in Callers :
    call[c] = "waiting" => reader \/ pc[Loop] = "closing" \/ quit = "closing"

\* While the socket is up, what the client takes for joined is joined.
JoinedIsLive == ws = "open" => joined \subseteq chans

\* A client at rest listens to every conversation of the agent, however the
\* listing and the announcements interleaved, unless a join was given up.
NoConversationMissed == Resting => members \subseteq joined \cup missed

\* The client's view of its channels is the server's, and it is whole.
JoinsExact == TypeOK /\ JoinedIsLive /\ NoConversationMissed

\* The reconnect loop of a connected client has returned: a socket lost under
\* its own join cancels it.
LoopDead == pc[Loop] = "ended" /\ connected

\* A loop that waits on a dead socket has the event set to wake it up.
NoLostWakeup == pc[Loop] = "wait" /\ ws = "none" /\ connected => signal = "set"

\* A connected client that lost its socket, closed or silently dead, gets the
\* user channel back, unless the application disconnects or the process exits
\* for its credentials.  There are two ways to fail, and no third: the loop has
\* been cancelled, or its wake-up was lost.
Up == ws = "open" /\ User \in chans
Recovers ==
  [](pc[Boot] = "done" /\ connected
       => <>(Up \/ ~connected \/ exited \/ LoopDead \/ ~NoLostWakeup))
=============================================================================
