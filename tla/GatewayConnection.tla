------------------------- MODULE GatewayConnection -------------------------
(***************************************************************************)
(* The executor process around its gateway (agentchat/executor.py): start, *)
(* the WebSocket gateway loop, the heartbeat loop, stop and run, over      *)
(* Transport.  Each pass of the gateway loop has a transport of its own,   *)
(* and disconnects it before the next pass, so one transport is enough.    *)
(* The server is external: registrations, queued rows, the bound channel.  *)
(***************************************************************************)
EXTENDS Transport, FiniteSets

CONSTANTS
  Loop,          \* the caller _ws_gateway_loop
  Sig, Cmd, Beat, \* who calls stop(): the signal handler, a pushed shutdown
                 \* command, the heartbeat loop on a shutdown in its reply
  Rows,          \* bound: queue rows that appear
  MaxErrors,     \* bound: HTTP calls, connects and joins that fail
  MaxStops       \* bound: calls of stop()

ASSUME ConnectionAssumption ==
  /\ Callers = {Loop, Ping} /\ Loop # Ping
  /\ Sig # Cmd /\ Beat \notin {Sig, Cmd}
  /\ MaxErrors \in Nat /\ MaxStops \in Nat

Stoppers == {Sig, Cmd, Beat}

VARIABLES
  pc,        \* of start() and the gateway loop
  beat,      \* of the heartbeat loop: "off", "sleep", "post", "stop", "ended"
  st,        \* of each stop(): "off", "closing", "delete", "done"
  running,   \* _running
  healthy,   \* _ws_healthy
  published, \* _ws_transport is the transport of this pass
  enrolled,  \* _executor_id is known
  proc,      \* the process: "up", "exited"
  reg,       \* server: this process holds the executor row
  bound,     \* server: the user channel is joined for this executor
  queued,    \* server: rows waiting for a catchup
  made,      \* rows that have appeared
  soft,      \* the catchup of this connection failed
  orderly,   \* history: every stop() so far found the loop polling, and no
             \* heartbeat fell between its call and its DELETE
  errors

own    == <<pc, beat, st>>
flags  == <<running, healthy, published, enrolled, proc>>
server == <<reg, bound, queued, made, soft>>
vars   == <<transport, faults, own, flags, server, orderly, errors>>
loops  == <<reader, pinger, tries, faults>>

Init ==
  /\ TransportInit
  /\ pc = "register" /\ beat = "off" /\ st = [s \in Stoppers |-> "off"]
  /\ running = TRUE /\ healthy = FALSE /\ published = FALSE /\ enrolled = FALSE
  /\ proc = "up"
  /\ reg = FALSE /\ bound = FALSE /\ queued = {} /\ made = {} /\ soft = FALSE
  /\ orderly = TRUE /\ errors = 0

Up == proc = "up"
Error == errors < MaxErrors /\ errors' = errors + 1

----------------------------------------------------------------------------
(* The network and the server (external).                                  *)

Fault ==
  /\ Up
  /\ PeerCloses \/ GoesMute
  /\ bound' = FALSE
  /\ UNCHANGED <<own, flags, reg, queued, made, soft, errors, orderly>>

\* A join binds the executor; a catchup pushes what is queued, then replies.
Answer(c) ==
  /\ Up /\ Answered(c)
  /\ bound' = (bound \/ (c = Loop /\ pc = "joining" /\ ws = "open"))
  /\ queued' = IF c = Loop /\ pc = "catchup" THEN {} ELSE queued
  /\ UNCHANGED <<own, flags, reg, made, soft, errors, orderly>>

Timeout(c) ==
  /\ Up /\ TimedOut(c)
  /\ \/ ws = "mute" /\ UNCHANGED errors
     \/ ws = "open" /\ Error
  /\ UNCHANGED <<own, flags, server, orderly>>

\* A new row is pushed to a bound executor and queued otherwise.
NewRow(r) ==
  /\ r \notin made /\ made' = made \cup {r}
  /\ queued' = IF bound THEN queued ELSE queued \cup {r}
  /\ UNCHANGED <<transport, faults, own, flags, reg, bound, soft, errors, orderly>>

----------------------------------------------------------------------------
(* start(): register, then the two loops under gather.                     *)

\* Registration is one POST; it may fail with the server having done it, and
\* does so when a stop() closes its HTTP client.
Registered ==
  /\ Up /\ pc = "register"
  /\ enrolled' = TRUE /\ reg' = TRUE
  /\ pc' = "pause" /\ beat' = IF running THEN "sleep" ELSE "ended"
  /\ UNCHANGED <<transport, faults, st, running, healthy, published, proc,
                 bound, queued, made, soft, errors, orderly>>

RegisterFails ==
  /\ Up /\ pc = "register"
  /\ \/ Error
     \/ (\E s \in Stoppers : st[s] = "done") /\ UNCHANGED errors
  /\ pc' = "raised" /\ reg' \in BOOLEAN
  /\ UNCHANGED <<transport, faults, beat, st, flags, bound, queued, made, soft, orderly>>

\* gather returns with both loops, or at the first exception; run() then ends
\* the process, whatever other tasks are still at work.
Exits ==
  /\ Up
  /\ \/ pc = "raised"
     \/ pc = "ended" /\ beat = "ended"
  /\ proc' = "exited"
  /\ UNCHANGED <<transport, faults, own, running, healthy, published, enrolled, server, errors, orderly>>

----------------------------------------------------------------------------
(* _ws_gateway_loop.                                                       *)

\* Mutant: another pass in any case.
TopAnyway == "opening"

\* `while self._running`: another pass with a fresh transport, or the end.
Top == IF running THEN "opening" ELSE "ended"

LoopTop ==
  /\ Up /\ pc \in {"pause", "backoff"}
  /\ pc' = Top /\ soft' = FALSE
  /\ UNCHANGED <<transport, faults, beat, st, flags, reg, bound, queued, made, errors, orderly>>

\* disconnect() on this pass's transport, at once or through stage `next`.
Disconnects(next, after) ==
  /\ bound' = FALSE
  /\ \/ DisconnectIdle /\ pc' = after /\ published' = FALSE
     \/ DisconnectBegins /\ pc' = next /\ UNCHANGED published

\* `except Exception`, and a CancelledError while still running.
Retry ==
  /\ healthy' = FALSE /\ Disconnects("cleanup", "backoff")

\* The pass is over: the finally disconnects unless stop() took the transport.
Leave ==
  /\ healthy' = FALSE
  /\ \/ published /\ Disconnects("closing", Top)
     \/ ~published /\ pc' = Top /\ UNCHANGED <<transport, faults, published, bound>>

\* `while self._running and transport.connected`.
Polls ==
  IF running /\ Connected
  THEN pc' = "polling" /\ UNCHANGED <<ws, loops, healthy, published, bound>>
       /\ call' = [call EXCEPT ![Loop] = "idle"]
  ELSE Leave

Opened ==
  /\ Up /\ pc = "opening"
  /\ Opens /\ call' = [call EXCEPT ![Loop] = "waiting"]
  /\ pc' = "joining"
  /\ UNCHANGED <<faults, beat, st, flags, server, errors, orderly>>

OpenFails ==
  /\ Up /\ pc = "opening" /\ Error
  /\ Retry
  /\ UNCHANGED <<beat, st, running, enrolled, proc, reg, queued, made, soft, orderly>>

\* The reply is in: publish the transport and push catchup.  On a socket that
\* closed meanwhile the push raises, which is soft, and the pass is over.
Joined ==
  /\ Up /\ pc = "joining" /\ call[Loop] = "replied"
  /\ IF Connected
     THEN /\ pc' = "catchup" /\ published' = TRUE /\ healthy' = TRUE
          /\ call' = [call EXCEPT ![Loop] = "waiting"]
          /\ UNCHANGED <<ws, loops, bound>>
     ELSE /\ healthy' = FALSE
          /\ Disconnects("closing", Top)
  /\ UNCHANGED <<beat, st, running, enrolled, proc, reg, queued, made, soft, errors, orderly>>

JoinFails ==
  /\ Up /\ pc = "joining" /\ call[Loop] = "failed"
  /\ Retry
  /\ UNCHANGED <<beat, st, running, enrolled, proc, reg, queued, made, soft, errors, orderly>>

\* Mutant: the loop does not wait for the catchup.
CatchupSkipped ==
  /\ Up /\ pc = "catchup"
  /\ Polls
  /\ UNCHANGED <<beat, st, running, enrolled, proc, reg, queued, made, soft, errors, orderly>>

CaughtUp ==
  /\ Up /\ pc = "catchup" /\ call[Loop] \in {"replied", "failed"}
  /\ Polls
  /\ soft' = (call[Loop] = "failed")
  /\ UNCHANGED <<beat, st, running, enrolled, proc, reg, queued, made, errors, orderly>>

\* Mutant: a call cancelled with its socket ends the loop.
CancelledRaised ==
  /\ Up /\ pc \in {"joining", "catchup"} /\ call[Loop] = "cancelled"
  /\ pc' = "raised"
  /\ UNCHANGED <<transport, faults, beat, st, flags, server, errors, orderly>>

\* The socket was closed under the call.  Only a loop that is to stop raises.
Cancelled ==
  /\ Up /\ pc \in {"joining", "catchup"} /\ call[Loop] = "cancelled"
  /\ \/ running /\ Retry
     \/ ~running /\ pc' = "raised" /\ UNCHANGED <<transport, faults, healthy, published, bound>>
  /\ UNCHANGED <<beat, st, running, enrolled, proc, reg, queued, made, soft, errors, orderly>>

PollEnds ==
  /\ Up /\ pc = "polling" /\ ~(running /\ Connected)
  /\ Leave
  /\ UNCHANGED <<beat, st, running, enrolled, proc, reg, queued, made, soft, errors, orderly>>

Closed ==
  /\ Up /\ pc \in {"closing", "cleanup"}
  /\ DisconnectEnds /\ published' = FALSE
  /\ pc' = IF pc = "closing" THEN Top ELSE "backoff"
  /\ UNCHANGED <<beat, st, running, healthy, enrolled, proc, server, errors, orderly>>

\* Mutant: the disconnect callback does not reach the flag.
DisconnectUnnoticed ==
  /\ Up /\ ReaderEnds
  /\ UNCHANGED <<own, flags, server, errors, orderly>>

\* _on_ws_disconnect.
Disconnected ==
  /\ Up /\ ReaderEnds
  /\ healthy' = FALSE
  /\ UNCHANGED <<own, running, published, enrolled, proc, server, errors, orderly>>

Pings == Up /\ PingStep /\ UNCHANGED <<own, flags, server, errors, orderly>>

----------------------------------------------------------------------------
(* _heartbeat_loop.                                                        *)

Stopping == \E s \in Stoppers : st[s] \in {"closing", "delete"}

BeatWakes ==
  /\ Up /\ beat = "sleep"
  /\ beat' = IF running THEN "post" ELSE "ended"
  /\ orderly' = (orderly /\ ~Stopping)
  /\ UNCHANGED <<transport, faults, pc, st, flags, server, errors>>

\* A failed heartbeat is counted and forgotten.
BeatPosted ==
  /\ Up /\ beat = "post"
  /\ beat' = IF running THEN "sleep" ELSE "ended"
  /\ UNCHANGED <<transport, faults, pc, st, flags, server, errors, orderly>>

BeatStopped ==
  /\ Up /\ beat = "stop" /\ st[Beat] = "done"
  /\ beat' = "ended"
  /\ UNCHANGED <<transport, faults, pc, st, flags, server, errors, orderly>>

----------------------------------------------------------------------------
(* stop(), by the signal handler, a pushed command or the heartbeat reply. *)

Reachable(s) == CASE s = Sig -> TRUE [] s = Cmd -> bound [] s = Beat -> beat = "post"

\* Up to the first await: the socket's close, or the DELETE.  Without an
\* executor id there is nothing to delete.
StopBegins(s) ==
  /\ Up /\ st[s] = "off" /\ Reachable(s)
  /\ Cardinality({x \in Stoppers : st[x] # "off"}) < MaxStops
  /\ orderly' = (orderly /\ pc = "polling" /\ (s = Beat \/ beat # "post"))
  /\ running' = FALSE /\ healthy' = FALSE
  /\ beat' = IF s = Beat THEN "stop" ELSE beat
  /\ \/ /\ published /\ DisconnectBegins /\ bound' = FALSE
        /\ st' = [st EXCEPT ![s] = "closing"] /\ UNCHANGED published
     \/ /\ published /\ DisconnectIdle /\ bound' = FALSE
        /\ st' = [st EXCEPT ![s] = "delete"] /\ published' = FALSE
     \/ /\ ~published
        /\ st' = [st EXCEPT ![s] = IF enrolled THEN "delete" ELSE "done"]
        /\ UNCHANGED <<transport, faults, published, bound>>
  /\ UNCHANGED <<pc, enrolled, proc, reg, queued, made, soft, errors>>

StopClosed(s) ==
  /\ Up /\ st[s] = "closing"
  /\ DisconnectEnds
  /\ published' = FALSE
  /\ st' = [st EXCEPT ![s] = "delete"]
  /\ UNCHANGED <<pc, beat, running, healthy, enrolled, proc, server, errors, orderly>>

\* Mutant: stop() returns without taking the registration back.
StopSkipsDelete(s) ==
  /\ Up /\ st[s] = "delete"
  /\ st' = [st EXCEPT ![s] = "done"]
  /\ UNCHANGED <<transport, faults, pc, beat, flags, server, errors, orderly>>

\* DELETE of the registration; errors are logged.
Deregistered(s) ==
  /\ Up /\ st[s] = "delete"
  /\ \/ reg' = FALSE /\ UNCHANGED errors
     \/ Error /\ UNCHANGED reg
  /\ st' = [st EXCEPT ![s] = "done"]
  /\ UNCHANGED <<transport, faults, pc, beat, flags, bound, queued, made, soft, orderly>>

----------------------------------------------------------------------------
LoopStep ==
  \/ LoopTop \/ Opened \/ OpenFails \/ Joined \/ JoinFails \/ CaughtUp \/ Cancelled
  \/ PollEnds \/ Closed

BeatStep == BeatWakes \/ BeatPosted \/ BeatStopped

StopStep(s) == StopClosed(s) \/ Deregistered(s)

Next ==
  \/ Fault \/ \E c \in Callers : Answer(c) \/ Timeout(c)
  \/ \E r \in Rows : NewRow(r)
  \/ Registered \/ RegisterFails \/ Exits
  \/ LoopStep \/ Disconnected \/ Pings \/ BeatStep
  \/ \E s \in Stoppers : StopBegins(s) \/ StopStep(s)

Spec == Init /\ [][Next]_vars

\* The event loop runs what is ready, sleeps and timeouts end, and a socket
\* that is not mute answers.
Fairness ==
  /\ \A c \in Callers : WF_vars(Answer(c) \/ Timeout(c))
  /\ WF_vars(Registered \/ RegisterFails) /\ WF_vars(Exits)
  /\ WF_vars(LoopStep) /\ WF_vars(Disconnected) /\ WF_vars(Pings) /\ WF_vars(BeatStep)
  /\ \A s \in Stoppers : WF_vars(StopStep(s))

FairSpec == Spec /\ Fairness

----------------------------------------------------------------------------
TypeOK ==
  /\ TransportTypeOK
  /\ pc \in {"register", "pause", "opening", "joining", "catchup", "polling", "closing",
             "cleanup", "backoff", "ended", "raised"}
  /\ beat \in {"off", "sleep", "post", "stop", "ended"}
  /\ st \in [Stoppers -> {"off", "closing", "delete", "done"}]
  /\ running \in BOOLEAN /\ healthy \in BOOLEAN /\ published \in BOOLEAN
  /\ enrolled \in BOOLEAN /\ proc \in {"up", "exited"}
  /\ reg \in BOOLEAN /\ bound \in BOOLEAN /\ soft \in BOOLEAN
  /\ queued \subseteq made /\ made \subseteq Rows /\ orderly \in BOOLEAN /\ errors \in 0..MaxErrors

\* The health flag never outlives the socket: whoever noticed the end of the
\* connection first, receive loop, gateway loop or stop(), has cleared it.
HealthyIsConnected == healthy => ws # "none" /\ published

\* A polling executor has no backlog: a row that came before the join is in
\* the catchup, a row that came after it is pushed.
NoRowLeftBehind == pc = "polling" /\ bound /\ ~soft => queued = {}

\* A process that was stopped and has ended did not leave its registration
\* behind, if the stop found it polling and the server could be reached.
StopDeregisters == proc = "exited" /\ ~running /\ orderly /\ errors = 0 => ~reg

\* The executor and the server agree on the connection: what it reports as
\* healthy is connected, what it listens to has been caught up with, and an
\* executor that was stopped is gone from the server.
ConnectionExact == TypeOK /\ HealthyIsConnected /\ NoRowLeftBehind /\ StopDeregisters

\* A socket lost at any point of the handshake or after it is replaced, as
\* long as nobody stops the executor: no loss ends the loop.
Recovers == [](pc \notin {"register", "raised"} /\ ~bound => <>(bound \/ ~running))

\* stop() ends the process, wherever it finds the loops.
StopExits == ~running ~> proc = "exited"
=============================================================================
