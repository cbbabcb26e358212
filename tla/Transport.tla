----------------------------- MODULE Transport -----------------------------
(***************************************************************************)
(* PhoenixTransport (agentchat/transport.py): one WebSocket, its receive   *)
(* loop, its heartbeat loop and the calls (join, push) that wait for a     *)
(* reply.  The clients of the transport are other modules, which use these *)
(* actions as parts of theirs; a caller is a coroutine that joins or       *)
(* pushes, and has at most one call in flight.                             *)
(***************************************************************************)
EXTENDS Integers

CONSTANTS Callers, Ping,   \* the coroutines that call; the heartbeat loop is one
          Tries,           \* _HEARTBEAT_RETRIES
          MaxFaults        \* bound: peer closes and silent deaths

ASSUME TransportAssumption == Ping \in Callers /\ Tries \in Nat \ {0} /\ MaxFaults \in Nat

VARIABLES
  ws,      \* self._ws: "none", "open", "mute" (no data comes any more), "closed"
  reader,  \* the receive loop runs
  pinger,  \* the heartbeat loop: "off", "asleep", "asking", "pausing", "closing"
  tries,   \* heartbeat attempts of this round
  call,    \* the call of each caller
  faults   \* faults so far

transport == <<ws, reader, pinger, tries, call>>

Calls == {"idle", "waiting", "replied", "failed", "cancelled"}

TransportInit ==
  /\ ws = "none" /\ reader = FALSE
  /\ pinger = "off" /\ tries = 0
  /\ call = [c \in Callers |-> "idle"]
  /\ faults = 0

\* close_code is set as soon as the connection is closed from either side.
Connected == ws \in {"open", "mute"}

\* The calls in flight get a CancelledError.
CancelPending == [c \in Callers |-> IF call[c] = "waiting" THEN "cancelled" ELSE call[c]]

\* join or push: the send raises on a closed socket, else the caller waits.
Sent == IF Connected THEN "waiting" ELSE "failed"
Ask(c) == call' = [call EXCEPT ![c] = Sent]
Settled(c, how) == call[c] = how /\ call' = [call EXCEPT ![c] = "idle"]

\* The last steps of connect(): both loops are started.
Opens ==
  /\ ws' = "open" /\ reader' = TRUE
  /\ pinger' = "asleep" /\ tries' = 0

----------------------------------------------------------------------------
(* The network.                                                            *)

PeerCloses ==
  /\ Connected /\ faults < MaxFaults
  /\ ws' = "closed" /\ faults' = faults + 1
  /\ UNCHANGED <<reader, pinger, tries, call>>

\* The socket stays open one way: what is sent is never answered.
GoesMute ==
  /\ ws = "open" /\ faults < MaxFaults
  /\ ws' = "mute" /\ faults' = faults + 1
  /\ UNCHANGED <<reader, pinger, tries, call>>

----------------------------------------------------------------------------
(* The receive loop.                                                       *)

\* A phx_reply, possibly one still buffered on a socket that just closed.
Answered(c) ==
  /\ reader /\ ws \in {"open", "closed"} /\ call[c] = "waiting"
  /\ call' = [call EXCEPT ![c] = "replied"]
  /\ UNCHANGED <<ws, reader, pinger, tries, faults>>

\* wait_for gives up after ten seconds: ChannelError.
TimedOut(c) ==
  /\ call[c] = "waiting"
  /\ call' = [call EXCEPT ![c] = "failed"]
  /\ UNCHANGED <<ws, reader, pinger, tries, faults>>

\* Mutant: the calls in flight are left waiting.
ReaderLeavesCalls ==
  /\ reader /\ ws = "closed"
  /\ ws' = "none" /\ reader' = FALSE
  /\ UNCHANGED <<pinger, tries, call, faults>>

\* The connection is dead: drop it, cancel the calls in flight, and notify
\* (what the disconnect callback does is up to the client).
ReaderEnds ==
  /\ reader /\ ws = "closed"
  /\ ws' = "none" /\ reader' = FALSE
  /\ call' = CancelPending
  /\ UNCHANGED <<pinger, tries, faults>>

----------------------------------------------------------------------------
(* disconnect(): the loops are cancelled, then the socket is closed, then  *)
(* the calls still in flight are cancelled.                                *)

StopLoops ==
  /\ pinger' = "off" /\ reader' = FALSE
  /\ UNCHANGED <<tries, faults>>

\* No socket: nothing to await, disconnect() runs through.
DisconnectIdle ==
  /\ ws = "none" /\ StopLoops
  /\ call' = [CancelPending EXCEPT ![Ping] = "idle"]
  /\ UNCHANGED ws

\* Up to `await self._ws.close()`.
DisconnectBegins ==
  /\ ws # "none" /\ StopLoops
  /\ ws' = "closed"
  /\ call' = [call EXCEPT ![Ping] = "idle"]

DisconnectEnds ==
  /\ ws' = "none" /\ call' = CancelPending
  /\ UNCHANGED <<reader, pinger, tries, faults>>

----------------------------------------------------------------------------
(* The heartbeat loop: up to Tries requests, then the socket is closed.    *)

\* A sleep is over: stop if the socket is known to be closed, else ask.
PingWakes ==
  /\ pinger = "asleep"
  /\ IF Connected
     THEN pinger' = "asking" /\ tries' = 1 /\ Ask(Ping)
     ELSE pinger' = "off" /\ UNCHANGED <<tries, call>>
  /\ UNCHANGED <<ws, reader, faults>>

PingAnswered ==
  /\ pinger = "asking" /\ Settled(Ping, "replied")
  /\ pinger' = "asleep" /\ tries' = 0
  /\ UNCHANGED <<ws, reader, faults>>

\* Mutant: a heartbeat without an answer is not counted.
PingForgives ==
  /\ pinger = "asking" /\ Settled(Ping, "failed")
  /\ pinger' = "asleep" /\ tries' = 0
  /\ UNCHANGED <<ws, reader, faults>>

\* The last attempt forces the socket closed, which ends the receive loop.
PingFails ==
  /\ pinger = "asking" /\ Settled(Ping, "failed")
  /\ pinger' = IF tries < Tries THEN "pausing" ELSE "closing"
  /\ UNCHANGED <<ws, reader, tries, faults>>

\* push is cancelled when the receive loop ends: so does this loop.
PingCancelled ==
  /\ pinger = "asking" /\ Settled(Ping, "cancelled")
  /\ pinger' = "off"
  /\ UNCHANGED <<ws, reader, tries, faults>>

PingRetries ==
  /\ pinger = "pausing"
  /\ pinger' = "asking" /\ tries' = tries + 1 /\ Ask(Ping)
  /\ UNCHANGED <<ws, reader, faults>>

ForceClose ==
  /\ pinger = "closing"
  /\ pinger' = "off"
  /\ ws' = IF ws = "none" THEN "none" ELSE "closed"
  /\ UNCHANGED <<reader, tries, call, faults>>

PingStep ==
  \/ PingWakes \/ PingAnswered \/ PingFails \/ PingCancelled \/ PingRetries \/ ForceClose

----------------------------------------------------------------------------
TransportTypeOK ==
  /\ ws \in {"none", "open", "mute", "closed"} /\ reader \in BOOLEAN
  /\ pinger \in {"off", "asleep", "asking", "pausing", "closing"}
  /\ tries \in 0..Tries
  /\ call \in [Callers -> Calls]
  /\ faults \in 0..MaxFaults
=============================================================================
