---------------------- MODULE GatewayConnectionProofs ----------------------
(***************************************************************************)
(* Proofs about the executor's connection to its gateway: for any number   *)
(* of lost sockets, failed calls, stops and queue rows.                    *)
(***************************************************************************)
EXTENDS GatewayConnection, TLAPS

\* Where the heartbeat of the transport is, it has attempts left.
TransportKept == TransportTypeOK /\ (pinger = "pausing" => tries < Tries)

\* The types of the executor and of the server.
ExecutorTyped ==
  /\ pc \in {"register", "pause", "opening", "joining", "catchup", "polling", "closing",
             "cleanup", "backoff", "ended", "raised"}
  /\ beat \in {"off", "sleep", "post", "stop", "ended"}
  /\ st \in [Stoppers -> {"off", "closing", "delete", "done"}]
  /\ proc \in {"up", "exited"} /\ queued \subseteq made /\ made \subseteq Rows /\ errors \in 0..MaxErrors
FlagsTyped ==
  /\ running \in BOOLEAN /\ healthy \in BOOLEAN /\ published \in BOOLEAN /\ enrolled \in BOOLEAN
  /\ reg \in BOOLEAN /\ bound \in BOOLEAN /\ soft \in BOOLEAN /\ orderly \in BOOLEAN

\* Who closes the socket has cleared the health flag before; no transport is
\* published before its join, and none is joined while a stop() closes one.
HealthKept ==
  /\ healthy => ws # "none" /\ published
  /\ pc \in {"closing", "cleanup"} => ~healthy
  /\ pc \in {"register", "pause", "opening", "joining", "backoff"} => ~published
  /\ \A s \in Stoppers : st[s] = "closing" =>
       ~healthy /\ ~running /\ pc \notin {"register", "pause", "opening", "joining"}

\* A catchup that was answered has emptied the queue, and it stays empty as
\* long as the channel is bound.
QueueKept ==
  /\ pc = "catchup" /\ bound /\ call[Loop] = "replied" => queued = {}
  /\ NoRowLeftBehind

\* The heartbeat loop runs until a stop; the executor that polls is enrolled.
\* A stop that found it polling has deleted the registration, or it still
\* will before the process can end.
StopKept ==
  /\ running => beat \in {"off", "sleep", "post"} /\ \A s \in Stoppers : st[s] = "off"
  /\ pc \notin {"register", "raised"} => enrolled /\ beat # "off"
  /\ ~running /\ orderly => pc \in {"polling", "closing", "ended"}
  /\ ~running /\ orderly /\ errors = 0 /\ reg =>
       /\ Stopping /\ beat \in {"sleep", "stop"} /\ proc = "up"
       /\ \A s \in Stoppers : st[s] # "done"

ConnectionInv == TransportKept /\ ExecutorTyped /\ FlagsTyped /\ HealthKept /\ QueueKept /\ StopKept

\* The steps of the transport, and what of it the executor does itself.
LEMMA TransportSteps ==
  ASSUME TransportKept,
         \/ PeerCloses \/ GoesMute \/ (\E c \in Callers : Answered(c) \/ TimedOut(c))
         \/ ReaderEnds \/ DisconnectIdle \/ DisconnectBegins \/ DisconnectEnds \/ PingStep
         \/ UNCHANGED <<transport, faults>>
  PROVE  TransportKept'
<1> USE TransportAssumption DEF TransportKept, TransportTypeOK, Calls
<1>1. CASE PeerCloses \/ GoesMute
  BY <1>1 DEF PeerCloses, GoesMute
<1>2. ASSUME NEW c \in Callers, Answered(c) \/ TimedOut(c) PROVE TransportKept'
  BY <1>2 DEF Answered, TimedOut
<1>3. CASE ReaderEnds
  BY <1>3 DEF ReaderEnds, CancelPending
<1>4. CASE DisconnectIdle \/ DisconnectBegins \/ DisconnectEnds
  BY <1>4 DEF DisconnectIdle, DisconnectBegins, DisconnectEnds, StopLoops, CancelPending
<1>5. CASE PingStep
  <2>1. CASE PingWakes
    BY <2>1 DEF PingWakes, Ask, Sent
  <2>2. CASE PingAnswered
    BY <2>2 DEF PingAnswered, Settled
  <2>3. CASE PingFails
    BY <2>3 DEF PingFails, Settled
  <2>4. CASE PingCancelled
    BY <2>4 DEF PingCancelled, Settled
  <2>5. CASE PingRetries
    BY <2>5 DEF PingRetries, Ask, Sent
  <2>6. CASE ForceClose
    BY <2>6 DEF ForceClose
  <2> QED
    BY <1>5, <2>1, <2>2, <2>3, <2>4, <2>5, <2>6 DEF PingStep
<1>6. CASE UNCHANGED <<transport, faults>>
  BY <1>6 DEF transport
<1> QED
  BY <1>1, <1>2, <1>3, <1>4, <1>5, <1>6

\* A stop begins: one that comes in order finds the executor polling and
\* enrolled, the first one with its heartbeat asleep or asking for it.
LEMMA BeginsToStop ==
  ASSUME ConnectionInv, NEW s \in Stoppers, StopBegins(s)
  PROVE  StopKept'
<1> USE DEF ConnectionInv, ExecutorTyped, FlagsTyped
<1>1. /\ st[s] = "off" /\ running' = FALSE /\ UNCHANGED <<pc, enrolled, proc, reg, errors>>
      /\ proc = "up" /\ (s = Beat => beat = "post")
      /\ orderly' = (orderly /\ pc = "polling" /\ (s = Beat \/ beat # "post"))
      /\ beat' = IF s = Beat THEN "stop" ELSE beat
  BY ConnectionAssumption DEF StopBegins, Up, Reachable
<1>2. \E to \in {"closing", "delete", "done"} :
        st' = [st EXCEPT ![s] = to] /\ (enrolled => to # "done")
  BY DEF StopBegins
<1>3. pc \notin {"register", "raised"} => enrolled' /\ beat' # "off"
  BY <1>1 DEF StopKept
<1>4. orderly' => pc = "polling" /\ orderly
  BY <1>1
<1>5. ASSUME orderly', errors = 0, reg
      PROVE  /\ Stopping' /\ beat' \in {"sleep", "stop"}
             /\ \A x \in Stoppers : st'[x] # "done"
  <2>1. enrolled /\ pc = "polling" /\ beat # "off" /\ orderly
    BY <1>4, <1>5 DEF StopKept
  <2>2. PICK to \in {"closing", "delete"} : st' = [st EXCEPT ![s] = to]
    BY <1>2, <2>1
  <2>3. Stopping'
    BY <2>2 DEF Stopping
  <2>4. beat' \in {"sleep", "stop"} /\ \A x \in Stoppers : st[x] # "done"
    <3>1. CASE running
      BY <1>1, <1>5, <2>1, <3>1 DEF StopKept
    <3>2. CASE ~running
      BY <1>1, <1>5, <2>1, <3>2 DEF StopKept
    <3> QED
      BY <3>1, <3>2
  <2> QED
    BY <2>2, <2>3, <2>4
<1> QED
  BY <1>1, <1>3, <1>4, <1>5 DEF StopKept

\* Every step of the loops, of the transport, of a stop and of the server keeps it.
LEMMA ConnectionSteps == ConnectionInv /\ [Next]_vars => ConnectionInv'
<1> SUFFICES ASSUME ConnectionInv, [Next]_vars PROVE ConnectionInv'
  OBVIOUS
<1> USE ConnectionAssumption DEF ConnectionInv, own, flags, server, loops, transport, Up
<1>1. ASSUME Fault PROVE ConnectionInv'
  <2>1. TransportKept'
    BY <1>1, TransportSteps DEF Fault
  <2>2. ExecutorTyped'
    BY <1>1 DEF Fault, ExecutorTyped
  <2>3. FlagsTyped'
    BY <1>1 DEF Fault, FlagsTyped
  <2>4. HealthKept'
    BY <1>1 DEF Fault, HealthKept, PeerCloses, GoesMute
  <2>5. QueueKept'
    BY <1>1 DEF Fault, QueueKept, NoRowLeftBehind
  <2>6. StopKept'
    BY <1>1 DEF Fault, StopKept, Stopping
  <2> QED
    BY <2>1, <2>2, <2>3, <2>4, <2>5, <2>6
<1>2. ASSUME NEW c \in Callers, Answer(c) PROVE ConnectionInv'
  <2>1. TransportKept'
    BY <1>2, TransportSteps DEF Answer
  <2>2. ExecutorTyped'
    BY <1>2 DEF Answer, ExecutorTyped
  <2>3. FlagsTyped'
    BY <1>2 DEF Answer, FlagsTyped
  <2>4. HealthKept'
    BY <1>2 DEF Answer, Answered, HealthKept
  <2>5. QueueKept'
    BY <1>2 DEF Answer, Answered, QueueKept, NoRowLeftBehind, TransportKept, TransportTypeOK
  <2>6. StopKept'
    BY <1>2 DEF Answer, StopKept, Stopping
  <2> QED
    BY <2>1, <2>2, <2>3, <2>4, <2>5, <2>6
<1>3. ASSUME NEW c \in Callers, Timeout(c) PROVE ConnectionInv'
  <2>1. TransportKept'
    BY <1>3, TransportSteps DEF Timeout
  <2>2. ExecutorTyped'
    BY <1>3 DEF Timeout, Error, ExecutorTyped
  <2>3. FlagsTyped'
    BY <1>3 DEF Timeout, FlagsTyped
  <2>4. HealthKept'
    BY <1>3 DEF Timeout, TimedOut, HealthKept
  <2>5. QueueKept'
    BY <1>3 DEF Timeout, TimedOut, QueueKept, NoRowLeftBehind
  <2>6. StopKept'
    BY <1>3 DEF Timeout, Error, StopKept, ExecutorTyped, Stopping
  <2> QED
    BY <2>1, <2>2, <2>3, <2>4, <2>5, <2>6
<1>4. ASSUME NEW r \in Rows, NewRow(r) PROVE ConnectionInv'
  <2>1. TransportKept'
    BY <1>4, TransportSteps DEF NewRow
  <2>2. ExecutorTyped'
    BY <1>4 DEF NewRow, ExecutorTyped
  <2>3. FlagsTyped'
    BY <1>4 DEF NewRow, FlagsTyped
  <2>4. HealthKept'
    BY <1>4 DEF NewRow, HealthKept
  <2>5. QueueKept'
    BY <1>4 DEF NewRow, QueueKept, NoRowLeftBehind
  <2>6. StopKept'
    BY <1>4 DEF NewRow, StopKept, Stopping
  <2> QED
    BY <2>1, <2>2, <2>3, <2>4, <2>5, <2>6
<1>5. ASSUME Registered PROVE ConnectionInv'
  <2>1. TransportKept'
    BY <1>5, TransportSteps DEF Registered
  <2>2. ExecutorTyped'
    BY <1>5 DEF Registered, ExecutorTyped
  <2>3. FlagsTyped'
    BY <1>5 DEF Registered, FlagsTyped
  <2>4. HealthKept'
    BY <1>5 DEF Registered, HealthKept
  <2>5. QueueKept'
    BY <1>5 DEF Registered, QueueKept, NoRowLeftBehind
  <2>6. StopKept'
    BY <1>5 DEF Registered, StopKept
  <2> QED
    BY <2>1, <2>2, <2>3, <2>4, <2>5, <2>6
<1>6. ASSUME RegisterFails PROVE ConnectionInv'
  <2>1. TransportKept'
    BY <1>6, TransportSteps DEF RegisterFails
  <2>2. ExecutorTyped'
    BY <1>6 DEF RegisterFails, Error, ExecutorTyped
  <2>3. FlagsTyped'
    BY <1>6 DEF RegisterFails, FlagsTyped
  <2>4. HealthKept'
    BY <1>6 DEF RegisterFails, HealthKept
  <2>5. QueueKept'
    BY <1>6 DEF RegisterFails, QueueKept, NoRowLeftBehind
  <2>6. StopKept'
    BY <1>6 DEF RegisterFails, StopKept
  <2> QED
    BY <2>1, <2>2, <2>3, <2>4, <2>5, <2>6
<1>7. ASSUME Exits PROVE ConnectionInv'
  <2>1. TransportKept'
    BY <1>7, TransportSteps DEF Exits
  <2>2. ExecutorTyped'
    BY <1>7 DEF Exits, ExecutorTyped
  <2>3. FlagsTyped'
    BY <1>7 DEF Exits, FlagsTyped
  <2>4. HealthKept'
    BY <1>7 DEF Exits, HealthKept
  <2>5. QueueKept'
    BY <1>7 DEF Exits, QueueKept, NoRowLeftBehind
  <2>6. StopKept'
    BY <1>7 DEF Exits, StopKept
  <2> QED
    BY <2>1, <2>2, <2>3, <2>4, <2>5, <2>6
<1>8. ASSUME LoopTop PROVE ConnectionInv'
  <2>1. TransportKept'
    BY <1>8, TransportSteps DEF LoopTop
  <2>2. ExecutorTyped'
    BY <1>8 DEF LoopTop, Top, ExecutorTyped
  <2>3. FlagsTyped'
    BY <1>8 DEF LoopTop, FlagsTyped
  <2>4. HealthKept'
    BY <1>8 DEF LoopTop, Top, HealthKept
  <2>5. QueueKept'
    BY <1>8 DEF LoopTop, Top, QueueKept, NoRowLeftBehind
  <2>6. StopKept'
    BY <1>8 DEF LoopTop, StopKept
  <2> QED
    BY <2>1, <2>2, <2>3, <2>4, <2>5, <2>6
<1>9. ASSUME Opened PROVE ConnectionInv'
  <2>1. TransportKept'
    BY <1>9, TransportAssumption DEF Opened, Opens, TransportKept, TransportTypeOK, Calls
  <2>2. ExecutorTyped'
    BY <1>9 DEF Opened, ExecutorTyped
  <2>3. FlagsTyped'
    BY <1>9 DEF Opened, FlagsTyped
  <2>4. HealthKept'
    BY <1>9 DEF Opened, HealthKept
  <2>5. QueueKept'
    BY <1>9 DEF Opened, QueueKept, NoRowLeftBehind
  <2>6. StopKept'
    BY <1>9 DEF Opened, StopKept
  <2> QED
    BY <2>1, <2>2, <2>3, <2>4, <2>5, <2>6
<1>10. ASSUME OpenFails PROVE ConnectionInv'
  <2>1. TransportKept'
    BY <1>10, TransportSteps DEF OpenFails, Retry, Disconnects
  <2>2. ExecutorTyped'
    BY <1>10 DEF OpenFails, Error, Retry, Disconnects, ExecutorTyped
  <2>3. FlagsTyped'
    BY <1>10 DEF OpenFails, Retry, Disconnects, FlagsTyped
  <2>4. HealthKept'
    BY <1>10 DEF OpenFails, Retry, Disconnects, HealthKept
  <2>5. QueueKept'
    BY <1>10 DEF OpenFails, Retry, Disconnects, QueueKept, NoRowLeftBehind
  <2>6. StopKept'
    BY <1>10 DEF OpenFails, StopKept
  <2> QED
    BY <2>1, <2>2, <2>3, <2>4, <2>5, <2>6
<1>11. ASSUME Joined PROVE ConnectionInv'
  <2>1. TransportKept'
    <3>1. CASE Connected
      BY <1>11, <3>1 DEF Joined, TransportKept, TransportTypeOK, Calls
    <3>2. CASE ~Connected
      BY <1>11, <3>2, TransportSteps DEF Joined, Disconnects
    <3> QED
      BY <3>1, <3>2
  <2>2. ExecutorTyped'
    BY <1>11 DEF Joined, Top, Disconnects, ExecutorTyped
  <2>3. FlagsTyped'
    BY <1>11 DEF Joined, Disconnects, FlagsTyped
  <2>4. HealthKept'
    BY <1>11 DEF Joined, Connected, Disconnects, HealthKept
  <2>5. QueueKept'
    BY <1>11 DEF Joined, Disconnects, QueueKept, NoRowLeftBehind, TransportKept, TransportTypeOK
  <2>6. StopKept'
    BY <1>11 DEF Joined, StopKept
  <2> QED
    BY <2>1, <2>2, <2>3, <2>4, <2>5, <2>6
<1>12. ASSUME JoinFails PROVE ConnectionInv'
  <2>1. TransportKept'
    BY <1>12, TransportSteps DEF JoinFails, Retry, Disconnects
  <2>2. ExecutorTyped'
    BY <1>12 DEF JoinFails, Retry, Disconnects, ExecutorTyped
  <2>3. FlagsTyped'
    BY <1>12 DEF JoinFails, Retry, Disconnects, FlagsTyped
  <2>4. HealthKept'
    BY <1>12 DEF JoinFails, Retry, Disconnects, HealthKept
  <2>5. QueueKept'
    BY <1>12 DEF JoinFails, Retry, Disconnects, QueueKept, NoRowLeftBehind
  <2>6. StopKept'
    BY <1>12 DEF JoinFails, StopKept
  <2> QED
    BY <2>1, <2>2, <2>3, <2>4, <2>5, <2>6
<1>13. ASSUME CaughtUp PROVE ConnectionInv'
  <2>1. TransportKept'
    <3>1. CASE running /\ Connected
      BY <1>13, <3>1 DEF CaughtUp, Polls, TransportKept, TransportTypeOK, Calls
    <3>2. CASE ~(running /\ Connected)
      BY <1>13, <3>2, TransportSteps DEF CaughtUp, Polls, Leave, Disconnects
    <3> QED
      BY <3>1, <3>2
  <2>2. ExecutorTyped'
    BY <1>13 DEF CaughtUp, Polls, Leave, Top, Disconnects, ExecutorTyped
  <2>3. FlagsTyped'
    BY <1>13 DEF CaughtUp, Polls, Leave, Disconnects, FlagsTyped
  <2>4. HealthKept'
    BY <1>13 DEF CaughtUp, Polls, Leave, Top, Disconnects, HealthKept
  <2>5. QueueKept'
    BY <1>13 DEF CaughtUp, Polls, Leave, Disconnects, QueueKept, NoRowLeftBehind
  <2>6. StopKept'
    BY <1>13 DEF CaughtUp, StopKept
  <2> QED
    BY <2>1, <2>2, <2>3, <2>4, <2>5, <2>6
<1>14. ASSUME Cancelled PROVE ConnectionInv'
  <2>1. TransportKept'
    BY <1>14, TransportSteps DEF Cancelled, Retry, Disconnects
  <2>2. ExecutorTyped'
    BY <1>14 DEF Cancelled, Retry, Disconnects, ExecutorTyped
  <2>3. FlagsTyped'
    BY <1>14 DEF Cancelled, Retry, Disconnects, FlagsTyped
  <2>4. HealthKept'
    BY <1>14 DEF Cancelled, Retry, Disconnects, HealthKept
  <2>5. QueueKept'
    BY <1>14 DEF Cancelled, Retry, Disconnects, QueueKept, NoRowLeftBehind
  <2>6. StopKept'
    BY <1>14 DEF Cancelled, StopKept
  <2> QED
    BY <2>1, <2>2, <2>3, <2>4, <2>5, <2>6
<1>15. ASSUME PollEnds PROVE ConnectionInv'
  <2>1. TransportKept'
    BY <1>15, TransportSteps DEF PollEnds, Leave, Disconnects
  <2>2. ExecutorTyped'
    BY <1>15 DEF PollEnds, Leave, Top, Disconnects, ExecutorTyped
  <2>3. FlagsTyped'
    BY <1>15 DEF PollEnds, Leave, Disconnects, FlagsTyped
  <2>4. HealthKept'
    BY <1>15 DEF PollEnds, Leave, Top, Disconnects, HealthKept
  <2>5. QueueKept'
    BY <1>15 DEF PollEnds, Leave, Top, Disconnects, QueueKept, NoRowLeftBehind
  <2>6. StopKept'
    BY <1>15 DEF PollEnds, Leave, Top, Disconnects, StopKept, Stopping
  <2> QED
    BY <2>1, <2>2, <2>3, <2>4, <2>5, <2>6
<1>16. ASSUME Closed PROVE ConnectionInv'
  <2>1. TransportKept'
    BY <1>16, TransportSteps DEF Closed
  <2>2. ExecutorTyped'
    BY <1>16 DEF Closed, Top, ExecutorTyped
  <2>3. FlagsTyped'
    BY <1>16 DEF Closed, FlagsTyped
  <2>4. HealthKept'
    BY <1>16 DEF Closed, Top, HealthKept
  <2>5. QueueKept'
    BY <1>16 DEF Closed, Top, QueueKept, NoRowLeftBehind
  <2>6. StopKept'
    BY <1>16 DEF Closed, Top, StopKept, Stopping
  <2> QED
    BY <2>1, <2>2, <2>3, <2>4, <2>5, <2>6
<1>17. ASSUME Disconnected PROVE ConnectionInv'
  <2>1. TransportKept'
    BY <1>17, TransportSteps DEF Disconnected
  <2>2. ExecutorTyped'
    BY <1>17 DEF Disconnected, ExecutorTyped
  <2>3. FlagsTyped'
    BY <1>17 DEF Disconnected, FlagsTyped
  <2>4. HealthKept'
    BY <1>17 DEF Disconnected, HealthKept
  <2>5. QueueKept'
    BY <1>17 DEF Disconnected, ReaderEnds, CancelPending, QueueKept, NoRowLeftBehind
  <2>6. StopKept'
    BY <1>17 DEF Disconnected, StopKept, Stopping
  <2> QED
    BY <2>1, <2>2, <2>3, <2>4, <2>5, <2>6
<1>18. ASSUME Pings PROVE ConnectionInv'
  <2>1. TransportKept'
    BY <1>18, TransportSteps DEF Pings
  <2>2. ExecutorTyped'
    BY <1>18 DEF Pings, ExecutorTyped
  <2>3. FlagsTyped'
    BY <1>18 DEF Pings, FlagsTyped
  <2>4. HealthKept'
    BY <1>18 DEF Pings, PingStep, PingWakes, PingAnswered, PingFails, PingCancelled, PingRetries,
       ForceClose, HealthKept
  <2>5. QueueKept'
    BY <1>18 DEF Pings, PingStep, PingWakes, PingAnswered, PingFails, PingCancelled, PingRetries,
       ForceClose, Settled, Ask, QueueKept, NoRowLeftBehind, TransportKept, TransportTypeOK
  <2>6. StopKept'
    BY <1>18 DEF Pings, StopKept, Stopping
  <2> QED
    BY <2>1, <2>2, <2>3, <2>4, <2>5, <2>6
<1>19. ASSUME BeatWakes PROVE ConnectionInv'
  <2>1. TransportKept'
    BY <1>19, TransportSteps DEF BeatWakes
  <2>2. ExecutorTyped'
    BY <1>19 DEF BeatWakes, ExecutorTyped
  <2>3. FlagsTyped'
    BY <1>19 DEF BeatWakes, FlagsTyped
  <2>4. HealthKept'
    BY <1>19 DEF BeatWakes, HealthKept
  <2>5. QueueKept'
    BY <1>19 DEF BeatWakes, QueueKept, NoRowLeftBehind
  <2>6. StopKept'
    BY <1>19 DEF BeatWakes, StopKept
  <2> QED
    BY <2>1, <2>2, <2>3, <2>4, <2>5, <2>6
<1>20. ASSUME BeatPosted PROVE ConnectionInv'
  <2>1. TransportKept'
    BY <1>20, TransportSteps DEF BeatPosted
  <2>2. ExecutorTyped'
    BY <1>20 DEF BeatPosted, ExecutorTyped
  <2>3. FlagsTyped'
    BY <1>20 DEF BeatPosted, FlagsTyped
  <2>4. HealthKept'
    BY <1>20 DEF BeatPosted, HealthKept
  <2>5. QueueKept'
    BY <1>20 DEF BeatPosted, QueueKept, NoRowLeftBehind
  <2>6. StopKept'
    BY <1>20 DEF BeatPosted, StopKept
  <2> QED
    BY <2>1, <2>2, <2>3, <2>4, <2>5, <2>6
<1>21. ASSUME BeatStopped PROVE ConnectionInv'
  <2>1. TransportKept'
    BY <1>21, TransportSteps DEF BeatStopped
  <2>2. ExecutorTyped'
    BY <1>21 DEF BeatStopped, ExecutorTyped
  <2>3. FlagsTyped'
    BY <1>21 DEF BeatStopped, FlagsTyped
  <2>4. HealthKept'
    BY <1>21 DEF BeatStopped, HealthKept
  <2>5. QueueKept'
    BY <1>21 DEF BeatStopped, QueueKept, NoRowLeftBehind
  <2>6. StopKept'
    BY <1>21 DEF Stoppers, BeatStopped, StopKept
  <2> QED
    BY <2>1, <2>2, <2>3, <2>4, <2>5, <2>6
<1>22. ASSUME NEW s \in Stoppers, StopBegins(s) PROVE ConnectionInv'
  <2>1. TransportKept'
    BY <1>22, TransportSteps DEF StopBegins
  <2>2. ExecutorTyped'
    BY <1>22 DEF StopBegins, ExecutorTyped
  <2>3. FlagsTyped'
    BY <1>22 DEF StopBegins, FlagsTyped
  <2>4. HealthKept'
    BY <1>22 DEF StopBegins, HealthKept, ExecutorTyped
  <2>5. QueueKept'
    BY <1>22 DEF StopBegins, QueueKept, NoRowLeftBehind
  <2>6. StopKept'
    BY <1>22, BeginsToStop
  <2> QED
    BY <2>1, <2>2, <2>3, <2>4, <2>5, <2>6
<1>23. ASSUME NEW s \in Stoppers, StopClosed(s) PROVE ConnectionInv'
  <2>1. TransportKept'
    BY <1>23, TransportSteps DEF StopClosed
  <2>2. ExecutorTyped'
    BY <1>23 DEF StopClosed, ExecutorTyped
  <2>3. FlagsTyped'
    BY <1>23 DEF StopClosed, FlagsTyped
  <2>4. HealthKept'
    BY <1>23 DEF StopClosed, HealthKept
  <2>5. QueueKept'
    BY <1>23 DEF StopClosed, DisconnectEnds, CancelPending, QueueKept, NoRowLeftBehind
  <2>6. StopKept'
    BY <1>23 DEF StopClosed, StopKept, Stopping
  <2> QED
    BY <2>1, <2>2, <2>3, <2>4, <2>5, <2>6
<1>24. ASSUME NEW s \in Stoppers, Deregistered(s) PROVE ConnectionInv'
  <2>1. TransportKept'
    BY <1>24, TransportSteps DEF Deregistered
  <2>2. ExecutorTyped'
    BY <1>24 DEF Deregistered, Error, ExecutorTyped
  <2>3. FlagsTyped'
    BY <1>24 DEF Deregistered, FlagsTyped
  <2>4. HealthKept'
    BY <1>24 DEF Deregistered, HealthKept
  <2>5. QueueKept'
    BY <1>24 DEF Deregistered, QueueKept, NoRowLeftBehind
  <2>6. StopKept'
    BY <1>24 DEF Deregistered, Error, StopKept, ExecutorTyped
  <2> QED
    BY <2>1, <2>2, <2>3, <2>4, <2>5, <2>6
<1>25. ASSUME UNCHANGED vars PROVE ConnectionInv'
  BY <1>25 DEF vars, TransportKept, TransportTypeOK, ExecutorTyped, FlagsTyped, HealthKept,
     QueueKept, NoRowLeftBehind, StopKept, Stopping
<1> QED
  BY <1>1, <1>2, <1>3, <1>4, <1>5, <1>6, <1>7, <1>8, <1>9, <1>10, <1>11, <1>12, <1>13, <1>14, <1>15,
     <1>16, <1>17, <1>18, <1>19, <1>20, <1>21, <1>22, <1>23, <1>24, <1>25 DEF Next, LoopStep,
     BeatStep, StopStep

\* The process starts without a connection and unknown to the server.
LEMMA ConnectionStarts == Init => ConnectionInv
<1> SUFFICES ASSUME Init PROVE ConnectionInv
  OBVIOUS
<1>1. TransportKept
  <2>1. reader \in BOOLEAN /\ pinger = "off" /\ call \in [Callers -> Calls]
    BY DEF Init, TransportInit, Calls
  <2>2. ws = "none" /\ tries \in 0..Tries /\ faults \in 0..MaxFaults
    BY TransportAssumption DEF Init, TransportInit
  <2> QED
    BY <2>1, <2>2 DEF TransportKept, TransportTypeOK
<1>2. ExecutorTyped /\ FlagsTyped
  <2>1. FlagsTyped
    BY DEF Init, FlagsTyped
  <2>2. ExecutorTyped
    BY ConnectionAssumption DEF Init, ExecutorTyped
  <2> QED
    BY <2>1, <2>2
<1>3. HealthKept /\ QueueKept /\ StopKept
  BY DEF Init, HealthKept, QueueKept, NoRowLeftBehind, StopKept
<1> QED
  BY <1>1, <1>2, <1>3 DEF ConnectionInv

\* The executor and the server agree on the connection: what it reports as
\* healthy is connected, what it listens to has been caught up with, and one
\* that was stopped in order is gone from the server (_ws_gateway_loop, stop,
\* agentchat/executor.py).
THEOREM ConnectionAgrees == Spec => []ConnectionExact
<1>1. ConnectionInv => ConnectionExact
  <2>1. ConnectionInv => TypeOK
    BY DEF ConnectionInv, TransportKept, ExecutorTyped, FlagsTyped, TypeOK
  <2>2. ConnectionInv => HealthyIsConnected /\ NoRowLeftBehind
    BY DEF ConnectionInv, HealthKept, QueueKept, HealthyIsConnected
  <2>3. ConnectionInv => StopDeregisters
    BY DEF ConnectionInv, StopKept, StopDeregisters
  <2> QED
    BY <2>1, <2>2, <2>3 DEF ConnectionExact
<1> QED
  BY <1>1, ConnectionStarts, ConnectionSteps, PTL DEF Spec
=============================================================================
