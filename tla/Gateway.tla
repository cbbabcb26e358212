------------------------------ MODULE Gateway ------------------------------
(***************************************************************************)
(* The executor side of the AgentChat gateway (agentchat/executor.py): how *)
(* a pushed message or task becomes a handler run under the turn           *)
(* semaphore, how a run reports back, and how stop directives, process     *)
(* exits and redelivery interleave with it.  The gateway server is         *)
(* external: its queue rows are modelled from how the executor uses them.  *)
(*                                                                         *)
(* A run is one asyncio task.  Between two awaits it is atomic, so every   *)
(* action below is one stretch from an await to the next.  An HTTP POST is *)
(* one await whose outcome is "ok", "nosend" (the server never saw it) or  *)
(* "noreply" (the server acted, the executor got an exception).            *)
(***************************************************************************)
EXTENDS Integers, Sequences, FiniteSets

CONSTANTS
  Messages,      \* gateway message rows
  Cards,         \* the messages that are task_complete status cards
  Tasks,         \* gateway task rows
  Pulses,        \* the tasks whose source is "pulse"
  Convs,         \* conversations
  ConvOf,        \* the conversation of a message
  Runs,          \* bound: event coroutines alive at once
  NoRun, NoItem,
  MaxConcurrent, \* permits of the turn semaphore
  HardCap,       \* age at which the server takes a claimed row back
  TTL,           \* MESSAGE_DEDUP_TTL_SECONDS, in the same unit
  Prompt,        \* TRUE: redelivery and POSTs are short against HardCap
  MaxLost,       \* bound: POSTs that fail in transport
  MaxDrops,      \* bound: WebSocket drops
  MaxCrashes,    \* bound: process exits
  MaxStops       \* bound: stop directives

Items == Messages \cup Tasks
Keys  == Convs \cup Tasks

ASSUME GatewayAssumption ==
  /\ Messages \cap Tasks = {} /\ Convs \cap Tasks = {}
  /\ Cards \subseteq Messages /\ Pulses \subseteq Tasks
  /\ ConvOf \in [Messages -> Convs]
  /\ IsFiniteSet(Runs) /\ NoRun \notin Runs /\ NoItem \notin Items
  /\ MaxConcurrent \in Nat \ {0}
  /\ HardCap \in Nat \ {0} /\ TTL \in Nat /\ HardCap < TTL
  /\ Prompt \in BOOLEAN
  /\ MaxLost \in Nat /\ MaxDrops \in Nat /\ MaxCrashes \in Nat /\ MaxStops \in Nat

VARIABLES
  row,      \* server: "queued", "claimed", "accepted" (task in progress), "settled"
  age,      \* server: time since the claim
  wire,     \* rows pushed and not yet received
  stops,    \* stop directives (conversation or task) not yet received
  up,       \* the executor process is alive
  linked,   \* its WebSocket is joined
  pc, item, \* of each run: where it awaits, and the row it serves
  why,      \* of a message run: what its handler ended with
  struck,   \* runs with a CancelledError pending
  waiters, permits,   \* the asyncio.Semaphore
  active,   \* _active_message_runs and _active_task_runs
  seen,     \* age of the MessageDedup entry, above TTL when there is none
  cleanups, \* _turn_cleanups: the run that registered the entry
  bubble,   \* runs whose streaming bubble is on screen
  \* history, read by the properties only
  begun,    \* messages whose handler has been called, ever
  turns,    \* handler calls per message in this process
  tried,    \* runs that have attempted their acknowledgement
  hits,     \* CancelledErrors a run has received
  stuck,    \* messages whose run ended with its bubble on screen, teardown not cut short
  open,     \* tasks a run deliberately left open
  lost, drops, crashes, stopped   \* what is used of the bounds

net     == <<age, wire, stops, up, linked>>
run     == <<pc, item, why, struck>>
slots   == <<waiters, permits, active>>
teardown == <<cleanups, bubble>>
calls   == <<begun, turns>>
notes   == <<tried, hits, stuck, open>>
bounds  == <<lost, drops, crashes, stopped>>
vars == <<row, net, run, slots, seen, teardown, calls, notes, bounds>>

----------------------------------------------------------------------------
(* Where a run may be. *)
MessageStages == {"notify", "turn", "ack", "reply", "xack", "notice", "cleanup"}
TaskStages    == {"accept", "work", "check", "complete", "fail"}
Executing     == MessageStages \cup TaskStages
Slotted       == {"starting"} \cup Executing
Stages        == {"idle", "dupack", "parked"} \cup Slotted
Outcomes      == {"none", "reply", "timeout", "error", "cancelled"}

\* The registry a run is filed under: by conversation or by task.
Key(i) == IF i \in Messages THEN ConvOf[i] ELSE i

Init ==
  /\ row = [i \in Items |-> "queued"]
  /\ age = [i \in Items |-> 0]
  /\ wire = {} /\ stops = {}
  /\ up = TRUE /\ linked = FALSE
  /\ pc = [r \in Runs |-> "idle"]
  /\ item = [r \in Runs |-> NoItem]
  /\ why = [r \in Runs |-> "none"]
  /\ struck = {}
  /\ waiters = <<>> /\ permits = MaxConcurrent
  /\ active = [k \in Keys |-> {}]
  /\ seen = [m \in Messages |-> TTL + 1]
  /\ cleanups = [m \in Messages |-> NoRun]
  /\ bubble = {}
  /\ begun = {} /\ turns = [m \in Messages |-> 0]
  /\ tried = {} /\ hits = [r \in Runs |-> 0]
  /\ stuck = {} /\ open = {}
  /\ lost = 0 /\ drops = 0 /\ crashes = 0 /\ stopped = 0

----------------------------------------------------------------------------
(* The server and the network (external). *)

\* Claim a queued row for the joined executor and push it: live or at catchup.
Push(i) ==
  /\ linked /\ row[i] = "queued"
  /\ row' = [row EXCEPT ![i] = "claimed"]
  /\ age' = [age EXCEPT ![i] = 0]
  /\ wire' = wire \cup {i}
  /\ UNCHANGED <<stops, up, linked, run, slots, seen, teardown, calls, notes, bounds>>

\* Hand a claimed row back: after a stretch without progress, or at the hard cap.
Requeue(i) ==
  /\ row[i] = "claimed" /\ age[i] >= 1
  /\ row' = [row EXCEPT ![i] = "queued"]
  /\ UNCHANGED <<age, wire, stops, up, linked, run, slots, seen, teardown,
                 calls, notes, bounds>>

\* The user presses stop on a conversation, or cancels a task.
Stop(k) ==
  /\ stopped < MaxStops
  /\ stopped' = stopped + 1
  /\ stops' = stops \cup {k}
  /\ row' = IF k \in Tasks THEN [row EXCEPT ![k] = "settled"] ELSE row
  /\ UNCHANGED <<age, wire, up, linked, run, slots, seen, teardown, calls, notes,
                 lost, drops, crashes>>

Drop ==
  /\ linked /\ drops < MaxDrops
  /\ linked' = FALSE /\ wire' = {}
  /\ drops' = drops + 1
  /\ UNCHANGED <<row, age, stops, up, run, slots, seen, teardown, calls, notes,
                 lost, crashes, stopped>>

Reconnect ==
  /\ up /\ ~linked
  /\ linked' = TRUE
  /\ UNCHANGED <<row, age, wire, stops, up, run, slots, seen, teardown, calls, notes, bounds>>

\* Time passes for the claims and for the dedup entries.  A Prompt server
\* and network redeliver and acknowledge in no time on this scale.
Overdue(i) == row[i] = "queued" \/ i \in wire \/ (row[i] = "claimed" /\ age[i] = HardCap)
Tick ==
  /\ Prompt => /\ \A i \in Items : ~Overdue(i)
               /\ \A r \in Runs : pc[r] \notin {"dupack", "ack", "xack"}
  /\ age' = [i \in Items |-> IF row[i] = "claimed" /\ age[i] < HardCap
                             THEN age[i] + 1 ELSE age[i]]
  /\ seen' = [m \in Messages |-> IF seen[m] <= TTL THEN seen[m] + 1 ELSE seen[m]]
  /\ UNCHANGED <<row, wire, stops, up, linked, run, slots, teardown, calls, notes,
                 bounds>>

----------------------------------------------------------------------------
(* The executor: from a pushed row to a run.                               *)

\* One POST: it reaches the server and answers, or fails in transport.
Post(o) == \/ o = "ok" /\ UNCHANGED lost
           \/ o \in {"nosend", "noreply"} /\ lost < MaxLost /\ lost' = lost + 1
Reaches(o) == o # "nosend"

\* The server settles a message row it still holds for someone.
AckRow(m, reached) ==
  row' = IF reached /\ row[m] \in {"claimed", "queued"}
         THEN [row EXCEPT ![m] = "settled"] ELSE row

\* A task row moves only from the state its endpoint or tool requires.
MoveTask(t, from, to, reached) ==
  row' = IF reached /\ row[t] = from THEN [row EXCEPT ![t] = to] ELSE row

\* Mutant: the dedup window is no longer than the claim.
ShortWindow(i) == i \in Messages /\ seen[i] < HardCap

IsDuplicate(i) == i \in Messages /\ seen[i] <= TTL

\* First receipt: the dedup entry is made here, before the semaphore.
Receive(r, i) ==
  /\ up /\ i \in wire /\ pc[r] = "idle" /\ ~IsDuplicate(i)
  /\ wire' = wire \ {i}
  /\ seen' = IF i \in Messages THEN [seen EXCEPT ![i] = 0] ELSE seen
  /\ item' = [item EXCEPT ![r] = i]
  /\ pc' = [pc EXCEPT ![r] = "parked"]
  /\ waiters' = Append(waiters, r)
  /\ UNCHANGED <<row, age, stops, up, linked, why, struck, permits, active, teardown,
                 calls, notes, bounds>>

\* Mutant: a duplicate renews its entry and is dropped without acknowledgement.
DropDuplicate(r, i) ==
  /\ up /\ i \in wire /\ pc[r] = "idle" /\ IsDuplicate(i)
  /\ wire' = wire \ {i}
  /\ seen' = [seen EXCEPT ![i] = 0]
  /\ UNCHANGED <<row, age, stops, up, linked, run, slots, teardown, calls, notes, bounds>>

\* A duplicate is acknowledged at once, whatever became of the first copy.
ReceiveDuplicate(r, i) ==
  /\ up /\ i \in wire /\ pc[r] = "idle" /\ IsDuplicate(i)
  /\ wire' = wire \ {i}
  /\ item' = [item EXCEPT ![r] = i]
  /\ pc' = [pc EXCEPT ![r] = "dupack"]
  /\ UNCHANGED <<row, age, stops, up, linked, why, struck, slots, seen, teardown,
                 calls, notes, bounds>>

AckDuplicate(r, o) ==
  /\ pc[r] = "dupack" /\ Post(o)
  /\ AckRow(item[r], Reaches(o))
  /\ pc' = [pc EXCEPT ![r] = "idle"]
  /\ item' = [item EXCEPT ![r] = NoItem]
  /\ UNCHANGED <<net, why, struck, slots, seen, teardown, calls, notes,
                 drops, crashes, stopped>>

\* Mutant: a run that finds the semaphore locked goes on all the same.
AcquireUnguarded(r) ==
  /\ waiters # <<>> /\ r = Head(waiters)
  /\ waiters' = Tail(waiters)
  /\ permits' = permits - 1
  /\ pc' = [pc EXCEPT ![r] = "starting"]
  /\ UNCHANGED <<row, net, item, why, struck, active, seen, teardown, calls, notes, bounds>>

\* Mutant: the newest waiter is served first.
AcquireNewest(r) ==
  /\ waiters # <<>> /\ r = waiters[Len(waiters)] /\ permits > 0
  /\ waiters' = SubSeq(waiters, 1, Len(waiters) - 1)
  /\ permits' = permits - 1
  /\ pc' = [pc EXCEPT ![r] = "starting"]
  /\ UNCHANGED <<row, net, item, why, struck, active, seen, teardown, calls, notes, bounds>>

\* asyncio.Semaphore wakes its waiters in order; the wrapper is then scheduled.
Acquire(r) ==
  /\ waiters # <<>> /\ r = Head(waiters) /\ permits > 0
  /\ waiters' = Tail(waiters)
  /\ permits' = permits - 1
  /\ pc' = [pc EXCEPT ![r] = "starting"]
  /\ UNCHANGED <<row, net, item, why, struck, active, seen, teardown, calls, notes, bounds>>

\* The handler of m is called.
CallHandler(m) ==
  /\ begun' = begun \cup {m}
  /\ turns' = [turns EXCEPT ![m] = IF @ < 2 THEN @ + 1 ELSE @]

\* Mutant: the wrapper does not enter itself.
Unregistered(r) == UNCHANGED active

\* The wrapper enters itself in the registry and begins.
Register(r) == active' = [active EXCEPT ![Key(item[r])] = @ \cup {r}]

StartMessage(r) ==
  /\ pc[r] = "starting" /\ item[r] \in Messages
  /\ Register(r)
  /\ \/ /\ item[r] \in Cards
        /\ pc' = [pc EXCEPT ![r] = "notify"]
        /\ UNCHANGED calls
     \/ /\ item[r] \notin Cards
        /\ pc' = [pc EXCEPT ![r] = "turn"]
        /\ CallHandler(item[r])
  /\ UNCHANGED <<row, net, item, why, struck, waiters, permits, seen, teardown, notes, bounds>>

StartTask(r) ==
  /\ pc[r] = "starting" /\ item[r] \in Tasks
  /\ Register(r)
  /\ pc' = [pc EXCEPT ![r] = "accept"]
  /\ UNCHANGED <<row, net, item, why, struck, waiters, permits, seen, teardown, calls,
                 notes, bounds>>

\* Mutant: the permit is not given back.
ReleaseLost == UNCHANGED permits

Release == permits' = permits + 1

\* The wrapper's finally: leave the registry, release the permit.  `shown`
\* is what is left on screen once the turn cleanup has run.
Finish(r, shown) ==
  /\ pc' = [pc EXCEPT ![r] = "idle"]
  /\ item' = [item EXCEPT ![r] = NoItem]
  /\ why' = [why EXCEPT ![r] = "none"]
  /\ struck' = struck \ {r}
  /\ active' = [active EXCEPT ![Key(item[r])] = @ \ {r}]
  /\ Release
  /\ bubble' = shown \ {r}
  /\ stuck' = IF r \in shown \ struck THEN stuck \cup {item[r]} ELSE stuck
  /\ tried' = tried \ {r}
  /\ hits' = [hits EXCEPT ![r] = 0]

\* r runs on from stage s: no cancellation is pending for it.
Ready(r, s) == pc[r] = s /\ r \notin struck
GoTo(r, s)  == pc' = [pc EXCEPT ![r] = s] /\ UNCHANGED <<item, struck, slots>>

----------------------------------------------------------------------------
(* _handle_message: handler, acknowledgement, reply, teardown.             *)

\* The task_completed callbacks of a status card, awaited before the turn.
Notified(r) ==
  /\ Ready(r, "notify") /\ GoTo(r, "turn")
  /\ CallHandler(item[r])
  /\ UNCHANGED <<row, net, why, seen, teardown, notes, bounds>>

\* Mutant: the turn cleanup is not registered.
OpenBubbleOnly(r) ==
  /\ Ready(r, "turn") /\ r \notin bubble
  /\ bubble' = bubble \cup {r}
  /\ UNCHANGED <<row, net, run, slots, seen, cleanups, calls, notes, bounds>>

\* The handler shows its streaming bubble and registers the turn cleanup.
OpenBubble(r) ==
  /\ Ready(r, "turn") /\ r \notin bubble
  /\ bubble' = bubble \cup {r}
  /\ cleanups' = [cleanups EXCEPT ![item[r]] = r]
  /\ UNCHANGED <<row, net, run, slots, seen, calls, notes, bounds>>

\* Mutant: the reply goes out before the acknowledgement.
ReturnReplyFirst(r, reply) ==
  /\ Ready(r, "turn") /\ GoTo(r, IF reply THEN "reply" ELSE "ack")
  /\ bubble' = bubble \ {r}
  /\ UNCHANGED <<row, net, why, seen, cleanups, calls, notes, bounds>>

\* The handler returns, having ended its bubble, with or without a reply.
Return(r, reply) ==
  /\ Ready(r, "turn") /\ GoTo(r, "ack")
  /\ why' = [why EXCEPT ![r] = IF reply THEN "reply" ELSE "none"]
  /\ bubble' = bubble \ {r}
  /\ UNCHANGED <<row, net, seen, cleanups, calls, notes, bounds>>

\* The handler raises, or wait_for's timeout cancels it.
Raise(r, cause) ==
  /\ Ready(r, "turn") /\ GoTo(r, "xack")
  /\ why' = [why EXCEPT ![r] = cause]
  /\ UNCHANGED <<row, net, seen, teardown, calls, notes, bounds>>

\* A failed acknowledgement is logged and the reply still goes out.
Ack(r, o) ==
  /\ Ready(r, "ack") /\ Post(o)
  /\ GoTo(r, IF why[r] = "reply" THEN "reply" ELSE "cleanup")
  /\ AckRow(item[r], Reaches(o))
  /\ tried' = tried \cup {r}
  /\ UNCHANGED <<net, why, seen, teardown, calls, hits, stuck, open, drops, crashes, stopped>>

\* Sent, or dropped as stale.
Replied(r) ==
  /\ Ready(r, "reply") /\ GoTo(r, "cleanup")
  /\ UNCHANGED <<row, net, why, seen, teardown, calls, notes, bounds>>

\* A reply that fails takes the handler-crash path: a second ack, a notice.
ReplyFailed(r) ==
  /\ Ready(r, "reply") /\ GoTo(r, "xack")
  /\ why' = [why EXCEPT ![r] = "error"]
  /\ UNCHANGED <<row, net, seen, teardown, calls, notes, bounds>>

\* The except path acknowledges first; a cancelled turn then stays silent.
AckAfterFailure(r, o) ==
  /\ Ready(r, "xack") /\ Post(o)
  /\ GoTo(r, IF why[r] = "cancelled" THEN "cleanup" ELSE "notice")
  /\ AckRow(item[r], Reaches(o))
  /\ tried' = tried \cup {r}
  /\ UNCHANGED <<net, why, seen, teardown, calls, hits, stuck, open, drops, crashes, stopped>>

Notice(r) ==
  /\ Ready(r, "notice") /\ GoTo(r, "cleanup")
  /\ UNCHANGED <<row, net, why, seen, teardown, calls, notes, bounds>>

\* The outer finally pops the message's cleanup, whoever registered it.
Cleanup(r) ==
  /\ Ready(r, "cleanup")
  /\ cleanups' = [cleanups EXCEPT ![item[r]] = NoRun]
  /\ Finish(r, bubble \ {cleanups[item[r]]})
  /\ UNCHANGED <<row, net, waiters, seen, calls, open, bounds>>

----------------------------------------------------------------------------
(* _handle_task: accept, handler, one report.                              *)

FinishTask(r) == Finish(r, bubble) /\ UNCHANGED <<waiters, cleanups>>

\* Mutant: a refused accept is logged and the handler started all the same.
AcceptAnyway(r, o) ==
  /\ Ready(r, "accept") /\ Post(o)
  /\ MoveTask(item[r], "claimed", "accepted", Reaches(o))
  /\ IF o = "ok"
     THEN GoTo(r, "work") /\ UNCHANGED <<why, teardown, tried, hits, stuck>>
     ELSE FinishTask(r)
  /\ UNCHANGED <<net, seen, calls, open, drops, crashes, stopped>>

\* An accept the server refuses, or that fails in transport, ends the run.
Accept(r, o) ==
  /\ Ready(r, "accept") /\ Post(o)
  /\ MoveTask(item[r], "claimed", "accepted", Reaches(o))
  /\ IF o = "ok" /\ row[item[r]] = "claimed"
     THEN GoTo(r, "work") /\ UNCHANGED <<why, teardown, tried, hits, stuck>>
     ELSE FinishTask(r)
  /\ UNCHANGED <<net, seen, calls, open, drops, crashes, stopped>>

\* A finisher tool the handler ran closes the task inside the tool call.
FinisherTool(r) ==
  /\ Ready(r, "work") /\ row[item[r]] = "accepted"
  /\ MoveTask(item[r], "accepted", "settled", TRUE)
  /\ UNCHANGED <<net, run, slots, seen, teardown, calls, notes, bounds>>

\* completed_via_tool: the run closed the task itself, nothing to report.
ClosedByTool(r) ==
  /\ Ready(r, "work") /\ row[item[r]] = "settled"
  /\ FinishTask(r)
  /\ UNCHANGED <<row, net, seen, calls, open, bounds>>

\* parked: the task stays open for whatever it waits on.
Park(r) ==
  /\ Ready(r, "work")
  /\ FinishTask(r)
  /\ open' = open \cup {item[r]}
  /\ UNCHANGED <<row, net, seen, calls, bounds>>

\* Any other result: response text, a tool-delivered silence, or nothing.
WorkDone(r, result) ==
  /\ Ready(r, "work")
  /\ GoTo(r, IF item[r] \in Pulses \/ result # "empty" THEN "complete" ELSE "check")
  /\ UNCHANGED <<row, net, why, seen, teardown, calls, notes, bounds>>

\* Mutant: the handler's exception is logged and not reported.
WorkRaisedSilently(r) ==
  /\ Ready(r, "work")
  /\ FinishTask(r)
  /\ UNCHANGED <<row, net, seen, calls, open, bounds>>

WorkRaised(r) ==
  /\ Ready(r, "work") /\ GoTo(r, "fail")
  /\ UNCHANGED <<row, net, why, seen, teardown, calls, notes, bounds>>

\* _task_is_terminal; a failed lookup counts as "no".
CheckTerminal(r, o) ==
  /\ Ready(r, "check") /\ Post(o)
  /\ IF o = "ok" /\ row[item[r]] = "settled"
     THEN FinishTask(r)
     ELSE GoTo(r, "fail") /\ UNCHANGED <<why, teardown, tried, hits, stuck>>
  /\ UNCHANGED <<row, net, seen, calls, open, drops, crashes, stopped>>

\* complete_task: a transport error or a refusal falls through to fail_task.
Complete(r, o) ==
  /\ Ready(r, "complete") /\ Post(o)
  /\ MoveTask(item[r], "accepted", "settled", Reaches(o))
  /\ IF o = "ok" /\ row[item[r]] = "accepted"
     THEN FinishTask(r)
     ELSE GoTo(r, "fail") /\ UNCHANGED <<why, teardown, tried, hits, stuck>>
  /\ UNCHANGED <<net, seen, calls, open, drops, crashes, stopped>>

\* The [open_subtasks] refusal is a wait signal: the task is left open.
Deferred(r) ==
  /\ Ready(r, "complete") /\ row[item[r]] = "accepted"
  /\ FinishTask(r)
  /\ open' = open \cup {item[r]}
  /\ UNCHANGED <<row, net, seen, calls, bounds>>

Fail(r, o) ==
  /\ Ready(r, "fail") /\ Post(o)
  /\ MoveTask(item[r], "accepted", "settled", Reaches(o))
  /\ FinishTask(r)
  /\ UNCHANGED <<net, seen, calls, open, drops, crashes, stopped>>

----------------------------------------------------------------------------
(* Stop directives and the process.                                        *)

\* _cancel_runs: every run the registry holds under k, and no other.
DeliverStop(k) ==
  /\ up /\ k \in stops
  /\ stops' = stops \ {k}
  /\ struck' = struck \cup active[k]
  /\ UNCHANGED <<row, age, wire, up, linked, pc, item, why, slots, seen, teardown,
                 calls, notes, bounds>>

Hit(r) == hits' = [hits EXCEPT ![r] = IF @ < 2 THEN @ + 1 ELSE @]

\* The CancelledError surfaces where the turn awaits: once in the except
\* path, straight to the teardown if it is already there.  A POST cut short
\* may or may not have reached the server.
InterruptTurn(r, reached) ==
  /\ r \in struck /\ pc[r] \in {"turn", "ack", "reply", "xack", "notice"}
  /\ struck' = struck \ {r}
  /\ IF pc[r] \in {"ack", "xack"} THEN AckRow(item[r], reached) ELSE UNCHANGED row
  /\ pc' = [pc EXCEPT ![r] = IF @ \in {"turn", "ack", "reply"} THEN "xack" ELSE "cleanup"]
  /\ why' = [why EXCEPT ![r] = IF pc[r] \in {"turn", "ack", "reply"}
                               THEN "cancelled" ELSE @]
  /\ Hit(r)
  /\ UNCHANGED <<net, item, slots, seen, teardown, calls, tried, stuck, open, bounds>>

\* In the status-card callbacks: neither acknowledgement nor teardown.
InterruptNotify(r) ==
  /\ r \in struck /\ pc[r] = "notify"
  /\ Finish(r, bubble)
  /\ UNCHANGED <<row, net, waiters, seen, cleanups, calls, open, bounds>>

\* In the teardown itself, which is popped already and may be cut short.
InterruptCleanup(r, cut) ==
  /\ r \in struck /\ pc[r] = "cleanup"
  /\ cleanups' = [cleanups EXCEPT ![item[r]] = NoRun]
  /\ Finish(r, IF cut THEN bubble ELSE bubble \ {cleanups[item[r]]})
  /\ UNCHANGED <<row, net, waiters, seen, calls, open, bounds>>

\* A task run reports nothing when it is stopped.
InterruptTask(r, reached) ==
  /\ r \in struck /\ pc[r] \in TaskStages
  /\ IF pc[r] = "accept" THEN MoveTask(item[r], "claimed", "accepted", reached)
     ELSE MoveTask(item[r], "accepted", "settled",
                   reached /\ pc[r] \in {"complete", "fail"})
  /\ FinishTask(r)
  /\ UNCHANGED <<net, seen, calls, open, bounds>>

\* The process ends: killed, or stop() let its loops return.  No run is
\* cancelled and none reports.
Crash ==
  /\ up /\ crashes < MaxCrashes
  /\ crashes' = crashes + 1
  /\ up' = FALSE /\ linked' = FALSE /\ wire' = {}
  /\ pc' = [r \in Runs |-> "idle"]
  /\ item' = [r \in Runs |-> NoItem]
  /\ why' = [r \in Runs |-> "none"]
  /\ struck' = {}
  /\ waiters' = <<>> /\ permits' = MaxConcurrent
  /\ active' = [k \in Keys |-> {}]
  /\ seen' = [m \in Messages |-> TTL + 1]
  /\ cleanups' = [m \in Messages |-> NoRun]
  /\ bubble' = {}
  /\ turns' = [m \in Messages |-> 0]
  /\ tried' = {} /\ hits' = [r \in Runs |-> 0]
  /\ UNCHANGED <<row, age, stops, begun, stuck, open, lost, drops, stopped>>

\* Registration names the tasks whose CLI run survived; the server requeues them.
Restart ==
  /\ ~up /\ up' = TRUE
  /\ \E resumable \in SUBSET {t \in Tasks : row[t] = "accepted"} :
       row' = [i \in Items |-> IF i \in resumable THEN "queued" ELSE row[i]]
  /\ UNCHANGED <<age, wire, stops, linked, run, slots, seen, teardown, calls, notes, bounds>>

----------------------------------------------------------------------------
AckOutcomes == {"ok", "nosend", "noreply"}

\* The server and the network.
Environment ==
  \/ \E i \in Items : Push(i) \/ Requeue(i)
  \/ \E k \in Keys : Stop(k)
  \/ Drop \/ Tick

\* Receipt of whatever is on the wire.
Dispatch(i) == \E r \in Runs : Receive(r, i) \/ ReceiveDuplicate(r, i)

MessageStep(r) ==
  \/ StartMessage(r) \/ Notified(r) \/ OpenBubble(r)
  \/ \E reply \in BOOLEAN : Return(r, reply)
  \/ \E cause \in {"timeout", "error"} : Raise(r, cause)
  \/ \E o \in AckOutcomes : Ack(r, o) \/ AckAfterFailure(r, o)
  \/ Replied(r) \/ ReplyFailed(r) \/ Notice(r) \/ Cleanup(r)

TaskStep(r) ==
  \/ StartTask(r) \/ FinisherTool(r) \/ ClosedByTool(r) \/ Park(r)
  \/ \E result \in {"text", "delivered", "empty"} : WorkDone(r, result)
  \/ WorkRaised(r) \/ Deferred(r)
  \/ \E o \in AckOutcomes : Accept(r, o) \/ CheckTerminal(r, o) \/ Complete(r, o) \/ Fail(r, o)

Interrupt(r) ==
  \/ \E b \in BOOLEAN : InterruptTurn(r, b) \/ InterruptCleanup(r, b) \/ InterruptTask(r, b)
  \/ InterruptNotify(r)

RunStep(r) ==
  \/ \E o \in AckOutcomes : AckDuplicate(r, o)
  \/ Acquire(r) \/ MessageStep(r) \/ TaskStep(r) \/ Interrupt(r)

Next ==
  \/ Environment
  \/ \E i \in Items : Dispatch(i)
  \/ \E r \in Runs : RunStep(r)
  \/ \E k \in Keys : DeliverStop(k)
  \/ Crash \/ Restart \/ Reconnect

Spec == Init /\ [][Next]_vars

\* The event loop runs every ready coroutine, wait_for ends every handler, the
\* gateway loop and the supervisor reconnect and restart, and the server keeps
\* pushing queued rows and takes back the claims that reach the hard cap.
Fairness ==
  /\ \A i \in Items : WF_vars(Push(i)) /\ WF_vars(Dispatch(i))
                    /\ WF_vars(age[i] = HardCap /\ Requeue(i))
  /\ \A r \in Runs : WF_vars(RunStep(r))
  /\ \A k \in Keys : WF_vars(DeliverStop(k))
  /\ WF_vars(Tick) /\ WF_vars(Restart) /\ WF_vars(Reconnect)

FairSpec == Spec /\ Fairness

----------------------------------------------------------------------------
ServerTypeOK ==
  /\ row \in [Items -> {"queued", "claimed", "accepted", "settled"}]
  /\ age \in [Items -> 0..HardCap]
  /\ wire \subseteq Items /\ stops \subseteq Keys
  /\ up \in BOOLEAN /\ linked \in BOOLEAN

RunTypeOK ==
  /\ pc \in [Runs -> Stages]
  /\ item \in [Runs -> Items \cup {NoItem}]
  /\ waiters \in Seq(Runs) /\ permits \in Nat
  /\ active \in [Keys -> SUBSET Runs]

NoteTypeOK ==
  /\ why \in [Runs -> Outcomes] /\ struck \subseteq Runs
  /\ seen \in [Messages -> 0..TTL + 1]
  /\ cleanups \in [Messages -> Runs \cup {NoRun}]
  /\ bubble \subseteq Runs
  /\ begun \subseteq Messages /\ turns \in [Messages -> 0..2]
  /\ tried \subseteq Runs /\ hits \in [Runs -> 0..2]
  /\ stuck \subseteq Items /\ open \subseteq Tasks

BoundsOK ==
  /\ lost \in 0..MaxLost /\ drops \in 0..MaxDrops
  /\ crashes \in 0..MaxCrashes /\ stopped \in 0..MaxStops

TypeOK == ServerTypeOK /\ RunTypeOK /\ NoteTypeOK /\ BoundsOK

\* What a run serves fits where it is: a row from receipt to the end, a message
\* in the message stages, a task in the task stages.
ItemFits ==
  \A r \in Runs :
    /\ pc[r] = "idle" => item[r] = NoItem
    /\ pc[r] # "idle" => item[r] \in Items
    /\ pc[r] \in MessageStages \cup {"dupack"} => item[r] \in Messages
    /\ pc[r] \in TaskStages => item[r] \in Tasks

\* The line in front of the semaphore holds every parked run once.
LineExact ==
  /\ \A n \in DOMAIN waiters : pc[waiters[n]] = "parked"
  /\ \A r \in Runs : pc[r] = "parked" => \E n \in DOMAIN waiters : waiters[n] = r
  /\ \A n, k \in DOMAIN waiters : waiters[n] = waiters[k] => n = k

\* Every permit of the semaphore is free or held by exactly one run, whatever
\* ended the runs before it: a lost permit would starve the agent for good.
PermitsExact == permits + Cardinality({r \in Runs : pc[r] \in Slotted}) = MaxConcurrent

\* A stop directive cancels what the registry holds, so the registry of a
\* conversation or task is at all times exactly its executing runs.
RegistryExact ==
  \A k \in Keys :
    active[k] = {r \in Runs : pc[r] \in Executing /\ Key(item[r]) = k}

\* The user sees neither a reply nor an error notice before the message was
\* acknowledged (or the attempt failed).  A turn gets to its teardown without
\* the attempt only if a stop caught it in the except path's acknowledgement:
\* its first one after the handler failed, its second one otherwise.
AckedBeforeAnswer ==
  \A r \in Runs :
    /\ pc[r] \in {"reply", "notice"} => r \in tried
    /\ pc[r] = "cleanup" /\ r \notin tried
         => hits[r] = 2 \/ (hits[r] = 1 /\ why[r] \in {"timeout", "error"})

\* The executor implements the turn queue: no more than MaxConcurrent turns at
\* once, begun in the order of receipt, each freeing its place when it ends.
Turns == INSTANCE TurnQueue WITH
           waiting <- waiters,
           running <- {r \in Runs : pc[r] \in Slotted},
           Limit <- MaxConcurrent
ImplementsTurnQueue == Turns!Spec

\* While the server redelivers what it took back without delay, one process
\* runs the turn of a message once: the dedup window outlasts the claim.
OneTurnPerMessage == \A m \in Messages : turns[m] <= 1

\* A turn that got through its teardown leaves no streaming bubble behind.
NoStuckBubble == stuck = {}

\* A turn leaves its message the way the user should find it: acknowledged
\* before it was answered, and its bubble closed.
LeftInOrder == AckedBeforeAnswer /\ NoStuckBubble

\* Two runs never work on one task: only the accept that moves the row starts
\* the handler, so a redelivered or requeued task is not worked twice.
OneRunPerTask ==
  \A r, s \in Runs :
    /\ pc[r] \in TaskStages \ {"accept"} /\ pc[s] \in TaskStages \ {"accept"}
    /\ item[r] = item[s]
    => r = s

\* As long as the process lives and no POST is lost, an accepted task that
\* nothing works on is one the run left open on purpose (parked, or waiting for
\* its sub-tasks).  An accept whose reply is lost does strand the task.
NoStrandedTask ==
  \A t \in Tasks :
    row[t] = "accepted" /\ crashes = 0 /\ lost = 0
    => t \in open \/ \E r \in Runs : item[r] = t

\* A task is worked on by one run, and by one until it is reported or left
\* open on purpose: neither two hands on it nor none.
OneHandPerTask == TypeOK /\ OneRunPerTask /\ NoStrandedTask

\* Whatever is lost on the way (pushes, acknowledgements, the process itself),
\* every message row is settled in the end.
EveryMessageSettles == \A m \in Messages : <>(row[m] = "settled")

\* Every run that waits for a permit gets one, unless the process ends first.
NoStarvation == \A r \in Runs : pc[r] = "parked" ~> pc[r] # "parked"
=============================================================================
