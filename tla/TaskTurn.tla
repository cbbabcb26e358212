------------------------------ MODULE TaskTurn ------------------------------
(***************************************************************************)
(* One task turn after its accept: handle_task with its progress callback  *)
(* (agent_bridge.py) inside the executor's _handle_task, which settles the *)
(* result (agentchat/executor.py).  The progress callback keeps a          *)
(* heartbeat coroutine of its own, which outlives a handler that raises or *)
(* is cancelled.  The server's task row is external.                       *)
(***************************************************************************)
EXTENDS Naturals

CONSTANTS
  MaxEvents,   \* bound: progress events the model emits
  MaxLost,     \* bound: POSTs that fail in transport
  MaxCuts      \* bound: stops, timeouts, closings by the server

ASSUME TaskAssumption == MaxEvents \in Nat /\ MaxLost \in Nat /\ MaxCuts \in Nat

VARIABLES
  mode, pulse, \* of the task: execution mode, whether it is a pulse
  pc,          \* where the turn awaits
  next,        \* where it goes on after a progress POST
  quiet,       \* _task_terminal
  pending,     \* a throttled event waits to be sent
  beat,        \* the heartbeat: "none", "asleep", "posting", "cancelled", "ended"
  finisher,    \* a finisher tool of this run closed the task
  parked,      \* the result says parked
  row,         \* server: "open", "blocked", "closed"
  directive,   \* a stop_task directive is on its way
  flushed,     \* history: flush() has returned
  deferred,    \* history: completion refused, sub-tasks are open
  unreported,  \* history: the failure report did not arrive
  events, lost, cuts

task     == <<mode, pulse>>
progress == <<next, quiet, pending, beat, flushed, events>>
outcome  == <<finisher, parked, deferred, unreported>>
vars     == <<task, pc, progress, outcome, row, directive, lost, cuts>>

Modes    == {"tool_use", "code_action", "single_shot", "compound"}
Handler  == {"begin", "refusing", "step", "model", "reporting", "flushing", "sending",
             "processing", "results", "parking"}
Executor == {"check", "complete", "fail"}

Init ==
  /\ mode \in Modes /\ pulse \in BOOLEAN
  /\ pc = "begin" /\ next = "model"
  /\ quiet = FALSE /\ pending = FALSE /\ beat = "none" /\ flushed = FALSE
  /\ finisher = FALSE /\ parked = FALSE /\ deferred = FALSE /\ unreported = FALSE
  /\ row = "open" /\ directive = FALSE
  /\ events = 0 /\ lost = 0 /\ cuts = 0

----------------------------------------------------------------------------
(* The server (external) and the POSTs to it.                              *)

Outcomes == {"ok", "nosend", "noreply"}
Post(o) == \/ o = "ok" /\ UNCHANGED lost
           \/ o # "ok" /\ lost < MaxLost /\ lost' = lost + 1
Reaches(o) == o # "nosend"

\* A report moves a task that is not closed yet; on a closed one it is refused.
Move(to, o) == row' = IF Reaches(o) /\ row # "closed" THEN to ELSE row
Taken(o)    == o = "ok" /\ row # "closed"

\* The task is cancelled, which also sends a stop, or the server times it out.
ClosedElsewhere(cancelled) ==
  /\ row # "closed" /\ cuts < MaxCuts /\ cuts' = cuts + 1
  /\ row' = "closed" /\ directive' = cancelled
  /\ UNCHANGED <<task, pc, progress, outcome, lost>>

----------------------------------------------------------------------------
(* make_progress_callback.                                                 *)

Alive == beat \in {"asleep", "posting"}
Arm   == beat' = IF beat \in {"none", "ended"} THEN "asleep" ELSE beat

\* on_progress: an event is dropped when all is over, kept back by the
\* throttle, or sent, which arms the heartbeat first.
OnProgress(forced, then) ==
  \/ quiet /\ pc' = then /\ UNCHANGED <<next, pending, beat>>
  \/ ~quiet /\ ~forced /\ pending' = TRUE /\ pc' = then /\ UNCHANGED <<next, beat>>
  \/ ~quiet /\ Arm /\ pending' = FALSE /\ next' = then /\ pc' = "reporting"

\* 403 and 404 say that the task is over; any other failure is logged.
Reported(o) ==
  /\ pc = "reporting" /\ Post(o)
  /\ quiet' = (quiet \/ (o = "ok" /\ row = "closed"))
  /\ pc' = next
  /\ UNCHANGED <<task, next, pending, beat, flushed, events, outcome, row, directive, cuts>>

BeatWakes ==
  /\ beat = "asleep"
  /\ beat' = IF quiet THEN "ended" ELSE "posting"
  /\ UNCHANGED <<task, pc, next, quiet, pending, flushed, events, outcome, row, directive,
                 lost, cuts>>

\* Mutant: the refusal of a heartbeat is retried like any other failure.
BeatRetriesRefusal(o) ==
  /\ beat = "posting" /\ Post(o)
  /\ beat' = "asleep"
  /\ UNCHANGED <<task, pc, next, quiet, pending, flushed, events, outcome, row, directive, cuts>>

BeatPosted(o) ==
  /\ beat = "posting" /\ Post(o)
  /\ IF o = "ok" /\ row = "closed"
     THEN beat' = "ended" /\ quiet' = TRUE
     ELSE beat' = "asleep" /\ UNCHANGED quiet
  /\ UNCHANGED <<task, pc, next, pending, flushed, events, outcome, row, directive, cuts>>

BeatCancelled ==
  /\ beat = "cancelled"
  /\ beat' = "ended"
  /\ UNCHANGED <<task, pc, next, quiet, pending, flushed, events, outcome, row, directive,
                 lost, cuts>>

\* What was throttled goes out last.
SendsPending ==
  IF pending THEN pc' = "sending" /\ UNCHANGED flushed
             ELSE pc' = "processing" /\ flushed' = TRUE

\* Mutant: flush() leaves on_progress open.
FlushOpen ==
  /\ UNCHANGED quiet
  /\ IF Alive THEN beat' = "cancelled" /\ pc' = "flushing" /\ UNCHANGED flushed
              ELSE SendsPending /\ UNCHANGED beat

\* Mutant: flush() waits for the heartbeat without cancelling it.
FlushWaits ==
  /\ UNCHANGED <<quiet, beat>>
  /\ IF Alive THEN pc' = "flushing" /\ UNCHANGED flushed ELSE SendsPending

\* flush(): no more progress, and the heartbeat is cancelled and awaited.
Flush ==
  /\ quiet' = TRUE
  /\ IF Alive THEN beat' = "cancelled" /\ pc' = "flushing" /\ UNCHANGED flushed
              ELSE SendsPending /\ UNCHANGED beat

Flushed ==
  /\ pc = "flushing" /\ beat = "ended"
  /\ SendsPending
  /\ UNCHANGED <<task, next, quiet, pending, beat, events, outcome, row, directive, lost, cuts>>

PendingSent(o) ==
  /\ pc = "sending" /\ Post(o)
  /\ pending' = FALSE /\ flushed' = TRUE /\ pc' = "processing"
  /\ UNCHANGED <<task, next, quiet, beat, events, outcome, row, directive, cuts>>

----------------------------------------------------------------------------
(* handle_task.                                                            *)

\* Without promptDirectives the handler fails the task itself.
Begin(directives) ==
  /\ pc = "begin"
  /\ pc' = CASE ~directives -> "refusing" [] directives /\ mode = "compound" -> "step"
             [] OTHER -> "model"
  /\ UNCHANGED <<task, progress, outcome, row, directive, lost, cuts>>

\* Where the executor goes with the handler's result: completed_via_tool and
\* parked need no report, a pulse is always silent, an empty result is checked.
Settle(result) ==
  CASE finisher /\ mode = "tool_use" -> "over"
    [] parked' -> "over"
    [] ~parked' /\ (pulse \/ result # "empty") -> "complete"
    [] OTHER -> "check"

\* ... and returns nothing; the executor reports once more.
Refused(o) ==
  /\ pc = "refusing" /\ Post(o)
  /\ Move("closed", o) /\ parked' = FALSE
  /\ pc' = IF Taken(o) THEN (IF pulse THEN "complete" ELSE "check") ELSE "fail"
  /\ UNCHANGED <<task, progress, finisher, deferred, unreported, directive, cuts>>

\* The model calls complete_task or fail_task, in a pulse pulse_report (the
\* server's allowlist): within its tool loop, within a step, or by tags
\* carried out with the results.
FinisherTool ==
  /\ pc \in {"model", "step"} \/ (pc = "results" /\ mode = "single_shot")
  /\ row # "closed"
  /\ row' = "closed" /\ finisher' = TRUE
  /\ UNCHANGED <<task, pc, progress, parked, deferred, unreported, directive, lost, cuts>>

Event(forced) ==
  /\ pc = "model" /\ events < MaxEvents
  /\ events' = events + 1
  /\ OnProgress(forced, "model")
  /\ UNCHANGED <<task, quiet, flushed, outcome, row, directive, lost, cuts>>

Answered ==
  /\ pc = "model" /\ Flush
  /\ UNCHANGED <<task, next, pending, events, outcome, row, directive, lost, cuts>>

\* The stage event after the flush.
Processing ==
  /\ pc = "processing"
  /\ OnProgress(TRUE, "results")
  /\ UNCHANGED <<task, quiet, flushed, events, outcome, row, directive, lost, cuts>>

\* Mutant: the handler's exception is not reported.
RaisedSilently ==
  /\ pc \in {"begin", "step", "model", "results"}
  /\ pc' = "over"
  /\ UNCHANGED <<task, progress, outcome, row, directive, lost, cuts>>

\* The model, a step's report or the handling of the results raises.
Raised ==
  /\ pc \in {"begin", "step", "model", "results"}
  /\ pc' = "fail"
  /\ UNCHANGED <<task, progress, outcome, row, directive, lost, cuts>>

Results == {"text", "empty"} \cup (IF mode = "tool_use" /\ ~pulse THEN {"delivered"} ELSE {})

Returned(result) ==
  /\ pc \in {"step", "results"}
  /\ UNCHANGED parked
  /\ pc' = Settle(result)
  /\ UNCHANGED <<task, progress, finisher, deferred, unreported, row, directive, lost, cuts>>

\* end_turn asked to park, and no finisher ran.
Parks ==
  /\ pc = "results" /\ mode = "tool_use" /\ ~pulse /\ ~finisher
  /\ pc' = "parking"
  /\ UNCHANGED <<task, progress, outcome, row, directive, lost, cuts>>

\* Mutant: the task counts as parked whatever the server says.
ParkedAnyway(result, o) ==
  /\ pc = "parking" /\ Post(o)
  /\ Move("blocked", o) /\ parked' = TRUE
  /\ pc' = Settle(result)
  /\ UNCHANGED <<task, progress, finisher, deferred, unreported, directive, cuts>>

\* A task that cannot be parked is completed as before.
Parked(result, o) ==
  /\ pc = "parking" /\ Post(o)
  /\ Move("blocked", o) /\ parked' = Taken(o)
  /\ pc' = Settle(result)
  /\ UNCHANGED <<task, progress, finisher, deferred, unreported, directive, cuts>>

----------------------------------------------------------------------------
(* _handle_task: one report.                                               *)

Check(o) ==
  /\ pc = "check" /\ Post(o)
  /\ pc' = IF o = "ok" /\ row = "closed" THEN "over" ELSE "fail"
  /\ UNCHANGED <<task, progress, outcome, row, directive, cuts>>

Complete(o) ==
  /\ pc = "complete" /\ Post(o)
  /\ Move("closed", o)
  /\ pc' = IF Taken(o) THEN "over" ELSE "fail"
  /\ UNCHANGED <<task, progress, outcome, directive, cuts>>

\* Sub-tasks are open: not an error, the task waits for them.
Deferred ==
  /\ pc = "complete" /\ row # "closed"
  /\ deferred' = TRUE /\ pc' = "over"
  /\ UNCHANGED <<task, progress, finisher, parked, unreported, row, directive, lost, cuts>>

Fail(o) ==
  /\ pc = "fail" /\ Post(o)
  /\ Move("closed", o) /\ pc' = "over"
  /\ unreported' = ~Reaches(o)
  /\ UNCHANGED <<task, progress, finisher, parked, deferred, directive, cuts>>

----------------------------------------------------------------------------
(* Stops and timeouts.                                                     *)

\* A POST that is cut short has reached the server or has not.
CutShort ==
  \/ UNCHANGED row
  \/ pc \in {"refusing", "complete", "fail"} /\ row' = "closed"
  \/ pc = "parking" /\ row' = IF row = "open" THEN "blocked" ELSE row

\* The CancelledError ends the run without a report, but flush() takes the one
\* that hits its wait for the heartbeat for the heartbeat's own.
Stopped ==
  /\ directive /\ directive' = FALSE /\ pc \in Handler \cup Executor
  /\ IF pc = "flushing" THEN UNCHANGED <<pc, row>> ELSE pc' = "over" /\ CutShort
  /\ UNCHANGED <<task, progress, outcome, lost, cuts>>

\* wait_for cancels the handler, unless flush() swallows that too.
TimedOut ==
  /\ pc \in Handler \ {"flushing"} /\ cuts < MaxCuts /\ cuts' = cuts + 1
  /\ pc' = "fail" /\ CutShort
  /\ UNCHANGED <<task, progress, outcome, directive, lost>>

----------------------------------------------------------------------------
BeatStep == BeatWakes \/ BeatCancelled \/ \E o \in Outcomes : BeatPosted(o)

TurnStep ==
  \/ \E b \in BOOLEAN : Begin(b)
  \/ Flushed \/ Answered \/ Processing \/ Raised \/ Parks \/ Deferred
  \/ \E result \in Results : Returned(result) \/ \E o \in Outcomes : Parked(result, o)
  \/ \E o \in Outcomes :
       Reported(o) \/ PendingSent(o) \/ Refused(o) \/ Check(o) \/ Complete(o) \/ Fail(o)

Next ==
  \/ \E b \in BOOLEAN : ClosedElsewhere(b) \/ Event(b)
  \/ BeatStep \/ TurnStep \/ FinisherTool \/ Stopped \/ TimedOut

Spec == Init /\ [][Next]_vars

\* Both coroutines are scheduled, POSTs end, the model answers or fails.
Fairness == WF_vars(BeatStep) /\ WF_vars(TurnStep)

FairSpec == Spec /\ Fairness

----------------------------------------------------------------------------
\* No progress POST is awaited but within the model's call: next never moves.
TypeOK ==
  /\ mode \in Modes /\ pulse \in BOOLEAN
  /\ pc \in Handler \cup Executor \cup {"over"} /\ next \in {"model"}
  /\ quiet \in BOOLEAN /\ pending \in BOOLEAN /\ flushed \in BOOLEAN
  /\ beat \in {"none", "asleep", "posting", "cancelled", "ended"}
  /\ finisher \in BOOLEAN /\ parked \in BOOLEAN
  /\ deferred \in BOOLEAN /\ unreported \in BOOLEAN
  /\ row \in {"open", "blocked", "closed"} /\ directive \in BOOLEAN
  /\ events \in 0..MaxEvents /\ lost \in 0..MaxLost /\ cuts \in 0..MaxCuts

\* Once flush() has returned no progress report begins, neither from a late
\* event nor from the heartbeat: the run is over for the task card.
NoProgressAfterFlush ==
  [][flushed => /\ pc' = "reporting" => pc = "reporting"
                /\ beat' = "posting" => beat = "posting"]_vars

\* A turn that has ended leaves its heartbeat running only against a closed
\* task, whose next 403 ends it, unless the failure report was lost: then the
\* task looks alive to the server for as long as the bridge is up.
NoGhostProgress == pc = "over" /\ Alive => row = "closed" \/ unreported

\* A heartbeat left behind by a turn does end once the task is closed.
HeartbeatEnds == pc = "over" /\ row = "closed" ~> beat \in {"none", "ended"}

\* Whatever a turn goes through, its task ends closed, or parked with the
\* server's consent, or waiting for sub-tasks, unless the last report was lost.
Accounted ==
  pc = "over" =>
    \/ row = "closed" \/ deferred \/ unreported
    \/ row = "blocked" /\ parked

\* What the bridge and the server think of the task agrees when the turn ends.
TaskSettled == TypeOK /\ Accounted

\* The turn ends: the wait for the cancelled heartbeat does not block it.
TurnEnds == <>(pc = "over")

\* Both coroutines end, and after flush() the run is quiet.
Quiets == TurnEnds /\ HeartbeatEnds /\ NoProgressAfterFlush
=============================================================================
