----------------------------- MODULE StreamTurn -----------------------------
(***************************************************************************)
(* The streaming bubble of one message turn: make_stream_callback with its *)
(* ordered sender (agent_bridge.py), the message handler that feeds and    *)
(* closes it, and the executor's turn cleanup (agentchat/executor.py).     *)
(* A frame is its place in the order of emission, 1 being the POST that    *)
(* paints the bubble, and 0 in the queue is the sender's stop sentinel.    *)
(***************************************************************************)
EXTENDS Integers, Sequences, FiniteSets, Functions

CONSTANTS
  Phases,      \* phases a model reports besides "writing"
  MaxFrames,   \* bound: frames the model emits
  MaxLost,     \* bound: POSTs that never arrive
  MaxLate,     \* bound: POSTs that fail here and arrive all the same, later
  MaxCuts      \* bound: stops and timeouts

ASSUME StreamAssumption ==
  /\ Phases \cap {"started", "writing", "complete", "cancelled"} = {}
  /\ MaxFrames \in Nat /\ MaxLost \in Nat /\ MaxLate \in Nat /\ MaxCuts \in Nat

VARIABLES
  pc,       \* the turn: "begin", "model", "posting", "draining", "direct", "tail", "done"
  next,     \* where the turn goes once the bubble is closed
  emitted,  \* the phases of the frames so far, in order of emission
  terminal, \* _stream_terminal
  queue,    \* _send_queue
  wake,     \* _send_wake
  sender,   \* _sender_task: "none", "looking", "waiting", "sending", "ended", "killed"
  sending,  \* the frame being sent, by the sender or by the turn itself
  wire,     \* frames on the way that nobody awaits
  shown,    \* frames the server has got, in order of arrival
  gone,     \* frames lost in transit
  late, cuts

callback == <<emitted, terminal, queue, wake>>
network  == <<wire, shown, gone, late>>
vars     == <<pc, next, callback, sender, sending, network, cuts>>

Terminals == {"complete", "cancelled"}
Frames == 1..MaxFrames + 2
Last == Len(emitted)

Init ==
  /\ pc = "begin" /\ next = "tail"
  /\ emitted = <<>> /\ terminal = FALSE
  /\ queue = <<>> /\ wake = FALSE /\ sender = "none" /\ sending = 0
  /\ wire = {} /\ shown = <<>> /\ gone = {}
  /\ late = 0 /\ cuts = 0

----------------------------------------------------------------------------
(* send_stream_update: a POST whose errors are swallowed.                  *)

Delivered(f) == shown' = Append(shown, f) /\ UNCHANGED <<wire, gone, late>>
Lost(f)      == Cardinality(gone) < MaxLost /\ gone' = gone \cup {f} /\ UNCHANGED <<wire, shown, late>>
Delayed(f)   == late < MaxLate /\ late' = late + 1 /\ wire' = wire \cup {f} /\ UNCHANGED <<shown, gone>>
Posted(f)    == Delivered(f) \/ Lost(f) \/ Delayed(f)

\* A frame nobody awaits arrives.
Arrive(f) ==
  /\ f \in wire
  /\ wire' = wire \ {f} /\ shown' = Append(shown, f)
  /\ UNCHANGED <<pc, next, callback, sender, sending, gone, late, cuts>>

----------------------------------------------------------------------------
(* The sender: drains the queue one POST at a time.                        *)

\* _enqueue starts the sender with the first frame; it runs later.
Enqueue(phase) ==
  /\ emitted' = Append(emitted, phase)
  /\ queue' = Append(queue, Last + 1)
  /\ wake' = TRUE
  /\ sender' = IF sender = "none" THEN "looking" ELSE sender

Writing(f) == f # 0 /\ emitted[f] = "writing"

\* Mutant: everything up to the newest writing frame is collapsed.
CoalescedAcross ==
  IF ~Writing(Head(queue)) THEN 1
  ELSE CHOOSE n \in 1..Len(queue) :
         /\ Writing(queue[n])
         /\ \A k \in n + 1..Len(queue) : ~Writing(queue[k])

\* A run of writing frames at the head counts as its newest: the number of
\* frames taken off the queue for one POST.
Coalesced ==
  IF ~Writing(Head(queue)) THEN 1
  ELSE CHOOSE n \in 1..Len(queue) :
         /\ \A k \in 1..n : Writing(queue[k])
         /\ n < Len(queue) => ~Writing(queue[n + 1])

SenderLooks ==
  /\ sender = "looking"
  /\ \/ /\ queue = <<>> /\ sender' = "waiting" /\ wake' = FALSE
        /\ UNCHANGED <<sending, queue>>
     \/ /\ queue # <<>> /\ Head(queue) = 0 /\ sender' = "ended"
        /\ queue' = Tail(queue) /\ UNCHANGED <<sending, wake>>
     \/ /\ queue # <<>> /\ Head(queue) # 0 /\ sender' = "sending"
        /\ sending' = queue[Coalesced]
        /\ queue' = SubSeq(queue, Coalesced + 1, Len(queue)) /\ UNCHANGED wake
  /\ UNCHANGED <<pc, next, emitted, terminal, network, cuts>>

SenderWakes ==
  /\ sender = "waiting" /\ wake
  /\ sender' = "looking"
  /\ UNCHANGED <<pc, next, callback, sending, network, cuts>>

\* Mutant: the POST is not awaited, fire-and-forget as before the sender.
SentUnawaited ==
  /\ sender = "sending"
  /\ wire' = wire \cup {sending}
  /\ sender' = "looking" /\ sending' = 0
  /\ UNCHANGED <<pc, next, callback, shown, gone, late, cuts>>

Sent ==
  /\ sender = "sending"
  /\ Posted(sending)
  /\ sender' = "looking" /\ sending' = 0
  /\ UNCHANGED <<pc, next, callback, cuts>>

----------------------------------------------------------------------------
(* complete() and cancel(): one terminal frame, after everything queued.   *)

\* Mutant: the second terminal frame is not held back.
CloseAgain(how, then) ==
  /\ terminal' = TRUE /\ next' = then
  /\ emitted' = Append(emitted, how)
  /\ IF sender = "none"
     THEN sending' = Last + 1 /\ pc' = "direct" /\ UNCHANGED <<queue, wake>>
     ELSE /\ queue' = queue \o <<Last + 1, 0>> /\ wake' = TRUE
          /\ pc' = "draining" /\ UNCHANGED sending
  /\ UNCHANGED sender

\* Mutant: the sender is not woken up.
CloseAsleep(how, then) ==
  IF terminal
  THEN pc' = then /\ UNCHANGED <<next, callback, sender, sending>>
  ELSE /\ terminal' = TRUE /\ next' = then
       /\ emitted' = Append(emitted, how)
       /\ IF sender = "none"
          THEN sending' = Last + 1 /\ pc' = "direct" /\ UNCHANGED queue
          ELSE /\ queue' = queue \o <<Last + 1, 0>>
               /\ pc' = "draining" /\ UNCHANGED sending
       /\ UNCHANGED <<wake, sender>>

\* Mutant: a closed callback is left alone, and so is one that sent nothing.
CloseIfUsed(how, then) ==
  IF terminal \/ sender = "none"
  THEN pc' = then /\ UNCHANGED <<next, callback, sender, sending>>
  ELSE /\ terminal' = TRUE /\ next' = then
       /\ emitted' = Append(emitted, how)
       /\ queue' = queue \o <<Last + 1, 0>> /\ wake' = TRUE
       /\ pc' = "draining" /\ UNCHANGED <<sender, sending>>

Close(how, then) ==
  IF terminal
  THEN pc' = then /\ UNCHANGED <<next, callback, sender, sending>>
  ELSE /\ terminal' = TRUE /\ next' = then
       /\ emitted' = Append(emitted, how)
       /\ IF sender = "none"
          THEN sending' = Last + 1 /\ pc' = "direct" /\ UNCHANGED <<queue, wake>>
          ELSE /\ queue' = queue \o <<Last + 1, 0>> /\ wake' = TRUE
               /\ pc' = "draining" /\ UNCHANGED sending
       /\ UNCHANGED sender

\* No update ever flowed: the terminal frame is sent directly.
SentDirectly ==
  /\ pc = "direct"
  /\ Posted(sending)
  /\ sending' = 0 /\ pc' = next
  /\ UNCHANGED <<next, callback, sender, cuts>>

Drained ==
  /\ pc = "draining" /\ sender = "ended"
  /\ pc' = next
  /\ UNCHANGED <<next, callback, sender, sending, network, cuts>>

----------------------------------------------------------------------------
(* The handler, and the executor around it.                                *)

\* The bubble is painted by a task of its own, past the sender's queue.
Begin ==
  /\ pc = "begin"
  /\ pc' = "model"
  /\ emitted' = <<"started">> /\ wire' = {1}
  /\ UNCHANGED <<next, terminal, queue, wake, sender, sending, shown, gone, late, cuts>>

\* on_progress.
Emit(phase) ==
  /\ pc = "model" /\ ~terminal /\ Last <= MaxFrames
  /\ Enqueue(phase)
  /\ UNCHANGED <<pc, next, terminal, sending, network, cuts>>

\* The model has answered; it raised, and a failure reply is due; it chose to
\* be silent; or the mode is code_action, which hands its reply back.
Answered ==
  /\ pc = "model" /\ pc' = "posting"
  /\ UNCHANGED <<next, callback, sender, sending, network, cuts>>

Failed ==
  /\ pc = "model" /\ Close("cancelled", "posting")
  /\ UNCHANGED <<network, cuts>>

Silent ==
  /\ pc = "model" /\ Close("cancelled", "tail")
  /\ UNCHANGED <<network, cuts>>

HandedBack ==
  /\ pc = "model" /\ pc' = "tail"
  /\ UNCHANGED <<next, callback, sender, sending, network, cuts>>

\* The reply is posted, or refused as stale, or failed in transport.
Replied ==
  /\ pc = "posting"
  /\ \E how \in Terminals : Close(how, "tail")
  /\ UNCHANGED <<network, cuts>>

\* Cards, task requests, the ack and notices are behind us: the turn cleanup
\* is the callback's cancel().
CleanUp ==
  /\ pc = "tail" /\ Close("cancelled", "done")
  /\ UNCHANGED <<network, cuts>>

\* A stop or the timeout.  Cancelling an await of the sender cancels the
\* sender, whose POST may have reached the server all the same; what comes
\* next is the rest of the turn, or its end if this was the cleanup.
Cut ==
  /\ pc \in {"model", "posting", "draining", "direct", "tail"} /\ cuts < MaxCuts /\ cuts' = cuts + 1
  /\ pc' = IF pc \in {"draining", "direct"} /\ next = "done" THEN "done" ELSE "tail"
  /\ IF pc = "direct" \/ (pc = "draining" /\ sender = "sending")
     THEN /\ sending' = 0
          /\ \/ wire' = wire \cup {sending} /\ UNCHANGED gone
             \/ gone' = gone \cup {sending} /\ UNCHANGED wire
     ELSE UNCHANGED <<sending, wire, gone>>
  /\ sender' = IF pc = "draining" /\ sender # "ended" THEN "killed" ELSE sender
  /\ UNCHANGED <<next, callback, shown, late>>

----------------------------------------------------------------------------
SenderStep == SenderLooks \/ SenderWakes \/ Sent

TurnStep ==
  \/ Begin \/ Answered \/ Failed \/ Silent \/ HandedBack \/ Replied \/ CleanUp
  \/ SentDirectly \/ Drained

Next ==
  \/ \E f \in Frames : Arrive(f)
  \/ SenderStep \/ TurnStep
  \/ \E p \in Phases \cup {"writing"} : Emit(p)
  \/ Cut

Spec == Init /\ [][Next]_vars

\* Both tasks are scheduled, POSTs end, and the model answers or fails.
Fairness == WF_vars(SenderStep) /\ WF_vars(TurnStep)

FairSpec == Spec /\ Fairness

----------------------------------------------------------------------------
TypeOK ==
  /\ pc \in {"begin", "model", "posting", "draining", "direct", "tail", "done"}
  /\ next \in {"posting", "tail", "done"}
  /\ emitted \in Seq({"started", "writing"} \cup Phases \cup Terminals)
  /\ Last \in 0..MaxFrames + 2 /\ terminal \in BOOLEAN
  /\ queue \in Seq(0..Last) /\ wake \in BOOLEAN
  /\ sender \in {"none", "looking", "waiting", "sending", "ended", "killed"}
  /\ sending \in 0..Last /\ wire \subseteq 1..Last /\ gone \subseteq 1..Last
  /\ shown \in Seq(1..Last) /\ late \in 0..MaxLate /\ cuts \in 0..MaxCuts

\* The frames of the model's events reach the server in the order in which they
\* were emitted, whatever is lost or coalesced on the way.  The POST that paints
\* the bubble is not in the queue and may come later than all of them, and a POST
\* that failed here may be served late.
QueueInOrder ==
  late = 0 => \A n, k \in DOMAIN shown : n < k /\ 1 \notin {shown[n], shown[k]} => shown[n] < shown[k]

\* No frame is dropped by coalescing but a writing frame that a newer one, with
\* nothing in between, has made redundant; what the cut of a sender drops is
\* not the coalescing's doing.
Pending == Range(queue) \cup {sending}
OnlyRedundantDropped ==
  sender # "killed" =>
    \A f \in 1..Last :
      \/ f \in Range(shown) \cup wire \cup gone \cup Pending
      \/ f < Last /\ emitted[f] = "writing" /\ emitted[f + 1] = "writing"

\* A bubble gets one terminal frame, and nothing is emitted after it.
OneTerminal == \A f \in 1..Last : emitted[f] \in Terminals => f = Last

\* Coalescing, lost POSTs and cuts leave a history of the bubble that the
\* server can show: in order, nothing missing that matters, ended once.
FramesExact == TypeOK /\ QueueInOrder /\ OnlyRedundantDropped /\ OneTerminal

\* A turn that is over has handed a terminal frame to the network: the bubble
\* does not spin for ever, whatever ended the turn.
TeardownGuaranteed ==
  pc = "done" =>
    \E f \in Range(shown) \cup wire \cup gone : emitted[f] \in Terminals

\* It has, unless a stop hit the very wait for the sender to finish.
BubbleCloses == sender # "killed" => TeardownGuaranteed

\* The sentinel is the last of the queue from the terminal frame on, until the
\* sender takes it; the other entries are frames, the newest ones.
Closing == terminal /\ sender \notin {"none", "ended"}
Waiting == IF Closing THEN Len(queue) - 1 ELSE Len(queue)

\* The newest frame that was taken off the queue, or was never in it.
Taken == Last - Waiting

Server == INSTANCE Bubble WITH
  Kinds <- {"started", "writing"} \cup Phases \cup Terminals,
  said <- emitted, taken <- Taken, adrift <- wire, lost <- gone

\* The queue, its sender and the turn around them keep what the bubble promises.
ImplementsBubble == Server!Spec

\* The turn ends: waiting for the sender never blocks it for good.
TurnEnds == <>(pc = "done")
=============================================================================
