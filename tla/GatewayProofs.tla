--------------------------- MODULE GatewayProofs ---------------------------
(***************************************************************************)
(* Proofs about Gateway, for every set of rows and runs and every bound.   *)
(* Only a few things ever happen to the line, the permits, the registries  *)
(* and a run's place: the shapes below.  A step of the executor is first   *)
(* shown to have one of these shapes; the invariants are then preserved by *)
(* each shape.  The last parts are about what the runs do to their rows:   *)
(* who works on a task, and what the turn of a message leaves behind.      *)
(***************************************************************************)
EXTENDS Gateway, FiniteSetTheorems, TLAPS

Stays == UNCHANGED <<pc, item, waiters, permits, active>>

LinesUp(r, i) ==
  /\ pc[r] = "idle" /\ i \in Items
  /\ pc' = [pc EXCEPT ![r] = "parked"] /\ item' = [item EXCEPT ![r] = i]
  /\ waiters' = Append(waiters, r) /\ UNCHANGED <<permits, active>>

BeginsAck(r, i) ==
  /\ pc[r] = "idle" /\ i \in Messages
  /\ pc' = [pc EXCEPT ![r] = "dupack"] /\ item' = [item EXCEPT ![r] = i]
  /\ UNCHANGED <<waiters, permits, active>>

EndsAck(r) ==
  /\ pc[r] = "dupack"
  /\ pc' = [pc EXCEPT ![r] = "idle"] /\ item' = [item EXCEPT ![r] = NoItem]
  /\ UNCHANGED <<waiters, permits, active>>

TakesPermit(r) ==
  /\ waiters # <<>> /\ r = Head(waiters) /\ permits > 0
  /\ waiters' = Tail(waiters) /\ permits' = permits - 1
  /\ pc' = [pc EXCEPT ![r] = "starting"] /\ UNCHANGED <<item, active>>

Begins(r, s) ==
  /\ pc[r] = "starting"
  /\ \/ item[r] \in Messages /\ s \in MessageStages
     \/ item[r] \in Tasks /\ s \in TaskStages
  /\ pc' = [pc EXCEPT ![r] = s] /\ Register(r)
  /\ UNCHANGED <<item, waiters, permits>>

Moves(r, s) ==
  /\ \/ pc[r] \in MessageStages /\ s \in MessageStages
     \/ pc[r] \in TaskStages /\ s \in TaskStages
  /\ pc' = [pc EXCEPT ![r] = s]
  /\ UNCHANGED <<item, waiters, permits, active>>

Ends(r) ==
  /\ pc[r] \in Executing
  /\ pc' = [pc EXCEPT ![r] = "idle"] /\ item' = [item EXCEPT ![r] = NoItem]
  /\ active' = [active EXCEPT ![Key(item[r])] = @ \ {r}]
  /\ permits' = permits + 1 /\ UNCHANGED waiters

Clears ==
  /\ pc' = [r \in Runs |-> "idle"] /\ item' = [r \in Runs |-> NoItem]
  /\ waiters' = <<>> /\ permits' = MaxConcurrent
  /\ active' = [k \in Keys |-> {}]

Shaped ==
  \/ Stays \/ Clears
  \/ \E r \in Runs :
       \/ \E i \in Items : LinesUp(r, i) \/ BeginsAck(r, i)
       \/ EndsAck(r) \/ TakesPermit(r) \/ Ends(r)
       \/ \E s \in Executing : Begins(r, s) \/ Moves(r, s)

(* The server and the network move nothing the shapes are about. *)
LEMMA EnvironmentShape ==
  ASSUME Environment
  PROVE  Shaped
<1> USE DEF Executing, MessageStages, TaskStages, run, slots
<1>1. ASSUME NEW i \in Items, Push(i) PROVE Shaped
  <2>1. Stays
    BY <1>1 DEF Push, Stays
  <2> QED BY <2>1 DEF Shaped
<1>2. ASSUME NEW i \in Items, Requeue(i) PROVE Shaped
  <2>1. Stays
    BY <1>2 DEF Requeue, Stays
  <2> QED BY <2>1 DEF Shaped
<1>3. ASSUME NEW k \in Keys, Stop(k) PROVE Shaped
  <2>1. Stays
    BY <1>3 DEF Stop, Stays
  <2> QED BY <2>1 DEF Shaped
<1>4. CASE Drop
  <2>1. Stays  BY <1>4 DEF Drop, Stays
  <2> QED BY <2>1 DEF Shaped
<1>5. CASE Tick
  <2>1. Stays  BY <1>5 DEF Tick, Stays
  <2> QED BY <2>1 DEF Shaped
<1> QED BY <1>1, <1>2, <1>3, <1>4, <1>5 DEF Environment, AckOutcomes

\* A step of a message run moves it from stage to stage, begins it or ends it.
LEMMA MessageShape ==
  ASSUME NEW r \in Runs, MessageStep(r)
  PROVE  Shaped
<1> USE DEF Executing, MessageStages, TaskStages, run, slots
<1>1. ASSUME StartMessage(r) PROVE Shaped
  <2>1. \E s \in Executing : Begins(r, s)
    BY <1>1 DEF StartMessage, Begins, Executing, MessageStages
  <2> QED BY <2>1 DEF Shaped
<1>2. ASSUME Notified(r) PROVE Shaped
  <2>1. Moves(r, "turn")
    BY <1>2 DEF Notified, Ready, GoTo, Moves
  <2> QED BY <2>1 DEF Shaped
<1>3. ASSUME OpenBubble(r) PROVE Shaped
  <2>1. Stays
    BY <1>3 DEF OpenBubble, Stays
  <2> QED BY <2>1 DEF Shaped
<1>4. ASSUME NEW reply \in BOOLEAN, Return(r, reply) PROVE Shaped
  <2>1. Moves(r, "ack")
    BY <1>4 DEF Return, Ready, GoTo, Moves
  <2> QED BY <2>1 DEF Shaped
<1>5. ASSUME NEW cause \in {"timeout", "error"}, Raise(r, cause) PROVE Shaped
  <2>1. Moves(r, "xack")
    BY <1>5 DEF Raise, Ready, GoTo, Moves
  <2> QED BY <2>1 DEF Shaped
<1>6. ASSUME NEW o \in AckOutcomes, Ack(r, o) PROVE Shaped
  <2>1. \E s \in Executing : Moves(r, s)
    BY <1>6 DEF Ack, Ready, GoTo, Moves
  <2> QED BY <2>1 DEF Shaped
<1>7. ASSUME NEW o \in AckOutcomes, AckAfterFailure(r, o) PROVE Shaped
  <2>1. \E s \in Executing : Moves(r, s)
    BY <1>7 DEF AckAfterFailure, Ready, GoTo, Moves
  <2> QED BY <2>1 DEF Shaped
<1>8. ASSUME Replied(r) PROVE Shaped
  <2>1. Moves(r, "cleanup")
    BY <1>8 DEF Replied, Ready, GoTo, Moves
  <2> QED BY <2>1 DEF Shaped
<1>9. ASSUME ReplyFailed(r) PROVE Shaped
  <2>1. Moves(r, "xack")
    BY <1>9 DEF ReplyFailed, Ready, GoTo, Moves
  <2> QED BY <2>1 DEF Shaped
<1>10. ASSUME Notice(r) PROVE Shaped
  <2>1. Moves(r, "cleanup")
    BY <1>10 DEF Notice, Ready, GoTo, Moves
  <2> QED BY <2>1 DEF Shaped
<1>11. ASSUME Cleanup(r) PROVE Shaped
  <2>1. Ends(r)
    BY <1>11 DEF Cleanup, Ready, Finish, Release, Ends
  <2> QED BY <2>1 DEF Shaped
<1> QED BY <1>1, <1>2, <1>3, <1>4, <1>5, <1>6, <1>7, <1>8, <1>9, <1>10, <1>11 DEF MessageStep, AckOutcomes

\* So does a step of a task run.
LEMMA TaskShape ==
  ASSUME NEW r \in Runs, TaskStep(r)
  PROVE  Shaped
<1> USE DEF Executing, MessageStages, TaskStages, run, slots
<1>1. ASSUME StartTask(r) PROVE Shaped
  <2>1. Begins(r, "accept")
    BY <1>1 DEF StartTask, Begins, TaskStages
  <2> QED BY <2>1 DEF Shaped
<1>2. ASSUME FinisherTool(r) PROVE Shaped
  <2>1. Stays
    BY <1>2 DEF FinisherTool, Stays
  <2> QED BY <2>1 DEF Shaped
<1>3. ASSUME ClosedByTool(r) PROVE Shaped
  <2>1. Ends(r)
    BY <1>3 DEF ClosedByTool, Ready, FinishTask, Finish, Release, Ends
  <2> QED BY <2>1 DEF Shaped
<1>4. ASSUME Park(r) PROVE Shaped
  <2>1. Ends(r)
    BY <1>4 DEF Park, Ready, FinishTask, Finish, Release, Ends
  <2> QED BY <2>1 DEF Shaped
<1>5. ASSUME NEW result \in {"text", "delivered", "empty"}, WorkDone(r, result) PROVE Shaped
  <2>1. \E s \in Executing : Moves(r, s)
    BY <1>5 DEF WorkDone, Ready, GoTo, Moves
  <2> QED BY <2>1 DEF Shaped
<1>6. ASSUME WorkRaised(r) PROVE Shaped
  <2>1. Moves(r, "fail")
    BY <1>6 DEF WorkRaised, Ready, GoTo, Moves
  <2> QED BY <2>1 DEF Shaped
<1>7. ASSUME Deferred(r) PROVE Shaped
  <2>1. Ends(r)
    BY <1>7 DEF Deferred, Ready, FinishTask, Finish, Release, Ends
  <2> QED BY <2>1 DEF Shaped
<1>8. ASSUME NEW o \in AckOutcomes, Accept(r, o) PROVE Shaped
  <2>1. Moves(r, "work") \/ Ends(r)
    BY <1>8 DEF Accept, Ready, GoTo, FinishTask, Finish, Release, Moves, Ends
  <2> QED BY <2>1 DEF Shaped
<1>9. ASSUME NEW o \in AckOutcomes, CheckTerminal(r, o) PROVE Shaped
  <2>1. Moves(r, "fail") \/ Ends(r)
    BY <1>9 DEF CheckTerminal, Ready, GoTo, FinishTask, Finish, Release, Moves, Ends
  <2> QED BY <2>1 DEF Shaped
<1>10. ASSUME NEW o \in AckOutcomes, Complete(r, o) PROVE Shaped
  <2>1. Moves(r, "fail") \/ Ends(r)
    BY <1>10 DEF Complete, Ready, GoTo, FinishTask, Finish, Release, Moves, Ends
  <2> QED BY <2>1 DEF Shaped
<1>11. ASSUME NEW o \in AckOutcomes, Fail(r, o) PROVE Shaped
  <2>1. Ends(r)
    BY <1>11 DEF Fail, Ready, FinishTask, Finish, Release, Ends
  <2> QED BY <2>1 DEF Shaped
<1> QED BY <1>1, <1>2, <1>3, <1>4, <1>5, <1>6, <1>7, <1>8, <1>9, <1>10, <1>11 DEF TaskStep, AckOutcomes

\* A cancellation moves a turn on to its except path or ends the run.
LEMMA InterruptShape ==
  ASSUME NEW r \in Runs, Interrupt(r)
  PROVE  Shaped
<1> USE DEF Executing, MessageStages, TaskStages, run, slots
<1>1. ASSUME NEW b \in BOOLEAN, InterruptTurn(r, b) PROVE Shaped
  <2>1. \E s \in Executing : Moves(r, s)
    BY <1>1 DEF InterruptTurn, Moves
  <2> QED BY <2>1 DEF Shaped
<1>2. ASSUME NEW b \in BOOLEAN, InterruptCleanup(r, b) PROVE Shaped
  <2>1. Ends(r)
    BY <1>2 DEF InterruptCleanup, Finish, Release, Ends
  <2> QED BY <2>1 DEF Shaped
<1>3. ASSUME NEW b \in BOOLEAN, InterruptTask(r, b) PROVE Shaped
  <2>1. Ends(r)
    BY <1>3 DEF InterruptTask, FinishTask, Finish, Release, Ends
  <2> QED BY <2>1 DEF Shaped
<1>4. ASSUME InterruptNotify(r) PROVE Shaped
  <2>1. Ends(r)
    BY <1>4 DEF InterruptNotify, Finish, Release, Ends
  <2> QED BY <2>1 DEF Shaped
<1> QED BY <1>1, <1>2, <1>3, <1>4 DEF Interrupt, AckOutcomes

\* Every step of the executor and of its environment has one of the shapes.
LEMMA StepShape == ASSUME [Next]_vars PROVE Shaped
<1> USE DEF run, slots
<1>1. CASE UNCHANGED vars
  BY <1>1 DEF vars, Shaped, Stays
<1>2. CASE Environment
  BY <1>2, EnvironmentShape
<1>3. ASSUME NEW i \in Items, NEW r \in Runs, Receive(r, i) PROVE Shaped
  BY <1>3 DEF Receive, Shaped, LinesUp
<1>4. ASSUME NEW i \in Items, NEW r \in Runs, ReceiveDuplicate(r, i) PROVE Shaped
  BY <1>4 DEF ReceiveDuplicate, IsDuplicate, Shaped, BeginsAck
<1>5. ASSUME NEW r \in Runs, NEW o \in AckOutcomes, AckDuplicate(r, o) PROVE Shaped
  BY <1>5 DEF AckDuplicate, Shaped, EndsAck
<1>6. ASSUME NEW r \in Runs, Acquire(r) PROVE Shaped
  BY <1>6 DEF Acquire, Shaped, TakesPermit
<1>7. ASSUME NEW r \in Runs, MessageStep(r) \/ TaskStep(r) \/ Interrupt(r) PROVE Shaped
  BY <1>7, MessageShape, TaskShape, InterruptShape
<1>8. ASSUME NEW k \in Keys, DeliverStop(k) PROVE Shaped
  BY <1>8 DEF DeliverStop, Shaped, Stays
<1>9. CASE Crash
  BY <1>9 DEF Crash, Shaped, Clears
<1>10. CASE Restart \/ Reconnect
  BY <1>10 DEF Restart, Reconnect, Shaped, Stays
<1> QED
  BY <1>1, <1>2, <1>3, <1>4, <1>5, <1>6, <1>7, <1>8, <1>9, <1>10 DEF Next, Dispatch, RunStep

----------------------------------------------------------------------------
(* What the operators the actions are built from do to the types.          *)

\* A POST that fails is counted and never exceeds the bound.
LEMMA PostKeepsBounds ==
  ASSUME lost \in 0..MaxLost, NEW o, Post(o)
  PROVE  lost' \in 0..MaxLost
  BY GatewayAssumption DEF Post

\* An acknowledgement settles a row and leaves every other value of the rows.
LEMMA AckRowType ==
  ASSUME ServerTypeOK, NEW m, NEW b, AckRow(m, b)
  PROVE  row' \in [Items -> {"queued", "claimed", "accepted", "settled"}]
  BY DEF ServerTypeOK, AckRow

\* A task endpoint moves a row within the states a row may have.
LEMMA MoveTaskType ==
  ASSUME ServerTypeOK, NEW t, NEW from, NEW to \in {"accepted", "settled"}, NEW b,
         MoveTask(t, from, to, b)
  PROVE  row' \in [Items -> {"queued", "claimed", "accepted", "settled"}]
  BY DEF ServerTypeOK, MoveTask

\* A handler call is counted up to two.
LEMMA CallType ==
  ASSUME NoteTypeOK, NEW m \in Messages, CallHandler(m)
  PROVE  begun' \subseteq Messages /\ turns' \in [Messages -> 0..2]
  BY DEF NoteTypeOK, CallHandler

\* A cancellation that reaches a run is counted up to two.
LEMMA HitType ==
  ASSUME NoteTypeOK, NEW r \in Runs, Hit(r)
  PROVE  hits' \in [Runs -> 0..2]
  BY DEF NoteTypeOK, Hit

\* The end of a run resets what is kept about it.
LEMMA FinishTypes ==
  ASSUME NoteTypeOK, ItemFits, NEW r \in Runs, pc[r] \in Slotted,
         NEW shown \in SUBSET Runs, Finish(r, shown)
  PROVE  /\ why' \in [Runs -> Outcomes] /\ struck' \subseteq Runs
         /\ bubble' \subseteq Runs /\ stuck' \subseteq Items
         /\ tried' \subseteq Runs /\ hits' \in [Runs -> 0..2]
<1>1. item[r] \in Items
  BY DEF ItemFits, Slotted, Executing, MessageStages, TaskStages
<1>2. why' \in [Runs -> Outcomes] /\ struck' \subseteq Runs
  BY DEF NoteTypeOK, Finish, Outcomes
<1>3. bubble' \subseteq Runs /\ stuck' \subseteq Items
  BY <1>1 DEF NoteTypeOK, Finish
<1>4. tried' \subseteq Runs /\ hits' \in [Runs -> 0..2]
  BY DEF NoteTypeOK, Finish
<1> QED BY <1>2, <1>3, <1>4

\* The end of a task run leaves the turn cleanups alone.
LEMMA FinishTaskTypes ==
  ASSUME NoteTypeOK, ItemFits, NEW r \in Runs, pc[r] \in Slotted, FinishTask(r)
  PROVE  /\ why' \in [Runs -> Outcomes] /\ struck' \subseteq Runs
         /\ bubble' \subseteq Runs /\ stuck' \subseteq Items /\ cleanups' = cleanups
         /\ tried' \subseteq Runs /\ hits' \in [Runs -> 0..2]
  BY FinishTypes DEF FinishTask, NoteTypeOK

(* Everything TypeOK says except about the variables of the shapes. *)
TypeRest == ServerTypeOK /\ NoteTypeOK /\ BoundsOK

\* The server and the network keep the types of all but the runs.
LEMMA EnvironmentTypes ==
  ASSUME TypeOK, ItemFits, Environment
  PROVE  TypeRest'
<1> USE DEF TypeOK
<1>1. ASSUME NEW i \in Items, Push(i) PROVE TypeRest'
  <2>1. ServerTypeOK'
    BY <1>1, GatewayAssumption DEF Push, ServerTypeOK, net
  <2>2. NoteTypeOK'
    BY <1>1 DEF Push, NoteTypeOK, teardown, calls, notes, run
  <2>3. BoundsOK'
    BY <1>1 DEF Push, BoundsOK, bounds
  <2> QED BY <2>1, <2>2, <2>3 DEF TypeRest
<1>2. ASSUME NEW i \in Items, Requeue(i) PROVE TypeRest'
  <2>1. ServerTypeOK'
    BY <1>2 DEF Requeue, ServerTypeOK, net
  <2>2. NoteTypeOK'
    BY <1>2 DEF Requeue, NoteTypeOK, teardown, calls, notes, run
  <2>3. BoundsOK'
    BY <1>2 DEF Requeue, BoundsOK, bounds
  <2> QED BY <2>1, <2>2, <2>3 DEF TypeRest
<1>3. ASSUME NEW k \in Keys, Stop(k) PROVE TypeRest'
  <2>1. ServerTypeOK'
    BY <1>3 DEF Stop, ServerTypeOK, net
  <2>2. NoteTypeOK'
    BY <1>3 DEF Stop, NoteTypeOK, teardown, calls, notes, run
  <2>3. BoundsOK'
    BY <1>3, GatewayAssumption DEF Stop, BoundsOK, bounds
  <2> QED BY <2>1, <2>2, <2>3 DEF TypeRest
<1>4. CASE Drop
  <2>1. ServerTypeOK'
    BY <1>4 DEF Drop, ServerTypeOK, net
  <2>2. NoteTypeOK'
    BY <1>4 DEF Drop, NoteTypeOK, teardown, calls, notes, run
  <2>3. BoundsOK'
    BY <1>4, GatewayAssumption DEF Drop, BoundsOK, bounds
  <2> QED BY <2>1, <2>2, <2>3 DEF TypeRest
<1>5. CASE Tick
  <2>1. ServerTypeOK'
    BY <1>5, GatewayAssumption DEF Tick, ServerTypeOK, net
  <2>2. NoteTypeOK'
    BY <1>5, GatewayAssumption DEF Tick, NoteTypeOK, teardown, calls, notes, run
  <2>3. BoundsOK'
    BY <1>5 DEF Tick, BoundsOK, bounds
  <2> QED BY <2>1, <2>2, <2>3 DEF TypeRest
<1> QED BY <1>1, <1>2, <1>3, <1>4, <1>5 DEF Environment, AckOutcomes

\* A step of a message run keeps them.
LEMMA MessageTypes ==
  ASSUME TypeOK, ItemFits, NEW r \in Runs, MessageStep(r)
  PROVE  TypeRest'
<1> USE DEF TypeOK
<1>1. ASSUME StartMessage(r) PROVE TypeRest'
  <2>1. ServerTypeOK'
    BY <1>1 DEF StartMessage, ServerTypeOK, net
  <2>2. NoteTypeOK'
    BY <1>1, CallType DEF StartMessage, NoteTypeOK, teardown, calls, notes, run, ItemFits, MessageStages, TaskStages, Slotted, Executing
  <2>3. BoundsOK'
    BY <1>1 DEF StartMessage, BoundsOK, bounds
  <2> QED BY <2>1, <2>2, <2>3 DEF TypeRest
<1>2. ASSUME Notified(r) PROVE TypeRest'
  <2>1. ServerTypeOK'
    BY <1>2 DEF Notified, ServerTypeOK, net
  <2>2. NoteTypeOK'
    BY <1>2, CallType DEF Notified, NoteTypeOK, teardown, calls, notes, run, Ready, GoTo, ItemFits, MessageStages, TaskStages, Slotted, Executing
  <2>3. BoundsOK'
    BY <1>2 DEF Notified, BoundsOK, bounds
  <2> QED BY <2>1, <2>2, <2>3 DEF TypeRest
<1>3. ASSUME OpenBubble(r) PROVE TypeRest'
  <2>1. ServerTypeOK'
    BY <1>3 DEF OpenBubble, ServerTypeOK, net
  <2>2. NoteTypeOK'
    BY <1>3 DEF OpenBubble, NoteTypeOK, teardown, calls, notes, run, Ready, ItemFits, MessageStages, TaskStages, Slotted, Executing
  <2>3. BoundsOK'
    BY <1>3 DEF OpenBubble, BoundsOK, bounds
  <2> QED BY <2>1, <2>2, <2>3 DEF TypeRest
<1>4. ASSUME NEW reply \in BOOLEAN, Return(r, reply) PROVE TypeRest'
  <2>1. ServerTypeOK'
    BY <1>4 DEF Return, ServerTypeOK, net
  <2>2. NoteTypeOK'
    BY <1>4 DEF Return, NoteTypeOK, teardown, calls, notes, run, Ready, GoTo, ItemFits, MessageStages, TaskStages, Slotted, Executing, Outcomes
  <2>3. BoundsOK'
    BY <1>4 DEF Return, BoundsOK, bounds
  <2> QED BY <2>1, <2>2, <2>3 DEF TypeRest
<1>5. ASSUME NEW cause \in {"timeout", "error"}, Raise(r, cause) PROVE TypeRest'
  <2>1. ServerTypeOK'
    BY <1>5 DEF Raise, ServerTypeOK, net
  <2>2. NoteTypeOK'
    BY <1>5 DEF Raise, NoteTypeOK, teardown, calls, notes, run, Ready, GoTo, Outcomes
  <2>3. BoundsOK'
    BY <1>5 DEF Raise, BoundsOK, bounds
  <2> QED BY <2>1, <2>2, <2>3 DEF TypeRest
<1>6. ASSUME NEW o \in AckOutcomes, Ack(r, o) PROVE TypeRest'
  <2>1. ServerTypeOK'
    BY <1>6, AckRowType DEF Ack, ServerTypeOK, net
  <2>2. NoteTypeOK'
    BY <1>6 DEF Ack, NoteTypeOK, teardown, calls, notes, run, Ready, GoTo
  <2>3. BoundsOK'
    BY <1>6, PostKeepsBounds DEF Ack, BoundsOK, bounds
  <2> QED BY <2>1, <2>2, <2>3 DEF TypeRest
<1>7. ASSUME NEW o \in AckOutcomes, AckAfterFailure(r, o) PROVE TypeRest'
  <2>1. ServerTypeOK'
    BY <1>7, AckRowType DEF AckAfterFailure, ServerTypeOK, net
  <2>2. NoteTypeOK'
    BY <1>7 DEF AckAfterFailure, NoteTypeOK, teardown, calls, notes, run, Ready, GoTo
  <2>3. BoundsOK'
    BY <1>7, PostKeepsBounds DEF AckAfterFailure, BoundsOK, bounds
  <2> QED BY <2>1, <2>2, <2>3 DEF TypeRest
<1>8. ASSUME Replied(r) PROVE TypeRest'
  <2>1. ServerTypeOK'
    BY <1>8 DEF Replied, ServerTypeOK, net
  <2>2. NoteTypeOK'
    BY <1>8 DEF Replied, NoteTypeOK, teardown, calls, notes, run, Ready, GoTo
  <2>3. BoundsOK'
    BY <1>8 DEF Replied, BoundsOK, bounds
  <2> QED BY <2>1, <2>2, <2>3 DEF TypeRest
<1>9. ASSUME ReplyFailed(r) PROVE TypeRest'
  <2>1. ServerTypeOK'
    BY <1>9 DEF ReplyFailed, ServerTypeOK, net
  <2>2. NoteTypeOK'
    BY <1>9 DEF ReplyFailed, NoteTypeOK, teardown, calls, notes, run, Ready, GoTo, Outcomes
  <2>3. BoundsOK'
    BY <1>9 DEF ReplyFailed, BoundsOK, bounds
  <2> QED BY <2>1, <2>2, <2>3 DEF TypeRest
<1>10. ASSUME Notice(r) PROVE TypeRest'
  <2>1. ServerTypeOK'
    BY <1>10 DEF Notice, ServerTypeOK, net
  <2>2. NoteTypeOK'
    BY <1>10 DEF Notice, NoteTypeOK, teardown, calls, notes, run, Ready, GoTo
  <2>3. BoundsOK'
    BY <1>10 DEF Notice, BoundsOK, bounds
  <2> QED BY <2>1, <2>2, <2>3 DEF TypeRest
<1>11. ASSUME Cleanup(r) PROVE TypeRest'
  <2>1. ServerTypeOK'
    BY <1>11 DEF Cleanup, ServerTypeOK, net
  <2>2. NoteTypeOK'
    BY <1>11, FinishTypes DEF Cleanup, NoteTypeOK, teardown, calls, notes, run, Ready, ItemFits, MessageStages, TaskStages, Slotted, Executing
  <2>3. BoundsOK'
    BY <1>11 DEF Cleanup, BoundsOK, bounds
  <2> QED BY <2>1, <2>2, <2>3 DEF TypeRest
<1> QED BY <1>1, <1>2, <1>3, <1>4, <1>5, <1>6, <1>7, <1>8, <1>9, <1>10, <1>11 DEF MessageStep, AckOutcomes

\* A step of a task run keeps them.
LEMMA TaskTypes ==
  ASSUME TypeOK, ItemFits, NEW r \in Runs, TaskStep(r)
  PROVE  TypeRest'
<1> USE DEF TypeOK
<1>1. ASSUME StartTask(r) PROVE TypeRest'
  <2>1. ServerTypeOK'
    BY <1>1 DEF StartTask, ServerTypeOK, net
  <2>2. NoteTypeOK'
    BY <1>1 DEF StartTask, NoteTypeOK, teardown, calls, notes, run
  <2>3. BoundsOK'
    BY <1>1 DEF StartTask, BoundsOK, bounds
  <2> QED BY <2>1, <2>2, <2>3 DEF TypeRest
<1>2. ASSUME FinisherTool(r) PROVE TypeRest'
  <2>1. ServerTypeOK'
    BY <1>2, MoveTaskType DEF FinisherTool, ServerTypeOK, net
  <2>2. NoteTypeOK'
    BY <1>2 DEF FinisherTool, NoteTypeOK, teardown, calls, notes, run, Ready
  <2>3. BoundsOK'
    BY <1>2 DEF FinisherTool, BoundsOK, bounds
  <2> QED BY <2>1, <2>2, <2>3 DEF TypeRest
<1>3. ASSUME ClosedByTool(r) PROVE TypeRest'
  <2>1. ServerTypeOK'
    BY <1>3 DEF ClosedByTool, ServerTypeOK, net
  <2>2. NoteTypeOK'
    BY <1>3, FinishTaskTypes DEF ClosedByTool, NoteTypeOK, teardown, calls, notes, run, Ready, ItemFits, MessageStages, TaskStages, Slotted, Executing
  <2>3. BoundsOK'
    BY <1>3 DEF ClosedByTool, BoundsOK, bounds
  <2> QED BY <2>1, <2>2, <2>3 DEF TypeRest
<1>4. ASSUME Park(r) PROVE TypeRest'
  <2>1. ServerTypeOK'
    BY <1>4 DEF Park, ServerTypeOK, net
  <2>2. NoteTypeOK'
    BY <1>4, FinishTaskTypes DEF Park, NoteTypeOK, teardown, calls, notes, run, Ready, ItemFits, MessageStages, TaskStages, Slotted, Executing
  <2>3. BoundsOK'
    BY <1>4 DEF Park, BoundsOK, bounds
  <2> QED BY <2>1, <2>2, <2>3 DEF TypeRest
<1>5. ASSUME NEW result \in {"text", "delivered", "empty"}, WorkDone(r, result) PROVE TypeRest'
  <2>1. ServerTypeOK'
    BY <1>5 DEF WorkDone, ServerTypeOK, net
  <2>2. NoteTypeOK'
    BY <1>5 DEF WorkDone, NoteTypeOK, teardown, calls, notes, run, Ready, GoTo
  <2>3. BoundsOK'
    BY <1>5 DEF WorkDone, BoundsOK, bounds
  <2> QED BY <2>1, <2>2, <2>3 DEF TypeRest
<1>6. ASSUME WorkRaised(r) PROVE TypeRest'
  <2>1. ServerTypeOK'
    BY <1>6 DEF WorkRaised, ServerTypeOK, net
  <2>2. NoteTypeOK'
    BY <1>6 DEF WorkRaised, NoteTypeOK, teardown, calls, notes, run, Ready, GoTo
  <2>3. BoundsOK'
    BY <1>6 DEF WorkRaised, BoundsOK, bounds
  <2> QED BY <2>1, <2>2, <2>3 DEF TypeRest
<1>7. ASSUME Deferred(r) PROVE TypeRest'
  <2>1. ServerTypeOK'
    BY <1>7 DEF Deferred, ServerTypeOK, net
  <2>2. NoteTypeOK'
    BY <1>7, FinishTaskTypes DEF Deferred, NoteTypeOK, teardown, calls, notes, run, Ready, ItemFits, MessageStages, TaskStages, Slotted, Executing
  <2>3. BoundsOK'
    BY <1>7 DEF Deferred, BoundsOK, bounds
  <2> QED BY <2>1, <2>2, <2>3 DEF TypeRest
<1>8. ASSUME NEW o \in AckOutcomes, Accept(r, o) PROVE TypeRest'
  <2>1. ServerTypeOK'
    BY <1>8, MoveTaskType DEF Accept, ServerTypeOK, net
  <2>2. NoteTypeOK'
    BY <1>8, FinishTaskTypes DEF Accept, NoteTypeOK, teardown, calls, notes, run, Ready, GoTo, ItemFits, MessageStages, TaskStages, Slotted, Executing
  <2>3. BoundsOK'
    BY <1>8, PostKeepsBounds DEF Accept, BoundsOK, bounds
  <2> QED BY <2>1, <2>2, <2>3 DEF TypeRest
<1>9. ASSUME NEW o \in AckOutcomes, CheckTerminal(r, o) PROVE TypeRest'
  <2>1. ServerTypeOK'
    BY <1>9 DEF CheckTerminal, ServerTypeOK, net
  <2>2. NoteTypeOK'
    BY <1>9, FinishTaskTypes DEF CheckTerminal, NoteTypeOK, teardown, calls, notes, run, Ready, GoTo, ItemFits, MessageStages, TaskStages, Slotted, Executing
  <2>3. BoundsOK'
    BY <1>9, PostKeepsBounds DEF CheckTerminal, BoundsOK, bounds
  <2> QED BY <2>1, <2>2, <2>3 DEF TypeRest
<1>10. ASSUME NEW o \in AckOutcomes, Complete(r, o) PROVE TypeRest'
  <2>1. ServerTypeOK'
    BY <1>10, MoveTaskType DEF Complete, ServerTypeOK, net
  <2>2. NoteTypeOK'
    BY <1>10, FinishTaskTypes DEF Complete, NoteTypeOK, teardown, calls, notes, run, Ready, GoTo, ItemFits, MessageStages, TaskStages, Slotted, Executing
  <2>3. BoundsOK'
    BY <1>10, PostKeepsBounds DEF Complete, BoundsOK, bounds
  <2> QED BY <2>1, <2>2, <2>3 DEF TypeRest
<1>11. ASSUME NEW o \in AckOutcomes, Fail(r, o) PROVE TypeRest'
  <2>1. ServerTypeOK'
    BY <1>11, MoveTaskType DEF Fail, ServerTypeOK, net
  <2>2. NoteTypeOK'
    BY <1>11, FinishTaskTypes DEF Fail, NoteTypeOK, teardown, calls, notes, run, Ready, ItemFits, MessageStages, TaskStages, Slotted, Executing
  <2>3. BoundsOK'
    BY <1>11, PostKeepsBounds DEF Fail, BoundsOK, bounds
  <2> QED BY <2>1, <2>2, <2>3 DEF TypeRest
<1> QED BY <1>1, <1>2, <1>3, <1>4, <1>5, <1>6, <1>7, <1>8, <1>9, <1>10, <1>11 DEF TaskStep, AckOutcomes

\* A cancellation that surfaces in a run keeps them.
LEMMA InterruptTypes ==
  ASSUME TypeOK, ItemFits, NEW r \in Runs, Interrupt(r)
  PROVE  TypeRest'
<1> USE DEF TypeOK
<1>1. ASSUME NEW b \in BOOLEAN, InterruptTurn(r, b) PROVE TypeRest'
  <2>1. ServerTypeOK'
    BY <1>1, AckRowType DEF InterruptTurn, ServerTypeOK, net
  <2>2. NoteTypeOK'
    BY <1>1, HitType DEF InterruptTurn, NoteTypeOK, teardown, calls, notes, run, ItemFits, MessageStages, TaskStages, Slotted, Executing, Outcomes
  <2>3. BoundsOK'
    BY <1>1 DEF InterruptTurn, BoundsOK, bounds
  <2> QED BY <2>1, <2>2, <2>3 DEF TypeRest
<1>2. ASSUME NEW b \in BOOLEAN, InterruptCleanup(r, b) PROVE TypeRest'
  <2>1. ServerTypeOK'
    BY <1>2 DEF InterruptCleanup, ServerTypeOK, net
  <2>2. NoteTypeOK'
    BY <1>2, FinishTypes DEF InterruptCleanup, NoteTypeOK, teardown, calls, notes, run, ItemFits, MessageStages, TaskStages, Slotted, Executing
  <2>3. BoundsOK'
    BY <1>2 DEF InterruptCleanup, BoundsOK, bounds
  <2> QED BY <2>1, <2>2, <2>3 DEF TypeRest
<1>3. ASSUME NEW b \in BOOLEAN, InterruptTask(r, b) PROVE TypeRest'
  <2>1. ServerTypeOK'
    BY <1>3, MoveTaskType DEF InterruptTask, ServerTypeOK, net
  <2>2. NoteTypeOK'
    BY <1>3, FinishTaskTypes DEF InterruptTask, NoteTypeOK, teardown, calls, notes, run, ItemFits, MessageStages, TaskStages, Slotted, Executing
  <2>3. BoundsOK'
    BY <1>3 DEF InterruptTask, BoundsOK, bounds
  <2> QED BY <2>1, <2>2, <2>3 DEF TypeRest
<1>4. ASSUME InterruptNotify(r) PROVE TypeRest'
  <2>1. ServerTypeOK'
    BY <1>4 DEF InterruptNotify, ServerTypeOK, net
  <2>2. NoteTypeOK'
    BY <1>4, FinishTypes DEF InterruptNotify, NoteTypeOK, teardown, calls, notes, run, ItemFits, MessageStages, TaskStages, Slotted, Executing
  <2>3. BoundsOK'
    BY <1>4 DEF InterruptNotify, BoundsOK, bounds
  <2> QED BY <2>1, <2>2, <2>3 DEF TypeRest
<1> QED BY <1>1, <1>2, <1>3, <1>4 DEF Interrupt, AckOutcomes

\* Every step keeps them.
LEMMA RestTypes ==
  ASSUME TypeOK, ItemFits, [Next]_vars
  PROVE  TypeRest'
<1> USE DEF TypeOK
<1>1. ASSUME NEW r \in Runs, NEW i \in Items, Receive(r, i) PROVE TypeRest'
  <2>1. ServerTypeOK'
    BY <1>1 DEF Receive, ServerTypeOK, net
  <2>2. NoteTypeOK'
    BY <1>1, GatewayAssumption DEF Receive, NoteTypeOK, teardown, calls, notes, run, ItemFits, MessageStages, TaskStages, Slotted, Executing, TypeOK
  <2>3. BoundsOK'
    BY <1>1 DEF Receive, BoundsOK, bounds
  <2> QED BY <2>1, <2>2, <2>3 DEF TypeRest
<1>2. ASSUME NEW r \in Runs, NEW i \in Items, ReceiveDuplicate(r, i) PROVE TypeRest'
  <2>1. ServerTypeOK'
    BY <1>2 DEF ReceiveDuplicate, ServerTypeOK, net
  <2>2. NoteTypeOK'
    BY <1>2 DEF ReceiveDuplicate, NoteTypeOK, teardown, calls, notes, run
  <2>3. BoundsOK'
    BY <1>2 DEF ReceiveDuplicate, BoundsOK, bounds
  <2> QED BY <2>1, <2>2, <2>3 DEF TypeRest
<1>3. ASSUME NEW r \in Runs, NEW o \in AckOutcomes, AckDuplicate(r, o) PROVE TypeRest'
  <2>1. ServerTypeOK'
    BY <1>3, AckRowType DEF AckDuplicate, ServerTypeOK, net
  <2>2. NoteTypeOK'
    BY <1>3 DEF AckDuplicate, NoteTypeOK, teardown, calls, notes, run
  <2>3. BoundsOK'
    BY <1>3, PostKeepsBounds DEF AckDuplicate, BoundsOK, bounds
  <2> QED BY <2>1, <2>2, <2>3 DEF TypeRest
<1>4. ASSUME NEW r \in Runs, Acquire(r) PROVE TypeRest'
  <2>1. ServerTypeOK'
    BY <1>4 DEF Acquire, ServerTypeOK, net
  <2>2. NoteTypeOK'
    BY <1>4 DEF Acquire, NoteTypeOK, teardown, calls, notes, run
  <2>3. BoundsOK'
    BY <1>4 DEF Acquire, BoundsOK, bounds
  <2> QED BY <2>1, <2>2, <2>3 DEF TypeRest
<1>5. ASSUME NEW k \in Keys, DeliverStop(k) PROVE TypeRest'
  <2>1. ServerTypeOK'
    BY <1>5 DEF DeliverStop, ServerTypeOK, net
  <2>2. NoteTypeOK'
    BY <1>5 DEF DeliverStop, NoteTypeOK, teardown, calls, notes, run, RunTypeOK
  <2>3. BoundsOK'
    BY <1>5 DEF DeliverStop, BoundsOK, bounds
  <2> QED BY <2>1, <2>2, <2>3 DEF TypeRest
<1>6. CASE Crash
  <2>1. ServerTypeOK'
    BY <1>6 DEF Crash, ServerTypeOK, net
  <2>2. NoteTypeOK'
    BY <1>6, GatewayAssumption DEF Crash, NoteTypeOK, teardown, calls, notes, run, Outcomes
  <2>3. BoundsOK'
    BY <1>6, GatewayAssumption DEF Crash, BoundsOK, bounds
  <2> QED BY <2>1, <2>2, <2>3 DEF TypeRest
<1>7. CASE Restart
  <2>1. ServerTypeOK'
    BY <1>7 DEF Restart, ServerTypeOK, net
  <2>2. NoteTypeOK'
    BY <1>7 DEF Restart, NoteTypeOK, teardown, calls, notes, run
  <2>3. BoundsOK'
    BY <1>7 DEF Restart, BoundsOK, bounds
  <2> QED BY <2>1, <2>2, <2>3 DEF TypeRest
<1>8. CASE Reconnect
  <2>1. ServerTypeOK'
    BY <1>8 DEF Reconnect, ServerTypeOK, net
  <2>2. NoteTypeOK'
    BY <1>8 DEF Reconnect, NoteTypeOK, teardown, calls, notes, run
  <2>3. BoundsOK'
    BY <1>8 DEF Reconnect, BoundsOK, bounds
  <2> QED BY <2>1, <2>2, <2>3 DEF TypeRest
<1>9. CASE UNCHANGED vars
  BY <1>9 DEF vars, net, run, teardown, calls, notes, bounds, TypeRest, ServerTypeOK,
              NoteTypeOK, BoundsOK
<1>10. CASE Environment
  BY <1>10, EnvironmentTypes
<1>11. ASSUME NEW r \in Runs, MessageStep(r) \/ TaskStep(r) \/ Interrupt(r) PROVE TypeRest'
  BY <1>11, MessageTypes, TaskTypes, InterruptTypes
<1> QED
  BY <1>1, <1>2, <1>3, <1>4, <1>5, <1>6, <1>7, <1>8, <1>9, <1>10, <1>11
  DEF Next, Dispatch, RunStep

----------------------------------------------------------------------------
(* The line, the places and the rows of the runs, shape by shape.          *)

RunInv == RunTypeOK /\ ItemFits /\ LineExact

\* The line is untouched by a step in which no run joins or leaves it.
LEMMA LineKept ==
  ASSUME LineExact, waiters' = waiters,
         \A s \in Runs : pc'[s] = "parked" <=> pc[s] = "parked", waiters \in Seq(Runs)
  PROVE  LineExact'
  BY DEF LineExact

\* Each shape keeps the places, the rows and the line of the runs.
LEMMA RunInvStep ==
  ASSUME RunInv, Shaped
  PROVE  RunInv'
<1> USE GatewayAssumption DEF RunInv, RunTypeOK, Stages, Slotted, Executing, MessageStages, TaskStages
<1>1. CASE Stays
  BY <1>1 DEF Stays, ItemFits, LineExact
<1>2. CASE Clears
  BY <1>2 DEF Clears, ItemFits, LineExact
<1>3. ASSUME NEW r \in Runs, NEW i \in Items, LinesUp(r, i) PROVE RunInv'
  <2>1. RunTypeOK'
    BY <1>3 DEF LinesUp
  <2>2. ItemFits'
    BY <1>3 DEF LinesUp, ItemFits
  <2>3. LineExact'
    <3>1. Len(waiters') = Len(waiters) + 1 /\ waiters'[Len(waiters) + 1] = r
      BY <1>3 DEF LinesUp
    <3>2. \A n \in DOMAIN waiters : waiters'[n] = waiters[n] /\ waiters[n] # r
      BY <1>3 DEF LinesUp, LineExact
    <3>3. DOMAIN waiters' = DOMAIN waiters \cup {Len(waiters) + 1}
      BY <1>3, <3>1 DEF LinesUp
    <3> QED BY <1>3, <3>1, <3>2, <3>3 DEF LinesUp, LineExact
  <2> QED BY <2>1, <2>2, <2>3
<1>4. ASSUME NEW r \in Runs, NEW i \in Items, BeginsAck(r, i) PROVE RunInv'
  BY <1>4, LineKept DEF BeginsAck, ItemFits, Items
<1>5. ASSUME NEW r \in Runs, EndsAck(r) PROVE RunInv'
  BY <1>5, LineKept DEF EndsAck, ItemFits
<1>6. ASSUME NEW r \in Runs, TakesPermit(r) PROVE RunInv'
  <2>0. pc[r] = "parked" /\ r = waiters[1] /\ 1 \in DOMAIN waiters
    BY <1>6 DEF TakesPermit, LineExact
  <2>1. RunTypeOK'
    BY <1>6 DEF TakesPermit
  <2>2. ItemFits'
    BY <1>6, <2>0 DEF TakesPermit, ItemFits
  <2>3. LineExact'
    <3>1. \A n \in DOMAIN waiters' :
           n \in Nat \ {0} /\ n + 1 \in DOMAIN waiters /\ waiters'[n] = waiters[n + 1]
      BY <1>6 DEF TakesPermit
    <3>2. \A n \in DOMAIN waiters : n # 1 => n - 1 \in DOMAIN waiters' /\ waiters'[n - 1] = waiters[n]
      BY <1>6 DEF TakesPermit
    <3>3. \A n \in DOMAIN waiters' : waiters'[n] # r
      BY <2>0, <3>1 DEF LineExact
    <3>4. \A n \in DOMAIN waiters' : pc'[waiters'[n]] = "parked"
      BY <1>6, <3>1, <3>3 DEF TakesPermit, LineExact
    <3>5. \A s \in Runs : pc'[s] = "parked" => \E n \in DOMAIN waiters' : waiters'[n] = s
      <4> SUFFICES ASSUME NEW s \in Runs, pc'[s] = "parked"
                   PROVE  \E n \in DOMAIN waiters' : waiters'[n] = s
        OBVIOUS
      <4>1. pc[s] = "parked" /\ s # r
        BY <1>6 DEF TakesPermit
      <4>2. PICK n \in DOMAIN waiters : waiters[n] = s
        BY <4>1 DEF LineExact
      <4> QED BY <2>0, <3>2, <4>1, <4>2
    <3>6. \A n, k \in DOMAIN waiters' : waiters'[n] = waiters'[k] => n = k
      BY <3>1 DEF LineExact
    <3> QED BY <3>4, <3>5, <3>6 DEF LineExact
  <2> QED BY <2>1, <2>2, <2>3
<1>7. ASSUME NEW r \in Runs, NEW s \in Executing, Begins(r, s) PROVE RunInv'
  <2>1. RunTypeOK'
    BY <1>7 DEF Begins, Register
  <2>2. ItemFits' /\ LineExact'
    BY <1>7, LineKept DEF Begins, ItemFits, Items
  <2> QED BY <2>1, <2>2
<1>8. ASSUME NEW r \in Runs, NEW s \in Executing, Moves(r, s) PROVE RunInv'
  BY <1>8, LineKept DEF Moves, ItemFits, Items
<1>9. ASSUME NEW r \in Runs, Ends(r) PROVE RunInv'
  <2>1. RunTypeOK'
    <3>1. pc' \in [Runs -> Stages] /\ item' \in [Runs -> Items \cup {NoItem}]
      BY <1>9 DEF Ends
    <3>2. active' \in [Keys -> SUBSET Runs]
      BY <1>9 DEF Ends
    <3>3. permits' \in Nat
      BY <1>9 DEF Ends
    <3> QED BY <1>9, <3>1, <3>2, <3>3 DEF Ends
  <2>2. ItemFits' /\ LineExact'
    BY <1>9, LineKept DEF Ends, ItemFits
  <2> QED BY <2>1, <2>2
<1> QED BY <1>1, <1>2, <1>3, <1>4, <1>5, <1>6, <1>7, <1>8, <1>9 DEF Shaped

\* Every reachable state has its type: no age, counter or location leaves its
\* range; a run serves a row that fits where it is; and the line in front of
\* the semaphore holds exactly the parked runs, each once.
THEOREM TypeCorrect == Spec => [](TypeOK /\ RunInv)
<1>1. ASSUME Init PROVE TypeOK /\ RunInv
  <2> USE <1>1, GatewayAssumption DEF Init
  <2>1. ServerTypeOK
    <3>1. row \in [Items -> {"queued", "claimed", "accepted", "settled"}]
      OBVIOUS
    <3>2. age \in [Items -> 0..HardCap]
      OBVIOUS
    <3> QED BY <3>1, <3>2 DEF ServerTypeOK
  <2>2. RunTypeOK
    BY DEF RunTypeOK, Stages
  <2>3. NoteTypeOK
    BY DEF NoteTypeOK, Outcomes
  <2>4. BoundsOK
    BY DEF BoundsOK
  <2>5. ItemFits /\ LineExact
    BY DEF ItemFits, LineExact, MessageStages, TaskStages
  <2> QED BY <2>1, <2>2, <2>3, <2>4, <2>5 DEF TypeOK, RunInv
<1>2. TypeOK /\ RunInv /\ [Next]_vars => (TypeOK /\ RunInv)'
  BY StepShape, RunInvStep, RestTypes DEF TypeOK, TypeRest, RunInv
<1> QED BY <1>1, <1>2, PTL DEF Spec

----------------------------------------------------------------------------
(* The semaphore, the registries and the turn queue.                       *)

Held == {r \in Runs : pc[r] \in Slotted}

\* Finitely many runs hold a permit, for there are finitely many runs.
LEMMA HeldFinite == IsFiniteSet(Held)
  BY GatewayAssumption, FS_Subset DEF Held

\* What a shape does to the runs that hold a permit.
LEMMA HeldStep ==
  ASSUME RunInv, Shaped
  PROVE  \/ Held' = Held /\ permits' = permits
         \/ Held' = {} /\ permits' = MaxConcurrent
         \/ \E r \in Runs \ Held : Held' = Held \cup {r} /\ permits' = permits - 1
         \/ \E r \in Held : Held' = Held \ {r} /\ permits' = permits + 1
<1> USE DEF RunInv, RunTypeOK, Held, Stages, Slotted, Executing, MessageStages, TaskStages
<1>1. CASE Stays
  BY <1>1 DEF Stays
<1>2. CASE Clears
  BY <1>2 DEF Clears
<1>3. ASSUME NEW r \in Runs, NEW i \in Items, LinesUp(r, i) \/ BeginsAck(r, i)
      PROVE  Held' = Held /\ permits' = permits
  BY <1>3 DEF LinesUp, BeginsAck
<1>4. ASSUME NEW r \in Runs, EndsAck(r) PROVE Held' = Held /\ permits' = permits
  BY <1>4 DEF EndsAck
<1>5. ASSUME NEW r \in Runs, TakesPermit(r)
      PROVE  r \notin Held /\ Held' = Held \cup {r} /\ permits' = permits - 1
  <2>1. pc[r] = "parked"
    BY <1>5 DEF TakesPermit, LineExact
  <2> QED BY <1>5, <2>1 DEF TakesPermit
<1>6. ASSUME NEW r \in Runs, NEW s \in Executing, Begins(r, s) \/ Moves(r, s)
      PROVE  Held' = Held /\ permits' = permits
  BY <1>6 DEF Begins, Moves
<1>7. ASSUME NEW r \in Runs, Ends(r)
      PROVE  r \in Held /\ Held' = Held \ {r} /\ permits' = permits + 1
  BY <1>7 DEF Ends
<1> QED BY <1>1, <1>2, <1>3, <1>4, <1>5, <1>6, <1>7 DEF Shaped

\* Each shape that takes or frees a permit does so for exactly one run.
LEMMA PermitsStep ==
  ASSUME RunInv, PermitsExact, Shaped
  PROVE  PermitsExact'
<1> USE GatewayAssumption DEF PermitsExact
<1>0. /\ IsFiniteSet(Held) /\ Cardinality(Held) \in Nat /\ permits \in Nat
      /\ permits + Cardinality(Held) = MaxConcurrent
  BY HeldFinite, FS_CardinalityType DEF Held, RunInv, RunTypeOK
<1>1. CASE Held' = Held /\ permits' = permits
  BY <1>0, <1>1 DEF Held
<1>2. CASE Held' = {} /\ permits' = MaxConcurrent
  BY <1>2, FS_EmptySet DEF Held
<1>3. ASSUME NEW r \in Runs \ Held, Held' = Held \cup {r}, permits' = permits - 1
      PROVE  PermitsExact'
  <2>1. Cardinality(Held') = Cardinality(Held) + 1
    BY <1>0, <1>3, FS_AddElement
  <2> QED BY <1>0, <1>3, <2>1 DEF Held
<1>4. ASSUME NEW r \in Held, Held' = Held \ {r}, permits' = permits + 1
      PROVE  PermitsExact'
  <2>1. Cardinality(Held') = Cardinality(Held) - 1
    BY <1>0, <1>4, FS_RemoveElement
  <2> QED BY <1>0, <1>4, <2>1 DEF Held
<1> QED BY <1>1, <1>2, <1>3, <1>4, HeldStep

\* Every permit of the turn semaphore is free or held by exactly one run:
\* no ending of a run, normal, failed or cancelled, loses or doubles one.
THEOREM SemaphoreExact == Spec => []PermitsExact
<1>1. Init => PermitsExact
  <2> SUFFICES ASSUME Init PROVE PermitsExact
    OBVIOUS
  <2>1. {r \in Runs : pc[r] \in Slotted} = {}
    BY DEF Init, Slotted, Executing, MessageStages, TaskStages
  <2>2. Cardinality({r \in Runs : pc[r] \in Slotted}) = 0
    BY <2>1, FS_EmptySet
  <2>3. permits = MaxConcurrent /\ MaxConcurrent \in Nat
    BY GatewayAssumption DEF Init
  <2> QED BY <2>2, <2>3 DEF PermitsExact
<1>2. RunInv /\ PermitsExact /\ [Next]_vars => PermitsExact'
  BY StepShape, PermitsStep
<1> QED BY <1>1, <1>2, TypeCorrect, PTL DEF Spec

\* Each shape that begins or ends a run enters it or takes it out.
LEMMA RegistryStep ==
  ASSUME RunInv, RegistryExact, Shaped
  PROVE  RegistryExact'
<1> USE DEF RunInv, RunTypeOK, RegistryExact, Stages, Slotted, Executing, MessageStages, TaskStages
<1>1. CASE Stays
  BY <1>1 DEF Stays, Key
<1>2. CASE Clears
  BY <1>2 DEF Clears
<1>3. ASSUME NEW r \in Runs, NEW i \in Items, LinesUp(r, i) \/ BeginsAck(r, i)
      PROVE  RegistryExact'
  BY <1>3 DEF LinesUp, BeginsAck, Key
<1>4. ASSUME NEW r \in Runs, EndsAck(r) PROVE RegistryExact'
  BY <1>4 DEF EndsAck, Key
<1>5. ASSUME NEW r \in Runs, TakesPermit(r) PROVE RegistryExact'
  <2>1. pc[r] = "parked"
    BY <1>5 DEF TakesPermit, LineExact
  <2> QED BY <1>5, <2>1 DEF TakesPermit, Key
<1>6. ASSUME NEW r \in Runs, NEW s \in Executing, Begins(r, s) PROVE RegistryExact'
  BY <1>6 DEF Begins, Register, Key
<1>7. ASSUME NEW r \in Runs, NEW s \in Executing, Moves(r, s) PROVE RegistryExact'
  BY <1>7 DEF Moves, Key
<1>8. ASSUME NEW r \in Runs, Ends(r) PROVE RegistryExact'
  BY <1>8 DEF Ends, Key
<1> QED BY <1>1, <1>2, <1>3, <1>4, <1>5, <1>6, <1>7, <1>8 DEF Shaped

\* The registry a stop directive reads holds exactly the executing runs of
\* its conversation or task, so a stop cancels all of them and nothing else.
THEOREM StopReachesItsRuns == Spec => []RegistryExact
<1>1. Init => RegistryExact
  BY DEF Init, RegistryExact, Executing, MessageStages, TaskStages
<1>2. RunInv /\ RegistryExact /\ [Next]_vars => RegistryExact'
  BY StepShape, RegistryStep
<1> QED BY <1>1, <1>2, TypeCorrect, PTL DEF Spec

\* The queue counts with its own copy of the library's operator.
LEMMA SameCardinality == ASSUME NEW S PROVE Turns!Cardinality(S) = Cardinality(S)
  BY DEF Cardinality, Turns!Cardinality

\* Each shape is a step of the turn queue, or leaves it unchanged.
LEMMA TurnsStep ==
  ASSUME RunInv, PermitsExact, Shaped
  PROVE  [Turns!Next]_(Turns!vars)
<1> USE DEF Turns!Next, Turns!vars, RunInv, RunTypeOK, Held
<1>0. permits > 0 => Cardinality(Held) < MaxConcurrent
  BY GatewayAssumption, HeldFinite, FS_CardinalityType DEF PermitsExact
<1> USE DEF Stages, Slotted, Executing, MessageStages, TaskStages
<1>1. CASE Stays
  BY <1>1 DEF Stays
<1>2. CASE Clears
  BY <1>2 DEF Clears, Turns!Reset
<1>3. ASSUME NEW r \in Runs, NEW i \in Items, LinesUp(r, i) PROVE Turns!LineUp(r)
  BY <1>3 DEF LinesUp, LineExact, Turns!LineUp
<1>4. ASSUME NEW r \in Runs, NEW i \in Items, BeginsAck(r, i) \/ EndsAck(r)
      PROVE  UNCHANGED Turns!vars
  BY <1>4 DEF BeginsAck, EndsAck
<1>5. ASSUME NEW r \in Runs, TakesPermit(r) PROVE Turns!Begin
  <2>1. pc[r] = "parked"
    BY <1>5 DEF TakesPermit, LineExact
  <2>2. Cardinality({x \in Runs : pc[x] \in Slotted}) < MaxConcurrent
    BY <1>0, <1>5 DEF TakesPermit
  <2>3. {x \in Runs : pc'[x] \in Slotted}
          = {x \in Runs : pc[x] \in Slotted} \cup {Head(waiters)}
    BY <1>5, <2>1 DEF TakesPermit
  <2> HIDE DEF Slotted
  <2> QED BY <1>5, <2>2, <2>3, SameCardinality DEF TakesPermit, Turns!Begin
<1>6. ASSUME NEW r \in Runs, NEW s \in Executing, Begins(r, s) \/ Moves(r, s)
      PROVE  UNCHANGED Turns!vars
  BY <1>6 DEF Begins, Moves
<1>7. ASSUME NEW r \in Runs, Ends(r) PROVE Turns!End(r)
  BY <1>7 DEF Ends, Turns!End
<1>8. ASSUME NEW r \in Runs, EndsAck(r) PROVE UNCHANGED Turns!vars
  BY <1>8 DEF EndsAck
<1> QED BY <1>1, <1>2, <1>3, <1>4, <1>5, <1>6, <1>7, <1>8 DEF Shaped

\* The executor implements the turn queue for any number of runs and permits:
\* at most MaxConcurrent turns, begun in the order the runs lined up.
THEOREM Refinement == Spec => ImplementsTurnQueue
<1>1. Init => Turns!Init
  BY DEF Init, Turns!Init, Slotted, Executing, MessageStages, TaskStages
<1>2. RunInv /\ PermitsExact /\ [Next]_vars => [Turns!Next]_(Turns!vars)
  BY StepShape, TurnsStep
<1> QED BY <1>1, <1>2, TypeCorrect, SemaphoreExact, PTL
        DEF Spec, ImplementsTurnQueue, Turns!Spec

----------------------------------------------------------------------------
(* One hand per task.                                                      *)

Working == TaskStages \ {"accept"}

\* Without the process there are no runs, so what registration hands back to the
\* queue is in nobody's hands.
DownIdle == ~up => \A r \in Runs : pc[r] = "idle"

\* The row of a task that is worked on was accepted, and does not go back.
WorkedRow == \A r \in Runs : pc[r] \in Working => row[item[r]] \in {"accepted", "settled"}

\* A stop is on its way for a closed task only, and only then is its run struck.
StopsSettled == \A t \in stops \cap Tasks : row[t] = "settled"
StruckSettled ==
  \A r \in struck :
    pc[r] \in Executing /\ (pc[r] \in TaskStages => row[item[r]] = "settled")

\* An accepted task is worked on, or was left open.
Accounted ==
  \A t \in Tasks :
    row[t] = "accepted" /\ crashes = 0 /\ lost = 0
    => t \in open \/ \E r \in Runs : pc[r] \in Working /\ item[r] = t

TaskInv ==
  /\ DownIdle /\ WorkedRow /\ OneRunPerTask
  /\ StopsSettled /\ StruckSettled /\ Accounted

\* What the handlers of the proofs below may assume of the state.
Known == TypeOK /\ RunInv /\ RegistryExact

\* Only a process that is up, or has runs, moves a run.
Alive == up' = up /\ (up \/ pc' = pc \/ \E r \in Runs : pc[r] # "idle")

\* A step beside the tasks: no task run moves, no run is struck, and a task row
\* changes hands between the queue and its claim, or is closed.
Aside ==
  /\ Alive
  /\ \A r \in Runs :
       pc[r] \in TaskStages \/ pc'[r] \in TaskStages => pc'[r] = pc[r] /\ item'[r] = item[r]
  /\ \A t \in Tasks :
       \/ row'[t] \in {row[t], "settled"}
       \/ row[t] \in {"queued", "claimed"} /\ row'[t] \in {"queued", "claimed"}
  /\ \A t \in stops' \cap Tasks : t \in stops \/ row'[t] = "settled"
  /\ \A r \in struck' : r \in struck /\ pc'[r] = pc[r] /\ item'[r] = item[r]
  /\ open' = open /\ lost' \in {lost, lost + 1} /\ crashes' = crashes

\* A step of the run r of a task to stage s, or to its end ("idle").
TaskGoes(r, s) ==
  /\ up' = up /\ pc[r] # "idle" /\ item[r] \in Tasks /\ s \in TaskStages \cup {"idle"}
  /\ pc' = [pc EXCEPT ![r] = s]
  /\ item' = IF s = "idle" THEN [item EXCEPT ![r] = NoItem] ELSE item
  /\ \A t \in Tasks \ {item[r]} : row'[t] = row[t]
  /\ LET before == row[item[r]]
         after  == row'[item[r]]
     IN  /\ after \in {before, "settled"} \/ (before = "claimed" /\ after = "accepted")
         /\ s \in Working =>
              \/ pc[r] \in Working
              \/ pc[r] = "accept" /\ before = "claimed" /\ after = "accepted"
         /\ after = "accepted" /\ lost' = 0 =>
              \/ s \in Working \/ item[r] \in open'
              \/ pc[r] \notin Working /\ before = "accepted"
  /\ stops' = stops /\ struck' = struck \ {r} /\ crashes' = crashes
  /\ open \subseteq open' /\ lost' \in {lost, lost + 1}

\* The acknowledgement of a message touches no task.
LEMMA AckSparesTasks ==
  ASSUME ServerTypeOK, NEW m \in Messages, NEW b, AckRow(m, b)
  PROVE  \A t \in Tasks : row'[t] = row[t]
  BY GatewayAssumption DEF AckRow, ServerTypeOK, Items

\* Environment, receipt and permits are beside the tasks.
LEMMA OutsideAside ==
  ASSUME Known, TaskInv,
         \/ \E i \in Items : Push(i) \/ Requeue(i)
         \/ \E k \in Keys : Stop(k)
         \/ Drop \/ Tick \/ Reconnect
         \/ \E i \in Items : Dispatch(i)
         \/ \E r \in Runs : Acquire(r) \/ \E o \in AckOutcomes : AckDuplicate(r, o)
  PROVE  Aside
<1> USE DEF Aside, Alive, net, run, notes, bounds, slots
<1>1. ASSUME NEW i \in Items, Push(i) \/ Requeue(i)  PROVE Aside
  <2>1. \A t \in Tasks : row'[t] = row[t]
           \/ (row[t] \in {"queued", "claimed"} /\ row'[t] \in {"queued", "claimed"})
    BY <1>1 DEF Push, Requeue, Known, TypeOK, ServerTypeOK, Items
  <2> QED
    BY <1>1, <2>1 DEF Push, Requeue, Known, TypeOK, BoundsOK
<1>2. ASSUME NEW k \in Keys, Stop(k)  PROVE Aside
  <2>1. CASE k \in Tasks
    BY <1>2, <2>1 DEF Stop, Known, TypeOK, ServerTypeOK, Items, BoundsOK
  <2>2. CASE k \notin Tasks
    BY <1>2, <2>2 DEF Stop, Known, TypeOK, BoundsOK
  <2> QED
    BY <2>1, <2>2
<1>3. CASE Drop \/ Tick \/ Reconnect
  BY <1>3 DEF Drop, Tick, Reconnect, Known, TypeOK, BoundsOK
<1>4. ASSUME NEW i \in Items, NEW r \in Runs, Receive(r, i) \/ ReceiveDuplicate(r, i)
      PROVE  Aside
  <2>1. r \notin struck
    BY <1>4 DEF Receive, ReceiveDuplicate, TaskInv, StruckSettled, Executing, MessageStages, TaskStages
  <2> QED
    BY <1>4, <2>1 DEF Receive, ReceiveDuplicate, Known, TypeOK, BoundsOK, RunTypeOK, NoteTypeOK, TaskStages
<1>5. ASSUME NEW r \in Runs, Acquire(r)  PROVE Aside
  <2>1. pc[r] = "parked" /\ r \notin struck
    BY <1>5 DEF Acquire, Known, RunInv, RunTypeOK, LineExact, TaskInv, StruckSettled, Executing,
       MessageStages, TaskStages
  <2> QED
    BY <1>5, <2>1 DEF Acquire, Known, TypeOK, BoundsOK, RunTypeOK, NoteTypeOK, TaskStages
<1>6. ASSUME NEW r \in Runs, NEW o \in AckOutcomes, AckDuplicate(r, o)  PROVE Aside
  <2>1. r \notin struck /\ item[r] \in Messages /\ pc[r] = "dupack"
    BY <1>6 DEF AckDuplicate, TaskInv, StruckSettled, Executing, MessageStages, TaskStages, Known,
       RunInv, ItemFits
  <2>2. \A t \in Tasks : row'[t] = row[t]
    BY <1>6, <2>1, AckSparesTasks DEF AckDuplicate, Known, TypeOK
  <2> QED
    BY <1>6, <2>1, <2>2 DEF AckDuplicate, Post, Known, TypeOK, BoundsOK, RunTypeOK, NoteTypeOK, TaskStages
<1> QED
  BY <1>1, <1>2, <1>3, <1>4, <1>5, <1>6 DEF Dispatch

\* So is every step of the turn of a message.
LEMMA MessageAside ==
  ASSUME Known, TaskInv, NEW r \in Runs,
         \/ MessageStep(r)
         \/ \E b \in BOOLEAN : InterruptTurn(r, b) \/ InterruptCleanup(r, b)
         \/ InterruptNotify(r)
  PROVE  Aside
<1> USE DEF Aside, Alive, net, run, notes, bounds, slots
<1>1. ASSUME StartMessage(r)  PROVE Aside
  <2>1. r \notin struck
    BY <1>1 DEF StartMessage, TaskInv, StruckSettled, Executing, MessageStages, TaskStages
  <2> QED
    BY <1>1, <2>1 DEF StartMessage, Known, TypeOK, BoundsOK, RunTypeOK, NoteTypeOK, TaskStages
<1>2. ASSUME NEW o \in AckOutcomes, Ack(r, o) \/ AckAfterFailure(r, o)  PROVE Aside
  <2>1. item[r] \in Messages /\ pc[r] \in {"ack", "xack"} /\ r \notin struck
    BY <1>2 DEF Ack, AckAfterFailure, Ready, Known, RunInv, ItemFits, MessageStages
  <2>2. \A t \in Tasks : row'[t] = row[t]
    BY <1>2, <2>1, AckSparesTasks DEF Ack, AckAfterFailure, Known, TypeOK
  <2> QED
    BY <1>2, <2>1, <2>2 DEF Ack, AckAfterFailure, Post, GoTo, Known, TypeOK, BoundsOK, RunTypeOK,
       NoteTypeOK, TaskStages
<1>3. ASSUME Notified(r) \/ Replied(r) \/ ReplyFailed(r) \/ Notice(r)  PROVE Aside
  BY <1>3 DEF Notified, Replied, ReplyFailed, Notice, Ready, GoTo, Known, TypeOK, BoundsOK,
     RunTypeOK, NoteTypeOK, TaskStages
<1>4. ASSUME OpenBubble(r)  PROVE Aside
  BY <1>4 DEF OpenBubble, Ready, Known, TypeOK, BoundsOK
<1>5. ASSUME NEW reply \in BOOLEAN, NEW cause \in {"timeout", "error"},
             Return(r, reply) \/ Raise(r, cause)
      PROVE  Aside
  BY <1>5 DEF Return, Raise, Ready, GoTo, Known, TypeOK, BoundsOK, RunTypeOK, NoteTypeOK, TaskStages
<1>6. ASSUME NEW b \in BOOLEAN, Cleanup(r) \/ InterruptCleanup(r, b) \/ InterruptNotify(r)
      PROVE  Aside
  <2>1. pc[r] \in {"cleanup", "notify"} /\ pc' = [pc EXCEPT ![r] = "idle"]
        /\ item' = [item EXCEPT ![r] = NoItem] /\ struck' = struck \ {r}
    BY <1>6 DEF Cleanup, InterruptCleanup, InterruptNotify, Ready, Finish
  <2>2. /\ UNCHANGED <<row, net, open, bounds>>
    BY <1>6 DEF Cleanup, InterruptCleanup, InterruptNotify
  <2> QED
    BY <2>1, <2>2 DEF Known, TypeOK, BoundsOK, RunTypeOK, NoteTypeOK, TaskStages
<1>7. ASSUME NEW b \in BOOLEAN, InterruptTurn(r, b)  PROVE Aside
  <2>1. item[r] \in Messages /\ pc[r] \in MessageStages
    BY <1>7 DEF InterruptTurn, Known, RunInv, ItemFits, MessageStages
  <2>2. \A t \in Tasks : row'[t] = row[t]
    BY <1>7, <2>1, AckSparesTasks DEF InterruptTurn, Known, TypeOK
  <2>3. \E s \in MessageStages : pc' = [pc EXCEPT ![r] = s]
    BY <1>7 DEF InterruptTurn, MessageStages
  <2> QED
    BY <1>7, <2>1, <2>2, <2>3 DEF InterruptTurn, Known, TypeOK, BoundsOK, RunTypeOK, NoteTypeOK,
       MessageStages, TaskStages
<1> QED
  BY <1>1, <1>2, <1>3, <1>4, <1>5, <1>6, <1>7 DEF MessageStep

\* Every step of a task run is a step of its task.
LEMMA TaskMoves ==
  ASSUME Known, TaskInv, NEW r \in Runs,
         TaskStep(r) \/ \E b \in BOOLEAN : InterruptTask(r, b)
  PROVE  \E s \in TaskStages \cup {"idle"} : TaskGoes(r, s)
<1> USE DEF net, run, notes, bounds, slots, Working, TaskStages
<1>a. /\ lost \in Nat /\ item \in [Runs -> Items \cup {NoItem}] /\ pc \in [Runs -> Stages]
      /\ row \in [Items -> {"queued", "claimed", "accepted", "settled"}]
      /\ Tasks \subseteq Items /\ struck \subseteq Runs
  BY DEF Known, TypeOK, BoundsOK, RunTypeOK, ServerTypeOK, NoteTypeOK, Items
<1>b. pc[r] \in TaskStages => item[r] \in Tasks /\ pc[r] # "idle"
  BY DEF Known, RunInv, ItemFits
<1>c. pc[r] \in Working => row[item[r]] \in {"accepted", "settled"}
  BY DEF TaskInv, WorkedRow
<1>1. ASSUME StartTask(r)  PROVE TaskGoes(r, "accept")
  <2>1. r \notin struck
    BY <1>1 DEF StartTask, TaskInv, StruckSettled, Executing, MessageStages
  <2> QED
    BY <1>1, <1>a, <2>1, struck \ {r} = struck DEF StartTask, TaskGoes
<1>2. ASSUME FinisherTool(r)  PROVE TaskGoes(r, "work")
  BY <1>2, <1>a, <1>b DEF FinisherTool, MoveTask, Ready, TaskGoes
<1>3. ASSUME NEW result \in {"text", "delivered", "empty"}, WorkDone(r, result) \/ WorkRaised(r)
      PROVE  \E s \in TaskStages : TaskGoes(r, s)
  <2>1. \E s \in Working : pc' = [pc EXCEPT ![r] = s]
    BY <1>3 DEF WorkDone, WorkRaised, GoTo
  <2> QED
    BY <1>3, <1>a, <1>b, <2>1 DEF WorkDone, WorkRaised, Ready, GoTo, TaskGoes
<1>4. ASSUME ClosedByTool(r) \/ Park(r) \/ Deferred(r)  PROVE TaskGoes(r, "idle")
  BY <1>4, <1>a, <1>b DEF ClosedByTool, Park, Deferred, Ready, FinishTask, Finish, TaskGoes
<1>5. ASSUME NEW o \in AckOutcomes, Accept(r, o)  PROVE TaskGoes(r, "work") \/ TaskGoes(r, "idle")
  <2>1. CASE o = "ok" /\ row[item[r]] = "claimed"
    BY <1>5, <1>a, <1>b, <2>1 DEF Accept, MoveTask, Reaches, Post, Ready, GoTo, TaskGoes
  <2>2. CASE o = "ok" /\ row[item[r]] # "claimed"
    BY <1>5, <1>a, <1>b, <2>2 DEF Accept, MoveTask, Post, Ready, FinishTask, Finish, TaskGoes
  <2>3. CASE o # "ok"
    BY <1>5, <1>a, <1>b, <2>3 DEF Accept, MoveTask, Post, AckOutcomes, Ready, FinishTask, Finish,
       TaskGoes
  <2> QED
    BY <2>1, <2>2, <2>3
<1>6. ASSUME NEW o \in AckOutcomes, CheckTerminal(r, o)
      PROVE  TaskGoes(r, "fail") \/ TaskGoes(r, "idle")
  BY <1>6, <1>a, <1>b DEF CheckTerminal, Post, AckOutcomes, Ready, GoTo, FinishTask, Finish, TaskGoes
<1>7. ASSUME NEW o \in AckOutcomes, Complete(r, o)
      PROVE  TaskGoes(r, "fail") \/ TaskGoes(r, "idle")
  BY <1>7, <1>a, <1>b DEF Complete, MoveTask, Reaches, Post, AckOutcomes, Ready, GoTo, FinishTask,
     Finish, TaskGoes
<1>8. ASSUME NEW o \in AckOutcomes, Fail(r, o)  PROVE TaskGoes(r, "idle")
  BY <1>8, <1>a, <1>b, <1>c DEF Fail, MoveTask, Reaches, Post, AckOutcomes, Ready, FinishTask,
     Finish, TaskGoes
<1>9. ASSUME NEW b \in BOOLEAN, InterruptTask(r, b)  PROVE TaskGoes(r, "idle")
  <2>1. row[item[r]] = "settled" /\ pc[r] \in TaskStages
    BY <1>9 DEF InterruptTask, TaskInv, StruckSettled
  <2>2. row' = row
    BY <1>9, <2>1 DEF InterruptTask, MoveTask
  <2> QED
    BY <1>9, <1>a, <1>b, <2>1, <2>2 DEF InterruptTask, FinishTask, Finish, TaskGoes
<1> QED
  BY <1>1, <1>2, <1>3, <1>4, <1>5, <1>6, <1>7, <1>8, <1>9 DEF TaskStep

\* A step beside the tasks keeps the invariant.
LEMMA AsideKeeps ==
  ASSUME Known, Known', TaskInv, Aside
  PROVE  TaskInv'
<1> USE DEF TaskInv, Aside, Working
<1>1. \A r \in Runs : pc'[r] \in Working => pc[r] = pc'[r] /\ item'[r] = item[r] /\ item[r] \in Tasks
  BY DEF Known, RunInv, ItemFits, TaskStages
<1>2. DownIdle'
  BY DEF DownIdle, Alive
<1>3. WorkedRow' /\ OneRunPerTask'
  BY <1>1 DEF WorkedRow, OneRunPerTask
<1>4. StopsSettled'
  BY DEF StopsSettled
<1>5. StruckSettled'
  <2> SUFFICES ASSUME NEW r \in struck'
               PROVE  pc'[r] \in Executing /\ (pc'[r] \in TaskStages => row'[item'[r]] = "settled")
    BY DEF StruckSettled
  <2>1. r \in Runs /\ r \in struck /\ pc'[r] = pc[r] /\ item'[r] = item[r]
    BY DEF Known, TypeOK, NoteTypeOK
  <2>2. pc[r] \in TaskStages => item[r] \in Tasks /\ row[item[r]] = "settled"
    BY <2>1 DEF StruckSettled, Known, RunInv, ItemFits
  <2> QED
    BY <2>1, <2>2 DEF StruckSettled
<1>6. Accounted'
  <2> SUFFICES ASSUME NEW t \in Tasks, row'[t] = "accepted", crashes' = 0, lost' = 0
               PROVE  t \in open' \/ \E r \in Runs : pc'[r] \in Working /\ item'[r] = t
    BY DEF Accounted
  <2>1. row[t] = "accepted" /\ crashes = 0 /\ lost = 0
    BY DEF Known, TypeOK, BoundsOK
  <2> QED
    BY <2>1 DEF Accounted
<1> QED
  BY <1>2, <1>3, <1>4, <1>5, <1>6

\* A step of a task run keeps it: what another run is working on was accepted,
\* and its accept is refused.
LEMMA TaskGoesKeeps ==
  ASSUME Known, Known', TaskInv, NEW r \in Runs, NEW s, TaskGoes(r, s)
  PROVE  TaskInv'
<1> USE DEF TaskInv, Working
<1>a. /\ up' = up /\ pc[r] # "idle" /\ item[r] \in Tasks /\ s \in TaskStages \cup {"idle"}
      /\ pc' = [pc EXCEPT ![r] = s] /\ stops' = stops /\ struck' = struck \ {r}
      /\ item' = IF s = "idle" THEN [item EXCEPT ![r] = NoItem] ELSE item
      /\ \A t \in Tasks \ {item[r]} : row'[t] = row[t]
      /\ row'[item[r]] \in {row[item[r]], "settled"}
           \/ (row[item[r]] = "claimed" /\ row'[item[r]] = "accepted")
      /\ s \in Working => pc[r] \in Working
           \/ (pc[r] = "accept" /\ row[item[r]] = "claimed" /\ row'[item[r]] = "accepted")
  BY DEF TaskGoes
<1>b. pc \in [Runs -> Stages] /\ item \in [Runs -> Items \cup {NoItem}] /\ struck' \subseteq Runs
  BY DEF Known, TypeOK, RunTypeOK, NoteTypeOK
<1>c. \A q \in Runs : pc[q] \in TaskStages => item[q] \in Tasks
  BY DEF Known, RunInv, ItemFits
<1>1. DownIdle'
  BY <1>a DEF DownIdle
<1>2. WorkedRow'
  <2> SUFFICES ASSUME NEW q \in Runs, pc'[q] \in Working
               PROVE  row'[item'[q]] \in {"accepted", "settled"}
    BY DEF WorkedRow
  <2>1. CASE q = r
    BY <1>a, <1>b, <2>1 DEF WorkedRow, TaskStages
  <2>2. CASE q # r
    <3>1. pc[q] \in Working /\ item'[q] = item[q] /\ row[item[q]] \in {"accepted", "settled"}
      BY <1>a, <1>b, <2>2 DEF WorkedRow
    <3> QED
      BY <1>a, <1>c, <3>1
  <2> QED
    BY <2>1, <2>2
<1>3. OneRunPerTask'
  <2> SUFFICES ASSUME NEW q \in Runs, NEW p \in Runs, q # p,
                      pc'[q] \in Working, pc'[p] \in Working, item'[q] = item'[p]
               PROVE  FALSE
    BY DEF OneRunPerTask
  <2>1. \A x \in Runs : pc'[x] \in Working => item'[x] = item[x]
    BY <1>a, <1>b DEF TaskStages
  <2>2. \A x \in Runs \ {r} : pc'[x] = pc[x]
    BY <1>a, <1>b
  <2>3. ASSUME NEW x \in Runs \ {r}, pc[x] \in Working, item[x] = item[r], pc'[r] \in Working
        PROVE  FALSE
    <3>1. pc[r] \in Working \/ row[item[r]] = "claimed"
      BY <1>a, <1>b, <2>3
    <3>2. row[item[x]] \in {"accepted", "settled"}
      BY <2>3 DEF WorkedRow
    <3> QED
      BY <2>3, <3>1, <3>2 DEF OneRunPerTask
  <2> QED
    BY <2>1, <2>2, <2>3 DEF OneRunPerTask
<1>4. StopsSettled'
  BY <1>a DEF StopsSettled
<1>5. StruckSettled'
  <2> SUFFICES ASSUME NEW q \in struck'
               PROVE  pc'[q] \in Executing /\ (pc'[q] \in TaskStages => row'[item'[q]] = "settled")
    BY DEF StruckSettled
  <2>1. q # r /\ q \in Runs /\ q \in struck /\ pc'[q] = pc[q] /\ item'[q] = item[q]
    BY <1>a, <1>b
  <2> QED
    BY <1>a, <1>c, <2>1 DEF StruckSettled
<1>6. Accounted'
  <2> SUFFICES ASSUME NEW t \in Tasks, row'[t] = "accepted", crashes' = 0, lost' = 0
               PROVE  t \in open' \/ \E q \in Runs : pc'[q] \in Working /\ item'[q] = t
    BY DEF Accounted
  <2>1. crashes = 0 /\ lost = 0 /\ open \subseteq open'
    BY DEF TaskGoes, Known, TypeOK, BoundsOK
  <2>2. \A q \in Runs \ {r} : pc'[q] = pc[q] /\ item'[q] = item[q]
    BY <1>a, <1>b
  <2>3. pc'[r] = s /\ (s \in Working => item'[r] = item[r])
    BY <1>a, <1>b DEF TaskStages
  <2>4. CASE t = item[r]
    <3>1. \/ s \in Working \/ t \in open'
          \/ pc[r] \notin Working /\ row[t] = "accepted"
      BY <2>4 DEF TaskGoes
    <3> QED
      BY <2>1, <2>2, <2>3, <2>4, <3>1 DEF Accounted
  <2>5. CASE t # item[r]
    <3>1. row[t] = "accepted"
      BY <1>a, <2>5
    <3> QED
      BY <2>1, <2>2, <2>5, <3>1 DEF Accounted
  <2> QED
    BY <2>4, <2>5
<1> QED
  BY <1>1, <1>2, <1>3, <1>4, <1>5, <1>6

\* A stop strikes the runs of its key, and those of a task it has closed.
LEMMA DeliverStopKeeps ==
  ASSUME Known, TaskInv, NEW k \in Keys, DeliverStop(k)
  PROVE  TaskInv'
<1> USE DEF TaskInv, DeliverStop, run, net, notes, bounds
<1>1. ASSUME NEW r \in active[k]
      PROVE  r \in Runs /\ pc[r] \in Executing /\ (pc[r] \in TaskStages => row[item[r]] = "settled")
  <2>1. r \in Runs /\ pc[r] \in Executing /\ Key(item[r]) = k
    BY DEF Known, RegistryExact
  <2>2. pc[r] \in TaskStages => item[r] \in Tasks /\ item[r] = k
    BY <2>1, GatewayAssumption DEF Known, RunInv, ItemFits, Key
  <2> QED
    BY <2>1, <2>2 DEF StopsSettled
<1>2. StruckSettled'
  BY <1>1 DEF StruckSettled
<1>3. DownIdle' /\ WorkedRow' /\ OneRunPerTask' /\ StopsSettled' /\ Accounted'
  BY DEF DownIdle, WorkedRow, OneRunPerTask, StopsSettled, Accounted
<1> QED
  BY <1>2, <1>3

\* With the process every run is gone; what it had accepted may come back.
LEMMA ProcessKeeps ==
  ASSUME Known, TaskInv, Crash \/ Restart
  PROVE  TaskInv'
<1>1. CASE Crash
  BY <1>1 DEF Crash, TaskInv, DownIdle, WorkedRow, OneRunPerTask, StopsSettled, StruckSettled,
     Accounted, Working, TaskStages, Known, TypeOK, BoundsOK
<1>2. CASE Restart
  <2>1. \A r \in Runs : pc'[r] = "idle" /\ pc[r] = "idle"
    BY <1>2 DEF Restart, run, TaskInv, DownIdle
  <2>2. \A t \in Tasks : row'[t] = row[t] \/ (row[t] = "accepted" /\ row'[t] = "queued")
    BY <1>2 DEF Restart, Items
  <2>3. struck' = {}
    BY <1>2, <2>1 DEF Restart, run, TaskInv, StruckSettled, Executing, MessageStages, TaskStages,
       Known, TypeOK, NoteTypeOK
  <2> QED
    BY <1>2, <2>1, <2>2, <2>3 DEF Restart, net, run, notes, bounds, TaskInv, DownIdle, WorkedRow,
       OneRunPerTask, StopsSettled, StruckSettled, Accounted, Working, TaskStages
<1> QED
  BY <1>1, <1>2

\* A task is worked on by one run, and by one until it is reported or left open
\* on purpose: whatever is redelivered, stopped or raced, only the accept that
\* moves the row starts the handler, and no ending of it forgets the report.
THEOREM TaskInOneHand == Spec => []OneHandPerTask
<1>1. Init => TaskInv
  BY GatewayAssumption DEF Init, TaskInv, DownIdle, WorkedRow, OneRunPerTask, StopsSettled,
     StruckSettled, Accounted, Working, TaskStages, Items
<1>2. ASSUME Known, Known', TaskInv, [Next]_vars  PROVE TaskInv'
  <2>1. CASE UNCHANGED vars
    BY <1>2, <2>1 DEF vars, net, run, notes, bounds, TaskInv, DownIdle, WorkedRow, OneRunPerTask,
       StopsSettled, StruckSettled, Accounted
  <2>2. ASSUME NEW r \in Runs, RunStep(r)  PROVE TaskInv'
    <3>1. CASE Acquire(r) \/ \E o \in AckOutcomes : AckDuplicate(r, o)
      BY <1>2, <3>1, OutsideAside, AsideKeeps
    <3>2. CASE MessageStep(r) \/ \E b \in BOOLEAN : InterruptTurn(r, b) \/ InterruptCleanup(r, b)
      BY <1>2, <3>2, MessageAside, AsideKeeps
    <3>3. CASE InterruptNotify(r)
      BY <1>2, <3>3, MessageAside, AsideKeeps
    <3>4. CASE TaskStep(r) \/ \E b \in BOOLEAN : InterruptTask(r, b)
      BY <1>2, <3>4, TaskMoves, TaskGoesKeeps
    <3> QED
      BY <2>2, <3>1, <3>2, <3>3, <3>4 DEF RunStep, Interrupt
  <2>3. CASE Environment \/ Reconnect \/ \E i \in Items : Dispatch(i)
    BY <1>2, <2>3, OutsideAside, AsideKeeps DEF Environment
  <2>4. ASSUME NEW k \in Keys, DeliverStop(k)  PROVE TaskInv'
    BY <1>2, <2>4, DeliverStopKeeps
  <2>5. CASE Crash \/ Restart
    BY <1>2, <2>5, ProcessKeeps
  <2> QED
    BY <1>2, <2>1, <2>2, <2>3, <2>4, <2>5 DEF Next
<1>3. Known /\ TaskInv => OneHandPerTask
  BY DEF Known, TaskInv, OneHandPerTask, Accounted, NoStrandedTask
<1>4. Spec => []Known
  BY TypeCorrect, StopReachesItsRuns, PTL DEF Known
<1> QED
  BY <1>1, <1>2, <1>3, <1>4, PTL DEF Spec

----------------------------------------------------------------------------
(* Acknowledged before answered.                                           *)

\* What holds of a run until it is answered: the except path is entered by a
\* failure or by the one stop that caught the turn, and only a second one gets
\* it to the teardown without its acknowledgement.
AckOK(r) ==
  /\ pc[r] \in {"reply", "notice"} => r \in tried
  /\ pc[r] = "cleanup" /\ r \notin tried
       => hits[r] = 2 \/ (hits[r] = 1 /\ why[r] \in {"timeout", "error"})
  /\ pc[r] = "xack" /\ r \notin tried
       => \/ hits[r] = 0 /\ why[r] \in {"timeout", "error"}
          \/ hits[r] = 1 /\ why[r] = "cancelled"
  /\ pc[r] \notin {"xack", "notice", "cleanup"} => hits[r] = 0
AckInv == \A r \in Runs : AckOK(r)

\* A step that leaves what is kept about r alone.
Spares(r) ==
  /\ pc'[r] = pc[r] /\ why'[r] = why[r] /\ hits'[r] = hits[r]
  /\ r \in tried' <=> r \in tried

\* A step that has r start again, or go on where nothing is owed.
Resets(r) == pc'[r] \notin {"reply", "xack", "notice", "cleanup"} /\ hits'[r] = 0

\* Both keep what holds of r.
LEMMA SparedOrReset ==
  ASSUME NEW r, AckOK(r), Spares(r) \/ Resets(r)
  PROVE  AckOK(r)'
  BY DEF AckOK, Spares, Resets

\* The steps that owe nobody an answer.
LEMMA OthersAcked ==
  ASSUME Known, AckInv,
         \/ UNCHANGED vars
         \/ Environment \/ Reconnect \/ Restart \/ Crash
         \/ \E k \in Keys : DeliverStop(k)
         \/ \E i \in Items : Dispatch(i)
         \/ \E r \in Runs : Acquire(r) \/ TaskStep(r)
                            \/ (\E o \in AckOutcomes : AckDuplicate(r, o))
                            \/ (\E b \in BOOLEAN : InterruptTask(r, b))
  PROVE  AckInv'
<1> SUFFICES ASSUME NEW q \in Runs  PROVE Spares(q) \/ Resets(q)
  BY SparedOrReset DEF AckInv
<1> USE DEF Spares, Resets, net, run, notes
<1>a. AckOK(q) /\ pc \in [Runs -> Stages] /\ hits \in [Runs -> 0..2] /\ why \in [Runs -> Outcomes]
  BY DEF AckInv, Known, TypeOK, RunTypeOK, NoteTypeOK
<1>1. CASE UNCHANGED vars
  BY <1>1 DEF vars
<1>2. CASE Environment \/ Reconnect \/ Restart
  BY <1>2 DEF Environment, Push, Requeue, Stop, Drop, Tick, Reconnect, Restart
<1>3. CASE Crash
  BY <1>3 DEF Crash
<1>4. CASE \E k \in Keys : DeliverStop(k)
  BY <1>4 DEF DeliverStop
<1>5. ASSUME NEW i \in Items, NEW r \in Runs, Receive(r, i) \/ ReceiveDuplicate(r, i)
      PROVE  Spares(q) \/ Resets(q)
  BY <1>5, <1>a DEF Receive, ReceiveDuplicate, AckOK
<1>6. ASSUME NEW r \in Runs, Acquire(r)  PROVE Spares(q) \/ Resets(q)
  <2>1. pc[r] = "parked"
    BY <1>6 DEF Acquire, Known, RunInv, RunTypeOK, LineExact
  <2> QED
    BY <1>6, <1>a, <2>1 DEF Acquire, AckOK
<1>7. ASSUME NEW r \in Runs, NEW o \in AckOutcomes, AckDuplicate(r, o)
      PROVE  Spares(q) \/ Resets(q)
  BY <1>7, <1>a DEF AckDuplicate, AckOK
<1>8. ASSUME NEW r \in Runs, TaskStep(r) \/ \E b \in BOOLEAN : InterruptTask(r, b)
      PROVE  Spares(q) \/ Resets(q)
  <2>1. ASSUME FinishTask(r)  PROVE Spares(q) \/ Resets(q)
    BY <2>1, <1>a DEF FinishTask, Finish
  <2>2. ASSUME NEW s \in TaskStages, GoTo(r, s), pc[r] \in TaskStages,
               UNCHANGED <<why, tried, hits>>
        PROVE  Spares(q) \/ Resets(q)
    BY <2>2, <1>a DEF GoTo, AckOK, TaskStages
  <2>3. CASE StartTask(r) \/ FinisherTool(r)
    BY <2>3, <1>a DEF StartTask, FinisherTool, AckOK
  <2>4. CASE ClosedByTool(r) \/ Park(r) \/ Deferred(r) \/ \E b \in BOOLEAN : InterruptTask(r, b)
    BY <2>4, <2>1 DEF ClosedByTool, Park, Deferred, InterruptTask
  <2>5. CASE WorkRaised(r) \/ \E result \in {"text", "delivered", "empty"} : WorkDone(r, result)
    <3>1. \E s \in TaskStages : GoTo(r, s) /\ pc[r] \in TaskStages /\ UNCHANGED <<why, tried, hits>>
      BY <2>5 DEF WorkRaised, WorkDone, Ready, TaskStages
    <3> QED
      BY <3>1, <2>2
  <2>6. ASSUME NEW o \in AckOutcomes,
               Accept(r, o) \/ CheckTerminal(r, o) \/ Complete(r, o) \/ Fail(r, o)
        PROVE  Spares(q) \/ Resets(q)
    <3>1. \/ FinishTask(r)
          \/ \E s \in TaskStages : GoTo(r, s) /\ pc[r] \in TaskStages /\ UNCHANGED <<why, tried, hits>>
      BY <2>6 DEF Accept, CheckTerminal, Complete, Fail, Ready, TaskStages
    <3> QED
      BY <3>1, <2>1, <2>2
  <2> QED
    BY <1>8, <2>3, <2>4, <2>5, <2>6 DEF TaskStep
<1> QED
  BY <1>1, <1>2, <1>3, <1>4, <1>5, <1>6, <1>7, <1>8 DEF Dispatch

\* A turn acknowledges, answers and ends in this order.
LEMMA TurnAcked ==
  ASSUME Known, AckInv, NEW r \in Runs,
         \/ MessageStep(r)
         \/ \E b \in BOOLEAN : InterruptTurn(r, b) \/ InterruptCleanup(r, b)
         \/ InterruptNotify(r)
  PROVE  AckInv'
<1> USE DEF net, run, notes
<1>a. /\ pc \in [Runs -> Stages] /\ hits \in [Runs -> 0..2] /\ why \in [Runs -> Outcomes]
      /\ tried \subseteq Runs
  BY DEF Known, TypeOK, RunTypeOK, NoteTypeOK
<1>b. AckOK(r)
  BY DEF AckInv
<1>1. ASSUME NEW q \in Runs \ {r}  PROVE Spares(q)
  <2>1. CASE StartMessage(r) \/ Notified(r) \/ OpenBubble(r) \/ Replied(r) \/ ReplyFailed(r) \/ Notice(r)
    BY <2>1, <1>a DEF StartMessage, Notified, OpenBubble, Replied, ReplyFailed, Notice, GoTo, Spares
  <2>2. CASE \E reply \in BOOLEAN, cause \in {"timeout", "error"} : Return(r, reply) \/ Raise(r, cause)
    BY <2>2, <1>a DEF Return, Raise, GoTo, Spares
  <2>3. CASE \E o \in AckOutcomes : Ack(r, o) \/ AckAfterFailure(r, o)
    BY <2>3, <1>a DEF Ack, AckAfterFailure, GoTo, Spares
  <2>4. CASE Cleanup(r) \/ InterruptNotify(r) \/ \E b \in BOOLEAN : InterruptCleanup(r, b)
    BY <2>4, <1>a DEF Cleanup, InterruptNotify, InterruptCleanup, Finish, Spares
  <2>5. CASE \E b \in BOOLEAN : InterruptTurn(r, b)
    BY <2>5, <1>a DEF InterruptTurn, Hit, Spares
  <2> QED
    BY <2>1, <2>2, <2>3, <2>4, <2>5 DEF MessageStep
<1>2. AckOK(r)'
  <2>1. CASE StartMessage(r) \/ Notified(r) \/ OpenBubble(r)
    BY <2>1, <1>a, <1>b DEF StartMessage, Notified, OpenBubble, Ready, GoTo, AckOK
  <2>2. CASE Replied(r) \/ ReplyFailed(r) \/ Notice(r)
    BY <2>2, <1>a, <1>b DEF Replied, ReplyFailed, Notice, Ready, GoTo, AckOK
  <2>3. CASE \E reply \in BOOLEAN, cause \in {"timeout", "error"} : Return(r, reply) \/ Raise(r, cause)
    BY <2>3, <1>a, <1>b DEF Return, Raise, Ready, GoTo, AckOK
  <2>4. CASE \E o \in AckOutcomes : Ack(r, o) \/ AckAfterFailure(r, o)
    BY <2>4, <1>a, <1>b DEF Ack, AckAfterFailure, Ready, GoTo, AckOK
  <2>5. CASE Cleanup(r) \/ InterruptNotify(r) \/ \E b \in BOOLEAN : InterruptCleanup(r, b)
    BY <2>5, <1>a DEF Cleanup, InterruptNotify, InterruptCleanup, Finish, AckOK
  <2>6. CASE \E b \in BOOLEAN : InterruptTurn(r, b)
    BY <2>6, <1>a, <1>b DEF InterruptTurn, Hit, AckOK
  <2> QED
    BY <2>1, <2>2, <2>3, <2>4, <2>5, <2>6 DEF MessageStep
<1> QED
  BY <1>1, <1>2, SparedOrReset DEF AckInv

\* The user sees neither a reply nor an error notice before the message was
\* acknowledged, wherever the handler failed or a stop caught it.
THEOREM AnswerAcked == Spec => []AckedBeforeAnswer
<1>1. Init => AckInv
  BY DEF Init, AckInv, AckOK
<1>2. ASSUME Known, AckInv, [Next]_vars  PROVE AckInv'
  BY <1>2, OthersAcked, TurnAcked DEF Next, RunStep, Interrupt
<1>3. AckInv => AckedBeforeAnswer
  BY DEF AckInv, AckOK, AckedBeforeAnswer
<1>4. Spec => []Known
  BY TypeCorrect, StopReachesItsRuns, PTL DEF Known
<1> QED
  BY <1>1, <1>2, <1>3, <1>4, PTL DEF Spec

----------------------------------------------------------------------------
(* One turn per message.                                                   *)

\* The server redelivers a message it has not seen settled one HardCap after its
\* claim at the earliest, and every acknowledgement or push that is lost costs
\* one more; so this many ticks may pass before the last redelivery.
Budget == HardCap * (1 + lost + drops)

\* The dedup window outlasts them all.
WindowOutlasts == Prompt /\ HardCap * (1 + MaxLost + MaxDrops) <= TTL

\* r runs m, or is about to.
Holds(r, m) == item[r] = m /\ pc[r] \in {"parked"} \cup Slotted

\* This process has taken m on.
Taken(m) == turns[m] > 0 \/ \E r \in Runs : Holds(r, m)

\* m is between the server and its acknowledgement as a duplicate.
InFlight(m) == m \in wire \/ \E r \in Runs : pc[r] = "dupack" /\ item[r] = m

\* No time passes over a message in flight, and the server does not take it back.
FlightFresh(m) == InFlight(m) => row[m] \in {"claimed", "settled"} /\ age[m] = 0

\* A message that was taken on and is not settled is younger than the budget.
WithinBudget(m) ==
  Taken(m) =>
    /\ InFlight(m) \/ row[m] = "queued" => seen[m] <= Budget
    /\ ~InFlight(m) /\ row[m] = "claimed" => seen[m] + HardCap <= Budget + age[m]

\* One run holds a message, and calls its handler if nobody has.
OneHolder(m) == \A r, s \in Runs : Holds(r, m) /\ Holds(s, m) => r = s
NotYet(m) ==
  \A r \in Runs :
    Holds(r, m) /\ pc[r] \in {"parked", "starting", "notify"} => turns[m] = 0

OnceOK(m) ==
  FlightFresh(m) /\ WithinBudget(m) /\ OneHolder(m) /\ NotYet(m) /\ turns[m] <= 1
OnceInv == \A m \in Messages : OnceOK(m)

\* A product grows with its factor, by one HardCap at least.
LEMMA HardCapTimes ==
  ASSUME NEW n \in Nat, NEW k \in Nat
  PROVE  /\ HardCap * n \in Nat
         /\ n <= k => HardCap * n <= HardCap * k
         /\ n < k => HardCap * n + HardCap <= HardCap * k
<1>1. HardCap \in Nat
  BY GatewayAssumption
<1>2. PICK d \in Int : k = n + d
  <2>1. k = n + (k - n) /\ k - n \in Int
    OBVIOUS
  <2> QED
    BY <2>1
<1>3. HardCap * k = HardCap * n + HardCap * d
  BY <1>1, <1>2
<1>4. n <= k => HardCap * d >= 0
  BY <1>1, <1>2
<1>5. n < k => HardCap * d >= HardCap
  BY <1>1, <1>2
<1>6. HardCap * d \in Int /\ HardCap * n \in Nat
  BY <1>1
<1> QED
  BY <1>1, <1>3, <1>4, <1>5, <1>6

\* The budget grows with what is lost, and stays below the window.
LEMMA Budgets ==
  ASSUME BoundsOK, BoundsOK', WindowOutlasts
  PROVE  /\ Budget \in Nat /\ Budget' \in Nat /\ HardCap <= Budget /\ Budget <= TTL
         /\ lost' >= lost /\ drops' >= drops => Budget <= Budget'
         /\ lost' >= lost /\ drops' >= drops /\ (lost' > lost \/ drops' > drops)
              => Budget + HardCap <= Budget'
<1>1. \A l, d \in Nat : 1 + l + d \in Nat
  OBVIOUS
<1>2. /\ lost \in Nat /\ drops \in Nat /\ lost' \in Nat /\ drops' \in Nat
      /\ MaxLost \in Nat /\ MaxDrops \in Nat
      /\ lost <= MaxLost /\ drops <= MaxDrops
  BY GatewayAssumption DEF BoundsOK
<1>3. \A l, d, l2, d2 \in Nat :
        /\ l <= l2 /\ d <= d2 => HardCap * (1 + l + d) <= HardCap * (1 + l2 + d2)
        /\ l <= l2 /\ d <= d2 /\ (l < l2 \/ d < d2)
             => HardCap * (1 + l + d) + HardCap <= HardCap * (1 + l2 + d2)
        /\ HardCap * (1 + l + d) \in Nat /\ HardCap <= HardCap * (1 + l + d)
  <2> TAKE l, d, l2, d2 \in Nat
  <2> DEFINE n == 1 + l + d
             k == 1 + l2 + d2
  <2>1. n \in Nat /\ k \in Nat /\ 1 <= n
    OBVIOUS
  <2>2. l <= l2 /\ d <= d2 => n <= k
    OBVIOUS
  <2>3. l <= l2 /\ d <= d2 /\ (l < l2 \/ d < d2) => n < k
    OBVIOUS
  <2> HIDE DEF n, k
  <2>4. HardCap \in Nat /\ HardCap * 1 = HardCap
    BY GatewayAssumption
  <2>5. HardCap * 1 <= HardCap * n
    BY <2>1, HardCapTimes
  <2>6. /\ n <= k => HardCap * n <= HardCap * k
        /\ n < k => HardCap * n + HardCap <= HardCap * k
        /\ HardCap * n \in Nat
    BY <2>1, HardCapTimes
  <2>7. /\ l <= l2 /\ d <= d2 => HardCap * n <= HardCap * k
        /\ l <= l2 /\ d <= d2 /\ (l < l2 \/ d < d2) => HardCap * n + HardCap <= HardCap * k
        /\ HardCap * n \in Nat /\ HardCap <= HardCap * n
    BY <2>2, <2>3, <2>4, <2>5, <2>6
  <2> QED
    BY <2>7 DEF n, k
<1>4. /\ HardCap * (1 + lost + drops) <= HardCap * (1 + MaxLost + MaxDrops)
      /\ Budget = HardCap * (1 + lost + drops) /\ Budget' = HardCap * (1 + lost' + drops')
  BY <1>2, <1>3 DEF Budget
<1>5. HardCap * (1 + MaxLost + MaxDrops) <= TTL /\ TTL \in Nat /\ HardCap \in Nat
  BY GatewayAssumption DEF WindowOutlasts
<1>6. /\ Budget \in Nat /\ Budget' \in Nat /\ HardCap <= Budget
  BY <1>2, <1>3, <1>4
<1>7. Budget <= TTL
  <2>1. HardCap * (1 + MaxLost + MaxDrops) \in Nat
    BY <1>2, <1>3
  <2> QED
    BY <1>4, <1>5, <1>6, <2>1
<1>8. lost' >= lost /\ drops' >= drops => Budget <= Budget'
  BY <1>2, <1>3, <1>4
<1>9. lost' >= lost /\ drops' >= drops /\ (lost' > lost \/ drops' > drops)
              => Budget + HardCap <= Budget'
  BY <1>2, <1>3, <1>4
<1> QED
  BY <1>6, <1>7, <1>8, <1>9

\* A step beside m: it neither moves m on the wire nor ages it nor takes it on.
Beside(m) ==
  /\ row'[m] \in {row[m], "settled"} /\ age'[m] = age[m] /\ seen'[m] = seen[m]
  /\ (m \in wire' => m \in wire)
  /\ (m \in wire => m \in wire' \/ drops' > drops)
  /\ lost' >= lost /\ drops' >= drops
  /\ \A r \in Runs :
       /\ (pc'[r] = "dupack" /\ item'[r] = m) <=> (pc[r] = "dupack" /\ item[r] = m)
       /\ Holds(r, m)' => Holds(r, m)
       /\ Holds(r, m)' /\ pc'[r] \in {"parked", "starting", "notify"}
            => pc[r] \in {"parked", "starting", "notify"}
  /\ \/ turns'[m] = turns[m]
     \/ \E r \in Runs :
          /\ Holds(r, m) /\ pc[r] \in {"starting", "notify"} /\ pc'[r] = "turn"
          /\ turns'[m] = turns[m] + 1

\* It keeps what holds of m.
LEMMA BesideKeeps ==
  ASSUME TypeOK, TypeOK', WindowOutlasts, NEW m \in Messages, OnceOK(m), Beside(m)
  PROVE  OnceOK(m)'
<1> USE DEF Beside
<1>a. /\ seen[m] \in Nat /\ age[m] \in Nat /\ turns[m] \in Nat /\ HardCap \in Nat
      /\ row[m] \in {"queued", "claimed", "accepted", "settled"}
  BY GatewayAssumption DEF TypeOK, NoteTypeOK, ServerTypeOK, Items
<1>b. /\ Budget \in Nat /\ Budget' \in Nat /\ Budget <= Budget'
      /\ drops' > drops => Budget + HardCap <= Budget'
  BY Budgets DEF TypeOK, BoundsOK
<1>1. InFlight(m)' => InFlight(m)
  BY DEF InFlight
<1>2. InFlight(m) => InFlight(m)' \/ drops' > drops
  BY DEF InFlight
<1>3. Taken(m)' => Taken(m)
  BY <1>a DEF Taken
<1>4. FlightFresh(m)'
  BY <1>1 DEF FlightFresh, OnceOK
<1>5. WithinBudget(m)'
  BY <1>a, <1>b, <1>1, <1>2, <1>3 DEF WithinBudget, FlightFresh, OnceOK
<1>6. OneHolder(m)'
  BY DEF OneHolder, OnceOK
<1>7. NotYet(m)' /\ turns'[m] <= 1
  <2>1. CASE turns'[m] = turns[m]
    BY <2>1 DEF NotYet, OnceOK
  <2>2. ASSUME NEW r \in Runs, Holds(r, m), pc[r] \in {"starting", "notify"}, pc'[r] = "turn",
               turns'[m] = turns[m] + 1
        PROVE  NotYet(m)' /\ turns'[m] <= 1
    <3>1. turns[m] = 0
      BY <2>2 DEF NotYet, OnceOK
    <3>2. \A s \in Runs : Holds(s, m)' => s = r
      BY <2>2 DEF OneHolder, OnceOK
    <3> QED
      BY <2>2, <3>1, <3>2 DEF NotYet
  <2> QED
    BY <2>1, <2>2
<1> QED
  BY <1>4, <1>5, <1>6, <1>7 DEF OnceOK

\* A step of the run r of a row: to a later stage or the end, and if it calls
\* the handler of its message, then from its start or the card callbacks.
RunsOn(r) ==
  /\ pc[r] \notin {"idle", "dupack"}
  /\ \E s \in Slotted \cup {"idle"} :
       /\ pc' = [pc EXCEPT ![r] = s]
       /\ item' = item \/ (s = "idle" /\ item' = [item EXCEPT ![r] = NoItem])
       /\ s \in {"starting", "notify"} => pc[r] \in {"parked", "starting", "notify"}
       /\ \/ turns' = turns
          \/ /\ pc[r] \in {"starting", "notify"} /\ s = "turn" /\ item[r] \in Messages
             /\ CallHandler(item[r])
  /\ \A m \in Messages : row'[m] \in {row[m], "settled"}
  /\ UNCHANGED <<age, wire, seen, drops>> /\ lost' >= lost

\* Such a step is beside every message: a run moves its own message on at most.
LEMMA RunsOnBeside ==
  ASSUME Known, NEW m \in Messages, OnceOK(m), NEW r \in Runs, RunsOn(r)
  PROVE  Beside(m)
<1> USE DEF RunsOn
<1>a. /\ pc \in [Runs -> Stages] /\ item \in [Runs -> Items \cup {NoItem}]
      /\ turns \in [Messages -> 0..2] /\ NoItem \notin Messages
  BY GatewayAssumption DEF Known, TypeOK, RunTypeOK, NoteTypeOK, Items
<1>b. PICK s \in Slotted \cup {"idle"} :
       /\ pc' = [pc EXCEPT ![r] = s]
       /\ item' = item \/ (s = "idle" /\ item' = [item EXCEPT ![r] = NoItem])
       /\ s \in {"starting", "notify"} => pc[r] \in {"parked", "starting", "notify"}
       /\ \/ turns' = turns
          \/ /\ pc[r] \in {"starting", "notify"} /\ s = "turn" /\ item[r] \in Messages
             /\ CallHandler(item[r])
  OBVIOUS
<1>c. s \notin {"dupack", "parked"}
  BY DEF Slotted, Executing, MessageStages, TaskStages
<1>d. pc[r] \notin {"idle", "dupack"} /\ pc[r] \in Stages
  BY <1>a
<1>1. ASSUME NEW q \in Runs
      PROVE  /\ (pc'[q] = "dupack" /\ item'[q] = m) <=> (pc[q] = "dupack" /\ item[q] = m)
             /\ Holds(q, m)' => Holds(q, m)
             /\ Holds(q, m)' /\ pc'[q] \in {"parked", "starting", "notify"}
                  => pc[q] \in {"parked", "starting", "notify"}
  <2>1. CASE q = r
    <3>1. pc'[q] = s /\ pc[q] \in {"parked"} \cup Slotted
      BY <1>a, <1>b, <1>d, <2>1 DEF Stages
    <3>2. s # "idle" => item' = item
      BY <1>b
    <3>3. "idle" \notin {"parked"} \cup Slotted
      BY DEF Slotted, Executing, MessageStages, TaskStages
    <3>4. Holds(q, m)' => Holds(q, m) /\ s # "idle"
      BY <3>1, <3>2, <3>3 DEF Holds
    <3> QED
      BY <1>b, <1>c, <1>d, <2>1, <3>1, <3>4
  <2>2. CASE q # r
    <3>1. pc'[q] = pc[q] /\ item'[q] = item[q]
      BY <1>a, <1>b, <2>2
    <3> QED
      BY <3>1 DEF Holds
  <2> QED
    BY <2>1, <2>2
<1>2. \/ turns'[m] = turns[m]
      \/ \E q \in Runs :
           /\ Holds(q, m) /\ pc[q] \in {"starting", "notify"} /\ pc'[q] = "turn"
           /\ turns'[m] = turns[m] + 1
  <2>1. CASE turns' = turns
    BY <2>1
  <2>2. CASE pc[r] \in {"starting", "notify"} /\ s = "turn" /\ item[r] \in Messages
             /\ CallHandler(item[r])
    <3>1. CASE item[r] = m
      <4>1. Holds(r, m) /\ pc'[r] = "turn"
        BY <1>a, <1>b, <2>2, <3>1 DEF Holds, Slotted, Executing, MessageStages
      <4>2. turns'[m] = turns[m] + 1
        BY <1>a, <2>2, <3>1 DEF CallHandler, OnceOK
      <4> QED
        BY <2>2, <4>1, <4>2
    <3>2. CASE item[r] # m
      BY <1>a, <2>2, <3>2 DEF CallHandler
    <3> QED
      BY <3>1, <3>2
  <2> QED
    BY <1>b, <2>1, <2>2
<1>3. /\ row'[m] \in {row[m], "settled"} /\ age'[m] = age[m] /\ seen'[m] = seen[m]
      /\ wire' = wire /\ lost' >= lost /\ drops' = drops /\ drops \in Nat
  BY DEF Known, TypeOK, BoundsOK
<1> QED
  BY <1>1, <1>2, <1>3 DEF Beside

\* A permit, the steps of the handlers and the cancellations are such steps.
LEMMA HandlersRunOn ==
  ASSUME Known, NEW r \in Runs, Acquire(r) \/ MessageStep(r) \/ TaskStep(r) \/ Interrupt(r)
  PROVE  RunsOn(r)
<1> USE DEF RunsOn, net, run, notes, bounds, slots
<1>a. /\ lost \in Nat /\ pc \in [Runs -> Stages] /\ item \in [Runs -> Items \cup {NoItem}]
      /\ row \in [Items -> {"queued", "claimed", "accepted", "settled"}]
      /\ Messages \subseteq Items /\ Messages \cap Tasks = {}
  BY GatewayAssumption DEF Known, TypeOK, BoundsOK, RunTypeOK, ServerTypeOK, Items
<1>b. pc[r] \in TaskStages => item[r] \in Tasks
  BY DEF Known, RunInv, ItemFits
<1>1. CASE Acquire(r)
  <2>1. pc[r] = "parked"
    BY <1>1 DEF Acquire, Known, RunInv, RunTypeOK, LineExact
  <2> QED
    <3>1. /\ pc' = [pc EXCEPT ![r] = "starting"] /\ item' = item /\ turns' = turns
          /\ UNCHANGED <<row, age, wire, seen, drops, lost>>
      BY <1>1 DEF Acquire, calls
    <3>2. "starting" \in Slotted /\ lost' >= lost
      BY <1>a, <3>1 DEF Slotted
    <3> QED
      BY <2>1, <3>1, <3>2
<1>2. CASE StartMessage(r) \/ Notified(r) \/ OpenBubble(r) \/ Replied(r) \/ ReplyFailed(r) \/ Notice(r)
  <2> USE DEF Slotted, Executing, MessageStages
  <2>1. CASE StartMessage(r)
    BY <1>a, <2>1 DEF StartMessage, calls
  <2>2. CASE Notified(r)
    <3>1. item[r] \in Messages
      BY <2>2 DEF Notified, Ready, Known, RunInv, ItemFits
    <3>2. /\ pc[r] = "notify" /\ pc' = [pc EXCEPT ![r] = "turn"] /\ CallHandler(item[r])
          /\ UNCHANGED <<row, age, wire, seen, drops, lost, item>>
      BY <2>2 DEF Notified, Ready, GoTo
    <3>3. "turn" \in Slotted /\ lost' >= lost
      BY <1>a, <3>2
    <3> QED
      BY <3>1, <3>2, <3>3
  <2>3. CASE OpenBubble(r)
    <3>1. pc' = [pc EXCEPT ![r] = "turn"]
      BY <1>a, <2>3 DEF OpenBubble, Ready
    <3> QED
      BY <1>a, <2>3, <3>1 DEF OpenBubble, Ready, calls
  <2>4. CASE Replied(r) \/ ReplyFailed(r) \/ Notice(r)
    BY <1>a, <2>4 DEF Replied, ReplyFailed, Notice, Ready, GoTo, calls
  <2> QED
    BY <1>2, <2>1, <2>2, <2>3, <2>4
<1>3. CASE \E reply \in BOOLEAN, cause \in {"timeout", "error"} : Return(r, reply) \/ Raise(r, cause)
  BY <1>3, <1>a DEF Return, Raise, Ready, GoTo, calls, Slotted, Executing, MessageStages
<1>4. CASE \E o \in AckOutcomes : Ack(r, o) \/ AckAfterFailure(r, o)
  <2>1. PICK o \in AckOutcomes : Ack(r, o) \/ AckAfterFailure(r, o)
    BY <1>4
  <2>2. pc[r] \in {"ack", "xack"} /\ turns' = turns /\ lost' >= lost
        /\ UNCHANGED <<age, wire, seen, drops, item>>
    BY <1>a, <2>1 DEF Ack, AckAfterFailure, Ready, GoTo, Post, calls
  <2>3. \A m \in Messages : row'[m] \in {row[m], "settled"}
    BY <1>a, <2>1 DEF Ack, AckAfterFailure, AckRow
  <2>4. \E s \in {"reply", "cleanup", "notice"} : pc' = [pc EXCEPT ![r] = s]
    BY <2>1 DEF Ack, AckAfterFailure, GoTo
  <2> QED
    BY <2>2, <2>3, <2>4 DEF Slotted, Executing, MessageStages
<1>5. CASE Cleanup(r) \/ InterruptNotify(r) \/ \E b \in BOOLEAN : InterruptCleanup(r, b)
  <2>1. pc[r] \in {"cleanup", "notify"}
    BY <1>5 DEF Cleanup, InterruptNotify, InterruptCleanup, Ready
  <2> QED
    BY <1>5, <1>a, <2>1 DEF Cleanup, InterruptNotify, InterruptCleanup, Finish, calls
<1>6. CASE \E b \in BOOLEAN : InterruptTurn(r, b)
  <2>1. PICK b \in BOOLEAN : InterruptTurn(r, b)
    BY <1>6
  <2>2. pc[r] \notin {"idle", "dupack"} /\ turns' = turns /\ lost' >= lost
        /\ UNCHANGED <<age, wire, seen, drops, item>>
    BY <1>a, <2>1 DEF InterruptTurn, calls
  <2>3. \A m \in Messages : row'[m] \in {row[m], "settled"}
    BY <1>a, <2>1 DEF InterruptTurn, AckRow
  <2>4. \E s \in {"xack", "cleanup"} : pc' = [pc EXCEPT ![r] = s]
    BY <2>1 DEF InterruptTurn
  <2> QED
    BY <2>2, <2>3, <2>4 DEF Slotted, Executing, MessageStages
<1>7. CASE TaskStep(r) \/ \E b \in BOOLEAN : InterruptTask(r, b)
  <2>1. /\ UNCHANGED <<age, wire, seen, drops, turns>> /\ lost' >= lost
    <3>1. CASE \E o \in AckOutcomes :
                 Accept(r, o) \/ CheckTerminal(r, o) \/ Complete(r, o) \/ Fail(r, o)
      BY <1>a, <3>1 DEF Accept, CheckTerminal, Complete, Fail, Post, calls
    <3>2. CASE StartTask(r) \/ FinisherTool(r) \/ ClosedByTool(r) \/ Park(r) \/ WorkRaised(r)
      <4>1. UNCHANGED <<age, wire, seen, drops, turns, lost>>
        BY <3>2 DEF StartTask, FinisherTool, ClosedByTool, Park, WorkRaised, calls
      <4> QED
        BY <1>a, <4>1
    <3>3. CASE \/ Deferred(r) \/ (\E result \in {"text", "delivered", "empty"} : WorkDone(r, result))
               \/ (\E b \in BOOLEAN : InterruptTask(r, b))
      BY <1>a, <3>3 DEF Deferred, WorkDone, InterruptTask, calls
    <3> QED
      BY <1>7, <3>1, <3>2, <3>3 DEF TaskStep
  <2>2. item[r] \in Tasks
    BY <1>7, <1>b DEF TaskStep, InterruptTask, StartTask, FinisherTool, ClosedByTool, Park, WorkDone,
       WorkRaised, Deferred, Accept, CheckTerminal, Complete, Fail, Ready, TaskStages
  <2>3. row' = row \/ \E b \in BOOLEAN : MoveTask(item[r], "claimed", "accepted", b)
                        \/ MoveTask(item[r], "accepted", "settled", b)
    BY <1>7 DEF TaskStep, InterruptTask, StartTask, FinisherTool, ClosedByTool, Park, WorkDone,
       WorkRaised, Deferred, Accept, CheckTerminal, Complete, Fail, Reaches
  <2>4. \A m \in Messages : row'[m] = row[m]
    BY <1>a, <2>2, <2>3 DEF MoveTask
  <2>5. pc[r] \notin {"idle", "dupack"}
    BY <1>7 DEF TaskStep, InterruptTask, StartTask, FinisherTool, ClosedByTool, Park, WorkDone,
       WorkRaised, Deferred, Accept, CheckTerminal, Complete, Fail, Ready, TaskStages
  <2>6. \E s \in TaskStages \cup {"idle"} :
          /\ pc' = [pc EXCEPT ![r] = s]
          /\ item' = item \/ (s = "idle" /\ item' = [item EXCEPT ![r] = NoItem])
    <3>1. CASE FinishTask(r)
      BY <3>1 DEF FinishTask, Finish
    <3>2. CASE \E s \in TaskStages : GoTo(r, s)
      BY <3>2 DEF GoTo
    <3>3. CASE StartTask(r)
      BY <3>3 DEF StartTask, TaskStages
    <3>4. CASE FinisherTool(r)
      <4>1. pc' = [pc EXCEPT ![r] = "work"] /\ item' = item
        BY <1>a, <3>4 DEF FinisherTool, Ready
      <4> QED
        BY <4>1 DEF TaskStages
    <3>5. \/ FinishTask(r) \/ (\E s \in TaskStages : GoTo(r, s)) \/ StartTask(r) \/ FinisherTool(r)
      BY <1>7 DEF TaskStep, InterruptTask, ClosedByTool, Park, WorkDone, WorkRaised, Deferred,
         Accept, CheckTerminal, Complete, Fail, TaskStages
    <3> QED
      BY <3>1, <3>2, <3>3, <3>4, <3>5
  <2> QED
    BY <2>1, <2>4, <2>5, <2>6 DEF Slotted, Executing, TaskStages
<1> QED
  BY <1>1, <1>2, <1>3, <1>4, <1>5, <1>6, <1>7 DEF MessageStep, Interrupt

\* The server's pushes and redeliveries, lost connections and time.
LEMMA EnvironmentOnce ==
  ASSUME Known, Known', WindowOutlasts, NEW m \in Messages, OnceOK(m), Environment
  PROVE  OnceOK(m)'
<1> USE DEF net, run, calls, notes, bounds
<1>a. /\ seen[m] \in 0..TTL + 1 /\ age[m] \in 0..HardCap /\ turns[m] \in Nat /\ HardCap \in Nat \ {0}
      /\ TTL \in Nat /\ row \in [Items -> {"queued", "claimed", "accepted", "settled"}]
      /\ age \in [Items -> 0..HardCap] /\ seen \in [Messages -> 0..TTL + 1] /\ m \in Items
  BY GatewayAssumption DEF Known, TypeOK, NoteTypeOK, ServerTypeOK, Items
<1>b. /\ Budget \in Nat /\ HardCap <= Budget
  BY Budgets DEF Known, TypeOK
<1>c. TypeOK /\ TypeOK'
  BY DEF Known
<1>d. lost \in Nat /\ drops \in Nat
  BY DEF Known, TypeOK, BoundsOK
<1>0. ASSUME UNCHANGED <<pc, item, turns>>
      PROVE  /\ (Taken(m)' <=> Taken(m)) /\ OneHolder(m)' /\ NotYet(m)' /\ turns'[m] <= 1
             /\ \A r \in Runs : (pc'[r] = "dupack" /\ item'[r] = m) <=> (pc[r] = "dupack" /\ item[r] = m)
             /\ \A r \in Runs : (Holds(r, m)' <=> Holds(r, m))
  BY <1>0 DEF Taken, Holds, OneHolder, NotYet, OnceOK
<1>1. ASSUME NEW i \in Items, Push(i) \/ Requeue(i), i # m  PROVE OnceOK(m)'
  <2>1. Beside(m)
    BY <1>0, <1>1, <1>a, <1>d DEF Push, Requeue, Beside
  <2> QED
    BY <1>c, <2>1, BesideKeeps
<1>2. CASE Push(m)
  <2>1. /\ row'[m] = "claimed" /\ age'[m] = 0 /\ seen' = seen /\ Budget' = Budget /\ m \in wire'
        /\ row[m] = "queued"
    BY <1>2, <1>a DEF Push, Budget
  <2>2. InFlight(m)'
    BY <2>1 DEF InFlight
  <2> QED
    BY <1>0, <1>2, <2>1, <2>2 DEF Push, OnceOK, FlightFresh, WithinBudget
<1>3. CASE Requeue(m)
  <2>1. /\ row[m] = "claimed" /\ row'[m] = "queued" /\ age[m] >= 1 /\ age' = age /\ seen' = seen
        /\ Budget' = Budget /\ wire' = wire /\ UNCHANGED <<pc, item, turns>>
    BY <1>3, <1>a DEF Requeue, Budget
  <2>2. ~InFlight(m)
    BY <1>a, <2>1 DEF OnceOK, FlightFresh
  <2>3. ~InFlight(m)'
    BY <2>1, <2>2 DEF InFlight
  <2>4. WithinBudget(m)'
    <3>1. Taken(m) => seen[m] + HardCap <= Budget + age[m]
      BY <2>1, <2>2 DEF OnceOK, WithinBudget
    <3>2. Taken(m) => seen[m] <= Budget
      BY <1>a, <1>b, <3>1
    <3>3. Taken(m)' => seen'[m] <= Budget'
      BY <1>0, <2>1, <3>2
    <3> QED
      BY <2>1, <2>3, <3>3 DEF WithinBudget
  <2> QED
    BY <1>0, <2>1, <2>3, <2>4 DEF OnceOK, FlightFresh
<1>4. ASSUME NEW k \in Keys, Stop(k)  PROVE OnceOK(m)'
  <2>1. row'[m] \in {row[m], "settled"}
    BY <1>4, <1>a DEF Stop
  <2>2. Beside(m)
    BY <1>0, <1>4, <1>d, <2>1 DEF Stop, Beside
  <2> QED
    BY <1>c, <2>2, BesideKeeps
<1>5. CASE Drop
  <2>1. Beside(m)
    BY <1>0, <1>5, <1>d DEF Drop, Beside
  <2> QED
    BY <1>c, <2>1, BesideKeeps
<1>6. CASE Tick
  <2>1. /\ m \notin wire /\ row[m] # "queued" /\ ~(row[m] = "claimed" /\ age[m] = HardCap)
        /\ \A r \in Runs : pc[r] # "dupack"
    BY <1>6, <1>a DEF Tick, Overdue, WindowOutlasts
  <2>2. /\ row' = row /\ wire' = wire /\ Budget' = Budget /\ UNCHANGED <<pc, item, turns>>
    BY <1>6 DEF Tick, Budget
  <2>3. ~InFlight(m) /\ ~InFlight(m)'
    BY <2>1, <2>2 DEF InFlight
  <2>4. row[m] = "claimed" => age'[m] = age[m] + 1
    BY <1>6, <1>a, <2>1 DEF Tick
  <2>5. seen'[m] <= seen[m] + 1 /\ seen'[m] \in Nat
    BY <1>6, <1>a DEF Tick
  <2>6. WithinBudget(m)'
    <3>1. Taken(m) /\ row[m] = "claimed" => seen[m] + HardCap <= Budget + age[m]
      BY <2>3 DEF OnceOK, WithinBudget
    <3>2. Taken(m)' /\ row'[m] = "claimed" => seen'[m] + HardCap <= Budget' + age'[m]
      BY <1>0, <1>a, <1>b, <2>2, <2>4, <2>5, <3>1
    <3> QED
      BY <2>1, <2>2, <2>3, <3>2 DEF WithinBudget
  <2> QED
    BY <1>0, <2>2, <2>3, <2>6 DEF OnceOK, FlightFresh
<1> QED
  BY <1>1, <1>2, <1>3, <1>4, <1>5, <1>6 DEF Environment

\* A message taken on is never received anew: while it is not settled its entry
\* is younger than the window.
LEMMA ReceiptOnce ==
  ASSUME Known, Known', WindowOutlasts, NEW m \in Messages, OnceOK(m),
         NEW r \in Runs, NEW i \in Items, Receive(r, i) \/ ReceiveDuplicate(r, i)
  PROVE  OnceOK(m)'
<1> USE DEF net, calls, notes, bounds
<1>a. /\ seen[m] \in 0..TTL + 1 /\ age[m] \in 0..HardCap /\ turns[m] \in Nat /\ HardCap \in Nat \ {0}
      /\ TTL \in Nat /\ seen \in [Messages -> 0..TTL + 1] /\ m \in Items
      /\ pc \in [Runs -> Stages] /\ item \in [Runs -> Items \cup {NoItem}]
  <2>1. m \in Items /\ HardCap \in Nat \ {0} /\ TTL \in Nat
    BY GatewayAssumption DEF Items
  <2>2. /\ seen \in [Messages -> 0..TTL + 1] /\ age \in [Items -> 0..HardCap]
        /\ turns \in [Messages -> 0..2]
        /\ pc \in [Runs -> Stages] /\ item \in [Runs -> Items \cup {NoItem}]
    BY DEF Known, TypeOK, RunTypeOK, NoteTypeOK, ServerTypeOK
  <2> QED
    BY <2>1, <2>2
<1>b. /\ Budget \in Nat /\ HardCap <= Budget /\ Budget <= TTL /\ Budget' = Budget
  BY Budgets DEF Known, TypeOK, Receive, ReceiveDuplicate, Budget
<1>c. TypeOK /\ TypeOK' /\ lost \in Nat /\ drops \in Nat
  BY DEF Known, TypeOK, BoundsOK
<1>d. /\ pc[r] = "idle" /\ i \in wire /\ wire' = wire \ {i} /\ item' = [item EXCEPT ![r] = i]
      /\ UNCHANGED <<row, age, turns, lost, drops>>
  BY DEF Receive, ReceiveDuplicate
<1>e. /\ Receive(r, i) => pc' = [pc EXCEPT ![r] = "parked"]
      /\ ReceiveDuplicate(r, i) => pc' = [pc EXCEPT ![r] = "dupack"] /\ seen' = seen
  BY DEF Receive, ReceiveDuplicate
<1>f. ~Holds(r, m) /\ \A q \in Runs \ {r} : pc'[q] = pc[q] /\ item'[q] = item[q]
                                          /\ (Holds(q, m)' <=> Holds(q, m))
  BY <1>a, <1>d, <1>e DEF Holds, Slotted, Executing, MessageStages, TaskStages
<1>1. CASE i # m
  <2>1. item'[r] # m /\ ~Holds(r, m)' /\ seen'[m] = seen[m]
    BY <1>1, <1>a, <1>d DEF Receive, ReceiveDuplicate, Holds
  <2>2. Beside(m)
    BY <1>1, <1>a, <1>c, <1>d, <1>f, <2>1 DEF Beside
  <2> QED
    BY <1>c, <2>2, BesideKeeps
<1>2. CASE i = m /\ Receive(r, m)
  <2>1. seen[m] > TTL /\ InFlight(m)
    BY <1>2, <1>a DEF Receive, IsDuplicate, InFlight
  <2>2. ~Taken(m)
    BY <1>a, <1>b, <2>1 DEF OnceOK, WithinBudget
  <2>3. turns'[m] = 0 /\ \A q \in Runs \ {r} : ~Holds(q, m)'
    BY <1>a, <1>d, <1>f, <2>2 DEF Taken
  <2>4. OneHolder(m)' /\ NotYet(m)'
    BY <2>3 DEF OneHolder, NotYet
  <2>5. InFlight(m)' => InFlight(m)
    BY <2>1
  <2>6. FlightFresh(m)'
    BY <1>d, <2>5 DEF OnceOK, FlightFresh
  <2>7. seen'[m] = 0
    BY <1>2, <1>a DEF Receive
  <2>8. WithinBudget(m)'
    BY <1>a, <1>b, <1>d, <2>7 DEF WithinBudget
  <2> QED
    BY <2>3, <2>4, <2>6, <2>8 DEF OnceOK
<1>3. CASE i = m /\ ReceiveDuplicate(r, m)
  <2>1. InFlight(m) /\ seen' = seen /\ pc'[r] = "dupack"
    BY <1>3, <1>a, <1>d, <1>e DEF InFlight
  <2>2. ~Holds(r, m)' /\ \A q \in Runs : (Holds(q, m)' <=> Holds(q, m))
    BY <1>f, <2>1 DEF Holds, Slotted, Executing, MessageStages, TaskStages
  <2>3. (Taken(m)' <=> Taken(m)) /\ OneHolder(m)'
    BY <1>d, <2>2 DEF Taken, OnceOK, OneHolder
  <2>4. NotYet(m)'
    BY <1>d, <1>f, <2>2 DEF OnceOK, NotYet
  <2>5. row[m] \in {"claimed", "settled"} /\ age[m] = 0 /\ (Taken(m) => seen[m] <= Budget)
    BY <2>1 DEF OnceOK, FlightFresh, WithinBudget
  <2>6. InFlight(m)'
    BY <1>3, <1>a, <1>d, <2>1 DEF InFlight
  <2>7. FlightFresh(m)' /\ WithinBudget(m)'
    BY <1>b, <1>d, <2>1, <2>3, <2>5, <2>6 DEF FlightFresh, WithinBudget
  <2> QED
    BY <1>d, <2>3, <2>4, <2>7 DEF OnceOK
<1> QED
  BY <1>1, <1>2, <1>3

\* The acknowledgement of a duplicate settles the row, or costs a redelivery.
LEMMA DuplicateOnce ==
  ASSUME Known, Known', WindowOutlasts, NEW m \in Messages, OnceOK(m),
         NEW r \in Runs, NEW o \in AckOutcomes, AckDuplicate(r, o)
  PROVE  OnceOK(m)'
<1> USE DEF net, calls, notes, bounds
<1>a. /\ seen[m] \in 0..TTL + 1 /\ age[m] \in 0..HardCap /\ turns[m] \in Nat /\ HardCap \in Nat \ {0}
      /\ row \in [Items -> {"queued", "claimed", "accepted", "settled"}] /\ m \in Items
      /\ pc \in [Runs -> Stages] /\ item \in [Runs -> Items \cup {NoItem}] /\ NoItem # m
  <2>1. m \in Items /\ HardCap \in Nat \ {0} /\ NoItem # m
    BY GatewayAssumption DEF Items
  <2>2. /\ seen \in [Messages -> 0..TTL + 1] /\ age \in [Items -> 0..HardCap]
        /\ turns \in [Messages -> 0..2]
        /\ row \in [Items -> {"queued", "claimed", "accepted", "settled"}]
        /\ pc \in [Runs -> Stages] /\ item \in [Runs -> Items \cup {NoItem}]
    BY DEF Known, TypeOK, RunTypeOK, NoteTypeOK, ServerTypeOK
  <2> QED
    BY <2>1, <2>2
<1>b. /\ pc[r] = "dupack" /\ pc' = [pc EXCEPT ![r] = "idle"] /\ item' = [item EXCEPT ![r] = NoItem]
      /\ UNCHANGED <<age, wire, seen, turns, drops>> /\ AckRow(item[r], o # "nosend")
      /\ lost' \in {lost, lost + 1} /\ (o = "nosend" => lost' = lost + 1)
  BY DEF AckDuplicate, Post, Reaches
<1>c. /\ TypeOK /\ TypeOK' /\ lost \in Nat /\ drops \in Nat /\ lost' >= lost
  BY <1>b DEF Known, TypeOK, BoundsOK
<1>d. /\ Budget \in Nat /\ Budget' \in Nat /\ Budget <= Budget'
      /\ o = "nosend" => Budget + HardCap <= Budget'
  BY <1>b, <1>c, Budgets DEF TypeOK
<1>f. \A q \in Runs : (Holds(q, m)' <=> Holds(q, m)) /\ (Holds(q, m) => pc'[q] = pc[q])
  BY <1>a, <1>b DEF Holds, Slotted, Executing, MessageStages, TaskStages
<1>1. CASE item[r] # m
  <2>1. row'[m] = row[m]
    BY <1>1, <1>a, <1>b DEF AckRow
  <2>2. \A q \in Runs : (pc'[q] = "dupack" /\ item'[q] = m) <=> (pc[q] = "dupack" /\ item[q] = m)
    BY <1>1, <1>a, <1>b
  <2>3. Beside(m)
    BY <1>b, <1>c, <1>f, <2>1, <2>2 DEF Beside
  <2> QED
    BY <1>c, <2>3, BesideKeeps
<1>2. CASE item[r] = m
  <2>1. InFlight(m)
    BY <1>2, <1>b DEF InFlight
  <2>2. row[m] \in {"claimed", "settled"} /\ age[m] = 0 /\ row'[m] \in {row[m], "settled"}
        /\ (o # "nosend" => row'[m] = "settled")
    BY <1>2, <1>a, <1>b, <2>1 DEF OnceOK, FlightFresh, AckRow
  <2>3. (Taken(m)' <=> Taken(m)) /\ OneHolder(m)' /\ NotYet(m)'
    BY <1>b, <1>f DEF Taken, OnceOK, OneHolder, NotYet
  <2>4. FlightFresh(m)'
    BY <1>b, <2>2 DEF FlightFresh
  <2>5. WithinBudget(m)'
    BY <1>a, <1>b, <1>d, <2>1, <2>2, <2>3 DEF OnceOK, WithinBudget
  <2> QED
    BY <1>b, <2>3, <2>4, <2>5 DEF OnceOK
<1> QED
  BY <1>1, <1>2

\* The steps of the process, of its link and of its stops.
LEMMA ProcessOnce ==
  ASSUME Known, Known', WindowOutlasts, NEW m \in Messages, OnceOK(m),
         \/ UNCHANGED vars \/ Reconnect \/ Restart \/ Crash
         \/ \E k \in Keys : DeliverStop(k)
  PROVE  OnceOK(m)'
<1>a. TypeOK /\ TypeOK' /\ lost \in Nat /\ drops \in Nat
  BY DEF Known, TypeOK, BoundsOK
<1>1. CASE UNCHANGED vars \/ Reconnect \/ Restart \/ \E k \in Keys : DeliverStop(k)
  <2>1. UNCHANGED <<age, wire, seen, pc, item, turns, lost, drops>>
    BY <1>1 DEF Reconnect, Restart, DeliverStop, vars, net, run, calls, notes, bounds
  <2>2. row'[m] = row[m]
    BY <1>1, GatewayAssumption DEF Reconnect, Restart, DeliverStop, vars, Items
  <2>3. Beside(m)
    BY <1>a, <2>1, <2>2 DEF Beside, Holds
  <2> QED
    BY <1>a, <2>3, BesideKeeps
<1>2. CASE Crash
  <2>1. turns'[m] = 0 /\ wire' = {} /\ \A r \in Runs : pc'[r] = "idle"
    BY <1>2 DEF Crash
  <2>2. \A r \in Runs : ~Holds(r, m)'
    BY <2>1 DEF Holds, Slotted, Executing, MessageStages, TaskStages
  <2>3. ~Taken(m)' /\ ~InFlight(m)'
    BY <2>1, <2>2 DEF Taken, InFlight
  <2> QED
    BY <2>1, <2>2, <2>3 DEF OnceOK, FlightFresh, WithinBudget, OneHolder, NotYet
<1> QED
  BY <1>1, <1>2

\* What holds of every message while the window outlasts the redeliveries.
OnceWithin == WindowOutlasts => OnceInv

\* Every step keeps it.
LEMMA StepOnce ==
  ASSUME Known, Known', OnceWithin, [Next]_vars
  PROVE  OnceWithin'
<1> SUFFICES ASSUME WindowOutlasts, NEW m \in Messages, OnceOK(m)  PROVE OnceOK(m)'
  BY DEF OnceWithin, OnceInv, WindowOutlasts
<1>1. ASSUME NEW r \in Runs, Acquire(r) \/ MessageStep(r) \/ TaskStep(r) \/ Interrupt(r)
      PROVE  OnceOK(m)'
  BY <1>1, HandlersRunOn, RunsOnBeside, BesideKeeps DEF Known
<1>2. ASSUME NEW r \in Runs, NEW o \in AckOutcomes, AckDuplicate(r, o)  PROVE OnceOK(m)'
  BY <1>2, DuplicateOnce
<1>3. ASSUME NEW i \in Items, Dispatch(i)  PROVE OnceOK(m)'
  BY <1>3, ReceiptOnce DEF Dispatch
<1>4. CASE Environment
  BY <1>4, EnvironmentOnce
<1>5. CASE UNCHANGED vars \/ Reconnect \/ Restart \/ Crash \/ \E k \in Keys : DeliverStop(k)
  BY <1>5, ProcessOnce
<1> QED
  BY <1>1, <1>2, <1>3, <1>4, <1>5 DEF Next, RunStep

\* So it holds always.
LEMMA OnceInvariant == Spec => []OnceWithin
<1>1. Init => OnceWithin
  BY GatewayAssumption DEF Init, OnceWithin, OnceInv, OnceOK, FlightFresh, WithinBudget, OneHolder,
     NotYet, Taken, InFlight, Holds, Slotted, Executing, MessageStages, TaskStages
<1>2. Spec => []Known
  BY TypeCorrect, StopReachesItsRuns, PTL DEF Known
<1> QED
  BY <1>1, <1>2, StepOnce, PTL DEF Spec

\* As long as the dedup window outlasts every redelivery the losses can cause,
\* one process runs the turn of a message once.
THEOREM TurnOnce == Spec => [](WindowOutlasts => OneTurnPerMessage)
<1>1. OnceWithin => (WindowOutlasts => OneTurnPerMessage)
  BY DEF OnceWithin, OnceInv, OnceOK, OneTurnPerMessage
<1> QED
  BY <1>1, OnceInvariant, PTL

----------------------------------------------------------------------------
(* No bubble left on screen.                                               *)

\* The run of a bubble on screen is in its turn or on the way to its teardown,
\* which will find the bubble under the message.
BubbleOwned ==
  \A r \in bubble :
    pc[r] \in {"turn", "xack", "notice", "cleanup"} /\ cleanups[item[r]] = r
BubbleInv == NoStuckBubble /\ BubbleOwned

\* One run holds a message.
OneEach == \A m \in Messages : OneHolder(m)

\* A step that leaves the bubbles, and the runs they belong to, where they are.
BubblesStay ==
  /\ UNCHANGED <<cleanups, stuck>> /\ bubble' \subseteq bubble
  /\ \A r \in bubble' :
       /\ pc'[r] \in {"turn", "xack", "notice", "cleanup"} \/ pc'[r] = pc[r]
       /\ item'[r] = item[r]

\* It keeps them owned.
LEMMA BubblesStayKeeps == ASSUME BubbleInv, BubblesStay  PROVE BubbleInv'
  BY DEF BubbleInv, NoStuckBubble, BubbleOwned, BubblesStay

\* Everything but the opening of a bubble and the end of a run leaves them.
LEMMA OthersLeaveBubbles ==
  ASSUME Known, BubbleInv,
         \/ UNCHANGED vars
         \/ Environment \/ Reconnect \/ Restart
         \/ \E k \in Keys : DeliverStop(k)
         \/ \E i \in Items : Dispatch(i)
         \/ \E r \in Runs :
              \/ Acquire(r) \/ StartMessage(r) \/ Notified(r) \/ StartTask(r)
              \/ Replied(r) \/ ReplyFailed(r) \/ Notice(r)
              \/ FinisherTool(r) \/ WorkRaised(r)
              \/ \E reply \in BOOLEAN : Return(r, reply)
              \/ \E cause \in {"timeout", "error"} : Raise(r, cause)
              \/ \E o \in AckOutcomes : AckDuplicate(r, o) \/ Ack(r, o) \/ AckAfterFailure(r, o)
              \/ \E result \in {"text", "delivered", "empty"} : WorkDone(r, result)
              \/ \E b \in BOOLEAN : InterruptTurn(r, b)
  PROVE  BubblesStay
<1> USE DEF BubblesStay, net, run, teardown, notes
<1>a. pc \in [Runs -> Stages] /\ item \in [Runs -> Items \cup {NoItem}] /\ bubble \subseteq Runs
  BY DEF Known, TypeOK, RunTypeOK, NoteTypeOK
<1>b. \A r \in bubble : pc[r] \in {"turn", "xack", "notice", "cleanup"}
  BY DEF BubbleInv, BubbleOwned
<1>1. CASE UNCHANGED vars
  BY <1>1 DEF vars
<1>2. CASE Environment \/ Reconnect \/ Restart \/ \E k \in Keys : DeliverStop(k)
  BY <1>2 DEF Environment, Push, Requeue, Stop, Drop, Tick, Reconnect, Restart, DeliverStop
<1>3. ASSUME NEW i \in Items, NEW r \in Runs, Receive(r, i) \/ ReceiveDuplicate(r, i)
      PROVE  BubblesStay
  BY <1>3, <1>a, <1>b DEF Receive, ReceiveDuplicate
<1>4. ASSUME NEW r \in Runs, Acquire(r)  PROVE BubblesStay
  <2>1. pc[r] = "parked"
    BY <1>4 DEF Acquire, Known, RunInv, RunTypeOK, LineExact
  <2> QED
    BY <1>4, <1>a, <1>b, <2>1 DEF Acquire
<1>5. ASSUME NEW r \in Runs, StartMessage(r) \/ Notified(r) \/ StartTask(r)  PROVE BubblesStay
  BY <1>5, <1>a, <1>b DEF StartMessage, Notified, StartTask, Ready, GoTo
<1>6. ASSUME NEW r \in Runs, Replied(r) \/ ReplyFailed(r) \/ Notice(r)  PROVE BubblesStay
  BY <1>6, <1>a, <1>b DEF Replied, ReplyFailed, Notice, Ready, GoTo
<1>7. ASSUME NEW r \in Runs,
             \/ FinisherTool(r) \/ WorkRaised(r)
             \/ \E result \in {"text", "delivered", "empty"} : WorkDone(r, result)
      PROVE  BubblesStay
  BY <1>7, <1>a, <1>b DEF FinisherTool, WorkRaised, WorkDone, Ready, GoTo
<1>8. ASSUME NEW r \in Runs, NEW reply \in BOOLEAN, NEW cause \in {"timeout", "error"},
             Return(r, reply) \/ Raise(r, cause)
      PROVE  BubblesStay
  BY <1>8, <1>a, <1>b DEF Return, Raise, Ready, GoTo
<1>9. ASSUME NEW r \in Runs, NEW o \in AckOutcomes,
             AckDuplicate(r, o) \/ Ack(r, o) \/ AckAfterFailure(r, o)
      PROVE  BubblesStay
  BY <1>9, <1>a, <1>b DEF AckDuplicate, Ack, AckAfterFailure, Ready, GoTo
<1>10. ASSUME NEW r \in Runs, NEW b \in BOOLEAN, InterruptTurn(r, b)  PROVE BubblesStay
  BY <1>10, <1>a, <1>b DEF InterruptTurn
<1> QED
  BY <1>1, <1>2, <1>3, <1>4, <1>5, <1>6, <1>7, <1>8, <1>9, <1>10 DEF Dispatch

\* The end of a run takes its own bubble with it, or none is left.
LEMMA FinishKeepsBubbles ==
  ASSUME Known, BubbleInv, NEW r \in Runs, NEW shown, Finish(r, shown),
         shown \subseteq bubble, r \notin shown \ struck,
         \A q \in bubble \ {r} : cleanups'[item[q]] = cleanups[item[q]]
  PROVE  BubbleInv'
<1>a. pc \in [Runs -> Stages] /\ item \in [Runs -> Items \cup {NoItem}] /\ bubble \subseteq Runs
  BY DEF Known, TypeOK, RunTypeOK, NoteTypeOK
<1>1. bubble' \subseteq bubble \ {r} /\ stuck' = stuck
  BY DEF Finish
<1>2. \A q \in bubble' : q # r /\ pc'[q] = pc[q] /\ item'[q] = item[q]
  BY <1>a, <1>1 DEF Finish
<1> QED
  BY <1>1, <1>2 DEF BubbleInv, NoStuckBubble, BubbleOwned

\* The run of a bubble holds a message.
LEMMA BubbleHolds ==
  ASSUME Known, BubbleInv, NEW q \in bubble
  PROVE  q \in Runs /\ item[q] \in Messages /\ Holds(q, item[q])
  BY DEF Known, TypeOK, NoteTypeOK, RunInv, ItemFits, BubbleInv, BubbleOwned, Holds, Slotted, Executing,
     MessageStages

\* A turn that opens its bubble, or tears it down, finds its own entry: no other
\* run holds its message.
LEMMA TeardownKeepsBubbles ==
  ASSUME Known, OneEach, BubbleInv, NEW r \in Runs,
         OpenBubble(r) \/ Cleanup(r) \/ \E b \in BOOLEAN : InterruptCleanup(r, b)
  PROVE  BubbleInv'
<1>a. /\ pc \in [Runs -> Stages] /\ item \in [Runs -> Items \cup {NoItem}] /\ bubble \subseteq Runs
      /\ cleanups \in [Messages -> Runs \cup {NoRun}]
  BY DEF Known, TypeOK, RunTypeOK, NoteTypeOK
<1>b. pc[r] \in {"turn", "cleanup"} /\ item[r] \in Messages /\ Holds(r, item[r])
  <2>1. pc[r] \in {"turn", "cleanup"}
    BY DEF OpenBubble, Cleanup, InterruptCleanup, Ready
  <2>2. item[r] \in Messages
    BY <2>1 DEF Known, RunInv, ItemFits, MessageStages
  <2> QED
    BY <2>1, <2>2 DEF Holds, Slotted, Executing, MessageStages
<1>c. \A q \in bubble \ {r} : item[q] # item[r]
  BY <1>b, BubbleHolds DEF OneEach, OneHolder
<1>1. CASE OpenBubble(r)
  <2>1. /\ bubble' = bubble \cup {r} /\ cleanups' = [cleanups EXCEPT ![item[r]] = r]
        /\ UNCHANGED <<pc, item, stuck>> /\ pc[r] = "turn"
    BY <1>1 DEF OpenBubble, Ready, run, notes
  <2>2. cleanups'[item[r]] = r
    BY <1>a, <1>b, <2>1
  <2>3. \A q \in bubble \ {r} : cleanups'[item[q]] = cleanups[item[q]]
    BY <1>a, <1>b, <1>c, <2>1, BubbleHolds
  <2> QED
    BY <2>1, <2>2, <2>3 DEF BubbleInv, NoStuckBubble, BubbleOwned
<1>2. CASE Cleanup(r) \/ \E b \in BOOLEAN : InterruptCleanup(r, b)
  <2>1. cleanups' = [cleanups EXCEPT ![item[r]] = NoRun]
    BY <1>2 DEF Cleanup, InterruptCleanup
  <2>2. \A q \in bubble \ {r} : cleanups'[item[q]] = cleanups[item[q]]
    BY <1>a, <1>b, <1>c, <2>1, BubbleHolds
  <2>3. \E shown \in SUBSET bubble : Finish(r, shown) /\ r \notin shown \ struck
    <3>1. CASE Cleanup(r)
      <4>1. r \in bubble => cleanups[item[r]] = r
        BY DEF BubbleInv, BubbleOwned
      <4> QED
        BY <3>1, <4>1 DEF Cleanup
    <3>2. ASSUME NEW b \in BOOLEAN, InterruptCleanup(r, b)
          PROVE  \E shown \in SUBSET bubble : Finish(r, shown) /\ r \notin shown \ struck
      BY <3>2 DEF InterruptCleanup
    <3> QED
      BY <1>2, <3>1, <3>2
  <2> QED
    BY <2>2, <2>3, FinishKeepsBubbles
<1> QED
  BY <1>1, <1>2

\* A run that ends elsewhere has no bubble, or was stopped.
LEMMA EndingsKeepBubbles ==
  ASSUME Known, BubbleInv, NEW r \in Runs,
         \/ FinishTask(r) /\ pc[r] \in TaskStages
         \/ InterruptNotify(r)
  PROVE  BubbleInv'
<1>1. r \notin bubble
  BY DEF BubbleInv, BubbleOwned, InterruptNotify, TaskStages
<1>2. Finish(r, bubble) /\ cleanups' = cleanups
  BY DEF FinishTask, InterruptNotify
<1> QED
  BY <1>1, <1>2, FinishKeepsBubbles

\* Every step keeps every bubble owned.
LEMMA StepKeepsBubbles ==
  ASSUME Known, OneEach, BubbleInv, [Next]_vars
  PROVE  BubbleInv'
<1> USE BubblesStayKeeps, OthersLeaveBubbles, EndingsKeepBubbles, TeardownKeepsBubbles
<1>1. ASSUME NEW r \in Runs, TaskStep(r) \/ \E b \in BOOLEAN : InterruptTask(r, b)
      PROVE  BubbleInv'
  <2>1. CASE \/ StartTask(r) \/ FinisherTool(r) \/ WorkRaised(r)
             \/ \E result \in {"text", "delivered", "empty"} : WorkDone(r, result)
    BY <2>1
  <2>2. CASE ClosedByTool(r) \/ Park(r) \/ Deferred(r) \/ \E b \in BOOLEAN : InterruptTask(r, b)
    BY <2>2 DEF ClosedByTool, Park, Deferred, InterruptTask, Ready, TaskStages
  <2>3. ASSUME NEW o \in AckOutcomes,
               Accept(r, o) \/ CheckTerminal(r, o) \/ Complete(r, o) \/ Fail(r, o)
        PROVE  BubbleInv'
    <3>1. CASE FinishTask(r)
      BY <2>3, <3>1 DEF Accept, CheckTerminal, Complete, Fail, Ready, TaskStages
    <3>2. CASE ~FinishTask(r)
      <4>1. /\ pc[r] \in TaskStages /\ UNCHANGED <<teardown, stuck>>
            /\ \E s \in TaskStages : GoTo(r, s)
        BY <2>3, <3>2 DEF Accept, CheckTerminal, Complete, Fail, Ready, TaskStages
      <4>2. r \notin bubble
        BY <4>1 DEF BubbleInv, BubbleOwned, TaskStages
      <4>3. pc \in [Runs -> Stages]
        BY DEF Known, TypeOK, RunTypeOK
      <4> QED
        BY <4>1, <4>2, <4>3 DEF BubblesStay, GoTo, teardown
    <3> QED
      BY <3>1, <3>2
  <2> QED
    BY <1>1, <2>1, <2>2, <2>3 DEF TaskStep
<1>2. ASSUME NEW r \in Runs, MessageStep(r) \/ InterruptNotify(r)
               \/ \E b \in BOOLEAN : InterruptTurn(r, b) \/ InterruptCleanup(r, b)
      PROVE  BubbleInv'
  BY <1>2 DEF MessageStep
<1>3. CASE Crash
  BY <1>3 DEF Crash, BubbleInv, NoStuckBubble, BubbleOwned
<1>4. CASE UNCHANGED vars \/ Environment \/ Reconnect \/ Restart
             \/ (\E k \in Keys : DeliverStop(k)) \/ \E i \in Items : Dispatch(i)
  BY <1>4
<1>5. ASSUME NEW r \in Runs, Acquire(r) \/ \E o \in AckOutcomes : AckDuplicate(r, o)  PROVE BubbleInv'
  BY <1>5
<1> QED
  BY <1>1, <1>2, <1>3, <1>4, <1>5 DEF Next, RunStep, Interrupt

\* Under the same condition a turn leaves its message acknowledged before it
\* was answered, and its bubble closed.
THEOREM TurnLeftInOrder == Spec => [](WindowOutlasts => LeftInOrder)
<1> DEFINE Inv == WindowOutlasts => BubbleInv
<1>1. Init => Inv
  BY DEF Init, BubbleInv, NoStuckBubble, BubbleOwned
<1>2. Known /\ OnceWithin /\ Inv /\ [Next]_vars => Inv'
  BY StepKeepsBubbles DEF OnceWithin, OnceInv, OnceOK, OneEach, WindowOutlasts
<1>3. Inv /\ AckedBeforeAnswer => (WindowOutlasts => LeftInOrder)
  BY DEF BubbleInv, LeftInOrder
<1>4. Spec => []Known
  BY TypeCorrect, StopReachesItsRuns, PTL DEF Known
<1> QED
  BY <1>1, <1>2, <1>3, <1>4, OnceInvariant, AnswerAcked, PTL DEF Spec
====
