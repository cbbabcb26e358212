--------------------------- MODULE TaskTurnProofs ---------------------------
(***************************************************************************)
(* Proofs about a task turn, for any number of progress events, of POSTs   *)
(* that fail and of stops, timeouts and closings by the server.            *)
(***************************************************************************)
EXTENDS TaskTurn, TLAPS

\* The types of the state, in three parts.
FlagsOK ==
  /\ pulse \in BOOLEAN /\ quiet \in BOOLEAN /\ pending \in BOOLEAN /\ flushed \in BOOLEAN
  /\ finisher \in BOOLEAN /\ parked \in BOOLEAN /\ deferred \in BOOLEAN
  /\ unreported \in BOOLEAN /\ directive \in BOOLEAN
PlacesOK ==
  /\ mode \in Modes /\ pc \in Handler \cup Executor \cup {"over"} /\ next \in {"model"}
  /\ beat \in {"none", "asleep", "posting", "cancelled", "ended"}
  /\ row \in {"open", "blocked", "closed"}
CountsOK == events \in 0..MaxEvents /\ lost \in 0..MaxLost /\ cuts \in 0..MaxCuts

\* Where the turn has no progress to report: before the model is called and
\* after flush() has begun.
NoProgressAt == {"begin", "refusing", "step", "flushing", "sending", "processing", "results",
                 "parking", "check", "complete"}

\* flush() silences the run before it waits, and it stays silent.
Silenced == (flushed \/ pc \in {"flushing", "sending", "processing"}) => quiet

\* The heartbeat runs next to the model's call, or was left behind by it.
BeatsWithTheModel == pc \in NoProgressAt => ~Alive

\* A finisher tool closes the task, and only a task that is closed is stopped.
ClosedBehind == finisher \/ directive => row = "closed"

\* The task was parked with the server's consent, and that ends the turn.
ParkedAtTheEnd == parked => pc = "over" /\ row \in {"blocked", "closed"}

\* All of it: what follows from where the turn is, and what holds when it ends.
TurnInv ==
  /\ TypeOK /\ Silenced /\ BeatsWithTheModel /\ ClosedBehind /\ ParkedAtTheEnd
  /\ NoGhostProgress /\ Accounted

\* A turn begins with nothing said and nothing running.
LEMMA TurnStarts == Init => TurnInv
<1> SUFFICES ASSUME Init PROVE TurnInv
  OBVIOUS
<1>1. TypeOK
  <2>1. FlagsOK
    BY DEF Init, FlagsOK
  <2>2. PlacesOK
    BY DEF Init, PlacesOK, Handler
  <2>3. CountsOK
    BY TaskAssumption DEF Init, CountsOK
  <2> QED
    BY <2>1, <2>2, <2>3 DEF TypeOK, FlagsOK, PlacesOK, CountsOK
<1>2. Silenced /\ BeatsWithTheModel /\ ClosedBehind /\ ParkedAtTheEnd
  BY DEF Init, Silenced, BeatsWithTheModel, Alive, ClosedBehind, ParkedAtTheEnd
<1>3. NoGhostProgress /\ Accounted
  BY DEF Init, NoGhostProgress, Accounted
<1> QED
  BY <1>1, <1>2, <1>3 DEF TurnInv

\* Every step of the turn, of its heartbeat and of the server keeps all of it.
LEMMA TurnSteps == TurnInv /\ [Next]_vars => TurnInv'
<1> SUFFICES ASSUME TurnInv, [Next]_vars PROVE TurnInv'
  OBVIOUS
<1> USE TaskAssumption DEF TurnInv, TypeOK, FlagsOK, PlacesOK, CountsOK, Silenced, BeatsWithTheModel, NoProgressAt, Alive, ClosedBehind,
     ParkedAtTheEnd, NoGhostProgress, Accounted, Modes, Handler, Executor, task, progress, outcome, Post, Outcomes
<1>1. ASSUME NEW b \in BOOLEAN, ClosedElsewhere(b) PROVE TurnInv'
  BY <1>1 DEF ClosedElsewhere
<1>2. ASSUME NEW b \in BOOLEAN, Event(b) PROVE TurnInv'
  <2>1. TypeOK'
    <3>1. FlagsOK'
      BY <1>2 DEF Event, OnProgress
    <3>2. PlacesOK'
      BY <1>2 DEF Event, OnProgress, Arm
    <3>3. CountsOK'
      BY <1>2 DEF Event
    <3> QED
      BY <3>1, <3>2, <3>3
  <2>2. Silenced' /\ BeatsWithTheModel'
    BY <1>2 DEF Event, OnProgress
  <2>3. ClosedBehind' /\ ParkedAtTheEnd'
    BY <1>2 DEF Event
  <2>4. NoGhostProgress' /\ Accounted'
    BY <1>2 DEF Event, OnProgress
  <2> QED
    BY <2>1, <2>2, <2>3, <2>4
<1>3. ASSUME BeatWakes PROVE TurnInv'
  BY <1>3 DEF BeatWakes
<1>4. ASSUME BeatCancelled PROVE TurnInv'
  BY <1>4 DEF BeatCancelled
<1>5. ASSUME NEW o \in Outcomes, BeatPosted(o) PROVE TurnInv'
  <2>1. TypeOK'
    <3>1. FlagsOK'
      BY <1>5 DEF BeatPosted
    <3>2. PlacesOK'
      BY <1>5 DEF BeatPosted
    <3>3. CountsOK'
      BY <1>5 DEF BeatPosted
    <3> QED
      BY <3>1, <3>2, <3>3
  <2>2. Silenced' /\ BeatsWithTheModel'
    BY <1>5 DEF BeatPosted
  <2>3. ClosedBehind' /\ ParkedAtTheEnd'
    BY <1>5 DEF BeatPosted
  <2>4. NoGhostProgress' /\ Accounted'
    BY <1>5 DEF BeatPosted
  <2> QED
    BY <2>1, <2>2, <2>3, <2>4
<1>6. ASSUME NEW b \in BOOLEAN, Begin(b) PROVE TurnInv'
  <2>1. TypeOK'
    <3>1. FlagsOK'
      BY <1>6 DEF Begin
    <3>2. PlacesOK'
      BY <1>6 DEF Begin
    <3>3. CountsOK'
      BY <1>6 DEF Begin
    <3> QED
      BY <3>1, <3>2, <3>3
  <2>2. Silenced' /\ BeatsWithTheModel'
    BY <1>6 DEF Begin
  <2>3. ClosedBehind' /\ ParkedAtTheEnd'
    BY <1>6 DEF Begin
  <2>4. NoGhostProgress' /\ Accounted'
    BY <1>6 DEF Begin
  <2> QED
    BY <2>1, <2>2, <2>3, <2>4
<1>7. ASSUME Flushed PROVE TurnInv'
  BY <1>7 DEF Flushed, SendsPending
<1>8. ASSUME Answered PROVE TurnInv'
  <2>1. TypeOK'
    <3>1. FlagsOK'
      BY <1>8 DEF Answered, Flush, SendsPending
    <3>2. PlacesOK'
      BY <1>8 DEF Answered, Flush, SendsPending
    <3>3. CountsOK'
      BY <1>8 DEF Answered
    <3> QED
      BY <3>1, <3>2, <3>3
  <2>2. Silenced' /\ BeatsWithTheModel'
    BY <1>8 DEF Answered, Flush
  <2>3. ClosedBehind' /\ ParkedAtTheEnd'
    BY <1>8 DEF Answered
  <2>4. NoGhostProgress' /\ Accounted'
    BY <1>8 DEF Answered, Flush, SendsPending
  <2> QED
    BY <2>1, <2>2, <2>3, <2>4
<1>9. ASSUME Processing PROVE TurnInv'
  BY <1>9 DEF Processing, OnProgress
<1>10. ASSUME Raised PROVE TurnInv'
  BY <1>10 DEF Raised
<1>11. ASSUME Parks PROVE TurnInv'
  BY <1>11 DEF Parks
<1>12. ASSUME Deferred PROVE TurnInv'
  BY <1>12 DEF Deferred
<1>13. ASSUME NEW result \in Results, Returned(result) PROVE TurnInv'
  BY <1>13 DEF Returned, Settle
<1>14. ASSUME NEW result \in Results, NEW o \in Outcomes, Parked(result, o) PROVE TurnInv'
  BY <1>14 DEF Parked, Settle, Move, Taken, Reaches
<1>15. ASSUME NEW o \in Outcomes, Reported(o) PROVE TurnInv'
  BY <1>15 DEF Reported
<1>16. ASSUME NEW o \in Outcomes, PendingSent(o) PROVE TurnInv'
  <2>1. TypeOK'
    <3>1. FlagsOK'
      BY <1>16 DEF PendingSent
    <3>2. PlacesOK'
      BY <1>16 DEF PendingSent
    <3>3. CountsOK'
      BY <1>16 DEF PendingSent
    <3> QED
      BY <3>1, <3>2, <3>3
  <2>2. Silenced' /\ BeatsWithTheModel'
    BY <1>16 DEF PendingSent
  <2>3. ClosedBehind' /\ ParkedAtTheEnd'
    BY <1>16 DEF PendingSent
  <2>4. NoGhostProgress' /\ Accounted'
    BY <1>16 DEF PendingSent
  <2> QED
    BY <2>1, <2>2, <2>3, <2>4
<1>17. ASSUME NEW o \in Outcomes, Refused(o) PROVE TurnInv'
  <2>1. TypeOK'
    <3>1. FlagsOK'
      BY <1>17 DEF Refused
    <3>2. PlacesOK'
      BY <1>17 DEF Refused, Move
    <3>3. CountsOK'
      BY <1>17 DEF Refused
    <3> QED
      BY <3>1, <3>2, <3>3
  <2>2. Silenced' /\ BeatsWithTheModel'
    BY <1>17 DEF Refused
  <2>3. ClosedBehind' /\ ParkedAtTheEnd'
    BY <1>17 DEF Refused, Move
  <2>4. NoGhostProgress' /\ Accounted'
    BY <1>17 DEF Refused
  <2> QED
    BY <2>1, <2>2, <2>3, <2>4
<1>18. ASSUME NEW o \in Outcomes, Check(o) PROVE TurnInv'
  BY <1>18 DEF Check
<1>19. ASSUME NEW o \in Outcomes, Complete(o) PROVE TurnInv'
  BY <1>19 DEF Complete, Move, Taken, Reaches
<1>20. ASSUME NEW o \in Outcomes, Fail(o) PROVE TurnInv'
  <2>1. TypeOK'
    BY <1>20 DEF Fail, Move
  <2>2. Silenced' /\ BeatsWithTheModel'
    BY <1>20 DEF Fail
  <2>3. ClosedBehind' /\ ParkedAtTheEnd'
    BY <1>20 DEF Fail, Move
  <2>4. NoGhostProgress' /\ Accounted'
    BY <1>20 DEF Fail, Move
  <2> QED
    BY <2>1, <2>2, <2>3, <2>4
<1>21. ASSUME FinisherTool PROVE TurnInv'
  BY <1>21 DEF FinisherTool
<1>22. ASSUME Stopped PROVE TurnInv'
  <2>1. TypeOK'
    <3>1. FlagsOK'
      BY <1>22 DEF Stopped
    <3>2. PlacesOK'
      BY <1>22 DEF Stopped, CutShort
    <3>3. CountsOK'
      BY <1>22 DEF Stopped
    <3> QED
      BY <3>1, <3>2, <3>3
  <2>2. Silenced' /\ BeatsWithTheModel'
    BY <1>22 DEF Stopped
  <2>3. ClosedBehind' /\ ParkedAtTheEnd'
    BY <1>22 DEF Stopped, CutShort
  <2>4. NoGhostProgress' /\ Accounted'
    BY <1>22 DEF Stopped, CutShort
  <2> QED
    BY <2>1, <2>2, <2>3, <2>4
<1>23. ASSUME TimedOut PROVE TurnInv'
  <2>1. TypeOK'
    BY <1>23 DEF TimedOut, CutShort
  <2>2. Silenced' /\ BeatsWithTheModel'
    BY <1>23 DEF TimedOut
  <2>3. ClosedBehind' /\ ParkedAtTheEnd'
    BY <1>23 DEF TimedOut, CutShort
  <2>4. NoGhostProgress' /\ Accounted'
    BY <1>23 DEF TimedOut
  <2> QED
    BY <2>1, <2>2, <2>3, <2>4
<1>24. ASSUME UNCHANGED vars PROVE TurnInv'
  BY <1>24 DEF vars
<1> QED
  BY <1>1, <1>2, <1>3, <1>4, <1>5, <1>6, <1>7, <1>8, <1>9, <1>10, <1>11, <1>12, <1>13, <1>14, <1>15,
     <1>16, <1>17, <1>18, <1>19, <1>20, <1>21, <1>22, <1>23, <1>24 DEF Next, BeatStep, TurnStep

\* All of it holds at all times.
LEMMA TurnHolds == Spec => []TurnInv
  BY TurnStarts, TurnSteps, PTL DEF Spec

\* What the bridge and the server think of a task agrees when its turn ends: it
\* is closed, parked with the server's consent or waiting for sub-tasks, unless
\* the last report was lost (_handle_task, agentchat/executor.py).
THEOREM EveryTaskSettled == Spec => []TaskSettled
<1>1. TurnInv => TaskSettled
  BY DEF TurnInv, TaskSettled
<1> QED
  BY <1>1, TurnHolds, PTL

\* A turn that has ended left its heartbeat running only against a task whose
\* next refusal ends it, or whose failure report was lost
\* (make_progress_callback, agent_bridge.py).
THEOREM NoGhostLeft == Spec => []NoGhostProgress
<1>1. TurnInv => NoGhostProgress
  BY DEF TurnInv
<1> QED
  BY <1>1, TurnHolds, PTL

\* Once flush() has returned no progress report begins (flush,
\* agent_bridge.py).
THEOREM QuietAfterFlush == Spec => NoProgressAfterFlush
<1>1. TurnInv /\ [Next]_vars =>
        [flushed => /\ pc' = "reporting" => pc = "reporting"
                    /\ beat' = "posting" => beat = "posting"]_vars
  <2>1. SUFFICES ASSUME TurnInv, Next, flushed
                 PROVE  /\ pc' = "reporting" => pc = "reporting"
                        /\ beat' = "posting" => beat = "posting"
    OBVIOUS
  <2>2. quiet = TRUE
    BY <2>1 DEF TurnInv, Silenced
  <2>3. ASSUME pc' = "reporting" PROVE pc = "reporting"
    <3>1. ~Processing /\ \A b \in BOOLEAN : ~Event(b)
      BY <2>2, <2>3 DEF Processing, Event, OnProgress
    <3> QED
      BY <2>1, <2>3, <3>1 DEF Next, TurnStep, BeatStep, ClosedElsewhere, BeatWakes, BeatCancelled,
         BeatPosted, Begin, Flushed, SendsPending, Answered, Flush, Raised, Parks, Deferred,
         Returned, Parked, Settle, Reported, PendingSent, Refused, Check, Complete, Fail,
         FinisherTool, Stopped, TimedOut
  <2>4. ASSUME beat' = "posting" PROVE beat = "posting"
    <3>1. ~BeatWakes
      BY <2>2, <2>4 DEF BeatWakes
    <3> QED
      BY <2>1, <2>4, <3>1 DEF Next, TurnStep, BeatStep, ClosedElsewhere, BeatCancelled, BeatPosted,
         Begin, Flushed, Answered, Flush, Processing, Event, OnProgress, Arm, Raised, Parks,
         Deferred, Returned, Parked, Reported, PendingSent, Refused, Check, Complete, Fail,
         FinisherTool, Stopped, TimedOut, progress
  <2> QED
    BY <2>3, <2>4
<1> QED
  BY <1>1, TurnHolds, PTL DEF Spec, NoProgressAfterFlush
=============================================================================
