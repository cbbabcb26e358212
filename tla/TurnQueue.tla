----------------------------- MODULE TurnQueue -----------------------------
(***************************************************************************)
(* What the turn semaphore of the executor promises, without the runs'     *)
(* insides: a run waits in line, at most Limit runs hold a turn at once,   *)
(* turns begin in the order the runs lined up, and every turn that ends    *)
(* frees its place.  The end of the process empties line and turns alike.  *)
(***************************************************************************)
EXTENDS Naturals, Sequences, FiniteSets

CONSTANTS Runs, Limit

VARIABLES waiting,   \* the runs in line, first come first
          running    \* the runs that hold a turn

vars == <<waiting, running>>

Init == waiting = <<>> /\ running = {}

LineUp(r) ==
  /\ r \notin running /\ \A n \in DOMAIN waiting : waiting[n] # r
  /\ waiting' = Append(waiting, r)
  /\ UNCHANGED running

Begin ==
  /\ waiting # <<>> /\ Cardinality(running) < Limit
  /\ running' = running \cup {Head(waiting)}
  /\ waiting' = Tail(waiting)

End(r) ==
  /\ r \in running
  /\ running' = running \ {r}
  /\ UNCHANGED waiting

Reset == waiting' = <<>> /\ running' = {}

Next == Begin \/ Reset \/ \E r \in Runs : LineUp(r) \/ End(r)

Spec == Init /\ [][Next]_vars
=============================================================================
