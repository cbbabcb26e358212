------------------------------ MODULE Bubble -------------------------------
(***************************************************************************)
(* What the streaming bubble of a turn promises, without the queue, its    *)
(* sender and the turn: frames are said one after another until one of     *)
(* them ends the bubble; they are sent one at a time, in the order they    *)
(* were said, and only writing frames that the next one makes redundant    *)
(* are skipped; a frame that was sent is shown once, or lost, or drifts    *)
(* for a while before it is shown.  A frame is its place in what was said. *)
(***************************************************************************)
EXTENDS Naturals, Sequences

CONSTANTS
  Kinds,      \* what a frame can say
  Terminals   \* what ends the bubble

VARIABLES
  said,      \* the frames
  taken,     \* how many of them were sent or skipped
  sending,   \* the frame being sent, or 0
  adrift,    \* frames sent that are still on the way
  lost,      \* frames sent that never arrive
  shown      \* frames shown, in order of arrival

vars == <<said, taken, sending, adrift, lost, shown>>

Init ==
  /\ said = <<>> /\ shown = <<>>
  /\ taken = 0 /\ sending = 0 /\ adrift = {} /\ lost = {}

Closed == \E f \in DOMAIN said : said[f] \in Terminals

\* The first frame paints the bubble, and nobody waits for it.
Paint(kind) ==
  /\ said = <<>> /\ said' = <<kind>>
  /\ taken' = 1 /\ adrift' = {1}
  /\ UNCHANGED <<sending, lost, shown>>

Say(kind) ==
  /\ said # <<>> /\ ~Closed
  /\ said' = Append(said, kind)
  /\ UNCHANGED <<taken, sending, adrift, lost, shown>>

\* The bubble ends while nothing waits to be sent.
SayAtOnce(kind) ==
  /\ ~Closed /\ kind \in Terminals
  /\ sending = 0 /\ taken = Len(said)
  /\ said' = Append(said, kind)
  /\ taken' = Len(said) + 1 /\ sending' = Len(said) + 1
  /\ UNCHANGED <<adrift, lost, shown>>

Redundant(f) == said[f] = "writing" /\ said[f + 1] = "writing"

Send(f) ==
  /\ sending = 0
  /\ \A g \in taken + 1..f - 1 : Redundant(g)
  /\ taken' = f /\ sending' = f
  /\ UNCHANGED <<said, adrift, lost, shown>>

Delivered ==
  /\ sending # 0 /\ sending' = 0
  /\ shown' = Append(shown, sending)
  /\ UNCHANGED <<said, taken, adrift, lost>>

Loses ==
  /\ sending # 0 /\ sending' = 0
  /\ lost' = lost \cup {sending}
  /\ UNCHANGED <<said, taken, adrift, shown>>

Drifts ==
  /\ sending # 0 /\ sending' = 0
  /\ adrift' = adrift \cup {sending}
  /\ UNCHANGED <<said, taken, lost, shown>>

Arrives(f) ==
  /\ adrift' = adrift \ {f}
  /\ shown' = Append(shown, f)
  /\ UNCHANGED <<said, taken, sending, lost>>

Next ==
  \/ \E kind \in Kinds : Paint(kind) \/ Say(kind) \/ SayAtOnce(kind)
  \/ \E f \in taken + 1..Len(said) : Send(f)
  \/ Delivered \/ Loses \/ Drifts
  \/ \E f \in adrift : Arrives(f)

Spec == Init /\ [][Next]_vars
=============================================================================
