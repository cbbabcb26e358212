-------------------------- MODULE StreamTurnProofs --------------------------
(***************************************************************************)
(* Proofs about the streaming bubble of a turn, for any number of frames,  *)
(* lost or late POSTs and cuts.                                            *)
(***************************************************************************)
EXTENDS StreamTurn, NaturalsInduction, SequenceTheorems, WellFoundedInduction, TLAPS

\* The queue holds the frames behind it, in the order of emission.
QueueShaped ==
  /\ Waiting \in Nat /\ (pc # "begin" => Waiting < Last)
  /\ \A n \in 1..Waiting : queue[n] = Taken + n
  /\ Closing => queue[Waiting + 1] = 0
  /\ sender \in {"none", "ended"} => queue = <<>>

\* Where the sender is, and what it has in hand.
SenderPlaced ==
  /\ sending # 0 <=> sender = "sending" \/ pc = "direct"
  /\ pc = "direct" => sender = "none"
  /\ pc = "draining" => sender \notin {"none", "killed"}
  /\ sender \in {"ended", "killed"} \/ pc \in {"direct", "draining", "done"} => terminal
  /\ pc = "begin" => emitted = <<>> /\ sender = "none" /\ shown = <<>> /\ wire = {} /\ ~terminal

\* There is a terminal frame once the turn has asked for one: the last.
ClosedOnce ==
  /\ \A f \in 1..Last : emitted[f] \in Terminals <=> terminal /\ f = Last
  /\ ~terminal => Last <= MaxFrames + 1

\* Nothing that was sent is newer than what was taken; while nothing is served
\* late, frames are sent one by one, and the one nobody awaits is the last.
SentInOrder ==
  /\ sending <= Taken /\ wire \subseteq 1..Taken /\ \A n \in DOMAIN shown : shown[n] <= Taken
  /\ late = 0 =>
       /\ sending # 0 => \A n \in DOMAIN shown : shown[n] # 1 => shown[n] < sending
       /\ \A w \in wire \ {1} :
            /\ terminal /\ sending = 0 /\ sender \in {"none", "killed"} /\ wire \subseteq {1, w}
            /\ \A n \in DOMAIN shown : shown[n] # 1 => shown[n] < w

\* The terminal frame leaves the turn for the network.
ClosedOnTheWire ==
  terminal /\ sender # "killed" /\ pc \notin {"draining", "direct"} =>
    Last \in Range(shown) \cup wire \cup gone

StreamInv ==
  /\ TypeOK /\ QueueShaped /\ SenderPlaced /\ ClosedOnce /\ SentInOrder /\ ClosedOnTheWire
  /\ QueueInOrder /\ OnlyRedundantDropped

Names == {"started", "writing"} \cup Phases \cup Terminals

\* The three sequences, and what they hold.
LEMMA Sequences ==
  ASSUME StreamInv
  PROVE  /\ emitted \in Seq(Names) /\ Last \in Nat /\ DOMAIN emitted = 1..Last
         /\ queue \in Seq(0..Last) /\ Len(queue) \in Nat /\ DOMAIN queue = 1..Len(queue)
         /\ shown \in Seq(1..Last) /\ Len(shown) \in Nat /\ DOMAIN shown = 1..Len(shown)
         /\ sending \in 0..Last /\ Waiting \in Nat /\ Taken \in Int
         /\ MaxFrames \in Nat /\ MaxLate \in Nat /\ MaxCuts \in Nat
<1>1. emitted \in Seq(Names) /\ queue \in Seq(0..Last) /\ shown \in Seq(1..Last) /\ sending \in 0..Last
  BY DEF StreamInv, TypeOK, Names
<1>2. Last \in Nat /\ DOMAIN emitted = 1..Last
  BY <1>1, LenProperties DEF Last
<1>3. /\ Len(queue) \in Nat /\ DOMAIN queue = 1..Len(queue)
      /\ Len(shown) \in Nat /\ DOMAIN shown = 1..Len(shown)
  BY <1>1, LenProperties
<1>4. Waiting \in Nat
  BY DEF StreamInv, QueueShaped
<1> QED
  BY <1>1, <1>2, <1>3, <1>4, StreamAssumption DEF Taken

\* The numbers among them.
LEMMA Numbers ==
  ASSUME StreamInv
  PROVE  /\ Last \in Nat /\ Waiting \in Nat /\ Taken \in Int /\ sending \in 0..Last
         /\ DOMAIN emitted = 1..Last
  BY Sequences

\* What was shown was taken off the queue before.
LEMMA ShownTaken ==
  ASSUME StreamInv
  PROVE  \A n \in DOMAIN shown : shown[n] \in Nat /\ shown[n] <= Taken
<1> SUFFICES ASSUME NEW n \in DOMAIN shown PROVE shown[n] \in Nat /\ shown[n] <= Taken
  OBVIOUS
<1>1. shown \in Seq(1..Last) /\ n \in 1..Len(shown)
  BY Sequences
<1>2. shown[n] \in 1..Last
  BY <1>1, ElementOfSeq
<1> QED
  BY <1>2, Numbers DEF StreamInv, SentInOrder

\* A frame is emitted: it is the last, and the others stay what they are.
LEMMA EmitsOne ==
  ASSUME StreamInv, NEW phase \in Names, emitted' = Append(emitted, phase)
  PROVE  /\ emitted' \in Seq(Names) /\ Last' = Last + 1 /\ emitted'[Last + 1] = phase
         /\ \A f \in 1..Last : emitted'[f] = emitted[f]
  BY Sequences, AppendProperties DEF Last

\* A frame arrives at the server.
LEMMA ShowsOne ==
  ASSUME StreamInv, NEW f \in 1..Last, shown' = Append(shown, f)
  PROVE  /\ shown' \in Seq(1..Last) /\ Len(shown') = Len(shown) + 1 /\ DOMAIN shown' = 1..(Len(shown) + 1)
         /\ \A n \in 1..Len(shown) : shown'[n] = shown[n]
         /\ shown'[Len(shown) + 1] = f
         /\ Range(shown') = Range(shown) \cup {f}
<1>1. /\ shown' \in Seq(1..Last) /\ Len(shown') = Len(shown) + 1
      /\ \A n \in 1..Len(shown) : shown'[n] = shown[n]
      /\ shown'[Len(shown) + 1] = f
  BY Sequences, AppendProperties
<1>2. DOMAIN shown' = 1..(Len(shown) + 1)
  BY <1>1, LenProperties
<1>3. Range(shown') = Range(shown) \cup {f}
  <2>1. DOMAIN shown = 1..Len(shown) /\ Len(shown) \in Nat
    BY Sequences
  <2>2. \A n \in DOMAIN shown' : n \in DOMAIN shown \/ n = Len(shown) + 1
    BY <1>2, <2>1
  <2>3. \A n \in DOMAIN shown : n \in DOMAIN shown' /\ shown'[n] = shown[n]
    BY <1>1, <1>2, <2>1
  <2>4. Len(shown) + 1 \in DOMAIN shown'
    BY <1>2, <2>1
  <2> QED
    BY <1>1, <2>2, <2>3, <2>4 DEF Range
<1> QED
  BY <1>1, <1>2, <1>3

\* What is said of the order goes on when a newer frame arrives.
LEMMA InOrderOneMore ==
  ASSUME StreamInv, NEW f \in 1..Last, shown' = Append(shown, f), late' = late,
         late = 0 /\ f # 1 => \A n \in DOMAIN shown : shown[n] # 1 => shown[n] < f
  PROVE  QueueInOrder'
<1> SUFFICES ASSUME late = 0, NEW n \in DOMAIN shown', NEW k \in DOMAIN shown', n < k,
                    1 \notin {shown'[n], shown'[k]}
             PROVE  shown'[n] < shown'[k]
  BY DEF QueueInOrder
<1>1. Len(shown) \in Nat /\ DOMAIN shown = 1..Len(shown)
  BY Sequences
<1>2. /\ DOMAIN shown' = 1..(Len(shown) + 1) /\ shown'[Len(shown) + 1] = f
      /\ \A m \in 1..Len(shown) : shown'[m] = shown[m]
  BY ShowsOne
<1>3. n \in 1..Len(shown) /\ shown'[n] = shown[n]
  BY <1>1, <1>2
<1>4. CASE k = Len(shown) + 1
  BY <1>1, <1>2, <1>3, <1>4
<1>5. CASE k # Len(shown) + 1
  <2>1. k \in 1..Len(shown) /\ shown'[k] = shown[k]
    BY <1>1, <1>2, <1>5
  <2> QED
    BY <1>1, <1>3, <2>1 DEF StreamInv, QueueInOrder
<1> QED
  BY <1>4, <1>5

\* A POST does not change what was emitted, and brings its frame to the server,
\* loses it or leaves it on the way.
LEMMA PostsOne ==
  ASSUME StreamInv, sending # 0, Posted(sending)
  PROVE  /\ shown' \in Seq(1..Last) /\ wire' \subseteq 1..Last /\ gone' \subseteq 1..Last
         /\ late' \in 0..MaxLate
         /\ Range(shown') \cup wire' \cup gone' = Range(shown) \cup wire \cup gone \cup {sending}
         /\ \A n \in DOMAIN shown' : shown'[n] \in Range(shown) \cup {sending}
         /\ late' = 0 => late = 0 /\ wire' = wire
         /\ QueueInOrder'
<1>1. sending \in 1..Last /\ wire \subseteq 1..Last /\ gone \subseteq 1..Last /\ late \in 0..MaxLate
  BY Sequences DEF StreamInv, TypeOK
<1>2. CASE Delivered(sending)
  <2>1. shown' = Append(shown, sending) /\ UNCHANGED <<wire, gone, late>>
    BY <1>2 DEF Delivered
  <2>2. /\ shown' \in Seq(1..Last) /\ Range(shown') = Range(shown) \cup {sending}
    BY <1>1, <2>1, ShowsOne
  <2>3. QueueInOrder'
    BY <1>1, <2>1, InOrderOneMore DEF StreamInv, SentInOrder
  <2>4. \A n \in DOMAIN shown' : shown'[n] \in Range(shown')
    BY DEF Range
  <2> QED
    BY <1>1, <2>1, <2>2, <2>3, <2>4
<1>3. CASE Lost(sending) \/ Delayed(sending)
  <2>1. /\ shown' = shown /\ late' \in 0..MaxLate /\ (late' = 0 => late = 0 /\ wire' = wire)
        /\ \/ wire' = wire /\ gone' = gone \cup {sending}
           \/ gone' = gone /\ wire' = wire \cup {sending}
    BY <1>1, <1>3, Sequences DEF Lost, Delayed
  <2>2. QueueInOrder'
    BY <2>1 DEF StreamInv, QueueInOrder
  <2>3. shown' \in Seq(1..Last) /\ Range(shown') = Range(shown)
    BY <2>1, Sequences
  <2>4. \A n \in DOMAIN shown' : shown'[n] \in Range(shown')
    BY DEF Range
  <2> QED
    BY <1>1, <2>1, <2>2, <2>3, <2>4
<1> QED
  BY <1>2, <1>3 DEF Posted

\* A frame nobody awaits arrives.
LEMMA ArriveKeeps ==
  ASSUME StreamInv, NEW f \in Frames, Arrive(f)
  PROVE  StreamInv'
<1>1. /\ f \in wire /\ wire' = wire \ {f} /\ shown' = Append(shown, f)
      /\ UNCHANGED <<pc, next, emitted, terminal, queue, wake, sender, sending, gone, late, cuts>>
  BY DEF Arrive, callback
<1>2. wire \subseteq 1..Last /\ f \in 1..Last
  BY <1>1 DEF StreamInv, TypeOK
<1>3. /\ shown' \in Seq(1..Last) /\ DOMAIN shown' = 1..(Len(shown) + 1)
      /\ \A n \in 1..Len(shown) : shown'[n] = shown[n]
      /\ shown'[Len(shown) + 1] = f /\ Range(shown') = Range(shown) \cup {f}
  BY <1>1, <1>2, ShowsOne
<1>4. \A n \in DOMAIN shown' : shown'[n] = f \/ \E m \in DOMAIN shown : shown'[n] = shown[m]
  <2>1. Len(shown) \in Nat /\ DOMAIN shown = 1..Len(shown)
    BY Sequences
  <2>2. SUFFICES ASSUME NEW n \in DOMAIN shown', n # Len(shown) + 1
                 PROVE  n \in DOMAIN shown /\ shown'[n] = shown[n]
    BY <1>3
  <2> QED
    BY <1>3, <2>1, <2>2
<1>5. Last' = Last /\ Waiting' = Waiting /\ Taken' = Taken /\ (Closing' <=> Closing)
  BY <1>1 DEF Last, Waiting, Taken, Closing
<1>6. TypeOK'
  BY <1>1, <1>2, <1>3, <1>5 DEF StreamInv, TypeOK
<1>7. QueueShaped' /\ SenderPlaced' /\ ClosedOnce'
  <2>1. pc # "begin"
    BY <1>1 DEF StreamInv, SenderPlaced
  <2> QED
    BY <1>1, <1>5, <2>1 DEF StreamInv, QueueShaped, SenderPlaced, ClosedOnce
<1>8. SentInOrder'
  <2>1. wire' \subseteq 1..Taken /\ \A n \in DOMAIN shown' : shown'[n] <= Taken
    <3>1. wire \subseteq 1..Taken /\ Taken \in Int
      BY Numbers DEF StreamInv, SentInOrder
    <3>2. wire' \subseteq 1..Taken /\ f <= Taken
      BY <1>1, <3>1
    <3> QED
      BY <1>4, <3>2, ShownTaken
  <2>2. ASSUME late = 0, sending # 0, NEW n \in DOMAIN shown', shown'[n] # 1
        PROVE  shown'[n] < sending
    BY <1>1, <1>4, <2>2 DEF StreamInv, SentInOrder
  <2>3. ASSUME late = 0, NEW w \in wire' \ {1}
        PROVE  /\ terminal /\ sending = 0 /\ sender \in {"none", "killed"} /\ wire' \subseteq {1, w}
               /\ \A n \in DOMAIN shown' : shown'[n] # 1 => shown'[n] < w
    <3>1. w \in wire \ {1} /\ w # f /\ (f = 1 \/ wire \subseteq {1, f})
      BY <1>1, <2>3 DEF StreamInv, SentInOrder
    <3> QED
      BY <1>1, <1>4, <2>3, <3>1 DEF StreamInv, SentInOrder
  <2> QED
    BY <1>1, <1>5, <2>1, <2>2, <2>3 DEF StreamInv, SentInOrder
<1>9. QueueInOrder'
  <2>1. late = 0 /\ f # 1 => \A n \in DOMAIN shown : shown[n] # 1 => shown[n] < f
    BY <1>1 DEF StreamInv, SentInOrder
  <2> QED
    BY <1>1, <1>2, <2>1, InOrderOneMore
<1>10. ClosedOnTheWire' /\ OnlyRedundantDropped'
  <2>1. Range(shown') \cup wire' \cup gone' = Range(shown) \cup wire \cup gone
    BY <1>1, <1>3
  <2>2. Pending' = Pending
    BY <1>1 DEF Pending
  <2> QED
    BY <1>1, <1>5, <2>1, <2>2 DEF StreamInv, ClosedOnTheWire, OnlyRedundantDropped
<1> QED
  BY <1>6, <1>7, <1>8, <1>9, <1>10 DEF StreamInv

\* A step of the turn or of the sender that moves no frame.
LEMMA NothingMoved ==
  ASSUME StreamInv, pc # "begin",
         UNCHANGED <<next, emitted, terminal, queue, sending, wire, shown, gone, late, cuts>>,
         pc' \in {"model", "posting", "draining", "direct", "tail", "done"}, wake' \in BOOLEAN,
         sender' = sender \/ {sender, sender'} \subseteq {"looking", "waiting"},
         SenderPlaced', ClosedOnTheWire'
  PROVE  StreamInv'
<1>1. Last' = Last /\ Waiting' = Waiting /\ Taken' = Taken /\ (Closing' <=> Closing) /\ Pending' = Pending
  BY DEF Last, Waiting, Taken, Closing, Pending
<1>2. TypeOK'
  BY <1>1 DEF StreamInv, TypeOK
<1>3. QueueShaped' /\ ClosedOnce'
  BY <1>1 DEF StreamInv, QueueShaped, ClosedOnce
<1>4. SentInOrder' /\ QueueInOrder'
  BY <1>1 DEF StreamInv, SentInOrder, QueueInOrder
<1>5. OnlyRedundantDropped'
  BY <1>1 DEF StreamInv, OnlyRedundantDropped
<1> QED
  BY <1>2, <1>3, <1>4, <1>5 DEF StreamInv

\* The sender finds the queue empty, or is woken up.
LEMMA SenderRests ==
  ASSUME StreamInv,
         SenderWakes \/ (SenderLooks /\ queue = <<>>)
  PROVE  StreamInv'
<1>1. /\ UNCHANGED <<pc, next, emitted, terminal, queue, sending, wire, shown, gone, late, cuts>>
      /\ wake' \in BOOLEAN /\ {sender, sender'} \subseteq {"looking", "waiting"}
  <2>1. CASE SenderWakes
    BY <2>1 DEF SenderWakes, callback, network, StreamInv, TypeOK
  <2>2. CASE SenderLooks /\ queue = <<>>
    BY <2>2 DEF SenderLooks, network
  <2> QED
    BY <2>1, <2>2
<1>2. SenderPlaced' /\ ClosedOnTheWire'
  BY <1>1 DEF StreamInv, SenderPlaced, ClosedOnTheWire, Last
<1>3. pc # "begin" /\ pc' \in {"model", "posting", "draining", "direct", "tail", "done"}
  BY <1>1 DEF StreamInv, SenderPlaced, TypeOK
<1> QED
  BY <1>1, <1>2, <1>3, NothingMoved

\* The model has answered, in one way or another.
LEMMA AnswerKeeps ==
  ASSUME StreamInv, Answered \/ HandedBack
  PROVE  StreamInv'
<1>1. /\ UNCHANGED <<next, emitted, terminal, queue, sending, sender, wake, wire, shown, gone, late, cuts>>
      /\ pc = "model" /\ pc' \in {"posting", "tail"}
  BY DEF Answered, HandedBack, callback, network
<1>2. SenderPlaced' /\ ClosedOnTheWire'
  BY <1>1 DEF StreamInv, SenderPlaced, ClosedOnTheWire, Last
<1>3. wake' \in BOOLEAN
  BY <1>1 DEF StreamInv, TypeOK
<1> QED
  BY <1>1, <1>2, <1>3, NothingMoved

\* The sender has ended: nothing is pending any more.
LEMMA DrainKeeps ==
  ASSUME StreamInv, Drained
  PROVE  StreamInv'
<1>1. /\ UNCHANGED <<next, emitted, terminal, queue, sending, sender, wake, wire, shown, gone, late, cuts>>
      /\ pc = "draining" /\ sender = "ended" /\ pc' = next
  BY DEF Drained, callback, network
<1>2. sending = 0 /\ queue = <<>> /\ terminal
  BY <1>1 DEF StreamInv, SenderPlaced, QueueShaped
<1>3. SenderPlaced'
  BY <1>1, <1>2 DEF StreamInv, SenderPlaced, TypeOK
<1>4. ClosedOnTheWire'
  <2>1. Last \in 1..Last /\ Pending = {0}
    BY <1>1, <1>2, Sequences DEF StreamInv, QueueShaped, Pending, Range
  <2> QED
    BY <1>1, <2>1 DEF StreamInv, OnlyRedundantDropped, ClosedOnTheWire, Last
<1>5. wake' \in BOOLEAN /\ pc' \in {"posting", "tail", "done"}
  BY <1>1 DEF StreamInv, TypeOK
<1> QED
  BY <1>1, <1>3, <1>4, <1>5, NothingMoved

\* A POST of the sender, or of the turn itself, is over.
LEMMA PostKeeps ==
  ASSUME StreamInv, Sent \/ SentDirectly
  PROVE  StreamInv'
<1>1. /\ UNCHANGED <<next, emitted, terminal, queue, wake, cuts>>
      /\ Posted(sending) /\ sending' = 0
      /\ \/ sender = "sending" /\ sender' = "looking" /\ pc' = pc
         \/ pc = "direct" /\ sender' = sender /\ pc' = next
  BY DEF Sent, SentDirectly, callback
<1>2. sending # 0 /\ pc # "begin"
  BY <1>1 DEF StreamInv, SenderPlaced
<1>3. /\ shown' \in Seq(1..Last) /\ wire' \subseteq 1..Last /\ gone' \subseteq 1..Last
      /\ late' \in 0..MaxLate
      /\ Range(shown') \cup wire' \cup gone' = Range(shown) \cup wire \cup gone \cup {sending}
      /\ \A n \in DOMAIN shown' : shown'[n] \in Range(shown) \cup {sending}
      /\ late' = 0 => late = 0 /\ wire' = wire
      /\ QueueInOrder'
  BY <1>1, <1>2, PostsOne
<1>4. Last' = Last /\ Waiting' = Waiting /\ Taken' = Taken /\ (Closing' <=> Closing)
  BY <1>1 DEF StreamInv, SenderPlaced, Last, Waiting, Taken, Closing
<1>5. TypeOK'
  <2>1. pc' \in {"model", "posting", "draining", "direct", "tail", "done"} /\ sending' \in 0..Last'
    BY <1>1, <1>2, <1>4, Sequences DEF StreamInv, TypeOK
  <2>2. sender' \in {"none", "looking", "waiting", "sending", "ended", "killed"}
    BY <1>1 DEF StreamInv, TypeOK
  <2> QED
    BY <1>1, <1>3, <1>4, <2>1, <2>2 DEF StreamInv, TypeOK
<1>6. QueueShaped' /\ ClosedOnce'
  BY <1>1, <1>2, <1>4 DEF StreamInv, QueueShaped, ClosedOnce, SenderPlaced
<1>7. SenderPlaced'
  BY <1>1, <1>2 DEF StreamInv, SenderPlaced, TypeOK
<1>8. SentInOrder'
  <2>1. sending <= Taken /\ wire \subseteq 1..Taken /\ \A x \in Range(shown) : x <= Taken
    BY DEF StreamInv, SentInOrder, Range
  <2>2. wire' \subseteq 1..Taken
    <3>1. wire' \subseteq wire \cup {sending} /\ sending \in 1..Taken
      BY <1>1, <1>2, <2>1, Sequences DEF Posted, Delivered, Lost, Delayed
    <3> QED
      BY <2>1, <3>1
  <2>3. \A n \in DOMAIN shown' : shown'[n] <= Taken
    BY <1>3, <2>1
  <2>4. late' = 0 => wire' \subseteq {1}
    BY <1>2, <1>3 DEF StreamInv, SentInOrder
  <2>5. 0 <= Taken
    BY <1>2, Sequences DEF StreamInv, QueueShaped, Taken
  <2> QED
    BY <1>1, <1>4, <2>2, <2>3, <2>4, <2>5 DEF SentInOrder
<1>9. ClosedOnTheWire'
  <2>1. SUFFICES ASSUME terminal, sender' # "killed", pc' \notin {"draining", "direct"}
                 PROVE  Last \in Range(shown') \cup wire' \cup gone'
    BY <1>1, <1>4 DEF ClosedOnTheWire
  <2>2. CASE pc \notin {"draining", "direct"}
    <3>1. sender # "killed"
      BY <1>1, <2>2
    <3> QED
      BY <1>3, <2>1, <2>2, <3>1 DEF StreamInv, ClosedOnTheWire
  <2>3. CASE pc \in {"draining", "direct"}
    <3>1. pc = "direct" /\ sender = "none"
      BY <1>1, <2>1, <2>3 DEF StreamInv, SenderPlaced
    <3>2. queue = <<>> /\ Last \in 1..Last
      BY <1>2, <3>1, Sequences DEF StreamInv, QueueShaped, SenderPlaced
    <3>3. Pending = {sending}
      BY <3>2 DEF Pending, Range
    <3> QED
      BY <1>3, <3>1, <3>2, <3>3 DEF StreamInv, OnlyRedundantDropped
  <2> QED
    BY <2>2, <2>3
<1>10. OnlyRedundantDropped'
  <2>1. sender' # "killed" => sender # "killed"
    BY <1>1
  <2>2. Pending' = Range(queue) \cup {0}
    BY <1>1 DEF Pending
  <2> QED
    BY <1>1, <1>3, <1>4, <2>1, <2>2 DEF StreamInv, OnlyRedundantDropped, Pending
<1> QED
  BY <1>3, <1>5, <1>6, <1>7, <1>8, <1>9, <1>10 DEF StreamInv

\* The turn begins with the POST that paints the bubble.
LEMMA BeginKeeps ==
  ASSUME StreamInv, Begin
  PROVE  StreamInv'
<1>1. /\ pc = "begin" /\ pc' = "model" /\ emitted' = <<"started">> /\ wire' = {1}
      /\ UNCHANGED <<next, terminal, queue, wake, sender, sending, shown, gone, late, cuts>>
  BY DEF Begin
<1>2. /\ emitted = <<>> /\ sender = "none" /\ shown = <<>> /\ ~terminal /\ queue = <<>> /\ sending = 0
  BY <1>1 DEF StreamInv, SenderPlaced, QueueShaped
<1>3. /\ Last = 0 /\ Last' = 1 /\ emitted'[1] = "started" /\ gone = {}
      /\ Waiting' = 0 /\ Taken' = 1 /\ Closing' = FALSE
  <2>1. Last = 0 /\ Last' = 1 /\ emitted'[1] = "started"
    BY <1>1, <1>2 DEF Last
  <2>2. gone = {}
    BY <2>1 DEF StreamInv, TypeOK
  <2>3. Closing' = FALSE /\ Waiting' = 0
    BY <1>1, <1>2 DEF Closing, Waiting
  <2> QED
    BY <2>1, <2>2, <2>3 DEF Taken
<1>4. TypeOK'
  <2>1. emitted' \in Seq(Names) /\ queue' \in Seq(0..1) /\ shown' \in Seq(1..1)
    BY <1>1, <1>2 DEF Names
  <2>2. Last' \in 0..MaxFrames + 2 /\ sending' \in 0..1 /\ wire' \subseteq 1..1 /\ gone' \subseteq 1..1
    BY <1>1, <1>2, <1>3, Sequences
  <2> QED
    BY <1>1, <1>3, <2>1, <2>2 DEF StreamInv, TypeOK, Names
<1>5. QueueShaped' /\ SenderPlaced'
  BY <1>1, <1>2, <1>3 DEF QueueShaped, SenderPlaced
<1>6. ClosedOnce'
  <2>1. "started" \notin Terminals /\ ~terminal'
    BY <1>1, <1>2 DEF Terminals
  <2> QED
    BY <1>3, <2>1, Sequences DEF ClosedOnce
<1>7. SentInOrder' /\ QueueInOrder' /\ ClosedOnTheWire'
  BY <1>1, <1>2, <1>3 DEF SentInOrder, QueueInOrder, ClosedOnTheWire
<1>8. OnlyRedundantDropped'
  BY <1>1, <1>3 DEF OnlyRedundantDropped
<1> QED
  BY <1>4, <1>5, <1>6, <1>7, <1>8 DEF StreamInv

\* The queue grows by the newest frame, and by the sentinel behind a terminal one.
LEMMA QueueGrows ==
  ASSUME StreamInv, pc # "begin", ~terminal, Last' = Last + 1,
         \/ queue' = Append(queue, Last + 1) /\ ~terminal'
         \/ queue' = queue \o <<Last + 1, 0>> /\ terminal' /\ sender' \notin {"none", "ended"}
  PROVE  /\ queue' \in Seq(0..Last') /\ Waiting' = Waiting + 1 /\ Taken' = Taken
         /\ \A n \in 1..Waiting' : queue'[n] = Taken + n
         /\ Closing' => queue'[Waiting' + 1] = 0
         /\ Range(queue) \cup {Last + 1} \subseteq Range(queue')
<1>1. /\ queue \in Seq(0..(Last + 1)) /\ Last \in Nat /\ Len(queue) \in Nat /\ Waiting = Len(queue)
      /\ DOMAIN queue = 1..Len(queue)
  <2>1. queue \in Seq(0..Last) /\ Last \in Nat /\ Len(queue) \in Nat /\ DOMAIN queue = 1..Len(queue)
    BY Sequences
  <2>2. queue \in Seq(0..(Last + 1))
    BY <2>1, SeqMonotonic
  <2> QED
    BY <2>1, <2>2 DEF Waiting, Closing
<1>2. \A n \in 1..Len(queue) : queue[n] = Taken + n
  BY <1>1 DEF StreamInv, QueueShaped
<1>3. Taken + Len(queue) + 1 = Last + 1
  BY <1>1 DEF Taken
<1>4. CASE queue' = Append(queue, Last + 1) /\ ~terminal'
  <2>1. /\ queue' \in Seq(0..(Last + 1)) /\ Len(queue') = Len(queue) + 1
        /\ \A n \in 1..Len(queue) : queue'[n] = queue[n]
        /\ queue'[Len(queue) + 1] = Last + 1
    BY <1>1, <1>4, AppendProperties
  <2>2. Waiting' = Len(queue) + 1 /\ ~Closing'
    BY <1>4, <2>1 DEF Waiting, Closing
  <2>3. Waiting' = Waiting + 1 /\ Taken' = Taken
    BY <1>1, <2>2 DEF Taken
  <2>4. \A n \in 1..Waiting' : queue'[n] = Taken + n
    <3>1. SUFFICES ASSUME NEW n \in 1..(Len(queue) + 1) PROVE queue'[n] = Taken + n
      BY <2>2
    <3>2. CASE n = Len(queue) + 1
      BY <1>1, <1>3, <2>1, <3>2, Sequences
    <3>3. CASE n \in 1..Len(queue)
      BY <1>2, <2>1, <3>3
    <3> QED
      BY <1>1, <3>2, <3>3
  <2>5. Range(queue) \cup {Last + 1} \subseteq Range(queue')
    <3>1. DOMAIN queue' = 1..(Len(queue) + 1)
      BY <2>1, LenProperties
    <3>2. \A n \in DOMAIN queue : n \in DOMAIN queue' /\ queue'[n] = queue[n]
      BY <1>1, <2>1, <3>1
    <3>3. Len(queue) + 1 \in DOMAIN queue' /\ queue'[Len(queue) + 1] = Last + 1
      BY <1>1, <2>1, <3>1
    <3> QED
      BY <3>2, <3>3 DEF Range
  <2> QED
    BY <2>1, <2>2, <2>3, <2>4, <2>5
<1>5. CASE queue' = queue \o <<Last + 1, 0>> /\ terminal' /\ sender' \notin {"none", "ended"}
  <2> DEFINE both == <<Last + 1, 0>>
  <2>1. both \in Seq(0..(Last + 1)) /\ Len(both) = 2 /\ both[1] = Last + 1 /\ both[2] = 0
    BY <1>1
  <2> HIDE DEF both
  <2>2. /\ queue' \in Seq(0..(Last + 1)) /\ Len(queue') = Len(queue) + 2
        /\ \A n \in 1..Len(queue) + 2 : queue'[n] = IF n <= Len(queue) THEN queue[n] ELSE both[n - Len(queue)]
    BY <1>1, <1>5, <2>1, ConcatProperties DEF both
  <2>3. /\ \A n \in 1..Len(queue) : queue'[n] = queue[n]
        /\ queue'[Len(queue) + 1] = Last + 1 /\ queue'[Len(queue) + 2] = 0
    BY <1>1, <2>1, <2>2
  <2>4. Waiting' = Len(queue) + 1 /\ Closing'
    BY <1>1, <1>5, <2>2 DEF Waiting, Closing
  <2>5. Waiting' = Waiting + 1 /\ Taken' = Taken
    BY <1>1, <2>4 DEF Taken
  <2>6. \A n \in 1..Waiting' : queue'[n] = Taken + n
    <3>1. SUFFICES ASSUME NEW n \in 1..(Len(queue) + 1) PROVE queue'[n] = Taken + n
      BY <2>4
    <3>2. CASE n = Len(queue) + 1
      BY <1>1, <1>3, <2>3, <3>2, Sequences
    <3>3. CASE n \in 1..Len(queue)
      BY <1>2, <2>3, <3>3
    <3> QED
      BY <1>1, <3>2, <3>3
  <2>7. Range(queue) \cup {Last + 1} \subseteq Range(queue')
    <3>1. DOMAIN queue' = 1..(Len(queue) + 2)
      BY <2>2, LenProperties
    <3>2. \A n \in DOMAIN queue : n \in DOMAIN queue' /\ queue'[n] = queue[n]
      BY <1>1, <2>3, <3>1
    <3>3. Len(queue) + 1 \in DOMAIN queue' /\ queue'[Len(queue) + 1] = Last + 1
      BY <1>1, <2>3, <3>1
    <3> QED
      BY <3>2, <3>3 DEF Range
  <2>8. queue'[Waiting' + 1] = 0
    BY <1>1, <2>3, <2>4
  <2> QED
    BY <2>2, <2>4, <2>5, <2>6, <2>7, <2>8
<1> QED
  BY <1>4, <1>5

\* The types when a frame is emitted.
LEMMA TypesGrow ==
  ASSUME StreamInv, Last' = Last + 1, emitted' \in Seq(Names), queue' \in Seq(0..Last'), sending' \in 0..Last',
         UNCHANGED <<wire, shown, gone, late, cuts>>, ~terminal,
         terminal' \/ Last <= MaxFrames, terminal' \in BOOLEAN, wake' \in BOOLEAN,
         pc' \in {"begin", "model", "posting", "draining", "direct", "tail", "done"},
         next' \in {"posting", "tail", "done"},
         sender' \in {"none", "looking", "waiting", "sending", "ended", "killed"}
  PROVE  TypeOK'
<1>1. 1..Last \subseteq 1..Last' /\ shown \in Seq(1..Last)
  <2>1. shown \in Seq(1..Last)
    BY Sequences
  <2>2. 1..Last \subseteq 1..Last'
    BY Numbers
  <2> QED
    BY <2>1, <2>2
<1>2. shown' \in Seq(1..Last')
  BY <1>1, SeqMonotonic
<1>3. wire' \subseteq 1..Last' /\ gone' \subseteq 1..Last'
  BY <1>1 DEF StreamInv, TypeOK
<1>4. Last' \in 0..MaxFrames + 2
  <2>1. Last \in Nat /\ MaxFrames \in Nat
    BY Sequences
  <2>2. Last <= MaxFrames + 1
    BY DEF StreamInv, ClosedOnce
  <2> QED
    BY <2>1, <2>2
<1> QED
  BY <1>2, <1>3, <1>4 DEF TypeOK, Names, StreamInv

\* What is in order stays in order when a frame is emitted that is not sent yet.
LEMMA EmitsInOrder ==
  ASSUME StreamInv, UNCHANGED <<wire, shown, gone, late>>, ~terminal, pc # "begin",
         \/ Taken' = Taken /\ sending' = sending
         \/ Taken' = Last + 1 /\ sending' = Last + 1 /\ sending = 0
  PROVE  SentInOrder' /\ QueueInOrder'
<1>1. Taken <= Last /\ Last \in Nat /\ Taken \in Nat
  BY Sequences DEF Taken, StreamInv, QueueShaped
<1>2. QueueInOrder'
  BY DEF StreamInv, QueueInOrder
<1>3. late = 0 => wire \subseteq {1}
  BY DEF StreamInv, SentInOrder
<1>4. \A n \in DOMAIN shown : shown[n] \in Nat /\ shown[n] <= Taken
  BY ShownTaken
<1>5. SentInOrder'
  <2>1. sending' <= Taken' /\ wire \subseteq 1..Taken' /\ \A n \in DOMAIN shown : shown[n] <= Taken'
    BY <1>1, <1>4 DEF StreamInv, SentInOrder
  <2>2. late = 0 /\ sending' # 0 => \A n \in DOMAIN shown : shown[n] # 1 => shown[n] < sending'
    BY <1>1, <1>4 DEF StreamInv, SentInOrder
  <2> QED
    BY <1>3, <2>1, <2>2 DEF SentInOrder
<1> QED
  BY <1>2, <1>5

\* An emitted frame is not dropped while it is in hand.
LEMMA EmitsNotDropped ==
  ASSUME StreamInv, UNCHANGED <<wire, shown, gone>>, Last' = Last + 1, sender # "killed",
         \A f \in 1..Last : emitted'[f] = emitted[f],
         Last + 1 \in Pending', Pending \subseteq Pending'
  PROVE  OnlyRedundantDropped'
<1>1. SUFFICES ASSUME NEW f \in 1..Last'
               PROVE  \/ f \in Range(shown) \cup wire \cup gone \cup Pending'
                      \/ f < Last' /\ emitted'[f] = "writing" /\ emitted'[f + 1] = "writing"
  BY DEF OnlyRedundantDropped
<1>2. CASE f = Last + 1
  BY <1>2
<1>3. CASE f \in 1..Last
  <2>1. \/ f \in Range(shown) \cup wire \cup gone \cup Pending
        \/ f < Last /\ emitted[f] = "writing" /\ emitted[f + 1] = "writing"
    BY <1>3 DEF StreamInv, OnlyRedundantDropped
  <2>2. f < Last => f + 1 \in 1..Last /\ f < Last'
    BY <1>3, Sequences
  <2> QED
    BY <1>3, <2>1, <2>2
<1> QED
  BY <1>1, <1>2, <1>3, Sequences

\* The model reports: the frame joins the queue.
LEMMA EmitKeeps ==
  ASSUME StreamInv, NEW p \in Phases \cup {"writing"}, Emit(p)
  PROVE  StreamInv'
<1>1. /\ pc = "model" /\ ~terminal /\ Last <= MaxFrames
      /\ emitted' = Append(emitted, p) /\ queue' = Append(queue, Last + 1) /\ wake' = TRUE
      /\ sender' = (IF sender = "none" THEN "looking" ELSE sender)
      /\ UNCHANGED <<pc, next, terminal, sending, wire, shown, gone, late, cuts>>
  BY DEF Emit, Enqueue, network
<1>2. /\ emitted' \in Seq(Names) /\ Last' = Last + 1 /\ emitted'[Last + 1] = p
      /\ \A f \in 1..Last : emitted'[f] = emitted[f]
  BY <1>1, EmitsOne DEF Names
<1>3. sender \notin {"killed", "ended"} /\ pc # "begin"
  BY <1>1 DEF StreamInv, SenderPlaced
<1>4. /\ queue' \in Seq(0..Last') /\ Waiting' = Waiting + 1 /\ Taken' = Taken
      /\ \A n \in 1..Waiting' : queue'[n] = Taken + n
      /\ Range(queue) \cup {Last + 1} \subseteq Range(queue')
  BY <1>1, <1>2, <1>3, QueueGrows
<1>5. TypeOK'
  <2>1. sender' \in {"none", "looking", "waiting", "sending", "ended", "killed"} /\ sending' \in 0..Last'
    BY <1>1, <1>2, Sequences DEF StreamInv, TypeOK
  <2> QED
    BY <1>1, <1>2, <1>4, <2>1, TypesGrow DEF StreamInv, TypeOK
<1>6. QueueShaped'
  <2>1. Waiting' \in Nat /\ Waiting' < Last'
    BY <1>2, <1>3, <1>4, Numbers DEF StreamInv, QueueShaped
  <2> QED
    BY <1>1, <1>3, <1>4, <2>1 DEF StreamInv, TypeOK, QueueShaped, Closing
<1>7. SenderPlaced'
  BY <1>1, <1>3 DEF StreamInv, SenderPlaced
<1>8. ClosedOnce'
  <2>1. p \notin Terminals
    BY StreamAssumption DEF Terminals
  <2>2. Last \in Nat /\ ~terminal' /\ Last' <= MaxFrames + 1
    <3>1. ~terminal'
      BY <1>1
    <3>2. Last \in Nat /\ Last <= MaxFrames /\ Last' = Last + 1 /\ MaxFrames \in Nat
      BY <1>1, <1>2, Numbers, StreamAssumption
    <3> QED
      BY <3>1, <3>2
  <2>3. ASSUME NEW f \in 1..Last' PROVE emitted'[f] \notin Terminals
    <3>1. f = Last + 1 \/ f \in 1..Last
      BY <1>2, <2>2
    <3>2. \A g \in 1..Last : emitted[g] \notin Terminals
      BY <1>1 DEF StreamInv, ClosedOnce
    <3> QED
      BY <1>2, <2>1, <3>1, <3>2
  <2> QED
    BY <2>2, <2>3 DEF ClosedOnce
<1>9. SentInOrder' /\ QueueInOrder'
  BY <1>1, <1>3, <1>4, EmitsInOrder
<1>10. ClosedOnTheWire'
  BY <1>1 DEF ClosedOnTheWire
<1>11. OnlyRedundantDropped'
  <2>1. Last + 1 \in Pending' /\ Pending \subseteq Pending'
    BY <1>1, <1>4 DEF Pending
  <2> QED
    BY <1>1, <1>2, <1>3, <2>1, EmitsNotDropped
<1> QED
  BY <1>5, <1>6, <1>7, <1>8, <1>9, <1>10, <1>11 DEF StreamInv

\* The bubble is closed: by a frame behind all others, or it is closed already.
LEMMA CloseKeeps ==
  ASSUME StreamInv, pc \in {"model", "posting", "tail"}, NEW how \in Terminals,
         NEW then \in {"posting", "tail", "done"}, Close(how, then), UNCHANGED <<network, cuts>>
  PROVE  StreamInv'
<1>1. UNCHANGED <<wire, shown, gone, late, cuts>> /\ pc # "begin"
  BY DEF network
<1>2. CASE terminal
  <2>1. /\ pc' = then
        /\ UNCHANGED <<next, emitted, terminal, queue, sending, sender, wake, wire, shown, gone, late, cuts>>
    BY <1>1, <1>2 DEF Close, callback
  <2>2. SenderPlaced' /\ ClosedOnTheWire'
    BY <1>2, <2>1 DEF StreamInv, SenderPlaced, ClosedOnTheWire, Last
  <2>3. wake' \in BOOLEAN
    BY <2>1 DEF StreamInv, TypeOK
  <2> QED
    BY <1>1, <2>1, <2>2, <2>3, NothingMoved
<1>3. CASE ~terminal
  <2>1. /\ terminal' = TRUE /\ next' = then /\ emitted' = Append(emitted, how) /\ sender' = sender
        /\ \/ /\ sender = "none" /\ sending' = Last + 1 /\ pc' = "direct"
              /\ UNCHANGED <<queue, wake>>
           \/ /\ sender # "none" /\ queue' = queue \o <<Last + 1, 0>> /\ wake' = TRUE
              /\ pc' = "draining" /\ sending' = sending
    BY <1>3 DEF Close
  <2>2. /\ emitted' \in Seq(Names) /\ Last' = Last + 1 /\ emitted'[Last + 1] = how
        /\ \A f \in 1..Last : emitted'[f] = emitted[f]
    BY <2>1, EmitsOne DEF Names
  <2>3. sender \notin {"ended", "killed"} /\ (sender = "none" => sending = 0 /\ queue = <<>>)
    BY <1>3 DEF StreamInv, SenderPlaced, QueueShaped
  <2>4. ClosedOnce'
    BY <1>3, <2>1, <2>2, Numbers DEF StreamInv, ClosedOnce
  <2>5. SenderPlaced'
    BY <2>1, <2>3, Numbers DEF StreamInv, SenderPlaced
  <2>6. ClosedOnTheWire'
    BY <2>1 DEF ClosedOnTheWire
  <2>7. CASE sender = "none"
    <3>1. /\ Waiting' = 0 /\ Waiting = 0 /\ Taken' = Last + 1 /\ Closing' = FALSE
      <4>1. Closing' = FALSE /\ Closing = FALSE /\ queue' = <<>> /\ queue = <<>>
        BY <2>1, <2>3, <2>7 DEF Closing
      <4>2. Waiting' = 0 /\ Waiting = 0
        BY <4>1 DEF Waiting
      <4> QED
        BY <2>2, <4>1, <4>2, Sequences DEF Taken
    <3>2. TypeOK'
      <4>1. queue' \in Seq(0..Last') /\ sending' \in 0..Last'
        BY <2>1, <2>2, <2>3, <2>7, EmptySeq, Sequences
      <4>2. wake' \in BOOLEAN /\ sender' \in {"none", "looking", "waiting", "sending", "ended", "killed"}
        BY <2>1, <2>7 DEF StreamInv, TypeOK
      <4> QED
        BY <1>1, <1>3, <2>1, <2>2, <2>7, <4>1, <4>2, TypesGrow
    <3>3. QueueShaped'
      BY <2>1, <2>2, <2>3, <2>7, <3>1, Sequences DEF QueueShaped
    <3>4. SentInOrder' /\ QueueInOrder'
      BY <1>1, <1>3, <2>1, <2>3, <2>7, <3>1, EmitsInOrder
    <3>5. OnlyRedundantDropped'
      <4>1. Last + 1 \in Pending'
        BY <2>1, <2>7 DEF Pending
      <4>2. Pending = {0} /\ Last \in Nat
        BY <2>3, <2>7, Sequences DEF Pending, Range
      <4>3. \A f \in 1..Last : f \notin Pending
        BY <4>2
      <4>4. SUFFICES ASSUME NEW f \in 1..Last', f # Last + 1
                     PROVE  \/ f \in Range(shown) \cup wire \cup gone
                            \/ f < Last' /\ emitted'[f] = "writing" /\ emitted'[f + 1] = "writing"
        BY <1>1, <4>1 DEF OnlyRedundantDropped
      <4>5. f \in 1..Last
        BY <2>2, <4>2, <4>4
      <4>6. \/ f \in Range(shown) \cup wire \cup gone
            \/ f < Last /\ emitted[f] = "writing" /\ emitted[f + 1] = "writing"
        BY <2>3, <4>3, <4>5 DEF StreamInv, OnlyRedundantDropped
      <4>7. f < Last => f + 1 \in 1..Last /\ f < Last'
        BY <2>2, <4>2, <4>5
      <4> QED
        BY <2>2, <4>5, <4>6, <4>7
    <3> QED
      BY <2>4, <2>5, <2>6, <3>2, <3>3, <3>4, <3>5 DEF StreamInv
  <2>8. CASE sender # "none"
    <3>1. /\ queue' \in Seq(0..Last') /\ Waiting' = Waiting + 1 /\ Taken' = Taken
          /\ \A n \in 1..Waiting' : queue'[n] = Taken + n
          /\ Closing' => queue'[Waiting' + 1] = 0
          /\ Range(queue) \cup {Last + 1} \subseteq Range(queue')
      BY <1>1, <1>3, <2>1, <2>2, <2>3, <2>8, QueueGrows
    <3>2. TypeOK'
      <4>1. sending' \in 0..Last'
        BY <2>1, <2>2, <2>8, Numbers
      <4>2. sender' \in {"none", "looking", "waiting", "sending", "ended", "killed"}
        BY <2>1 DEF StreamInv, TypeOK
      <4> QED
        BY <1>1, <1>3, <2>1, <2>2, <2>8, <3>1, <4>1, <4>2, TypesGrow
    <3>3. QueueShaped'
      <4>1. Waiting' \in Nat /\ Waiting' < Last'
        BY <1>1, <2>2, <3>1, Numbers DEF StreamInv, QueueShaped
      <4> QED
        BY <2>1, <2>3, <2>8, <3>1, <4>1 DEF QueueShaped
    <3>4. SentInOrder' /\ QueueInOrder'
      BY <1>1, <1>3, <2>1, <2>8, <3>1, EmitsInOrder
    <3>5. OnlyRedundantDropped'
      <4>1. Last + 1 \in Pending' /\ Pending \subseteq Pending'
        BY <2>1, <2>8, <3>1 DEF Pending
      <4> QED
        BY <1>1, <2>2, <2>3, <4>1, EmitsNotDropped
    <3> QED
      BY <2>4, <2>5, <2>6, <3>2, <3>3, <3>4, <3>5 DEF StreamInv
  <2> QED
    BY <2>7, <2>8
<1> QED
  BY <1>2, <1>3

\* The four places where the bubble is closed.
LEMMA ClosesKeep ==
  ASSUME StreamInv, Failed \/ Silent \/ Replied \/ CleanUp
  PROVE  StreamInv'
<1>1. CASE Failed
  BY <1>1, CloseKeeps DEF Failed, Terminals
<1>2. CASE Silent
  BY <1>2, CloseKeeps DEF Silent, Terminals
<1>3. CASE Replied
  BY <1>3, CloseKeeps DEF Replied
<1>4. CASE CleanUp
  BY <1>4, CloseKeeps DEF CleanUp, Terminals
<1> QED
  BY <1>1, <1>2, <1>3, <1>4

\* A run of writing frames at the head of the queue has an end: the frames taken
\* off for one POST are of the queue, and none of them but the newest is other
\* than a writing frame that a newer one makes redundant.
LEMMA CoalescedRun ==
  ASSUME StreamInv, queue # <<>>, Head(queue) # 0
  PROVE  /\ Coalesced \in 1..Waiting
         /\ \A k \in 1..Coalesced - 1 : Writing(queue[k]) /\ Writing(queue[k + 1])
<1>1. /\ Len(queue) \in Nat \ {0} /\ Head(queue) = queue[1] /\ Waiting \in Nat
      /\ Closing => Len(queue) = Waiting + 1 /\ queue[Waiting + 1] = 0
      /\ ~Closing => Len(queue) = Waiting
  BY Sequences, EmptySeq DEF StreamInv, QueueShaped, Waiting
<1>2. Waiting # 0
  BY <1>1
<1>3. CASE ~Writing(Head(queue))
  BY <1>1, <1>2, <1>3 DEF Coalesced
<1>4. CASE Writing(Head(queue))
  <2> DEFINE Run(n) == /\ \A k \in 1..n : Writing(queue[k])
                       /\ n < Len(queue) => ~Writing(queue[n + 1])
             S == {k \in 1..Len(queue) + 1 : k = Len(queue) + 1 \/ ~Writing(queue[k])}
  <2>1. S \in SUBSET Nat /\ S # {}
    BY <1>1
  <2> HIDE DEF S
  <2>2. PICK m \in S : \A y \in S : <<y, m>> \notin OpToRel(<, Nat)
    BY <2>1, NatLessThanWellFounded, WFMin, Zenon
  <2>3. \A y \in S : m <= y
    <3>1. SUFFICES ASSUME NEW y \in S PROVE ~(y < m)
      BY <2>1
    <3>2. y \in Nat /\ m \in Nat
      BY <2>1
    <3> QED
      BY <2>2, <3>2, Zenon DEF OpToRel
  <2>4. m \in 1..Len(queue) + 1 /\ (m = Len(queue) + 1 \/ ~Writing(queue[m])) /\ m # 1
    BY <1>1, <1>4 DEF S
  <2>5. \A k \in 1..m - 1 : Writing(queue[k])
    BY <1>1, <2>3, <2>4 DEF S
  <2>6. m - 1 \in 1..Len(queue) /\ Run(m - 1)
    BY <1>1, <2>4, <2>5
  <2>7. Coalesced = CHOOSE n \in 1..Len(queue) : Run(n)
    BY <1>4 DEF Coalesced
  <2>8. Coalesced \in 1..Len(queue) /\ Run(Coalesced)
    BY <2>6, <2>7
  <2>9. Coalesced \in 1..Waiting
    <3>1. Closing => Coalesced # Len(queue)
      BY <1>1, <2>8 DEF Writing
    <3> QED
      BY <1>1, <2>8, <3>1
  <2>10. \A k \in 1..Coalesced - 1 : k \in 1..Coalesced /\ k + 1 \in 1..Coalesced
    BY <2>9, <1>1
  <2> QED
    BY <2>8, <2>9, <2>10
<1> QED
  BY <1>3, <1>4

\* The sender takes the sentinel: the queue is empty, and it ends.
LEMMA SenderEnds ==
  ASSUME StreamInv, SenderLooks, queue # <<>>, Head(queue) = 0
  PROVE  StreamInv'
<1>1. /\ UNCHANGED <<pc, next, emitted, terminal, wake, sending, wire, shown, gone, late, cuts>>
      /\ sender = "looking" /\ sender' = "ended" /\ queue' = Tail(queue)
  BY DEF SenderLooks, network
<1>2. pc \notin {"begin", "direct"} /\ sending = 0
  BY <1>1 DEF StreamInv, SenderPlaced
<1>3. Closing /\ Len(queue) = 1 /\ Waiting = 0
  <2>1. Len(queue) \in Nat \ {0} /\ Head(queue) = queue[1] /\ Waiting \in Nat /\ Last \in Nat
    BY Sequences, EmptySeq
  <2>2. Waiting < Last /\ \A n \in 1..Waiting : queue[n] = Taken + n
    BY <1>2 DEF StreamInv, QueueShaped
  <2>3. Waiting = 0
    BY <2>1, <2>2 DEF Taken
  <2> QED
    BY <2>1, <2>3 DEF Waiting
<1>4. queue' = <<>> /\ Range(queue) = {0}
  <2>1. queue \in Seq(0..Last) /\ DOMAIN queue = {1} /\ queue[1] = 0
    BY <1>3, Sequences
  <2>2. Len(Tail(queue)) = 0 /\ Tail(queue) \in Seq(0..Last)
    BY <1>3, <2>1, HeadTailProperties
  <2>3. queue' = <<>>
    BY <1>1, <2>2, EmptySeq
  <2> QED
    BY <2>1, <2>3 DEF Range
<1>5. Last' = Last /\ Closing' = FALSE /\ Waiting' = 0 /\ Taken' = Taken
  BY <1>1, <1>3, <1>4 DEF Last, Closing, Waiting, Taken
<1>6. TypeOK'
  <2>1. queue' \in Seq(0..Last)
    BY <1>4
  <2> QED
    BY <1>1, <1>5, <2>1 DEF StreamInv, TypeOK
<1>7. QueueShaped'
  BY <1>1, <1>3, <1>4, <1>5 DEF StreamInv, QueueShaped
<1>8. SenderPlaced' /\ ClosedOnce'
  BY <1>1, <1>2, <1>3, <1>5 DEF StreamInv, SenderPlaced, ClosedOnce, Closing
<1>9. SentInOrder' /\ QueueInOrder' /\ ClosedOnTheWire'
  BY <1>1, <1>5 DEF StreamInv, SentInOrder, QueueInOrder, ClosedOnTheWire
<1>10. OnlyRedundantDropped'
  <2>1. \A f \in 1..Last : f \notin Pending
    BY <1>2, <1>4, Sequences DEF Pending
  <2> QED
    BY <1>1, <1>5, <2>1 DEF StreamInv, OnlyRedundantDropped
<1> QED
  BY <1>6, <1>7, <1>8, <1>9, <1>10 DEF StreamInv

\* The sender takes a run of frames off the queue: the frames left and the one
\* in hand.
LEMMA RunTaken ==
  ASSUME StreamInv, SenderLooks, queue # <<>>, Head(queue) # 0
  PROVE  /\ Coalesced \in 1..Waiting /\ Waiting \in Nat /\ Last \in Nat /\ Waiting < Last
         /\ Taken = Last - Waiting /\ sending = 0 /\ pc \notin {"begin", "direct"}
         /\ \A k \in 1..Coalesced - 1 : Writing(queue[k]) /\ Writing(queue[k + 1])
         /\ \A k \in 1..Waiting : queue[k] = Taken + k
         /\ Len(queue) \in Nat /\ DOMAIN queue = 1..Len(queue) /\ queue \in Seq(0..Last)
         /\ Len(queue) = IF Closing THEN Waiting + 1 ELSE Waiting
         /\ Closing => queue[Waiting + 1] = 0
         /\ queue' \in Seq(0..Last) /\ Len(queue') = Len(queue) - Coalesced
         /\ \A k \in 1..Len(queue) - Coalesced : queue'[k] = queue[Coalesced + k]
         /\ Last' = Last /\ (Closing' <=> Closing) /\ Waiting' = Waiting - Coalesced
         /\ Taken' = Taken + Coalesced /\ sending' = Taken + Coalesced /\ sending' \in 1..Last
<1> DEFINE n == Coalesced
<1>1. /\ UNCHANGED <<pc, next, emitted, terminal, wake, wire, shown, gone, late, cuts>>
      /\ sender = "looking" /\ sender' = "sending" /\ sending' = queue[n]
      /\ queue' = SubSeq(queue, n + 1, Len(queue))
  BY DEF SenderLooks, network
<1>2. pc \notin {"begin", "direct"} /\ sending = 0
  BY <1>1 DEF StreamInv, SenderPlaced
<1>3. /\ n \in 1..Waiting /\ Waiting \in Nat /\ Last \in Nat /\ Waiting < Last
      /\ \A k \in 1..n - 1 : Writing(queue[k]) /\ Writing(queue[k + 1])
      /\ \A k \in 1..Waiting : queue[k] = Taken + k
      /\ Closing => queue[Waiting + 1] = 0
  <2>1. /\ n \in 1..Waiting
        /\ \A k \in 1..n - 1 : Writing(queue[k]) /\ Writing(queue[k + 1])
    BY CoalescedRun
  <2>2. /\ Waiting < Last /\ \A k \in 1..Waiting : queue[k] = Taken + k
        /\ Closing => queue[Waiting + 1] = 0
    BY <1>2 DEF StreamInv, QueueShaped
  <2> HIDE DEF n
  <2> QED
    BY <2>1, <2>2, Numbers
<1>4. /\ Len(queue) \in Nat /\ DOMAIN queue = 1..Len(queue) /\ queue \in Seq(0..Last)
      /\ Len(queue) = IF Closing THEN Waiting + 1 ELSE Waiting
  <2>1. Len(queue) \in Nat /\ DOMAIN queue = 1..Len(queue) /\ queue \in Seq(0..Last)
    BY Sequences
  <2> QED
    BY <2>1 DEF Waiting
<1> HIDE DEF n
<1>5. n \in 1..Len(queue) /\ n + 1 \in Int /\ Len(queue) \in Int
  BY <1>3, <1>4
<1>6. /\ queue' \in Seq(0..Last) /\ Len(queue') = Len(queue) - n
      /\ \A k \in 1..Len(queue) - n : queue'[k] = queue[n + k]
  <2> DEFINE q == SubSeq(queue, n + 1, Len(queue))
  <2>1. ASSUME NEW k \in n + 1..Len(queue) PROVE queue[k] \in 0..Last
    <3>1. k \in 1..Len(queue) /\ queue \in Seq(0..Last)
      BY <1>4, <1>5
    <3> QED
      BY <3>1, ElementOfSeq
  <2>2. /\ q \in Seq(0..Last)
        /\ Len(q) = IF n + 1 <= Len(queue) THEN Len(queue) - (n + 1) + 1 ELSE 0
        /\ \A k \in 1..Len(queue) - (n + 1) + 1 : q[k] = queue[n + 1 + k - 1]
    BY <1>5, <2>1, SubSeqProperties
  <2> HIDE DEF q
  <2>3. Len(q) = Len(queue) - n
    BY <1>5, <2>2
  <2>4. ASSUME NEW k \in 1..Len(queue) - n PROVE q[k] = queue[n + k]
    <3>1. k \in 1..Len(queue) - (n + 1) + 1 /\ n + 1 + k - 1 = n + k
      BY <1>5
    <3>2. q[k] = queue[n + 1 + k - 1]
      BY <2>2, <3>1
    <3> QED
      BY <3>1, <3>2
  <2>5. queue' = q
    BY <1>1 DEF q
  <2> QED
    BY <2>2, <2>3, <2>4, <2>5
<1>7. Last' = Last /\ (Closing' <=> Closing)
  BY <1>1 DEF Last, Closing
<1>8. Waiting' = Waiting - n
  <2>1. Waiting' = IF Closing THEN Len(queue') - 1 ELSE Len(queue')
    BY <1>7 DEF Waiting
  <2>2. Waiting = IF Closing THEN Len(queue) - 1 ELSE Len(queue)
    BY DEF Waiting
  <2> QED
    BY <1>5, <1>6, <2>1, <2>2
<1>9. Taken = Last - Waiting /\ Taken' = Last - Waiting'
  BY <1>7 DEF Taken
<1>10. Taken' = Taken + n /\ sending' = Taken + n /\ sending' \in 1..Last
  <2>1. Taken' = Taken + n
    BY <1>3, <1>8, <1>9
  <2>2. sending' = Taken + n
    BY <1>1, <1>3
  <2>3. n \in 1..Waiting /\ Waiting < Last /\ Waiting \in Nat /\ Last \in Nat /\ Taken = Last - Waiting
    BY <1>3, <1>9
  <2>4. Taken + n \in 1..Last
    BY <2>3
  <2> QED
    BY <2>1, <2>2, <2>4
<1> QED
  BY <1>2, <1>3, <1>4, <1>6, <1>7, <1>8, <1>9, <1>10 DEF n

\* The sender takes a run of frames off the queue, for one POST.
LEMMA SenderTakes ==
  ASSUME StreamInv, SenderLooks, queue # <<>>, Head(queue) # 0
  PROVE  StreamInv'
<1>1. /\ UNCHANGED <<pc, next, emitted, terminal, wake, wire, shown, gone, late, cuts>>
      /\ sender = "looking" /\ sender' = "sending" /\ sending' = queue[Coalesced]
  BY DEF SenderLooks, network
<1>2. pc \notin {"begin", "direct"} /\ sending = 0
  BY RunTaken
<1> DEFINE n == Coalesced
           W == Waiting
<1>3. /\ n \in 1..W /\ W \in Nat /\ Last \in Nat /\ W < Last /\ Taken = Last - W
      /\ \A k \in 1..n - 1 : Writing(queue[k]) /\ Writing(queue[k + 1])
      /\ \A k \in 1..W : queue[k] = Taken + k
      /\ Len(queue) \in Nat /\ DOMAIN queue = 1..Len(queue) /\ queue \in Seq(0..Last)
      /\ Len(queue) = IF Closing THEN W + 1 ELSE W
      /\ Closing => queue[W + 1] = 0
  BY RunTaken
<1>4. /\ queue' \in Seq(0..Last) /\ Len(queue') = Len(queue) - n
      /\ \A k \in 1..Len(queue) - n : queue'[k] = queue[n + k]
  BY RunTaken
<1>5. /\ Last' = Last /\ (Closing' <=> Closing) /\ Waiting' = W - n /\ Taken' = Taken + n
      /\ sending' = Taken + n /\ sending' \in 1..Last
  BY RunTaken
<1> HIDE DEF n, W
<1>6. TypeOK'
  <2>1. /\ queue' \in Seq(0..Last') /\ sending' \in 0..Last'
        /\ sender' \in {"none", "looking", "waiting", "sending", "ended", "killed"}
    BY <1>1, <1>4, <1>5
  <2> HIDE <1>3, <1>4
  <2> QED
    BY <1>1, <1>5, <2>1 DEF StreamInv, TypeOK
<1>7. QueueShaped'
  <2>1. n \in 1..W
    BY <1>3
  <2>2. Waiting' \in Nat /\ Waiting' < Last'
    BY <1>3, <1>5, <2>1
  <2>3. \A k \in 1..Waiting' : queue'[k] = Taken' + k
    <3>1. SUFFICES ASSUME NEW k \in 1..W - n PROVE queue'[k] = Taken + n + k
      BY <1>5
    <3>2. n + k \in 1..W /\ k \in 1..Len(queue) - n
      BY <1>3, <2>1
    <3>3. queue'[k] = queue[n + k]
      BY <1>4, <3>2
    <3>4. queue[n + k] = Taken + (n + k)
      BY <1>3, <3>2
    <3> QED
      BY <1>3, <2>1, <3>3, <3>4
  <2>4. Closing => queue'[Waiting' + 1] = 0
    <3> SUFFICES ASSUME Closing PROVE queue'[W - n + 1] = 0
      BY <1>5
    <3>1. Len(queue) = W + 1 /\ queue[W + 1] = 0
      BY <1>3
    <3>2. W - n + 1 \in 1..Len(queue) - n /\ n + (W - n + 1) = W + 1
      BY <1>3, <2>1, <3>1
    <3> QED
      BY <1>4, <3>1, <3>2
  <2> QED
    BY <1>1, <1>5, <2>2, <2>3, <2>4 DEF QueueShaped
<1>8. SenderPlaced' /\ ClosedOnce' /\ ClosedOnTheWire'
  BY <1>1, <1>2, <1>5 DEF StreamInv, SenderPlaced, ClosedOnce, ClosedOnTheWire
<1>9. SentInOrder' /\ QueueInOrder'
  <2>1. n \in Nat \ {0} /\ Taken \in Int
    BY <1>3, Sequences
  <2>2. wire \subseteq 1..Taken /\ \A k \in DOMAIN shown : shown[k] \in Nat /\ shown[k] <= Taken
    BY ShownTaken DEF StreamInv, SentInOrder
  <2>3. wire \subseteq 1..Taken + n /\ \A k \in DOMAIN shown : shown[k] < Taken + n
    BY <2>1, <2>2
  <2>4. late = 0 => wire \ {1} = {}
    BY <1>1 DEF StreamInv, SentInOrder
  <2>5. /\ sending' <= Taken' /\ wire' \subseteq 1..Taken' /\ \A k \in DOMAIN shown' : shown'[k] <= Taken'
        /\ \A k \in DOMAIN shown' : shown'[k] < sending'
    <3>1. \A k \in DOMAIN shown : shown[k] <= Taken + n
      BY <2>1, <2>2
    <3> QED
      BY <1>1, <1>5, <2>1, <2>3, <3>1
  <2>6. SentInOrder'
    BY <1>1, <2>4, <2>5 DEF SentInOrder
  <2> QED
    BY <1>1, <2>6 DEF StreamInv, QueueInOrder
<1>10. OnlyRedundantDropped'
  <2>1. SUFFICES ASSUME NEW f \in 1..Last, f \in Range(queue)
                 PROVE  \/ f \in Range(queue') \cup {sending'}
                        \/ f < Last /\ emitted[f] = "writing" /\ emitted[f + 1] = "writing"
    BY <1>1, <1>2, <1>5 DEF StreamInv, OnlyRedundantDropped, Pending
  <2>2. PICK j \in 1..Len(queue) : f = queue[j]
    BY <1>3, <2>1 DEF Range
  <2>3. n \in 1..W
    BY <1>3
  <2>4. CASE j < n
    <3>1. j \in 1..n - 1 /\ j \in 1..W /\ j + 1 \in 1..W
      BY <1>3, <2>2, <2>3, <2>4
    <3>2. queue[j] = Taken + j /\ queue[j + 1] = Taken + (j + 1)
      BY <1>3, <3>1
    <3>3. f = Taken + j /\ queue[j + 1] = f + 1 /\ f < Last
      BY <1>3, <2>2, <3>1, <3>2
    <3> QED
      BY <1>3, <2>2, <3>1, <3>3 DEF Writing
  <2>5. CASE j = n
    BY <1>1, <2>2, <2>5 DEF n
  <2>6. CASE j > n
    <3>1. j - n \in 1..Len(queue) - n /\ queue'[j - n] = queue[j]
      BY <1>3, <1>4, <2>2, <2>3, <2>6
    <3>2. DOMAIN queue' = 1..Len(queue) - n
      BY <1>4, LenProperties
    <3> QED
      BY <2>2, <3>1, <3>2 DEF Range
  <2> QED
    BY <1>3, <2>2, <2>3, <2>4, <2>5, <2>6
<1> QED
  BY <1>6, <1>7, <1>8, <1>9, <1>10 DEF StreamInv

\* A stop or the timeout, wherever it hits the turn.
LEMMA CutKeeps ==
  ASSUME StreamInv, Cut
  PROVE  StreamInv'
<1> DEFINE InHand == pc = "direct" \/ (pc = "draining" /\ sender = "sending")
<1>1. /\ UNCHANGED <<next, emitted, terminal, queue, wake, shown, late>>
      /\ pc \in {"model", "posting", "draining", "direct", "tail"}
      /\ cuts < MaxCuts /\ cuts' = cuts + 1
      /\ pc' \in {"done", "tail"} /\ (pc' = "done" => pc \in {"draining", "direct"})
      /\ sender' = IF pc = "draining" /\ sender # "ended" THEN "killed" ELSE sender
  BY DEF Cut, callback
<1>2. /\ InHand => /\ sending' = 0
                   /\ \/ wire' = wire \cup {sending} /\ gone' = gone
                      \/ gone' = gone \cup {sending} /\ wire' = wire
      /\ ~InHand => UNCHANGED <<sending, wire, gone>>
  BY DEF Cut
<1> HIDE DEF InHand
<1>3. /\ InHand => sending \in 1..Last /\ terminal /\ sender' \in {"none", "killed"}
      /\ ~InHand /\ sender' # sender => sending = 0 /\ terminal /\ sender \notin {"none", "killed"}
    BY <1>1, Sequences DEF StreamInv, SenderPlaced, InHand
<1>4. Last' = Last /\ Waiting' = Waiting /\ Taken' = Taken /\ (Closing' <=> Closing)
  <2>1. Last' = Last /\ (Closing' <=> Closing)
    BY <1>1 DEF StreamInv, SenderPlaced, Last, Closing
  <2> QED
    BY <1>1, <2>1 DEF Waiting, Taken
<1>5. TypeOK'
  <2>1. sending' \in 0..Last /\ wire' \subseteq 1..Last /\ gone' \subseteq 1..Last
    <3>1. sending \in 0..Last /\ wire \subseteq 1..Last /\ gone \subseteq 1..Last /\ Last \in Nat
      BY Sequences DEF StreamInv, TypeOK
    <3>2. CASE InHand
      <4>1. sending \in 1..Last /\ sending' \in 0..Last
        BY <1>2, <1>3, <3>1, <3>2
      <4>2. wire' \subseteq wire \cup {sending} /\ gone' \subseteq gone \cup {sending}
        BY <1>2, <3>2
      <4> QED
        BY <3>1, <4>1, <4>2
    <3>3. CASE ~InHand
      BY <1>2, <3>1, <3>3
    <3> QED
      BY <3>2, <3>3
  <2>2. sender' \in {"none", "looking", "waiting", "sending", "ended", "killed"}
    BY <1>1 DEF StreamInv, TypeOK
  <2>3. cuts' \in 0..MaxCuts
    BY <1>1, Sequences DEF StreamInv, TypeOK
  <2>4. pc' \in {"begin", "model", "posting", "draining", "direct", "tail", "done"}
    BY <1>1
  <2> QED
    BY <1>1, <1>4, <2>1, <2>2, <2>3, <2>4 DEF StreamInv, TypeOK
<1>6. QueueShaped' /\ ClosedOnce'
  <2>1. sender' \in {"none", "ended"} => sender' = sender
    BY <1>1
  <2>2. pc # "begin"
    BY <1>1
  <2> QED
    BY <1>1, <1>4, <2>1, <2>2 DEF StreamInv, QueueShaped, ClosedOnce
<1>7. SenderPlaced'
  <2>1. sending' # 0 <=> sender' = "sending" \/ pc' = "direct"
    BY <1>1, <1>2, <1>3 DEF StreamInv, SenderPlaced, InHand
  <2>2. sender' \in {"ended", "killed"} \/ pc' = "done" => terminal
    BY <1>1 DEF StreamInv, SenderPlaced
  <2> QED
    BY <1>1, <2>1, <2>2 DEF SenderPlaced
<1>8. SentInOrder'
  <2>1. sending <= Taken /\ wire \subseteq 1..Taken /\ \A n \in DOMAIN shown : shown[n] <= Taken
    BY DEF StreamInv, SentInOrder
  <2>2. CASE InHand
    <3>1. sending \in 1..Taken
      BY <1>3, <2>1, <2>2, Sequences
    <3>2. wire' \subseteq 1..Taken /\ sending' = 0 /\ sending' <= Taken
      <4>1. wire' \subseteq wire \cup {sending} /\ sending' = 0
        BY <1>2, <2>2
      <4>2. sending' <= Taken
        BY <3>1, <4>1, Sequences
      <4> QED
        BY <2>1, <3>1, <4>1, <4>2
    <3>3. late = 0 => wire \subseteq {1} /\ \A n \in DOMAIN shown : shown[n] # 1 => shown[n] < sending
      BY <3>1 DEF StreamInv, SentInOrder
    <3>4. late = 0 => \A w \in wire' \ {1} : w = sending /\ wire' \subseteq {1, w}
      BY <1>2, <2>2, <3>3
    <3> QED
      BY <1>1, <1>3, <1>4, <2>1, <2>2, <3>2, <3>3, <3>4 DEF SentInOrder
  <2>3. CASE ~InHand
    <3>1. late = 0 /\ wire \ {1} # {} => sender' = sender
      BY <1>3, <2>3 DEF StreamInv, SentInOrder
    <3> QED
      BY <1>1, <1>2, <1>4, <2>3, <3>1 DEF StreamInv, SentInOrder
  <2> QED
    BY <2>2, <2>3
<1>9. QueueInOrder'
  BY <1>1 DEF StreamInv, QueueInOrder
<1>10. OnlyRedundantDropped'
  <2>1. sender' # "killed" => sender # "killed"
    BY <1>1
  <2>2. Range(shown) \cup wire \cup gone \cup Pending \subseteq
          Range(shown) \cup wire' \cup gone' \cup Pending'
    BY <1>1, <1>2 DEF Pending
  <2> QED
    BY <1>1, <1>4, <2>1, <2>2 DEF StreamInv, OnlyRedundantDropped
<1>11. ClosedOnTheWire'
  <2>1. SUFFICES ASSUME terminal, sender' # "killed" PROVE Last \in Range(shown) \cup wire' \cup gone'
    BY <1>1, <1>4 DEF ClosedOnTheWire
  <2>2. wire \subseteq wire' /\ gone \subseteq gone'
    BY <1>2
  <2>3. sender # "killed" /\ (pc = "draining" => sender = "ended")
    BY <1>1, <2>1
  <2>4. CASE pc \notin {"draining", "direct"}
    BY <2>1, <2>2, <2>3, <2>4 DEF StreamInv, ClosedOnTheWire
  <2>5. CASE pc \in {"draining", "direct"}
    <3>1. queue = <<>> /\ Last \in 1..Last
      <4>1. queue = <<>>
        BY <2>3, <2>5 DEF StreamInv, QueueShaped, SenderPlaced
      <4>2. Waiting < Last
        BY <2>5 DEF StreamInv, QueueShaped
      <4> QED
        BY <4>1, <4>2, Numbers
    <3>2. Pending = {sending}
      BY <3>1 DEF Pending, Range
    <3>3. Last \in Range(shown) \cup wire \cup gone \cup {sending}
      BY <2>3, <3>1, <3>2 DEF StreamInv, OnlyRedundantDropped
    <3>4. sending = 0 \/ sending \in wire' \cup gone'
      BY <1>2, <2>3, <2>5 DEF StreamInv, SenderPlaced, InHand
    <3> QED
      BY <2>2, <3>1, <3>3, <3>4, Sequences
  <2> QED
    BY <2>4, <2>5
<1> QED
  BY <1>5, <1>6, <1>7, <1>8, <1>9, <1>10, <1>11 DEF StreamInv

\* Before the turn begins.
LEMMA StreamStarts == Init => StreamInv
<1> SUFFICES ASSUME Init PROVE StreamInv
  OBVIOUS
<1>1. Last = 0 /\ queue = <<>> /\ Waiting = 0 /\ Taken = 0 /\ Closing = FALSE
  BY DEF Init, Last, Waiting, Taken, Closing
<1>2. TypeOK
  <2>1. emitted \in Seq(Names) /\ queue \in Seq(0..Last) /\ shown \in Seq(1..Last)
    BY DEF Init
  <2>2. Last \in 0..MaxFrames + 2 /\ sending \in 0..Last /\ late \in 0..MaxLate /\ cuts \in 0..MaxCuts
    BY <1>1, StreamAssumption DEF Init
  <2> QED
    BY <2>1, <2>2 DEF Init, TypeOK, Names
<1>3. QueueShaped /\ SenderPlaced
  BY <1>1 DEF Init, QueueShaped, SenderPlaced
<1>4. ClosedOnce /\ SentInOrder /\ ClosedOnTheWire
  BY <1>1, StreamAssumption DEF Init, ClosedOnce, SentInOrder, ClosedOnTheWire
<1>5. QueueInOrder /\ OnlyRedundantDropped
  BY <1>1 DEF Init, QueueInOrder, OnlyRedundantDropped
<1> QED
  BY <1>2, <1>3, <1>4, <1>5 DEF StreamInv

\* Every step of the turn, the sender and the network keeps the invariant.
LEMMA StreamSteps == StreamInv /\ [Next]_vars => StreamInv'
<1> SUFFICES ASSUME StreamInv, [Next]_vars PROVE StreamInv'
  OBVIOUS
<1>1. ASSUME NEW f \in Frames, Arrive(f) PROVE StreamInv'
  BY <1>1, ArriveKeeps
<1>2. CASE SenderLooks
  <2>1. CASE queue = <<>>
    BY <1>2, <2>1, SenderRests
  <2>2. CASE queue # <<>>
    BY <1>2, <2>2, SenderEnds, SenderTakes
  <2> QED
    BY <2>1, <2>2
<1>3. CASE SenderWakes
  BY <1>3, SenderRests
<1>4. CASE Sent \/ SentDirectly
  BY <1>4, PostKeeps
<1>5. CASE Begin
  BY <1>5, BeginKeeps
<1>6. CASE Answered \/ HandedBack
  BY <1>6, AnswerKeeps
<1>7. CASE Failed \/ Silent \/ Replied \/ CleanUp
  BY <1>7, ClosesKeep
<1>8. CASE Drained
  BY <1>8, DrainKeeps
<1>9. ASSUME NEW p \in Phases \cup {"writing"}, Emit(p) PROVE StreamInv'
  BY <1>9, EmitKeeps
<1>10. CASE Cut
  BY <1>10, CutKeeps
<1>11. CASE UNCHANGED vars
  <2>1. UNCHANGED <<pc, next, emitted, terminal, queue, wake, sender, sending, wire, shown, gone, late, cuts>>
    BY <1>11 DEF vars, callback, network
  <2>2. Last' = Last /\ Waiting' = Waiting /\ Taken' = Taken /\ (Closing' <=> Closing) /\ Pending' = Pending
    BY <2>1 DEF Last, Waiting, Taken, Closing, Pending
  <2>3. TypeOK' /\ QueueShaped' /\ SenderPlaced' /\ ClosedOnce'
    BY <2>1, <2>2 DEF StreamInv, TypeOK, QueueShaped, SenderPlaced, ClosedOnce
  <2>4. SentInOrder' /\ ClosedOnTheWire' /\ QueueInOrder' /\ OnlyRedundantDropped'
    BY <2>1, <2>2 DEF StreamInv, SentInOrder, ClosedOnTheWire, QueueInOrder, OnlyRedundantDropped
  <2> QED
    BY <2>3, <2>4 DEF StreamInv
<1> QED
  BY <1>1, <1>2, <1>3, <1>4, <1>5, <1>6, <1>7, <1>8, <1>9, <1>10, <1>11
  DEF Next, SenderStep, TurnStep

\* The invariant holds in every reachable state.
LEMMA StreamHolds == Spec => []StreamInv
  BY StreamStarts, StreamSteps, PTL DEF Spec

\* The history of the bubble the server can show is exact: coalescing, lost and
\* late POSTs, stops and timeouts neither reorder the frames of the queue nor
\* drop one that a newer frame does not stand for, and it is ended once.
THEOREM FramesInOrder == Spec => []FramesExact
<1>1. StreamInv => FramesExact
  BY DEF StreamInv, FramesExact, OneTerminal, ClosedOnce
<1> QED
  BY <1>1, StreamHolds, PTL

\* A turn that is over has handed the terminal frame of its bubble to the network,
\* unless a stop cut the very wait for the sender.
THEOREM BubbleIsClosed == Spec => []BubbleCloses
<1>1. StreamInv => BubbleCloses
  <2> SUFFICES ASSUME StreamInv, sender # "killed", pc = "done"
               PROVE  \E f \in Range(shown) \cup wire \cup gone : emitted[f] \in Terminals
    BY DEF BubbleCloses, TeardownGuaranteed
  <2>1. terminal /\ Last \in 1..Last
    BY Sequences DEF StreamInv, SenderPlaced, QueueShaped
  <2>2. Last \in Range(shown) \cup wire \cup gone /\ emitted[Last] \in Terminals
    BY <2>1 DEF StreamInv, ClosedOnTheWire, ClosedOnce
  <2> QED
    BY <2>2
<1> QED
  BY <1>1, StreamHolds, PTL
----------------------------------------------------------------------------
(* The bubble the server shows.                                            *)

\* The queue stays as it is, and so does the newest frame taken off it.
LEMMA TakenStays ==
  ASSUME UNCHANGED <<emitted, terminal, queue>>,
         sender' = sender \/ (sender \notin {"none", "ended"} /\ sender' \notin {"none", "ended"})
  PROVE  Taken' = Taken
<1>1. (Closing' <=> Closing) /\ Last' = Last
  BY DEF Closing, Last
<1> QED
  BY <1>1 DEF Waiting, Taken

\* While no terminal frame was emitted the bubble is open.
LEMMA OpenBubble ==
  ASSUME StreamInv, ~terminal
  PROVE  ~Server!Closed
<1>1. DOMAIN emitted = 1..Last
  BY Sequences
<1> QED
  BY <1>1 DEF StreamInv, ClosedOnce, Server!Closed

\* A POST that is over has delivered its frame, lost it or set it adrift.
LEMMA PostRefines ==
  ASSUME StreamInv, Sent \/ SentDirectly
  PROVE  Server!Next
<1>1. UNCHANGED <<emitted, terminal, queue>> /\ Posted(sending) /\ sending' = 0
  BY DEF Sent, SentDirectly, callback
<1>2. Taken' = Taken
  <2>1. sender' = sender \/ (sender = "sending" /\ sender' = "looking")
    BY DEF Sent, SentDirectly
  <2> QED
    BY <1>1, <2>1, TakenStays
<1>3. sending # 0
  BY DEF StreamInv, SenderPlaced, Sent, SentDirectly
<1>4. CASE Delivered(sending)
  BY <1>1, <1>2, <1>3, <1>4 DEF Delivered, Server!Delivered, Server!Next
<1>5. CASE Lost(sending)
  BY <1>1, <1>2, <1>3, <1>5 DEF Lost, Server!Loses, Server!Next
<1>6. CASE Delayed(sending)
  BY <1>1, <1>2, <1>3, <1>6 DEF Delayed, Server!Drifts, Server!Next
<1> QED
  BY <1>1, <1>4, <1>5, <1>6 DEF Posted

\* The sender takes a frame: those it skips are redundant.
LEMMA TakeRefines ==
  ASSUME StreamInv, SenderLooks, queue # <<>>, Head(queue) # 0
  PROVE  Server!Next
<1> DEFINE n == Coalesced
<1>1. UNCHANGED <<emitted, wire, shown, gone>>
  BY DEF SenderLooks, network
<1>2. /\ n \in 1..Waiting /\ Waiting \in Nat /\ Last \in Nat /\ Taken = Last - Waiting /\ sending = 0
      /\ \A k \in 1..n - 1 : Writing(queue[k]) /\ Writing(queue[k + 1])
      /\ \A k \in 1..Waiting : queue[k] = Taken + k
  BY RunTaken
<1>3. Taken' = Taken + n /\ sending' = Taken + n
  BY RunTaken
<1> HIDE DEF n
<1>4. ASSUME NEW g \in Taken + 1..Taken + n - 1 PROVE Server!Redundant(g)
  <2>1. g - Taken \in 1..n - 1 /\ g - Taken \in 1..Waiting /\ g - Taken + 1 \in 1..Waiting
    BY <1>2
  <2>2. queue[g - Taken] = g /\ queue[g - Taken + 1] = g + 1
    BY <1>2, <2>1
  <2> QED
    BY <1>2, <2>1, <2>2 DEF Writing, Server!Redundant
<1>5. Taken + n \in Taken + 1..Len(emitted)
  BY <1>2 DEF Last
<1>6. Server!Send(Taken + n)
  <2> DEFINE t == Taken + n
  <2>1. ASSUME NEW g \in Taken + 1..t - 1 PROVE Server!Redundant(g)
    <3>1. g \in Taken + 1..Taken + n - 1
      BY <1>2
    <3> QED
      BY <1>4, <3>1
  <2>2. Taken' = t /\ sending' = t
    BY <1>3
  <2> HIDE DEF t
  <2>3. Server!Send(t)
    BY <1>1, <1>2, <2>1, <2>2 DEF Server!Send
  <2> QED
    BY <2>3 DEF t
<1> QED
  BY <1>5, <1>6 DEF Server!Next

\* The stop sentinel is no frame.
LEMMA StopRefines ==
  ASSUME StreamInv, SenderLooks, queue # <<>>, Head(queue) = 0
  PROVE  UNCHANGED Server!vars
<1>1. /\ UNCHANGED <<emitted, terminal, sending, wire, shown, gone>>
      /\ sender = "looking" /\ sender' = "ended" /\ queue' = Tail(queue)
  BY DEF SenderLooks, network
<1>2. Len(queue) \in Nat \ {0} /\ Head(queue) = queue[1] /\ Waiting \in Nat /\ Taken \in Int /\ Last \in Nat
  BY Sequences, EmptySeq
<1>3. Waiting = 0
  <2>1. SUFFICES ASSUME Waiting # 0 PROVE FALSE
    OBVIOUS
  <2>2. 1 \in 1..Waiting
    BY <1>2, <2>1
  <2>3. Taken + 1 = 0
    BY <1>2, <2>2 DEF StreamInv, QueueShaped
  <2>4. Taken >= 0
    <3>1. pc # "begin"
      BY <1>1 DEF StreamInv, SenderPlaced
    <3> QED
      BY <1>2, <3>1 DEF StreamInv, QueueShaped, Taken
  <2> QED
    BY <1>2, <2>3, <2>4
<1>4. Len(queue) = 1
  BY <1>2, <1>3 DEF Waiting
<1>5. queue' = <<>>
  <2>1. queue' \in Seq(0..Last) /\ Len(queue') = 0
    BY <1>1, <1>2, <1>4, HeadTailProperties, Sequences
  <2> QED
    BY <2>1, EmptySeq
<1>6. Waiting' = 0
  BY <1>1, <1>5 DEF Waiting, Closing
<1>7. Taken' = Taken
  BY <1>1, <1>3, <1>6 DEF Taken, Last
<1> QED
  BY <1>1, <1>7 DEF Server!vars

\* The bubble is closed: its last frame is said, and sent at once if no update
\* ever flowed.
LEMMA CloseRefines ==
  ASSUME StreamInv, pc \in {"model", "posting", "tail"}, NEW how \in Terminals,
         NEW then, Close(how, then), UNCHANGED network
  PROVE  Server!Next \/ UNCHANGED Server!vars
<1>1. UNCHANGED <<wire, shown, gone>> /\ pc # "begin"
  BY DEF network
<1>2. CASE terminal
  <2>1. UNCHANGED <<emitted, terminal, queue, sending, sender>>
    BY <1>2 DEF Close, callback
  <2>2. Taken' = Taken
    BY <2>1, TakenStays
  <2> QED
    BY <1>1, <2>1, <2>2 DEF Server!vars
<1>3. CASE ~terminal
  <2>1. /\ terminal' = TRUE /\ emitted' = Append(emitted, how) /\ sender' = sender
        /\ \/ sender = "none" /\ sending' = Last + 1 /\ queue' = queue
           \/ sender # "none" /\ queue' = queue \o <<Last + 1, 0>> /\ sending' = sending
    BY <1>3 DEF Close
  <2>2. Last' = Last + 1 /\ ~Server!Closed /\ Last \in Nat
    BY <1>3, <2>1, EmitsOne, OpenBubble, Sequences DEF Names
  <2>3. sender \notin {"ended", "killed"} /\ (sender = "none" => sending = 0 /\ queue = <<>>)
    BY <1>1, <1>3 DEF StreamInv, SenderPlaced, QueueShaped
  <2>4. CASE sender = "none"
    <3>1. Waiting = 0 /\ Waiting' = 0
      BY <2>1, <2>3, <2>4 DEF Waiting, Closing
    <3>2. Taken = Last /\ Taken' = Last + 1
      BY <2>2, <3>1 DEF Taken
    <3>3. Server!SayAtOnce(how)
      BY <1>1, <2>1, <2>2, <2>3, <2>4, <3>2 DEF Server!SayAtOnce, Last
    <3> QED
      BY <3>3 DEF Server!Next
  <2>5. CASE sender # "none"
    <3>1. Taken' = Taken
      BY <1>1, <1>3, <2>1, <2>2, <2>3, <2>5, QueueGrows
    <3>2. emitted # <<>>
      <4>1. Last # 0
        BY <1>1, Sequences DEF StreamInv, QueueShaped
      <4> QED
        BY <4>1 DEF Last
    <3>3. Server!Say(how)
      BY <1>1, <2>1, <2>2, <2>5, <3>1, <3>2 DEF Server!Say
    <3> QED
      BY <3>3 DEF Server!Next
  <2> QED
    BY <2>4, <2>5
<1> QED
  BY <1>2, <1>3

\* A frame of the model is said.
LEMMA EmitRefines ==
  ASSUME StreamInv, NEW p \in Phases \cup {"writing"}, Emit(p)
  PROVE  Server!Next
<1>1. /\ pc = "model" /\ ~terminal /\ ~terminal' /\ emitted' = Append(emitted, p)
      /\ queue' = Append(queue, Last + 1)
      /\ UNCHANGED <<sending, wire, shown, gone>>
  BY DEF Emit, Enqueue, network
<1>2. Last' = Last + 1 /\ ~Server!Closed
  BY <1>1, EmitsOne, OpenBubble DEF Names
<1>3. Taken' = Taken
  BY <1>1, <1>2, QueueGrows
<1>4. emitted # <<>>
  <2>1. Last # 0
    BY <1>1, Sequences DEF StreamInv, QueueShaped
  <2> QED
    BY <2>1 DEF Last
<1>5. Server!Say(p)
  BY <1>1, <1>2, <1>3, <1>4 DEF Server!Say
<1> QED
  BY <1>5 DEF Server!Next

\* The bubble is painted.
LEMMA BeginRefines ==
  ASSUME StreamInv, Begin
  PROVE  Server!Next
<1>1. /\ pc = "begin" /\ emitted' = <<"started">> /\ wire' = {1}
      /\ UNCHANGED <<terminal, queue, sender, sending, shown, gone>>
  BY DEF Begin
<1>2. emitted = <<>> /\ sender = "none" /\ queue = <<>>
  BY <1>1 DEF StreamInv, SenderPlaced, QueueShaped
<1>3. Taken' = 1
  <2>1. Waiting' = 0 /\ Last' = 1
    BY <1>1, <1>2 DEF Waiting, Closing, Last
  <2> QED
    BY <2>1 DEF Taken
<1>4. Server!Paint("started")
  BY <1>1, <1>2, <1>3 DEF Server!Paint
<1> QED
  BY <1>4 DEF Server!Next

\* A stop or the timeout: the frame being sent drifts or is lost.
LEMMA CutRefines ==
  ASSUME StreamInv, Cut
  PROVE  Server!Next \/ UNCHANGED Server!vars
<1>1. UNCHANGED <<emitted, terminal, queue, shown>>
  BY DEF Cut, callback
<1>2. Taken' = Taken
  <2>1. sender' = sender \/ (pc = "draining" /\ sender # "ended" /\ sender' = "killed")
    BY DEF Cut
  <2> QED
    BY <1>1, <2>1, TakenStays DEF StreamInv, SenderPlaced
<1>3. CASE pc = "direct" \/ (pc = "draining" /\ sender = "sending")
  <2>1. sending # 0 /\ sending' = 0
    BY <1>3 DEF Cut, StreamInv, SenderPlaced
  <2>2. \/ wire' = wire \cup {sending} /\ gone' = gone
        \/ gone' = gone \cup {sending} /\ wire' = wire
    BY <1>3 DEF Cut
  <2>3. Server!Drifts \/ Server!Loses
    BY <1>1, <1>2, <2>1, <2>2 DEF Server!Drifts, Server!Loses
  <2> QED
    BY <2>3 DEF Server!Next
<1>4. CASE ~(pc = "direct" \/ (pc = "draining" /\ sender = "sending"))
  <2>1. UNCHANGED <<sending, wire, gone>>
    BY <1>4 DEF Cut
  <2> QED
    BY <1>1, <1>2, <2>1 DEF Server!vars
<1> QED
  BY <1>3, <1>4

\* Steps that move no frame.
LEMMA RestRefines ==
  ASSUME StreamInv, \/ SenderWakes \/ (SenderLooks /\ queue = <<>>) \/ Answered \/ HandedBack \/ Drained
                    \/ UNCHANGED vars
  PROVE  UNCHANGED Server!vars
<1>1. UNCHANGED <<emitted, terminal, queue, sending, wire, shown, gone>>
  BY DEF SenderWakes, SenderLooks, Answered, HandedBack, Drained, vars, callback, network
<1>2. sender' = sender \/ {sender, sender'} \subseteq {"looking", "waiting"}
  BY DEF SenderWakes, SenderLooks, Answered, HandedBack, Drained, vars
<1>3. Taken' = Taken
  BY <1>1, <1>2, TakenStays
<1> QED
  BY <1>1, <1>3 DEF Server!vars

\* A frame nobody awaits arrives.
LEMMA ArriveRefines ==
  ASSUME StreamInv, NEW f, Arrive(f)
  PROVE  Server!Next
<1>1. /\ f \in wire /\ wire' = wire \ {f} /\ shown' = Append(shown, f)
      /\ UNCHANGED <<emitted, terminal, queue, sender, sending, gone>>
  BY DEF Arrive, callback
<1>2. Taken' = Taken
  BY <1>1, TakenStays
<1>3. Server!Arrives(f)
  BY <1>1, <1>2 DEF Server!Arrives
<1> QED
  BY <1>1, <1>3 DEF Server!Next

\* Every step is a step of the bubble, or none of it.
LEMMA BubbleSteps == StreamInv /\ [Next]_vars => [Server!Next]_Server!vars
<1> SUFFICES ASSUME StreamInv, [Next]_vars PROVE Server!Next \/ UNCHANGED Server!vars
  OBVIOUS
<1>1. ASSUME NEW f \in Frames, Arrive(f) PROVE Server!Next
  BY <1>1, ArriveRefines
<1>2. CASE SenderLooks
  BY <1>2, RestRefines, TakeRefines, StopRefines
<1>3. CASE Sent \/ SentDirectly
  BY <1>3, PostRefines
<1>4. CASE Begin
  BY <1>4, BeginRefines
<1>5. CASE Failed \/ Silent \/ Replied \/ CleanUp
  <2>1. /\ pc \in {"model", "posting", "tail"} /\ UNCHANGED network
        /\ \E how \in Terminals, then \in {"posting", "tail", "done"} : Close(how, then)
    BY <1>5 DEF Failed, Silent, Replied, CleanUp, Terminals
  <2> QED
    BY <2>1, CloseRefines
<1>6. ASSUME NEW p \in Phases \cup {"writing"}, Emit(p) PROVE Server!Next
  BY <1>6, EmitRefines
<1>7. CASE Cut
  BY <1>7, CutRefines
<1>8. CASE SenderWakes \/ Answered \/ HandedBack \/ Drained \/ UNCHANGED vars
  BY <1>8, RestRefines
<1> QED
  BY <1>1, <1>2, <1>3, <1>4, <1>5, <1>6, <1>7, <1>8 DEF Next, SenderStep, TurnStep

\* The callback, its queue and the sender implement the bubble: frames go out one
\* at a time in the order they were emitted, skipping redundant ones only, and
\* nothing is emitted after the frame that ends it.
THEOREM BubbleKept == Spec => ImplementsBubble
<1>1. Init => Server!Init
  <2> SUFFICES ASSUME Init PROVE Server!Init
    OBVIOUS
  <2>1. Taken = 0
    BY DEF Init, Taken, Waiting, Closing, Last
  <2> QED
    BY <2>1 DEF Init, Server!Init
<1> QED
  BY <1>1, BubbleSteps, StreamHolds, PTL DEF Spec, ImplementsBubble, Server!Spec
=============================================================================
