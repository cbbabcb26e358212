--------------------------- MODULE ToolLoopProofs ---------------------------
(***************************************************************************)
(* Proofs about the tool loops of the backends: for any tools, limits,     *)
(* budgets and numbers of calls.                                           *)
(***************************************************************************)
EXTENDS ToolLoop, SequenceTheorems, FiniteSetTheorems, WellFoundedInduction, TLAPS

Messages == [uses : SUBSET Ids, answers : SUBSET Ids, size : 1..Big, stands : SUBSET Label]

\* What a message uses the next one answers, the last one apart.
Paired(h) ==
  \A i \in DOMAIN h :
    /\ h[i].uses # {} /\ i < Len(h) => h[i + 1].answers = h[i].uses
    /\ h[i].answers # {} => i > 1 /\ h[i - 1].uses = h[i].answers

\* A history a request may carry, if its last message leaves nothing open.
Sound(h) ==
  /\ h \in Seq(Messages) /\ h # <<>> /\ h[1].uses = {} /\ Paired(h)
  /\ \A i \in DOMAIN h : h[i].uses = {} \/ h[i].answers = {}
Whole(h) == Sound(h) /\ h[Len(h)].uses = {}

\* What the last message leaves open is answered, or among the blocks.
HistoryKept ==
  /\ pc \notin {"tools", "done"} => Whole(history) /\ answered = {}
  /\ pc = "tools" =>
       /\ Sound(history)
       /\ history[Len(history)].uses = answered \cup {blocks[k].id : k \in DOMAIN blocks}

\* A request has an iteration, and a loop that goes on has not met a finisher,
\* but for the XML loop; a CLI that runs the loop itself asks and is over; an
\* API turn has no files.
TurnKept ==
  /\ pc = "request" => iteration > 0
  /\ pc \in {"start", "request", "final"} /\ backend # "claude_xml" => ~Ends
  /\ pc \in {"tools", "final"} => backend \in Native \cup {"claude_xml"}
  /\ backend \in Native => ~files

ToolInv == TypeOK /\ HistoryKept /\ TurnKept /\ FilesFreed

----------------------------------------------------------------------------
(* The boundary of the compactor.                                          *)

\* A set of positions that is not empty has a greatest one.
LEMMA GreatestNumber ==
  ASSUME NEW n \in Nat, NEW S, S \subseteq 1..n, S # {}
  PROVE  Max(S) \in S /\ \A y \in S : Max(S) >= y
<1> DEFINE T == {n - x : x \in S}
<1>1. T \subseteq Nat /\ T # {}
  <2>1. \A x \in S : n - x \in Nat
    OBVIOUS
  <2> QED BY <2>1
<1>2. PICK t \in T : \A y \in T : ~ (<<y, t>> \in OpToRel(<, Nat))
  BY <1>1, NatLessThanWellFounded, WFMin, Zenon
<1>3. \A y \in T : ~ (y < t)
  <2> SUFFICES ASSUME NEW y \in T, y < t PROVE FALSE
    OBVIOUS
  <2>1. <<y, t>> \in Nat \X Nat
    BY <1>1
  <2>2. <<y, t>> \in OpToRel(<, Nat)
    BY <2>1 DEF OpToRel
  <2> QED BY <1>2, <2>2
<1>4. PICK x \in S : t = n - x
  OBVIOUS
<1>5. \A y \in S : x >= y
  <2> SUFFICES ASSUME NEW y \in S PROVE x >= y
    OBVIOUS
  <2>1. n - y \in T
    OBVIOUS
  <2>2. ~ (n - y < n - x)
    BY <2>1, <1>3, <1>4
  <2>3. x \in 1..n /\ y \in 1..n
    OBVIOUS
  <2> QED BY <2>2, <2>3
<1>6. Max(S) = CHOOSE m \in S : \A y \in S : m >= y
  BY DEF Max
<1>7. \E m \in S : \A y \in S : m >= y
  BY <1>5
<1> QED BY <1>6, <1>7, Zenon

\* _partition: the tail begins after the first message, and not with results
\* whose calls stay outside.
LEMMA TailBounds ==
  ASSUME NEW h, Sound(h)
  PROVE  /\ TailStart(h) \in 2..Len(h) + 1
         /\ TailStart(h) \in 3..Len(h) => h[TailStart(h)].answers = {}
<1> DEFINE over == {i \in 2..Len(h) : Size(h, i) > TailBudget /\ Len(h) - i + 1 >= MinTail}
           start == IF over = {} THEN 2 ELSE Max(over) + 1
<1>1. Len(h) \in Nat \ {0} /\ DOMAIN h = 1..Len(h) /\ \A i \in 1..Len(h) : h[i] \in Messages
  BY LenProperties, EmptySeq DEF Sound
<1>2. start \in 2..Len(h) + 1
  <2>1. CASE over = {}
    BY <2>1, <1>1
  <2>2. CASE over # {}
    <3>1. over \subseteq 1..Len(h)
      OBVIOUS
    <3> HIDE DEF over
    <3>2. Max(over) \in over
      BY <2>2, <3>1, <1>1, GreatestNumber
    <3>3. Max(over) \in 2..Len(h)
      BY <3>2 DEF over
    <3> QED BY <2>2, <3>3, <1>1
  <2> QED BY <2>1, <2>2
<1>3. TailStart(h) = IF start \in 3..Len(h) /\ h[start].answers # {} /\ h[start - 1].uses # {}
                     THEN start - 1 ELSE start
  BY DEF TailStart
<1> HIDE DEF start
<1>4. ASSUME start \in 3..Len(h), h[start].answers # {}, h[start - 1].uses # {}
      PROVE  h[start - 1].answers = {}
  BY <1>4, <1>1 DEF Sound
<1>5. ASSUME start \in 3..Len(h), h[start].answers # {} PROVE h[start - 1].uses # {}
  <2>1. start \in DOMAIN h /\ Paired(h)
    BY <1>5, <1>1 DEF Sound
  <2> QED BY <2>1, <1>5 DEF Paired
<1>6. CASE start \in 3..Len(h) /\ h[start].answers # {}
  <2>1. TailStart(h) = start - 1 /\ h[start - 1].answers = {}
    BY <1>3, <1>4, <1>5, <1>6
  <2> QED BY <2>1, <1>1, <1>6
<1>7. CASE ~(start \in 3..Len(h) /\ h[start].answers # {})
  <2>1. TailStart(h) = start
    BY <1>3, <1>7
  <2> QED BY <2>1, <1>2, <1>7
<1> QED BY <1>6, <1>7

\* _partition: the last messages, one fewer than the minimum, are in the tail.
LEMMA RecentInTail ==
  ASSUME NEW h, Sound(h), NEW i \in DOMAIN h, i > Len(h) + 1 - MinTail
  PROVE  i = 1 \/ i >= TailStart(h)
<1> DEFINE over == {k \in 2..Len(h) : Size(h, k) > TailBudget /\ Len(h) - k + 1 >= MinTail}
           start == IF over = {} THEN 2 ELSE Max(over) + 1
<1>1. Len(h) \in Nat \ {0} /\ DOMAIN h = 1..Len(h) /\ MinTail \in Nat
  BY LenProperties, EmptySeq, ToolLoopAssumption DEF Sound
<1>2. start = 2 \/ start \in 2..Len(h) + 2 - MinTail
  <2>1. CASE over # {}
    <3>1. over \subseteq 1..Len(h)
      OBVIOUS
    <3> HIDE DEF over
    <3>2. Max(over) \in over
      BY <2>1, <3>1, <1>1, GreatestNumber
    <3>3. Max(over) \in 2..Len(h) /\ Len(h) - Max(over) + 1 >= MinTail
      BY <3>2 DEF over
    <3> QED BY <2>1, <3>3, <1>1
  <2> QED BY <2>1
<1>3. TailStart(h) = start \/ TailStart(h) = start - 1
  BY Zenon DEF TailStart
<1> HIDE DEF start
<1> QED BY <1>1, <1>2, <1>3

----------------------------------------------------------------------------
(* What the compactor keeps.                                               *)

\* A history with its tool results digested is the same but for sizes.
LEMMA ShrunkKeeps ==
  ASSUME NEW h, NEW to \in {1, 2}, Whole(h)
  PROVE  /\ Whole(Shrunk(h, to)) /\ Shrunk(h, to)[1] = h[1] /\ Len(Shrunk(h, to)) = Len(h)
         /\ \A i \in DOMAIN h : /\ Shrunk(h, to)[i].stands = h[i].stands
                                /\ i >= TailStart(h) => Shrunk(h, to)[i] = h[i]
<1> DEFINE g == Shrunk(h, to)
<1>1. Len(h) \in Nat \ {0} /\ DOMAIN h = 1..Len(h) /\ \A i \in 1..Len(h) : h[i] \in Messages
  BY LenProperties, EmptySeq DEF Whole, Sound
<1>2. DOMAIN g = DOMAIN h
  BY DEF Shrunk
<1>3. ASSUME NEW i \in 1..Len(h)
      PROVE  /\ g[i] \in Messages /\ g[i].uses = h[i].uses
             /\ g[i].answers = h[i].answers /\ g[i].stands = h[i].stands
  <2>1. g[i] = h[i] \/ g[i] = [h[i] EXCEPT !.size = to]
    BY <1>1, <1>3 DEF Shrunk
  <2>2. h[i] \in Messages /\ to \in 1..Big
    BY <1>1, <1>3, ToolLoopAssumption
  <2> QED BY <2>1, <2>2 DEF Messages
<1>4. g \in Seq(Messages) /\ Len(g) = Len(h)
  <2>1. g \in [1..Len(h) -> Messages]
    <3>1. g = [i \in 1..Len(h) |-> g[i]]
      BY <1>1 DEF Shrunk
    <3> HIDE DEF g
    <3> QED BY <3>1, <1>3
  <2> HIDE DEF g
  <2> QED BY <2>1, <1>1
<1>5. g[1] = h[1]
  <2>1. 1 \in DOMAIN h /\ ~(1 > 1) /\ Paired(h)
    BY <1>1 DEF Whole, Sound
  <2>2. h[1].answers = {}
    BY <2>1 DEF Paired
  <2> QED BY <2>1, <2>2 DEF Shrunk
<1>8. \A i \in DOMAIN h : g[i].stands = h[i].stands /\ (i >= TailStart(h) => g[i] = h[i])
  <2> SUFFICES ASSUME NEW i \in 1..Len(h)
               PROVE  g[i].stands = h[i].stands /\ (i >= TailStart(h) => g[i] = h[i])
    BY <1>1
  <2>1. TailStart(h) \in Nat
    BY <1>1, TailBounds DEF Whole
  <2>2. i >= TailStart(h) => ~(i < TailStart(h))
    BY <2>1
  <2> QED BY <2>2, <1>1, <1>3 DEF Shrunk
<1> HIDE DEF g
<1>6. Paired(g)
  BY <1>1, <1>2, <1>3, <1>4 DEF Whole, Sound, Paired
<1>7. Whole(g)
  <2>1. g # <<>> /\ g[1].uses = {} /\ g[Len(g)].uses = {}
    BY <1>1, <1>3, <1>4, <1>5 DEF Whole, Sound
  <2>2. \A i \in DOMAIN g : g[i].uses = {} \/ g[i].answers = {}
    BY <1>1, <1>2, <1>3 DEF Whole, Sound
  <2> QED BY <2>1, <2>2, <1>4, <1>6 DEF Whole, Sound
<1> QED BY <1>4, <1>5, <1>7, <1>8 DEF g

\* compact: what was shown of the messages between the first one and the
\* tail, as one summary.
Folded(h, last) == Message({}, {}, 1, Told(SubSeq(h, 2, last)))
Fold(h, last) == <<h[1], Folded(h, last)>> \o SubSeq(h, TailStart(h), Len(h))

\* The summary tells of what was shown, and splits no call from its results.
LEMMA FoldKeeps ==
  ASSUME NEW h, Whole(h), TailStart(h) > 2, NEW last \in Shown(TailStart(h) - 1)
  PROVE  /\ Whole(Fold(h, last))
         /\ \A i \in DOMAIN h :
              /\ h[i].stands \subseteq Told(Fold(h, last)) \/ i \in Transcript + 2..TailStart(h) - 1
              /\ i = 1 \/ i >= TailStart(h) =>
                   \E j \in DOMAIN Fold(h, last) : Fold(h, last)[j] = h[i]
<1> DEFINE s == TailStart(h)
           middle == SubSeq(h, 2, last)
           tail == SubSeq(h, s, Len(h))
           r == Fold(h, last)
<1>1. Len(h) \in Nat \ {0} /\ DOMAIN h = 1..Len(h) /\ \A i \in 1..Len(h) : h[i] \in Messages
  BY LenProperties, EmptySeq DEF Whole, Sound
<1>2. s \in 3..Len(h) + 1 /\ (s <= Len(h) => h[s].answers = {})
  BY TailBounds, <1>1 DEF Whole
<1>17. /\ last \in 2..s - 1 /\ Transcript \in Nat
       /\ \A i \in 2..s - 1 : i <= last \/ i \in Transcript + 2..s - 1
  <2>1. last \in Shown(s - 1) /\ s \in Nat
    BY <1>1, <1>2
  <2> HIDE DEF s, middle, tail, r
  <2>2. last \in 2..s - 1 /\ (last > Transcript \/ last = s - 1)
    BY <2>1 DEF Shown
  <2>3. Transcript \in Nat
    BY ToolLoopAssumption
  <2> QED BY <2>1, <2>2, <2>3
<1> HIDE DEF s
<1>3. /\ middle \in Seq(Messages) /\ Len(middle) = last - 1
      /\ \A i \in 1..last - 1 : middle[i] = h[i + 1]
  BY <1>1, <1>2, <1>17, SubSeqProperties
<1>4. /\ tail \in Seq(Messages) /\ Len(tail) = Len(h) - s + 1
      /\ \A i \in 1..Len(h) - s + 1 : tail[i] = h[s + i - 1]
  BY <1>1, <1>2, SubSeqProperties
<1>5. Folded(h, last) = [uses |-> {}, answers |-> {}, size |-> 1, stands |-> Told(middle)]
  BY DEF Folded, Message, s
<1> HIDE DEF middle, tail
<1>6. DOMAIN middle = 1..last - 1
  BY <1>3, <1>17
<1>7. Told(middle) = UNION {h[i].stands : i \in 2..last}
  <2>1. ASSUME NEW x PROVE x \in Told(middle) <=> \E i \in 2..last : x \in h[i].stands
    <3>1. ASSUME NEW i \in 1..last - 1, x \in middle[i].stands
          PROVE  \E j \in 2..last : x \in h[j].stands
      <4>1. i + 1 \in 2..last /\ x \in h[i + 1].stands
        BY <3>1, <1>17, <1>3
      <4> QED BY <4>1
    <3>2. ASSUME NEW j \in 2..last, x \in h[j].stands
          PROVE  \E i \in 1..last - 1 : x \in middle[i].stands
      <4>1. j - 1 \in 1..last - 1 /\ middle[j - 1] = h[j]
        BY <1>17, <1>3
      <4> QED BY <4>1, <3>2
    <3>3. x \in Told(middle) <=> \E i \in 1..last - 1 : x \in middle[i].stands
      BY <1>6 DEF Told
    <3> QED BY <3>1, <3>2, <3>3
  <2> QED BY <2>1
<1>8. Folded(h, last) \in Messages
  <2>1. ASSUME NEW i \in 2..last PROVE h[i].stands \subseteq Label
    <3>1. h[i] \in Messages
      BY <1>1, <1>2, <1>17
    <3> QED BY <3>1 DEF Messages
  <2>2. Told(middle) \in SUBSET Label
    BY <2>1, <1>7
  <2>3. 1 \in 1..Big
    BY ToolLoopAssumption
  <2> QED BY <2>2, <2>3, <1>5 DEF Messages
<1>9. /\ r \in Seq(Messages) /\ Len(r) = Len(h) - s + 3
      /\ r[1] = h[1] /\ r[2] = Folded(h, last)
      /\ \A i \in 3..Len(r) : r[i] = h[i + s - 3]
  <2> DEFINE top == <<h[1], Folded(h, last)>>
  <2>1. top \in Seq(Messages) /\ Len(top) = 2 /\ top[1] = h[1] /\ top[2] = Folded(h, last)
    BY <1>1, <1>8
  <2>2. r = top \o tail
    BY DEF Fold, tail, s
  <2> HIDE DEF top, r
  <2>3. /\ r \in Seq(Messages) /\ Len(r) = 2 + Len(tail)
        /\ \A i \in 1..2 + Len(tail) : r[i] = IF i <= 2 THEN top[i] ELSE tail[i - 2]
    <3>1. /\ top \o tail \in Seq(Messages) /\ Len(top \o tail) = Len(top) + Len(tail)
          /\ \A i \in 1..Len(top) + Len(tail) :
               (top \o tail)[i] = IF i <= Len(top) THEN top[i] ELSE tail[i - Len(top)]
      BY <2>1, <1>4, ConcatProperties
    <3> QED BY <3>1, <2>1, <2>2
  <2>4. Len(r) = Len(h) - s + 3 /\ r[1] = h[1] /\ r[2] = Folded(h, last)
    BY <2>1, <2>3, <1>1, <1>2, <1>4
  <2>5. ASSUME NEW i \in 3..Len(r) PROVE r[i] = h[i + s - 3]
    <3>1. r[i] = tail[i - 2] /\ i - 2 \in 1..Len(h) - s + 1
      BY <2>3, <2>4, <1>1, <1>2, <1>4
    <3>2. tail[i - 2] = h[s + (i - 2) - 1]
      BY <3>1, <1>4
    <3>3. s + (i - 2) - 1 = i + s - 3
      BY <1>2
    <3> QED BY <3>1, <3>2, <3>3
  <2> QED BY <2>3, <2>4, <2>5
<1> HIDE DEF r
<1>10. DOMAIN r = 1..Len(r) /\ Len(r) \in Nat /\ Len(r) >= 2
  BY <1>9, <1>1, <1>2, LenProperties
<1>11. h[1].uses = {} /\ h[1].answers = {} /\ h[Len(h)].uses = {}
  <2>1. h[1].uses = {} /\ h[Len(h)].uses = {} /\ Paired(h)
    BY DEF Whole, Sound
  <2>2. 1 \in DOMAIN h /\ ~(1 > 1)
    BY <1>1
  <2>3. h[1].answers = {}
    BY <2>1, <2>2 DEF Paired
  <2> QED BY <2>1, <2>3
<1>12. r[1].uses = {} /\ r[1].answers = {} /\ r[2].uses = {} /\ r[2].answers = {}
  BY <1>5, <1>9, <1>11
<1>13. ASSUME NEW i \in 3..Len(r)
       PROVE  /\ r[i].uses # {} /\ i < Len(r) => r[i + 1].answers = r[i].uses
              /\ r[i].answers # {} => r[i - 1].uses = r[i].answers
              /\ r[i].uses = {} \/ r[i].answers = {}
  <2> DEFINE j == i + s - 3
  <2>1. r[i] = h[j] /\ j \in s..Len(h)
    BY <1>9, <1>1, <1>2
  <2>2. ASSUME r[i].uses # {}, i < Len(r) PROVE r[i + 1].answers = r[i].uses
    <3>1. r[i + 1] = h[j + 1] /\ j < Len(h)
      <4>1. i + 1 \in 3..Len(r) /\ (i + 1) + s - 3 = j + 1
        BY <2>2, <1>2, <1>10
      <4>2. r[i + 1] = h[j + 1]
        BY <4>1, <1>9
      <4>3. j < Len(h)
        BY <2>2, <1>1, <1>2, <1>9
      <4> QED BY <4>2, <4>3
    <3>2. j \in DOMAIN h /\ Paired(h)
      BY <2>1, <1>1, <1>2 DEF Whole, Sound
    <3>3. h[j + 1].answers = h[j].uses
      BY <3>1, <3>2, <2>1, <2>2 DEF Paired
    <3> QED BY <2>1, <3>1, <3>3
  <2>3. ASSUME r[i].answers # {} PROVE r[i - 1].uses = r[i].answers
    <3>1. j > s
      BY <2>1, <2>3, <1>1, <1>2
    <3>2. r[i - 1] = h[j - 1]
      <4>1. i - 1 \in 3..Len(r) /\ (i - 1) + s - 3 = j - 1
        BY <3>1, <1>2, <1>10
      <4> QED BY <4>1, <1>9
    <3>3. j \in DOMAIN h /\ Paired(h)
      BY <2>1, <1>1, <1>2 DEF Whole, Sound
    <3>4. h[j - 1].uses = h[j].answers
      BY <3>3, <2>1, <2>3 DEF Paired
    <3> QED BY <2>1, <3>2, <3>4
  <2>4. r[i].uses = {} \/ r[i].answers = {}
    BY <2>1, <1>1, <1>2 DEF Whole, Sound
  <2> QED BY <2>2, <2>3, <2>4
<1>14. Paired(r) /\ \A i \in DOMAIN r : r[i].uses = {} \/ r[i].answers = {}
  <2> SUFFICES ASSUME NEW i \in DOMAIN r
               PROVE  /\ r[i].uses # {} /\ i < Len(r) => r[i + 1].answers = r[i].uses
                      /\ r[i].answers # {} => i > 1 /\ r[i - 1].uses = r[i].answers
                      /\ r[i].uses = {} \/ r[i].answers = {}
    BY DEF Paired
  <2>1. i = 1 \/ i = 2 \/ i \in 3..Len(r)
    BY <1>10
  <2>2. CASE i \in 3..Len(r)
    <3>1. i > 1
      BY <2>2, <1>10
    <3> QED BY <3>1, <2>2, <1>13
  <2> QED BY <2>1, <2>2, <1>12
<1>15. r # <<>> /\ r[Len(r)].uses = {}
  <2>1. CASE Len(r) = 2
    BY <2>1, <1>12
  <2>2. CASE Len(r) > 2
    <3>1. r[Len(r)] = h[Len(r) + s - 3] /\ Len(r) + s - 3 = Len(h)
      <4>1. Len(r) \in 3..Len(r) /\ Len(r) + s - 3 = Len(h)
        BY <2>2, <1>1, <1>2, <1>9, <1>10
      <4> QED BY <4>1, <1>9
    <3> QED BY <3>1, <1>10, <1>11
  <2>3. r # <<>>
    BY <1>10
  <2> QED BY <2>1, <2>2, <2>3, <1>10
<1>16. ASSUME NEW i \in DOMAIN h
       PROVE  /\ h[i].stands \subseteq Told(r) \/ i \in Transcript + 2..s - 1
              /\ i = 1 \/ i >= s => \E j \in DOMAIN r : r[j] = h[i]
  <2>1. ASSUME NEW k \in 1..Len(r) PROVE r[k].stands \subseteq Told(r)
    BY <2>1, <1>10 DEF Told
  <2>2. CASE i = 1
    BY <2>1, <2>2, <1>2, <1>9, <1>10
  <2>3. CASE i \in 2..s - 1
    <3>1. i \in 2..last => h[i].stands \subseteq r[2].stands
      BY <1>5, <1>7, <1>9
    <3>2. r[2].stands \subseteq Told(r)
      BY <2>1, <1>10
    <3>3. i \in 2..last \/ i \in Transcript + 2..s - 1
      BY <2>3, <1>17
    <3> QED BY <2>3, <3>1, <3>2, <3>3, <1>2
  <2>4. CASE i \in s..Len(h)
    <3>1. i - s + 3 \in 3..Len(r) /\ (i - s + 3) + s - 3 = i
      BY <2>4, <1>1, <1>2, <1>9
    <3>2. r[i - s + 3] = h[i]
      BY <3>1, <1>9
    <3>3. i - s + 3 \in 1..Len(r)
      BY <3>1, <1>10
    <3> QED BY <2>1, <3>2, <3>3, <1>10
  <2>5. i \in 1..Len(h)
    BY <1>1
  <2> QED BY <2>2, <2>3, <2>4, <2>5, <1>1, <1>2
<1> QED BY <1>9, <1>12, <1>14, <1>15, <1>16 DEF Whole, Sound, r, s

\* Nothing is forgotten of a history that is left alone.
LEMMA RemembersItself ==
  ASSUME NEW h
  PROVE  Remembers(h, h)
<1>1. \A i \in DOMAIN h : h[i].stands \subseteq Told(h)
  BY DEF Told
<1> QED BY <1>1 DEF Remembers

\* Nor of one whose tool results are digested.
LEMMA ShrunkRemembers ==
  ASSUME NEW h, NEW to \in {1, 2}, Whole(h)
  PROVE  Remembers(h, Shrunk(h, to))
<1> DEFINE g == Shrunk(h, to)
<1>1. /\ DOMAIN g = DOMAIN h /\ g[1] = h[1] /\ Sound(h)
      /\ \A i \in DOMAIN h : g[i].stands = h[i].stands /\ (i >= TailStart(h) => g[i] = h[i])
  <2>1. DOMAIN g = DOMAIN h
    BY DEF Shrunk
  <2> QED BY <2>1, ShrunkKeeps DEF Whole
<1> HIDE DEF g
<1>2. ASSUME NEW i \in DOMAIN h PROVE h[i].stands \subseteq Told(g)
  BY <1>1, <1>2 DEF Told
<1>3. ASSUME NEW i \in DOMAIN h, i = 1 \/ i > Len(h) + 1 - MinTail PROVE g[i] = h[i]
  BY <1>1, <1>3, RecentInTail
<1>4. Remembers(h, g)
  BY <1>1, <1>2, <1>3 DEF Remembers
<1> QED BY <1>4 DEF g

\* Whatever the compactor and the early tier make of a history may be sent,
\* and what is forgotten is in the part of the middle that was not shown.
LEMMA PreflightKeeps ==
  ASSUME Whole(history), NEW g \in Preflight(history)
  PROVE  Whole(g) /\ Remembers(history, g)
<1> DEFINE pruned == Shrunk(history, 1)
<1>1. \A to \in {1, 2} : Whole(Shrunk(history, to)) /\ Remembers(history, Shrunk(history, to))
  BY ShrunkKeeps, ShrunkRemembers
<1>2. ASSUME NEW c \in Compacted(history) PROVE Whole(c) /\ Remembers(history, c)
  <2>1. \/ c \in {history, pruned}
        \/ ~(TailStart(pruned) <= 2) /\ \E last \in Shown(TailStart(pruned) - 1) : c = Fold(pruned, last)
    <3>1. pruned[1] = history[1] /\ Len(pruned) = Len(history)
      BY ShrunkKeeps
    <3> HIDE DEF pruned
    <3> QED BY <1>2, <3>1 DEF Compacted, Fold, Folded, pruned
  <2>2. /\ Whole(pruned) /\ DOMAIN pruned = DOMAIN history /\ Len(pruned) = Len(history)
        /\ pruned[1] = history[1]
        /\ \A i \in DOMAIN history :
             /\ pruned[i].stands = history[i].stands
             /\ i >= TailStart(history) => pruned[i] = history[i]
    <3>1. DOMAIN pruned = DOMAIN history
      BY DEF Shrunk
    <3> QED BY <3>1, ShrunkKeeps
  <2>5. Sound(history) /\ Sound(pruned)
    BY <2>2 DEF Whole
  <2>3. TailStart(pruned) \in Nat
    <3>1. Len(pruned) \in Nat
      BY <2>5 DEF Sound
    <3> QED BY <3>1, <2>5, TailBounds
  <2>4. ASSUME ~(TailStart(pruned) <= 2), NEW last \in Shown(TailStart(pruned) - 1),
               c = Fold(pruned, last)
        PROVE  Whole(c) /\ Remembers(history, c)
    <3>1. TailStart(pruned) > 2
      BY <2>3, <2>4
    <3> HIDE DEF pruned
    <3>2. /\ Whole(c)
          /\ \A i \in DOMAIN pruned :
               /\ pruned[i].stands \subseteq Told(c) \/ i \in Transcript + 2..TailStart(pruned) - 1
               /\ i = 1 \/ i >= TailStart(pruned) => \E j \in DOMAIN c : c[j] = pruned[i]
      BY <2>2, <2>4, <3>1, FoldKeeps
    <3>3. ASSUME NEW i \in DOMAIN history, i = 1 \/ i > Len(history) + 1 - MinTail
          PROVE  \E j \in DOMAIN c : c[j] = history[i]
      <4>1. i = 1 \/ i >= TailStart(history)
        BY <3>3, <2>5, RecentInTail
      <4>2. i = 1 \/ i >= TailStart(pruned)
        BY <3>3, <2>2, <2>5, RecentInTail
      <4> QED BY <4>1, <4>2, <3>2, <2>2
    <3>4. Remembers(history, c)
      BY <3>2, <3>3, <2>2 DEF Remembers, pruned
    <3> QED BY <3>2, <3>4
  <2>6. Remembers(history, history)
    BY RemembersItself
  <2> QED BY <2>1, <2>4, <2>6, <1>1
<1>3. g \in Compacted(history) \/ g \in {history, Shrunk(history, 2)}
  BY DEF Preflight
<1> QED BY <1>1, <1>2, <1>3, RemembersItself

\* A message may follow when it answers just what the last one left open.
LEMMA AppendKeeps ==
  ASSUME NEW h, Sound(h), NEW m \in Messages,
         m.answers = h[Len(h)].uses, m.uses = {} \/ m.answers = {}
  PROVE  LET g == Append(h, m) IN
           Sound(g) /\ g[Len(g)] = m /\ Remembers(h, g)
<1> DEFINE g == Append(h, m)
<1>1. Len(h) \in Nat \ {0} /\ DOMAIN h = 1..Len(h) /\ h \in Seq(Messages)
  BY LenProperties, EmptySeq DEF Sound
<1>2. /\ g \in Seq(Messages) /\ g # <<>> /\ Len(g) = Len(h) + 1
      /\ \A i \in 1..Len(h) : g[i] = h[i]
      /\ g[Len(h) + 1] = m
  BY <1>1, AppendProperties
<1>3. DOMAIN g = 1..Len(h) + 1
  BY <1>1, <1>2, LenProperties
<1> HIDE DEF g
<1>4. Paired(g)
  <2> SUFFICES ASSUME NEW i \in 1..Len(h) + 1
               PROVE  /\ g[i].uses # {} /\ i < Len(g) => g[i + 1].answers = g[i].uses
                      /\ g[i].answers # {} => i > 1 /\ g[i - 1].uses = g[i].answers
    BY <1>3 DEF Paired
  <2>1. CASE i < Len(h)
    <3>1. g[i] = h[i] /\ g[i + 1] = h[i + 1] /\ (i > 1 => g[i - 1] = h[i - 1])
      BY <2>1, <1>1, <1>2
    <3>2. Paired(h) /\ i \in DOMAIN h
      BY <2>1, <1>1 DEF Sound
    <3> QED BY <2>1, <3>1, <3>2 DEF Paired
  <2>2. CASE i = Len(h)
    <3>1. g[i] = h[i] /\ g[i + 1] = m /\ (i > 1 => g[i - 1] = h[i - 1])
      BY <2>2, <1>1, <1>2
    <3>2. Paired(h) /\ i \in DOMAIN h
      BY <2>2, <1>1 DEF Sound
    <3> QED BY <2>2, <3>1, <3>2 DEF Paired
  <2>3. CASE i = Len(h) + 1
    <3>1. g[i] = m /\ g[i - 1] = h[Len(h)] /\ i > 1 /\ ~(i < Len(g))
      BY <2>3, <1>1, <1>2
    <3> QED BY <3>1
  <2>4. i < Len(h) \/ i = Len(h) \/ i = Len(h) + 1
    <3>1. Len(h) \in Nat
      BY <1>1
    <3> HIDE <1>1
    <3> QED BY <3>1
  <2> QED BY <2>1, <2>2, <2>3, <2>4
<1>5. g[1].uses = {}
  BY <1>1, <1>2 DEF Sound
<1>6. \A i \in DOMAIN g : g[i].uses = {} \/ g[i].answers = {}
  <2>1. \A i \in 1..Len(h) : g[i].uses = {} \/ g[i].answers = {}
    BY <1>1, <1>2 DEF Sound
  <2> QED BY <2>1, <1>1, <1>2, <1>3
<1>7. Remembers(h, g)
  <2>1. \A i \in DOMAIN h : i \in DOMAIN g /\ g[i] = h[i]
    BY <1>1, <1>2, <1>3
  <2>2. \A i \in DOMAIN h : h[i].stands \subseteq Told(g)
    BY <2>1 DEF Told
  <2> QED BY <2>1, <2>2 DEF Remembers
<1>8. g[Len(g)] = m
  BY <1>2
<1> QED BY <1>2, <1>4, <1>5, <1>6, <1>7, <1>8 DEF Sound, g

\* The ids of the blocks are the first one's and those of the rest.
LEMMA BlockIds ==
  ASSUME NEW S, NEW b \in Seq(S), b # <<>>
  PROVE  /\ {b[k].id : k \in DOMAIN b} = {Head(b).id} \cup {Tail(b)[k].id : k \in DOMAIN Tail(b)}
         /\ Tail(b) \in Seq(S) /\ Head(b) \in S /\ Len(Tail(b)) = Len(b) - 1 /\ Len(b) \in Nat
<1>1. /\ Tail(b) \in Seq(S) /\ Head(b) = b[1] /\ Head(b) \in S /\ Len(Tail(b)) = Len(b) - 1
      /\ \A i \in 1..Len(Tail(b)) : Tail(b)[i] = b[i + 1]
  BY HeadTailProperties
<1>2. Len(b) \in Nat \ {0} /\ DOMAIN b = 1..Len(b) /\ DOMAIN Tail(b) = 1..Len(b) - 1
  BY <1>1, LenProperties, EmptySeq
<1>3. ASSUME NEW x, x \in {b[k].id : k \in 1..Len(b)}
      PROVE  x \in {b[1].id} \cup {Tail(b)[k].id : k \in 1..Len(b) - 1}
  <2>1. PICK k \in 1..Len(b) : x = b[k].id
    BY <1>3
  <2>2. CASE k = 1
    BY <2>1, <2>2
  <2>3. CASE k # 1
    <3>1. k - 1 \in 1..Len(b) - 1 /\ Tail(b)[k - 1] = b[k]
      BY <2>3, <1>1, <1>2
    <3> QED BY <2>1, <3>1
  <2> QED BY <2>2, <2>3
<1>4. ASSUME NEW x, x \in {b[1].id} \cup {Tail(b)[k].id : k \in 1..Len(b) - 1}
      PROVE  x \in {b[k].id : k \in 1..Len(b)}
  <2>1. CASE x = b[1].id
    BY <2>1, <1>2
  <2>2. ASSUME NEW k \in 1..Len(b) - 1, x = Tail(b)[k].id PROVE x \in {b[j].id : j \in 1..Len(b)}
    <3>1. k + 1 \in 1..Len(b) /\ Tail(b)[k] = b[k + 1]
      BY <1>1, <1>2
    <3> QED BY <2>2, <3>1
  <2> QED BY <1>4, <2>1, <2>2
<1>5. {b[k].id : k \in 1..Len(b)} = {b[1].id} \cup {Tail(b)[k].id : k \in 1..Len(b) - 1}
  BY <1>3, <1>4, Zenon
<1> QED BY <1>1, <1>2, <1>5

----------------------------------------------------------------------------
(* The steps.                                                              *)

\* What EveryStepCounts adds up: the iterations left, and the step of one.
Left(n) == (MaxIterations - n) * (MaxBlocks + 4)

\* What every step keeps, and makes progress in.
Advances ==
  ToolInv' /\ Remembers(history, history') /\ Rank' < Rank

\* The iterations left weigh more than anything that happens in one.
LEMMA LeftCounts ==
  ASSUME NEW n \in 0..MaxIterations
  PROVE  Left(n) \in Int /\ Left(n + 1) = Left(n) - (MaxBlocks + 4)
<1>1. MaxIterations \in Nat /\ MaxBlocks \in Nat
  BY ToolLoopAssumption
<1>2. \A a, k \in Int : a * k \in Int /\ (a - 1) * k = a * k - k
  OBVIOUS
<1>3. /\ MaxIterations - n \in Int /\ MaxBlocks + 4 \in Int
      /\ MaxIterations - (n + 1) = (MaxIterations - n) - 1
  BY <1>1
<1> QED BY <1>2, <1>3 DEF Left

\* Every way out, of every backend.
Outs == {"end_turn", "max_tool_calls", "max_iterations", "error", "raised", "cancelled"}

\* The second try of a CLI that came up without its tools.
Again ==
  /\ pc = "request" /\ pc' = "start"
  /\ UNCHANGED <<backend, turn, guard, files, outcome>>

\* A step of a turn is one of these.
LEMMA StepOf ==
  ASSUME Next
  PROVE  \/ Start \/ Paused \/ Again
         \/ Asks /\ backend \in Native \cup {"claude_xml"}
         \/ TooMany \/ Stopped \/ Execute \/ Fed
         \/ \E how \in Outs : pc # "done" /\ End(how)
         \/ UNCHANGED vars
<1>1. ASSUME Ask, backend \in Native \cup {"claude_xml"}
      PROVE  \/ Start
             \/ Asks /\ backend \in Native \cup {"claude_xml"}
             \/ \E how \in Outs : pc # "done" /\ End(how)
  <2>1. Exhausted => pc # "done" /\ End("max_iterations")
    BY DEF Exhausted
  <2>2. Finished => pc # "done" /\ End("end_turn")
    BY DEF Finished
  <2> QED BY <1>1, <2>1, <2>2, Zenon DEF Ask, Outs
<1>2. ASSUME Act
      PROVE  TooMany \/ Stopped \/ Execute \/ Fed \/ \E how \in Outs : pc # "done" /\ End(how)
  <2>1. Final => pc # "done" /\ End("max_tool_calls")
    BY DEF Final
  <2> QED BY <1>2, <2>1, Zenon DEF Act, Outs
<1>3. RequestFails \/ FinalFails => pc # "done" /\ End("raised")
  BY DEF RequestFails, FinalFails
<1>4. NoChoice \/ OverBudget => pc # "done" /\ End("max_iterations")
  BY DEF NoChoice, OverBudget
<1>5. Aborted => pc # "done" /\ End("error")
  BY DEF Aborted
<1>6. Finished => pc # "done" /\ End("end_turn")
  BY DEF Finished
<1>7. Toolless => Again \/ (pc # "done" /\ End("raised"))
  BY DEF Toolless, Again
<1>8. Cancel => pc # "done" /\ End("cancelled")
  BY DEF Cancel
<1>9. Over => UNCHANGED vars
  BY DEF Over
<1>10. CASE Anthropic
  BY <1>10, <1>1, <1>2, <1>3, Zenon DEF Anthropic, Native, Outs
<1>11. CASE OpenAIAsk \/ OpenAIAct
  BY <1>11, <1>1, <1>2, <1>3, <1>4, Zenon DEF OpenAIAsk, OpenAIAct, Native, Outs
<1>12. CASE XMLAsk \/ XMLAct
  BY <1>12, <1>1, <1>2, <1>3, <1>4, <1>5, Zenon DEF XMLAsk, XMLAct, Outs
<1>13. CASE ClaudeMCP \/ Codex
  BY <1>13, <1>3, <1>6, <1>7, Zenon DEF ClaudeMCP, Codex, Outs
<1> QED BY <1>8, <1>9, <1>10, <1>11, <1>12, <1>13, Zenon DEF Next, Outs

\* A turn that is left changes nothing but that it is over.
LEMMA EndAdvances ==
  ASSUME ToolInv, NEW how \in Outs, pc # "done", End(how)
  PROVE  Advances
<1>1. /\ pc' = "done" /\ outcome' = how
      /\ files' = (files /\ backend = "claude_xml" /\ how \in {"raised", "cancelled"})
      /\ UNCHANGED <<backend, history, iteration, blocks, answered, calls, failures, progress>>
  BY DEF End, Return, turn, guard
<1>2. TypeOK'
  BY <1>1 DEF ToolInv, TypeOK, Outs
<1>3. HistoryKept'
  BY <1>1 DEF HistoryKept
<1>4. TurnKept' /\ FilesFreed'
  BY <1>1, Zenon DEF ToolInv, TurnKept, FilesFreed, Native
<1>5. Rank' < Rank
  <2>1. Rank' = Left(iteration) + -1
    BY <1>1 DEF Rank, Left
  <2>2. Len(blocks) \in Nat /\ MaxBlocks \in Nat /\ Left(iteration) \in Int
    BY ToolLoopAssumption, LeftCounts, LenProperties DEF ToolInv, TypeOK
  <2>3. \/ Rank = Left(iteration) + (MaxBlocks + 3) \/ Rank = Left(iteration) + (Len(blocks) + 2)
        \/ Rank = Left(iteration) + 1 \/ Rank = Left(iteration) + 0
    BY DEF Rank, Left, ToolInv, TypeOK
  <2> QED BY <2>1, <2>2, <2>3
<1>6. Remembers(history, history')
  BY <1>1, RemembersItself
<1> QED BY <1>2, <1>3, <1>4, <1>5, <1>6 DEF Advances, ToolInv

\* A request is made of what the compactor has left.
LEMMA StartAdvances ==
  ASSUME ToolInv, Start
  PROVE  Advances
<1>1. /\ pc = "start" /\ iteration < MaxIterations /\ iteration' = iteration + 1 /\ pc' = "request"
      /\ history' \in Preflight(history)
      /\ UNCHANGED <<backend, blocks, answered, calls, failures, progress, files, outcome>>
  BY DEF Start, guard
<1>2. Whole(history) /\ answered = {}
  BY <1>1 DEF ToolInv, HistoryKept
<1>3. Whole(history') /\ Remembers(history, history')
  BY <1>1, <1>2, PreflightKeeps
<1>4. iteration \in 0..MaxIterations /\ iteration' \in 1..MaxIterations /\ MaxBlocks \in Nat
  BY <1>1, ToolLoopAssumption DEF ToolInv, TypeOK
<1>5. TypeOK'
  <2>1. history' \in Seq(Messages)
    BY <1>3 DEF Whole, Sound
  <2> QED BY <2>1, <1>1, <1>4 DEF ToolInv, TypeOK, Messages
<1>6. HistoryKept'
  BY <1>1, <1>2, <1>3 DEF HistoryKept
<1>7. TurnKept' /\ FilesFreed'
  <2>1. iteration' > 0
    BY <1>4
  <2>2. Ends' = Ends
    BY <1>1 DEF Ends
  <2> QED BY <2>1, <2>2, <1>1 DEF ToolInv, TurnKept, FilesFreed
<1>8. Rank' < Rank
  <2>1. Rank = Left(iteration) + 0 /\ Rank' = Left(iteration + 1) + (MaxBlocks + 3)
    BY <1>1 DEF Rank, Left
  <2> QED BY <2>1, <1>4, LeftCounts
<1> QED BY <1>3, <1>5, <1>6, <1>7, <1>8 DEF Advances, ToolInv

\* A pause goes round again, and counts.
LEMMA PausedAdvances ==
  ASSUME ToolInv, Paused
  PROVE  Advances
<1> DEFINE m == Message({}, {}, 1, {2 * iteration})
<1>1. /\ pc = "request" /\ pc' = "start" /\ history' = Append(history, m)
      /\ UNCHANGED <<backend, iteration, blocks, answered, calls, failures, progress,
                     files, outcome>>
  BY DEF Paused, guard
<1>2. Whole(history) /\ answered = {}
  BY <1>1 DEF ToolInv, HistoryKept
<1>3. iteration \in 0..MaxIterations /\ MaxBlocks \in Nat /\ MaxIterations \in Nat
  BY ToolLoopAssumption DEF ToolInv, TypeOK
<1>4. m \in Messages /\ m.uses = {} /\ m.answers = {}
  <2>1. {2 * iteration} \in SUBSET Label
    BY <1>3 DEF Label
  <2>2. 1 \in 1..Big
    BY ToolLoopAssumption
  <2> QED BY <2>1, <2>2 DEF Messages, Message
<1> HIDE DEF m
<1>5. Whole(history') /\ Remembers(history, history')
  BY <1>1, <1>2, <1>4, AppendKeeps DEF Whole
<1>6. TypeOK'
  <2>1. history' \in Seq(Messages)
    BY <1>5 DEF Whole, Sound
  <2> QED BY <2>1, <1>1 DEF ToolInv, TypeOK, Messages
<1>7. HistoryKept'
  BY <1>1, <1>2, <1>5 DEF HistoryKept
<1>8. TurnKept' /\ FilesFreed'
  <2>1. Ends' = Ends
    BY <1>1 DEF Ends
  <2> QED BY <2>1, <1>1 DEF ToolInv, TurnKept, FilesFreed
<1>9. Rank' < Rank
  <2>1. Rank = Left(iteration) + (MaxBlocks + 3) /\ Rank' = Left(iteration) + 0
    BY <1>1 DEF Rank, Left
  <2> QED BY <2>1, <1>3, LeftCounts
<1> QED BY <1>5, <1>6, <1>7, <1>8, <1>9 DEF Advances, ToolInv

\* So does a second try.
LEMMA AgainAdvances ==
  ASSUME ToolInv, Again
  PROVE  Advances
<1>1. /\ pc = "request" /\ pc' = "start"
      /\ UNCHANGED <<backend, history, iteration, blocks, answered, calls, failures, progress,
                     files, outcome>>
  BY DEF Again, turn, guard
<1>2. TypeOK'
  BY <1>1 DEF ToolInv, TypeOK
<1>3. HistoryKept'
  BY <1>1 DEF ToolInv, HistoryKept
<1>4. TurnKept' /\ FilesFreed'
  <2>1. Ends' = Ends
    BY <1>1 DEF Ends
  <2> QED BY <2>1, <1>1 DEF ToolInv, TurnKept, FilesFreed
<1>5. Rank' < Rank
  <2>1. Rank = Left(iteration) + (MaxBlocks + 3) /\ Rank' = Left(iteration) + 0
    BY <1>1 DEF Rank, Left
  <2>2. iteration \in 0..MaxIterations /\ MaxBlocks \in Nat
    BY ToolLoopAssumption DEF ToolInv, TypeOK
  <2> QED BY <2>1, <2>2, LeftCounts
<1>6. Remembers(history, history')
  BY <1>1, RemembersItself
<1> QED BY <1>2, <1>3, <1>4, <1>5, <1>6 DEF Advances, ToolInv

\* What the model asks for is open until it is answered.
LEMMA AsksAdvances ==
  ASSUME ToolInv, Asks, backend \in Native \cup {"claude_xml"}
  PROVE  Advances
<1> DEFINE m == Message({<<iteration, k>> : k \in DOMAIN blocks'}, {}, 1, {2 * iteration})
<1>1. /\ pc = "request" /\ pc' = "tools" /\ history' = Append(history, m)
      /\ UNCHANGED <<backend, iteration, answered, calls, failures, progress, files, outcome>>
  BY DEF Asks, guard
<1>2. PICK n \in 1..MaxBlocks : \E wanted \in [1..n -> Sigs] :
        blocks' = [k \in 1..n |-> [id |-> <<iteration, k>>, sig |-> wanted[k]]]
  BY DEF Asks
<1>14. PICK wanted \in [1..n -> Sigs] :
      blocks' = [k \in 1..n |-> [id |-> <<iteration, k>>, sig |-> wanted[k]]]
  BY <1>2
<1>3. Whole(history) /\ answered = {} /\ iteration > 0
  BY <1>1 DEF ToolInv, HistoryKept, TurnKept
<1>4. iteration \in 1..MaxIterations /\ MaxBlocks \in Nat /\ MaxIterations \in Nat /\ n \in Nat
  BY <1>3, ToolLoopAssumption DEF ToolInv, TypeOK
<1>5. DOMAIN blocks' = 1..n /\ {<<iteration, k>> : k \in 1..n} \subseteq Ids
  BY <1>14, <1>4 DEF Ids
<1>6. blocks' \in Seq([id : Ids, sig : Sigs]) /\ Len(blocks') = n
  <2>1. \A k \in 1..n : [id |-> <<iteration, k>>, sig |-> wanted[k]] \in [id : Ids, sig : Sigs]
    BY <1>5
  <2>2. blocks' \in [1..n -> [id : Ids, sig : Sigs]]
    BY <1>14, <2>1
  <2>3. blocks' \in Seq([id : Ids, sig : Sigs])
    <3>1. \A S : \A f \in [1..n -> S] : f \in Seq(S)
      BY <1>4, SeqDef
    <3> QED BY <3>1, <2>2, Zenon
  <2>4. Len(blocks') \in Nat /\ 1..n = 1..Len(blocks')
    BY <2>3, <1>5, LenProperties
  <2> QED BY <2>3, <2>4, <1>4
<1>7. {blocks'[k].id : k \in DOMAIN blocks'} = {<<iteration, k>> : k \in 1..n}
  BY <1>14, <1>5
<1>8. m \in Messages /\ m.uses = {<<iteration, k>> : k \in 1..n} /\ m.answers = {}
  <2>1. {2 * iteration} \in SUBSET Label
    BY <1>4 DEF Label
  <2>2. 1 \in 1..Big
    BY ToolLoopAssumption
  <2> QED BY <2>1, <2>2, <1>5 DEF Messages, Message
<1> HIDE DEF m
<1>9. /\ Sound(history') /\ history'[Len(history')].uses = {<<iteration, k>> : k \in 1..n}
      /\ Remembers(history, history')
  <2>1. Sound(history) /\ m.answers = history[Len(history)].uses
    BY <1>3, <1>8 DEF Whole
  <2>2. LET g == Append(history, m) IN
          Sound(g) /\ g[Len(g)] = m /\ Remembers(history, g)
    BY <2>1, <1>8, AppendKeeps
  <2> QED BY <2>2, <1>1, <1>8
<1>10. TypeOK'
  <2>1. history' \in Seq(Messages)
    BY <1>9 DEF Sound
  <2> QED BY <2>1, <1>1, <1>6 DEF ToolInv, TypeOK, Messages
<1>11. HistoryKept'
  BY <1>1, <1>3, <1>7, <1>9 DEF HistoryKept
<1>12. TurnKept' /\ FilesFreed'
  BY <1>1 DEF ToolInv, TurnKept, FilesFreed
<1>13. Rank' < Rank
  <2>1. Rank = Left(iteration) + (MaxBlocks + 3) /\ Rank' = Left(iteration) + (Len(blocks') + 2)
    BY <1>1 DEF Rank, Left
  <2>2. Left(iteration) \in Int
    BY <1>4, LeftCounts
  <2> QED BY <2>1, <2>2, <1>4, <1>6, <1>2
<1> QED BY <1>9, <1>10, <1>11, <1>12, <1>13 DEF Advances, ToolInv

\* A block that is answered, executed or not, leaves the others open.
LEMMA AnswerAdvances ==
  ASSUME ToolInv, pc = "tools", blocks # <<>>, Answer,
         UNCHANGED <<backend, pc, history, iteration, files, outcome>>,
         calls' \in Seq([sig : Sigs, result : Returns \cup {"failed", "blocked"}]),
         failures' \in [Recorded -> Nat],
         progress' \in [Recorded -> [last : Returns \cup {"nothing"}, times : Nat]]
  PROVE  Advances
<1>1. TypeOK
  BY DEF ToolInv
<1>2. blocks \in Seq([id : Ids, sig : Sigs])
  BY <1>1 DEF TypeOK
<1>3. /\ {blocks[k].id : k \in DOMAIN blocks}
           = {Head(blocks).id} \cup {Tail(blocks)[k].id : k \in DOMAIN Tail(blocks)}
      /\ Tail(blocks) \in Seq([id : Ids, sig : Sigs]) /\ Head(blocks) \in [id : Ids, sig : Sigs]
      /\ Len(Tail(blocks)) = Len(blocks) - 1 /\ Len(blocks) \in Nat
  BY <1>2, BlockIds
<1>4. blocks' = Tail(blocks) /\ answered' = answered \cup {Head(blocks).id}
  BY DEF Answer, Block
<1>5. TypeOK'
  <2>1. blocks' \in Seq([id : Ids, sig : Sigs]) /\ answered' \subseteq Ids
    BY <1>1, <1>3, <1>4 DEF TypeOK
  <2> QED BY <1>1, <2>1 DEF TypeOK
<1>6. HistoryKept'
  <2>1. /\ Sound(history)
        /\ history[Len(history)].uses = answered \cup {blocks[k].id : k \in DOMAIN blocks}
    BY DEF ToolInv, HistoryKept
  <2>2. answered \cup {blocks[k].id : k \in DOMAIN blocks}
          = answered' \cup {blocks'[k].id : k \in DOMAIN blocks'}
    BY <1>3, <1>4
  <2> QED BY <2>1, <2>2 DEF HistoryKept
<1>7. TurnKept' /\ FilesFreed'
  BY DEF ToolInv, TurnKept, FilesFreed
<1>8. Rank' < Rank
  <2>1. Rank = Left(iteration) + (Len(blocks) + 2) /\ Rank' = Left(iteration) + (Len(blocks') + 2)
    BY DEF Rank, Left
  <2>2. Left(iteration) \in Int
    BY <1>1, LeftCounts DEF TypeOK
  <2> QED BY <2>1, <2>2, <1>3, <1>4
<1>9. Remembers(history, history')
  BY RemembersItself
<1> QED BY <1>5, <1>6, <1>7, <1>8, <1>9 DEF Advances, ToolInv

\* The limit and the guardrail answer without a call.
LEMMA TooManyAdvances ==
  ASSUME ToolInv, TooMany \/ Stopped
  PROVE  Advances
<1>1. TypeOK
  BY DEF ToolInv
<1>2. CASE TooMany
  <2>1. /\ pc = "tools" /\ blocks # <<>> /\ Answer
        /\ UNCHANGED <<backend, pc, history, iteration, calls, failures, progress, files, outcome>>
    BY <1>2 DEF TooMany, guard
  <2>2. /\ calls' \in Seq([sig : Sigs, result : Returns \cup {"failed", "blocked"}])
        /\ failures' \in [Recorded -> Nat]
        /\ progress' \in [Recorded -> [last : Returns \cup {"nothing"}, times : Nat]]
    BY <2>1, <1>1 DEF TypeOK
  <2> QED BY <2>1, <2>2, AnswerAdvances
<1>3. CASE Stopped
  <2>1. /\ pc = "tools" /\ blocks # <<>> /\ Answer
        /\ calls' = Append(calls, [sig |-> Head(blocks).sig, result |-> "blocked"])
        /\ UNCHANGED <<backend, pc, history, iteration, failures, progress, files, outcome>>
    BY <1>3 DEF Stopped, Record, Block, guard
  <2>2. calls' \in Seq([sig : Sigs, result : Returns \cup {"failed", "blocked"}])
    <3>1. Head(blocks) \in [id : Ids, sig : Sigs]
      BY <1>1, <2>1, BlockIds DEF TypeOK
    <3> QED BY <3>1, <1>1, <2>1, AppendProperties DEF TypeOK
  <2>3. /\ failures' \in [Recorded -> Nat]
        /\ progress' \in [Recorded -> [last : Returns \cup {"nothing"}, times : Nat]]
    BY <2>1, <1>1 DEF TypeOK
  <2> QED BY <2>1, <2>2, <2>3, AnswerAdvances
<1> QED BY <1>2, <1>3

\* A call comes to what a call may return, or fails.
LEMMA Returned ==
  ASSUME NEW s, NEW r \in Outcomes(s, IF Steady(s) THEN Results ELSE {})
  PROVE  r \in Returns \cup {"failed"}
<1>1. r \in Fails \cup Results \cup Verdicts(s)
  BY Zenon DEF Outcomes
<1> QED BY <1>1 DEF Fails, Verdicts, Returns

\* So does a call that is executed, and recorded as it was filled in.
LEMMA ExecuteAdvances ==
  ASSUME ToolInv, Execute
  PROVE  Advances
<1> DEFINE s == Head(blocks).sig
<1>1. TypeOK
  BY DEF ToolInv
<1>2. /\ pc = "tools" /\ blocks # <<>> /\ Answer
      /\ UNCHANGED <<backend, pc, history, iteration, files, outcome>>
  BY DEF Execute
<1>3. PICK r \in Outcomes(s, IF Steady(s) THEN Results ELSE {}) :
        calls' = Append(calls, [sig |-> s, result |-> r]) /\ AfterCall(Filled(s), r)
  BY DEF Execute, Record, Block
<1>4. s \in Sigs
  <2>1. Head(blocks) \in [id : Ids, sig : Sigs]
    BY <1>1, <1>2, BlockIds DEF TypeOK
  <2> QED BY <2>1
<1> HIDE DEF s
<1>5. Filled(s) \in Recorded
  BY <1>4 DEF Recorded
<1>6. r \in Returns \cup {"failed"}
  BY <1>3, Returned
<1>7. calls' \in Seq([sig : Sigs, result : Returns \cup {"failed", "blocked"}])
  BY <1>1, <1>3, <1>4, <1>6, AppendProperties DEF TypeOK
<1>8. failures' \in [Recorded -> Nat]
  BY <1>1, <1>3, <1>5 DEF AfterCall, TypeOK
<1>9. progress' \in [Recorded -> [last : Returns \cup {"nothing"}, times : Nat]]
  <2> DEFINE p == progress[Filled(s)]
  <2>1. p \in [last : Returns \cup {"nothing"}, times : Nat]
    BY <1>1, <1>5 DEF TypeOK
  <2>2. r \in Fails \/ r \in Returns
    BY <1>6 DEF Fails
  <2>3. [last |-> "nothing", times |-> 0] \in [last : Returns \cup {"nothing"}, times : Nat]
    OBVIOUS
  <2>4. ASSUME r \in Returns, NEW t \in Nat
        PROVE  [last |-> r, times |-> t] \in [last : Returns \cup {"nothing"}, times : Nat]
    BY <2>4
  <2>5. (IF p.last = r THEN p.times + 1 ELSE 1) \in Nat
    BY <2>1
  <2>6. progress' = [progress EXCEPT ![Filled(s)] =
          IF r \in Fails \/ ~Steady(Filled(s)) THEN [last |-> "nothing", times |-> 0]
          ELSE [last |-> r, times |-> IF p.last = r THEN p.times + 1 ELSE 1]]
    BY <1>3 DEF AfterCall
  <2> HIDE DEF p
  <2>7. CASE r \in Fails \/ ~Steady(Filled(s))
    <3>1. progress' = [progress EXCEPT ![Filled(s)] = [last |-> "nothing", times |-> 0]]
      BY <2>6, <2>7
    <3> QED BY <3>1, <2>3, <1>1 DEF TypeOK
  <2>8. CASE ~(r \in Fails \/ ~Steady(Filled(s)))
    <3> DEFINE t == IF p.last = r THEN p.times + 1 ELSE 1
    <3>1. progress' = [progress EXCEPT ![Filled(s)] = [last |-> r, times |-> t]]
      BY <2>6, <2>8
    <3>2. [last |-> r, times |-> t] \in [last : Returns \cup {"nothing"}, times : Nat]
      BY <2>2, <2>4, <2>5, <2>8
    <3> HIDE DEF t
    <3> QED BY <3>1, <3>2, <1>1 DEF TypeOK
  <2> QED BY <2>7, <2>8
<1> QED BY <1>2, <1>7, <1>8, <1>9, AnswerAdvances

\* The results close what was open; on a finisher the turn is over.
LEMMA FedAdvances ==
  ASSUME ToolInv, Fed
  PROVE  Advances
<1>1. /\ pc = "tools" /\ blocks = <<>> /\ answered' = {}
      /\ UNCHANGED <<backend, iteration, blocks, calls, failures, progress, files>>
      /\ IF Ends /\ backend \in Native THEN pc' = "done" /\ outcome' = "terminal_tool"
         ELSE pc' \in {"start", "final"} /\ outcome' = outcome
  BY DEF Fed, Return, guard
<1>2. PICK size \in {1, Big} :
        history' = Append(history, Message({}, answered, size, {2 * iteration + 1}))
  BY DEF Fed
<1> DEFINE m == Message({}, answered, size, {2 * iteration + 1})
<1>3. Sound(history) /\ history[Len(history)].uses = answered
  <2>1. {blocks[k].id : k \in DOMAIN blocks} = {}
    BY <1>1
  <2> QED BY <2>1, <1>1 DEF ToolInv, HistoryKept
<1>4. /\ iteration \in 0..MaxIterations /\ answered \in SUBSET Ids
      /\ MaxBlocks \in Nat /\ MaxIterations \in Nat
  BY ToolLoopAssumption DEF ToolInv, TypeOK
<1>5. m \in Messages /\ m.uses = {} /\ m.answers = answered
  <2>1. {2 * iteration + 1} \in SUBSET Label
    BY <1>4 DEF Label
  <2>2. size \in 1..Big
    BY ToolLoopAssumption
  <2> QED BY <2>1, <2>2, <1>4 DEF Messages, Message
<1>6. history' = Append(history, m)
  BY <1>2
<1> HIDE DEF m
<1>7. Whole(history') /\ Remembers(history, history')
  BY <1>3, <1>5, <1>6, AppendKeeps DEF Whole
<1>8. TypeOK'
  <2>1. history' \in Seq(Messages)
    BY <1>7 DEF Whole, Sound
  <2> QED BY <2>1, <1>1 DEF ToolInv, TypeOK, Messages
<1>9. HistoryKept'
  BY <1>1, <1>7 DEF HistoryKept
<1>10. TurnKept' /\ FilesFreed'
  <2>1. Ends' = Ends
    BY <1>1 DEF Ends
  <2>2. backend \in Native \cup {"claude_xml"} /\ (backend \in Native => ~files)
    BY <1>1 DEF ToolInv, TurnKept
  <2>3. pc' = "done" => backend \in Native
    BY <1>1
  <2> QED BY <2>1, <2>2, <2>3, <1>1 DEF TurnKept, FilesFreed
<1>11. Rank' < Rank
  <2>1. Rank = Left(iteration) + (Len(blocks) + 2) /\ Len(blocks) = 0
    BY <1>1 DEF Rank, Left
  <2>2. Rank' = Left(iteration) + -1 \/ Rank' = Left(iteration) + 1 \/ Rank' = Left(iteration) + 0
    BY <1>1 DEF Rank, Left
  <2>3. Left(iteration) \in Int
    BY <1>4, LeftCounts
  <2> QED BY <2>1, <2>2, <2>3
<1> QED BY <1>7, <1>8, <1>9, <1>10, <1>11 DEF Advances, ToolInv

----------------------------------------------------------------------------

\* A turn begins with one message, and an API turn with no file.
LEMMA InitHolds ==
  ASSUME Init
  PROVE  ToolInv
<1> DEFINE m == Message({}, {}, 1, {0})
<1>1. history = <<m>> /\ pc = "start" /\ iteration = 0 /\ answered = {} /\ calls = <<>>
  BY DEF Init
<1>2. m \in Messages /\ m.uses = {} /\ m.answers = {}
  <2>1. {0} \in SUBSET Label /\ 1 \in 1..Big
    BY ToolLoopAssumption DEF Label
  <2> QED BY <2>1 DEF Messages, Message
<1> HIDE DEF m
<1>3. history \in Seq(Messages) /\ Len(history) = 1 /\ history[1] = m /\ DOMAIN history = 1..1
  BY <1>1, <1>2
<1>4. Whole(history)
  BY <1>2, <1>3 DEF Whole, Sound, Paired
<1>5. TypeOK
  <2>1. 0 \in 0..MaxIterations
    BY ToolLoopAssumption
  <2> QED BY <2>1, <1>3 DEF Init, TypeOK, Messages
<1>6. HistoryKept
  BY <1>1, <1>4 DEF HistoryKept
<1>7. TurnKept /\ FilesFreed
  <2>1. ~Ends
    BY <1>1 DEF Ends
  <2>2. backend \in Native => ~files
    BY DEF Init
  <2> QED BY <2>1, <2>2, <1>1, Zenon DEF TurnKept, FilesFreed
<1> QED BY <1>5, <1>6, <1>7 DEF ToolInv

\* Every step but the stutter of a turn that is over advances it.
LEMMA StepAdvances ==
  ASSUME ToolInv, Next
  PROVE  Advances \/ UNCHANGED vars
BY StepOf, EndAdvances, StartAdvances, PausedAdvances, AgainAdvances, AsksAdvances,
   TooManyAdvances, ExecuteAdvances, FedAdvances, Zenon

\* The invariant of the loops.
THEOREM LoopKept == Spec => []ToolInv
<1>1. ToolInv /\ UNCHANGED vars => ToolInv'
  BY DEF ToolInv, TypeOK, HistoryKept, TurnKept, FilesFreed, Ends, vars, turn, guard
<1>2. ToolInv /\ [Next]_vars => ToolInv'
  BY <1>1, StepAdvances DEF Advances
<1> QED BY InitHolds, <1>2, PTL DEF Spec

\* In every request, and whatever limits, blocks and the compactor did to the
\* history, each tool_use is answered by the very next message, and no result
\* stands without its tool_use.
THEOREM RequestsArePaired == Spec => []RequestsPaired
<1>1. ToolInv => RequestsPaired
  <2> SUFFICES ASSUME ToolInv, pc \in {"request", "final"}, NEW i \in DOMAIN history
               PROVE  /\ history[i].uses # {} =>
                           i < Len(history) /\ history[i + 1].answers = history[i].uses
                      /\ history[i].answers # {} =>
                           i > 1 /\ history[i - 1].uses = history[i].answers
    BY DEF RequestsPaired
  <2>1. Whole(history)
    BY DEF ToolInv, HistoryKept
  <2>2. /\ Paired(history) /\ history[Len(history)].uses = {}
        /\ i \in 1..Len(history) /\ Len(history) \in Nat
    BY <2>1, LenProperties DEF Whole, Sound
  <2>3. history[i].uses # {} => i < Len(history)
    BY <2>2
  <2> QED BY <2>2, <2>3 DEF Paired
<1> QED BY <1>1, LoopKept, PTL

\* However a turn is left, nothing comes after an accepted finisher but in the
\* XML loop, and no file stays but where the XML loop is cancelled or raises.
THEOREM TurnIsLeftClean == Spec => []LeftClean
<1>1. ToolInv => FinisherIsLast
  BY DEF ToolInv, TurnKept, FinisherIsLast, Ends
<1>2. ToolInv => LeftClean
  BY <1>1 DEF ToolInv, LeftClean
<1> QED BY <1>2, LoopKept, PTL

\* Compaction keeps the ask and the last messages as they are and forgets
\* nothing of the tail, of an earlier summary or of what a summary call is sure
\* to be shown; and every step, a pause and a second try included, brings the
\* end of the turn nearer.
THEOREM AskAndTailStay == Spec => RemembersAndEnds
<1>1. ToolInv /\ [Next]_vars =>
        [Remembers(history, history')]_history /\ [Rank' < Rank]_vars
  <2>1. UNCHANGED vars => UNCHANGED history
    BY DEF vars, turn
  <2> QED BY <2>1, StepAdvances DEF Advances
<1> QED BY <1>1, LoopKept, PTL DEF Spec, RemembersAndEnds, RemembersAskAndTail, EveryStepCounts

----------------------------------------------------------------------------
(* The guardrail.                                                          *)

Calls == [sig : Sigs, result : Returns \cup {"failed", "blocked"}]

\* The executions of a call in a stretch of a turn's calls.
Made(cs, s, i, j) == {k \in i..j : cs[k].sig = s /\ cs[k].result # "blocked"}

\* A stretch in which every execution came to one of R has at most b of them,
\* and at most t when it reaches the last call.
Bounded(cs, s, R, b, t) ==
  \A i, j \in DOMAIN cs :
    (\A k \in Made(cs, s, i, j) : cs[k].result \in R) =>
      /\ Cardinality(Made(cs, s, i, j)) <= b
      /\ j = Len(cs) => Cardinality(Made(cs, s, i, j)) <= t

\* How often a call may be made again: one more execution is counted, and
\* only when the count is below the bound.
LEMMA OneMore ==
  ASSUME NEW cs \in Seq(Calls), NEW c \in Calls, NEW s, NEW R,
         NEW b \in Nat, NEW t \in Nat, NEW u \in Nat, Bounded(cs, s, R, b, t),
         c.sig = s /\ c.result # "blocked" /\ c.result \in R => t < b /\ u >= t + 1,
         ~(c.sig = s /\ c.result # "blocked") => u >= t
  PROVE  Bounded(Append(cs, c), s, R, b, u)
<1> DEFINE ds == Append(cs, c)
           n == Len(cs)
<1>1. n \in Nat /\ DOMAIN cs = 1..n
  BY LenProperties
<1>2. /\ ds \in Seq(Calls) /\ Len(ds) = n + 1 /\ ds[n + 1] = c
      /\ \A k \in 1..n : ds[k] = cs[k]
  BY <1>1, AppendProperties
<1>3. DOMAIN ds = 1..n + 1
  BY <1>1, <1>2, LenProperties
<1> HIDE DEF ds, n
<1> SUFFICES ASSUME NEW i \in 1..n + 1, NEW j \in 1..n + 1,
                    \A k \in Made(ds, s, i, j) : ds[k].result \in R
             PROVE  /\ Cardinality(Made(ds, s, i, j)) <= b
                    /\ j = n + 1 => Cardinality(Made(ds, s, i, j)) <= u
  BY <1>2, <1>3 DEF Bounded, ds
<1>4. \A k \in Int : IsFiniteSet(Made(cs, s, i, k)) /\ Cardinality(Made(cs, s, i, k)) \in Nat
  <2> SUFFICES ASSUME NEW k \in Int
               PROVE  IsFiniteSet(Made(cs, s, i, k)) /\ Cardinality(Made(cs, s, i, k)) \in Nat
    OBVIOUS
  <2>1. IsFiniteSet(i..k) /\ Made(cs, s, i, k) \in SUBSET (i..k)
    BY <1>1, FS_Interval DEF Made
  <2> QED BY <2>1, FS_Subset, FS_CardinalityType
<1>5. CASE j <= n
  <2>1. \A k \in i..j : k \in 1..n
    BY <1>1, <1>5
  <2>2. Made(ds, s, i, j) = Made(cs, s, i, j)
    BY <2>1, <1>2 DEF Made
  <2>3. \A k \in Made(cs, s, i, j) : cs[k].result \in R
    BY <2>1, <2>2, <1>2 DEF Made
  <2>4. j \in DOMAIN cs
    BY <1>1, <1>5
  <2>5. CASE i <= n
    <3>1. i \in DOMAIN cs
      BY <2>5, <1>1
    <3> QED BY <3>1, <2>2, <2>3, <2>4, <1>1, <1>5 DEF Bounded
  <2>6. CASE i > n
    <3>1. Made(cs, s, i, j) = {}
      BY <2>6, <1>1, <1>5 DEF Made
    <3>2. Cardinality({}) = 0
      BY FS_EmptySet
    <3> QED BY <3>1, <3>2, <2>2
  <2> QED BY <2>5, <2>6, <1>1
<1>6. CASE j = n + 1
  <2> DEFINE before == Made(cs, s, i, n)
  <2>1. \A k \in i..n : k \in 1..n /\ k \in i..n + 1
    BY <1>1
  <2>2. Made(ds, s, i, j) = before \cup (IF c.sig = s /\ c.result # "blocked" THEN {n + 1} ELSE {})
    <3>1. \A k \in i..n + 1 : k \in i..n \/ k = n + 1
      BY <1>1
    <3>2. n + 1 \in i..n + 1
      BY <1>1
    <3> QED BY <3>1, <3>2, <2>1, <1>2, <1>6 DEF Made
  <2>3. \A k \in before : cs[k].result \in R
    BY <2>1, <2>2, <1>2 DEF Made
  <2>4. Cardinality(before) <= b /\ Cardinality(before) <= t
    <3>1. CASE i <= n
      <4>1. i \in DOMAIN cs /\ n \in DOMAIN cs
        BY <3>1, <1>1
      <4> QED BY <4>1, <2>3 DEF Bounded, n
    <3>2. CASE i > n
      <4>1. before = {}
        BY <3>2, <1>1 DEF Made
      <4>2. Cardinality({}) = 0
        BY FS_EmptySet
      <4> QED BY <4>1, <4>2
    <3> QED BY <3>1, <3>2, <1>1
  <2>5. IsFiniteSet(before) /\ Cardinality(before) \in Nat
    BY <1>1, <1>4
  <2>6. CASE c.sig = s /\ c.result # "blocked"
    <3>1. Made(ds, s, i, j) = before \cup {n + 1} /\ n + 1 \in Made(ds, s, i, j)
      BY <2>2, <2>6
    <3>2. c.result \in R
      BY <3>1, <1>2
    <3>3. n + 1 \notin before
      BY <1>1 DEF Made
    <3> HIDE DEF before
    <3>4. Cardinality(Made(ds, s, i, j)) = Cardinality(before) + 1
      BY <3>1, <3>3, <2>5, FS_AddElement
    <3> QED BY <3>2, <3>4, <2>4, <2>5, <2>6
  <2>7. CASE ~(c.sig = s /\ c.result # "blocked")
    <3>1. Made(ds, s, i, j) = before
      BY <2>2, <2>7
    <3> HIDE DEF before
    <3> QED BY <3>1, <2>4, <2>5, <2>7
  <2> QED BY <2>6, <2>7
<1>7. j <= n \/ j = n + 1
  BY <1>1
<1> QED BY <1>5, <1>6, <1>7

\* The last result of a call, as often as it was returned in a row.
Repeats(s, r) == IF progress[s].last = r THEN progress[s].times ELSE 0

\* What the guardrail counts is what the calls came to.
CountsKept ==
  \A s \in AsIs :
    /\ Bounded(calls, s, Fails, BlockAfter, failures[s])
    /\ Steady(s) => \A r \in Returns : Bounded(calls, s, {r}, BlockAfter, Repeats(s, r))

\* A call that was stopped counts for nothing.
LEMMA StoppedCounts ==
  ASSUME TypeOK, CountsKept, Stopped
  PROVE  CountsKept'
<1> DEFINE c == [sig |-> Head(blocks).sig, result |-> "blocked"]
<1>1. blocks # <<>> /\ calls' = Append(calls, c) /\ failures' = failures /\ progress' = progress
  BY DEF Stopped, Record, Block, guard
<1>2. c \in Calls /\ c.result = "blocked"
  <2>1. Head(blocks) \in [id : Ids, sig : Sigs]
    BY <1>1, BlockIds DEF TypeOK
  <2> QED BY <2>1 DEF Calls
<1> HIDE DEF c
<1>3. calls \in Seq(Calls) /\ BlockAfter \in Nat
  BY ToolLoopAssumption DEF TypeOK, Calls
<1> SUFFICES ASSUME NEW s \in Sigs, s \in AsIs
             PROVE  /\ Bounded(calls', s, Fails, BlockAfter, failures'[s])
                    /\ Steady(s) => \A r \in Returns :
                         Bounded(calls', s, {r}, BlockAfter, Repeats(s, r)')
  BY DEF CountsKept, AsIs
<1>4. /\ failures[s] \in Nat
      /\ \A r \in Returns : Repeats(s, r) \in Nat /\ Repeats(s, r)' = Repeats(s, r)
  <2>1. s \in Recorded
    BY DEF Recorded
  <2> QED BY <2>1, <1>1 DEF TypeOK, Repeats
<1>5. Bounded(calls', s, Fails, BlockAfter, failures'[s])
  <2>1. Bounded(calls, s, Fails, BlockAfter, failures[s])
    BY DEF CountsKept
  <2> QED BY <2>1, <1>1, <1>2, <1>3, <1>4, OneMore
<1>6. ASSUME Steady(s), NEW r \in Returns
      PROVE  Bounded(calls', s, {r}, BlockAfter, Repeats(s, r)')
  <2>1. Bounded(calls, s, {r}, BlockAfter, Repeats(s, r))
    BY <1>6 DEF CountsKept
  <2> QED BY <2>1, <1>1, <1>2, <1>3, <1>4, OneMore
<1> QED BY <1>5, <1>6

\* A call that is executed was below both counts, and is counted as what it
\* was filled in to be.
LEMMA ExecuteCounts ==
  ASSUME TypeOK, CountsKept, Execute
  PROVE  CountsKept'
<1> DEFINE b == Head(blocks).sig
<1>1. blocks # <<>> /\ ~Blocked(b)
  BY DEF Execute, Block
<1>2. PICK r \in Outcomes(b, IF Steady(b) THEN Results ELSE {}) :
        calls' = Append(calls, [sig |-> b, result |-> r]) /\ AfterCall(Filled(b), r)
  BY DEF Execute, Record, Block
<1>3. b \in Sigs
  <2>1. Head(blocks) \in [id : Ids, sig : Sigs]
    BY <1>1, BlockIds DEF TypeOK
  <2> QED BY <2>1
<1> HIDE DEF b
<1> DEFINE c == [sig |-> b, result |-> r]
<1>4. r \in Returns \cup {"failed"}
  BY <1>2, Returned
<1>5. "failed" \notin Returns /\ "blocked" \notin Returns /\ "nothing" \notin Returns
  BY ToolLoopAssumption DEF Returns
<1>6. c \in Calls /\ c.sig = b /\ c.result = r /\ r # "blocked"
  BY <1>3, <1>4, <1>5 DEF Calls
<1> HIDE DEF c
<1>7. calls' = Append(calls, c)
  BY <1>2 DEF c
<1>8. calls \in Seq(Calls) /\ BlockAfter \in Nat
  BY ToolLoopAssumption DEF TypeOK, Calls
<1> SUFFICES ASSUME NEW s \in Sigs, s \in AsIs
             PROVE  /\ Bounded(calls', s, Fails, BlockAfter, failures'[s])
                    /\ Steady(s) => \A x \in Returns :
                         Bounded(calls', s, {x}, BlockAfter, Repeats(s, x)')
  BY DEF CountsKept, AsIs
<1>9. s \in Recorded /\ Filled(b) \in Recorded
  BY <1>3 DEF Recorded
<1>10. /\ failures[s] \in Nat
       /\ progress[s].times \in Nat
       /\ \A x \in Returns : Repeats(s, x) \in Nat
  BY <1>9 DEF TypeOK, Repeats
<1>11. /\ Bounded(calls, s, Fails, BlockAfter, failures[s])
       /\ Steady(s) => \A x \in Returns : Bounded(calls, s, {x}, BlockAfter, Repeats(s, x))
  BY DEF CountsKept
<1>12. CASE b # s
  <2>1. Filled(b) # s
    BY <1>3, <1>12 DEF AsIs
  <2>2. failures'[s] = failures[s] /\ progress'[s] = progress[s]
    BY <2>1, <1>2, <1>9 DEF AfterCall, TypeOK
  <2>3. \A x \in Returns : Repeats(s, x)' = Repeats(s, x)
    BY <2>2 DEF Repeats
  <2>4. Bounded(calls', s, Fails, BlockAfter, failures'[s])
    <3>1. Bounded(calls, s, Fails, BlockAfter, failures[s]) /\ failures[s] \in Nat
      BY <1>10, <1>11
    <3> QED BY <3>1, <2>2, <1>6, <1>7, <1>8, <1>12, OneMore
  <2>5. ASSUME Steady(s), NEW x \in Returns
        PROVE  Bounded(calls', s, {x}, BlockAfter, Repeats(s, x)')
    <3>1. Bounded(calls, s, {x}, BlockAfter, Repeats(s, x))
      BY <2>5, <1>11
    <3>2. Repeats(s, x)' = Repeats(s, x) /\ Repeats(s, x) \in Nat
      BY <2>3, <1>10
    <3> HIDE DEF Repeats
    <3> QED BY <3>1, <3>2, <1>6, <1>7, <1>8, <1>12, OneMore
  <2> QED BY <2>4, <2>5
<1>13. CASE b = s
  <2>1. Filled(b) = s
    BY <1>3, <1>13 DEF AsIs
  <2>2. failures'[s] = IF r \in Fails THEN failures[s] + 1 ELSE 0
    BY <2>1, <1>2, <1>9 DEF AfterCall, TypeOK
  <2>3. ~(failures[s] >= BlockAfter) /\ (Steady(s) => ~(progress[s].times >= BlockAfter))
    BY <1>1, <1>13 DEF Blocked
  <2>4. Bounded(calls', s, Fails, BlockAfter, failures'[s])
    <3>1. r \in Fails => failures[s] < BlockAfter /\ failures'[s] >= failures[s] + 1
      BY <2>2, <2>3, <1>8, <1>10
    <3>2. failures'[s] \in Nat
      BY <2>2, <1>10
    <3> QED BY <3>1, <3>2, <1>6, <1>7, <1>8, <1>10, <1>11, <1>13, OneMore
  <2>5. ASSUME Steady(s), NEW x \in Returns
        PROVE  Bounded(calls', s, {x}, BlockAfter, Repeats(s, x)')
    <3>1. progress'[s] = IF r \in Fails THEN [last |-> "nothing", times |-> 0]
            ELSE [last |-> r, times |-> IF progress[s].last = r THEN progress[s].times + 1 ELSE 1]
      BY <2>1, <2>5, <1>2, <1>9 DEF AfterCall, TypeOK
    <3>2. Repeats(s, x)' \in Nat
      <4>1. CASE r \in Fails
        <5>1. progress'[s].times = 0
          BY <3>1, <4>1
        <5> QED BY <5>1 DEF Repeats
      <4>2. CASE r \notin Fails
        <5>1. progress'[s].times = IF progress[s].last = r THEN progress[s].times + 1 ELSE 1
          BY <3>1, <4>2
        <5> QED BY <5>1, <1>10 DEF Repeats
      <4> QED BY <4>1, <4>2
    <3>3. r = x => Repeats(s, x) < BlockAfter /\ Repeats(s, x)' >= Repeats(s, x) + 1
      <4> SUFFICES ASSUME r = x
                   PROVE  Repeats(s, x) < BlockAfter /\ Repeats(s, x)' >= Repeats(s, x) + 1
        OBVIOUS
      <4>1. r \notin Fails
        BY <1>5 DEF Fails
      <4>2. progress'[s].last = x
        BY <3>1, <4>1
      <4>3. progress'[s].times = IF progress[s].last = x THEN progress[s].times + 1 ELSE 1
        BY <3>1, <4>1
      <4>4. Repeats(s, x)' = IF progress[s].last = x THEN progress[s].times + 1 ELSE 1
        BY <4>2, <4>3 DEF Repeats
      <4>5. BlockAfter > 0
        BY ToolLoopAssumption
      <4> QED BY <4>4, <4>5, <2>3, <2>5, <1>8, <1>10 DEF Repeats
    <3> QED BY <3>2, <3>3, <2>5, <1>6, <1>7, <1>8, <1>10, <1>11, <1>13, OneMore
  <2> QED BY <2>4, <2>5
<1> QED BY <1>12, <1>13

\* The guardrail's counts are the turn's.
LEMMA CountsHold == Spec => []CountsKept
<1>1. Init => CountsKept
  <2> SUFFICES ASSUME Init PROVE CountsKept
    OBVIOUS
  <2>1. DOMAIN calls = {}
    BY DEF Init
  <2> QED BY <2>1 DEF CountsKept, Bounded
<1>2. ASSUME UNCHANGED <<calls, failures, progress>>, CountsKept PROVE CountsKept'
  BY <1>2 DEF CountsKept, Bounded, Repeats, AsIs
<1>3. ASSUME Next, ~Stopped, ~Execute PROVE UNCHANGED <<calls, failures, progress>>
  <2>1. Start \/ Paused \/ Again \/ Asks \/ TooMany \/ Fed
        \/ (\E how \in Outs : End(how)) \/ UNCHANGED vars
    BY <1>3, StepOf
  <2>2. CASE \E how \in Outs : End(how)
    BY <2>2 DEF End, turn, guard
  <2>3. CASE UNCHANGED vars
    BY <2>3 DEF vars, turn, guard
  <2> QED BY <2>1, <2>2, <2>3 DEF Start, Paused, Again, Asks, TooMany, Fed, turn, guard
<1>4. TypeOK /\ CountsKept /\ [Next]_vars => CountsKept'
  <2>1. UNCHANGED vars => UNCHANGED <<calls, failures, progress>>
    BY DEF vars, turn, guard
  <2> QED BY <2>1, <1>2, <1>3, StoppedCounts, ExecuteCounts
<1>5. ToolInv => TypeOK
  BY DEF ToolInv
<1> QED BY <1>1, <1>4, <1>5, LoopKept, PTL DEF Spec

\* A call that is counted as the model made it is never executed again after
\* it failed, or came to the same, BlockAfter times in a row.
THEOREM NoLoopAsIs == Spec => []NoDegenerateLoopAsIs
<1>1. ASSUME TypeOK, CountsKept, NEW s \in Sigs, s \in AsIs,
             NEW i \in DOMAIN calls, NEW j \in DOMAIN calls
      PROVE  LET done == Executed(s, i, j) IN
             ~(/\ Cardinality(done) > BlockAfter
               /\ \/ \A k \in done : calls[k].result \in Fails
                  \/ Steady(s) /\ \E r \in Returns : \A k \in done : calls[k].result = r)
  <2> DEFINE done == Executed(s, i, j)
  <2>1. done = Made(calls, s, i, j)
    BY DEF Executed, Made
  <2>2. Cardinality(done) \in Nat /\ BlockAfter \in Nat
    <3>1. i \in Int /\ j \in Int
      BY <1>1, LenProperties DEF TypeOK
    <3>2. IsFiniteSet(i..j) /\ done \in SUBSET (i..j)
      BY <3>1, FS_Interval DEF Executed
    <3> QED BY <3>2, FS_Subset, FS_CardinalityType, ToolLoopAssumption
  <2> HIDE DEF done
  <2>3. (\A k \in done : calls[k].result \in Fails) => Cardinality(done) <= BlockAfter
    BY <1>1, <2>1 DEF CountsKept, Bounded
  <2>4. ASSUME Steady(s), NEW r \in Returns, \A k \in done : calls[k].result = r
        PROVE  Cardinality(done) <= BlockAfter
    <3>1. \A k \in done : calls[k].result \in {r}
      BY <2>4
    <3>2. Bounded(calls, s, {r}, BlockAfter, Repeats(s, r))
      BY <1>1, <2>4 DEF CountsKept
    <3> QED BY <3>1, <3>2, <1>1, <2>1 DEF Bounded
  <2> QED BY <2>2, <2>3, <2>4 DEF done
<1>2. TypeOK /\ CountsKept => NoDegenerateLoopAsIs
  <2>1. AsIs \subseteq Sigs
    BY DEF AsIs
  <2> QED BY <2>1, <1>1, Zenon DEF NoDegenerateLoopAsIs, Degenerate
<1> QED BY <1>2, CountsHold, LoopKept, PTL DEF ToolInv
=============================================================================
