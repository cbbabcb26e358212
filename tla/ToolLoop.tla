------------------------------ MODULE ToolLoop ------------------------------
(***************************************************************************)
(* One turn of an agentic tool loop: chat_with_tools of every backend, with *)
(* its guardrail (tools/guardrails.py), its context compactor              *)
(* (context/compactor.py) and the tool executor (tools/executor.py).  The  *)
(* loop is one coroutine; what it meets on the way is not its choice: the  *)
(* model's answers, the tools' results, sizes, time, a cancellation.       *)
(*                                                                         *)
(* A signature is a call of ToolExecutor.  A message of the history is     *)
(* what can go wrong with it: the tool_use ids it makes, the ids it        *)
(* answers, its size, and the messages that it tells of, if only in their  *)
(* beginning.                                                              *)
(***************************************************************************)
EXTENDS ToolExecutor, Sequences, FiniteSets, FiniteSetsExt

CONSTANTS
  Backends,        \* \subseteq AllBackends
  Sigs,            \* the calls the model makes
  Finishers,       \* complete_task, fail_task (TERMINAL_TOOL_NAMES)
  Idempotent,      \* idempotentTools
  Results,         \* what an idempotent call may return
  MaxIterations, MaxToolCalls,
  MaxBlocks,       \* bound: tool_use blocks of one response
  BlockAfter,      \* exactFailureBlockAfter, noProgressBlockAfter
  MinTail,         \* minTailMessages
  TailBudget, Early, Trigger,  \* token budgets
  Transcript,      \* messages that the summary call is sure to be shown
  Big              \* the size of a bulky tool result: 1 digested, 2 trimmed

AllBackends == {"anthropic", "openai", "claude_xml", "claude_mcp", "codex"}

ASSUME ToolLoopAssumption ==
  /\ Backends \subseteq AllBackends
  /\ {MaxIterations, MaxToolCalls, MaxBlocks, BlockAfter, Transcript} \subseteq Nat \ {0}
  /\ {MinTail, TailBudget, Early, Trigger} \subseteq Nat /\ Big \in Nat /\ Big > 2
  /\ Results \cap {"failed", "blocked", "nothing"} = {}

VARIABLES
  backend,    \* whose chat_with_tools runs
  pc,         \* "start", "request", "tools", "final", "done"
  history,    \* api_messages, conversation
  iteration,
  blocks,     \* tool_use blocks of the response still to be handled
  answered,   \* ids in tool_results
  calls,      \* all_tool_calls
  failures,   \* _exact_failures
  progress,   \* _no_progress: the last result of a signature, and its count
  files,      \* the turn's attachment files are on disk
  outcome     \* stop_reason of the ModelResult, "raised" or "cancelled"

turn  == <<history, iteration, blocks, answered, calls>>
guard == <<failures, progress>>
vars  == <<backend, pc, turn, guard, files, outcome>>

Native == {"anthropic", "openai"}
Recorded == Sigs \cup {Filled(s) : s \in Sigs}
Steady(s) == s.tool \in Idempotent

Message(uses, answers, size, stands) ==
  [uses |-> uses, answers |-> answers, size |-> size, stands |-> stands]

Init ==
  /\ backend \in Backends
  /\ pc = "start"
  /\ history = <<Message({}, {}, 1, {0})>>
  /\ iteration = 0 /\ blocks = <<>> /\ answered = {} /\ calls = <<>>
  /\ failures = [s \in Recorded |-> 0]
  /\ progress = [s \in Recorded |-> [last |-> "nothing", times |-> 0]]
  /\ files = (backend \notin Native)
  /\ outcome = "none"

----------------------------------------------------------------------------
(* The context compactor.                                                  *)

\* estimate_tokens of the messages from one on.
Size(h, from) ==
  LET sum[i \in 1..Len(h) + 1] == IF i > Len(h) THEN 0 ELSE h[i].size + sum[i + 1]
  IN  sum[from]

\* Mutant: the boundary may fall between a tool_use and its results.
TailStartSplit(h) ==
  LET over == {i \in 2..Len(h) : Size(h, i) > TailBudget /\ Len(h) - i + 1 >= MinTail}
  IN  IF over = {} THEN 2 ELSE Max(over) + 1

\* _partition: the head is the first message; the tail is walked back to the
\* first message that exceeds the budget with the minimum kept, and one
\* further when it would begin with results whose calls stay outside.
TailStart(h) ==
  LET over  == {i \in 2..Len(h) : Size(h, i) > TailBudget /\ Len(h) - i + 1 >= MinTail}
      start == IF over = {} THEN 2 ELSE Max(over) + 1
  IN  IF /\ start \in 3..Len(h)
         /\ h[start].answers # {} /\ h[start - 1].uses # {}
      THEN start - 1 ELSE start

\* _prune_tool_results and early_prune: bulky results outside the tail.
Shrunk(h, to) ==
  [i \in DOMAIN h |->
     IF i < TailStart(h) /\ h[i].answers # {} /\ h[i].size > to
     THEN [h[i] EXCEPT !.size = to] ELSE h[i]]

Told(h) == UNION {h[i].stands : i \in DOMAIN h}

\* Mutant: without a summary the middle is dropped all the same.
CompactedAnyway(h) ==
  IF Len(h) <= MinTail + 1 \/ Size(Shrunk(h, 1), 1) < Trigger THEN {Shrunk(h, 1)}
  ELSE {<<h[1]>> \o SubSeq(Shrunk(h, 1), TailStart(h), Len(h))}

\* _render_for_summary: a long middle is cut off somewhere, and what comes
\* after its message last is not shown. The transcript has 24,000 characters
\* and 2,000 of a message, so the first ones are in it.
Shown(end) == {last \in 2..end : last > Transcript \/ last = end}

\* compact: digest; if that is not enough replace the middle by one summary
\* message, of what the summary call was shown: an earlier summary, which is
\* the first of the middle, and the beginning of each message. A summary call
\* that fails leaves the digested history.
Compacted(h) ==
  LET pruned == Shrunk(h, 1)
      start  == TailStart(pruned)
      Folded(last) == Message({}, {}, 1, Told(SubSeq(pruned, 2, last)))
  IN  IF Len(h) <= MinTail + 1 THEN {h}
      ELSE IF Size(pruned, 1) < Trigger \/ start <= 2 THEN {pruned}
      ELSE {pruned} \cup
           {<<h[1], Folded(last)>> \o SubSeq(pruned, start, Len(h)) : last \in Shown(start - 1)}

\* The early tier runs when the cache is cold: a request was made, long ago.
Preflight(h) ==
  IF backend # "anthropic" THEN {h}
  ELSE IF Size(h, 1) >= Trigger THEN Compacted(h)
  ELSE IF Size(h, 1) >= Early /\ iteration > 0 THEN {h, Shrunk(h, 2)}
  ELSE {h}

----------------------------------------------------------------------------
(* The guardrail.                                                          *)

Blocked(s) ==
  \/ failures[s] >= BlockAfter
  \/ Steady(s) /\ progress[s].times >= BlockAfter

\* Mutant: a success clears the failures of every signature.
AfterCallClears(s, r) ==
  /\ failures' = IF r \in Fails THEN [failures EXCEPT ![s] = @ + 1]
                 ELSE [t \in Recorded |-> 0]
  /\ UNCHANGED progress

\* after_call; its warnings are text that the model may read.
AfterCall(s, r) ==
  /\ failures' = [failures EXCEPT ![s] = IF r \in Fails THEN @ + 1 ELSE 0]
  /\ progress' = [progress EXCEPT ![s] =
       IF r \in Fails \/ ~Steady(s) THEN [last |-> "nothing", times |-> 0]
       ELSE [last |-> r, times |-> IF @.last = r THEN @.times + 1 ELSE 1]]

----------------------------------------------------------------------------
(* The loop.                                                               *)

Return(how) == pc' = "done" /\ outcome' = how

\* Mutant: a turn that ends with an error keeps its attachment files.
EndKeepsOnError(how) ==
  /\ Return(how)
  /\ files' = (files /\ how \in {"error", "raised", "cancelled"})
  /\ UNCHANGED <<backend, turn, guard>>

\* Every way out. A CLI's loop is under a finally; the XML loop frees its
\* attachments where it returns, so not when it is cancelled or raises.
End(how) ==
  /\ Return(how)
  /\ files' = (files /\ backend = "claude_xml" /\ how \in {"raised", "cancelled"})
  /\ UNCHANGED <<backend, turn, guard>>

Start ==
  /\ pc = "start" /\ iteration < MaxIterations
  /\ iteration' = iteration + 1
  /\ history' \in Preflight(history)
  /\ pc' = "request"
  /\ UNCHANGED <<backend, blocks, answered, calls, guard, files, outcome>>

Exhausted == pc = "start" /\ iteration = MaxIterations /\ End("max_iterations")

\* The XML loop's total time budget: it leaves the loop as if exhausted.
OverBudget == pc = "request" /\ iteration > 1 /\ End("max_iterations")

\* Timeouts, rate limits and refused requests.
RequestFails == pc = "request" /\ End("raised")

\* The XML loop turns a timeout or RuntimeError of its CLI into a result.
Aborted == pc = "request" /\ End("error")

Finished == pc = "request" /\ End("end_turn")

\* An OpenAI response without a choice leaves the loop as if exhausted.
NoChoice == pc = "request" /\ End("max_iterations")

\* Mutant: a pause does not count.
PausedUncounted ==
  /\ pc = "request"
  /\ pc' = "start" /\ iteration' = iteration - 1
  /\ UNCHANGED <<backend, history, blocks, answered, calls, guard, files, outcome>>

\* A server tool is still in flight: the answer so far is fed back.
Paused ==
  /\ pc = "request"
  /\ history' = Append(history, Message({}, {}, 1, {2 * iteration}))
  /\ pc' = "start"
  /\ UNCHANGED <<backend, iteration, blocks, answered, calls, guard, files, outcome>>

\* Claude's CLI came up without its MCP tools: one more try.
Toolless ==
  /\ pc = "request"
  /\ \/ iteration = 1 /\ pc' = "start"
        /\ UNCHANGED <<backend, turn, guard, files, outcome>>
     \/ iteration > 1 /\ End("raised")

Asks ==
  /\ pc = "request"
  /\ \E n \in 1..MaxBlocks : \E wanted \in [1..n -> Sigs] :
       blocks' = [k \in 1..n |-> [id |-> <<iteration, k>>, sig |-> wanted[k]]]
  /\ history' = Append(history,
       Message({<<iteration, k>> : k \in DOMAIN blocks'}, {}, 1, {2 * iteration}))
  /\ pc' = "tools"
  /\ UNCHANGED <<backend, iteration, answered, calls, guard, files, outcome>>

Block == Head(blocks)

Answer == blocks' = Tail(blocks) /\ answered' = answered \cup {Block.id}
Record(r) == calls' = Append(calls, [sig |-> Block.sig, result |-> r])

TooMany ==
  /\ pc = "tools" /\ blocks # <<>> /\ Len(calls) >= MaxToolCalls
  /\ Answer
  /\ UNCHANGED <<backend, pc, history, iteration, calls, guard, files, outcome>>

Stopped ==
  /\ pc = "tools" /\ blocks # <<>> /\ Len(calls) < MaxToolCalls
  /\ Blocked(Block.sig)
  /\ Answer /\ Record("blocked")
  /\ UNCHANGED <<backend, pc, history, iteration, guard, files, outcome>>

\* before_call sees the arguments of the model, after_call those that
\* execute() has filled in.
Execute ==
  /\ pc = "tools" /\ blocks # <<>> /\ Len(calls) < MaxToolCalls
  /\ ~Blocked(Block.sig)
  /\ Answer
  /\ \E r \in Outcomes(Block.sig, IF Steady(Block.sig) THEN Results ELSE {}) :
       Record(r) /\ AfterCall(Filled(Block.sig), r)
  /\ UNCHANGED <<backend, pc, history, iteration, files, outcome>>

Ends == \E i \in DOMAIN calls : calls[i].sig.tool \in Finishers

\* Mutant: the limit on calls is looked at before the finisher.
FedLimitFirst ==
  /\ pc = "tools" /\ blocks = <<>>
  /\ history' = Append(history, Message({}, answered, 1, {2 * iteration + 1}))
  /\ answered' = {}
  /\ IF Len(calls) >= MaxToolCalls THEN pc' = "final" /\ UNCHANGED <<files, outcome>>
     ELSE IF Ends /\ backend \in Native THEN Return("terminal_tool") /\ UNCHANGED files
     ELSE pc' = "start" /\ UNCHANGED <<files, outcome>>
  /\ UNCHANGED <<backend, iteration, blocks, calls, guard>>

\* The results become a message; then the turn ends on a finisher, even a
\* refused one, makes its last request, or goes round again.
Fed ==
  /\ pc = "tools" /\ blocks = <<>>
  /\ \E size \in {1, Big} :
       history' = Append(history, Message({}, answered, size, {2 * iteration + 1}))
  /\ answered' = {}
  /\ IF Ends /\ backend \in Native THEN Return("terminal_tool")
     ELSE /\ pc' = IF Len(calls) >= MaxToolCalls THEN "final" ELSE "start"
          /\ UNCHANGED outcome
  /\ UNCHANGED <<backend, iteration, blocks, calls, guard, files>>

\* The last request is made without tools; the XML loop's may fail too, and
\* the tools' results are the text then.
Final == pc = "final" /\ End("max_tool_calls")
FinalFails == pc = "final" /\ End("raised")

Cancel == pc # "done" /\ End("cancelled")

\* The turn is over.
Over == pc = "done" /\ UNCHANGED vars

----------------------------------------------------------------------------
(* What each backend's chat_with_tools is made of.                         *)

Ask == Start \/ Exhausted \/ Finished \/ Asks
Act == TooMany \/ Stopped \/ Execute \/ Fed \/ Final

Anthropic == backend = "anthropic" /\ (Ask \/ RequestFails \/ Paused \/ Act \/ FinalFails)

OpenAIAsk == backend = "openai" /\ (Ask \/ RequestFails \/ NoChoice)
OpenAIAct == backend = "openai" /\ (Act \/ FinalFails)

XMLAsk == backend = "claude_xml" /\ (Ask \/ RequestFails \/ OverBudget \/ Aborted)
XMLAct == backend = "claude_xml" /\ Act

\* The CLI runs the loop: one invocation.
ClaudeMCP == backend = "claude_mcp" /\ (Start \/ RequestFails \/ Finished \/ Toolless)
Codex == backend = "codex" /\ (Start \/ RequestFails \/ Finished)

Next ==
  \/ Anthropic \/ OpenAIAsk \/ OpenAIAct \/ XMLAsk \/ XMLAct \/ ClaudeMCP \/ Codex
  \/ Cancel \/ Over

Spec == Init /\ [][Next]_vars

----------------------------------------------------------------------------

Ids == (1..MaxIterations) \X (1..MaxBlocks)
Label == 0..2 * MaxIterations + 1

Returns == Results \cup {"done", "verified", "unverified", "duplicate"}

TypeOK ==
  /\ backend \in Backends
  /\ pc \in {"start", "request", "tools", "final", "done"}
  /\ history \in Seq([uses : SUBSET Ids, answers : SUBSET Ids, size : 1..Big, stands : SUBSET Label])
  /\ iteration \in 0..MaxIterations
  /\ blocks \in Seq([id : Ids, sig : Sigs]) /\ answered \subseteq Ids
  /\ calls \in Seq([sig : Sigs, result : Returns \cup {"failed", "blocked"}])
  /\ failures \in [Recorded -> Nat]
  /\ progress \in [Recorded -> [last : Returns \cup {"nothing"}, times : Nat]]
  /\ files \in BOOLEAN
  /\ outcome \in {"none", "end_turn", "terminal_tool", "max_tool_calls", "max_iterations",
                  "error", "raised", "cancelled"}

\* In every request each tool_use is answered, all of it, by the very next
\* message, and no result stands without its tool_use: the API refuses any
\* other history, and limits, blocks and the compactor all touch it.
RequestsPaired ==
  pc \in {"request", "final"} =>
    \A i \in DOMAIN history :
      /\ history[i].uses # {} => i < Len(history) /\ history[i + 1].answers = history[i].uses
      /\ history[i].answers # {} => i > 1 /\ history[i - 1].uses = history[i].answers

\* The compactor keeps what the model needs to go on. The ask and the last
\* messages (one fewer than minTailMessages) stay as they are; what was
\* summarised before, what the summary call was sure to be shown and all of
\* the tail is still told, by a message or by the summary. Only a message
\* after the first ones of a long middle may be gone from the history.
Remembers(h, g) == LET told == Told(g) IN
  \A i \in DOMAIN h :
    /\ h[i].stands \subseteq told \/ i \in Transcript + 2..TailStart(Shrunk(h, 1)) - 1
    /\ i = 1 \/ i > Len(h) + 1 - MinTail => \E j \in DOMAIN g : g[j] = h[i]
RemembersAskAndTail == [][Remembers(history, history')]_history

\* The executions of a call in a stretch of the turn.
Executed(s, i, j) == {k \in i..j : calls[k].sig = s /\ calls[k].result # "blocked"}

Degenerate(s) == \E i, j \in DOMAIN calls : LET done == Executed(s, i, j) IN
  /\ Cardinality(done) > BlockAfter
  /\ \/ \A k \in done : calls[k].result \in Fails
     \/ Steady(s) /\ \E r \in Returns : \A k \in done : calls[k].result = r

\* The calls whose arguments execute() leaves as they are, filling in no
\* other call's to be the same.
AsIs == {s \in Sigs : \A t \in Sigs : Filled(t) = s <=> t = s}

\* No call is executed again after it failed, or an idempotent one returned
\* the same, BlockAfter times in a row, however the model mixes its calls, if
\* it is counted as the model made it: a call that execute() fills in is
\* gated under arguments it is not counted under, and its success clears the
\* count of the call it becomes.
NoDegenerateLoopAsIs == \A s \in AsIs : ~Degenerate(s)

\* Once a finisher was accepted the model is not asked again: the task is
\* closed and the message claim must not be held. The XML loop, used for
\* the steps of a compound task, has no such stop.
FinisherIsLast ==
  pc \in {"request", "final"} /\ backend # "claude_xml" =>
    \A i \in DOMAIN calls : calls[i].sig.tool \in Finishers => calls[i].result \notin Returns

\* A turn leaves no attachment file behind, unless it was the XML loop and
\* it was cancelled or raised.
FilesFreed == pc = "done" /\ files => backend = "claude_xml" /\ outcome \in {"raised", "cancelled"}

\* However a turn is left, nothing comes after its last word and nothing of
\* it stays on disk.
LeftClean == TypeOK /\ FinisherIsLast /\ FilesFreed

Rank ==
  (MaxIterations - iteration) * (MaxBlocks + 4)
  + CASE pc = "request" -> MaxBlocks + 3 [] pc = "tools" -> Len(blocks) + 2
      [] pc = "final" -> 1 [] pc = "start" -> 0 [] pc = "done" -> -1

\* The loop ends: every step, whatever the model answers (a pause included),
\* brings the end nearer, and no state but the end is without a step.
EveryStepCounts == [][Rank' < Rank]_vars

\* Compaction neither loses these nor keeps the loop from ending.
RemembersAndEnds == RemembersAskAndTail /\ EveryStepCounts
=============================================================================
