----------------------------- MODULE MCToolLoop -----------------------------
(* A small instance of ToolLoop for TLC: a turn in a task's conversation    *)
(* with a tool to read, one to save a draft, one to send a message and the *)
(* finisher.  The finisher names no task and has it filled in, a message   *)
(* that names its target is given the last one seen, one that does not is  *)
(* refused.                                                                *)
EXTENDS ToolLoop, TLC

Takes(method, conv, task, required, checked) ==
  [method |-> method, conv |-> conv, task |-> task, user |-> FALSE,
   required |-> required, checked |-> checked]

Tools ==
  "read" :> Takes("get_thread", FALSE, FALSE, {}, FALSE)
  @@ "draft" :> Takes("save_draft", FALSE, FALSE, {}, TRUE)
  @@ "send" :> Takes("send_message", TRUE, FALSE, {"conv"}, FALSE)
  @@ "complete_task" :> Takes("complete_task", FALSE, TRUE, {"task"}, FALSE)

WorkTurn == [conv |-> "here", task |-> "mine", seen |-> TRUE]

Call(tool, conv) ==
  [tool |-> tool, conv |-> conv, task |-> "none", rest |-> TRUE, extra |-> {}]

Calls == {Call("read", "none"), Call("draft", "none"), Call("send", "placeholder"),
          Call("send", "there"), Call("complete_task", "none")}

\* What a read returns is only compared.
Alike == Permutations(Results)
=============================================================================
