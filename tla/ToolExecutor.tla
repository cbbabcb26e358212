---------------------------- MODULE ToolExecutor ----------------------------
(***************************************************************************)
(* ToolExecutor.execute (agentchat/tools/executor.py) and the read-back of *)
(* its side effects (agentchat/tools/verification.py), as what one call    *)
(* can come to.  A call is [tool, conv, task, rest, extra]: the tool's     *)
(* name, the two ids a wrong answer could misdirect, whether the other     *)
(* required arguments are there, and which of those that execute() may     *)
(* write as well.  execute() never raises.                                 *)
(***************************************************************************)
EXTENDS Integers

CONSTANTS
  Catalog,  \* the resolved tools: name -> [method, conv, task, user, required, checked]
  SDK,      \* methods the SDK client has
  Context   \* the turn's [conv, task], "none" where it has none, and whether it
            \* has seen a message

Absent == {"none"}
Placeholders == Absent \cup {"placeholder"}

Known(c) == c.tool \in DOMAIN Catalog
Tool(c) == Catalog[c.tool]

\* send_message is never given a target it was not told.
NoTarget(c) == Tool(c).method = "send_message" /\ c.conv \in Placeholders

\* A placeholder gives way to the id of the turn where there is one; an id
\* the model named is left alone.
Ambient(id, own, takes) == IF takes /\ own # "none" /\ id \in Placeholders THEN own ELSE id

\* What a call is given besides, where it has no value of its own: the owner
\* and where a DM comes from even when the turn has none, which writes null.
Written(c) ==
  LET method == Tool(c).method IN
  {a \in {"user_id", "source_conversation_id", "source_message_id", "opened_by_task_id",
         "active_conversation_id", "last_seen_message_id"} :
     \/ a = "user_id" /\ Tool(c).user
     \/ a \in {"source_conversation_id", "source_message_id"} /\ method = "find_or_create_dm"
     \/ a = "opened_by_task_id" /\ method = "find_or_create_dm" /\ Context.task # "none"
     \/ a = "active_conversation_id" /\ method = "create_task" /\ Context.conv # "none"
     \/ /\ a = "last_seen_message_id" /\ Context.seen
        /\ method \in {"send_message", "send_result_presentation"}}

\* The arguments after execute(), which writes into the caller's dictionary.
\* conv is the conversation_id of the methods that take one and the huddle_id
\* of complete_huddle.
Filled(c) ==
  IF ~Known(c) \/ NoTarget(c) THEN c
  ELSE [c EXCEPT !.conv = Ambient(@, Context.conv, Tool(c).conv),
                 !.task = Ambient(@, Context.task, Tool(c).task),
                 !.extra = @ \cup Written(c)]

Missing(c) ==
  \/ "conv" \in Tool(c).required /\ c.conv \in Absent
  \/ "task" \in Tool(c).required /\ c.task \in Absent
  \/ ~c.rest

\* A method the SDK has not is passed through to the server as it is.
Passthrough(c) == Known(c) /\ ~NoTarget(c) /\ Tool(c).method \notin SDK

Refused(c) ==
  \/ ~Known(c) \/ NoTarget(c)
  \/ Tool(c).method \in SDK /\ Missing(Filled(c))

\* verify_action never raises: what cannot be read back is not verified. A
\* duplicate that the server held back is not verified at all.
Verdicts(c) ==
  IF ~Passthrough(c) /\ Tool(c).checked THEN {"verified", "unverified", "duplicate"} ELSE {"done"}

Fails == {"failed"}

\* What the call may come to; results are what a read may return.
Outcomes(c, results) ==
  IF Refused(c) THEN Fails
  ELSE Fails \cup IF results # {} THEN results ELSE Verdicts(c)
=============================================================================
