----------------------------- MODULE SessionInbox -----------------------------
(***************************************************************************)
(* How agntchat messages reach a CLI session that a user drives            *)
(* (agntchat_hook.py, agntchat_mcp_server.py): the poller of the session's *)
(* MCP server announces unread messages over the channel and never claims  *)
(* them, recording their ids in pushed.json; the prompt and stop hooks,    *)
(* processes of their own, claim what is unread and hand the model what is *)
(* not recorded there.  Session commands are typed into the terminal       *)
(* through the socket of agntchat_session.py and then acknowledged.        *)
(***************************************************************************)
EXTENDS Naturals, FiniteSets, FiniteSetsExt

CONSTANTS
  Letters,      \* the messages to the session, by their number
  Commands,     \* those that are session commands
  MaxRestarts   \* bound: restarts of the MCP server

ASSUME SessionInboxAssumption == Letters \subseteq Nat /\ Commands \subseteq Letters /\ MaxRestarts \in Nat

VARIABLES
  row,         \* the server's row of a message: "none", "unread", "claimed"
  registered,  \* the user confirmed the channel: what is pushed reaches the model
  poller,      \* the poller of the MCP server: where it stands, the ids it has in hand
  announced,   \* its "seen"
  restarts,
  pushed,      \* pushed.json
  hook,        \* the hook that runs, and what its claim brought
  shown,       \* messages the model was given
  dropped,     \* messages whose claim was answered to nobody
  typed        \* commands that were typed

inboxVars == <<row, registered, poller, announced, restarts, pushed, hook, shown, dropped, typed>>
session == <<registered, restarts, dropped>>

Resting == [at |-> "rests", batch |-> {}]
InRow(status) == {m \in Letters : row[m] = status}

InboxInit ==
  /\ row = [m \in Letters |-> "none"] /\ registered \in BOOLEAN
  /\ poller = Resting /\ announced = {} /\ restarts = 0
  /\ pushed = {} /\ hook = Resting
  /\ shown = {} /\ dropped = {} /\ typed = {}

\* somebody writes to the session
Written(m) ==
  /\ row[m] = "none" /\ \A n \in Letters : n < m => row[n] # "none"
  /\ row' = [row EXCEPT ![m] = "unread"]
  /\ UNCHANGED <<session, poller, announced, pushed, hook, shown, typed>>

-----------------------------------------------------------------------------
\* _channel_poll_loop: the server answers with what is unread ...
PollsAndClaims ==
  /\ poller = Resting /\ InRow("unread") # {}
  /\ poller' = [at |-> "answered", batch |-> InRow("unread")]
  /\ row' = [m \in Letters |-> IF row[m] = "unread" THEN "claimed" ELSE row[m]]
  /\ UNCHANGED <<session, announced, pushed, hook, shown, typed>>

Polls ==
  /\ poller = Resting /\ InRow("unread") # {}
  /\ poller' = [at |-> "answered", batch |-> InRow("unread")]
  /\ UNCHANGED <<row, session, announced, pushed, hook, shown, typed>>

\* ... _channel_events: everything not announced yet goes out, commands excepted;
\* announced is cleared when it grows too long ...
Announces ==
  /\ poller.at = "answered"
  /\ LET notes == (poller.batch \ announced) \ Commands IN
       /\ shown' = IF registered THEN shown \cup notes ELSE shown
       /\ announced' \in {announced \cup notes, {}}
       /\ poller' = [at |-> "announced", batch |-> notes \cup (poller.batch \cap Commands)]
  /\ UNCHANGED <<row, session, pushed, hook, typed>>

\* ... and _record_pushed writes it down
Records ==
  /\ poller.at = "announced"
  /\ pushed' = pushed \cup (poller.batch \ Commands)
  /\ poller' = IF poller.batch \cap Commands = {} THEN Resting
               ELSE [at |-> "types", batch |-> poller.batch \cap Commands]
  /\ UNCHANGED <<row, session, announced, hook, shown, typed>>

\* _type_session_commands: the oldest one, when the server says it can be typed
Types ==
  /\ poller.at = "types"
  /\ typed' = typed \cup {Min(poller.batch)}
  /\ poller' \in {Resting, [at |-> "typed", batch |-> {Min(poller.batch)}]}
  /\ UNCHANGED <<row, session, announced, pushed, hook, shown>>

CannotType ==
  /\ poller.at = "types"
  /\ poller' = Resting
  /\ UNCHANGED <<row, session, announced, pushed, hook, shown, typed>>

\* the acknowledgement may be lost: then the command is typed again
Acknowledges ==
  /\ poller.at = "typed"
  /\ row' \in {row, [row EXCEPT ![Min(poller.batch)] = "claimed"]}
  /\ poller' = Resting
  /\ UNCHANGED <<session, announced, pushed, hook, shown, typed>>

\* the MCP server is started anew, with nothing announced
Restarts ==
  /\ restarts < MaxRestarts /\ restarts' = restarts + 1
  /\ poller' = Resting /\ announced' = {}
  /\ UNCHANGED <<row, registered, dropped, pushed, hook, shown, typed>>

\* an entry is an hour old, or lost to the poller of another session that
\* rewrites the file from what it had read before
Forgets(m) ==
  /\ m \in pushed /\ pushed' = pushed \ {m}
  /\ UNCHANGED <<row, session, poller, announced, hook, shown, typed>>

-----------------------------------------------------------------------------
\* _fetch_inbox of a prompt or stop hook: the server answers with what is unread
\* and marks it read at once; commands are left to the poller
Claims ==
  /\ hook = Resting /\ InRow("unread") \ Commands # {}
  /\ hook' = [at |-> "claimed", batch |-> InRow("unread") \ Commands]
  /\ row' = [m \in Letters |-> IF m \in InRow("unread") \ Commands THEN "claimed" ELSE row[m]]
  /\ UNCHANGED <<session, poller, announced, pushed, shown, typed>>

\* the answer comes too late for the hook's timeout
Unanswered ==
  /\ hook.at = "claimed"
  /\ dropped' = dropped \cup hook.batch /\ hook' = Resting
  /\ UNCHANGED <<row, registered, restarts, poller, announced, pushed, shown, typed>>

\* _drop_pushed, _render_inbox: into the prompt, or into the reason to go on
Renders ==
  /\ hook.at = "claimed"
  /\ shown' = shown \cup (hook.batch \ pushed)
  /\ hook' = Resting
  /\ UNCHANGED <<row, session, poller, announced, pushed, typed>>

InboxNext ==
  \/ \E m \in Letters : Written(m) \/ Forgets(m)
  \/ Polls \/ Announces \/ Records \/ Types \/ CannotType \/ Acknowledges \/ Restarts
  \/ Claims \/ Unanswered \/ Renders

InboxSpec == InboxInit /\ [][InboxNext]_inboxVars

-----------------------------------------------------------------------------
Unseen == {m \in InRow("claimed") \ Commands : m \notin shown \cup hook.batch}

(* With a channel that works no message is read away from the session: what  *)
(* a hook claimed and left out was pushed before, and only a claim whose     *)
(* answer is lost takes messages with it (agntchat_mcp_server.py:84-92).     *)
NoneReadAway == registered => Unseen \subseteq dropped

(* Without a channel nothing is lost either, because the hooks claim and     *)
(* render; but what the poller pushed to nobody counts as pushed             *)
(* (agntchat_mcp_server.py:92).                                              *)
NoneReadAwayWithoutChannel == Unseen \subseteq dropped
=============================================================================
