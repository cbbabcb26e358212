---------------------------- MODULE SessionBinding ----------------------------
(***************************************************************************)
(* Which agent a CLI session acts as (agentchat/external.py,               *)
(* agntchat_hook.py, agntchat_mcp_server.py).  The desktop binds the       *)
(* session to an agent in sessions.json; the prompt hook rewrites that     *)
(* file to take the session's title out.  The MCP server of the session    *)
(* reads it on every request in its main thread, and beside it on every    *)
(* poll and for every permission prompt that it relays, each in a thread,  *)
(* and switches its agent, its tool catalog and its executor.              *)
(***************************************************************************)
EXTENDS FiniteSets

CONSTANTS
  Accounts,   \* agents with credentials on this machine
  Default,    \* the machine's own agent: acts where no binding says otherwise
  Threads,    \* beside the main one: the poller, the permission relays
  Unbound, Nobody

ASSUME SessionBindingAssumption ==
  Default \in Accounts /\ Unbound \notin Accounts /\ Nobody \notin Accounts

VARIABLES
  bindings,   \* sessions.json, of this session: agent, title left, torn
  titler,     \* a prompt hook that takes a title: where it stands, what it will write
  actor,      \* AGENT_ID
  tools,      \* the agent whose catalog TOOLS holds
  toolbox,    \* the agent whose credentials _tool_executor holds
  across,     \* it was made while another thread switched the agent
  main,       \* the main thread: where it stands and the agent it has in hand
  syncing,    \* of another thread: the agent it has read and not applied yet
  allowed       \* agents the request in hand may act as: bound since it came

bindingVars == <<bindings, titler, actor, tools, toolbox, across, main, syncing, allowed>>
process == <<actor, tools, toolbox, across>>

Binding(agent, title) == [agent |-> agent, title |-> title, torn |-> FALSE]
NotSyncing == [t \in Threads |-> Nobody]
NoTitle == [at |-> "rests", file |-> Binding(Unbound, FALSE)]
Starts == [at |-> "rests", want |-> "none", agent |-> Nobody, next |-> "none"]

\* session_binding_home, load_session_bindings: a file that does not parse
\* binds nobody, as does a CLI that no SessionStart hook has recorded yet
Bound(file) == IF file.torn \/ file.agent = Unbound THEN Default ELSE file.agent

BindingInit ==
  /\ bindings = Binding(Unbound, FALSE) /\ titler = NoTitle
  /\ actor = Default /\ tools = Nobody /\ toolbox = Nobody /\ across = FALSE
  /\ main = Starts /\ syncing = NotSyncing /\ allowed = {}

Rebinds(file) ==
  /\ bindings' = file
  /\ allowed' = IF main = Starts THEN {} ELSE allowed \cup {Bound(file)}

-----------------------------------------------------------------------------
\* bind_session replaces the file: what a hook still writes goes to the old one
Replaced == IF titler.at = "truncated" THEN NoTitle ELSE titler

Binds(a, title) ==
  /\ Rebinds(Binding(a, title)) /\ titler' = Replaced
  /\ UNCHANGED <<process, main, syncing>>

\* another session is bound: what could not be read is gone
BindsAnother ==
  /\ bindings.torn
  /\ Rebinds(Binding(Unbound, FALSE)) /\ titler' = Replaced
  /\ UNCHANGED <<process, main, syncing>>

\* _take_session_title, of this session or of another in the same file: reads
\* it whole, truncates it, writes it anew
ReadsTitle ==
  /\ titler = NoTitle /\ ~bindings.torn
  /\ \/ bindings.title /\ titler' = [at |-> "read", file |-> [bindings EXCEPT !.title = FALSE]]
     \/ titler' = [at |-> "read", file |-> bindings]
  /\ UNCHANGED <<bindings, process, main, syncing, allowed>>

Truncates ==
  /\ titler.at = "read"
  /\ Rebinds([bindings EXCEPT !.torn = TRUE])
  /\ titler' = [titler EXCEPT !.at = "truncated"]
  /\ UNCHANGED <<process, main, syncing>>

Rewrites ==
  /\ titler.at = "truncated"
  /\ Rebinds(titler.file)
  /\ titler' = NoTitle
  /\ UNCHANGED <<process, main, syncing>>

-----------------------------------------------------------------------------
\* _apply_binding, under its lock; forgetting the executor is part of it
SwitchKeepsToolbox(a) ==
  IF a = actor THEN UNCHANGED process
  ELSE actor' = a /\ tools' = Nobody /\ UNCHANGED <<toolbox, across>>

SwitchTo(a) ==
  IF a = actor THEN UNCHANGED process
  ELSE actor' = a /\ tools' = Nobody /\ toolbox' = Nobody /\ across' = FALSE

\* _sync_binding of the poller, or of a relay: _current_binding ...
ThreadReads(t) ==
  /\ syncing[t] = Nobody /\ main.at # "ended"
  /\ syncing' = [syncing EXCEPT ![t] = Bound(bindings)]
  /\ UNCHANGED <<bindings, titler, process, main, allowed>>

\* ... and then _apply_binding
ThreadApplies(t) ==
  /\ syncing[t] # Nobody
  /\ SwitchTo(syncing[t])
  /\ syncing' = [syncing EXCEPT ![t] = Nobody]
  /\ UNCHANGED <<bindings, titler, main, allowed>>

-----------------------------------------------------------------------------
\* handle_request: tools/list and tools/call read the binding and apply it
InHand == {syncing[t] : t \in Threads} \ {Nobody}

Receives(want) ==
  /\ main = Starts
  /\ main' = [Starts EXCEPT !.at = "reading", !.want = want]
  /\ allowed' = {Bound(bindings)} \cup InHand
  /\ UNCHANGED <<bindings, titler, process, syncing>>

MainReads ==
  /\ main.at = "reading"
  /\ main' = [main EXCEPT !.at = "applying", !.agent = Bound(bindings)]
  /\ UNCHANGED <<bindings, titler, process, syncing, allowed>>

MainApplies ==
  /\ main.at = "applying"
  /\ SwitchTo(main.agent)
  /\ main' = [main EXCEPT !.at = "ensuring", !.agent = Nobody]
  /\ UNCHANGED <<bindings, titler, syncing, allowed>>

\* _ensure_standalone_context: nothing to do once the tools are there, unless
\* the session has no conversation
Ensures == IF main.want = "call" THEN [Starts EXCEPT !.at = "calling", !.want = "call"] ELSE Starts

Ensured ==
  /\ main.at = "ensuring" /\ tools # Nobody
  /\ main' = Ensures
  /\ UNCHANGED <<bindings, titler, process, syncing, allowed>>

\* get_tool_executor, where one is needed: there is one, or AGENT_ID is read ...
Looks ==
  /\ main.at \in {"ensuring", "context", "calling"}
  /\ main' = IF toolbox # Nobody THEN [main EXCEPT !.at = "having", !.next = main.at]
             ELSE [main EXCEPT !.at = "making", !.agent = actor, !.next = main.at]
  /\ UNCHANGED <<bindings, titler, process, syncing, allowed>>

\* ... and the executor is kept, with no lock around the two
Keeps ==
  /\ main.at = "making"
  /\ toolbox' = main.agent /\ across' = (main.agent # actor)
  /\ main' = [main EXCEPT !.at = "having", !.agent = Nobody]
  /\ UNCHANGED <<bindings, titler, actor, tools, syncing, allowed>>

\* get_profile is asked for the agent of the executor
HandedOut(next) == main.at = "having" /\ main.next = next /\ toolbox # Nobody

AsksProfile ==
  /\ HandedOut("ensuring")
  /\ main' = [main EXCEPT !.at = "asking", !.agent = toolbox, !.next = "none"]
  /\ UNCHANGED <<bindings, titler, process, syncing, allowed>>

\* its tools become the catalog if there is none by now, or it named none
Profile ==
  /\ main.at = "asking"
  /\ tools' \in IF tools = Nobody THEN {Nobody, main.agent} ELSE {tools}
  /\ main' = [main EXCEPT !.at = "context", !.agent = Nobody]
  /\ UNCHANGED <<bindings, titler, actor, toolbox, across, syncing, allowed>>

\* an executor that another thread forgot before it was handed out
Forgotten(next) == main.at = "having" /\ main.next = next /\ toolbox = Nobody

NoProfile ==
  /\ main.at = "asking" \/ Forgotten("ensuring")
  /\ main' = Ensures
  /\ UNCHANGED <<bindings, titler, process, syncing, allowed>>

SetsContext ==
  /\ HandedOut("context")
  /\ main' = Ensures
  /\ UNCHANGED <<bindings, titler, process, syncing, allowed>>

\* nothing catches that here: the server ends
Breaks ==
  /\ Forgotten("context")
  /\ main' = [Starts EXCEPT !.at = "ended"]
  /\ syncing' = NotSyncing
  /\ UNCHANGED <<bindings, titler, process, allowed>>

\* ToolExecutor.execute, with the credentials it was made with
Calls ==
  /\ HandedOut("calling")
  /\ main' = [main EXCEPT !.at = IF across THEN "strayed" ELSE "executing", !.agent = toolbox]
  /\ UNCHANGED <<bindings, titler, process, syncing, allowed>>

\* the result is answered, or the error of an executor that was forgotten
Returns ==
  /\ main.at \in {"executing", "strayed"} \/ Forgotten("calling")
  /\ main' = Starts /\ allowed' = {}
  /\ UNCHANGED <<bindings, titler, process, syncing>>

BindingNext ==
  \/ \E a \in Accounts, title \in BOOLEAN : Binds(a, title)
  \/ BindsAnother \/ ReadsTitle \/ Truncates \/ Rewrites
  \/ \E t \in Threads : ThreadReads(t) \/ ThreadApplies(t)
  \/ \E want \in {"list", "call"} : Receives(want)
  \/ MainReads \/ MainApplies \/ Ensured \/ Looks \/ Keeps \/ AsksProfile \/ Profile \/ NoProfile
  \/ SetsContext \/ Breaks \/ Calls \/ Returns

BindingSpec == BindingInit /\ [][BindingNext]_bindingVars

-----------------------------------------------------------------------------
(* A tool call acts as an agent the session was bound to when the call came  *)
(* or since, or that the poller or the relay of a permission prompt was just *)
(* switching to, whatever requests, switches and profile answers came before;*)
(* a file caught in its rewrite binds the machine's agent, and an executor   *)
(* made while another thread switched is the one exception (_apply_binding,  *)
(* agntchat_mcp_server.py:414; _relay_permission, 301).                      *)
ActsAsBound == main.at = "executing" => main.agent \in allowed
=============================================================================
