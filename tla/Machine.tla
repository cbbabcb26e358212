-------------------------------- MODULE Machine --------------------------------
(***************************************************************************)
(* What runs on a machine around the turns of its agents: the toolkit, the *)
(* turn setup and the sub-agents of a bridge process, the computer-use     *)
(* servers of its CLI runs, and the hooks, wrappers and MCP servers of the *)
(* CLI sessions that a user drives.  These parts share no variable, so     *)
(* every behaviour of the machine is one of each part and every property   *)
(* speaks of one: a behaviour here moves one part, the others rest in one  *)
(* of their initial states.                                                *)
(***************************************************************************)
EXTENDS Toolkit, TurnSetup, SubAgents, ComputerUse, SessionInbox, SessionPresence, SessionBinding, HookToken

VARIABLE part    \* the part that moves

vars == <<part, toolkitVars, setupVars, subAgentVars, computerVars, inboxVars, presenceVars, bindingVars, tokenVars>>

Parts == {"toolkit", "setup", "subagents", "computer", "inbox", "presence", "binding", "token"}

\* one initial state of a part that has several
AtRest(p) ==
  CASE p = "toolkit"   -> catalog = {} /\ loaded = Nothing
    [] p = "setup"     -> ~setting /\ backend = Operator
    [] p = "subagents" -> \A q \in Procs : proc[q].agent = CHOOSE a \in Agents : TRUE
    [] p = "computer"  -> lock = NoFile /\ screens = CHOOSE l \in Layouts : TRUE
    [] p = "inbox"     -> registered
    [] p = "presence"  -> pidfile = NoPid
    [] p = "token"     -> tokenCache = NoEntry /\ \A u \in Callers : caller[u] = Asleep(CHOOSE k \in Keys : TRUE)
    [] OTHER           -> TRUE

Init ==
  /\ part \in Parts
  /\ ToolkitInit /\ SetupInit /\ SubAgentInit
  /\ ComputerInit /\ InboxInit /\ PresenceInit /\ BindingInit /\ TokenInit
  /\ \A p \in Parts \ {part} : AtRest(p)

Next ==
  /\ UNCHANGED part
  /\ \/ part = "toolkit" /\ ToolkitNext
     \/ part = "setup" /\ SetupNext
     \/ part = "subagents" /\ SubAgentNext
     \/ part = "computer" /\ ComputerNext
     \/ part = "inbox" /\ InboxNext
     \/ part = "presence" /\ PresenceNext
     \/ part = "binding" /\ BindingNext
     \/ part = "token" /\ TokenNext
  /\ part # "toolkit" => UNCHANGED toolkitVars
  /\ part # "setup" => UNCHANGED setupVars
  /\ part # "subagents" => UNCHANGED subAgentVars
  /\ part # "computer" => UNCHANGED computerVars
  /\ part # "inbox" => UNCHANGED inboxVars
  /\ part # "presence" => UNCHANGED presenceVars
  /\ part # "binding" => UNCHANGED bindingVars
  /\ part # "token" => UNCHANGED tokenVars

Spec == Init /\ [][Next]_vars
=============================================================================
