------------------------------ MODULE SubAgents ------------------------------
(***************************************************************************)
(* The sub-agent processes of a bridge (agent_bridge.py, "Sub-agent        *)
(* runtime"): commands of the backend spawn and stop them in a worker      *)
(* thread, one command at a time; one monitor thread per process reaps it; *)
(* an atexit hook stops what is left.  The lock of the registry makes each *)
(* locked region one step.                                                 *)
(***************************************************************************)
EXTENDS Naturals, FiniteSets

CONSTANTS
  Agents,      \* child_agent_id
  Procs,       \* the processes (Popen objects) there may be: a bound
  NoProc

ASSUME SubAgentsAssumption == NoProc \notin Procs

VARIABLES
  tracked,     \* _child_processes
  stops,       \* _child_intentional_stops
  proc,        \* of a process: its agent, where it stands, its exit code, ...
  logged,      \* what its monitor wrote: "nothing", "expected", "unexpected"
  command,     \* the command the worker thread runs
  bridge       \* "up", "exiting" (the atexit hook runs), "gone"

subAgentVars == <<tracked, stops, proc, logged, command, bridge>>

\* state: "unborn", "running", "dead" (nobody waited for it yet), "reaped"
Process(agent, state) ==
  [agent |-> agent, state |-> state, signalled |-> FALSE, failed |-> FALSE, watched |-> TRUE]
NoCommand == [do |-> "none", proc |-> NoProc]

SubAgentInit ==
  /\ tracked = [a \in Agents |-> NoProc] /\ stops = {}
  /\ proc \in [Procs -> {Process(a, "unborn") : a \in Agents}]
  /\ logged = [p \in Procs |-> "nothing"]
  /\ command = NoCommand /\ bridge = "up"

Set(p, field, value) == proc' = [proc EXCEPT ![p][field] = value]

\* poll() answers None while another thread is inside waitpid for the process,
\* or reaps it itself
PollsRunning(p) == proc[p].state \in {"running", "dead"}
PollsExited(p)  == proc[p].state \in {"dead", "reaped"}

-----------------------------------------------------------------------------
\* a process ends by itself; after SIGTERM it may do so, or ignore the signal
Exit(p) == \E failed \in BOOLEAN :
  /\ proc[p].state = "running"
  /\ proc' = [proc EXCEPT ![p].state = "dead", ![p].failed = failed]
  /\ UNCHANGED <<tracked, stops, logged, command, bridge>>

\* _monitor_child: wait() returns ...
Reap(p) ==
  /\ proc[p].state = "dead" /\ bridge # "gone"
  /\ Set(p, "state", "reaped")
  /\ UNCHANGED <<tracked, stops, logged, command, bridge>>

\* ... and then the registry is settled under the lock
UntrackedAnyway(p) == [tracked EXCEPT ![proc[p].agent] = NoProc]

Untracked(p) == [a \in Agents |-> IF tracked[a] = p THEN NoProc ELSE tracked[a]]

SettleKeepsMark(p) ==
  /\ proc[p].state = "reaped" /\ proc[p].watched /\ bridge # "gone"
  /\ logged' = [logged EXCEPT ![p] = IF p \in stops \/ ~proc[p].failed
                                     THEN "expected" ELSE "unexpected"]
  /\ tracked' = Untracked(p)
  /\ Set(p, "watched", FALSE)
  /\ UNCHANGED <<stops, command, bridge>>

Settle(p) ==
  /\ proc[p].state = "reaped" /\ proc[p].watched /\ bridge # "gone"
  /\ logged' = [logged EXCEPT ![p] = IF p \in stops \/ ~proc[p].failed
                                     THEN "expected" ELSE "unexpected"]
  /\ stops' = stops \ {p}
  /\ tracked' = Untracked(p)
  /\ Set(p, "watched", FALSE)
  /\ UNCHANGED <<command, bridge>>

-----------------------------------------------------------------------------
\* _spawn_child_executor; Popen may raise, which leaves things as they are
Free(a) == tracked[a] # NoProc => PollsExited(tracked[a])

Polled(a) == IF tracked[a] = NoProc THEN proc
             ELSE [proc EXCEPT ![tracked[a]].state = "reaped"]

Spawn(a, p) ==
  /\ command = NoCommand /\ bridge = "up"
  /\ Free(a) /\ proc[p] = Process(a, "unborn")
  /\ tracked' = [tracked EXCEPT ![a] = p]
  /\ proc' = [Polled(a) EXCEPT ![p].state = "running"]
  /\ UNCHANGED <<stops, logged, command, bridge>>

\* _despawn_child_executor: the process is marked under the lock ...
Despawn(a) ==
  /\ command = NoCommand /\ bridge = "up" /\ tracked[a] # NoProc
  /\ stops' = stops \cup {tracked[a]}
  /\ command' = [do |-> "marked", proc |-> tracked[a]]
  /\ UNCHANGED <<tracked, proc, logged, bridge>>

Done == command' = NoCommand

\* ... found dead, or signalled ...
FoundDead ==
  /\ command.do = "marked" /\ PollsExited(command.proc)
  /\ Set(command.proc, "state", "reaped")
  /\ Done /\ UNCHANGED <<tracked, stops, logged, bridge>>

Terminate ==
  /\ command.do = "marked" /\ PollsRunning(command.proc)
  /\ Set(command.proc, "signalled", TRUE)
  /\ command' = [command EXCEPT !.do = "waits"]
  /\ UNCHANGED <<tracked, stops, logged, bridge>>

\* ... waited for, and killed when it ignores the signal
Stopped ==
  /\ command.do = "waits" /\ proc[command.proc].state = "reaped"
  /\ Done /\ UNCHANGED <<tracked, stops, proc, logged, bridge>>

Killed ==
  IF proc[command.proc].state = "running"
  THEN proc' = [proc EXCEPT ![command.proc].state = "dead", ![command.proc].failed = TRUE]
  ELSE UNCHANGED proc

Overdue ==
  /\ command.do = "waits"
  /\ Killed
  /\ Done /\ UNCHANGED <<tracked, stops, logged, bridge>>

-----------------------------------------------------------------------------
\* _terminate_all_children, once the worker threads have been joined
BridgeExits ==
  /\ bridge = "up" /\ command = NoCommand
  /\ bridge' = "exiting"
  /\ stops' = stops \cup {tracked[a] : a \in {b \in Agents : tracked[b] # NoProc}}
  /\ UNCHANGED <<tracked, proc, logged, command>>

\* the hook signals what its snapshot holds and returns without waiting
LeftRunning == {tracked[a] : a \in {b \in Agents : tracked[b] # NoProc}}

BridgeGone ==
  /\ bridge = "exiting"
  /\ bridge' = "gone"
  /\ proc' = [p \in Procs |-> IF p \in LeftRunning /\ PollsRunning(p)
                              THEN [proc[p] EXCEPT !.signalled = TRUE] ELSE proc[p]]
  /\ UNCHANGED <<tracked, stops, logged, command>>

SubAgentNext ==
  \/ \E p \in Procs : Exit(p) \/ Reap(p) \/ Settle(p)
  \/ \E a \in Agents : Despawn(a) \/ \E p \in Procs : Spawn(a, p)
  \/ FoundDead \/ Terminate \/ Stopped \/ Overdue
  \/ BridgeExits \/ BridgeGone

SubAgentSpec == SubAgentInit /\ [][SubAgentNext]_subAgentVars

-----------------------------------------------------------------------------
SubAgentTypeOK ==
  /\ tracked \in [Agents -> Procs \cup {NoProc}] /\ stops \subseteq Procs
  /\ proc \in [Procs -> [agent : Agents, state : {"unborn", "running", "dead", "reaped"},
                         signalled : BOOLEAN, failed : BOOLEAN, watched : BOOLEAN]]
  /\ logged \in [Procs -> {"nothing", "expected", "unexpected"}]
  /\ command \in [do : {"none", "marked", "waits"}, proc : Procs \cup {NoProc}]
  /\ bridge \in {"up", "exiting", "gone"}

Alive(p) == proc[p].state = "running"

(* While the bridge is up every live sub-agent is the one tracked for its    *)
(* agent: a stop, a crash and a respawn that overlap never leave a second    *)
(* process of an agent, or one that no command can reach                     *)
(* (agent_bridge.py:3583, 3629).                                             *)
EveryLiveChildTracked == bridge # "gone" => \A p \in Procs : Alive(p) => tracked[proc[p].agent] = p

(* A bridge that exits has told every sub-agent that outlives it to stop.    *)
NoChildForgotten == bridge = "gone" => \A p \in Procs : Alive(p) => proc[p].signalled

(* An exit is put down to a stop only for the very process that was told to  *)
(* stop or found dead by the command, and the marks are taken back: none is  *)
(* left for a process nobody watches (agent_bridge.py:3560).                 *)
MarksTakenBack ==
  /\ \A p \in stops : proc[p].watched
  /\ \A p \in Procs : (logged[p] = "unexpected") => ~proc[p].signalled \/ bridge # "up"

(* The bridge knows its sub-agents: which are alive, why the others are not, *)
(* and at its exit it leaves none that it has not told to stop.              *)
SubAgentsKnown == SubAgentTypeOK /\ EveryLiveChildTracked /\ NoChildForgotten /\ MarksTakenBack
=============================================================================
