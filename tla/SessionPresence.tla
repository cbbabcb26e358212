---------------------------- MODULE SessionPresence ----------------------------
(***************************************************************************)
(* The heartbeat of one CLI session that a user drives (agntchat_hook.py): *)
(* a start hook (SessionStart, which a compaction fires again, or a turn's *)
(* end under Codex) leaves a process behind that posts a heartbeat for as  *)
(* long as the CLI lives and closes the session after it.  A pid file per  *)
(* session keeps them to one.  Hooks and heartbeats are processes of their *)
(* own; the session is resumed by one CLI after another.                   *)
(***************************************************************************)
EXTENDS Naturals

CONSTANTS
  Clis,       \* the CLI processes of the session, in the order they are started
  Hooks,      \* start hooks that run at a time
  Loops,      \* heartbeat processes
  NoPid,      \* no pid file
  DeadPid, AlienPid  \* a pid file from before: its process is dead, or another program has its id

ASSUME SessionPresenceAssumption ==
  /\ Clis \subseteq Nat
  /\ Loops \cap {"idle", "posting", "spawning"} = {}
  /\ NoPid \notin Loops /\ DeadPid \notin Loops \cup {NoPid} /\ AlienPid \notin Loops \cup {NoPid, DeadPid}

VARIABLES
  cli,        \* of a CLI: "new", "live", "gone"
  startHook,  \* of a hook: where it stands and the CLI that fired it
  loop,       \* of a heartbeat: where it stands and the CLI it watches
  pidfile,
  care        \* of a CLI: whether its start hooks saw to a heartbeat of its own, or
              \* left it to "another"'s

presenceVars == <<cli, startHook, loop, pidfile, care>>

IdleHook == [at |-> "idle", cli |-> 0]
NoLoop == [at |-> "none", cli |-> 0]

PresenceInit ==
  /\ cli = [c \in Clis |-> "new"]
  /\ startHook = [h \in Hooks |-> IdleHook]
  /\ loop = [l \in Loops |-> NoLoop]
  /\ pidfile \in {NoPid, DeadPid, AlienPid}
  /\ care = [c \in Clis |-> "none"]

\* the user starts or resumes the session, and quits or closes the terminal
Opens(c) ==
  /\ cli[c] = "new" /\ \A d \in Clis : d < c => cli[d] = "gone"
  /\ cli' = [cli EXCEPT ![c] = "live"]
  /\ UNCHANGED <<startHook, loop, pidfile, care>>

Quits(c) ==
  /\ cli[c] = "live"
  /\ cli' = [cli EXCEPT ![c] = "gone"]
  /\ UNCHANGED <<startHook, loop, pidfile, care>>

\* a start hook posts its event first
Fires(h, c) ==
  /\ cli[c] = "live" /\ startHook[h] = IdleHook
  /\ startHook' = [startHook EXCEPT ![h] = [at |-> "posting", cli |-> c]]
  /\ UNCHANGED <<cli, loop, pidfile, care>>

-----------------------------------------------------------------------------
Watching(l) == loop[l].at \in {"beating", "closing", "unlinking"}

Runs(pid) == pid = AlienPid \/ (pid \in Loops /\ Watching(pid))

FileNames(pid) == pid # NoPid

\* the process of the pid file is alive
PidRuns(pid) == Runs(pid)

Serves(pid, c) == pid \in Loops /\ Watching(pid) /\ loop[pid].cli = c

\* _cli_pid finds no CLI above an orphaned hook; a pid that is alive counts as
\* this session's heartbeat, whoever's it is
LeavesAlone(h) ==
  /\ startHook[h].at = "posting"
  /\ LET c == startHook[h].cli
         another == Runs(pidfile) /\ ~Serves(pidfile, c) IN
       /\ cli[c] = "gone" \/ PidRuns(pidfile)
       /\ care' = [care EXCEPT ![c] = IF ~another THEN "own" ELSE IF @ = "none" THEN "another" ELSE @]
  /\ startHook' = [startHook EXCEPT ![h] = IdleHook]
  /\ UNCHANGED <<cli, loop, pidfile>>

FindsNone(h) ==
  /\ startHook[h].at = "posting"
  /\ cli[startHook[h].cli] = "live" /\ ~PidRuns(pidfile)
  /\ startHook' = [startHook EXCEPT ![h].at = "spawning"]
  /\ UNCHANGED <<cli, loop, pidfile, care>>

\* Popen, and then the pid file
Spawns(h, l) ==
  /\ startHook[h].at = "spawning" /\ loop[l] = NoLoop
  /\ loop' = [loop EXCEPT ![l] = [at |-> "beating", cli |-> startHook[h].cli]]
  /\ startHook' = [startHook EXCEPT ![h] = [at |-> l, cli |-> startHook[h].cli]]
  /\ UNCHANGED <<cli, pidfile, care>>

WritesPid(h) ==
  /\ startHook[h].at \in Loops
  /\ pidfile' = startHook[h].at
  /\ startHook' = [startHook EXCEPT ![h] = IdleHook]
  /\ care' = [care EXCEPT ![startHook[h].cli] = "own"]
  /\ UNCHANGED <<cli, loop>>

-----------------------------------------------------------------------------
\* _heartbeat_loop: the CLI is gone (it looks once a minute), the session is
\* closed, and the pid file is removed, whoever's pid is in it
SeesItGone(l) ==
  /\ loop[l].at = "beating" /\ cli[loop[l].cli] = "gone"
  /\ loop' = [loop EXCEPT ![l].at = "closing"]
  /\ UNCHANGED <<cli, startHook, pidfile, care>>

PostsEnd(l) ==
  /\ loop[l].at = "closing"
  /\ loop' = [loop EXCEPT ![l].at = "unlinking"]
  /\ UNCHANGED <<cli, startHook, pidfile, care>>

Unlinks(l) ==
  /\ loop[l].at = "unlinking"
  /\ pidfile' = NoPid
  /\ loop' = [loop EXCEPT ![l] = NoLoop]
  /\ UNCHANGED <<cli, startHook, care>>

PresenceNext ==
  \/ \E c \in Clis : Opens(c) \/ Quits(c) \/ \E h \in Hooks : Fires(h, c)
  \/ \E h \in Hooks : LeavesAlone(h) \/ FindsNone(h) \/ WritesPid(h) \/ \E l \in Loops : Spawns(h, l)
  \/ \E l \in Loops : SeesItGone(l) \/ PostsEnd(l) \/ Unlinks(l)

PresenceSpec == PresenceInit /\ [][PresenceNext]_presenceVars

-----------------------------------------------------------------------------
(* A live session is beaten for: as long as its CLI lives, the heartbeat its *)
(* start hooks saw to goes on, whatever hooks and heartbeats of earlier CLIs *)
(* do to the pid file; a CLI without one was left to the heartbeat of a CLI  *)
(* that had quit less than a minute before, or to a stranger with its id     *)
(* (_spawn_heartbeat, agntchat_hook.py:531).                                 *)
BeatsUnlessHandedOver ==
  \A c \in Clis : cli[c] = "live" /\ care[c] = "own"
    => \E l \in Loops : loop[l] = [at |-> "beating", cli |-> c]
=============================================================================
