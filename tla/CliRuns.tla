------------------------------ MODULE CliRuns ------------------------------
(***************************************************************************)
(* CLI runs that outlive the bridge process: agentchat/backends/cli_runs.py *)
(* (records, adoption), _cli_utils.py (tracking, shutdown) and the spawn   *)
(* and reaping of claude_cli.py's _generate_streaming.  One turn per key   *)
(* and bridge starts one run; a bridge process that goes is followed by    *)
(* another.  The operating system keeps a CLI alive without its bridge     *)
(* (its own session); the server's rows are external.                      *)
(***************************************************************************)
EXTENDS Integers, FiniteSets

CONSTANTS
  Bridges,     \* bridge processes, one after the other
  Keys,        \* run keys: tasks and messages
  TaskKeys,    \* those that are tasks
  Drivers,     \* those whose runs drive the machine: not resumable
  Pids,        \* CLI processes
  NoPid, NoBridge, NoKey,
  MaxCrashes,  \* bound: bridges killed outright
  MaxCuts      \* bound: turns stopped or timed out

ASSUME CliAssumption ==
  /\ TaskKeys \subseteq Keys /\ Drivers \subseteq Keys
  /\ IsFiniteSet(Bridges)
  /\ NoPid \notin Pids /\ NoBridge \notin Bridges /\ NoKey \notin Keys
  /\ MaxCrashes \in Nat /\ MaxCuts \in Nat

VARIABLES
  bridge,   \* "off", "up", "stopping", "gone"
  turn,     \* handler per bridge and key: "off", "preparing", "forked", "feeding",
            \* "reading"; "answering", with the result in hand; "closing", with the ack of
            \* a message or the failure report of a task outstanding
  on,       \* the run that turn has
  again,    \* turns that have started their second and last run
  tracked,  \* _live_cli_procs
  record,   \* the run directory of a key: none, without meta.json, or with it
  cli,      \* "off", "running", "finished" (with a result event), "died" (without)
  keyOf,    \* the key a process was spawned for
  row,      \* server: "queued", "held", "closed"
  answers,  \* results delivered per key
  loose,    \* history: processes whose bridge or turn went while spawn() fed
            \* them, and machine-driving ones whose bridge was killed
  unacked,  \* history: keys that were answered by a turn that ended without closing the row
  dropped,  \* history: keys whose result went with a bridge that had discarded the record
  crashes, cuts

process == <<bridge, crashes>>
work    == <<turn, on, again, cuts>>
clis    == <<cli, keyOf>>
server  == <<row, answers>>
history == <<loose, unacked, dropped>>
vars    == <<process, work, tracked, record, clis, server, history>>

None == [pid |-> NoPid, owner |-> NoBridge]
Bare(b) == [pid |-> NoPid, owner |-> b]
Meta(p, b) == [pid |-> p, owner |-> b]

Init ==
  /\ bridge = [b \in Bridges |-> "off"]
  /\ turn = [b \in Bridges |-> [k \in Keys |-> "off"]]
  /\ on = [b \in Bridges |-> [k \in Keys |-> NoPid]]
  /\ again = {}
  /\ tracked = [b \in Bridges |-> {}]
  /\ record = [k \in Keys |-> None]
  /\ cli = [p \in Pids |-> "off"] /\ keyOf = [p \in Pids |-> NoKey]
  /\ row = [k \in Keys |-> "queued"]
  /\ answers = [k \in Keys |-> 0]
  /\ loose = {} /\ unacked = {} /\ dropped = {}
  /\ crashes = 0 /\ cuts = 0

\* Processes that have not started are alike: the next one, if there is one.
Fresh(S, state) ==
  LET off == {x \in S : state[x] = "off"}
  IN  IF off = {} THEN {} ELSE {CHOOSE x \in off : TRUE}

Works(b) == bridge[b] \in {"up", "stopping"}

To(b, k, stage) == turn' = [turn EXCEPT ![b][k] = stage]

Killed(ps) == [p \in Pids |-> IF p \in ps /\ cli[p] = "running" THEN "died" ELSE cli[p]]

----------------------------------------------------------------------------
(* Records.                                                                *)

\* Mutant: a run is only adopted while it is alive.
AdoptableAlive(b, k) ==
  /\ record[k].pid # NoPid /\ record[k].owner # b
  /\ k \notin Drivers
  /\ cli[record[k].pid] = "running"

\* Mutant: a run is only adopted when it has left a result.
AdoptableFinished(b, k) ==
  /\ record[k].pid # NoPid /\ record[k].owner # b
  /\ k \notin Drivers
  /\ cli[record[k].pid] = "finished"

\* A record of another process, resumable, whose run lives or left a result.
Adoptable(b, k) ==
  /\ record[k].pid # NoPid /\ record[k].owner # b
  /\ k \notin Drivers
  /\ cli[record[k].pid] \in {"running", "finished"}

----------------------------------------------------------------------------
(* A bridge process.                                                       *)

\* Registration prunes the records and reports the tasks this process can
\* adopt; the server puts their rows, and all messages, back in the queue.
Start(b) ==
  /\ b \in Fresh(Bridges, bridge) /\ \A c \in Bridges : bridge[c] \in {"off", "gone"}
  /\ bridge' = [bridge EXCEPT ![b] = "up"]
  /\ record' = [k \in Keys |-> IF Adoptable(b, k) THEN record[k] ELSE None]
  /\ row' = [k \in Keys |->
       IF row[k] # "held" THEN row[k]
       ELSE IF k \notin TaskKeys \/ Adoptable(b, k) THEN "queued" ELSE "closed"]
  /\ UNCHANGED <<work, tracked, clis, answers, crashes, history>>

\* The last bridge is not told to stop.
Another == \E b \in Bridges : bridge[b] = "off"

\* The signal handler kills what must not outlive the bridge.
Shutdown(b) ==
  /\ bridge[b] = "up" /\ Another
  /\ bridge' = [bridge EXCEPT ![b] = "stopping"]
  /\ cli' = Killed({p \in tracked[b] : keyOf[p] \in Drivers})
  /\ UNCHANGED <<work, tracked, record, keyOf, server, crashes, history>>

Unfinished(b, ks) == {on[b][k] : k \in {x \in ks : turn[b][x] # "off"}} \ {NoPid}
InSpawn(b) == {k \in Keys : turn[b][k] \in {"forked", "feeding"}}

Leave(b) ==
  /\ bridge' = [bridge EXCEPT ![b] = "gone"]
  /\ turn' = [turn EXCEPT ![b] = [k \in Keys |-> "off"]]
  /\ on' = [on EXCEPT ![b] = [k \in Keys |-> NoPid]]
  /\ tracked' = [tracked EXCEPT ![b] = {}]
  /\ again' = {w \in again : w[1] # b}
  /\ unacked' = unacked \cup {k \in Keys : turn[b][k] = "closing" /\ answers[k] > 0}
  /\ dropped' = dropped \cup {k \in Keys : turn[b][k] = "answering" /\ record[k] = None}

\* Mutant: no backstop at the exit.
ExitUnswept(b) ==
  /\ bridge[b] = "stopping"
  /\ Leave(b) /\ loose' = loose \cup Unfinished(b, InSpawn(b))
  /\ UNCHANGED <<cuts, record, clis, server, crashes>>

\* The process ends with its handlers pending; atexit kills once more.
Exit(b) ==
  /\ bridge[b] = "stopping"
  /\ Leave(b) /\ loose' = loose \cup Unfinished(b, InSpawn(b))
  /\ cli' = Killed({p \in tracked[b] : keyOf[p] \in Drivers})
  /\ UNCHANGED <<cuts, record, keyOf, server, crashes>>

Crash(b) ==
  /\ bridge[b] \in {"up", "stopping"} /\ Another
  /\ crashes < MaxCrashes /\ crashes' = crashes + 1
  /\ Leave(b) /\ loose' = loose \cup Unfinished(b, InSpawn(b) \cup Drivers)
  /\ UNCHANGED <<cuts, record, clis, server>>

----------------------------------------------------------------------------
(* A turn.                                                                 *)

Deliver(b, k) ==
  /\ bridge[b] = "up" /\ row[k] = "queued"
  /\ row' = [row EXCEPT ![k] = "held"]
  /\ To(b, k, "preparing")
  /\ UNCHANGED <<process, on, again, cuts, tracked, record, clis, answers, history>>

Adopt(b, k) ==
  /\ Works(b) /\ turn[b][k] = "preparing" /\ Adoptable(b, k)
  /\ To(b, k, "reading") /\ on' = [on EXCEPT ![b][k] = record[k].pid]
  /\ UNCHANGED <<process, again, cuts, tracked, record, clis, server, history>>

\* Nothing to adopt: the directory is made anew and the CLI forked at once;
\* the rest of the creation is awaited.
Fork(b, k) ==
  /\ Works(b) /\ turn[b][k] = "preparing" /\ ~Adoptable(b, k)
  /\ \E p \in Fresh(Pids, cli) :
       /\ cli' = [cli EXCEPT ![p] = "running"]
       /\ keyOf' = [keyOf EXCEPT ![p] = k]
       /\ on' = [on EXCEPT ![b][k] = p]
  /\ record' = [record EXCEPT ![k] = Bare(b)]
  /\ To(b, k, "forked")
  /\ UNCHANGED <<process, again, cuts, tracked, server, history>>

\* meta.json is written; a long prompt is still being fed to the CLI, and the
\* run is not tracked before that is over.
Recorded(b, k, fed) ==
  /\ Works(b) /\ turn[b][k] = "forked"
  /\ record' = [record EXCEPT ![k] = Meta(on[b][k], b)]
  /\ IF fed
     THEN To(b, k, "reading") /\ tracked' = [tracked EXCEPT ![b] = @ \cup {on[b][k]}]
     ELSE To(b, k, "feeding") /\ UNCHANGED tracked
  /\ UNCHANGED <<process, on, again, cuts, clis, server, history>>

Fed(b, k) ==
  /\ Works(b) /\ turn[b][k] = "feeding"
  /\ To(b, k, "reading") /\ tracked' = [tracked EXCEPT ![b] = @ \cup {on[b][k]}]
  /\ UNCHANGED <<process, on, again, cuts, record, clis, server, history>>

CliEnds(p, how) ==
  /\ cli[p] = "running"
  /\ cli' = [cli EXCEPT ![p] = how]
  /\ UNCHANGED <<process, work, tracked, record, keyOf, server, history>>

\* A bridge that is shutting down leaves a resumable run and its record alone.
LeftAlone(b, k) == bridge[b] = "stopping" /\ k \notin Drivers

\* The finally of the call: kill and discard.
Reap(b, k) ==
  /\ cli' = IF LeftAlone(b, k) THEN cli ELSE Killed({on[b][k]})
  /\ record' = IF LeftAlone(b, k) THEN record ELSE [record EXCEPT ![k] = None]

\* The turn has no run any more; what it has still to send is its stage.
Over(b, k, stage) ==
  /\ To(b, k, stage) /\ on' = [on EXCEPT ![b][k] = NoPid]
  /\ again' = again \ {<<b, k>>}

\* The event file is read to its end and the run let go of, with its record,
\* before anything is sent: the turn has the result in hand, or has failed.
Read(b, k) ==
  /\ Works(b) /\ turn[b][k] = "reading" /\ cli[on[b][k]] # "running"
  /\ Reap(b, k)
  /\ Over(b, k, IF cli[on[b][k]] = "finished" THEN "answering" ELSE "closing")
  /\ UNCHANGED <<process, cuts, tracked, keyOf, server, history>>

\* Mutant: the result of a task is posted before the task is completed.
AnsweredApart(b, k) ==
  /\ Works(b) /\ turn[b][k] = "answering"
  /\ answers' = [answers EXCEPT ![k] = @ + 1]
  /\ To(b, k, "closing")
  /\ UNCHANGED <<process, on, again, cuts, tracked, record, clis, row, history>>

\* The result arrives.  complete_task posts it and closes the task in one call;
\* the reply to a message is posted by its handler and leaves the ack to do.
Answered(b, k) ==
  /\ Works(b) /\ turn[b][k] = "answering"
  /\ answers' = [answers EXCEPT ![k] = @ + 1]
  /\ IF k \in TaskKeys
     THEN To(b, k, "off") /\ row' = [row EXCEPT ![k] = "closed"]
     ELSE To(b, k, "closing") /\ UNCHANGED row
  /\ UNCHANGED <<process, on, again, cuts, tracked, record, clis, history>>

\* The ack or the failure report arrives, or it is lost or refused: nothing
\* sends it again.
Closed(b, k) ==
  /\ Works(b) /\ turn[b][k] = "closing" /\ To(b, k, "off")
  /\ \/ row' = [row EXCEPT ![k] = "closed"] /\ UNCHANGED unacked
     \/ /\ UNCHANGED row
        /\ unacked' = IF answers[k] > 0 THEN unacked \cup {k} ELSE unacked
  /\ UNCHANGED <<process, on, again, cuts, tracked, record, clis, answers, loose, dropped>>

\* Mutant: the first session is left running.
RespawnBeside(b, k) ==
  /\ Works(b) /\ turn[b][k] = "reading" /\ cli[on[b][k]] = "running"
  /\ <<b, k>> \notin again
  /\ again' = again \cup {<<b, k>>}
  /\ record' = [record EXCEPT ![k] = None]
  /\ To(b, k, "preparing") /\ on' = [on EXCEPT ![b][k] = NoPid]
  /\ UNCHANGED <<process, cuts, tracked, clis, server, history>>

\* A session without its MCP tools is killed; one more is started, and the
\* turn fails if that one has none either.
Respawn(b, k) ==
  /\ Works(b) /\ turn[b][k] = "reading" /\ cli[on[b][k]] = "running"
  /\ cli' = Killed({on[b][k]})
  /\ record' = IF LeftAlone(b, k) THEN record ELSE [record EXCEPT ![k] = None]
  /\ \/ /\ <<b, k>> \notin again /\ again' = again \cup {<<b, k>>}
        /\ To(b, k, "preparing") /\ on' = [on EXCEPT ![b][k] = NoPid]
     \/ <<b, k>> \in again /\ Over(b, k, "closing")
  /\ UNCHANGED <<process, cuts, tracked, keyOf, server, history>>

\* A stop, the timeout, or a result that is refused: the failure is reported or
\* the message acknowledged.  A creation that is cancelled kills its child; a CLI
\* that is still being fed is known to nobody.
Cut(b, k) ==
  /\ Works(b) /\ turn[b][k] \in {"preparing", "forked", "feeding", "reading", "answering"}
  /\ cuts < MaxCuts /\ cuts' = cuts + 1
  /\ CASE turn[b][k] = "reading" -> Reap(b, k)
       [] turn[b][k] = "forked" -> cli' = Killed({on[b][k]}) /\ UNCHANGED record
       [] OTHER -> UNCHANGED <<cli, record>>
  /\ loose' = IF turn[b][k] = "feeding" THEN loose \cup {on[b][k]} ELSE loose
  /\ Over(b, k, "closing")
  /\ UNCHANGED <<process, tracked, keyOf, server, unacked, dropped>>

----------------------------------------------------------------------------
Hows == {"finished", "died"}

TurnStep(b, k) ==
  \/ Adopt(b, k) \/ Fork(b, k) \/ Fed(b, k) \/ Read(b, k) \/ Answered(b, k) \/ Closed(b, k)
  \/ \E fed \in BOOLEAN : Recorded(b, k, fed)

Next ==
  \/ \E b \in Bridges :
       \/ Start(b) \/ Shutdown(b) \/ Exit(b) \/ Crash(b)
       \/ \E k \in Keys : Deliver(b, k) \/ TurnStep(b, k) \/ Respawn(b, k) \/ Cut(b, k)
  \/ \E p \in Pids, how \in Hows : CliEnds(p, how)

Spec == Init /\ [][Next]_vars

\* A bridge is started again, handlers run, the CLI ends, the server redelivers.
Fairness ==
  /\ WF_vars(\E b \in Bridges : Start(b))
  /\ \A b \in Bridges : WF_vars(Exit(b))
  /\ \A b \in Bridges, k \in Keys : WF_vars(Deliver(b, k)) /\ WF_vars(TurnStep(b, k))
  /\ \A p \in Pids : WF_vars(\E how \in Hows : CliEnds(p, how))

FairSpec == Spec /\ Fairness

----------------------------------------------------------------------------
Stages == {"off", "preparing", "forked", "feeding", "reading", "answering", "closing"}

Typed ==
  /\ bridge \in [Bridges -> {"off", "up", "stopping", "gone"}]
  /\ turn \in [Bridges -> [Keys -> Stages]]
  /\ on \in [Bridges -> [Keys -> Pids \cup {NoPid}]]
  /\ again \subseteq Bridges \X Keys
  /\ tracked \in [Bridges -> SUBSET Pids]
  /\ record \in [Keys -> [pid : Pids \cup {NoPid}, owner : Bridges \cup {NoBridge}]]
  /\ cli \in [Pids -> {"off", "running", "finished", "died"}] /\ keyOf \in [Pids -> Keys \cup {NoKey}]
  /\ row \in [Keys -> {"queued", "held", "closed"}]
  /\ answers \in [Keys -> Nat]
  /\ loose \subseteq Pids /\ unacked \subseteq Keys /\ dropped \subseteq Keys
  /\ crashes \in 0..MaxCrashes /\ cuts \in 0..MaxCuts

\* Every variable has its type, and a key is answered no more often than
\* there are bridges.
TypeOK == Typed /\ \A k \in Keys : answers[k] <= Cardinality(Bridges)

\* Two runs never work on one task or message side by side.  Here and below a
\* process that is loose is in nobody's hands: one whose bridge or turn went
\* while spawn() fed it is not tracked nor, if only just forked, on record, and
\* a machine-driving one of a killed bridge is on a record nobody adopts.
OneRunPerKey ==
  \A p, q \in Pids \ loose :
    cli[p] = "running" /\ cli[q] = "running" /\ keyOf[p] = keyOf[q] => p = q

\* A run that goes on is in the hands of a turn or on record for a later one.
NoOrphan ==
  \A p \in Pids \ loose :
    cli[p] = "running" =>
      \/ \E b \in Bridges : on[b][keyOf[p]] = p
      \/ record[keyOf[p]].pid = p

\* A task is answered once, whatever bridges read its event file; a message is
\* answered again only if a turn that had answered it ended without its ack:
\* with its bridge, or with an ack that was lost or refused.
AnsweredOnceIfAcked == \A k \in Keys : answers[k] > 1 => k \in unacked \ TaskKeys

\* A run that drives the machine ends with the bridge that started it, unless
\* that is killed outright.
DriversDie ==
  \A p \in Pids \ loose :
    cli[p] = "running" /\ keyOf[p] \in Drivers =>
      \E b \in Bridges : bridge[b] \in {"up", "stopping"} /\ on[b][keyOf[p]] = p

\* Every run that goes on is in somebody's hands, and one that drives the
\* machine in those of a bridge that is there.
RunsInHand == TypeOK /\ NoOrphan /\ DriversDie

\* What a resumable run has finished reaches the user, whichever bridge is
\* there then, unless the turn is cut, the run is loose, or the bridge went
\* between discarding the record and the arrival of the result.
ResultDelivered ==
  \A p \in Pids :
    cli[p] = "finished" /\ keyOf[p] \notin Drivers
    ~> \/ cuts > 0 \/ p \in loose
       \/ \E k \in Keys : keyOf[p] = k /\ (answers[k] > 0 \/ k \in dropped)
=============================================================================
