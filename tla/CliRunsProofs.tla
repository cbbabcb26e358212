----------------------------- MODULE CliRunsProofs ----------------------------
(***************************************************************************)
(* Proofs about CliRuns, for any number of bridges, keys and processes.    *)
(* Whose a run is follows from three things that only hold together: where *)
(* the turn that has it stands, what the record of its key says, and what  *)
(* the bridge tracks.  The invariant states them one by one.               *)
(***************************************************************************)
EXTENDS CliRuns, FiniteSetTheorems, TLAPS

\* One bridge at a time works, and one that does not has no turns.
OneAtATime == \A b, c \in Bridges : Works(b) /\ Works(c) => b = c
AwayIdle   == \A b \in Bridges, k \in Keys : turn[b][k] # "off" => Works(b)

\* A process that was started has a key.
Spawned == \A p \in Pids : cli[p] # "off" => keyOf[p] \in Keys

\* A turn past the fork has a run, of its key, that was started.
Engaged == {"forked", "feeding", "reading"}
HandsMatch ==
  \A b \in Bridges, k \in Keys :
    /\ on[b][k] # NoPid <=> turn[b][k] \in Engaged
    /\ on[b][k] # NoPid => cli[on[b][k]] # "off" /\ keyOf[on[b][k]] = k

\* The record of a key names a run of that key, and the one its turn has.
RecordsMatch ==
  /\ \A k \in Keys : record[k].pid # NoPid =>
       cli[record[k].pid] # "off" /\ keyOf[record[k].pid] = k
  /\ \A b \in Bridges, k \in Keys :
       /\ record[k].owner = b => bridge[b] # "off"
       /\ turn[b][k] = "forked" => record[k].pid = NoPid
       /\ turn[b][k] \in {"feeding", "reading"} => record[k].pid = on[b][k]

\* What is in nobody's hands has been started.
LooseStarted == \A p \in loose : cli[p] # "off"

\* A machine-driving run that a turn reads is tracked: the exit will kill it.
DriversTracked ==
  \A b \in Bridges, k \in Keys :
    turn[b][k] = "reading" /\ k \in Drivers => on[b][k] \in tracked[b]

\* A bridge works on what its own records say is running, until it stops: then
\* a turn that is cut leaves its run to the next one.
Idle == {"off", "answering", "closing"}
OwnRunsServed ==
  \A b \in Bridges, k \in Keys : \A p \in Pids \ loose :
    Works(b) /\ record[k] = Meta(p, b) /\ cli[p] = "running" =>
      on[b][k] = p \/ (bridge[b] = "stopping" /\ turn[b][k] \in Idle)

\* A turn holds its row.
RowHeld == \A b \in Bridges, k \in Keys : turn[b][k] # "off" => row[k] = "held"

Structure ==
  /\ OneAtATime /\ AwayIdle /\ Spawned /\ HandsMatch /\ RecordsMatch /\ LooseStarted
  /\ DriversTracked /\ OwnRunsServed /\ RowHeld
Safety == NoOrphan /\ DriversDie /\ OneRunPerKey

\* What the actions rely on and what they keep.
RunsInv == Typed /\ Structure /\ Safety

----------------------------------------------------------------------------
(* Every action keeps the invariant.                                       *)

\* What Fresh offers has not started.
LEMMA FreshIsOff ==
  ASSUME NEW S, NEW state, NEW x \in Fresh(S, state)
  PROVE  x \in S /\ state[x] = "off"
  BY DEF Fresh

\* A new bridge finds no other at work, and keeps what it can adopt.
LEMMA StartKeeps ==
  ASSUME RunsInv, NEW b \in Bridges, Start(b)
  PROVE  RunsInv'
<1> USE CliAssumption DEF RunsInv, Structure, Safety, Start, None, process, work, clis, server,
     history
<1>a. \A c \in Bridges, k \in Keys : turn[c][k] = "off"
  BY DEF AwayIdle, Works
<1>1. Typed'
  BY FreshIsOff DEF Typed, Stages
<1>2. OneAtATime' /\ AwayIdle'
  BY FreshIsOff DEF Typed, Stages, OneAtATime, AwayIdle, Works
<1>3. Spawned'
  BY FreshIsOff DEF Typed, Stages, Spawned
<1>4. HandsMatch'
  BY FreshIsOff DEF Typed, Stages, HandsMatch, Engaged, AwayIdle, RecordsMatch
<1>5. RecordsMatch'
  <2>2. \A k \in Keys : record'[k] = record[k] \/ record'[k] = None
    OBVIOUS
  <2> QED
    BY <1>a, <2>2, FreshIsOff DEF RecordsMatch
<1>6. LooseStarted'
  BY FreshIsOff DEF Typed, Stages, LooseStarted, HandsMatch
<1>7. DriversTracked'
  BY FreshIsOff DEF Typed, Stages, DriversTracked
<1>8. OwnRunsServed'
  BY FreshIsOff DEF Typed, Stages, OwnRunsServed, Idle, HandsMatch, RecordsMatch, LooseStarted,
       Engaged,
       Works, Meta, OneAtATime
<1>9. RowHeld'
  BY <1>a DEF RowHeld
<1>10. NoOrphan'
  <2> SUFFICES ASSUME NEW p \in Pids \ loose, cli[p] = "running"
               PROVE  record'[keyOf[p]].pid = p
    BY DEF NoOrphan
  <2>1. \A c \in Bridges, k \in Keys : on[c][k] = NoPid
    BY <1>a DEF HandsMatch, Engaged
  <2>2. keyOf[p] \notin Drivers /\ record[keyOf[p]].pid = p /\ keyOf[p] \in Keys
    BY <2>1, CliAssumption DEF NoOrphan, DriversDie, Spawned
  <2>3. record[keyOf[p]].owner # b
    BY <2>2, FreshIsOff DEF RecordsMatch
  <2> QED
    BY <2>2, <2>3 DEF Adoptable
<1>11. DriversDie'
  BY FreshIsOff DEF Typed, Stages, DriversDie, HandsMatch, DriversTracked, OneAtATime, AwayIdle,
       Works, Engaged, RecordsMatch
<1>12. OneRunPerKey'
  BY FreshIsOff DEF Typed, Stages, OneRunPerKey, NoOrphan, DriversDie, HandsMatch, RecordsMatch,
       OwnRunsServed, OneAtATime, AwayIdle, Works, Meta, Engaged
<1> QED
  BY <1>1, <1>2, <1>3, <1>4, <1>5, <1>6, <1>7, <1>8, <1>9, <1>10, <1>11, <1>12

\* The signal kills what drives the machine, no more.
LEMMA ShutdownKeeps ==
  ASSUME RunsInv, NEW b \in Bridges, Shutdown(b)
  PROVE  RunsInv'
<1> USE CliAssumption DEF RunsInv, Structure, Safety, Shutdown, Killed, work, server, history
<1>1. Typed'
  BY DEF Typed, Stages
<1>2. OneAtATime' /\ AwayIdle'
  BY DEF Typed, Stages, OneAtATime, AwayIdle, Works
<1>3. Spawned'
  BY DEF Typed, Stages, Spawned
<1>4. HandsMatch'
  BY DEF Typed, Stages, HandsMatch, Engaged, AwayIdle, RecordsMatch
<1>5. RecordsMatch'
  BY DEF Typed, Stages, RecordsMatch, HandsMatch, Engaged, AwayIdle, OneAtATime
<1>6. LooseStarted'
  BY DEF Typed, Stages, LooseStarted, HandsMatch
<1>7. DriversTracked'
  BY DEF Typed, Stages, DriversTracked
<1>8. OwnRunsServed'
  BY DEF Typed, Stages, OwnRunsServed, Idle, HandsMatch, RecordsMatch, LooseStarted, Engaged,
       Works, Meta,
       OneAtATime
<1>9. RowHeld'
  BY DEF Typed, Stages, RowHeld, AwayIdle
<1>10. NoOrphan'
  BY DEF Typed, Stages, NoOrphan, HandsMatch, RecordsMatch, OwnRunsServed, Idle, OneAtATime,
       AwayIdle,
       Works, Engaged
<1>11. DriversDie'
  BY DEF Typed, Stages, DriversDie, HandsMatch, DriversTracked, OneAtATime, AwayIdle, Works,
       Engaged, RecordsMatch
<1>12. OneRunPerKey'
  BY DEF Typed, Stages, OneRunPerKey, NoOrphan, DriversDie, HandsMatch, RecordsMatch,
       OwnRunsServed, Idle,
       OneAtATime, AwayIdle, Works, Meta, Engaged
<1> QED
  BY <1>1, <1>2, <1>3, <1>4, <1>5, <1>6, <1>7, <1>8, <1>9, <1>10, <1>11, <1>12

\* What the bridge leaves behind at its exit is loose, on record or killed.
LEMMA ExitKeeps ==
  ASSUME RunsInv, NEW b \in Bridges, Exit(b)
  PROVE  RunsInv'
<1> USE CliAssumption DEF RunsInv, Structure, Safety, Exit, Leave, Unfinished, InSpawn, Killed,
     server
<1>1. Typed'
  BY DEF Typed, Stages
<1>2. OneAtATime' /\ AwayIdle'
  BY DEF Typed, Stages, OneAtATime, AwayIdle, Works
<1>3. Spawned'
  BY DEF Typed, Stages, Spawned
<1>4. HandsMatch'
  BY DEF Typed, Stages, HandsMatch, Engaged, AwayIdle, RecordsMatch
<1>5. RecordsMatch'
  BY DEF Typed, Stages, RecordsMatch, HandsMatch, Engaged, AwayIdle, OneAtATime
<1>6. LooseStarted'
  BY DEF Typed, Stages, LooseStarted, HandsMatch
<1>7. DriversTracked'
  BY DEF Typed, Stages, DriversTracked
<1>8. OwnRunsServed'
  BY DEF Typed, Stages, OwnRunsServed, Idle, HandsMatch, RecordsMatch, LooseStarted, Engaged,
       Works, Meta,
       OneAtATime
<1>9. RowHeld'
  BY DEF Typed, Stages, RowHeld, AwayIdle
<1>10. NoOrphan'
  <2> SUFFICES ASSUME NEW p \in Pids \ loose', cli'[p] = "running"
               PROVE  record[keyOf[p]].pid = p
    BY DEF NoOrphan
  <2>1. p \notin loose /\ cli[p] = "running"
    OBVIOUS
  <2>2. ASSUME NEW c \in Bridges, on[c][keyOf[p]] = p, keyOf[p] \in Keys
        PROVE  c = b /\ turn[b][keyOf[p]] = "reading"
    <3>1. turn[c][keyOf[p]] \in Engaged
      BY <2>2 DEF HandsMatch
    <3>2. c = b
      BY <3>1, <2>2 DEF AwayIdle, OneAtATime, Works, Engaged
    <3>3. turn[b][keyOf[p]] \notin {"forked", "feeding"}
      BY <3>2, <2>2 DEF Unfinished
    <3> QED
      BY <3>1, <3>2, <3>3 DEF Engaged
  <2>3. keyOf[p] \in Keys
    BY <2>1 DEF Spawned
  <2> QED
    BY <2>1, <2>2, <2>3 DEF NoOrphan, RecordsMatch
<1>11. DriversDie'
  <2> SUFFICES ASSUME NEW p \in Pids \ loose', cli'[p] = "running", keyOf[p] \in Drivers
               PROVE  FALSE
    BY DEF DriversDie
  <2>1. keyOf[p] \in Keys /\ p \notin loose /\ cli[p] = "running"
    BY DEF Spawned
  <2>2. PICK c \in Bridges : Works(c) /\ on[c][keyOf[p]] = p
    BY <2>1 DEF DriversDie, Works
  <2>3. c = b
    BY <2>2 DEF OneAtATime, Works
  <2>4. turn[b][keyOf[p]] \in Engaged \ {"forked", "feeding"}
    BY <2>1, <2>2, <2>3 DEF HandsMatch
  <2> QED
    BY <2>1, <2>2, <2>3, <2>4 DEF DriversTracked, Engaged
<1>12. OneRunPerKey'
  BY DEF Typed, Stages, OneRunPerKey, NoOrphan, DriversDie, HandsMatch, RecordsMatch,
       OwnRunsServed, Idle,
       OneAtATime, AwayIdle, Works, Meta, Engaged
<1> QED
  BY <1>1, <1>2, <1>3, <1>4, <1>5, <1>6, <1>7, <1>8, <1>9, <1>10, <1>11, <1>12

\* A bridge that is killed loses what it was forking and what drives the machine.
LEMMA CrashKeeps ==
  ASSUME RunsInv, NEW b \in Bridges, Crash(b)
  PROVE  RunsInv'
<1> USE CliAssumption DEF RunsInv, Structure, Safety, Crash, Leave, Unfinished, InSpawn, clis,
     server
<1>1. Typed'
  BY DEF Typed, Stages
<1>2. OneAtATime' /\ AwayIdle'
  BY DEF Typed, Stages, OneAtATime, AwayIdle, Works
<1>3. Spawned'
  BY DEF Typed, Stages, Spawned
<1>4. HandsMatch'
  BY DEF Typed, Stages, HandsMatch, Engaged, AwayIdle, RecordsMatch
<1>5. RecordsMatch'
  BY DEF Typed, Stages, RecordsMatch, HandsMatch, Engaged, AwayIdle, OneAtATime
<1>6. LooseStarted'
  BY DEF Typed, Stages, LooseStarted, HandsMatch
<1>7. DriversTracked'
  BY DEF Typed, Stages, DriversTracked
<1>8. OwnRunsServed'
  BY DEF Typed, Stages, OwnRunsServed, Idle, HandsMatch, RecordsMatch, LooseStarted, Engaged,
       Works, Meta,
       OneAtATime
<1>9. RowHeld'
  BY DEF Typed, Stages, RowHeld, AwayIdle
<1>10. NoOrphan'
  <2> SUFFICES ASSUME NEW p \in Pids \ loose', cli'[p] = "running"
               PROVE  record[keyOf[p]].pid = p
    BY DEF NoOrphan
  <2>1. p \notin loose /\ cli[p] = "running"
    OBVIOUS
  <2>2. ASSUME NEW c \in Bridges, on[c][keyOf[p]] = p, keyOf[p] \in Keys
        PROVE  c = b /\ turn[b][keyOf[p]] = "reading"
    <3>1. turn[c][keyOf[p]] \in Engaged
      BY <2>2 DEF HandsMatch
    <3>2. c = b
      BY <3>1, <2>2 DEF AwayIdle, OneAtATime, Works, Engaged
    <3>3. turn[b][keyOf[p]] \notin {"forked", "feeding"}
      BY <3>2, <2>2 DEF Unfinished
    <3> QED
      BY <3>1, <3>2, <3>3 DEF Engaged
  <2>3. keyOf[p] \in Keys
    BY <2>1 DEF Spawned
  <2> QED
    BY <2>1, <2>2, <2>3 DEF NoOrphan, RecordsMatch
<1>11. DriversDie'
  <2> SUFFICES ASSUME NEW p \in Pids \ loose', cli[p] = "running", keyOf[p] \in Drivers
               PROVE  FALSE
    BY DEF DriversDie
  <2>1. PICK c \in Bridges : Works(c) /\ on[c][keyOf[p]] = p
    BY DEF DriversDie, Works
  <2>2. keyOf[p] \in Keys /\ p \notin loose
    BY DEF Spawned
  <2>3. c = b
    BY <2>1 DEF OneAtATime, Works
  <2>4. turn[b][keyOf[p]] # "off"
    BY <2>1, <2>2, <2>3 DEF HandsMatch, Engaged
  <2> QED
    BY <2>1, <2>2, <2>3, <2>4
<1>12. OneRunPerKey'
  BY DEF Typed, Stages, OneRunPerKey, NoOrphan, DriversDie, HandsMatch, RecordsMatch,
       OwnRunsServed, Idle,
       OneAtATime, AwayIdle, Works, Meta, Engaged
<1> QED
  BY <1>1, <1>2, <1>3, <1>4, <1>5, <1>6, <1>7, <1>8, <1>9, <1>10, <1>11, <1>12

\* A turn that has only been delivered has no run.
LEMMA DeliverKeeps ==
  ASSUME RunsInv, NEW b \in Bridges, NEW k \in Keys, Deliver(b, k)
  PROVE  RunsInv'
<1> USE CliAssumption DEF RunsInv, Structure, Safety, Deliver, To, process, clis, history
<1>1. Typed'
  BY DEF Typed, Stages
<1>2. OneAtATime' /\ AwayIdle'
  BY DEF Typed, Stages, OneAtATime, AwayIdle, Works
<1>3. Spawned'
  BY DEF Typed, Stages, Spawned
<1>4. HandsMatch'
  BY DEF Typed, Stages, HandsMatch, Engaged, RowHeld
<1>5. RecordsMatch'
  BY DEF Typed, Stages, RecordsMatch, HandsMatch, Engaged, AwayIdle, OneAtATime
<1>6. LooseStarted'
  BY DEF Typed, Stages, LooseStarted, HandsMatch
<1>7. DriversTracked'
  BY DEF Typed, Stages, DriversTracked
<1>8. OwnRunsServed'
  BY DEF Typed, Stages, OwnRunsServed, Idle, HandsMatch, RecordsMatch, LooseStarted, Engaged,
       Works, Meta,
       OneAtATime
<1>9. RowHeld'
  BY DEF Typed, Stages, RowHeld, AwayIdle
<1>10. NoOrphan'
  BY DEF Typed, Stages, NoOrphan, HandsMatch, RecordsMatch, OwnRunsServed, Idle, OneAtATime,
       AwayIdle,
       Works, Engaged
<1>11. DriversDie'
  BY DEF Typed, Stages, DriversDie, HandsMatch, DriversTracked, OneAtATime, AwayIdle, Works,
       Engaged, RecordsMatch
<1>12. OneRunPerKey'
  BY DEF Typed, Stages, OneRunPerKey, NoOrphan, DriversDie, HandsMatch, RecordsMatch,
       OwnRunsServed, Idle,
       OneAtATime, AwayIdle, Works, Meta, Engaged
<1> QED
  BY <1>1, <1>2, <1>3, <1>4, <1>5, <1>6, <1>7, <1>8, <1>9, <1>10, <1>11, <1>12

\* A turn adopts what is on record for its key.
LEMMA AdoptKeeps ==
  ASSUME RunsInv, NEW b \in Bridges, NEW k \in Keys, Adopt(b, k)
  PROVE  RunsInv'
<1> USE CliAssumption DEF RunsInv, Structure, Safety, Adopt, Adoptable, To, process, clis,
     server, history
<1>1. Typed'
  BY DEF Typed, Stages
<1>2. OneAtATime' /\ AwayIdle'
  BY DEF Typed, Stages, OneAtATime, AwayIdle, Works
<1>3. Spawned'
  BY DEF Typed, Stages, Spawned
<1>4. HandsMatch'
  BY DEF Typed, Stages, HandsMatch, Engaged, AwayIdle, RecordsMatch
<1>5. RecordsMatch'
  BY DEF Typed, Stages, RecordsMatch, HandsMatch, Engaged, AwayIdle, OneAtATime
<1>6. LooseStarted'
  BY DEF Typed, Stages, LooseStarted, HandsMatch
<1>7. DriversTracked'
  BY DEF Typed, Stages, DriversTracked
<1>8. OwnRunsServed'
  BY DEF Typed, Stages, OwnRunsServed, Idle, HandsMatch, RecordsMatch, LooseStarted, Engaged,
       Works, Meta,
       OneAtATime
<1>9. RowHeld'
  BY DEF Typed, Stages, RowHeld, AwayIdle
<1>10. NoOrphan'
  <2> SUFFICES ASSUME NEW p \in Pids \ loose, cli[p] = "running"
               PROVE  (\E c \in Bridges : on'[c][keyOf[p]] = p) \/ record[keyOf[p]].pid = p
    BY DEF NoOrphan
  <2>1. keyOf[p] \in Keys /\ on[b][k] = NoPid
    BY DEF Spawned, HandsMatch, Engaged
  <2>2. ASSUME NEW c \in Bridges, on[c][keyOf[p]] = p  PROVE on'[c][keyOf[p]] = p
    BY <2>1, <2>2 DEF Typed
  <2> QED
    BY <2>1, <2>2 DEF NoOrphan
<1>11. DriversDie'
  BY DEF Typed, Stages, DriversDie, HandsMatch, DriversTracked, OneAtATime, AwayIdle, Works,
       Engaged, RecordsMatch
<1>12. OneRunPerKey'
  BY DEF Typed, Stages, OneRunPerKey, NoOrphan, DriversDie, HandsMatch, RecordsMatch,
       OwnRunsServed, Idle,
       OneAtATime, AwayIdle, Works, Meta, Engaged
<1> QED
  BY <1>1, <1>2, <1>3, <1>4, <1>5, <1>6, <1>7, <1>8, <1>9, <1>10, <1>11, <1>12

\* A turn that finds nothing to adopt starts a run, and no other of its key goes on.
LEMMA ForkKeeps ==
  ASSUME RunsInv, NEW b \in Bridges, NEW k \in Keys, Fork(b, k)
  PROVE  RunsInv'
<1> USE CliAssumption DEF RunsInv, Structure, Safety, process, server, history
<1>f. PICK p \in Fresh(Pids, cli) :
        /\ cli' = [cli EXCEPT ![p] = "running"]
        /\ keyOf' = [keyOf EXCEPT ![p] = k]
        /\ on' = [on EXCEPT ![b][k] = p]
  BY DEF Fork
<1>a. p \in Pids /\ cli[p] = "off"
  BY FreshIsOff
<1>b. /\ turn[b][k] = "preparing" /\ turn' = [turn EXCEPT ![b][k] = "forked"]
      /\ Works(b) /\ ~Adoptable(b, k)
      /\ record' = [record EXCEPT ![k] = [pid |-> NoPid, owner |-> b]]
      /\ UNCHANGED <<process, again, cuts, tracked, server, history>>
  BY DEF Fork, To, Bare
<1>c. \A q \in Pids \ loose : cli[q] = "running" => keyOf[q] # k
  <2> SUFFICES ASSUME NEW q \in Pids \ loose, cli[q] = "running", keyOf[q] = k
               PROVE  FALSE
    OBVIOUS
  <2>1. ASSUME NEW c \in Bridges  PROVE on[c][k] # q
    <3>1. on[c][k] = q => turn[c][k] \in Engaged
      BY DEF HandsMatch
    <3> QED
      BY <3>1, <1>b DEF Engaged, AwayIdle, OneAtATime
  <2>2. record[k].pid = q /\ k \notin Drivers
    BY <2>1 DEF NoOrphan, DriversDie
  <2>3. record[k] = Meta(q, b)
    BY <2>2, <1>b DEF Adoptable, Meta, Typed, Stages
  <2> QED
    BY <2>1, <2>3, <1>b DEF OwnRunsServed, Idle
<1>1. Typed'
  BY <1>f, <1>a, <1>b DEF Typed, Stages
<1>2. OneAtATime' /\ AwayIdle'
  BY <1>f, <1>a, <1>b DEF Typed, Stages, OneAtATime, AwayIdle, Works
<1>3. Spawned'
  BY <1>f, <1>a, <1>b DEF Typed, Stages, Spawned
<1>4. HandsMatch'
  BY <1>f, <1>a, <1>b DEF Typed, Stages, HandsMatch, Engaged, AwayIdle, RecordsMatch
<1>5. RecordsMatch'
  BY <1>f, <1>a, <1>b DEF Typed, Stages, RecordsMatch, HandsMatch, Engaged, AwayIdle, OneAtATime,
       Works
<1>6. LooseStarted'
  BY <1>f, <1>a, <1>b DEF Typed, Stages, LooseStarted, HandsMatch
<1>7. DriversTracked'
  BY <1>f, <1>a, <1>b DEF Typed, Stages, DriversTracked
<1>8. OwnRunsServed'
  <2> SUFFICES ASSUME NEW c \in Bridges, NEW l \in Keys, NEW q \in Pids \ loose,
                      Works(c), record'[l] = Meta(q, c), cli'[q] = "running"
               PROVE  on'[c][l] = q \/ (bridge[c] = "stopping" /\ turn'[c][l] \in Idle)
    BY <1>b DEF OwnRunsServed, Idle, Works
  <2>1. l # k /\ record[l] = Meta(q, c)
    BY <1>b DEF Meta, Typed, Stages
  <2>2. cli[q] = "running"
    <3>1. record[l].pid = q
      BY <2>1 DEF Meta
    <3>2. cli[q] # "off"
      BY <3>1 DEF RecordsMatch
    <3> QED
      BY <1>f, <1>a, <3>2
  <2> QED
    BY <1>f, <1>b, <2>1, <2>2 DEF OwnRunsServed, Idle
<1>9. RowHeld'
  BY <1>f, <1>a, <1>b DEF Typed, Stages, RowHeld, AwayIdle
<1>10. NoOrphan'
  BY <1>f, <1>a, <1>b, <1>c DEF Typed, Stages, NoOrphan
<1>11. DriversDie'
  BY <1>f, <1>a, <1>b, <1>c DEF Typed, Stages, DriversDie, Works
<1>12. OneRunPerKey'
  BY <1>f, <1>a, <1>b, <1>c DEF Typed, Stages, OneRunPerKey
<1> QED
  BY <1>1, <1>2, <1>3, <1>4, <1>5, <1>6, <1>7, <1>8, <1>9, <1>10, <1>11, <1>12

\* A run that ends is nobody's trouble.
LEMMA CliEndsKeeps ==
  ASSUME RunsInv, NEW p \in Pids, NEW how \in Hows, CliEnds(p, how)
  PROVE  RunsInv'
<1> USE CliAssumption DEF RunsInv, Structure, Safety, CliEnds, Hows, process, work, server, history
<1>1. Typed'
  BY DEF Typed, Stages
<1>2. OneAtATime' /\ AwayIdle'
  BY DEF Typed, Stages, OneAtATime, AwayIdle, Works
<1>3. Spawned'
  BY DEF Typed, Stages, Spawned
<1>4. HandsMatch'
  BY DEF Typed, Stages, HandsMatch, Engaged, AwayIdle, RecordsMatch
<1>5. RecordsMatch'
  BY DEF Typed, Stages, RecordsMatch, HandsMatch, Engaged, AwayIdle, OneAtATime
<1>6. LooseStarted'
  BY DEF Typed, Stages, LooseStarted, HandsMatch
<1>7. DriversTracked'
  BY DEF Typed, Stages, DriversTracked
<1>8. OwnRunsServed'
  BY DEF Typed, Stages, OwnRunsServed, Idle, HandsMatch, RecordsMatch, LooseStarted, Engaged,
       Works, Meta,
       OneAtATime
<1>9. RowHeld'
  BY DEF Typed, Stages, RowHeld, AwayIdle
<1>10. NoOrphan'
  BY DEF Typed, Stages, NoOrphan, HandsMatch, RecordsMatch, OwnRunsServed, Idle, OneAtATime,
       AwayIdle,
       Works, Engaged
<1>11. DriversDie'
  BY DEF Typed, Stages, DriversDie, HandsMatch, DriversTracked, OneAtATime, AwayIdle, Works,
       Engaged, RecordsMatch
<1>12. OneRunPerKey'
  BY DEF Typed, Stages, OneRunPerKey, NoOrphan, DriversDie, HandsMatch, RecordsMatch,
       OwnRunsServed, Idle,
       OneAtATime, AwayIdle, Works, Meta, Engaged
<1> QED
  BY <1>1, <1>2, <1>3, <1>4, <1>5, <1>6, <1>7, <1>8, <1>9, <1>10, <1>11, <1>12

\* What Recorded and Fed do: the run of the turn is put on record, or is there,
\* and it is tracked when its turn comes to read it.
GetsHold(b, k) ==
  /\ Works(b)
  /\ \E stage \in {"feeding", "reading"} :
       /\ turn' = [turn EXCEPT ![b][k] = stage]
       /\ IF stage = "reading"
          THEN tracked' = [tracked EXCEPT ![b] = @ \cup {on[b][k]}]
          ELSE tracked' = tracked
  /\ \/ turn[b][k] = "forked" /\ record' = [record EXCEPT ![k] = Meta(on[b][k], b)]
     \/ turn[b][k] = "feeding" /\ record' = record
  /\ UNCHANGED <<process, on, again, cuts, clis, server, history>>

\* Recorded is of that shape.
LEMMA RecordedGetsHold ==
  ASSUME NEW b \in Bridges, NEW k \in Keys, NEW fed \in BOOLEAN, Recorded(b, k, fed)
  PROVE  GetsHold(b, k)
  BY DEF Recorded, GetsHold, To

\* So is Fed.
LEMMA FedGetsHold ==
  ASSUME NEW b \in Bridges, NEW k \in Keys, Fed(b, k)
  PROVE  GetsHold(b, k)
  BY DEF Fed, GetsHold, To

\* A run on record is the one its turn reads.
LEMMA GetsHoldKeeps ==
  ASSUME RunsInv, NEW b \in Bridges, NEW k \in Keys, GetsHold(b, k)
  PROVE  RunsInv'
<1> USE CliAssumption DEF RunsInv, Structure, Safety, process, clis, server, history
<1>a. PICK stage \in {"feeding", "reading"} :
        /\ turn' = [turn EXCEPT ![b][k] = stage]
        /\ stage = "reading" => tracked' = [tracked EXCEPT ![b] = @ \cup {on[b][k]}]
        /\ stage = "feeding" => tracked' = tracked
  BY DEF GetsHold
<1>b. /\ Works(b) /\ turn[b][k] \in {"forked", "feeding"}
      /\ \A l \in Keys \ {k} : record'[l] = record[l]
      /\ UNCHANGED <<process, on, again, cuts, clis, server, history>>
  BY DEF GetsHold, Typed, Stages
<1>c. on[b][k] \in Pids /\ cli[on[b][k]] # "off" /\ keyOf[on[b][k]] = k
  BY <1>b DEF HandsMatch, Engaged, Typed, Stages
<1>d. record'[k].pid = on[b][k] /\ (record' = record \/ record'[k].owner = b)
  BY <1>b, <1>c DEF GetsHold, Meta, RecordsMatch, Typed, Stages
<1>e. tracked' \in [Bridges -> SUBSET Pids] /\ \A c \in Bridges : tracked[c] \subseteq tracked'[c]
  <2>1. CASE stage = "reading"
    <3>1. tracked[b] \cup {on[b][k]} \in SUBSET Pids /\ tracked \in [Bridges -> SUBSET Pids]
      BY <1>c DEF Typed, Stages
    <3> QED
      BY <2>1, <3>1, <1>a
  <2>2. CASE stage = "feeding"
    BY <2>2, <1>a DEF Typed, Stages
  <2> QED
    BY <2>1, <2>2
<1>1. Typed'
  <2>1. record' \in [Keys -> [pid : Pids \cup {NoPid}, owner : Bridges \cup {NoBridge}]]
    <3>1. record \in [Keys -> [pid : Pids \cup {NoPid}, owner : Bridges \cup {NoBridge}]]
      BY DEF Typed, Stages
    <3>2. Meta(on[b][k], b) \in [pid : Pids \cup {NoPid}, owner : Bridges \cup {NoBridge}]
      BY <1>c DEF Meta
    <3> QED
      BY <3>1, <3>2 DEF GetsHold
  <2>2. turn' \in [Bridges -> [Keys -> Stages]]
    BY <1>a DEF Typed, Stages
  <2> QED
    BY <1>b, <1>e, <2>1, <2>2 DEF Typed, Stages
<1>2. OneAtATime' /\ AwayIdle'
  BY <1>a, <1>b, <1>c, <1>d DEF Typed, Stages, OneAtATime, AwayIdle, Works
<1>3. Spawned'
  BY <1>a, <1>b, <1>c, <1>d DEF Typed, Stages, Spawned
<1>4. HandsMatch'
  BY <1>a, <1>b, <1>c, <1>d DEF Typed, Stages, HandsMatch, Engaged, AwayIdle, RecordsMatch
<1>5. RecordsMatch'
  <2>1. \A l \in Keys : record'[l].pid # NoPid =>
          cli[record'[l].pid] # "off" /\ keyOf[record'[l].pid] = l
    BY <1>b, <1>c, <1>d DEF RecordsMatch
  <2>2. \A c \in Bridges, l \in Keys : record'[l].owner = c => bridge[c] # "off"
    BY <1>b, <1>d DEF RecordsMatch, Works
  <2>3. ASSUME NEW c \in Bridges, turn'[c][k] # "off"  PROVE c = b
    BY <2>3, <1>a, <1>b DEF AwayIdle, OneAtATime
  <2>4. \A c \in Bridges, l \in Keys : turn'[c][l] = "forked" => record'[l].pid = NoPid
    BY <1>a, <1>b, <2>3 DEF RecordsMatch, Typed, Stages
  <2>5. \A c \in Bridges, l \in Keys :
          turn'[c][l] \in {"feeding", "reading"} => record'[l].pid = on[c][l]
    BY <1>a, <1>b, <1>d, <2>3 DEF RecordsMatch
  <2> QED
    BY <1>b, <2>1, <2>2, <2>4, <2>5 DEF RecordsMatch
<1>6. LooseStarted'
  BY <1>a, <1>b, <1>c, <1>d DEF Typed, Stages, LooseStarted, HandsMatch
<1>7. DriversTracked'
  BY <1>a, <1>b, <1>e DEF DriversTracked
<1>8. OwnRunsServed'
  BY <1>a, <1>b, <1>c, <1>d DEF Typed, Stages, OwnRunsServed, Idle, HandsMatch, RecordsMatch,
       LooseStarted, Engaged, Works, Meta, OneAtATime
<1>9. RowHeld'
  BY <1>a, <1>b, <1>c, <1>d DEF Typed, Stages, RowHeld, AwayIdle
<1>10. NoOrphan'
  BY <1>b, <1>c, <1>d DEF NoOrphan, RecordsMatch, Spawned
<1>11. DriversDie'
  BY <1>a, <1>b, <1>c, <1>d DEF Typed, Stages, DriversDie, HandsMatch, DriversTracked, OneAtATime,
       AwayIdle, Works, Engaged, RecordsMatch
<1>12. OneRunPerKey'
  BY <1>a, <1>b, <1>c, <1>d DEF Typed, Stages, OneRunPerKey, NoOrphan, DriversDie, HandsMatch,
       RecordsMatch, OwnRunsServed, Idle, OneAtATime, AwayIdle, Works, Meta, Engaged
<1> QED
  BY <1>1, <1>2, <1>3, <1>4, <1>5, <1>6, <1>7, <1>8, <1>9, <1>10, <1>11, <1>12

\* What a turn counts keeps its type.
CountsTyped ==
  /\ answers' \in [Keys -> Nat] /\ cuts' \in 0..MaxCuts
  /\ unacked' \subseteq Keys /\ dropped' \subseteq Keys

\* What Read, Respawn, Cut, Answered and Closed do: the turn lets go of its run,
\* if it has one, which has ended, is killed, is loose, or is left alone with its
\* record; no other is touched.
LetsGo(b, k) ==
  /\ Works(b) /\ turn[b][k] # "off"
  /\ \E stage \in Idle \cup {"preparing"} : turn' = [turn EXCEPT ![b][k] = stage]
  /\ turn[b][k] \in Idle => turn'[b][k] \in Idle
  /\ on' = [on EXCEPT ![b][k] = NoPid]
  /\ again' \subseteq again \cup {<<b, k>>}
  /\ cli' \in {cli, Killed({on[b][k]})}
  /\ record' = record \/ (turn[b][k] = "reading" /\ record' = [record EXCEPT ![k] = None])
  /\ loose' \in {loose, loose \cup ({on[b][k]} \ {NoPid})}
  /\ \/ on[b][k] = NoPid \/ cli'[on[b][k]] # "running" \/ on[b][k] \in loose'
     \/ /\ LeftAlone(b, k) /\ turn[b][k] = "reading"
        /\ turn'[b][k] \in Idle /\ record' = record
  /\ row' = row \/ (turn'[b][k] = "off" /\ row' = [row EXCEPT ![k] = "closed"])
  /\ CountsTyped
  /\ UNCHANGED <<process, tracked, keyOf>>

\* Read is of that shape.
LEMMA ReadLetsGo ==
  ASSUME Typed, HandsMatch, NEW b \in Bridges, NEW k \in Keys, Read(b, k)
  PROVE  LetsGo(b, k)
<1>1. on[b][k] \in Pids \cup {NoPid} /\ (turn[b][k] \in Engaged => on[b][k] # NoPid)
  BY DEF HandsMatch, Typed
<1>2. \A p \in Pids : Killed({p})[p] # "running"
  BY DEF Killed
<1>3. Works(b) /\ turn[b][k] # "off"
  BY DEF Read
<1>4. /\ \E stage \in Idle \cup {"preparing"} : turn' = [turn EXCEPT ![b][k] = stage]
      /\ on' = [on EXCEPT ![b][k] = NoPid]
      /\ again' \subseteq again \cup {<<b, k>>}
  BY DEF Read, Over, To, Idle
<1>12. turn[b][k] \in Idle => turn'[b][k] \in Idle
  BY <1>1 DEF Read, Over, To, Idle, Typed, Stages
<1>5. cli' \in {cli, Killed({on[b][k]})}
  BY DEF Read, Reap
<1>6. record' = record \/ (turn[b][k] = "reading" /\ record' = [record EXCEPT ![k] = None])
  BY DEF Read, Reap
<1>7. loose' \in {loose, loose \cup ({on[b][k]} \ {NoPid})}
  BY DEF Read, history
<1>8. on[b][k] = NoPid \/ cli'[on[b][k]] # "running"
  <2>1. cli[on[b][k]] # "running"
    BY DEF Read
  <2> QED
    BY <1>1, <1>2, <1>5, <2>1
<1>9. row' = row
  BY DEF Read, server
<1>10. CountsTyped
  BY DEF CountsTyped, Read, Typed, server, history
<1>11. UNCHANGED <<process, tracked, keyOf>>
  BY DEF Read
<1> QED
  BY <1>3, <1>4, <1>5, <1>6, <1>7, <1>8, <1>9, <1>10, <1>11, <1>12 DEF LetsGo

\* A turn that has its result in hand, or has failed, has no run to let go of.
LEMMA SendsLetsGo ==
  ASSUME Typed, HandsMatch, NEW b \in Bridges, NEW k \in Keys, Answered(b, k) \/ Closed(b, k)
  PROVE  LetsGo(b, k)
<1>1. on[b][k] = NoPid
  BY DEF HandsMatch, Engaged, Answered, Closed
<1>2. Works(b) /\ turn[b][k] # "off"
  BY DEF Answered, Closed
<1>3. /\ \E stage \in Idle \cup {"preparing"} : turn' = [turn EXCEPT ![b][k] = stage]
      /\ turn'[b][k] = "off" \/ row' = row
      /\ turn'[b][k] \in Idle
  BY DEF Answered, Closed, To, Idle, Typed
<1>4. on' = [on EXCEPT ![b][k] = NoPid] /\ again' = again
  <2>1. on' = on /\ again' = again
    BY DEF Answered, Closed
  <2> QED
    BY <1>1, <2>1 DEF Typed
<1>5. cli' = cli /\ record' = record /\ loose' = loose /\ UNCHANGED <<process, tracked, keyOf>>
  BY DEF Answered, Closed, clis, history
<1>6. row' = row \/ row' = [row EXCEPT ![k] = "closed"]
  BY DEF Answered, Closed
<1>7. CountsTyped
  <2>1. CASE Answered(b, k)
    BY <2>1 DEF Answered, Typed, history, CountsTyped
  <2>2. CASE Closed(b, k)
    BY <2>2 DEF Closed, Typed, CountsTyped
  <2> QED
    BY <2>1, <2>2
<1> QED
  BY <1>1, <1>2, <1>3, <1>4, <1>5, <1>6, <1>7 DEF LetsGo

\* So is Respawn.
LEMMA RespawnLetsGo ==
  ASSUME Typed, HandsMatch, NEW b \in Bridges, NEW k \in Keys, Respawn(b, k)
  PROVE  LetsGo(b, k)
<1>1. on[b][k] \in Pids \cup {NoPid} /\ (turn[b][k] \in Engaged => on[b][k] # NoPid)
  BY DEF HandsMatch, Typed, Stages
<1>2. \A p \in Pids : Killed({p})[p] # "running"
  BY DEF Killed
<1>3. Works(b) /\ turn[b][k] # "off"
  BY DEF Respawn
<1>4. /\ \E stage \in Idle \cup {"preparing"} : turn' = [turn EXCEPT ![b][k] = stage]
      /\ on' = [on EXCEPT ![b][k] = NoPid]
      /\ again' \subseteq again \cup {<<b, k>>}
  BY DEF Respawn, Over, To, Idle
<1>12. turn[b][k] \in Idle => turn'[b][k] \in Idle
  BY <1>1 DEF Respawn, Over, To, Idle, Typed, Stages
<1>5. cli' \in {cli, Killed({on[b][k]})}
  BY DEF Respawn
<1>6. record' = record \/ (turn[b][k] = "reading" /\ record' = [record EXCEPT ![k] = None])
  BY DEF Respawn
<1>7. loose' \in {loose, loose \cup ({on[b][k]} \ {NoPid})}
  BY <1>1, CliAssumption DEF Respawn, Engaged, history
<1>8. \/ on[b][k] = NoPid \/ cli'[on[b][k]] # "running" \/ on[b][k] \in loose'
      \/ (LeftAlone(b, k) /\ turn[b][k] = "reading" /\ turn'[b][k] \in Idle /\ record' = record)
  <2>1. cli' = Killed({on[b][k]})
    BY DEF Respawn
  <2> QED
    BY <1>1, <1>2, <2>1
<1>9. row' = row \/ (turn'[b][k] = "off" /\ row' = [row EXCEPT ![k] = "closed"])
  BY DEF Respawn, server
<1>10. CountsTyped
  BY DEF CountsTyped, Respawn, Typed, Stages, server, history
<1>11. UNCHANGED <<process, tracked, keyOf>>
  BY DEF Respawn
<1> QED
  BY <1>3, <1>4, <1>5, <1>6, <1>7, <1>8, <1>9, <1>10, <1>11, <1>12 DEF LetsGo

\* So is Cut.
LEMMA CutLetsGo ==
  ASSUME Typed, HandsMatch, NEW b \in Bridges, NEW k \in Keys, Cut(b, k)
  PROVE  LetsGo(b, k)
<1>1. on[b][k] \in Pids \cup {NoPid} /\ (turn[b][k] \in Engaged => on[b][k] # NoPid)
  BY DEF HandsMatch, Typed, Stages
<1>2. \A p \in Pids : Killed({p})[p] # "running"
  BY DEF Killed
<1>3. Works(b) /\ turn[b][k] # "off"
  BY DEF Cut
<1>4. /\ \E stage \in Idle \cup {"preparing"} : turn' = [turn EXCEPT ![b][k] = stage]
      /\ on' = [on EXCEPT ![b][k] = NoPid]
      /\ again' \subseteq again \cup {<<b, k>>}
  BY DEF Cut, Over, To, Idle
<1>12. turn[b][k] \in Idle => turn'[b][k] \in Idle
  BY <1>1 DEF Cut, Over, To, Idle, Typed, Stages
<1>5. cli' \in {cli, Killed({on[b][k]})}
  BY DEF Cut, Reap
<1>6. record' = record \/ (turn[b][k] = "reading" /\ record' = [record EXCEPT ![k] = None])
  BY DEF Cut, Reap
<1>7. loose' \in {loose, loose \cup ({on[b][k]} \ {NoPid})}
  BY <1>1, CliAssumption DEF Cut, Engaged
<1>8. \/ on[b][k] = NoPid \/ cli'[on[b][k]] # "running" \/ on[b][k] \in loose'
      \/ (LeftAlone(b, k) /\ turn[b][k] = "reading" /\ turn'[b][k] \in Idle /\ record' = record)
  <2>1. CASE turn[b][k] = "reading"
    BY <1>1, <1>2, <2>1 DEF Cut, Reap, LeftAlone, Over, To, Idle, Typed, Stages
  <2>2. CASE turn[b][k] = "forked"
    BY <1>1, <1>2, <2>2 DEF Cut
  <2>3. CASE turn[b][k] = "feeding"
    BY <2>3 DEF Cut
  <2>4. CASE turn[b][k] \in {"preparing", "answering"}
    BY <2>4 DEF HandsMatch, Engaged
  <2> QED
    BY <2>1, <2>2, <2>3, <2>4 DEF Cut
<1>9. row' = row \/ (turn'[b][k] = "off" /\ row' = [row EXCEPT ![k] = "closed"])
  BY DEF Cut, server
<1>10. CountsTyped
  BY CliAssumption DEF CountsTyped, Cut, Typed, server
<1>11. UNCHANGED <<process, tracked, keyOf>>
  BY DEF Cut
<1> QED
  BY <1>3, <1>4, <1>5, <1>6, <1>7, <1>8, <1>9, <1>10, <1>11, <1>12 DEF LetsGo

\* A turn that lets go leaves nothing behind that nobody has.
LEMMA LetsGoKeeps ==
  ASSUME RunsInv, NEW b \in Bridges, NEW k \in Keys, LetsGo(b, k)
  PROVE  RunsInv'
<1> USE CliAssumption DEF RunsInv, Structure, Safety, process, Idle
<1>a. PICK stage \in Idle \cup {"preparing"} : turn' = [turn EXCEPT ![b][k] = stage]
  BY DEF LetsGo
<1>b. /\ Works(b) /\ turn[b][k] # "off" /\ on' = [on EXCEPT ![b][k] = NoPid]
      /\ UNCHANGED <<process, tracked, keyOf>>
  BY DEF LetsGo
<1>c. /\ cli' \in [Pids -> {"off", "running", "finished", "died"}]
      /\ \A p \in Pids : cli'[p] = cli[p] \/ (p = on[b][k] /\ cli[p] = "running" /\ cli'[p] = "died")
  BY DEF LetsGo, Killed, Typed, Stages
<1>d. /\ record' \in [Keys -> [pid : Pids \cup {NoPid}, owner : Bridges \cup {NoBridge}]]
      /\ \A l \in Keys : record'[l] = record[l]
           \/ (l = k /\ turn[b][k] = "reading" /\ record'[l] = None)
  <2>1. record \in [Keys -> [pid : Pids \cup {NoPid}, owner : Bridges \cup {NoBridge}]]
    BY DEF Typed, Stages
  <2>2. None \in [pid : Pids \cup {NoPid}, owner : Bridges \cup {NoBridge}]
    BY DEF None
  <2> QED
    BY <2>1, <2>2 DEF LetsGo
<1>e. loose \subseteq loose' /\ loose' \subseteq Pids /\ \A p \in loose' \ loose : p = on[b][k]
  BY DEF LetsGo, Typed, Stages
<1>f. \A c \in Bridges, l \in Keys : turn[c][l] # "off" => c = b
  BY <1>b DEF AwayIdle, OneAtATime
<1>g. on[b][k] = NoPid \/ on[b][k] \in Pids
  BY DEF Typed, Stages
<1>1. Typed'
  <2>1. /\ turn' \in [Bridges -> [Keys -> Stages]]
        /\ on' \in [Bridges -> [Keys -> Pids \cup {NoPid}]]
    BY <1>a, <1>b DEF Typed, Stages
  <2>2. again' \subseteq Bridges \X Keys
    BY DEF LetsGo, Typed, Stages
  <2>3. row' \in [Keys -> {"queued", "held", "closed"}]
    BY DEF LetsGo, Typed, Stages
  <2>4. CountsTyped
    BY DEF LetsGo, CountsTyped
  <2> QED
    BY <1>b, <1>c, <1>d, <1>e, <2>1, <2>2, <2>3, <2>4 DEF Typed, Stages, CountsTyped
<1>2. OneAtATime' /\ AwayIdle'
  BY <1>a, <1>b, <1>c, <1>d, <1>e, <1>f DEF Typed, Stages, OneAtATime, AwayIdle, Works
<1>3. Spawned'
  BY <1>a, <1>b, <1>c, <1>d, <1>e, <1>f DEF Typed, Stages, Spawned
<1>4. HandsMatch'
  BY <1>a, <1>b, <1>c, <1>d, <1>e, <1>f DEF Typed, Stages, HandsMatch, Engaged, AwayIdle,
       RecordsMatch
<1>5. RecordsMatch'
  <2>1. \A l \in Keys : record'[l].pid # NoPid =>
          record'[l] = record[l] /\ cli'[record'[l].pid] # "off"
    BY <1>c, <1>d DEF RecordsMatch, None
  <2>2. \A c \in Bridges, l \in Keys : record'[l].owner = c => bridge[c] # "off"
    BY <1>d, CliAssumption DEF RecordsMatch, None
  <2>3. \A c \in Bridges, l \in Keys :
          turn'[c][l] \in Engaged => turn[c][l] = turn'[c][l] /\ ~(c = b /\ l = k)
    BY <1>a DEF Engaged, Typed, Stages
  <2>4. \A c \in Bridges, l \in Keys : turn'[c][l] \in Engaged =>
          record'[l] = record[l] /\ on'[c][l] = on[c][l]
    BY <1>b, <1>d, <1>f, <2>3 DEF Engaged
  <2> QED
    BY <1>b, <2>1, <2>2, <2>3, <2>4 DEF RecordsMatch, Engaged
<1>6. LooseStarted'
  BY <1>a, <1>b, <1>c, <1>d, <1>e, <1>f DEF Typed, Stages, LooseStarted, HandsMatch
<1>7. DriversTracked'
  BY <1>a, <1>b, <1>c, <1>d, <1>e, <1>f DEF Typed, Stages, DriversTracked
<1>8. OwnRunsServed'
  <2> SUFFICES ASSUME NEW c \in Bridges, NEW l \in Keys, NEW p \in Pids \ loose',
                      Works(c), record'[l] = Meta(p, c), cli'[p] = "running"
               PROVE  on'[c][l] = p \/ (bridge[c] = "stopping" /\ turn'[c][l] \in Idle)
    BY <1>b DEF OwnRunsServed, Idle, Works
  <2>1. p \notin loose /\ cli[p] = "running" /\ record[l] = Meta(p, c)
    BY <1>c, <1>d, <1>e DEF Meta, None
  <2>2. on[c][l] = p \/ (bridge[c] = "stopping" /\ turn[c][l] \in Idle)
    BY <2>1 DEF OwnRunsServed, Idle
  <2>3. CASE c = b /\ l = k
    <3>1. CASE on[b][k] = p
      BY <2>3, <3>1 DEF LetsGo, LeftAlone
    <3>2. CASE bridge[b] = "stopping" /\ turn[b][k] \in Idle
      BY <2>3, <3>2 DEF LetsGo
    <3> QED
      BY <2>2, <2>3, <3>1, <3>2
  <2>4. CASE ~(c = b /\ l = k)
    BY <1>a, <1>b, <2>2, <2>4
  <2> QED
    BY <2>3, <2>4
<1>9. RowHeld'
  BY <1>a, <1>f DEF LetsGo, RowHeld, Typed, Stages
<1>10. NoOrphan'
  <2> SUFFICES ASSUME NEW p \in Pids \ loose', cli'[p] = "running"
               PROVE  (\E c \in Bridges : on'[c][keyOf[p]] = p) \/ record'[keyOf[p]].pid = p
    BY <1>b DEF NoOrphan
  <2>1. p \notin loose /\ cli[p] = "running" /\ keyOf[p] \in Keys
    BY <1>c, <1>e DEF Spawned
  <2>2. CASE p = on[b][k]
    <3>1. keyOf[p] = k /\ turn[b][k] = "reading" /\ record' = record
      BY <2>2 DEF HandsMatch, LetsGo
    <3> QED
      BY <2>2, <3>1 DEF RecordsMatch
  <2>3. CASE p # on[b][k]
    <3>1. ASSUME NEW c \in Bridges, on[c][keyOf[p]] = p  PROVE on'[c][keyOf[p]] = p
      BY <1>b, <2>1, <2>3, <3>1
    <3>2. record[keyOf[p]].pid = p => record'[keyOf[p]] = record[keyOf[p]]
      BY <1>d, <2>1, <2>3 DEF RecordsMatch
    <3> QED
      BY <2>1, <3>1, <3>2 DEF NoOrphan
  <2> QED
    BY <2>2, <2>3
<1>11. DriversDie'
  <2> SUFFICES ASSUME NEW p \in Pids \ loose', cli'[p] = "running", keyOf[p] \in Drivers
               PROVE  \E c \in Bridges : Works(c) /\ on'[c][keyOf[p]] = p
    BY <1>b DEF DriversDie, Works
  <2>1. p \notin loose /\ cli[p] = "running" /\ keyOf[p] \in Keys
    BY <1>c, <1>e
  <2>2. PICK c \in Bridges : Works(c) /\ on[c][keyOf[p]] = p
    BY <2>1 DEF DriversDie, Works
  <2>3. ~(c = b /\ keyOf[p] = k)
    BY <2>2 DEF LetsGo, LeftAlone
  <2> QED
    BY <1>b, <2>1, <2>2, <2>3
<1>12. OneRunPerKey'
  <2>1. \A p \in Pids \ loose' : cli'[p] = "running" => p \notin loose /\ cli[p] = "running"
    BY <1>c, <1>e
  <2> QED
    BY <1>b, <2>1 DEF OneRunPerKey
<1> QED
  BY <1>1, <1>2, <1>3, <1>4, <1>5, <1>6, <1>7, <1>8, <1>9, <1>10, <1>11, <1>12

----------------------------------------------------------------------------
(* Who is answered how often.                                              *)

\* The row of a key that was answered is closed, or its turn is still at the
\* ack of a message, unless a turn ended without.
AnswerHeld ==
  \A k \in Keys \ unacked :
    answers[k] > 0 =>
      \/ row[k] = "closed"
      \/ k \notin TaskKeys /\ \E b \in Bridges : turn[b][k] = "closing"

\* A key whose answer is still to come is answered by none but the bridges that
\* are gone; a bridge answers a key once.
Unsent == {"preparing", "forked", "feeding", "reading", "answering"}
Pending(k) == row[k] = "queued" \/ \E b \in Bridges : turn[b][k] \in Unsent
Departed == {b \in Bridges : bridge[b] = "gone"}
Begun == {b \in Bridges : bridge[b] # "off"}
AnswersCounted ==
  \A k \in Keys : answers[k] <= Cardinality(IF Pending(k) THEN Departed ELSE Begun)
TasksAcked == TaskKeys \cap unacked = {}
Answering == AnswerHeld /\ AnswersCounted /\ TasksAcked /\ AnsweredOnceIfAcked

\* Counting bridges.
LEMMA Counting ==
  ASSUME NEW S \in SUBSET Bridges, NEW T \in SUBSET Bridges, S \subseteq T
  PROVE  /\ Cardinality(S) \in Nat /\ Cardinality(T) \in Nat
         /\ Cardinality(S) <= Cardinality(T)
         /\ \A b \in Bridges \ S : Cardinality(S \cup {b}) = Cardinality(S) + 1
<1>1. IsFiniteSet(S) /\ IsFiniteSet(T)
  BY CliAssumption, FS_Subset
<1> QED
  BY <1>1, FS_Subset, FS_CardinalityType, FS_AddElement

\* No key is answered, no bridge comes back, and no key whose answer was not
\* awaited is taken up again: every step but an answer and a start.
Unanswered ==
  /\ answers' = answers
  /\ Departed \subseteq Departed' /\ Begun \subseteq Begun'
  /\ \A k \in Keys : Pending(k)' => Pending(k)

\* Such a step keeps the count.
LEMMA UnansweredCounts ==
  ASSUME Typed, AnswersCounted, Unanswered
  PROVE  AnswersCounted'
<1> SUFFICES ASSUME NEW k \in Keys
             PROVE  answers'[k] <= Cardinality(IF Pending(k)' THEN Departed' ELSE Begun')
  BY DEF AnswersCounted
<1>1. /\ Departed \in SUBSET Bridges /\ Departed' \in SUBSET Bridges
      /\ Begun \in SUBSET Bridges /\ Begun' \in SUBSET Bridges
      /\ Departed \subseteq Begun
  BY DEF Departed, Begun
<1>2. /\ Departed \subseteq Departed' /\ Begun \subseteq Begun' /\ Departed \subseteq Begun'
      /\ answers'[k] = answers[k] /\ answers[k] \in Nat
  BY <1>1 DEF Unanswered, Typed
<1>3. /\ Cardinality(Departed) <= Cardinality(Departed')
      /\ Cardinality(Departed) <= Cardinality(Begun')
      /\ Cardinality(Begun) <= Cardinality(Begun')
      /\ Cardinality(Departed) \in Nat /\ Cardinality(Departed') \in Nat
      /\ Cardinality(Begun) \in Nat /\ Cardinality(Begun') \in Nat
  BY <1>1, <1>2, Counting
<1> QED
  BY <1>2, <1>3 DEF AnswersCounted, Unanswered

\* The answer of a turn whose key was not answered, or by others that are gone.
LEMMA AnsweredKeeps ==
  ASSUME RunsInv, Answering, NEW b \in Bridges, NEW k \in Keys, Answered(b, k)
  PROVE  Answering'
<1> USE CliAssumption DEF RunsInv, Structure, Answering, process, history
<1>1. /\ Works(b) /\ turn[b][k] = "answering" /\ bridge' = bridge /\ row[k] = "held"
      /\ unacked' = unacked
      /\ answers' = [answers EXCEPT ![k] = @ + 1] /\ answers[k] \in Nat
  BY DEF Answered, RowHeld, Typed
<1>2. IF k \in TaskKeys
      THEN turn' = [turn EXCEPT ![b][k] = "off"] /\ row' = [row EXCEPT ![k] = "closed"]
      ELSE turn' = [turn EXCEPT ![b][k] = "closing"] /\ row' = row
  BY DEF Answered, To
<1>3. \A c \in Bridges : turn[c][k] # "off" => c = b
  BY <1>1 DEF AwayIdle, OneAtATime
<1>4. k \notin unacked => answers[k] = 0
  BY <1>1, <1>3 DEF AnswerHeld
<1>5. /\ \A l \in Keys \ {k} : answers'[l] = answers[l] /\ row'[l] = row[l]
      /\ \A c \in Bridges, l \in Keys : ~(c = b /\ l = k) => turn'[c][l] = turn[c][l]
      /\ answers'[k] = answers[k] + 1
  BY <1>1, <1>2 DEF Typed
<1>6. TasksAcked' /\ AnsweredOnceIfAcked'
  BY <1>1, <1>4, <1>5 DEF TasksAcked, AnsweredOnceIfAcked
<1>7. AnswerHeld'
  <2> SUFFICES ASSUME NEW l \in Keys \ unacked, answers'[l] > 0
               PROVE  row'[l] = "closed"
                      \/ (l \notin TaskKeys /\ \E c \in Bridges : turn'[c][l] = "closing")
    BY <1>1 DEF AnswerHeld
  <2>1. CASE l = k
    BY <2>1, <1>2 DEF Typed
  <2>2. CASE l # k
    <3>1. answers[l] > 0
      BY <2>2, <1>5
    <3> QED
      BY <2>2, <3>1, <1>5 DEF AnswerHeld
  <2> QED
    BY <2>1, <2>2
<1>8. AnswersCounted'
  <2>1. Begun' = Begun /\ Departed' = Departed
    BY <1>1 DEF Begun, Departed
  <2>2. \A l \in Keys \ {k} : Pending(l)' <=> Pending(l)
    BY <1>5 DEF Pending
  <2>3. ~Pending(k)'
    <3>1. ASSUME NEW c \in Bridges  PROVE turn'[c][k] \notin Unsent
      <4>1. CASE c = b
        <5>1. turn'[b][k] \in {"off", "closing"}
          BY <1>2 DEF Typed
        <5> QED
          BY <4>1, <5>1 DEF Unsent
      <4>2. CASE c # b
        <5>1. turn'[c][k] = "off"
          BY <1>3, <1>5, <4>2
        <5> QED
          BY <5>1 DEF Unsent
      <4> QED
        BY <4>1, <4>2
    <3>2. row'[k] # "queued"
      BY <1>1, <1>2 DEF Typed
    <3> QED
      BY <3>1, <3>2 DEF Pending
  <2>4. Pending(k)
    BY <1>1 DEF Pending, Unsent
  <2>5. /\ Departed \in SUBSET Bridges /\ Departed \cup {b} \in SUBSET Bridges
        /\ Begun \in SUBSET Bridges /\ Departed \cup {b} \subseteq Begun /\ b \notin Departed
    BY <1>1 DEF Departed, Begun, Works
  <2>6. /\ Cardinality(Departed \cup {b}) = Cardinality(Departed) + 1
        /\ Cardinality(Departed) \in Nat /\ Cardinality(Begun) \in Nat
        /\ Cardinality(Departed \cup {b}) <= Cardinality(Begun)
    BY <2>5, Counting
  <2>7. answers[k] <= Cardinality(Departed)
    BY <2>4 DEF AnswersCounted
  <2>8. answers'[k] <= Cardinality(Begun')
    BY <1>1, <1>5, <2>1, <2>6, <2>7
  <2>9. \A l \in Keys \ {k} :
          answers'[l] <= Cardinality(IF Pending(l)' THEN Departed' ELSE Begun')
    BY <1>5, <2>1, <2>2 DEF AnswersCounted
  <2> QED
    BY <2>3, <2>8, <2>9 DEF AnswersCounted
<1> QED
  BY <1>6, <1>7, <1>8

\* A new bridge takes up the open rows; all that have answered before are gone.
LEMMA StartAnswering ==
  ASSUME RunsInv, Answering, NEW b \in Bridges, Start(b)
  PROVE  Answering'
<1> USE CliAssumption DEF RunsInv, Structure, Answering, history
<1>1. /\ bridge[b] = "off" /\ \A c \in Bridges : bridge[c] \in {"off", "gone"}
      /\ bridge' = [bridge EXCEPT ![b] = "up"] /\ turn' = turn /\ answers' = answers
      /\ unacked' = unacked
  BY FreshIsOff DEF Start, work
<1>2. \A c \in Bridges, l \in Keys : turn[c][l] = "off"
  BY <1>1 DEF AwayIdle, Works
<1>3. \A l \in Keys : row[l] = "closed" => row'[l] = "closed"
  BY DEF Start
<1>4. AnswerHeld' /\ TasksAcked' /\ AnsweredOnceIfAcked'
  <2>1. AnswerHeld'
    BY <1>1, <1>2, <1>3 DEF AnswerHeld
  <2> QED
    BY <1>1, <2>1 DEF TasksAcked, AnsweredOnceIfAcked
<1>5. AnswersCounted'
  <2>1. Departed = Begun /\ Departed' = Departed /\ Begun' = Begun \cup {b}
    BY <1>1 DEF Departed, Begun, Typed
  <2>2. \A l \in Keys : answers[l] <= Cardinality(Departed)
    BY <2>1 DEF AnswersCounted
  <2>3. Departed \in SUBSET Bridges /\ Begun' \in SUBSET Bridges /\ Departed \subseteq Begun'
    BY <2>1 DEF Departed, Begun
  <2>4. /\ Cardinality(Departed) <= Cardinality(Begun')
        /\ Cardinality(Departed) \in Nat /\ Cardinality(Begun') \in Nat
    BY <2>3, Counting
  <2>5. \A l \in Keys : answers[l] \in Nat
    BY DEF Typed
  <2> QED
    BY <1>1, <2>1, <2>2, <2>4, <2>5 DEF AnswersCounted
<1> QED
  BY <1>4, <1>5

\* A bridge that leaves turns at their acks leaves those keys unacked.
LEMMA LeaveAnswering ==
  ASSUME RunsInv, Answering, NEW b \in Bridges, Works(b), Leave(b), UNCHANGED server
  PROVE  Answering'
<1> USE DEF RunsInv, Structure, Answering, server, Leave
<1>1. \A c \in Bridges, k \in Keys : turn[c][k] # "off" => c = b
  BY DEF AwayIdle, OneAtATime
<1>2. \A c \in Bridges, k \in Keys : turn'[c][k] = "off"
  BY <1>1 DEF Typed
<1>3. ASSUME NEW k \in Keys, answers[k] > 0, turn[b][k] = "closing", k \in TaskKeys
      PROVE  FALSE
  BY <1>3 DEF AnswerHeld, TasksAcked, RowHeld
<1>4. AnswerHeld'
  BY <1>1 DEF AnswerHeld
<1>5. TasksAcked' /\ AnsweredOnceIfAcked'
  BY <1>3 DEF TasksAcked, AnsweredOnceIfAcked
<1>6. Unanswered
  <2>1. \A k \in Keys : Pending(k)' => Pending(k)
    BY <1>2 DEF Pending, Unsent
  <2> QED
    BY <2>1 DEF Unanswered, Departed, Begun, Typed
<1> QED
  BY <1>4, <1>5, <1>6, UnansweredCounts

\* A step that answers nobody and takes no turn from its ack keeps all of it.
LEMMA QuietAnswering ==
  ASSUME Typed, Answering, Unanswered, unacked' = unacked,
         \A k \in Keys : row[k] = "closed" => row'[k] = "closed",
         \A b \in Bridges, k \in Keys : turn[b][k] = "closing" => turn'[b][k] = "closing"
  PROVE  Answering'
<1> USE DEF Answering
<1>1. AnswerHeld'
  <2> SUFFICES ASSUME NEW k \in Keys \ unacked, answers[k] > 0
               PROVE  row'[k] = "closed"
                      \/ (k \notin TaskKeys /\ \E b \in Bridges : turn'[b][k] = "closing")
    BY DEF AnswerHeld, Unanswered
  <2>1. CASE row[k] = "closed"
    BY <2>1
  <2>2. CASE k \notin TaskKeys /\ \E b \in Bridges : turn[b][k] = "closing"
    BY <2>2
  <2> QED
    BY <2>1, <2>2 DEF AnswerHeld
<1>2. TasksAcked' /\ AnsweredOnceIfAcked'
  BY DEF TasksAcked, AnsweredOnceIfAcked, Unanswered
<1> QED
  BY <1>1, <1>2, UnansweredCounts

\* Nor is a key answered by a turn before it has its result, or that is cut.
LEMMA TurnsAnswering ==
  ASSUME RunsInv, Answering, NEW b \in Bridges, NEW k \in Keys,
         Deliver(b, k) \/ Adopt(b, k) \/ Fork(b, k) \/ GetsHold(b, k) \/ Read(b, k)
           \/ Respawn(b, k) \/ Cut(b, k)
  PROVE  Answering'
<1> USE DEF RunsInv, Structure, process, server, history
<1>1. /\ \E stage \in Stages : turn' = [turn EXCEPT ![b][k] = stage]
      /\ answers' = answers /\ unacked' = unacked /\ bridge' = bridge
  <2>1. CASE Deliver(b, k) \/ Adopt(b, k) \/ Fork(b, k)
    BY <2>1 DEF Deliver, Adopt, Fork, To, Stages
  <2>2. CASE GetsHold(b, k)
    BY <2>2 DEF GetsHold, Stages
  <2>3. CASE Read(b, k)
    BY <2>3 DEF Read, Over, To, Stages
  <2>4. CASE Respawn(b, k)
    BY <2>4 DEF Respawn, Over, To, Stages
  <2>5. CASE Cut(b, k)
    BY <2>5 DEF Cut, Over, To, Stages
  <2> QED
    BY <2>1, <2>2, <2>3, <2>4, <2>5
<1>2. turn[b][k] # "closing"
  <2>1. CASE Deliver(b, k)
    BY <2>1 DEF Deliver, RowHeld
  <2>2. CASE ~Deliver(b, k)
    BY <2>2 DEF Adopt, Fork, GetsHold, Read, Respawn, Cut
  <2> QED
    BY <2>1, <2>2
<1>3. /\ Pending(k)
      /\ \A l \in Keys : row'[l] = row[l] \/ (l = k /\ row'[l] = "held" /\ row[l] = "queued")
  <2>1. CASE Deliver(b, k)
    BY <2>1 DEF Deliver, Pending, Typed
  <2>2. CASE ~Deliver(b, k)
    <3>1. row' = row /\ turn[b][k] \in Unsent
      BY <2>2 DEF Adopt, Fork, GetsHold, Read, Respawn, Cut, Unsent
    <3> QED
      BY <3>1 DEF Pending
  <2> QED
    BY <2>1, <2>2
<1>4. \A c \in Bridges, l \in Keys : ~(c = b /\ l = k) => turn'[c][l] = turn[c][l]
  BY <1>1 DEF Typed
<1>5. Unanswered
  <2>1. \A l \in Keys : Pending(l)' => Pending(l)
    BY <1>3, <1>4 DEF Pending
  <2> QED
    BY <1>1, <2>1 DEF Unanswered, Departed, Begun
<1>6. \A l \in Keys : row[l] = "closed" => row'[l] = "closed"
  BY <1>3
<1>7. \A c \in Bridges, l \in Keys : turn[c][l] = "closing" => turn'[c][l] = "closing"
  BY <1>2, <1>4
<1> QED
  BY <1>1, <1>5, <1>6, <1>7, QuietAnswering

\* A turn that ends closes the row or, if it was answered, leaves it unacked.
LEMMA ClosedAnswering ==
  ASSUME RunsInv, Answering, NEW b \in Bridges, NEW k \in Keys, Closed(b, k)
  PROVE  Answering'
<1> USE DEF RunsInv, Structure, Answering, process
<1>1. /\ Works(b) /\ turn[b][k] = "closing" /\ turn' = [turn EXCEPT ![b][k] = "off"]
      /\ answers' = answers /\ bridge' = bridge /\ row[k] = "held"
  BY DEF Closed, To, RowHeld
<1>2. \/ row' = [row EXCEPT ![k] = "closed"] /\ unacked' = unacked
      \/ row' = row /\ unacked' = (IF answers[k] > 0 THEN unacked \cup {k} ELSE unacked)
  BY DEF Closed
<1>3. /\ \A l \in Keys \ {k} : row'[l] = row[l] /\ (l \in unacked' <=> l \in unacked)
      /\ \A c \in Bridges, l \in Keys : ~(c = b /\ l = k) => turn'[c][l] = turn[c][l]
      /\ unacked \subseteq unacked' /\ row'[k] # "queued" /\ turn'[b][k] = "off"
  BY <1>1, <1>2 DEF Typed
<1>4. k \in unacked' \ unacked => k \notin TaskKeys
  BY <1>1, <1>2 DEF AnswerHeld, Typed
<1>5. TasksAcked' /\ AnsweredOnceIfAcked'
  <2>1. unacked' \subseteq unacked \cup {k}
    BY <1>2
  <2> QED
    BY <1>1, <1>3, <1>4, <2>1 DEF TasksAcked, AnsweredOnceIfAcked
<1>6. AnswerHeld'
  <2> SUFFICES ASSUME NEW l \in Keys, l \notin unacked', answers[l] > 0
               PROVE  row'[l] = "closed"
                      \/ (l \notin TaskKeys /\ \E c \in Bridges : turn'[c][l] = "closing")
    BY <1>1 DEF AnswerHeld
  <2>1. CASE l = k
    BY <1>1, <1>2, <2>1 DEF Typed
  <2>2. CASE l # k
    <3>1. l \notin unacked /\ row'[l] = row[l]
      BY <1>3, <2>2
    <3> QED
      BY <1>3, <2>2, <3>1 DEF AnswerHeld
  <2> QED
    BY <2>1, <2>2
<1>7. Unanswered
  <2>1. \A l \in Keys : Pending(l)' => Pending(l)
    BY <1>3 DEF Pending, Unsent
  <2> QED
    BY <1>1, <2>1 DEF Unanswered, Departed, Begun
<1> QED
  BY <1>5, <1>6, <1>7, UnansweredCounts

----------------------------------------------------------------------------
(* The theorems.                                                           *)

IInv == RunsInv /\ Answering

\* No run is in anyone's hand at first, and nothing is answered.
LEMMA InitHolds ==
  ASSUME Init
  PROVE  IInv
<1> USE CliAssumption DEF Init
<1>1. Typed
  BY DEF Typed, Stages, None
<1>2. Structure
  BY DEF Structure, OneAtATime, AwayIdle, Spawned, HandsMatch, Engaged, RecordsMatch, None,
       LooseStarted, DriversTracked, OwnRunsServed, Meta, RowHeld, Works
<1>3. Safety
  BY DEF Safety, NoOrphan, DriversDie, OneRunPerKey
<1>4. Answering
  <2>1. Departed \in SUBSET Bridges /\ Begun \in SUBSET Bridges
    BY DEF Departed, Begun
  <2>2. Cardinality(Departed) \in Nat /\ Cardinality(Begun) \in Nat
    BY <2>1, Counting
  <2> QED
    BY <2>2 DEF Answering, AnswerHeld, AnswersCounted, TasksAcked, AnsweredOnceIfAcked
<1> QED
  BY <1>1, <1>2, <1>3, <1>4 DEF IInv, RunsInv

\* Every step keeps both halves of the invariant.
LEMMA StepKeeps ==
  ASSUME IInv, [Next]_vars
  PROVE  IInv'
<1> USE DEF IInv
<1>1. ASSUME NEW b \in Bridges, Start(b)
      PROVE  IInv'
  BY <1>1, StartKeeps, StartAnswering
<1>2. ASSUME NEW b \in Bridges, Shutdown(b)
      PROVE  IInv'
  <2>1. Answering'
    <3> USE DEF RunsInv, Typed
    <3>1. Unanswered
      BY <1>2 DEF Shutdown, Unanswered, Departed, Begun, Pending, server, work
    <3> QED
      BY <1>2, <3>1, QuietAnswering DEF Shutdown, server, work, history
  <2> QED
    BY <1>2, <2>1, ShutdownKeeps
<1>3. ASSUME NEW b \in Bridges, Exit(b) \/ Crash(b)
      PROVE  IInv'
  <2>1. Works(b) /\ Leave(b) /\ UNCHANGED server
    BY <1>3 DEF Exit, Crash, Works
  <2> QED
    BY <1>3, <2>1, LeaveAnswering, ExitKeeps, CrashKeeps
<1>4. ASSUME NEW b \in Bridges, NEW k \in Keys,
             Deliver(b, k) \/ Adopt(b, k) \/ Fork(b, k) \/ GetsHold(b, k)
      PROVE  IInv'
  BY <1>4, DeliverKeeps, AdoptKeeps, ForkKeeps, GetsHoldKeeps, TurnsAnswering
<1>5. ASSUME NEW b \in Bridges, NEW k \in Keys, Read(b, k) \/ Respawn(b, k) \/ Cut(b, k)
      PROVE  IInv'
  <2>1. LetsGo(b, k)
    BY <1>5, ReadLetsGo, RespawnLetsGo, CutLetsGo DEF RunsInv, Structure
  <2> QED
    BY <1>5, <2>1, LetsGoKeeps, TurnsAnswering
<1>6. ASSUME NEW b \in Bridges, NEW k \in Keys, Answered(b, k) \/ Closed(b, k)
      PROVE  IInv'
  <2>1. LetsGo(b, k)
    BY <1>6, SendsLetsGo DEF RunsInv, Structure
  <2> QED
    BY <1>6, <2>1, LetsGoKeeps, AnsweredKeeps, ClosedAnswering
<1>7. ASSUME NEW p \in Pids, NEW how \in Hows, CliEnds(p, how)
      PROVE  IInv'
  <2>1. Unanswered /\ unacked' = unacked /\ row' = row /\ turn' = turn
    BY <1>7 DEF CliEnds, Unanswered, Departed, Begun, Pending, process, work, server, history
  <2> QED
    BY <1>7, <2>1, CliEndsKeeps, QuietAnswering DEF RunsInv
<1>8. CASE UNCHANGED vars
  <2> USE <1>8 DEF vars, process, work, clis, server, history
  <2>1. Typed'
    BY DEF RunsInv, Typed
  <2>2. Structure'
    BY DEF RunsInv, Structure, OneAtATime, AwayIdle, Spawned, HandsMatch, RecordsMatch,
         LooseStarted, DriversTracked, OwnRunsServed, RowHeld, Works
  <2>3. Safety'
    BY DEF RunsInv, Safety, NoOrphan, DriversDie, OneRunPerKey
  <2>4. Answering'
    BY DEF Answering, AnswerHeld, AnswersCounted, TasksAcked, AnsweredOnceIfAcked, Departed,
         Begun, Pending
  <2> QED
    BY <2>1, <2>2, <2>3, <2>4 DEF RunsInv
<1>9. CASE Next
  BY <1>1, <1>2, <1>3, <1>4, <1>5, <1>6, <1>7, <1>9, RecordedGetsHold, FedGetsHold
     DEF Next, TurnStep
<1> QED
  BY <1>8, <1>9

\* The invariant holds of every reachable state.
LEMMA Invariance == Spec => []IInv
  BY InitHolds, StepKeeps, PTL DEF Spec

\* A key is answered by no more bridges than there are.
LEMMA CountBounds ==
  ASSUME IInv
  PROVE  TypeOK
<1>1. ASSUME NEW k \in Keys  PROVE answers[k] <= Cardinality(Bridges)
  <2>1. /\ Departed \in SUBSET Bridges /\ Begun \in SUBSET Bridges
        /\ Bridges \in SUBSET Bridges /\ answers[k] \in Nat
    BY DEF Departed, Begun, IInv, RunsInv, Typed
  <2>2. /\ Cardinality(Departed) <= Cardinality(Bridges)
        /\ Cardinality(Begun) <= Cardinality(Bridges)
        /\ Cardinality(Departed) \in Nat /\ Cardinality(Begun) \in Nat
        /\ Cardinality(Bridges) \in Nat
    BY <2>1, Counting
  <2> QED
    BY <2>1, <2>2 DEF IInv, Answering, AnswersCounted
<1> QED
  BY <1>1 DEF TypeOK, IInv, RunsInv

\* A run that goes on is in the hands of a turn or on record for a later one,
\* and one that drives the machine is in those of a bridge that is there,
\* whatever bridges crash or stop and whatever turns are cut (cli_runs.py's
\* adoption, shutdown_tracked_processes and the finally of _generate_streaming).
THEOREM NobodyForgotten == Spec => []RunsInHand
  BY Invariance, CountBounds, PTL DEF IInv, RunsInv, Safety, RunsInHand

\* A new bridge never starts a second run beside one that goes on: what it does
\* not adopt has ended (RunRegistry.find and _start of claude_cli.py).
THEOREM NeverSideBySide == Spec => []OneRunPerKey
  BY Invariance, PTL DEF IInv, RunsInv, Safety

\* A task is answered once, though each bridge may read the same event file; a
\* message a second time only after a turn that answered it ended without its
\* ack (complete_task of _handle_task, the ack of _handle_message).
THEOREM AnsweredOnce == Spec => []AnsweredOnceIfAcked
  BY Invariance, PTL DEF IInv, Answering
=============================================================================
