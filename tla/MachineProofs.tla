------------------------------ MODULE MachineProofs -----------------------------
(***************************************************************************)
(* Proofs about the parts of Machine, for any number of processes of each. *)
(* The parts share no variable, so each is proved by an inductive          *)
(* invariant of its own; the behaviours of the machine are those of its    *)
(* parts.                                                                  *)
(***************************************************************************)
EXTENDS Machine, SequenceTheorems, FiniteSetTheorems, WellFoundedInduction, TLAPS

\* A step of the machine is a step of each part, or none of it.
LEMMA PartSteps ==
  ASSUME [Next]_vars
  PROVE  /\ [SetupNext]_setupVars /\ [SubAgentNext]_subAgentVars /\ [ComputerNext]_computerVars
         /\ [InboxNext]_inboxVars /\ [PresenceNext]_presenceVars /\ [BindingNext]_bindingVars
         /\ [TokenNext]_tokenVars /\ [ToolkitNext]_toolkitVars
  BY DEF Next, vars

\* A behaviour of the machine is a behaviour of every part.
LEMMA PartSpecs ==
  Spec => /\ SetupSpec /\ SubAgentSpec /\ ComputerSpec /\ InboxSpec
          /\ PresenceSpec /\ BindingSpec /\ TokenSpec /\ ToolkitSpec
<1>1. Init => /\ SetupInit /\ SubAgentInit /\ ComputerInit /\ InboxInit
              /\ PresenceInit /\ BindingInit /\ TokenInit /\ ToolkitInit
  BY DEF Init
<1> QED
  BY <1>1, PartSteps, PTL DEF Spec, SetupSpec, SubAgentSpec, ComputerSpec, InboxSpec, PresenceSpec,
     BindingSpec, TokenSpec, ToolkitSpec

----------------------------------------------------------------------------
(* The agent token.                                                        *)

TokenEntries == [key : Keys \cup {NoKey}, token : BOOLEAN, failed : BOOLEAN]
TokenStages  == {"asleep", "reading", "asking", "writing", "sending", "rejected"}
TokenCallers ==
  [at : TokenStages, key : Keys, read : TokenEntries, entry : TokenEntries, held : BOOLEAN, again : BOOLEAN]
TokenTyped == tokenCache \in TokenEntries /\ caller \in [Callers -> TokenCallers]

\* What a process writes has the token, or is the failure of one that knew of none.
Writing(r) == r.at = "writing" => r.entry.key = r.key /\ (r.entry.token \/ ~(r.read.token /\ r.read.key = r.key))
TokenInv == TokenTyped /\ \A p \in Callers : Writing(caller[p])

\* A process gets to one of these records, and the file holds an entry.
LEMMA TokenSteps ==
  ASSUME TokenTyped, NEW p \in Callers,
         \/ \E key \in Keys : Rotates(p, key)
         \/ TakesCached(p) \/ WantsFresh(p) \/ BacksOff(p) \/ Exchanges(p) \/ Obtains(p) \/ Fails(p)
         \/ Writes(p) \/ Dies(p) \/ Sends(p)
  PROVE  /\ tokenCache' \in TokenEntries
         /\ \E r \in TokenCallers : Becomes(p, r) /\ Writing(r)
<1> DEFINE c == caller[p]
           Good(r) == r \in TokenCallers /\ Writing(r) /\ Becomes(p, r)
<1>1. /\ c \in TokenCallers /\ c.key \in Keys /\ c.read \in TokenEntries /\ c.entry \in TokenEntries
      /\ tokenCache \in TokenEntries
  BY DEF TokenTyped, TokenCallers
<1>2. \A k \in Keys \cup {NoKey}, t, f \in BOOLEAN : Entry(k, t, f) \in TokenEntries
  BY DEF Entry, TokenEntries
<1>3. NoEntry \in TokenEntries /\ {"sending", "reading", "asking", "writing", "rejected"} \subseteq TokenStages
  BY <1>2 DEF NoEntry, TokenStages
<1>4. \A k \in Keys : Asleep(k) \in TokenCallers /\ Writing(Asleep(k))
  BY <1>3 DEF TokenCallers, TokenStages, Asleep, Writing
<1>5. ASSUME Sleeps(p)  PROVE \E r \in TokenCallers : Good(r)
  BY <1>1, <1>4, <1>5 DEF Sleeps
<1>6. ASSUME SendsNext(p)  PROVE \E r \in TokenCallers : Good(r)
  <2>1. [c EXCEPT !.at = "sending", !.read = NoEntry, !.entry = NoEntry] \in TokenCallers
    BY <1>1, <1>3 DEF TokenCallers
  <2>2. Writing([c EXCEPT !.at = "sending", !.read = NoEntry, !.entry = NoEntry])
    BY <1>1 DEF TokenCallers, Writing
  <2> QED
    BY <1>6, <2>1, <2>2 DEF SendsNext
<1>7. ASSUME MakesDo(p)  PROVE \E r \in TokenCallers : Good(r)
  BY <1>5, <1>6, <1>7 DEF MakesDo
<1>8. ASSUME NEW at \in TokenStages \ {"writing"}, NEW h \in BOOLEAN, NEW a \in BOOLEAN, NEW e \in TokenEntries
      PROVE  /\ [c EXCEPT !.at = at] \in TokenCallers /\ Writing([c EXCEPT !.at = at])
             /\ [c EXCEPT !.at = at, !.held = h] \in TokenCallers /\ Writing([c EXCEPT !.at = at, !.held = h])
             /\ [c EXCEPT !.at = at, !.held = h, !.again = a] \in TokenCallers
             /\ Writing([c EXCEPT !.at = at, !.held = h, !.again = a])
             /\ [c EXCEPT !.at = at, !.read = e] \in TokenCallers /\ Writing([c EXCEPT !.at = at, !.read = e])
  BY <1>1 DEF TokenCallers, Writing
<1>9. ASSUME NEW e \in TokenEntries, Empties(p, e), e.key = c.key,
             e.token \/ ~(c.read.token /\ c.read.key = c.key)
      PROVE  tokenCache' \in TokenEntries /\ \E r \in TokenCallers : Good(r)
  <2> DEFINE r == [c EXCEPT !.at = "writing", !.entry = e]
  <2>1. r \in TokenCallers /\ r.at = "writing" /\ r.entry = e /\ r.key = c.key /\ r.read = c.read
    BY <1>1, <1>3 DEF TokenCallers
  <2>2. Becomes(p, r) /\ tokenCache' = NoEntry
    BY <1>9 DEF Empties
  <2> HIDE DEF r
  <2>3. Writing(r)
    BY <1>9, <2>1 DEF Writing
  <2> QED
    BY <1>3, <2>1, <2>2, <2>3
<1>10. CASE (\E key \in Keys : Rotates(p, key)) \/ Dies(p)
  BY <1>1, <1>4, <1>5, <1>10 DEF Rotates, Dies
<1>11. CASE TakesCached(p) \/ Exchanges(p)
  BY <1>1, <1>3, <1>8, <1>11 DEF TakesCached, Exchanges
<1>12. CASE WantsFresh(p)
  <2>1. Usable(p) \in BOOLEAN /\ (caller[p].at = "rejected") \in BOOLEAN
    BY <1>1 DEF Usable, TokenEntries
  <2> QED
    BY <1>1, <1>3, <1>8, <1>12, <2>1 DEF WantsFresh
<1>13. CASE BacksOff(p)
  BY <1>1, <1>7, <1>13 DEF BacksOff
<1>14. CASE Obtains(p)
  <2>1. Entry(c.key, TRUE, FALSE) \in TokenEntries /\ Entry(c.key, TRUE, FALSE).key = c.key
        /\ Entry(c.key, TRUE, FALSE).token
    BY <1>1, <1>2 DEF Entry
  <2> QED
    BY <1>9, <1>14, <2>1 DEF Obtains
<1>15. CASE Fails(p)
  <2>1. (c.read.key = c.key /\ c.read.token) \in BOOLEAN
    OBVIOUS
  <2>2. /\ Failure(p) \in TokenEntries /\ Failure(p).key = c.key
        /\ Failure(p).token = (c.read.key = c.key /\ c.read.token)
    BY <1>1, <1>2, <2>1 DEF Failure, Entry
  <2> QED
    BY <1>9, <1>15, <2>2 DEF Fails
<1>16. CASE Writes(p)
  BY <1>1, <1>3, <1>6, <1>7, <1>16 DEF Writes
<1>17. CASE Sends(p)
  <2>1. tokenCache' \in TokenEntries
    BY <1>1, <1>17 DEF Sends
  <2>2. CASE Sleeps(p)
    BY <1>5, <2>1, <2>2
  <2>3. CASE Becomes(p, [caller[p] EXCEPT !.at = "rejected", !.held = FALSE])
    BY <1>3, <1>8, <2>1, <2>3
  <2> QED
    BY <1>17, <2>2, <2>3 DEF Sends
<1> QED
  BY <1>10, <1>11, <1>12, <1>13, <1>14, <1>15, <1>16, <1>17

\* The file holds an entry, and every process is where one can be.
LEMMA TokenTypes == TokenSpec => []TokenInv
<1>1. TokenInit => TokenInv
  <2>1. \A k \in Keys \cup {NoKey}, t, f \in BOOLEAN : Entry(k, t, f) \in TokenEntries
    BY DEF Entry, TokenEntries
  <2>2. \A k \in Keys : Asleep(k) \in TokenCallers /\ Writing(Asleep(k))
    BY <2>1 DEF TokenCallers, TokenStages, Asleep, NoEntry, Writing
  <2>3. ASSUME TokenInit  PROVE /\ caller \in [Callers -> TokenCallers]
                               /\ \A p \in Callers : Writing(caller[p])
    BY <2>2, <2>3 DEF TokenInit
  <2> QED
    BY <2>1, <2>3 DEF TokenInit, TokenInv, TokenTyped, NoEntry
<1>2. ASSUME TokenInv, [TokenNext]_tokenVars  PROVE TokenInv'
  <2>1. CASE UNCHANGED tokenVars
    BY <1>2, <2>1 DEF tokenVars, TokenInv, TokenTyped
  <2>2. CASE TokenNext
    <3>1. PICK p \in Callers :
            \/ \E key \in Keys : Rotates(p, key)
            \/ TakesCached(p) \/ WantsFresh(p) \/ BacksOff(p) \/ Exchanges(p) \/ Obtains(p) \/ Fails(p)
            \/ Writes(p) \/ Dies(p) \/ Sends(p)
      BY <2>2 DEF TokenNext
    <3>2. tokenCache' \in TokenEntries
      BY <1>2, <3>1, TokenSteps DEF TokenInv
    <3>3. PICK r \in TokenCallers : Becomes(p, r) /\ Writing(r)
      BY <1>2, <3>1, TokenSteps DEF TokenInv
    <3> QED
      BY <1>2, <3>2, <3>3 DEF TokenInv, TokenTyped, Becomes
  <2> QED
    BY <1>2, <2>1, <2>2
<1> QED
  BY <1>1, <1>2, PTL DEF TokenSpec

\* A token goes in the step of a process that ends its exchange or its write,
\* of another key, begun without the token, or come to nothing.
LEMMA TokenGoesKnowingly ==
  ASSUME TokenInv, TokenNext, NEW key \in Keys, Known(key), ~Known(key)'
  PROVE  \E p \in Callers :
           /\ caller[p].at \in {"asking", "writing"} /\ caller'[p].at # caller[p].at
           /\ \/ caller[p].key # key \/ ~Knew(p, key)
              \/ caller[p].at = "writing" /\ tokenCache' # caller[p].entry
<1>1. PICK p \in Callers :
        \/ \E k \in Keys : Rotates(p, k)
        \/ TakesCached(p) \/ WantsFresh(p) \/ BacksOff(p) \/ Exchanges(p) \/ Obtains(p) \/ Fails(p)
        \/ Writes(p) \/ Dies(p) \/ Sends(p)
  BY DEF TokenNext
<1>2. /\ caller \in [Callers -> TokenCallers] /\ caller[p] \in TokenCallers /\ Writing(caller[p])
  BY DEF TokenInv, TokenTyped
<1>3. \A q \in Callers : q # p => caller'[q] = caller[q]
  <2>1. PICK r : Becomes(p, r)
    BY <1>1, TokenSteps DEF TokenInv
  <2> QED
    BY <1>2, <2>1 DEF Becomes
<1>4. ASSUME caller[p].at # "writing", UNCHANGED tokenCache  PROVE FALSE
  BY <1>3, <1>4 DEF Known
<1>5. caller[p].at \in {"asking", "writing"}
  BY <1>1, <1>4 DEF Rotates, TakesCached, WantsFresh, BacksOff, Exchanges, Obtains, Fails, Writes, Dies, Sends
<1>6. Obtains(p) \/ Fails(p) \/ Writes(p) \/ Dies(p)
  BY <1>1, <1>4, <1>5 DEF Rotates, TakesCached, WantsFresh, BacksOff, Exchanges, Sends
<1>7. CASE Obtains(p) \/ Fails(p)
  <2>1. PICK e : Empties(p, e) /\ caller[p].at = "asking"
                 /\ e = (IF Obtains(p) THEN Entry(caller[p].key, TRUE, FALSE) ELSE Failure(p))
    BY <1>7 DEF Obtains, Fails
  <2>2. caller'[p].at = "writing" /\ caller'[p].entry = e
    BY <1>2, <2>1 DEF Empties, Becomes, TokenCallers
  <2>3. ~(e.token /\ e.key = key)
    BY <2>2 DEF Known
  <2>4. caller[p].key # key \/ ~Knew(p, key)
    BY <1>7, <2>1, <2>3 DEF Entry, Failure, Knew
  <2> QED
    BY <2>1, <2>2, <2>4
<1>8. CASE Writes(p) \/ Dies(p)
  <2>0. CASE caller[p].at # "writing"
    BY <1>4, <1>8, <2>0 DEF Writes, Dies
  <2>1. CASE caller[p].at = "writing"
    <3>1. caller'[p].at # "writing"
      <4>1. \/ caller' = [caller EXCEPT ![p] = Asleep(caller[p].key)]
            \/ caller' = [caller EXCEPT ![p] = [caller[p] EXCEPT !.at = "sending", !.read = NoEntry, !.entry = NoEntry]]
        BY <1>8 DEF Writes, Dies, MakesDo, SendsNext, Sleeps, Becomes
      <4>2. /\ [caller[p] EXCEPT !.at = "sending", !.read = NoEntry, !.entry = NoEntry].at = "sending"
            /\ Asleep(caller[p].key).at = "asleep"
        BY <1>2 DEF TokenCallers, Asleep
      <4>3. caller'[p] \in {Asleep(caller[p].key),
                            [caller[p] EXCEPT !.at = "sending", !.read = NoEntry, !.entry = NoEntry]}
        BY <1>2, <4>1
      <4> QED
        BY <4>2, <4>3
    <3>2. CASE tokenCache' # caller[p].entry
      BY <2>1, <3>1, <3>2
    <3>3. CASE tokenCache' = caller[p].entry
      <4>1. ~(caller[p].entry.token /\ caller[p].entry.key = key)
        BY <3>3 DEF Known
      <4>2. caller[p].key # key \/ ~Knew(p, key)
        BY <1>2, <2>1, <4>1 DEF Writing, Knew
      <4> QED
        BY <2>1, <3>1, <4>2
    <3> QED
      BY <3>2, <3>3
  <2> QED
    BY <2>0, <2>1
<1> QED
  BY <1>6, <1>7, <1>8

\* The token of a key goes from the machine only in an exchange or a write of
\* another key, of one that had not read it, or that came to nothing.
THEOREM TokenKeeps == Spec => TokenKept
<1>1. TokenInv /\ [TokenNext]_tokenVars
        => [\A key \in Keys : Known(key) /\ ~Known(key)' =>
             \E p \in Callers :
               /\ caller[p].at \in {"asking", "writing"} /\ caller'[p].at # caller[p].at
               /\ \/ caller[p].key # key \/ ~Knew(p, key)
                  \/ caller[p].at = "writing" /\ tokenCache' # caller[p].entry]_tokenVars
  BY TokenGoesKnowingly
<1> QED
  BY <1>1, TokenTypes, PartSpecs, PTL DEF TokenSpec, TokenKept

----------------------------------------------------------------------------
(* The sub-agents.                                                         *)

\* A tracked process is the agent's, was started, and somebody waits for it.
TrackedWatched ==
  \A a \in Agents : tracked[a] # NoProc =>
    /\ proc[tracked[a]].agent = a
    /\ proc[tracked[a]].watched /\ proc[tracked[a]].state # "unborn"

\* What became of a process: nothing before its birth, no word while it is
\* watched, and while the bridge is up a signal only behind a mark.
Lives ==
  \A p \in Procs :
    /\ proc[p].state = "unborn" => proc[p].watched /\ ~proc[p].signalled
    /\ proc[p].watched => logged[p] = "nothing"
    /\ ~proc[p].watched => proc[p].state = "reaped"
    /\ bridge = "up" /\ proc[p].signalled /\ proc[p].watched => p \in stops

\* The stop at work marked its process, and has it still if somebody waits for
\* it; a bridge that exits is at no stop.
CommandMarked ==
  /\ bridge # "up" \/ command.do = "none" => command = NoCommand
  /\ command.do # "none" =>
       /\ command.proc \in Procs /\ proc[command.proc].state # "unborn"
       /\ command.proc \in stops \/ ~proc[command.proc].watched

ChildInv == SubAgentsKnown /\ TrackedWatched /\ Lives /\ CommandMarked

ChildStates == {"unborn", "running", "dead", "reaped"}
Children == [agent : Agents, state : ChildStates, signalled : BOOLEAN, failed : BOOLEAN, watched : BOOLEAN]

\* A field of a process that changes leaves the others.
LEMMA FieldSet ==
  ASSUME SubAgentTypeOK, NEW p \in Procs
  PROVE  /\ \A s \in ChildStates : Set(p, "state", s) =>
              /\ proc' \in [Procs -> Children]
              /\ \A q \in Procs : proc'[q] = IF q = p THEN [proc[p] EXCEPT !.state = s] ELSE proc[q]
         /\ \A b \in BOOLEAN : Set(p, "signalled", b) =>
              /\ proc' \in [Procs -> Children]
              /\ \A q \in Procs : proc'[q] = IF q = p THEN [proc[p] EXCEPT !.signalled = b] ELSE proc[q]
         /\ \A b \in BOOLEAN : Set(p, "watched", b) =>
              /\ proc' \in [Procs -> Children]
              /\ \A q \in Procs : proc'[q] = IF q = p THEN [proc[p] EXCEPT !.watched = b] ELSE proc[q]
<1>1. proc \in [Procs -> Children]
  BY DEF SubAgentTypeOK, Children, ChildStates
<1>2. /\ \A s \in ChildStates : [proc[p] EXCEPT !.state = s] \in Children
      /\ \A b \in BOOLEAN : [proc[p] EXCEPT !.signalled = b] \in Children
      /\ \A b \in BOOLEAN : [proc[p] EXCEPT !.watched = b] \in Children
  BY <1>1 DEF Children
<1> QED
  BY <1>1, <1>2 DEF Set


\* The parts the proofs of the steps use, spelled out once.
LEMMA ChildFacts ==
  ASSUME ChildInv
  PROVE  /\ tracked \in [Agents -> Procs \cup {NoProc}] /\ stops \subseteq Procs
         /\ proc \in [Procs -> Children]
         /\ logged \in [Procs -> {"nothing", "expected", "unexpected"}]
         /\ command \in [do : {"none", "marked", "waits"}, proc : Procs \cup {NoProc}]
         /\ bridge \in {"up", "exiting", "gone"}
         /\ NoProc \notin Procs
         /\ \A p \in Procs :
              /\ proc[p].agent \in Agents /\ proc[p].state \in ChildStates
              /\ proc[p].signalled \in BOOLEAN /\ proc[p].failed \in BOOLEAN /\ proc[p].watched \in BOOLEAN
  BY SubAgentsAssumption DEF ChildInv, SubAgentsKnown, SubAgentTypeOK, Children, ChildStates

\* At the start there is no process, and nothing is tracked.
LEMMA ChildInit == SubAgentInit => ChildInv
<1> SUFFICES ASSUME SubAgentInit PROVE ChildInv
  OBVIOUS
<1>1. \A p \in Procs : \E a \in Agents : proc[p] = Process(a, "unborn")
  BY DEF SubAgentInit
<1>2. \A p \in Procs : /\ proc[p].agent \in Agents /\ proc[p].state = "unborn" /\ proc[p].watched
                       /\ ~proc[p].signalled
                       /\ proc[p] \in [agent : Agents, state : {"unborn", "running", "dead", "reaped"},
                                       signalled : BOOLEAN, failed : BOOLEAN, watched : BOOLEAN]
  <2> TAKE p \in Procs
  <2>1. PICK a \in Agents : proc[p] = Process(a, "unborn")
    BY <1>1
  <2> QED
    BY <2>1 DEF Process
<1>3. proc \in [Procs -> [agent : Agents, state : {"unborn", "running", "dead", "reaped"},
                          signalled : BOOLEAN, failed : BOOLEAN, watched : BOOLEAN]]
  <2>1. proc \in [Procs -> {Process(a, "unborn") : a \in Agents}]
    BY DEF SubAgentInit
  <2> QED
    BY <2>1, <1>2
<1>4. SubAgentTypeOK
  BY <1>3 DEF SubAgentInit, SubAgentTypeOK, NoCommand
<1> QED
  BY <1>2, <1>4 DEF SubAgentInit, ChildInv, SubAgentsKnown, EveryLiveChildTracked, NoChildForgotten,
     MarksTakenBack, TrackedWatched, Lives, CommandMarked, Alive, NoCommand

\* A process ends, or is reaped, by itself.
LEMMA ChildEnds ==
  ASSUME ChildInv, NEW p \in Procs, Exit(p) \/ Reap(p)
  PROVE  ChildInv'
<1> USE ChildFacts
<1>1. PICK s \in ChildStates \ {"unborn", "running"}, f \in BOOLEAN :
        /\ proc' = [proc EXCEPT ![p] = [proc[p] EXCEPT !.state = s, !.failed = f]]
        /\ s = "reaped" \/ proc[p].state = "running"
        /\ proc[p].state \in {"running", "dead"}
  <2>1. CASE Exit(p)
    <3>1. PICK f \in BOOLEAN : proc' = [proc EXCEPT ![p].state = "dead", ![p].failed = f]
      BY <2>1 DEF Exit
    <3>2. proc' = [proc EXCEPT ![p] = [proc[p] EXCEPT !.state = "dead", !.failed = f]]
      BY <3>1
    <3> QED
      BY <2>1, <3>2 DEF Exit, ChildStates
  <2>2. CASE Reap(p)
    <3>1. [proc[p] EXCEPT !.state = "reaped"] = [proc[p] EXCEPT !.state = "reaped", !.failed = proc[p].failed]
      BY DEF Children
    <3> QED
      BY <2>2, <3>1 DEF Reap, Set, ChildStates
  <2> QED
    BY <2>1, <2>2
<1>2. UNCHANGED <<tracked, stops, logged, command, bridge>>
  BY DEF Exit, Reap
<1>3. /\ proc' \in [Procs -> Children]
      /\ \A q \in Procs : /\ proc'[q].agent = proc[q].agent /\ proc'[q].signalled = proc[q].signalled
                          /\ proc'[q].watched = proc[q].watched
                          /\ proc'[q].state = IF q = p THEN s ELSE proc[q].state
  <2>1. [proc[p] EXCEPT !.state = s, !.failed = f] \in Children
    <3>1. proc[p] \in Children
      OBVIOUS
    <3> QED
      BY <3>1 DEF Children
  <2> QED
    BY <1>1, <2>1 DEF Children
<1>4. SubAgentTypeOK'
  BY <1>2, <1>3 DEF SubAgentTypeOK, Children, ChildStates
<1> QED
  BY <1>1, <1>2, <1>3, <1>4 DEF ChildInv, SubAgentsKnown, EveryLiveChildTracked, NoChildForgotten,
     MarksTakenBack, TrackedWatched, Lives, CommandMarked, Alive, NoCommand

\* The monitor settles a process.
LEMMA ChildSettled ==
  ASSUME ChildInv, NEW p \in Procs, Settle(p)
  PROVE  ChildInv'
<1> USE ChildFacts
<1>1. /\ proc[p].state = "reaped" /\ proc[p].watched
      /\ logged' = [logged EXCEPT ![p] = IF p \in stops \/ ~proc[p].failed THEN "expected" ELSE "unexpected"]
      /\ stops' = stops \ {p} /\ tracked' = Untracked(p)
      /\ UNCHANGED <<command, bridge>>
  BY DEF Settle
<1>2. /\ proc' \in [Procs -> Children]
      /\ \A q \in Procs : /\ proc'[q].agent = proc[q].agent /\ proc'[q].signalled = proc[q].signalled
                          /\ proc'[q].state = proc[q].state
                          /\ proc'[q].watched <=> proc[q].watched /\ q # p
  <2>1. Set(p, "watched", FALSE) /\ SubAgentTypeOK
    BY DEF Settle, ChildInv, SubAgentsKnown
  <2>2. /\ proc' \in [Procs -> Children]
        /\ \A q \in Procs : proc'[q] = IF q = p THEN [proc[p] EXCEPT !.watched = FALSE] ELSE proc[q]
    BY <2>1, FieldSet
  <2>3. \A q \in Procs : proc[q].watched \in BOOLEAN /\ proc'[q].watched = (proc[q].watched /\ q # p)
    BY <2>2 DEF Children
  <2> QED
    BY <2>2, <2>3 DEF Children
<1>3. \A a \in Agents : /\ tracked'[a] \in Procs \cup {NoProc} /\ tracked'[a] # p
                        /\ tracked'[a] # NoProc => tracked'[a] = tracked[a]
                        /\ tracked[a] # p => tracked'[a] = tracked[a]
  BY <1>1 DEF Untracked
<1>4. SubAgentTypeOK'
  BY <1>1, <1>2, <1>3 DEF SubAgentTypeOK, Children, ChildStates, Untracked
<1>5. MarksTakenBack'
  <2>1. logged'[p] = "unexpected" => ~proc[p].signalled \/ bridge # "up"
    BY <1>1 DEF ChildInv, Lives
  <2> QED
    BY <1>1, <1>2, <2>1 DEF ChildInv, SubAgentsKnown, MarksTakenBack
<1>6. EveryLiveChildTracked' /\ NoChildForgotten'
  BY <1>1, <1>2, <1>3 DEF ChildInv, SubAgentsKnown, EveryLiveChildTracked, NoChildForgotten, Alive
<1>7. TrackedWatched' /\ Lives' /\ CommandMarked'
  BY <1>1, <1>2, <1>3 DEF ChildInv, TrackedWatched, Lives, CommandMarked
<1> QED
  BY <1>4, <1>5, <1>6, <1>7 DEF ChildInv, SubAgentsKnown

\* A command of the backend starts a process.
LEMMA ChildSpawned ==
  ASSUME ChildInv, NEW a \in Agents, NEW p \in Procs, Spawn(a, p)
  PROVE  ChildInv'
<1> USE ChildFacts
<1>1. /\ command = NoCommand /\ bridge = "up" /\ Free(a) /\ proc[p] = Process(a, "unborn")
      /\ tracked' = [tracked EXCEPT ![a] = p]
      /\ proc' = [Polled(a) EXCEPT ![p].state = "running"]
      /\ UNCHANGED <<stops, logged, command, bridge>>
  BY DEF Spawn
<1>2. proc[p].agent = a /\ proc[p].state = "unborn"
  BY <1>1 DEF Process
<1>3. tracked[a] # p
  BY <1>2 DEF ChildInv, TrackedWatched
<1>4. /\ Polled(a) \in [Procs -> Children]
      /\ \A q \in Procs : /\ Polled(a)[q].agent = proc[q].agent /\ Polled(a)[q].signalled = proc[q].signalled
                          /\ Polled(a)[q].watched = proc[q].watched
                          /\ Polled(a)[q].state = IF q = tracked[a] THEN "reaped" ELSE proc[q].state
  <2>1. CASE tracked[a] = NoProc
    BY <2>1 DEF Polled
  <2>2. CASE tracked[a] # NoProc
    <3>1. tracked[a] \in Procs /\ Polled(a) = [proc EXCEPT ![tracked[a]].state = "reaped"]
      BY <2>2 DEF Polled
    <3>2. Polled(a)[tracked[a]] \in Children
      BY <3>1 DEF Children, ChildStates
    <3> QED
      BY <3>1, <3>2 DEF Children
  <2> QED
    BY <2>1, <2>2
<1>5. /\ proc' \in [Procs -> Children]
      /\ \A q \in Procs : /\ proc'[q].agent = proc[q].agent /\ proc'[q].signalled = proc[q].signalled
                          /\ proc'[q].watched = proc[q].watched
                          /\ proc'[q].state = IF q = p THEN "running"
                                              ELSE IF q = tracked[a] THEN "reaped" ELSE proc[q].state
  <2>1. proc'[p] \in Children
    BY <1>1, <1>4 DEF Children, ChildStates
  <2> QED
    BY <1>1, <1>4, <2>1 DEF Children
<1>6. SubAgentTypeOK'
  BY <1>1, <1>5 DEF SubAgentTypeOK, Children, ChildStates
<1>7. EveryLiveChildTracked'
  <2> SUFFICES ASSUME NEW q \in Procs, proc'[q].state = "running" PROVE tracked'[proc'[q].agent] = q
    BY DEF EveryLiveChildTracked, Alive
  <2>1. CASE q = p
    BY <2>1, <1>1, <1>2, <1>5
  <2>2. CASE q # p
    <3>1. proc[q].state = "running" /\ q # tracked[a]
      BY <2>2, <1>5
    <3>2. tracked[proc[q].agent] = q
      BY <3>1, <1>1 DEF ChildInv, SubAgentsKnown, EveryLiveChildTracked, Alive
    <3> QED
      BY <3>1, <3>2, <1>1, <1>5
  <2> QED
    BY <2>1, <2>2
<1>8. TrackedWatched'
  <2> SUFFICES ASSUME NEW b \in Agents, tracked'[b] # NoProc
               PROVE  /\ proc'[tracked'[b]].agent = b /\ proc'[tracked'[b]].watched
                      /\ proc'[tracked'[b]].state # "unborn"
    BY DEF TrackedWatched
  <2>1. CASE b = a
    BY <2>1, <1>1, <1>2, <1>5 DEF ChildInv, Lives
  <2>2. CASE b # a
    BY <2>2, <1>1, <1>5 DEF ChildInv, TrackedWatched
  <2> QED
    BY <2>1, <2>2
<1>9. Lives'
  BY <1>1, <1>2, <1>3, <1>5 DEF ChildInv, Lives
<1>10. CommandMarked'
  BY <1>1, <1>5 DEF CommandMarked, NoCommand
<1>11. MarksTakenBack'
  BY <1>1, <1>5 DEF ChildInv, SubAgentsKnown, MarksTakenBack
<1>12. NoChildForgotten'
  BY <1>1 DEF NoChildForgotten
<1> QED
  BY <1>6, <1>7, <1>8, <1>9, <1>10, <1>11, <1>12 DEF ChildInv, SubAgentsKnown

\* A command of the backend marks a process, finds it dead or signals it.
LEMMA ChildStopped ==
  ASSUME ChildInv, \/ \E a \in Agents : Despawn(a)
                   \/ FoundDead \/ Terminate \/ Stopped \/ Overdue
  PROVE  ChildInv'
<1> USE ChildFacts
<1>1. CASE \E a \in Agents : Despawn(a)
  <2>1. PICK a \in Agents : Despawn(a)
    BY <1>1
  <2> DEFINE q == tracked[a]
  <2>2. /\ q \in Procs /\ bridge = "up" /\ stops' = stops \cup {q}
        /\ command' = [do |-> "marked", proc |-> q]
        /\ UNCHANGED <<tracked, proc, logged, bridge>>
    BY <2>1 DEF Despawn
  <2>3. proc[q].watched /\ proc[q].state # "unborn"
    BY <2>2 DEF ChildInv, TrackedWatched
  <2> HIDE DEF q
  <2>4. SubAgentTypeOK'
    BY <2>2 DEF ChildInv, SubAgentsKnown, SubAgentTypeOK
  <2> QED
    BY <2>2, <2>3, <2>4 DEF ChildInv, SubAgentsKnown, EveryLiveChildTracked, NoChildForgotten,
       MarksTakenBack, TrackedWatched, Lives, CommandMarked, Alive
<1>2. CASE FoundDead
  <2> DEFINE q == command.proc
  <2>1. /\ q \in Procs /\ PollsExited(q) /\ command' = NoCommand
        /\ UNCHANGED <<tracked, stops, logged, bridge>>
    BY <1>2 DEF FoundDead, Done, ChildInv, CommandMarked
  <2>2. /\ proc' \in [Procs -> Children]
        /\ \A r \in Procs : /\ proc'[r].agent = proc[r].agent /\ proc'[r].signalled = proc[r].signalled
                            /\ proc'[r].watched = proc[r].watched
                            /\ proc'[r].state = IF r = q THEN "reaped" ELSE proc[r].state
    <3>1. Set(q, "state", "reaped") /\ SubAgentTypeOK /\ "reaped" \in ChildStates
      BY <1>2 DEF FoundDead, ChildInv, SubAgentsKnown, ChildStates
    <3>2. /\ proc' \in [Procs -> Children]
          /\ \A r \in Procs : proc'[r] = IF r = q THEN [proc[q] EXCEPT !.state = "reaped"] ELSE proc[r]
      BY <2>1, <3>1, FieldSet
    <3> QED
      BY <3>2 DEF Children
  <2> HIDE DEF q
  <2>3. SubAgentTypeOK'
    BY <2>1, <2>2 DEF SubAgentTypeOK, Children, ChildStates, NoCommand
  <2> QED
    BY <2>1, <2>2, <2>3 DEF ChildInv, SubAgentsKnown, EveryLiveChildTracked, NoChildForgotten,
       MarksTakenBack, TrackedWatched, Lives, CommandMarked, Alive, NoCommand, PollsExited
<1>3. CASE Terminate
  <2> DEFINE q == command.proc
  <2>1. /\ q \in Procs /\ PollsRunning(q) /\ command' = [command EXCEPT !.do = "waits"]
        /\ q \in stops \/ ~proc[q].watched
        /\ bridge = "up"
        /\ UNCHANGED <<tracked, stops, logged, bridge>>
    BY <1>3 DEF Terminate, ChildInv, CommandMarked, NoCommand
  <2>2. proc[q].watched /\ q \in stops /\ logged[q] = "nothing" /\ proc[q].state # "unborn"
    BY <2>1 DEF PollsRunning, ChildInv, Lives
  <2>3. /\ proc' \in [Procs -> Children]
        /\ \A r \in Procs : /\ proc'[r].agent = proc[r].agent /\ proc'[r].state = proc[r].state
                            /\ proc'[r].watched = proc[r].watched
                            /\ proc'[r].signalled <=> (r = q \/ proc[r].signalled)
    <3>1. Set(q, "signalled", TRUE) /\ SubAgentTypeOK
      BY <1>3 DEF Terminate, ChildInv, SubAgentsKnown
    <3>2. /\ proc' \in [Procs -> Children]
          /\ \A r \in Procs : proc'[r] = IF r = q THEN [proc[q] EXCEPT !.signalled = TRUE] ELSE proc[r]
      BY <2>1, <3>1, FieldSet
    <3>3. \A r \in Procs : /\ proc[r].signalled \in BOOLEAN
                            /\ proc'[r].signalled = (r = q \/ proc[r].signalled)
      BY <3>2 DEF Children
    <3> QED
      BY <3>2, <3>3 DEF Children
  <2>4. command' = [do |-> "waits", proc |-> q]
    BY <2>1
  <2> HIDE DEF q
  <2>5. SubAgentTypeOK'
    BY <2>1, <2>3, <2>4 DEF SubAgentTypeOK, Children, ChildStates
  <2>6. EveryLiveChildTracked' /\ NoChildForgotten'
    BY <2>1, <2>3 DEF ChildInv, SubAgentsKnown, EveryLiveChildTracked, NoChildForgotten, Alive
  <2>7. MarksTakenBack'
    BY <2>1, <2>2, <2>3 DEF ChildInv, SubAgentsKnown, MarksTakenBack
  <2>8. TrackedWatched'
    <3>1. \A a \in Agents : tracked[a] \in Procs \cup {NoProc}
      BY DEF ChildInv, SubAgentsKnown, SubAgentTypeOK
    <3> QED
      BY <2>1, <2>3, <3>1 DEF ChildInv, TrackedWatched
  <2>9. Lives'
    BY <2>1, <2>2, <2>3 DEF ChildInv, Lives
  <2>10. CommandMarked'
    BY <2>1, <2>2, <2>3, <2>4 DEF CommandMarked
  <2> QED
    BY <2>5, <2>6, <2>7, <2>8, <2>9, <2>10 DEF ChildInv, SubAgentsKnown
<1>4. CASE Stopped
  <2>1. command' = NoCommand /\ UNCHANGED <<tracked, stops, proc, logged, bridge>>
    BY <1>4 DEF Stopped, Done
  <2> QED
    BY <2>1 DEF ChildInv, SubAgentsKnown, SubAgentTypeOK, EveryLiveChildTracked, NoChildForgotten,
       MarksTakenBack, TrackedWatched, Lives, CommandMarked, Alive, NoCommand
<1>5. CASE Overdue
  <2> DEFINE q == command.proc
  <2>1. q \in Procs /\ command' = NoCommand /\ UNCHANGED <<tracked, stops, logged, bridge>>
    BY <1>5 DEF Overdue, Done, ChildInv, CommandMarked
  <2>2. /\ proc' \in [Procs -> Children]
        /\ \A r \in Procs : /\ proc'[r].agent = proc[r].agent /\ proc'[r].signalled = proc[r].signalled
                            /\ proc'[r].watched = proc[r].watched
                            /\ proc'[r].state = IF r = q /\ proc[r].state = "running" THEN "dead"
                                                ELSE proc[r].state
    <3>1. CASE proc[q].state # "running"
      BY <3>1, <1>5 DEF Overdue, Killed
    <3>2. CASE proc[q].state = "running"
      <4>1. proc' = [proc EXCEPT ![q] = [proc[q] EXCEPT !.state = "dead", !.failed = TRUE]]
        BY <3>2, <1>5 DEF Overdue, Killed
      <4>2. [proc[q] EXCEPT !.state = "dead", !.failed = TRUE] \in Children
        <5>1. proc[q] \in Children
          BY <2>1
        <5> QED
          BY <5>1 DEF Children, ChildStates
      <4> QED
        BY <3>2, <4>1, <4>2, <2>1 DEF Children
    <3> QED
      BY <3>1, <3>2
  <2> HIDE DEF q
  <2>3. SubAgentTypeOK'
    BY <2>1, <2>2 DEF SubAgentTypeOK, Children, ChildStates, NoCommand
  <2> QED
    BY <2>1, <2>2, <2>3 DEF ChildInv, SubAgentsKnown, EveryLiveChildTracked, NoChildForgotten,
       MarksTakenBack, TrackedWatched, Lives, CommandMarked, Alive, NoCommand
<1> QED
  BY <1>1, <1>2, <1>3, <1>4, <1>5

\* The bridge exits: it marks what it tracks, then signals it.
LEMMA ChildLeft ==
  ASSUME ChildInv, BridgeExits \/ BridgeGone
  PROVE  ChildInv'
<1> USE ChildFacts
<1>1. CASE BridgeExits
  <2>1. /\ command = NoCommand /\ bridge = "up" /\ bridge' = "exiting"
        /\ \A p \in stops' : p \in Procs /\ (p \in stops \/ \E a \in Agents : p = tracked[a] /\ p # NoProc)
        /\ UNCHANGED <<tracked, proc, logged, command>>
        /\ stops \subseteq stops'
    BY <1>1 DEF BridgeExits
  <2>2. \A p \in stops' : proc[p].watched
    BY <2>1 DEF ChildInv, SubAgentsKnown, MarksTakenBack, TrackedWatched
  <2> QED
    BY <2>1, <2>2 DEF ChildInv, SubAgentsKnown, SubAgentTypeOK, EveryLiveChildTracked, NoChildForgotten,
       MarksTakenBack, TrackedWatched, Lives, CommandMarked, Alive, NoCommand
<1>2. CASE BridgeGone
  <2>1. /\ bridge = "exiting" /\ bridge' = "gone" /\ command = NoCommand
        /\ proc' = [p \in Procs |-> IF p \in LeftRunning /\ PollsRunning(p)
                                    THEN [proc[p] EXCEPT !.signalled = TRUE] ELSE proc[p]]
        /\ UNCHANGED <<tracked, stops, logged, command>>
    BY <1>2 DEF BridgeGone, ChildInv, CommandMarked
  <2>2. \A p \in Procs : proc[p] \in Children /\ [proc[p] EXCEPT !.signalled = TRUE] \in Children
    <3> TAKE p \in Procs
    <3>1. proc[p] \in Children
      OBVIOUS
    <3> QED
      BY <3>1 DEF Children
  <2>3. /\ proc' \in [Procs -> Children]
        /\ \A r \in Procs : /\ proc'[r].agent = proc[r].agent /\ proc'[r].state = proc[r].state
                            /\ proc'[r].watched = proc[r].watched
                            /\ r \in LeftRunning /\ PollsRunning(r) => proc'[r].signalled
                            /\ ~PollsRunning(r) => proc'[r].signalled = proc[r].signalled
    BY <2>1, <2>2 DEF Children
  <2>4. \A r \in Procs : Alive(r) => r \in LeftRunning /\ PollsRunning(r)
    BY <2>1 DEF ChildInv, SubAgentsKnown, EveryLiveChildTracked, Alive, LeftRunning, PollsRunning
  <2>5. SubAgentTypeOK'
    BY <2>1, <2>3 DEF SubAgentTypeOK, Children, ChildStates
  <2> QED
    BY <2>1, <2>3, <2>4, <2>5 DEF ChildInv, SubAgentsKnown, EveryLiveChildTracked, NoChildForgotten,
       MarksTakenBack, TrackedWatched, Lives, CommandMarked, Alive, NoCommand, PollsRunning
<1> QED
  BY <1>1, <1>2

\* While the bridge is up every live sub-agent is the one its agent is tracked
\* by; at its exit every one that outlives it was told to stop; and an exit is
\* put down to a stop only behind a mark, which is taken back.
THEOREM SubAgentsAreKnown == Spec => []SubAgentsKnown
<1>1. ChildInv /\ UNCHANGED subAgentVars => ChildInv'
  BY DEF ChildInv, SubAgentsKnown, SubAgentTypeOK, EveryLiveChildTracked, NoChildForgotten, MarksTakenBack,
     TrackedWatched, Lives, CommandMarked, Alive, NoCommand, subAgentVars
<1>2. ChildInv /\ SubAgentNext => ChildInv'
  BY ChildEnds, ChildSettled, ChildSpawned, ChildStopped, ChildLeft DEF SubAgentNext
<1>3. SubAgentSpec => []ChildInv
  BY <1>1, <1>2, ChildInit, PTL DEF SubAgentSpec
<1>4. ChildInv => SubAgentsKnown
  BY DEF ChildInv
<1> QED
  BY <1>3, <1>4, PartSpecs, PTL

----------------------------------------------------------------------------
(* The heartbeat of a session.                                             *)

Heartbeats == [at : {"none", "beating", "closing", "unlinking"}, cli : Clis \cup {0}]
StartHooks == [at : {"idle", "posting", "spawning"} \cup Loops, cli : Clis \cup {0}]

PresenceTyped ==
  /\ cli \in [Clis -> {"new", "live", "gone"}] /\ care \in [Clis -> {"none", "own", "another"}]
  /\ startHook \in [Hooks -> StartHooks] /\ loop \in [Loops -> Heartbeats]

\* A heartbeat that closes watched a CLI that is gone, and gone is for good.
ClosesAfter ==
  \A l \in Loops :
    /\ loop[l].at # "none" => loop[l].cli \in Clis
    /\ loop[l].at \in {"closing", "unlinking"} => cli[loop[l].cli] = "gone"

\* A start hook was fired by a CLI that had started, and the heartbeat it
\* spawned beats for this CLI while it lives.
SpawnedBeats ==
  \A h \in Hooks : startHook[h].at # "idle" =>
    /\ startHook[h].cli \in Clis /\ cli[startHook[h].cli] # "new"
    /\ startHook[h].at \in Loops /\ cli[startHook[h].cli] = "live"
         => loop[startHook[h].at] = [at |-> "beating", cli |-> startHook[h].cli]

\* Nobody saw to the heartbeat of a CLI that was not started.
NewUncared == \A c \in Clis : cli[c] = "new" => care[c] = "none"

PresenceInv == PresenceTyped /\ ClosesAfter /\ SpawnedBeats /\ NewUncared /\ BeatsUnlessHandedOver

\* At the start no CLI runs and no heartbeat beats.
LEMMA PresenceStarts == PresenceInit => PresenceInv
  BY DEF PresenceInit, PresenceInv, PresenceTyped, ClosesAfter, SpawnedBeats, NewUncared,
     BeatsUnlessHandedOver, IdleHook, NoLoop, Heartbeats, StartHooks

\* The CLI starts or quits.
LEMMA CliMoves ==
  ASSUME PresenceInv, NEW c \in Clis, Opens(c) \/ Quits(c)
  PROVE  PresenceInv'
<1>1. /\ cli' \in [Clis -> {"new", "live", "gone"}]
      /\ \A d \in Clis : /\ d # c => cli'[d] = cli[d]
                         /\ cli[d] = "gone" => cli'[d] = "gone"
                         /\ cli[d] # "new" => cli'[d] # "new"
                         /\ cli'[d] = "new" => cli[d] = "new"
                         /\ cli'[d] = "live" => cli[d] \in {"new", "live"}
      /\ UNCHANGED <<startHook, loop, care>>
  BY DEF Opens, Quits, PresenceInv, PresenceTyped
<1>2. \A d \in Clis : cli[d] = "new" => care[d] = "none"
  BY DEF PresenceInv, NewUncared
<1>3. \A h \in Hooks : startHook[h].at # "idle" => cli[startHook[h].cli] # "new"
  BY DEF PresenceInv, SpawnedBeats
<1> QED
  BY <1>1, <1>2, <1>3 DEF PresenceInv, PresenceTyped, ClosesAfter, SpawnedBeats, NewUncared, BeatsUnlessHandedOver

\* A start hook fires, or finds no heartbeat.
LEMMA HookMoves ==
  ASSUME PresenceInv, NEW h \in Hooks, (\E c \in Clis : Fires(h, c)) \/ FindsNone(h)
  PROVE  PresenceInv'
<1>1. PICK c \in Clis, s \in {"posting", "spawning"} :
        /\ startHook' = [startHook EXCEPT ![h] = [at |-> s, cli |-> c]] /\ cli[c] # "new"
        /\ UNCHANGED <<cli, loop, care>>
  <2>1. CASE \E c \in Clis : Fires(h, c)
    BY <2>1 DEF Fires
  <2>2. CASE FindsNone(h)
    <3>1. startHook[h] \in StartHooks /\ startHook[h].cli \in Clis /\ startHook[h].at # "idle"
      BY <2>2 DEF FindsNone, PresenceInv, PresenceTyped, SpawnedBeats
    <3>2. [startHook[h] EXCEPT !.at = "spawning"] = [at |-> "spawning", cli |-> startHook[h].cli]
      BY <3>1 DEF StartHooks
    <3> QED
      BY <2>2, <3>1, <3>2 DEF FindsNone
  <2> QED
    BY <2>1, <2>2
<1>2. startHook' \in [Hooks -> StartHooks]
  BY <1>1 DEF PresenceInv, PresenceTyped, StartHooks
<1>3. SpawnedBeats'
  BY <1>1, SessionPresenceAssumption DEF PresenceInv, PresenceTyped, SpawnedBeats
<1> QED
  BY <1>1, <1>2, <1>3 DEF PresenceInv, PresenceTyped, ClosesAfter, NewUncared, BeatsUnlessHandedOver

\* A start hook leaves the heartbeat to the process of the pid file.
LEMMA HookLeaves ==
  ASSUME PresenceInv, NEW h \in Hooks, LeavesAlone(h)
  PROVE  PresenceInv'
<1> DEFINE c == startHook[h].cli
           own == ~(Runs(pidfile) /\ ~Serves(pidfile, c))
<1>1. /\ c \in Clis /\ cli[c] # "new" /\ (cli[c] = "gone" \/ Runs(pidfile))
      /\ care' = [care EXCEPT ![c] = IF own THEN "own" ELSE IF @ = "none" THEN "another" ELSE @]
      /\ startHook' = [startHook EXCEPT ![h] = IdleHook]
      /\ UNCHANGED <<cli, loop>>
  BY DEF LeavesAlone, PidRuns, PresenceInv, SpawnedBeats
<1>2. ASSUME cli[c] = "live", own PROVE loop[pidfile] = [at |-> "beating", cli |-> c] /\ pidfile \in Loops
  <2>1. pidfile \in Loops /\ loop[pidfile].at \in {"beating", "closing", "unlinking"} /\ loop[pidfile].cli = c
    BY <1>1, <1>2 DEF Serves, Watching
  <2>2. loop[pidfile].at = "beating"
    BY <1>2, <2>1 DEF PresenceInv, ClosesAfter
  <2> QED
    BY <2>1, <2>2 DEF PresenceInv, PresenceTyped, Heartbeats
<1>3. \A d \in Clis : /\ d # c => care'[d] = care[d]
                      /\ care'[d] = "own" => care[d] = "own" \/ (d = c /\ own)
  BY <1>1 DEF PresenceInv, PresenceTyped
<1>4. PresenceTyped'
  BY <1>1 DEF PresenceInv, PresenceTyped, StartHooks, IdleHook
<1>5. BeatsUnlessHandedOver'
  BY <1>1, <1>2, <1>3 DEF PresenceInv, BeatsUnlessHandedOver
<1>6. SpawnedBeats'
  BY <1>1 DEF PresenceInv, PresenceTyped, SpawnedBeats, IdleHook
<1> QED
  BY <1>1, <1>3, <1>4, <1>5, <1>6 DEF PresenceInv, ClosesAfter, NewUncared

\* A start hook spawns a heartbeat, and writes its id down.
LEMMA HookSpawns ==
  ASSUME PresenceInv, NEW h \in Hooks, NEW l \in Loops, Spawns(h, l)
  PROVE  PresenceInv'
<1> DEFINE c == startHook[h].cli
<1>1. /\ c \in Clis /\ cli[c] # "new" /\ loop[l] = NoLoop
      /\ loop' = [loop EXCEPT ![l] = [at |-> "beating", cli |-> c]]
      /\ startHook' = [startHook EXCEPT ![h] = [at |-> l, cli |-> c]]
      /\ UNCHANGED <<cli, care>>
  BY SessionPresenceAssumption DEF Spawns, PresenceInv, SpawnedBeats
<1> HIDE DEF c
<1>2. PresenceTyped'
  BY <1>1 DEF PresenceInv, PresenceTyped, StartHooks, Heartbeats
<1>3. \A k \in Loops, d \in Clis : loop[k] = [at |-> "beating", cli |-> d] => k # l /\ loop'[k] = loop[k]
  BY <1>1 DEF NoLoop, PresenceInv, PresenceTyped
<1>4. SpawnedBeats'
  BY <1>1, <1>3 DEF PresenceInv, PresenceTyped, SpawnedBeats
<1>5. BeatsUnlessHandedOver'
  BY <1>1, <1>3 DEF PresenceInv, BeatsUnlessHandedOver
<1> QED
  BY <1>1, <1>2, <1>4, <1>5 DEF PresenceInv, PresenceTyped, ClosesAfter, NewUncared

\* A start hook writes down the heartbeat it spawned.
LEMMA HookWrites ==
  ASSUME PresenceInv, NEW h \in Hooks, WritesPid(h)
  PROVE  PresenceInv'
<1> DEFINE c == startHook[h].cli
           l == startHook[h].at
<1>1. /\ l \in Loops /\ l # "idle"
      /\ startHook' = [startHook EXCEPT ![h] = IdleHook] /\ care' = [care EXCEPT ![c] = "own"]
      /\ UNCHANGED <<cli, loop>>
  BY SessionPresenceAssumption DEF WritesPid
<1>2. c \in Clis /\ cli[c] # "new" /\ (cli[c] = "live" => loop[l] = [at |-> "beating", cli |-> c])
  BY <1>1 DEF PresenceInv, SpawnedBeats
<1> HIDE DEF c, l
<1>3. PresenceTyped'
  BY <1>1, <1>2 DEF PresenceInv, PresenceTyped, StartHooks, IdleHook
<1>4. SpawnedBeats'
  BY <1>1 DEF PresenceInv, PresenceTyped, SpawnedBeats, IdleHook
<1>5. BeatsUnlessHandedOver' /\ NewUncared'
  BY <1>1, <1>2 DEF PresenceInv, PresenceTyped, BeatsUnlessHandedOver, NewUncared
<1> QED
  BY <1>1, <1>3, <1>4, <1>5 DEF PresenceInv, ClosesAfter

\* A heartbeat sees that its CLI is gone, closes the session and ends.
LEMMA LoopEnds ==
  ASSUME PresenceInv, NEW l \in Loops, SeesItGone(l) \/ PostsEnd(l) \/ Unlinks(l)
  PROVE  PresenceInv'
<1>1. /\ loop[l].cli \in Clis /\ cli[loop[l].cli] = "gone"
      /\ UNCHANGED <<cli, startHook, care>>
  BY DEF SeesItGone, PostsEnd, Unlinks, PresenceInv, ClosesAfter
<1>2. PICK r \in Heartbeats :
        /\ loop' = [loop EXCEPT ![l] = r]
        /\ r = NoLoop \/ (r.cli = loop[l].cli /\ r.at \in {"closing", "unlinking"})
  <2>1. loop[l] \in Heartbeats
    BY DEF PresenceInv, PresenceTyped
  <2>2. CASE Unlinks(l)
    BY <2>2 DEF Unlinks, NoLoop, Heartbeats
  <2>3. CASE SeesItGone(l) \/ PostsEnd(l)
    <3>1. PICK s \in {"closing", "unlinking"} : loop' = [loop EXCEPT ![l].at = s]
      BY <2>3 DEF SeesItGone, PostsEnd
    <3>2. loop' = [loop EXCEPT ![l] = [loop[l] EXCEPT !.at = s]]
      BY <3>1
    <3>3. [loop[l] EXCEPT !.at = s] \in Heartbeats /\ [loop[l] EXCEPT !.at = s].cli = loop[l].cli
          /\ [loop[l] EXCEPT !.at = s].at = s
      BY <2>1 DEF Heartbeats
    <3> QED
      BY <3>2, <3>3
  <2> QED
    BY <2>2, <2>3
<1>3. PresenceTyped'
  BY <1>1, <1>2 DEF PresenceInv, PresenceTyped
<1>4. ClosesAfter'
  BY <1>1, <1>2 DEF PresenceInv, PresenceTyped, ClosesAfter, NoLoop
<1>5. \A k \in Loops, d \in Clis : cli[d] = "live" /\ loop[k] = [at |-> "beating", cli |-> d] => loop'[k] = loop[k]
  BY <1>1, <1>2 DEF PresenceInv, PresenceTyped
<1>6. SpawnedBeats' /\ BeatsUnlessHandedOver'
  BY <1>1, <1>5 DEF PresenceInv, SpawnedBeats, BeatsUnlessHandedOver
<1> QED
  BY <1>1, <1>3, <1>4, <1>6 DEF PresenceInv, NewUncared

\* As long as a CLI lives, the heartbeat its start hooks saw to goes on,
\* whatever the hooks and heartbeats of earlier CLIs do to the pid file.
THEOREM LiveSessionBeats == Spec => []BeatsUnlessHandedOver
<1>1. PresenceInv /\ UNCHANGED presenceVars => PresenceInv'
  BY DEF PresenceInv, PresenceTyped, ClosesAfter, SpawnedBeats, NewUncared, BeatsUnlessHandedOver, presenceVars
<1>2. PresenceInv /\ PresenceNext => PresenceInv'
  BY CliMoves, HookMoves, HookLeaves, HookSpawns, HookWrites, LoopEnds DEF PresenceNext
<1>3. PresenceSpec => []PresenceInv
  BY <1>1, <1>2, PresenceStarts, PTL DEF PresenceSpec
<1>4. PresenceInv => BeatsUnlessHandedOver
  BY DEF PresenceInv
<1> QED
  BY <1>3, <1>4, PartSpecs, PTL

----------------------------------------------------------------------------
(* The screen.                                                             *)

LockFiles == [by : Servers \cup {Gone, Stranger}, written : BOOLEAN]
Starting == {"off", "locking", "reading", "judging", "stealing"}
Driving == {"driving", "mapped", "normalised", "pointed", "capturing"}
Stages == Starting \cup {"writing", "serving", "releasing", "gates", "dead"} \cup Driving
Mappings == [origin : Int, captured : Nat \ {0}, shipped : Nat \ {0}]
Controllers ==
  [at : Stages, tries : Nat, saw : LockFiles \cup {NoFile}, transform : Mappings \cup {NoLayout},
   seen : Layouts \cup {NoLayout}, misled : BOOLEAN, ask : Requests \cup {"none"}, x : Nat,
   live : Layouts \cup {NoLayout}, target : Int, place : Int, pointer : Int]
ComputerTyped ==
  lock \in LockFiles \cup {NoFile} /\ controller \in [Servers -> Controllers] /\ screens \in Layouts

\* Nobody robbed: the file is that of the server that has the screen.
LockHeld ==
  \A s \in Servers \ robbed :
    /\ controller[s].at = "writing" => lock = File(s, FALSE)
    /\ HasScreen(s) => lock = File(s, TRUE)

\* A server is never named by a file, nor by one that was read, before it made
\* one, and a takeover goes after a file that named a dead process, or nobody yet.
DeadFiles ==
  /\ \A s \in Servers, w \in BOOLEAN : lock = File(s, w) => controller[s].at \notin Starting
  /\ \A s \in Servers : controller[s].at = "judging" => controller[s].saw \in LockFiles
  /\ \A s, t \in Servers :
       controller[s].at = "judging" /\ controller[s].saw.by = t => controller[t].at \notin Starting
  /\ \A s, t \in Servers :
       controller[s].at = "stealing" /\ controller[s].saw = File(t, TRUE) => controller[t].at = "dead"

\* The driver aims through the screenshot that was answered last, and places
\* the pointer by the screens as it found them.
AimsAt(r) ==
  /\ ~r.misled => r.transform = r.seen
  /\ r.at \in {"mapped", "normalised", "pointed"} /\ ~r.misled /\ r.seen # NoLayout =>
       r.target = Mapped(r.x, r.seen)
  /\ r.at \in {"normalised", "pointed", "capturing"} => r.live \in Layouts
  /\ r.at \in {"normalised", "pointed"} => r.place = Placed(r.target, r.live)
  /\ r.at = "pointed" => r.pointer = PixelAt(r.place, r.live)
Aimed == \A s \in Servers : AimsAt(controller[s])

LockInv == ComputerTyped /\ LockHeld /\ DeadFiles

\* Two files are the same only with the same name in them, and none is no file.
LEMMA FileEqual ==
  /\ \A s, t, w, v : File(s, w) = File(t, v) => s = t /\ w = v
  /\ \A s \in Servers \cup {Gone, Stranger}, w \in BOOLEAN : File(s, w) # NoFile /\ File(s, w) \in LockFiles
  /\ \A s, w : File(s, w).by = s /\ File(s, w).written = w
  /\ \A f \in LockFiles : f = File(f.by, f.written) /\ f # NoFile
  BY ComputerUseAssumption DEF File, LockFiles

\* A new record of a server changes nothing for the others.
LEMMA PutsAt ==
  ASSUME ComputerTyped, NEW s \in Servers, NEW r \in Controllers, Puts(s, r)
  PROVE  /\ controller' \in [Servers -> Controllers]
         /\ \A t \in Servers : controller'[t] = IF t = s THEN r ELSE controller[t]
  BY DEF ComputerTyped, Puts

\* The records a server gets to.
LEMMA RecordSet ==
  ASSUME ComputerTyped, NEW s \in Servers, NEW at \in Stages
  PROVE  /\ [controller[s] EXCEPT !.at = at] \in Controllers
         /\ [controller[s] EXCEPT !.at = at].at = at
         /\ [NotStarted EXCEPT !.at = at] \in Controllers
         /\ [NotStarted EXCEPT !.at = at].at = at
<1>1. controller[s] \in Controllers /\ NotStarted \in Controllers
  BY DEF ComputerTyped, NotStarted, Controllers, Stages, Starting, Requests
<1>2. ASSUME NEW r \in Controllers
      PROVE  [r EXCEPT !.at = at] \in Controllers /\ [r EXCEPT !.at = at].at = at
  BY DEF Controllers
<1> QED
  BY <1>1, <1>2

\* The stages of a server are told apart.
LEMMA StageNames ==
  {"off", "locking", "reading", "judging", "stealing", "writing", "serving", "releasing", "gates", "driving",
   "mapped", "normalised", "pointed", "capturing", "dead"} \subseteq Stages
  BY DEF Stages, Starting, Driving

\* At the start nobody has the screen.
LEMMA LockStarts == ComputerInit => LockInv
<1> SUFFICES ASSUME ComputerInit PROVE LockInv
  OBVIOUS
<1>1. NotStarted \in Controllers /\ NotStarted.at = "off"
  BY DEF NotStarted, Controllers, Stages, Starting, Requests
<1>2. PICK t \in {Gone, Stranger}, v \in BOOLEAN : lock = NoFile \/ lock = File(t, v)
  BY DEF ComputerInit
<1>3. lock \in LockFiles \cup {NoFile} /\ \A s \in Servers, w \in BOOLEAN : lock # File(s, w)
  <2>1. \A s \in Servers, w \in BOOLEAN : File(s, w) # NoFile /\ s # t
    BY FileEqual, ComputerUseAssumption
  <2>2. File(t, v) \in LockFiles
    BY FileEqual
  <2>3. \A s \in Servers, w \in BOOLEAN : File(s, w) = File(t, v) => s = t
    BY FileEqual
  <2> QED
    BY <1>2, <2>1, <2>2, <2>3
<1>4. ComputerTyped
  BY <1>1, <1>3 DEF ComputerInit, ComputerTyped
<1> QED
  BY <1>1, <1>3, <1>4 DEF ComputerInit, LockInv, LockHeld, DeadFiles, HasScreen

\* A step of one server that leaves the file alone and does not begin to take
\* it over.
LEMMA LockKept ==
  ASSUME LockInv, NEW s \in Servers, NEW r \in Controllers, Puts(s, r), UNCHANGED <<lock, robbed>>,
         screens' \in Layouts,
         controller[s].at # "dead", r.at \notin {"writing", "judging", "stealing"},
         r.at \notin Starting \cup {"dead"} => HasScreen(s),
         r.at \in Starting => controller[s].at \in Starting
  PROVE  LockInv'
<1>1. /\ controller' \in [Servers -> Controllers]
      /\ \A t \in Servers : controller'[t] = IF t = s THEN r ELSE controller[t]
  BY PutsAt DEF LockInv
<1>2. ComputerTyped'
  BY <1>1 DEF LockInv, ComputerTyped
<1>3. LockHeld'
  <2> SUFFICES ASSUME NEW t \in Servers \ robbed
               PROVE  /\ controller'[t].at = "writing" => lock = File(t, FALSE)
                      /\ HasScreen(t)' => lock = File(t, TRUE)
    BY DEF LockHeld
  <2>1. CASE t = s
    BY <1>1, <2>1 DEF LockInv, LockHeld, HasScreen, Starting
  <2>2. CASE t # s
    BY <1>1, <2>2 DEF LockInv, LockHeld, HasScreen
  <2> QED
    BY <2>1, <2>2
<1>4. DeadFiles'
  BY <1>1 DEF LockInv, DeadFiles
<1> QED
  BY <1>2, <1>3, <1>4 DEF LockInv

\* Making the file, and writing the id in it.
LEMMA LockMade ==
  ASSUME LockInv, NEW s \in Servers, Create(s) \/ Write(s)
  PROVE  LockInv'
<1>1. CASE Create(s)
  <2> DEFINE r == [controller[s] EXCEPT !.at = "writing"]
  <2>1. r \in Controllers /\ r.at = "writing"
    BY RecordSet, StageNames DEF LockInv
  <2>2. /\ controller[s].at = "locking" /\ lock = NoFile /\ lock' = File(s, FALSE) /\ Puts(s, r)
        /\ UNCHANGED <<robbed, screens>>
    BY <1>1 DEF Create, Moves
  <2> HIDE DEF r
  <2>3. /\ controller' \in [Servers -> Controllers]
        /\ \A t \in Servers : controller'[t] = IF t = s THEN r ELSE controller[t]
    BY <2>1, <2>2, PutsAt DEF LockInv
  <2>4. ComputerTyped'
    BY <2>2, <2>3, FileEqual DEF LockInv, ComputerTyped
  <2>5. LockHeld'
    BY <2>1, <2>2, <2>3, FileEqual DEF LockInv, LockHeld, HasScreen
  <2>6. DeadFiles'
    <3>1. \A t \in Servers, w \in BOOLEAN : File(s, FALSE) = File(t, w) => t = s
      BY DEF File
    <3> QED
      BY <2>1, <2>2, <2>3, <3>1 DEF LockInv, DeadFiles, Starting
  <2> QED
    BY <2>4, <2>5, <2>6 DEF LockInv
<1>2. CASE Write(s)
  <2> DEFINE r == [NotStarted EXCEPT !.at = "serving"]
  <2>1. r \in Controllers /\ r.at = "serving"
    BY RecordSet, StageNames DEF LockInv
  <2>2. /\ controller[s].at = "writing" /\ Puts(s, r)
        /\ lock' = IF lock = File(s, FALSE) THEN File(s, TRUE) ELSE lock
        /\ UNCHANGED <<robbed, screens>>
    BY <1>2 DEF Write
  <2> HIDE DEF r
  <2>3. /\ controller' \in [Servers -> Controllers]
        /\ \A t \in Servers : controller'[t] = IF t = s THEN r ELSE controller[t]
    BY <2>1, <2>2, PutsAt DEF LockInv
  <2>4. ComputerTyped'
    BY <2>2, <2>3, FileEqual DEF LockInv, ComputerTyped
  <2>5. LockHeld'
    <3> SUFFICES ASSUME NEW t \in Servers \ robbed
                 PROVE  /\ controller'[t].at = "writing" => lock' = File(t, FALSE)
                        /\ HasScreen(t)' => lock' = File(t, TRUE)
      BY <2>2 DEF LockHeld
    <3>1. CASE t = s
      BY <3>1, <2>1, <2>2, <2>3 DEF LockInv, LockHeld
    <3>2. CASE t # s
      <4>1. File(t, FALSE) # File(s, FALSE) /\ File(t, TRUE) # File(s, FALSE)
        BY <3>2 DEF File
      <4> QED
        BY <3>2, <4>1, <2>2, <2>3 DEF LockInv, LockHeld, HasScreen
    <3> QED
      BY <3>1, <3>2
  <2>6. DeadFiles'
    <3>1. \A t \in Servers, w \in BOOLEAN : File(s, TRUE) = File(t, w) => t = s
      BY DEF File
    <3> QED
      BY <2>1, <2>2, <2>3, <3>1 DEF LockInv, DeadFiles, Starting
  <2> QED
    BY <2>4, <2>5, <2>6 DEF LockInv
<1> QED
  BY <1>1, <1>2

\* Reading whose the file is, and judging whether that process is alive.
LEMMA LockRead ==
  ASSUME LockInv, NEW s \in Servers, ReadsHolder(s) \/ Judges(s)
  PROVE  LockInv'
<1>0. controller[s].at \in {"reading", "judging"} /\ UNCHANGED <<lock, robbed, screens>>
  BY DEF ReadsHolder, Judges
<1>1. CASE Judges(s) /\ PidAlive(controller[s].saw.by)
  <2>1. Puts(s, [NotStarted EXCEPT !.at = "dead"])
    BY <1>1 DEF Judges
  <2>2. [NotStarted EXCEPT !.at = "dead"] \in Controllers /\ [NotStarted EXCEPT !.at = "dead"].at = "dead"
    BY RecordSet, StageNames DEF LockInv
  <2> QED
    BY <1>0, <2>1, <2>2, LockKept DEF LockInv, ComputerTyped, Starting
<1>2. ASSUME NEW r \in Controllers, Puts(s, r), r.at \in {"judging", "stealing"},
             r.at = "judging" => r.saw = lock /\ lock # NoFile,
             r.at = "stealing" => \A t \in Servers : r.saw = File(t, TRUE) => t # s /\ controller[t].at = "dead"
      PROVE  LockInv'
  <2>1. /\ controller' \in [Servers -> Controllers]
        /\ \A t \in Servers : controller'[t] = IF t = s THEN r ELSE controller[t]
    BY <1>2, PutsAt DEF LockInv
  <2>2. ComputerTyped' /\ LockHeld'
    BY <1>0, <1>2, <2>1 DEF LockInv, ComputerTyped, LockHeld, HasScreen
  <2>3. \A t \in Servers : controller'[t].at \in Starting <=> controller[t].at \in Starting
    BY <1>0, <1>2, <2>1 DEF Starting
  <2>4. ASSUME NEW t \in Servers, r.at = "judging", r.saw.by = t
        PROVE  controller[t].at \notin Starting
    <3>1. lock \in LockFiles /\ lock.by = t
      BY <1>2, <2>4 DEF LockInv, ComputerTyped
    <3>2. lock.written \in BOOLEAN /\ lock = File(t, lock.written)
      BY <3>1, FileEqual DEF LockFiles
    <3> QED
      BY <3>2 DEF LockInv, DeadFiles
  <2>5. r.at = "judging" => r.saw \in LockFiles
    BY <1>2 DEF LockInv, ComputerTyped
  <2>6. \A t \in Servers, w \in BOOLEAN : lock' = File(t, w) => controller'[t].at \notin Starting
    BY <1>0, <2>3 DEF LockInv, DeadFiles
  <2>7. \A u \in Servers : controller'[u].at = "judging" => controller'[u].saw \in LockFiles
    BY <2>1, <2>5 DEF LockInv, DeadFiles
  <2>8. \A u, t \in Servers :
          controller'[u].at = "judging" /\ controller'[u].saw.by = t => controller'[t].at \notin Starting
    BY <2>1, <2>3, <2>4 DEF LockInv, DeadFiles
  <2>9. \A u, t \in Servers :
          controller'[u].at = "stealing" /\ controller'[u].saw = File(t, TRUE) => controller'[t].at = "dead"
    BY <1>0, <1>2, <2>1 DEF LockInv, DeadFiles
  <2> QED
    BY <2>2, <2>6, <2>7, <2>8, <2>9 DEF LockInv, DeadFiles
<1>3. CASE ReadsHolder(s)
  <2> DEFINE at == IF lock # NoFile /\ lock.written THEN "judging" ELSE "stealing"
             r == [controller[s] EXCEPT !.saw = lock, !.at = at]
  <2>1. r \in Controllers /\ r.at = at /\ r.saw = lock
    <3>1. at \in Stages /\ lock \in LockFiles \cup {NoFile} /\ controller[s] \in Controllers
      BY StageNames DEF LockInv, ComputerTyped
    <3> QED
      BY <3>1 DEF Controllers
  <2>2. Puts(s, r)
    BY <1>3 DEF ReadsHolder
  <2>3. at = "stealing" => \A t \in Servers : lock # File(t, TRUE)
    BY FileEqual
  <2>4. at \in {"judging", "stealing"} /\ (at = "judging" => lock # NoFile)
    OBVIOUS
  <2> HIDE DEF r, at
  <2> QED
    BY <1>2, <2>1, <2>2, <2>3, <2>4
<1>4. CASE Judges(s) /\ ~PidAlive(controller[s].saw.by)
  <2> DEFINE r == [controller[s] EXCEPT !.at = "stealing"]
  <2>1. r \in Controllers /\ r.at = "stealing" /\ r.saw = controller[s].saw
    BY RecordSet, StageNames DEF LockInv, ComputerTyped, Controllers
  <2>2. Puts(s, r) /\ controller[s].at = "judging"
    BY <1>4 DEF Judges, Moves
  <2>3. ASSUME NEW t \in Servers, controller[s].saw = File(t, TRUE)
        PROVE  t # s /\ controller[t].at = "dead"
    <3>1. controller[s].saw.by = t
      BY <2>3 DEF File
    <3>2. controller[t].at \notin Starting
      BY <2>2, <3>1 DEF LockInv, DeadFiles
    <3>3. t \in {u \in Servers : controller[u].at \in {"off", "dead"}}
      BY <1>4, <3>1, ComputerUseAssumption DEF PidAlive, Dead
    <3> QED
      BY <2>2, <3>2, <3>3 DEF Starting
  <2> HIDE DEF r
  <2> QED
    BY <1>2, <2>1, <2>2, <2>3
<1> QED
  BY <1>1, <1>3, <1>4

\* Removing the file: whoever's it is, its owner counts as robbed.
LEMMA LockRemoved ==
  ASSUME LockInv, NEW s \in Servers, NEW read, NEW r \in Controllers,
         RemovesFile(read), Puts(s, r), UNCHANGED screens,
         r.at \in {"locking", "dead"}, controller[s].at # "dead",
         r.at = "locking" => controller[s].at \in Starting,
         \A t \in Servers : t # s /\ read = File(t, TRUE) => controller[t].at = "dead"
  PROVE  LockInv'
<1>2. /\ controller' \in [Servers -> Controllers]
      /\ \A t \in Servers : controller'[t] = IF t = s THEN r ELSE controller[t]
  BY PutsAt DEF LockInv
<1>3. /\ lock' = NoFile
      /\ robbed' = IF lock # NoFile /\ (lock # read \/ ~lock.written) THEN robbed \cup {lock.by} ELSE robbed
  BY DEF RemovesFile
<1>4. ComputerTyped'
  BY <1>2, <1>3 DEF LockInv, ComputerTyped
<1>5. LockHeld'
  <2> SUFFICES ASSUME NEW t \in Servers \ robbed', controller'[t].at = "writing" \/ HasScreen(t)'
               PROVE  FALSE
    BY DEF LockHeld
  <2>1. t # s /\ t \notin robbed /\ (controller[t].at = "writing" \/ HasScreen(t))
    BY <1>2, <1>3 DEF HasScreen
  <2>2. PICK w \in BOOLEAN : lock = File(t, w) /\ (w => HasScreen(t))
    BY <2>1 DEF LockInv, LockHeld
  <2>3. lock # NoFile /\ lock.by = t /\ lock.written = w
    BY <2>2, FileEqual
  <2>4. lock = read /\ w
    BY <1>3, <2>3
  <2>5. controller[t].at = "dead"
    BY <2>1, <2>2, <2>4
  <2> QED
    BY <2>2, <2>4, <2>5 DEF HasScreen
<1>6. DeadFiles'
  <2>1. \A t \in Servers, w \in BOOLEAN : lock' # File(t, w)
    BY <1>3, FileEqual
  <2>2. \A t \in Servers : controller'[t].at \in Starting => controller[t].at \in Starting
    BY <1>2 DEF Starting
  <2>3. \A t \in Servers : controller[t].at = "dead" => controller'[t].at = "dead"
    BY <1>2
  <2>4. \A u \in Servers : controller'[u].at \in {"judging", "stealing"} => controller'[u] = controller[u]
    BY <1>2
  <2>5. \A u \in Servers : controller'[u].at = "judging" => controller'[u].saw \in LockFiles
    BY <2>4 DEF LockInv, DeadFiles
  <2>6. \A u, t \in Servers :
          controller'[u].at = "judging" /\ controller'[u].saw.by = t => controller'[t].at \notin Starting
    BY <2>2, <2>4 DEF LockInv, DeadFiles
  <2>7. \A u, t \in Servers :
          controller'[u].at = "stealing" /\ controller'[u].saw = File(t, TRUE) => controller'[t].at = "dead"
    BY <2>3, <2>4 DEF LockInv, DeadFiles
  <2> QED
    BY <2>1, <2>5, <2>6, <2>7 DEF DeadFiles
<1> QED
  BY <1>4, <1>5, <1>6 DEF LockInv


\* A server that has read whose the file is removes it or leaves it.
LEMMA LockTakenOver ==
  ASSUME LockInv, NEW s \in Servers, Steal(s) \/ Release(s)
  PROVE  LockInv'
<1> DEFINE dead == [NotStarted EXCEPT !.at = "dead"]
           again == [controller[s] EXCEPT !.at = "locking", !.tries = @ + 1, !.saw = NoFile]
<1>1. dead \in Controllers /\ dead.at = "dead"
  BY RecordSet, StageNames DEF LockInv
<1>2. again \in Controllers /\ again.at = "locking"
  <2>1. /\ controller[s] \in Controllers /\ controller[s].tries + 1 \in Nat
        /\ "locking" \in Stages /\ NoFile \in LockFiles \cup {NoFile}
    BY StageNames DEF LockInv, ComputerTyped, Controllers
  <2>2. again = [controller[s] EXCEPT !.at = "locking", !.tries = controller[s].tries + 1, !.saw = NoFile]
    BY <2>1 DEF Controllers
  <2> QED
    BY <2>1, <2>2 DEF Controllers
<1>3. CASE Steal(s)
  <2>1. /\ controller[s].at = "stealing" /\ RemovesFile(controller[s].saw) /\ UNCHANGED screens
        /\ Puts(s, again) \/ Puts(s, dead)
    BY <1>3 DEF Steal
  <2>2. \A t \in Servers : controller[s].saw = File(t, TRUE) => controller[t].at = "dead"
    BY <2>1 DEF LockInv, DeadFiles
  <2>3. controller[s].at \in Starting /\ controller[s].at # "dead"
    BY <2>1 DEF Starting
  <2> HIDE DEF dead, again
  <2> QED
    BY <1>1, <1>2, <2>1, <2>2, <2>3, LockRemoved
<1>4. CASE Release(s)
  <2>1. /\ controller[s].at = "releasing" /\ RemovesFile(File(s, TRUE)) /\ UNCHANGED screens /\ Puts(s, dead)
    BY <1>4 DEF Release
  <2>2. \A t \in Servers : t # s => File(s, TRUE) # File(t, TRUE)
    BY DEF File
  <2> HIDE DEF dead
  <2> QED
    BY <1>1, <2>1, <2>2, LockRemoved
<1> QED
  BY <1>3, <1>4

\* Rounding to the nearest: q and m are the quotient and the remainder.
LEMMA RoundedNear ==
  ASSUME NEW n \in Int, NEW d \in Nat \ {0}
  PROVE  /\ Rounded(n, d) \in Int
         /\ 2 * (Rounded(n, d) * d - n) <= d /\ 2 * (n - Rounded(n, d) * d) <= d
<1> DEFINE q == n \div d
           m == n % d
<1>1. q \in Int /\ m \in Int /\ n = d * q + m /\ 0 <= m /\ m < d
  OBVIOUS
<1>2. (Rounded(n, d) = q /\ 2 * m <= d) \/ (Rounded(n, d) = q + 1 /\ 2 * m >= d)
  BY <1>1 DEF Rounded
<1> HIDE DEF q, m
<1>3. q * d = d * q /\ (q + 1) * d = d * q + d /\ d * q \in Int
  BY <1>1
<1>4. CASE Rounded(n, d) = q /\ 2 * m <= d
  BY <1>1, <1>3, <1>4
<1>5. CASE Rounded(n, d) = q + 1 /\ 2 * m >= d
  BY <1>1, <1>3, <1>5
<1> QED
  BY <1>2, <1>4, <1>5

\* Multiples are in the order of what they are multiples of.
LEMMA MultiplesApart ==
  ASSUME NEW a \in Int, NEW b \in Int, NEW d \in Nat \ {0}, a < b
  PROVE  a * d + d <= b * d
<1>1. b - a - 1 \in Nat /\ a * d \in Int /\ b * d \in Int
  OBVIOUS
<1>2. \A i, j \in Nat : i * j >= 0
  OBVIOUS
<1>3. (b - a - 1) * d >= 0
  BY <1>1, <1>2
<1>4. (b - a - 1) * d = b * d - a * d - d
  BY <1>1
<1> QED
  BY <1>1, <1>3, <1>4

\* A layout maps a screenshot to its pixels.
LEMMA LayoutMaps == Layouts \subseteq Mappings
  BY ComputerUseAssumption DEF Mappings

\* A point is mapped to a pixel, the nearest to its place on the screenshot.
LEMMA MappedNear ==
  ASSUME NEW x \in Nat, NEW l \in Mappings
  PROVE  /\ Mapped(x, l) \in Int
         /\ LET off == (Mapped(x, l) - l.origin) * l.shipped - x * l.captured IN
              2 * off <= l.shipped /\ 2 * (-off) <= l.shipped
<1>1. /\ l.origin \in Int /\ l.captured \in Nat /\ l.shipped \in Nat \ {0}
  BY DEF Mappings
<1> DEFINE n == x * l.captured
           d == l.shipped
           R == Rounded(n, d)
<1>2. n \in Nat /\ n \in Int /\ d \in Nat \ {0}
  BY <1>1
<1>3. R \in Int /\ 2 * (R * d - n) <= d /\ 2 * (n - R * d) <= d
  BY <1>2, RoundedNear
<1>4. Mapped(x, l) = l.origin + R
  BY DEF Mapped
<1> HIDE DEF n, d, R
<1>5. (Mapped(x, l) - l.origin) = R /\ R * d \in Int
  BY <1>1, <1>2, <1>3, <1>4
<1>6. (Mapped(x, l) - l.origin) * d - n = R * d - n
  BY <1>5
<1>7. 2 * (R * d - n) <= d /\ 2 * (-(R * d - n)) <= d
  BY <1>2, <1>3, <1>5
<1> QED
  BY <1>1, <1>3, <1>4, <1>6, <1>7 DEF n, d

\* Through the grid a pixel of the screens comes back as itself, and one that
\* is off them as the one at that edge.
LEMMA OnTheGrid ==
  ASSUME NEW l \in Layouts, NEW pixel \in Int
  PROVE  LET k == pixel - l.origin  last == l.captured - 1
             place == Placed(pixel, l) IN
           /\ place \in Int /\ PixelAt(place, l) \in Int
           /\ PixelAt(place, l) = l.origin + (IF k < 0 THEN 0 ELSE IF k > last THEN last ELSE k)
<1> DEFINE k == pixel - l.origin
           last == l.captured - 1
           e == Edge(l)
           R == Rounded(k * Grid, e)
           n == Within(R, Grid)
           J == Rounded(n * last, Grid)
<1>1. /\ l.origin \in Int /\ k \in Int /\ last \in Nat /\ Grid \in Nat \ {0} /\ last < Grid
      /\ e \in Nat \ {0} /\ e = (IF last = 0 THEN 1 ELSE last)
  BY ComputerUseAssumption DEF Edge
<1>2. k * Grid \in Int
  BY <1>1
<1>3. R \in Int /\ 2 * (R * e - k * Grid) <= e /\ 2 * (k * Grid - R * e) <= e
  BY <1>1, <1>2, RoundedNear
<1>4. n \in Int /\ 0 <= n /\ n = (IF R < 0 THEN 0 ELSE IF R > Grid THEN Grid ELSE R)
  BY <1>1, <1>3 DEF Within
<1>5. n * last \in Int
  BY <1>1, <1>4
<1>6. J \in Int /\ 2 * (J * Grid - n * last) <= Grid /\ 2 * (n * last - J * Grid) <= Grid
  BY <1>1, <1>5, RoundedNear
<1>7. Placed(pixel, l) = n /\ PixelAt(n, l) = l.origin + J
  BY DEF Placed, PixelAt
<1> HIDE DEF k, last, e, R, n, J
<1>8. ASSUME NEW i \in Int, 2 * (J * Grid - i * Grid) < 2 * Grid, 2 * (i * Grid - J * Grid) < 2 * Grid
      PROVE  J = i
  <2>1. J * Grid \in Int /\ i * Grid \in Int
    BY <1>1, <1>6
  <2>2. CASE J < i
    <3>1. J * Grid + Grid <= i * Grid
      BY <1>1, <1>6, <2>2, MultiplesApart
    <3> QED
      BY <1>1, <1>8, <2>1, <3>1
  <2>3. CASE i < J
    <3>1. i * Grid + Grid <= J * Grid
      BY <1>1, <1>6, <2>3, MultiplesApart
    <3> QED
      BY <1>1, <1>8, <2>1, <3>1
  <2> QED
    BY <1>6, <2>2, <2>3
<1>9. R * e \in Int /\ J * Grid \in Int /\ 0 * Grid = 0 /\ 0 * e = 0 /\ Grid * e \in Int
  BY <1>1, <1>3, <1>6
<1>10. CASE last = 0
  <2>1. n * last = 0
    BY <1>4, <1>10
  <2>2. J = 0
    BY <1>1, <1>6, <1>8, <1>9, <2>1
  <2> QED
    BY <1>1, <1>4, <1>7, <1>10, <2>2 DEF k, last
<1>11. CASE last # 0 /\ k < 0
  <2>1. k * Grid + Grid <= 0 * Grid
    BY <1>1, <1>11, MultiplesApart
  <2>2. R < 0
    <3>1. CASE 0 < R
      <4>1. 0 * e + e <= R * e
        BY <1>1, <1>3, <3>1, MultiplesApart
      <4> QED
        BY <1>1, <1>2, <1>3, <1>9, <1>11, <2>1, <4>1
    <3>2. CASE R = 0
      <4>1. R * e = 0
        BY <1>9, <3>2
      <4> QED
        BY <1>1, <1>2, <1>3, <1>9, <1>11, <2>1, <4>1
    <3> QED
      BY <1>3, <3>1, <3>2
  <2>3. n = 0 /\ n * last = 0
    BY <1>1, <1>4, <2>2
  <2>4. J = 0
    BY <1>1, <1>6, <1>8, <1>9, <2>3
  <2> QED
    BY <1>1, <1>4, <1>7, <1>11, <2>4 DEF k, last
<1>12. CASE last # 0 /\ k > last
  <2>0. e = last
    BY <1>1, <1>12
  <2>1. last * Grid + Grid <= k * Grid /\ last * Grid \in Int /\ Grid * e = last * Grid
    BY <1>1, <1>12, <2>0, MultiplesApart
  <2>2. R > Grid /\ R \in Int /\ Grid \in Nat
    <3>1. ASSUME R < Grid  PROVE FALSE
      <4>1. R * e + e <= Grid * e
        BY <1>1, <1>3, <3>1, MultiplesApart
      <4> QED
        BY <1>1, <1>2, <1>3, <1>9, <2>0, <2>1, <4>1
    <3>2. ASSUME R = Grid  PROVE FALSE
      <4>1. R * e = Grid * e
        BY <3>2
      <4> QED
        BY <1>1, <1>2, <1>3, <1>9, <2>0, <2>1, <4>1
    <3>3. R \in Int /\ Grid \in Nat
      BY <1>1, <1>3
    <3> QED
      BY <3>1, <3>2, <3>3
  <2>3. n = Grid
    BY <1>1, <1>4, <2>2
  <2>4. n * last = last * Grid
    BY <1>1, <2>3
  <2>5. J = last
    BY <1>1, <1>6, <1>8, <1>9, <2>1, <2>4
  <2> QED
    BY <1>1, <1>4, <1>7, <1>12, <2>5 DEF k, last
<1>13. CASE last # 0 /\ 0 <= k /\ k <= last
  <2>0. e = last
    BY <1>1, <1>13
  <2>1. 0 <= k * Grid /\ k * Grid <= Grid * e
    <3>1. \A i, j \in Nat : i * j >= 0
      OBVIOUS
    <3>2. k \in Nat /\ last - k \in Nat
      BY <1>1, <1>13
    <3>3. k * Grid >= 0 /\ (last - k) * Grid >= 0
      BY <1>1, <3>1, <3>2
    <3>4. (last - k) * Grid = Grid * last - k * Grid
      BY <1>1, <3>2
    <3>5. Grid * last \in Int
      BY <1>1
    <3> QED
      BY <1>2, <2>0, <3>3, <3>4, <3>5
  <2>2. ~(R < 0)
    <3>1. ASSUME R < 0  PROVE FALSE
      <4>1. R * e + e <= 0 * e
        BY <1>1, <1>3, <3>1, MultiplesApart
      <4> QED
        BY <1>1, <1>2, <1>3, <1>9, <2>1, <4>1
    <3> QED
      BY <3>1
  <2>3. ~(R > Grid)
    <3>1. ASSUME Grid < R  PROVE FALSE
      <4>1. Grid * e + e <= R * e
        BY <1>1, <1>3, <3>1, MultiplesApart
      <4> QED
        BY <1>1, <1>2, <1>3, <1>9, <2>1, <4>1
    <3> QED
      BY <1>1, <1>3, <3>1
  <2>4. n = R
    BY <1>3, <1>4, <2>2, <2>3
  <2>5. n * last = R * e
    BY <2>0, <2>4
  <2>6. J = k
    BY <1>1, <1>2, <1>3, <1>6, <1>8, <1>9, <2>0, <2>5
  <2> QED
    BY <1>1, <1>4, <1>7, <1>13, <2>6 DEF k, last
<1> QED
  BY <1>1, <1>10, <1>11, <1>12, <1>13

\* No pixel of the screens is nearer to the target than the one at its edge.
LEMMA NearestPixel ==
  ASSUME NEW l \in Layouts, NEW pixel \in Int
  PROVE  LET pointer == PixelAt(Placed(pixel, l), l) IN
           /\ pointer \in Pixels(l)
           /\ \A q \in Pixels(l) : Apart(pointer, pixel) <= Apart(q, pixel)
<1> DEFINE pointer == PixelAt(Placed(pixel, l), l)
           k == pixel - l.origin
           last == l.captured - 1
<1>1. l.origin \in Int /\ k \in Int /\ last \in Nat /\ l.captured \in Nat
  BY ComputerUseAssumption
<1>2. pointer \in Int /\ pointer = l.origin + (IF k < 0 THEN 0 ELSE IF k > last THEN last ELSE k)
  BY OnTheGrid
<1> HIDE DEF pointer
<1>3. Pixels(l) = l.origin .. l.origin + last
  BY <1>1 DEF Pixels
<1>4. pointer \in Pixels(l)
  BY <1>1, <1>2, <1>3
<1>5. ASSUME NEW q \in Pixels(l)  PROVE Apart(pointer, pixel) <= Apart(q, pixel)
  <2>1. q \in Int /\ l.origin <= q /\ q <= l.origin + last
    BY <1>1, <1>3
  <2>2. CASE k < 0
    BY <1>1, <1>2, <2>1, <2>2 DEF Apart
  <2>3. CASE k > last
    BY <1>1, <1>2, <2>1, <2>3 DEF Apart
  <2>4. CASE ~(k < 0) /\ ~(k > last)
    <3>1. pointer = pixel
      BY <1>1, <1>2, <2>4
    <3>2. Apart(pointer, pixel) = 0 /\ Apart(q, pixel) >= 0
      BY <2>1, <3>1 DEF Apart
    <3>3. Apart(q, pixel) \in Int
      BY <2>1 DEF Apart
    <3> QED
      BY <3>2, <3>3
  <2> QED
    BY <2>2, <2>3, <2>4
<1> QED
  BY <1>4, <1>5 DEF pointer

\* What a server that has the screen keeps of its requests.
ServerStep(s) ==
  \/ Launch(s) \/ Kill(s) \/ Taken(s) \/ Closes(s)
  \/ Ask(s) \/ Passes(s) \/ Refuses(s) \/ Points(s) \/ Normalises(s) \/ Injects(s)
  \/ Screenshot(s) \/ Grabs(s) \/ Finishes(s)

\* A step that leaves the lock file alone gets to a record that aims well, and
\* gives the server no screen.
LEMMA ServerSteps ==
  ASSUME ComputerTyped, Aimed, NEW s \in Servers, ServerStep(s)
  PROVE  /\ UNCHANGED <<lock, robbed, screens>> /\ controller[s].at # "dead"
         /\ \E r \in Controllers :
              /\ Puts(s, r) /\ AimsAt(r) /\ r.at \notin {"writing", "judging", "stealing"}
              /\ r.at \notin Starting \cup {"dead"} => HasScreen(s)
              /\ r.at \in Starting => controller[s].at \in Starting
<1> DEFINE c == controller[s]
           Good(r) == /\ Puts(s, r) /\ AimsAt(r) /\ r.at \notin {"writing", "judging", "stealing"}
                      /\ r.at \notin Starting \cup {"dead"} => HasScreen(s)
                      /\ r.at \in Starting => controller[s].at \in Starting
           dead == [NotStarted EXCEPT !.at = "dead"]
<1>1. c \in Controllers /\ AimsAt(c) /\ screens \in Layouts
  BY DEF ComputerTyped, Aimed
<1>2. dead \in Controllers /\ dead.at = "dead" /\ AimsAt(dead)
  <2>1. dead \in Controllers /\ dead.at = "dead"
    BY RecordSet, StageNames
  <2> QED
    BY <2>1 DEF AimsAt, NotStarted
<1>3. ASSUME NEW at \in Stages \ {"mapped", "normalised", "pointed", "capturing"}
      PROVE  /\ [c EXCEPT !.at = at] \in Controllers /\ [c EXCEPT !.at = at].at = at
             /\ AimsAt([c EXCEPT !.at = at])
  BY <1>1 DEF Controllers, AimsAt
<1>5. ASSUME NEW r \in Controllers, Answers(s, r), r.misled \/ r.transform = r.seen, HasScreen(s)
      PROVE  \E a \in Controllers : Good(a)
  <2> DEFINE a == [r EXCEPT !.at = "serving", !.ask = "none", !.x = 0,
                            !.live = NoLayout, !.target = 0, !.place = 0, !.pointer = 0]
  <2>0. "serving" \in Stages /\ r \in Controllers
    BY StageNames
  <2>1. /\ a \in Controllers /\ a.at = "serving" /\ a.ask = "none"
        /\ a.misled = r.misled /\ a.transform = r.transform /\ a.seen = r.seen
    <3>1. \A b \in Controllers, at \in Stages : [b EXCEPT !.at = at, !.ask = "none"] \in Controllers
      BY DEF Controllers
    <3> DEFINE b == [r EXCEPT !.at = "serving", !.ask = "none"]
    <3>2. /\ b \in Controllers /\ b.at = "serving" /\ b.ask = "none"
          /\ b.misled = r.misled /\ b.transform = r.transform /\ b.seen = r.seen
      BY <2>0, <3>1 DEF Controllers
    <3>3. a = [b EXCEPT !.x = 0, !.live = NoLayout, !.target = 0, !.place = 0, !.pointer = 0]
      BY <2>0 DEF Controllers
    <3> HIDE DEF a, b
    <3>4. ASSUME NEW f \in Controllers
          PROVE  LET g == [f EXCEPT !.x = 0, !.live = NoLayout, !.target = 0, !.place = 0, !.pointer = 0] IN
                   /\ g \in Controllers /\ g.at = f.at /\ g.ask = f.ask
                   /\ g.misled = f.misled /\ g.transform = f.transform /\ g.seen = f.seen
      <4> DEFINE h == [f EXCEPT !.x = 0, !.live = NoLayout]
                 i == [h EXCEPT !.target = 0]
                 j == [i EXCEPT !.place = 0]
                 g == [j EXCEPT !.pointer = 0]
      <4>1. /\ h \in Controllers /\ h.at = f.at /\ h.ask = f.ask
            /\ h.misled = f.misled /\ h.transform = f.transform /\ h.seen = f.seen
        BY DEF Controllers
      <4>2. [f EXCEPT !.x = 0, !.live = NoLayout, !.target = 0, !.place = 0, !.pointer = 0] = g
        BY DEF Controllers
      <4> HIDE DEF h
      <4>3. /\ i \in Controllers /\ i.at = h.at /\ i.ask = h.ask
            /\ i.misled = h.misled /\ i.transform = h.transform /\ i.seen = h.seen
        BY <4>1 DEF Controllers
      <4> HIDE DEF i
      <4>4. /\ j \in Controllers /\ j.at = i.at /\ j.ask = i.ask
            /\ j.misled = i.misled /\ j.transform = i.transform /\ j.seen = i.seen
        BY <4>3 DEF Controllers
      <4> HIDE DEF j
      <4>5. /\ g \in Controllers /\ g.at = j.at /\ g.ask = j.ask
            /\ g.misled = j.misled /\ g.transform = j.transform /\ g.seen = j.seen
        BY <4>4 DEF Controllers
      <4> HIDE DEF g
      <4> QED
        BY <4>1, <4>2, <4>3, <4>4, <4>5
    <3>5. /\ a \in Controllers /\ a.at = b.at /\ a.ask = b.ask
          /\ a.misled = b.misled /\ a.transform = b.transform /\ a.seen = b.seen
      BY <3>2, <3>3, <3>4, Zenon
    <3> QED
      BY <3>2, <3>5
  <2>2. Puts(s, a)
    BY <1>5 DEF Answers
  <2> HIDE DEF a
  <2>3. AimsAt(a)
    <3>1. CASE r.misled
      BY <2>1, <3>1 DEF AimsAt
    <3>2. CASE r.transform = r.seen
      BY <2>1, <3>2 DEF AimsAt
    <3> QED
      BY <1>5, <3>1, <3>2
  <2> QED
    BY <1>5, <2>1, <2>2, <2>3 DEF Starting
<1>6. CASE Launch(s) \/ Taken(s)
  <2>1. PICK at \in {"locking", "reading"} :
          /\ Puts(s, [c EXCEPT !.at = at]) /\ c.at \in {"off", "locking"} /\ UNCHANGED <<lock, robbed, screens>>
    BY <1>6 DEF Launch, Taken, Moves
  <2> QED
    BY <1>3, <2>1, StageNames DEF Starting
<1>7. CASE Kill(s) \/ (Closes(s) /\ lock # File(s, TRUE))
  <2>1. Puts(s, dead) /\ c.at # "dead" /\ UNCHANGED <<lock, robbed, screens>>
    BY <1>7 DEF Kill, Dead, Closes
  <2> QED
    BY <1>2, <2>1 DEF Starting
<1>8. CASE Closes(s) /\ lock = File(s, TRUE)
  <2>1. Puts(s, [c EXCEPT !.at = "releasing"]) /\ c.at = "serving" /\ UNCHANGED <<lock, robbed, screens>>
    BY <1>8 DEF Closes, Moves
  <2> QED
    BY <1>3, <2>1, StageNames DEF Starting, HasScreen
<1>9. CASE Ask(s)
  <2>1. PICK ask \in Requests :
          /\ c.at = "serving" /\ Puts(s, [c EXCEPT !.at = "gates", !.ask = ask])
          /\ UNCHANGED <<lock, robbed, screens>>
    BY <1>9 DEF Ask
  <2> DEFINE r == [c EXCEPT !.at = "gates", !.ask = ask]
  <2>2. /\ r \in Controllers /\ r.at = "gates"
        /\ r.misled = c.misled /\ r.transform = c.transform /\ r.seen = c.seen
    BY <1>1, StageNames DEF Controllers
  <2>3. Puts(s, r)
    BY <2>1
  <2> HIDE DEF r
  <2>4. AimsAt(r)
    BY <1>1, <2>2 DEF AimsAt
  <2> QED
    BY <2>1, <2>2, <2>3, <2>4 DEF Starting, HasScreen
<1>10. CASE Passes(s)
  <2>1. Puts(s, [c EXCEPT !.at = "driving"]) /\ c.at = "gates" /\ UNCHANGED <<lock, robbed, screens>>
    BY <1>10 DEF Passes, Moves
  <2> QED
    BY <1>3, <2>1, StageNames DEF Starting, HasScreen
<1>11. CASE Refuses(s) \/ Finishes(s)
  <2>1. /\ Answers(s, c) /\ UNCHANGED <<lock, robbed, screens>>
        /\ c.at \in {"gates", "driving", "mapped", "normalised", "pointed", "capturing"}
    BY <1>11 DEF Refuses, Finishes
  <2>2. HasScreen(s) /\ (c.misled \/ c.transform = c.seen)
    BY <1>1, <2>1 DEF HasScreen, AimsAt
  <2> QED
    BY <1>1, <1>5, <2>1, <2>2 DEF HasScreen
<1>12. CASE Points(s)
  <2>1. PICK x \in 0 .. Shown(s).shipped - 1 :
          /\ c.at = "driving" /\ Puts(s, [c EXCEPT !.at = "mapped", !.x = x, !.target = Mapped(x, Aim(s))])
          /\ UNCHANGED <<lock, robbed, screens>>
    BY <1>12 DEF Points
  <2>2. x \in Nat
    <3>1. Shown(s) \in Layouts
      BY <1>1 DEF Shown, Controllers
    <3>2. Shown(s).shipped \in Nat
      BY <3>1, ComputerUseAssumption
    <3> QED
      BY <3>2
  <2>3. Aim(s) \in Mappings /\ (~c.misled /\ c.seen # NoLayout => Aim(s) = c.seen)
    BY <1>1, LayoutMaps DEF Aim, Controllers, AimsAt
  <2> DEFINE target == Mapped(x, Aim(s))
             r == [c EXCEPT !.at = "mapped", !.x = x, !.target = target]
  <2>4. target \in Int
    BY <2>2, <2>3, MappedNear
  <2>5. ~c.misled /\ c.seen # NoLayout => target = Mapped(x, c.seen)
    BY <2>3
  <2>6. Puts(s, r)
    BY <2>1
  <2> HIDE DEF target
  <2>7. /\ r \in Controllers /\ r.at = "mapped" /\ r.target = target /\ r.x = x
        /\ r.misled = c.misled /\ r.transform = c.transform /\ r.seen = c.seen
    BY <1>1, <2>2, <2>4, StageNames DEF Controllers
  <2> HIDE DEF r
  <2>8. AimsAt(r)
    BY <1>1, <2>5, <2>7 DEF AimsAt
  <2> QED
    BY <2>1, <2>6, <2>7, <2>8 DEF Starting, HasScreen
<1>13. CASE Normalises(s)
  <2> DEFINE place == Placed(c.target, screens)
             r == [c EXCEPT !.at = "normalised", !.live = screens, !.place = place]
  <2>1. c.at = "mapped" /\ Puts(s, r) /\ UNCHANGED <<lock, robbed, screens>>
    BY <1>13 DEF Normalises
  <2>2. place \in Int
    BY <1>1, OnTheGrid DEF Controllers
  <2>3. place = Placed(c.target, screens)
    OBVIOUS
  <2> HIDE DEF place
  <2>4. /\ r \in Controllers /\ r.at = "normalised" /\ r.target = c.target /\ r.x = c.x
        /\ r.live = screens /\ r.place = place
        /\ r.misled = c.misled /\ r.transform = c.transform /\ r.seen = c.seen
    BY <1>1, <2>2, StageNames DEF Controllers
  <2> HIDE DEF r
  <2>5. AimsAt(r)
    BY <1>1, <2>1, <2>3, <2>4 DEF AimsAt
  <2> QED
    BY <2>1, <2>4, <2>5 DEF Starting, HasScreen
<1>14. CASE Injects(s) /\ c.live = screens
  <2> DEFINE pointer == PixelAt(c.place, screens)
             r == [c EXCEPT !.at = "pointed", !.pointer = pointer]
  <2>1. c.at = "normalised" /\ Puts(s, r) /\ UNCHANGED <<lock, robbed, screens>>
    BY <1>14 DEF Injects
  <2>2. pointer \in Int /\ pointer = PixelAt(c.place, c.live)
    <3>1. c.place = Placed(c.target, screens) /\ c.target \in Int
      BY <1>1, <1>14, <2>1 DEF AimsAt, Controllers
    <3>2. PixelAt(Placed(c.target, screens), screens) \in Int
      BY <1>1, <3>1, OnTheGrid
    <3> QED
      BY <1>14, <3>1, <3>2
  <2> HIDE DEF pointer
  <2>3. /\ r \in Controllers /\ r.at = "pointed" /\ r.target = c.target /\ r.x = c.x
        /\ r.live = c.live /\ r.place = c.place /\ r.pointer = pointer
        /\ r.misled = c.misled /\ r.transform = c.transform /\ r.seen = c.seen
    BY <1>1, <2>2, StageNames DEF Controllers
  <2> HIDE DEF r
  <2>4. AimsAt(r)
    BY <1>1, <2>1, <2>2, <2>3 DEF AimsAt
  <2> QED
    BY <2>1, <2>3, <2>4 DEF Starting, HasScreen
<1>15. CASE Injects(s) /\ c.live # screens
  <2>1. Answers(s, c) /\ UNCHANGED <<lock, robbed, screens>> /\ c.at = "normalised"
    BY <1>15 DEF Injects
  <2>2. HasScreen(s) /\ (c.misled \/ c.transform = c.seen)
    BY <1>1, <2>1 DEF HasScreen, AimsAt
  <2> QED
    BY <1>1, <1>5, <2>1, <2>2 DEF HasScreen
<1>16. CASE Screenshot(s)
  <2> DEFINE r == [c EXCEPT !.at = "capturing", !.live = screens]
  <2>1. c.at = "driving" /\ Puts(s, r) /\ UNCHANGED <<lock, robbed, screens>>
    BY <1>16 DEF Screenshot
  <2>2. /\ r \in Controllers /\ r.at = "capturing" /\ r.live = screens
        /\ r.misled = c.misled /\ r.transform = c.transform /\ r.seen = c.seen
    BY <1>1, StageNames DEF Controllers
  <2> HIDE DEF r
  <2>3. AimsAt(r)
    BY <1>1, <2>2 DEF AimsAt
  <2> QED
    BY <2>1, <2>2, <2>3 DEF Starting, HasScreen
<1>17. CASE Grabs(s)
  <2>1. /\ c.at = "capturing" /\ UNCHANGED <<lock, robbed, screens>>
        /\ Answers(s, Captured(s)) \/ Answers(s, [c EXCEPT !.transform = Transform(s), !.misled = TRUE])
    BY <1>17 DEF Grabs
  <2>2. c.live \in Layouts /\ screens \in Mappings /\ c.live \in Mappings
    BY <1>1, <2>1, LayoutMaps DEF AimsAt
  <2>3. Transform(s) \in Mappings /\ (Transform(s) # screens) \in BOOLEAN
    BY <2>2 DEF Transform, Mappings
  <2>4. /\ Captured(s) \in Controllers
        /\ Captured(s).misled \/ Captured(s).transform = Captured(s).seen
        /\ [c EXCEPT !.transform = Transform(s), !.misled = TRUE] \in Controllers
        /\ [c EXCEPT !.transform = Transform(s), !.misled = TRUE].misled
    BY <1>1, <2>3 DEF Captured, Controllers
  <2> QED
    BY <1>5, <2>1, <2>4 DEF HasScreen
<1> QED
  BY <1>6, <1>7, <1>8, <1>9, <1>10, <1>11, <1>12, <1>13, <1>14, <1>15, <1>16, <1>17 DEF ServerStep

\* The steps of the lock move what a server aims by nowhere.
LEMMA AimKept ==
  ASSUME ComputerTyped, Aimed, NEW s \in Servers,
         Create(s) \/ Write(s) \/ ReadsHolder(s) \/ Judges(s) \/ Steal(s) \/ Release(s)
  PROVE  Aimed'
<1> DEFINE c == controller[s]
<1>1. c \in Controllers /\ AimsAt(c)
  BY DEF ComputerTyped, Aimed
<1>2. PICK r : Puts(s, r) /\ AimsAt(r)
  <2>1. \A at \in {"dead", "serving"} : AimsAt([NotStarted EXCEPT !.at = at])
    BY DEF AimsAt, NotStarted
  <2>2. AimsAt([c EXCEPT !.at = "writing"])
    BY <1>1 DEF Controllers, AimsAt
  <2>3. \A at \in {"judging", "stealing"} :
          AimsAt([c EXCEPT !.saw = lock, !.at = at]) /\ AimsAt([c EXCEPT !.at = at])
    BY <1>1 DEF Controllers, AimsAt
  <2>4. AimsAt([c EXCEPT !.at = "locking", !.tries = @ + 1, !.saw = NoFile])
    BY <1>1 DEF Controllers, AimsAt
  <2> QED
    BY <2>1, <2>2, <2>3, <2>4 DEF Create, Write, ReadsHolder, Judges, Steal, Release, Moves
<1> QED
  BY <1>2 DEF Puts, ComputerTyped, Aimed

\* The file of a server nobody robbed stays, and everybody aims well.
LEMMA ComputerInvariant == ComputerSpec => [](LockInv /\ Aimed)
<1>1. ComputerInit => LockInv /\ Aimed
  <2>1. AimsAt(NotStarted)
    BY DEF AimsAt, NotStarted
  <2> QED
    BY <2>1, LockStarts DEF ComputerInit, Aimed
<1>2. ASSUME LockInv, Aimed, [ComputerNext]_computerVars PROVE (LockInv /\ Aimed)'
  <2>1. CASE UNCHANGED computerVars
    BY <1>2, <2>1 DEF computerVars, LockInv, Aimed, ComputerTyped, LockHeld, DeadFiles, HasScreen
  <2>2. CASE Rearranged
    BY <1>2, <2>2 DEF Rearranged, LockInv, Aimed, ComputerTyped, LockHeld, DeadFiles, HasScreen
  <2>3. ASSUME NEW s \in Servers, Create(s) \/ Write(s) \/ ReadsHolder(s) \/ Judges(s) \/ Steal(s) \/ Release(s)
        PROVE  (LockInv /\ Aimed)'
    <3>1. Aimed'
      BY <1>2, <2>3, AimKept DEF LockInv
    <3>2. LockInv'
      BY <1>2, <2>3, LockMade, LockRead, LockTakenOver
    <3> QED
      BY <3>1, <3>2
  <2>4. ASSUME NEW s \in Servers, ServerStep(s) PROVE (LockInv /\ Aimed)'
    <3>0. ComputerTyped /\ screens \in Layouts
      BY <1>2 DEF LockInv, ComputerTyped
    <3>1. UNCHANGED <<lock, robbed, screens>> /\ controller[s].at # "dead"
      BY <1>2, <2>4, <3>0, ServerSteps
    <3>2. PICK r \in Controllers :
            /\ Puts(s, r) /\ AimsAt(r) /\ r.at \notin {"writing", "judging", "stealing"}
            /\ r.at \notin Starting \cup {"dead"} => HasScreen(s)
            /\ r.at \in Starting => controller[s].at \in Starting
      BY <1>2, <2>4, <3>0, ServerSteps
    <3>3. Aimed'
      BY <1>2, <3>0, <3>2 DEF Puts, ComputerTyped, Aimed
    <3>4. LockInv'
      BY <1>2, <3>0, <3>1, <3>2, LockKept
    <3> QED
      BY <3>3, <3>4
  <2> QED
    BY <1>2, <2>1, <2>2, <2>3, <2>4 DEF ComputerNext, ServerStep
<1> QED
  BY <1>1, <1>2, PTL DEF ComputerSpec

\* Two servers have the screen at once only when one was robbed of its lock.
THEOREM OneController == Spec => []OneControllerUnlessRobbed
<1>1. LockInv => OneControllerUnlessRobbed
  BY DEF LockInv, LockHeld, OneControllerUnlessRobbed, File
<1> QED
  BY <1>1, ComputerInvariant, PartSpecs, PTL

\* The pointer aims at the physical pixel nearest to the place the model named
\* on the last screenshot it was given, and goes there, or to the nearest one
\* that the screens still have.
THEOREM PointerWhereSeen == Spec => []PointsWhereSeen
<1>1. LockInv /\ Aimed => PointsWhereSeen
  <2> SUFFICES ASSUME LockInv, Aimed, NEW s \in Servers,
                      controller[s].at = "pointed", controller[s].seen # NoLayout, ~controller[s].misled
               PROVE  LET c == controller[s]  seen == c.seen
                          off == (c.target - seen.origin) * seen.shipped - c.x * seen.captured IN
                        /\ 2 * off <= seen.shipped /\ 2 * (-off) <= seen.shipped
                        /\ c.pointer \in Pixels(c.live)
                        /\ \A q \in Pixels(c.live) : Apart(c.pointer, c.target) <= Apart(q, c.target)
    BY DEF PointsWhereSeen
  <2>1. /\ controller[s].seen \in Layouts /\ controller[s].x \in Nat /\ controller[s].target \in Int
        /\ controller[s].target = Mapped(controller[s].x, controller[s].seen)
        /\ controller[s].live \in Layouts
        /\ controller[s].pointer = PixelAt(Placed(controller[s].target, controller[s].live), controller[s].live)
    BY DEF LockInv, ComputerTyped, Controllers, Aimed, AimsAt
  <2>2. controller[s].seen \in Mappings
    BY <2>1, LayoutMaps
  <2> QED
    BY <2>1, <2>2, MappedNear, NearestPixel
<1> QED
  BY <1>1, ComputerInvariant, PartSpecs, PTL

----------------------------------------------------------------------------
(* The inbox.                                                              *)

\* Numbers have a least one among them.
LEMMA LeastNumber ==
  ASSUME NEW S \in SUBSET Nat, S # {}
  PROVE  Min(S) \in S /\ \A y \in S : Min(S) <= y
<1>1. PICK x \in S : \A y \in S : <<y, x>> \notin OpToRel(<, Nat)
  BY NatLessThanWellFounded, WFMin, Zenon
<1>2. ASSUME NEW y \in S PROVE ~(y < x)
  <2>1. y \in Nat /\ x \in Nat
    OBVIOUS
  <2> QED
    BY <1>1, <2>1, Zenon DEF OpToRel
<1>3. \A y \in S : x <= y
  BY <1>2
<1> QED
  BY <1>3 DEF Min

Pollers == [at : {"rests", "answered", "announced", "types", "typed"}, batch : SUBSET Letters]
InboxHooks == [at : {"rests", "claimed"}, batch : SUBSET Letters]
InboxTyped ==
  /\ row \in [Letters -> {"none", "unread", "claimed"}] /\ poller \in Pollers /\ hook \in InboxHooks
  /\ pushed \subseteq Letters /\ registered \in BOOLEAN

\* What is written down as pushed was shown, if the channel works, and what is
\* about to be written down as well; the poller types commands only.
PushedShown ==
  /\ registered => pushed \subseteq shown
  /\ registered /\ poller.at = "announced" => poller.batch \ Commands \subseteq shown
  /\ poller.at \in {"types", "typed"} => poller.batch # {} /\ poller.batch \subseteq Commands

InboxInv == InboxTyped /\ PushedShown /\ NoneReadAway

\* At the start no message has come.
LEMMA InboxStarts == InboxInit => InboxInv
<1> SUFFICES ASSUME InboxInit PROVE InboxInv
  OBVIOUS
<1>1. InboxTyped
  BY DEF InboxInit, InboxTyped, Pollers, InboxHooks, Resting
<1> QED
  BY <1>1 DEF InboxInit, InboxInv, PushedShown, NoneReadAway, Unseen, InRow, Resting

\* What is shown or dropped stays so; a claim that shows nothing must name what
\* it hides.
LEMMA StillSeen ==
  ASSUME InboxInv, UNCHANGED registered,
         shown \subseteq shown', dropped \subseteq dropped',
         \A m \in Letters \ Commands :
           row'[m] = "claimed" => (row[m] = "claimed" \/ m \in shown' \cup hook'.batch \cup dropped'),
         \A m \in hook.batch : registered => m \in shown' \cup hook'.batch \cup dropped'
  PROVE  NoneReadAway'
  BY DEF InboxInv, NoneReadAway, Unseen, InRow

\* The poller and its server.
LEMMA PollerMoves ==
  ASSUME InboxInv, \/ \E m \in Letters : Written(m) \/ Forgets(m)
                   \/ Polls \/ Announces \/ Records \/ Types \/ CannotType \/ Acknowledges \/ Restarts
  PROVE  InboxInv'
<1> USE DEF InboxInv
<1>0. /\ UNCHANGED <<hook, registered, dropped>> /\ shown \subseteq shown'
  BY DEF Written, Forgets, Polls, Announces, Records, Types, CannotType, Acknowledges, Restarts, session
<1>1. CASE \E m \in Letters : Written(m)
  <2>1. PICK m \in Letters : Written(m)
    BY <1>1
  <2>2. row' = [row EXCEPT ![m] = "unread"] /\ UNCHANGED <<poller, pushed, shown>>
    BY <2>1 DEF Written
  <2>3. InboxTyped' /\ PushedShown'
    BY <1>0, <2>2 DEF InboxTyped, PushedShown
  <2>4. NoneReadAway'
    BY <1>0, <2>2, StillSeen DEF InboxTyped
  <2> QED
    BY <2>3, <2>4
<1>2. CASE \E m \in Letters : Forgets(m)
  <2>1. pushed' \subseteq pushed /\ UNCHANGED <<row, poller, shown>>
    BY <1>2 DEF Forgets
  <2> QED
    BY <1>0, <2>1, StillSeen DEF InboxTyped, PushedShown
<1>3. CASE Polls \/ CannotType \/ Restarts
  <2>1. /\ UNCHANGED <<row, pushed, shown>>
        /\ poller' = Resting \/ poller' = [at |-> "answered", batch |-> InRow("unread")]
    BY <1>3 DEF Polls, CannotType, Restarts
  <2>2. poller' \in Pollers /\ poller'.at \notin {"announced", "types", "typed"}
    BY <2>1 DEF Pollers, Resting, InRow
  <2>3. InboxTyped' /\ PushedShown'
    BY <1>0, <2>1, <2>2 DEF InboxTyped, PushedShown
  <2> QED
    BY <1>0, <2>1, <2>3, StillSeen
<1>4. CASE Announces
  <2> DEFINE notes == (poller.batch \ announced) \ Commands
  <2>1. /\ shown' = IF registered THEN shown \cup notes ELSE shown
        /\ poller' = [at |-> "announced", batch |-> notes \cup (poller.batch \cap Commands)]
        /\ UNCHANGED <<row, pushed>>
    BY <1>4 DEF Announces
  <2>2. notes \subseteq Letters /\ poller.batch \subseteq Letters
    BY DEF InboxTyped, Pollers
  <2>3. poller' \in Pollers /\ poller'.at = "announced" /\ poller'.batch \ Commands \subseteq notes
    BY <2>1, <2>2 DEF Pollers
  <2>4. InboxTyped' /\ PushedShown'
    BY <1>0, <2>1, <2>3 DEF InboxTyped, PushedShown
  <2> QED
    BY <1>0, <2>1, <2>4, StillSeen
<1>5. CASE Records
  <2>1. /\ poller.at = "announced" /\ pushed' = pushed \cup (poller.batch \ Commands)
        /\ poller' = IF poller.batch \cap Commands = {} THEN Resting
                     ELSE [at |-> "types", batch |-> poller.batch \cap Commands]
        /\ UNCHANGED <<row, shown>>
    BY <1>5 DEF Records
  <2>2. /\ poller' \in Pollers /\ poller'.at # "announced" /\ poller.batch \subseteq Letters
        /\ poller'.at \in {"types", "typed"} => poller'.batch # {} /\ poller'.batch \subseteq Commands
    BY <2>1 DEF InboxTyped, Pollers, Resting
  <2>3. InboxTyped' /\ PushedShown'
    BY <1>0, <2>1, <2>2 DEF InboxTyped, PushedShown
  <2> QED
    BY <1>0, <2>1, <2>3, StillSeen
<1>6. CASE Types
  <2>1. /\ poller.at = "types" /\ UNCHANGED <<row, pushed, shown>>
        /\ poller' \in {Resting, [at |-> "typed", batch |-> {Min(poller.batch)}]}
    BY <1>6 DEF Types
  <2>2. Min(poller.batch) \in Commands
    <3>1. poller.batch \in SUBSET Nat /\ poller.batch # {} /\ poller.batch \subseteq Commands
      BY <2>1, SessionInboxAssumption DEF InboxTyped, Pollers, PushedShown
    <3> QED
      BY <3>1, LeastNumber
  <2>3. /\ poller' \in Pollers /\ poller'.at # "announced"
        /\ poller'.at \in {"types", "typed"} => poller'.batch # {} /\ poller'.batch \subseteq Commands
    <3> DEFINE n == Min(poller.batch)
    <3>1. n \in Commands /\ n \in Letters
      BY <2>2, SessionInboxAssumption
    <3>2. poller' = Resting \/ poller' = [at |-> "typed", batch |-> {n}]
      BY <2>1
    <3> HIDE DEF n
    <3> QED
      BY <3>1, <3>2 DEF Pollers, Resting
  <2>4. InboxTyped' /\ PushedShown'
    BY <1>0, <2>1, <2>3 DEF InboxTyped, PushedShown
  <2> QED
    BY <1>0, <2>1, <2>4, StillSeen
<1>7. CASE Acknowledges
  <2>1. /\ poller.at = "typed" /\ poller' = Resting /\ UNCHANGED <<pushed, shown>>
        /\ row' \in {row, [row EXCEPT ![Min(poller.batch)] = "claimed"]}
    BY <1>7 DEF Acknowledges
  <2>2. Min(poller.batch) \in Commands
    <3>1. poller.batch \in SUBSET Nat /\ poller.batch # {} /\ poller.batch \subseteq Commands
      BY <2>1, SessionInboxAssumption DEF InboxTyped, Pollers, PushedShown
    <3> QED
      BY <3>1, LeastNumber
  <2>3. poller' \in Pollers /\ poller'.at = "rests"
    BY <2>1 DEF Pollers, Resting
  <2>4. InboxTyped' /\ PushedShown'
    BY <1>0, <2>1, <2>3 DEF InboxTyped, PushedShown
  <2>5. \A m \in Letters \ Commands : row'[m] = row[m]
    BY <2>1, <2>2 DEF InboxTyped
  <2> QED
    BY <1>0, <2>4, <2>5, StillSeen
<1> QED
  BY <1>1, <1>2, <1>3, <1>4, <1>5, <1>6, <1>7

\* The hooks.
LEMMA HookClaims ==
  ASSUME InboxInv, Claims \/ Unanswered \/ Renders
  PROVE  InboxInv'
<1> USE DEF InboxInv
<1>0. UNCHANGED <<poller, pushed, registered>> /\ shown \subseteq shown' /\ dropped \subseteq dropped'
  BY DEF Claims, Unanswered, Renders, session
<1>1. CASE Claims
  <2> DEFINE claim == InRow("unread") \ Commands
  <2>1. /\ hook = Resting /\ hook' = [at |-> "claimed", batch |-> claim]
        /\ row' = [m \in Letters |-> IF m \in claim THEN "claimed" ELSE row[m]]
        /\ UNCHANGED <<shown, dropped>>
    BY <1>1 DEF Claims, session
  <2>2. claim \subseteq Letters
    BY DEF InRow
  <2> HIDE DEF claim
  <2>3. hook' \in InboxHooks
    BY <2>1, <2>2 DEF InboxHooks
  <2>4. InboxTyped' /\ PushedShown'
    BY <1>0, <2>1, <2>3 DEF InboxTyped, PushedShown
  <2>5. NoneReadAway'
    BY <1>0, <2>1, StillSeen DEF Resting
  <2> QED
    BY <2>4, <2>5
<1>2. CASE Unanswered \/ Renders
  <2>1. /\ hook' = Resting /\ UNCHANGED row
        /\ \A m \in hook.batch : registered => m \in shown' \cup dropped'
    BY <1>2 DEF Unanswered, Renders, PushedShown
  <2>2. InboxTyped' /\ PushedShown'
    BY <1>0, <2>1 DEF InboxTyped, PushedShown, InboxHooks, Resting
  <2> QED
    BY <1>0, <2>1, <2>2, StillSeen
<1> QED
  BY <1>1, <1>2

\* With a channel that works no message is read away from the session: what a
\* hook claimed and left out was pushed before.
THEOREM NothingReadAway == Spec => []NoneReadAway
<1>1. InboxInv /\ UNCHANGED inboxVars => InboxInv'
  BY DEF InboxInv, InboxTyped, PushedShown, NoneReadAway, Unseen, InRow, inboxVars
<1>2. InboxInv /\ InboxNext => InboxInv'
  BY PollerMoves, HookClaims DEF InboxNext
<1>3. InboxSpec => []InboxInv
  BY <1>1, <1>2, InboxStarts, PTL DEF InboxSpec
<1>4. InboxInv => NoneReadAway
  BY DEF InboxInv
<1> QED
  BY <1>3, <1>4, PartSpecs, PTL

----------------------------------------------------------------------------
(* The binding of a session.                                               *)

\* Between the binding it applied and the call it makes, a request serves the
\* agent of the process.
Serving == {"ensuring", "making", "having", "asking", "context", "calling"}

\* A thread that has nothing in hand is where it starts.
ThreadsShaped ==
  /\ main = [at |-> main.at, want |-> main.want, agent |-> main.agent, next |-> main.next]
  /\ main.at = "rests" => main = Starts
  /\ syncing = [t \in Threads |-> syncing[t]]

\* The executor is the agent's unless it was made across a switch.
ToolboxOwn == ~across => toolbox \in {Nobody, actor}

\* What a request may act as holds what the session is bound to, what the
\* other threads switch to, and what the request itself has in hand.
WithinAllowed ==
  /\ main # Starts => Bound(bindings) \in allowed
  /\ main # Starts => \A t \in Threads : syncing[t] # Nobody => syncing[t] \in allowed
  /\ main.at \in {"applying", "executing"} => main.agent \in allowed
  /\ main.at \in Serving => actor \in allowed

BindingInv == ThreadsShaped /\ ToolboxOwn /\ WithinAllowed

\* At the start the file names nobody but who is bound.
LEMMA BindingStarts == BindingInit => BindingInv
  BY DEF BindingInit, BindingInv, ThreadsShaped, ToolboxOwn, WithinAllowed, Starts, NotSyncing, Serving

\* The file is written: the threads stay where they are.
LEMMA FileWritten ==
  ASSUME BindingInv,
         \/ \E a \in Accounts, title \in BOOLEAN : Binds(a, title)
         \/ BindsAnother \/ ReadsTitle \/ Truncates \/ Rewrites
  PROVE  BindingInv'
<1>1. /\ UNCHANGED <<process, main, syncing>>
      /\ main # Starts => allowed \subseteq allowed' /\ Bound(bindings)' \in allowed'
  <2>1. CASE ReadsTitle
    BY <2>1 DEF ReadsTitle, Bound, BindingInv, WithinAllowed
  <2>2. ASSUME NEW file, Rebinds(file)
        PROVE  main # Starts => allowed \subseteq allowed' /\ Bound(bindings)' \in allowed'
    BY <2>2 DEF Rebinds, Bound
  <2>3. CASE ~ReadsTitle
    BY <2>2, <2>3 DEF Binds, BindsAnother, Truncates, Rewrites
  <2> QED
    BY <2>1, <2>3
<1> QED
  BY <1>1 DEF BindingInv, ThreadsShaped, ToolboxOwn, WithinAllowed, process, Starts, Serving

\* Another thread reads the binding and applies it.
LEMMA ThreadSwitches ==
  ASSUME BindingInv, NEW t \in Threads, ThreadReads(t) \/ ThreadApplies(t)
  PROVE  BindingInv'
<1>0. ASSUME NEW a, syncing' = [syncing EXCEPT ![t] = a]
      PROVE  /\ syncing' = [u \in Threads |-> syncing'[u]]
             /\ \A u \in Threads : syncing'[u] = IF u = t THEN a ELSE syncing[u]
  BY <1>0 DEF BindingInv, ThreadsShaped
<1>1. CASE ThreadReads(t)
  <2>1. /\ syncing' = [syncing EXCEPT ![t] = Bound(bindings)]
        /\ UNCHANGED <<bindings, actor, toolbox, across, main, allowed>>
    BY <1>1 DEF ThreadReads, process
  <2>2. /\ syncing' = [u \in Threads |-> syncing'[u]]
        /\ \A u \in Threads : syncing'[u] = IF u = t THEN Bound(bindings) ELSE syncing[u]
    BY <1>0, <2>1
  <2>3. ThreadsShaped' /\ ToolboxOwn'
    BY <2>1, <2>2 DEF BindingInv, ThreadsShaped, ToolboxOwn
  <2>4. WithinAllowed'
    BY <2>1, <2>2 DEF BindingInv, WithinAllowed, Bound
  <2> QED
    BY <2>3, <2>4 DEF BindingInv
<1>2. CASE ThreadApplies(t)
  <2>1. /\ syncing[t] # Nobody /\ syncing' = [syncing EXCEPT ![t] = Nobody] /\ UNCHANGED <<bindings, main, allowed>>
        /\ \/ UNCHANGED <<actor, toolbox, across>>
           \/ actor' = syncing[t] /\ toolbox' = Nobody
    BY <1>2 DEF ThreadApplies, SwitchTo, process
  <2>2. /\ syncing' = [u \in Threads |-> syncing'[u]]
        /\ \A u \in Threads : syncing'[u] = IF u = t THEN Nobody ELSE syncing[u]
    BY <1>0, <2>1
  <2>3. ThreadsShaped' /\ ToolboxOwn'
    BY <2>1, <2>2 DEF BindingInv, ThreadsShaped, ToolboxOwn
  <2>4. WithinAllowed'
    BY <2>1, <2>2 DEF BindingInv, WithinAllowed, Bound, Starts, Serving
  <2> QED
    BY <2>3, <2>4 DEF BindingInv
<1> QED
  BY <1>1, <1>2

\* A request reads the binding and applies it.
LEMMA RequestBinds ==
  ASSUME BindingInv, (\E want \in {"list", "call"} : Receives(want)) \/ MainReads \/ MainApplies
  PROVE  BindingInv'
<1>0. UNCHANGED <<bindings, syncing>>
  BY DEF Receives, MainReads, MainApplies
<1>1. CASE \E want \in {"list", "call"} : Receives(want)
  <2>1. PICK want : Receives(want)
    BY <1>1
  <2>2. /\ main' = [at |-> "reading", want |-> want, agent |-> Nobody, next |-> "none"]
        /\ allowed' = {Bound(bindings)} \cup ({syncing[t] : t \in Threads} \ {Nobody})
        /\ UNCHANGED <<actor, toolbox, across>>
    BY <2>1 DEF Receives, InHand, Starts, process
  <2> QED
    BY <1>0, <2>2 DEF BindingInv, ThreadsShaped, ToolboxOwn, WithinAllowed, Bound, Serving
<1>2. CASE MainReads
  <2>1. /\ main.at = "reading" /\ UNCHANGED <<actor, toolbox, across, allowed>>
        /\ main' = [main EXCEPT !.at = "applying", !.agent = Bound(bindings)]
    BY <1>2 DEF MainReads, process
  <2>2. main' = [at |-> "applying", want |-> main.want, agent |-> Bound(bindings), next |-> main.next]
    BY <2>1 DEF BindingInv, ThreadsShaped
  <2>3. main # Starts
    BY <2>1 DEF Starts
  <2> QED
    BY <1>0, <2>1, <2>2, <2>3 DEF BindingInv, ThreadsShaped, ToolboxOwn, WithinAllowed, Bound, Serving
<1>3. CASE MainApplies
  <2>1. /\ main.at = "applying" /\ UNCHANGED allowed
        /\ main' = [main EXCEPT !.at = "ensuring", !.agent = Nobody]
        /\ \/ actor = main.agent /\ UNCHANGED <<actor, toolbox, across>>
           \/ actor' = main.agent /\ toolbox' = Nobody
    BY <1>3 DEF MainApplies, SwitchTo, process
  <2>2. main' = [at |-> "ensuring", want |-> main.want, agent |-> Nobody, next |-> main.next]
    BY <2>1 DEF BindingInv, ThreadsShaped
  <2>3. main # Starts
    BY <2>1 DEF Starts
  <2> QED
    BY <1>0, <2>1, <2>2, <2>3 DEF BindingInv, ThreadsShaped, ToolboxOwn, WithinAllowed, Bound, Serving
<1> QED
  BY <1>1, <1>2, <1>3

\* A request gets its executor and its catalog, and makes its call.
LEMMA RequestServed ==
  ASSUME BindingInv, \/ Ensured \/ Looks \/ Keeps \/ AsksProfile \/ Profile \/ NoProfile
                     \/ SetsContext \/ Breaks \/ Calls \/ Returns
  PROVE  BindingInv'
<1>0. /\ UNCHANGED <<bindings, actor>> /\ (~Breaks => UNCHANGED syncing)
  BY DEF Ensured, Looks, Keeps, AsksProfile, Profile, NoProfile, SetsContext, Breaks, Calls, Returns, process
<1>1. CASE Ensured \/ NoProfile \/ SetsContext
  <2>1. /\ main.at \in Serving /\ main' = Ensures /\ UNCHANGED <<toolbox, across, allowed, syncing>>
    BY <1>1 DEF Ensured, NoProfile, SetsContext, HandedOut, Forgotten, process, Serving
  <2>2. main' = Starts \/ main' = [at |-> "calling", want |-> "call", agent |-> Nobody, next |-> "none"]
    BY <2>1 DEF Ensures, Starts
  <2>3. main # Starts
    BY <2>1 DEF Starts, Serving
  <2> QED
    BY <1>0, <2>1, <2>2, <2>3 DEF BindingInv, ThreadsShaped, ToolboxOwn, WithinAllowed, Bound, Serving, Starts
<1>2. CASE Looks \/ AsksProfile \/ Profile
  <2>1. /\ main.at \in Serving /\ UNCHANGED <<toolbox, across, allowed, syncing>>
        /\ \E at \in {"having", "making", "asking", "context"} : \E a, n :
             main' = [at |-> at, want |-> main.want, agent |-> a, next |-> n]
    <3>1. CASE Looks
      <4>1. \/ main' = [main EXCEPT !.at = "having", !.next = main.at]
            \/ main' = [main EXCEPT !.at = "making", !.agent = actor, !.next = main.at]
        BY <3>1 DEF Looks
      <4>2. \/ main' = [at |-> "having", want |-> main.want, agent |-> main.agent, next |-> main.at]
            \/ main' = [at |-> "making", want |-> main.want, agent |-> actor, next |-> main.at]
        BY <4>1 DEF BindingInv, ThreadsShaped
      <4> QED
        BY <3>1, <4>2 DEF Looks, process, Serving
    <3>2. CASE AsksProfile
      <4>1. main' = [main EXCEPT !.at = "asking", !.agent = toolbox, !.next = "none"]
        BY <3>2 DEF AsksProfile
      <4>2. main' = [at |-> "asking", want |-> main.want, agent |-> toolbox, next |-> "none"]
        BY <4>1 DEF BindingInv, ThreadsShaped
      <4> QED
        BY <3>2, <4>2 DEF AsksProfile, HandedOut, process, Serving
    <3>3. CASE Profile
      <4>1. main' = [main EXCEPT !.at = "context", !.agent = Nobody]
        BY <3>3 DEF Profile
      <4>2. main' = [at |-> "context", want |-> main.want, agent |-> Nobody, next |-> main.next]
        BY <4>1 DEF BindingInv, ThreadsShaped
      <4> QED
        BY <3>3, <4>2 DEF Profile, Serving
    <3> QED
      BY <1>2, <3>1, <3>2, <3>3
  <2>2. main # Starts
    BY <2>1 DEF Starts, Serving
  <2> QED
    BY <1>0, <2>1, <2>2 DEF BindingInv, ThreadsShaped, ToolboxOwn, WithinAllowed, Bound, Serving
<1>3. CASE Keeps
  <2>1. /\ main.at = "making" /\ toolbox' = main.agent /\ across' = (main.agent # actor)
        /\ UNCHANGED <<allowed, syncing>> /\ main' = [main EXCEPT !.at = "having", !.agent = Nobody]
    BY <1>3 DEF Keeps
  <2>2. main' = [at |-> "having", want |-> main.want, agent |-> Nobody, next |-> main.next]
    BY <2>1 DEF BindingInv, ThreadsShaped
  <2>3. main # Starts
    BY <2>1 DEF Starts
  <2>4. ToolboxOwn'
    BY <1>0, <2>1 DEF ToolboxOwn
  <2> QED
    BY <1>0, <2>1, <2>2, <2>3, <2>4 DEF BindingInv, ThreadsShaped, WithinAllowed, Bound, Serving
<1>4. CASE Calls
  <2>1. /\ main.at = "having" /\ toolbox # Nobody /\ UNCHANGED <<toolbox, across, allowed, syncing>>
        /\ main' = [main EXCEPT !.at = IF across THEN "strayed" ELSE "executing", !.agent = toolbox]
    BY <1>4 DEF Calls, HandedOut, process
  <2>2. main' = [at |-> IF across THEN "strayed" ELSE "executing", want |-> main.want, agent |-> toolbox,
                 next |-> main.next]
    BY <2>1 DEF BindingInv, ThreadsShaped
  <2>3. main # Starts
    BY <2>1 DEF Starts
  <2> QED
    BY <1>0, <2>1, <2>2, <2>3 DEF BindingInv, ThreadsShaped, ToolboxOwn, WithinAllowed, Bound, Serving
<1>5. CASE Returns
  <2>1. main' = Starts /\ UNCHANGED <<toolbox, across, syncing>>
    BY <1>5 DEF Returns, process
  <2> QED
    BY <1>0, <2>1 DEF BindingInv, ThreadsShaped, ToolboxOwn, WithinAllowed, Serving, Starts
<1>6. CASE Breaks
  <2>1. /\ main.at = "having" /\ UNCHANGED <<toolbox, across, allowed>>
        /\ main' = [at |-> "ended", want |-> "none", agent |-> Nobody, next |-> "none"]
        /\ syncing' = [t \in Threads |-> Nobody]
    BY <1>6 DEF Breaks, Forgotten, Starts, NotSyncing, process
  <2>2. main # Starts
    BY <2>1 DEF Starts
  <2> QED
    BY <1>0, <2>1, <2>2 DEF BindingInv, ThreadsShaped, ToolboxOwn, WithinAllowed, Bound, Serving
<1> QED
  BY <1>1, <1>2, <1>3, <1>4, <1>5, <1>6

\* A tool call acts as an agent the session was bound to when the call came or
\* since, or that the poller or a permission relay was just switching to.
THEOREM CallsActAsBound == Spec => []ActsAsBound
<1>1. BindingInv /\ UNCHANGED bindingVars => BindingInv'
  BY DEF BindingInv, ThreadsShaped, ToolboxOwn, WithinAllowed, bindingVars, process, Bound
<1>2. BindingInv /\ BindingNext => BindingInv'
  BY FileWritten, ThreadSwitches, RequestBinds, RequestServed DEF BindingNext
<1>3. BindingSpec => []BindingInv
  BY <1>1, <1>2, BindingStarts, PTL DEF BindingSpec
<1>4. BindingInv => ActsAsBound
  BY DEF BindingInv, WithinAllowed, ActsAsBound
<1> QED
  BY <1>3, <1>4, PartSpecs, PTL

----------------------------------------------------------------------------
(* The setup of a turn.                                                    *)

\* A turn has the fields it starts with.
Shaped(r) ==
  r = [at |-> r.at, ask |-> r.ask, perms |-> r.perms, payload |-> r.payload, base |-> r.base,
       context |-> r.context, card |-> r.card, crossed |-> r.crossed, used |-> r.used]

\* From the gate to the call the backend has the setting of the turn, unless
\* another turn wrote another one; a turn that ends in silence was told so.
TurnKept(r) ==
  /\ r.at \in Gated => r.perms = Absent \/ Operator \/ r.crossed \/ backend = r.perms
  /\ r.at = "called" => r.used = r.perms \/ Operator \/ r.perms = Absent \/ r.crossed
  /\ r.at = "skipped" => r.ask \in {"no_prompt", "skip"}
  /\ r.at = "carded" => r.card

TurnsShaped == turn = [m \in Messages |-> turn[m]] /\ \A m \in Messages : Shaped(turn[m])
SettingKept == (Operator => backend) /\ \A m \in Messages : TurnKept(turn[m])

SetupInv == TurnsShaped /\ SettingKept

\* What the invariant reads of a turn.
Reads(r, at, ask, perms, card, crossed, used) ==
  /\ Shaped(r) /\ r.at = at /\ r.ask = ask /\ r.perms = perms
  /\ r.card = card /\ r.crossed = crossed /\ r.used = used

\* A field of a turn that changes leaves the others.
LEMMA ReadsField ==
  ASSUME NEW r, NEW at, NEW ask, NEW perms, NEW card, NEW crossed, NEW used, NEW v,
         Reads(r, at, ask, perms, card, crossed, used)
  PROVE  /\ Reads([r EXCEPT !.at = v], v, ask, perms, card, crossed, used)
         /\ Reads([r EXCEPT !.ask = v], at, v, perms, card, crossed, used)
         /\ Reads([r EXCEPT !.perms = v], at, ask, v, card, crossed, used)
         /\ Reads([r EXCEPT !.payload = v], at, ask, perms, card, crossed, used)
         /\ Reads([r EXCEPT !.base = v], at, ask, perms, card, crossed, used)
         /\ Reads([r EXCEPT !.context = v], at, ask, perms, card, crossed, used)
         /\ Reads([r EXCEPT !.card = v], at, ask, perms, v, crossed, used)
         /\ Reads([r EXCEPT !.crossed = v], at, ask, perms, card, v, used)
         /\ Reads([r EXCEPT !.used = v], at, ask, perms, card, crossed, v)
<1>1. Reads([r EXCEPT !.at = v], v, ask, perms, card, crossed, used)
  BY DEF Reads, Shaped
<1>2. Reads([r EXCEPT !.ask = v], at, v, perms, card, crossed, used)
  BY DEF Reads, Shaped
<1>3. Reads([r EXCEPT !.perms = v], at, ask, v, card, crossed, used)
  BY DEF Reads, Shaped
<1>4. Reads([r EXCEPT !.payload = v], at, ask, perms, card, crossed, used)
  BY DEF Reads, Shaped
<1>5. Reads([r EXCEPT !.base = v], at, ask, perms, card, crossed, used)
  BY DEF Reads, Shaped
<1>6. Reads([r EXCEPT !.context = v], at, ask, perms, card, crossed, used)
  BY DEF Reads, Shaped
<1>7. Reads([r EXCEPT !.card = v], at, ask, perms, v, crossed, used)
  BY DEF Reads, Shaped
<1>8. Reads([r EXCEPT !.crossed = v], at, ask, perms, card, v, used)
  BY DEF Reads, Shaped
<1>9. Reads([r EXCEPT !.used = v], at, ask, perms, card, crossed, v)
  BY DEF Reads, Shaped
<1> QED
  BY <1>1, <1>2, <1>3, <1>4, <1>5, <1>6, <1>7, <1>8, <1>9

\* A place without a turn.
LEMMA ReadsNoTurn == Reads(NoTurn, "none", "reply", Absent, FALSE, FALSE, Absent)
  BY DEF NoTurn, Reads, Shaped

\* A turn as its delivery begins it.
LEMMA ReadsTurn ==
  ASSUME NEW r, Shaped(r)
  PROVE  Reads(r, r.at, r.ask, r.perms, r.card, r.crossed, r.used)
  BY DEF Reads

\* One turn moves on, and the backend stays as it is.
LEMMA TurnMoves ==
  ASSUME SetupInv, NEW m \in Messages, NEW r, UNCHANGED backend, Update(m, r), TurnKept(r), Shaped(r)
  PROVE  SetupInv'
<1>1. turn' = [u \in Messages |-> IF u = m THEN r ELSE turn[u]]
  BY DEF Update, SetupInv, TurnsShaped
<1>2. \A u \in Messages : turn'[u] = IF u = m THEN r ELSE turn[u]
  BY <1>1
<1>3. TurnsShaped'
  BY <1>1, <1>2 DEF SetupInv, TurnsShaped
<1>4. \A u \in Messages : TurnKept(turn'[u])
  BY <1>2 DEF SetupInv, SettingKept
<1>5. SettingKept'
  BY <1>4 DEF SetupInv, SettingKept, TurnKept
<1> QED
  BY <1>3, <1>5 DEF SetupInv

\* At the start no turn is under way.
LEMMA SetupStarts == SetupInit => SetupInv
<1> SUFFICES ASSUME SetupInit PROVE SetupInv
  OBVIOUS
<1>1. \A m \in Messages : turn[m] = NoTurn
  BY DEF SetupInit
<1>2. TurnsShaped
  <2>1. Shaped(NoTurn) /\ turn = [m \in Messages |-> NoTurn]
    BY ReadsNoTurn DEF Reads, SetupInit
  <2> QED
    BY <1>1, <2>1 DEF TurnsShaped
<1>3. TurnKept(NoTurn)
  BY DEF TurnKept, NoTurn, Gated
<1>4. Operator => backend
  BY DEF SetupInit
<1> QED
  BY <1>1, <1>2, <1>3, <1>4 DEF SetupInv, SettingKept

\* Nothing becomes of a turn outside of it: only a delivery begins one.
LEMMA OutsideSteps ==
  ASSUME SetupInv, Chatter \/ Toggle \/ Evict \/ Deliver
  PROVE  SetupInv'
<1>1. CASE Chatter \/ Toggle \/ Evict
  <2>1. UNCHANGED <<backend, turn>>
    BY <1>1 DEF Chatter, Toggle, Evict
  <2> QED
    BY <2>1 DEF SetupInv, TurnsShaped, SettingKept, TurnKept
<1>2. CASE Deliver
  <2> DEFINE r == [[NoTurn EXCEPT !.at = "waiting"] EXCEPT !.perms = setting]
  <2>1. UNCHANGED backend /\ Update(log + 1, r)
    BY <1>2 DEF Deliver
  <2>2. Reads(r, "waiting", "reply", setting, FALSE, FALSE, Absent)
    BY ReadsNoTurn, ReadsField, Zenon
  <2> HIDE DEF r
  <2>3. Shaped(r) /\ TurnKept(r)
    BY <2>2 DEF Reads, TurnKept, Gated
  <2>4. CASE log + 1 \in Messages
    BY <2>1, <2>3, <2>4, TurnMoves
  <2>5. CASE log + 1 \notin Messages
    <3>1. UNCHANGED <<backend, turn>>
      BY <2>1, <2>5 DEF Update, SetupInv, TurnsShaped
    <3> QED
      BY <3>1 DEF SetupInv, TurnsShaped, SettingKept, TurnKept
  <2> QED
    BY <2>4, <2>5
<1> QED
  BY <1>1, <1>2

\* A turn ends, one way or another.
LEMMA TurnEnds ==
  ASSUME SetupInv, NEW m \in Messages,
         RefreshFails(m) \/ NoPrompt(m) \/ Act(m) \/ CardMade(m) \/ Call(m) \/ Return(m)
  PROVE  SetupInv'
<1>0. UNCHANGED backend
  BY DEF RefreshFails, NoPrompt, Act, CardMade, Call, Return, outside
<1>2. CASE RefreshFails(m) \/ Act(m) \/ Return(m)
  <2>1. PICK at \in {"raised", "acted", "over"} : Update(m, [NoTurn EXCEPT !.at = at])
    BY <1>2 DEF RefreshFails, Act, Return
  <2>2. Reads([NoTurn EXCEPT !.at = at], at, "reply", Absent, FALSE, FALSE, Absent)
    BY ReadsNoTurn, ReadsField, Zenon
  <2>3. Shaped([NoTurn EXCEPT !.at = at]) /\ TurnKept([NoTurn EXCEPT !.at = at])
    BY <2>2 DEF Reads, TurnKept, Gated
  <2> QED
    BY <1>0, <2>1, <2>3, TurnMoves
<1>3. CASE NoPrompt(m)
  <2> DEFINE r == [[NoTurn EXCEPT !.at = "skipped"] EXCEPT !.ask = "no_prompt"]
  <2>1. Update(m, r)
    BY <1>3 DEF NoPrompt
  <2>2. Reads(r, "skipped", "no_prompt", Absent, FALSE, FALSE, Absent)
    BY ReadsNoTurn, ReadsField, Zenon
  <2> HIDE DEF r
  <2>3. Shaped(r) /\ TurnKept(r)
    BY <2>2 DEF Reads, TurnKept, Gated
  <2> QED
    BY <1>0, <2>1, <2>3, TurnMoves
<1>4. CASE CardMade(m)
  <2> DEFINE r == [[NoTurn EXCEPT !.at = "carded"] EXCEPT !.card = TRUE]
  <2>1. Update(m, r)
    BY <1>4 DEF CardMade
  <2>2. Reads(r, "carded", "reply", Absent, TRUE, FALSE, Absent)
    BY ReadsNoTurn, ReadsField, Zenon
  <2> HIDE DEF r
  <2>3. Shaped(r) /\ TurnKept(r)
    BY <2>2 DEF Reads, TurnKept, Gated
  <2> QED
    BY <1>0, <2>1, <2>3, TurnMoves
<1>5. CASE Call(m)
  <2> DEFINE r == [[[[NoTurn EXCEPT !.at = "called"] EXCEPT !.used = backend]
                    EXCEPT !.perms = turn[m].perms] EXCEPT !.crossed = turn[m].crossed]
  <2>1. Update(m, r) /\ turn[m].at = "ready"
    BY <1>5 DEF Call
  <2>2. Reads(r, "called", "reply", turn[m].perms, FALSE, turn[m].crossed, backend)
    <3> DEFINE p == turn[m].perms
               x == turn[m].crossed
               a == [NoTurn EXCEPT !.at = "called"]
               b == [a EXCEPT !.used = backend]
               d == [b EXCEPT !.perms = p]
    <3> HIDE DEF p, x
    <3>1. Reads(a, "called", "reply", Absent, FALSE, FALSE, Absent)
      BY ReadsNoTurn, ReadsField, Zenon
    <3> HIDE DEF a
    <3>2. Reads(b, "called", "reply", Absent, FALSE, FALSE, backend)
      BY <3>1, ReadsField, Zenon
    <3> HIDE DEF b
    <3>3. Reads(d, "called", "reply", p, FALSE, FALSE, backend)
      BY <3>2, ReadsField, Zenon
    <3> HIDE DEF d
    <3>4. Reads([d EXCEPT !.crossed = x], "called", "reply", p, FALSE, x, backend)
      BY <3>3, ReadsField, Zenon
    <3> QED
      BY <3>4, Zenon DEF a, b, d, p, x
  <2>3. turn[m].perms = Absent \/ Operator \/ turn[m].crossed \/ backend = turn[m].perms
    BY <2>1 DEF SetupInv, SettingKept, TurnKept, Gated
  <2> HIDE DEF r
  <2>4. Shaped(r) /\ TurnKept(r)
    BY <2>2, <2>3 DEF Reads, TurnKept, Gated
  <2> QED
    BY <1>0, <2>1, <2>4, TurnMoves
<1> QED
  BY <1>2, <1>3, <1>4, <1>5

\* A turn moves on, with the setting and the word of its directives.
LEMMA TurnGoesOn ==
  ASSUME SetupInv, NEW m \in Messages,
         \/ Start(m) \/ CardRefused(m) \/ Preloaded(m) \/ Lookup(m) \/ Fetched(m) \/ FetchFails(m) \/ Merge(m)
  PROVE  SetupInv'
<1> DEFINE c == turn[m]
           Goes(r, at, ask) == Reads(r, at, ask, c.perms, c.card, c.crossed, c.used)
<1>0. UNCHANGED backend /\ Shaped(c) /\ TurnKept(c)
  BY DEF Start, CardRefused, Preloaded, Lookup, Fetched, FetchFails, Merge, Served, outside,
     SetupInv, TurnsShaped, SettingKept
<1>1. Goes(c, c.at, c.ask)
  BY <1>0, ReadsTurn
<1> HIDE DEF c
<1>2. \E r, at, ask : /\ Update(m, r) /\ Goes(r, at, ask)
                      /\ at = "refreshing" \/ (at \in Gated /\ c.at \in Gated)
  <2>1. CASE Start(m)
    <3>1. Update(m, [c EXCEPT !.at = "refreshing"])
      BY <2>1 DEF Start, c
    <3>2. Goes([c EXCEPT !.at = "refreshing"], "refreshing", c.ask)
      BY <1>1, ReadsField, Zenon
    <3> HIDE DEF Goes
    <3> QED
      BY <3>1, <3>2, Zenon
  <2>2. CASE CardRefused(m)
    <3> DEFINE r == [[c EXCEPT !.at = "history"] EXCEPT !.ask = "reply"]
    <3>1. Update(m, r) /\ c.at = "creating"
      BY <2>2 DEF CardRefused, c
    <3>2. Goes(r, "history", "reply")
      BY <1>1, ReadsField, Zenon
    <3>3. "history" \in Gated /\ c.at \in Gated
      BY <3>1 DEF Gated
    <3> HIDE DEF r, Goes
    <3> QED
      BY <3>1, <3>2, <3>3, Zenon
  <2>3. CASE Preloaded(m) \/ Merge(m)
    <3>1. PICK b, p : Served(m, b, p)
      BY <2>3 DEF Preloaded, Merge
    <3> DEFINE r == [[[[c EXCEPT !.context = Window(b, p)] EXCEPT !.payload = <<>>]
                      EXCEPT !.base = Absent] EXCEPT !.at = "ready"]
    <3>2. Update(m, r)
      BY <3>1 DEF Served, c
    <3>3. Goes(r, "ready", c.ask)
      <4>1. Goes([[c EXCEPT !.context = Window(b, p)] EXCEPT !.payload = <<>>], c.at, c.ask)
        BY <1>1, ReadsField, Zenon
      <4> QED
        BY <4>1, ReadsField, Zenon
    <3>4. "ready" \in Gated /\ c.at \in Gated
      BY <2>3 DEF Preloaded, Merge, Gated, c
    <3> HIDE DEF r, Goes
    <3> QED
      BY <3>2, <3>3, <3>4, Zenon
  <2>4. CASE Lookup(m)
    <3>1. PICK entry : Update(m, [[c EXCEPT !.base = entry] EXCEPT !.at = "fetching"]) /\ c.at = "history"
      BY <2>4 DEF Lookup, c
    <3> DEFINE r == [[c EXCEPT !.base = entry] EXCEPT !.at = "fetching"]
    <3>2. Goes(r, "fetching", c.ask)
      BY <1>1, ReadsField, Zenon
    <3>3. "fetching" \in Gated /\ c.at \in Gated
      BY <3>1 DEF Gated
    <3> HIDE DEF r, Goes
    <3>4. Update(m, r)
      BY <3>1 DEF r
    <3> QED
      BY <3>2, <3>3, <3>4, Zenon
  <2>5. CASE Fetched(m)
    <3> DEFINE r == [[c EXCEPT !.payload = NewestOf(log)] EXCEPT !.at = "merging"]
    <3>1. Update(m, r) /\ c.at = "fetching"
      BY <2>5 DEF Fetched, c
    <3>2. Goes(r, "merging", c.ask)
      BY <1>1, ReadsField, Zenon
    <3>3. "merging" \in Gated /\ c.at \in Gated
      BY <3>1 DEF Gated
    <3> HIDE DEF r, Goes
    <3> QED
      BY <3>1, <3>2, <3>3, Zenon
  <2>6. CASE FetchFails(m)
    <3>1. /\ c.at = "fetching"
          /\ Update(m, [c EXCEPT !.base = Absent]) \/ Update(m, [c EXCEPT !.at = "ready"])
      BY <2>6 DEF FetchFails, c
    <3>2. Goes([c EXCEPT !.base = Absent], c.at, c.ask) /\ Goes([c EXCEPT !.at = "ready"], "ready", c.ask)
      BY <1>1, ReadsField, Zenon
    <3>3. c.at \in Gated /\ "ready" \in Gated
      BY <3>1 DEF Gated
    <3> HIDE DEF Goes
    <3> QED
      BY <3>1, <3>2, <3>3, Zenon
  <2> QED
    BY <2>1, <2>2, <2>3, <2>4, <2>5, <2>6
<1>3. PICK r, at, ask : /\ Update(m, r) /\ Goes(r, at, ask)
                        /\ at = "refreshing" \/ (at \in Gated /\ c.at \in Gated)
  BY <1>2
<1>4. Shaped(r) /\ TurnKept(r)
  <2>1. /\ Shaped(r) /\ r.at = at /\ r.perms = c.perms /\ r.crossed = c.crossed
    BY <1>3 DEF Reads
  <2>2. CASE at = "refreshing"
    BY <2>1, <2>2 DEF TurnKept, Gated
  <2>3. CASE at \in Gated /\ c.at \in Gated
    <3>1. c.perms = Absent \/ Operator \/ c.crossed \/ backend = c.perms
      BY <1>0, <2>3 DEF TurnKept
    <3>2. r.at \notin {"called", "skipped", "carded"}
      BY <2>1, <2>3 DEF Gated
    <3> QED
      BY <2>1, <3>1, <3>2 DEF TurnKept
  <2> QED
    BY <1>3, <2>1, <2>2, <2>3
<1> QED
  BY <1>0, <1>3, <1>4, TurnMoves

\* A turn passes the gate: it writes its setting, and crosses the others.
LEMMA TurnGated ==
  ASSUME SetupInv, NEW m \in Messages, Gate(m)
  PROVE  SetupInv'
<1>1. PICK ask \in Asks \ {"no_prompt"}, told \in BOOLEAN, preloaded \in BOOLEAN :
        LET mine == Delivered(m, ask, told, preloaded) IN
          /\ turn[m].at = "refreshing"
          /\ backend' = Synced(mine.perms)
          /\ turn' = [u \in Messages |->
               IF u = m THEN mine
               ELSE IF Crosses(mine.perms, u) THEN [turn[u] EXCEPT !.crossed = TRUE] ELSE turn[u]]
  BY DEF Gate
<1> DEFINE mine == Delivered(m, ask, told, preloaded)
<1>2. Shaped(mine) /\ mine.at = NextStop(ask) /\ mine.ask = ask
  <2> DEFINE c == turn[m]
             p == IF told THEN c.perms ELSE Absent
             n == IF preloaded THEN NewestOf(m) ELSE <<>>
             r == [[[[c EXCEPT !.at = NextStop(ask)] EXCEPT !.ask = ask] EXCEPT !.perms = p] EXCEPT !.payload = n]
  <2>1. Reads(c, c.at, c.ask, c.perms, c.card, c.crossed, c.used)
    BY ReadsTurn DEF SetupInv, TurnsShaped
  <2>2. mine = r
    BY <2>1 DEF Delivered, Reads, Shaped
  <2> HIDE DEF c, p, n, mine
  <2>3. Reads([[c EXCEPT !.at = NextStop(ask)] EXCEPT !.ask = ask],
              NextStop(ask), ask, c.perms, c.card, c.crossed, c.used)
    BY <2>1, ReadsField, Zenon
  <2>4. Reads(r, NextStop(ask), ask, p, c.card, c.crossed, c.used)
    BY <2>3, ReadsField, Zenon
  <2> QED
    BY <2>2, <2>4 DEF Reads
<1> HIDE DEF mine
<1>3. /\ backend' = Synced(mine.perms)
      /\ \A u \in Messages : turn'[u] =
           IF u = m THEN mine
           ELSE IF Crosses(mine.perms, u) THEN [turn[u] EXCEPT !.crossed = TRUE] ELSE turn[u]
      /\ turn' = [u \in Messages |-> turn'[u]]
  BY <1>1 DEF mine
<1>4. \A u \in Messages : u # m =>
        /\ Shaped(turn[u]) /\ Shaped([turn[u] EXCEPT !.crossed = TRUE])
        /\ [turn[u] EXCEPT !.crossed = TRUE].crossed
        /\ [turn[u] EXCEPT !.crossed = TRUE].at = turn[u].at
        /\ [turn[u] EXCEPT !.crossed = TRUE].ask = turn[u].ask
        /\ [turn[u] EXCEPT !.crossed = TRUE].card = turn[u].card
  <2> TAKE u \in Messages
  <2> DEFINE c == turn[u]
  <2>1. Shaped(c)
    BY DEF SetupInv, TurnsShaped
  <2>2. Reads(c, c.at, c.ask, c.perms, c.card, c.crossed, c.used)
    BY <2>1, ReadsTurn
  <2>3. Reads([c EXCEPT !.crossed = TRUE], c.at, c.ask, c.perms, c.card, TRUE, c.used)
    BY <2>2, ReadsField, Zenon
  <2> QED
    BY <2>1, <2>3 DEF Reads
<1>5. TurnsShaped'
  <2>1. \A u \in Messages : Shaped(turn'[u])
    BY <1>2, <1>3, <1>4
  <2> QED
    BY <1>3, <2>1 DEF TurnsShaped, Shaped
<1>6. Operator => backend' = backend /\ backend
  BY <1>3 DEF Synced, SetupInv, SettingKept
<1>7. ASSUME NEW u \in Messages PROVE TurnKept(turn[u])'
  <2>0. TurnKept(turn[u])
    BY DEF SetupInv, SettingKept
  <2>1. CASE u = m
    <3>1. turn'[u] = mine /\ mine.at \in {"skipped", "acting", "creating", "history"}
          /\ (mine.at = "skipped" => mine.ask = "skip")
      BY <1>1, <1>2, <1>3, <2>1 DEF NextStop, Asks
    <3>2. mine.perms = Absent \/ Operator \/ backend' = mine.perms
      BY <1>3 DEF Synced
    <3> QED
      BY <3>1, <3>2 DEF TurnKept, Gated
  <2>2. CASE u # m /\ Crosses(mine.perms, u)
    BY <1>3, <1>4, <2>0, <2>2 DEF TurnKept, Crosses, Gated
  <2>3. CASE u # m /\ ~Crosses(mine.perms, u)
    <3>1. turn'[u] = turn[u]
      BY <1>3, <2>3
    <3>2. turn[u].at \in Gated => turn[u].perms = Absent \/ Operator \/ turn[u].crossed
                                  \/ backend' = turn[u].perms
      BY <1>3, <2>0, <2>3 DEF TurnKept, Crosses, Synced
    <3> QED
      BY <2>0, <3>1, <3>2 DEF TurnKept
  <2> QED
    BY <2>1, <2>2, <2>3
<1>8. SettingKept'
  BY <1>6, <1>7 DEF SettingKept
<1> QED
  BY <1>5, <1>8 DEF SetupInv

\* The turns keep the setting and the word of their directives.
LEMMA SetupHolds == SetupSpec => []SetupInv
<1>1. SetupInv /\ UNCHANGED setupVars => SetupInv'
  BY DEF SetupInv, TurnsShaped, SettingKept, TurnKept, setupVars
<1>2. SetupInv /\ SetupNext => SetupInv'
  BY OutsideSteps, TurnEnds, TurnGoesOn, TurnGated DEF SetupNext
<1> QED
  BY <1>1, <1>2, SetupStarts, PTL DEF SetupSpec

\* A turn runs with the setting its directives carry, unless another turn wrote
\* another one in between, and is silent only when it was told so.
THEOREM TurnsAsDirected == Spec => []TurnAsDirected
<1>1. SetupInv => TurnAsDirected
  BY DEF SetupInv, SettingKept, TurnKept, TurnAsDirected, DirectedUnlessCrossed, SilentOnlyIfTold
<1> QED
  BY <1>1, SetupHolds, PartSpecs, PTL

----------------------------------------------------------------------------
(* The history of a turn.                                                  *)

\* At most n messages, none of them twice.
Listed(s, n) ==
  /\ s \in Seq(Nat) /\ Len(s) <= n
  /\ \A i, j \in 1..Len(s) : s[i] = s[j] => i = j

\* A history has as many messages as it has places.
LEMMA ListedCount ==
  ASSUME NEW n \in Nat, NEW s, Listed(s, n)
  PROVE  Len(s) = Cardinality(ToSet(s))
<1>1. s \in [1..Len(s) -> Nat] /\ DOMAIN s = 1..Len(s) /\ Len(s) \in Nat
  BY LenProperties DEF Listed
<1>2. ToSet(s) = {s[i] : i \in 1..Len(s)}
  BY <1>1 DEF ToSet
<1>3. s \in [1..Len(s) -> ToSet(s)]
  BY <1>1, <1>2
<1>4. s \in Bijection(1..Len(s), ToSet(s))
  <2>1. s \in Injection(1..Len(s), ToSet(s))
    BY <1>1, <1>3 DEF Injection, IsInjective, Listed
  <2>2. s \in Surjection(1..Len(s), ToSet(s))
    BY <1>2, <1>3 DEF Surjection
  <2> QED
    BY <2>1, <2>2 DEF Bijection
<1>5. ExistsBijection(1..Len(s), ToSet(s))
  BY <1>4 DEF ExistsBijection
<1>6. IsFiniteSet(1..Len(s)) /\ Cardinality(1..Len(s)) = Len(s)
  <2>1. 1 \in Int /\ Len(s) \in Int
    BY <1>1
  <2>2. IsFiniteSet(1..Len(s)) /\ Cardinality(1..Len(s)) = IF 1 > Len(s) THEN 0 ELSE Len(s) - 1 + 1
    BY <2>1, FS_Interval
  <2> QED
    BY <2>2, <1>1
<1> QED
  BY <1>5, <1>6, FS_Bijection

\* No history, and the newest messages of a conversation.
LEMMA NewestListed ==
  ASSUME NEW n \in Nat
  PROVE  Listed(NewestOf(n), Limit) /\ \A k \in Nat : Listed(<<>>, k)
<1>0. Limit \in Nat \ {0}
  BY TurnSetupAssumption
<1>1. \A k \in Nat : Listed(<<>>, k)
  BY EmptySeq DEF Listed
<1> DEFINE l == IF n < Limit THEN n ELSE Limit
           at(i) == IF n < Limit THEN i ELSE n - Limit + i
           s == [i \in 1..l |-> at(i)]
<1>2. l \in Nat /\ l <= Limit /\ \A i \in 1..l : at(i) \in Nat
  BY <1>0
<1>3. \A i, j \in 1..l : at(i) = at(j) => i = j
  BY <1>0, <1>2
<1> HIDE DEF l, at
<1>4. s \in Seq(Nat)
  BY <1>2, IsASeq
<1>5. s \in [1..l -> Nat] /\ DOMAIN s = 1..l
  BY <1>2
<1>6. Len(s) = l
  BY <1>2, <1>4, <1>5, LenProperties
<1>7. Listed(s, Limit)
  BY <1>2, <1>3, <1>4, <1>6 DEF Listed
<1> QED
  BY <1>1, <1>7 DEF NewestOf, l, at

\* What is kept of the first i messages of an answer, for every i up to n.
KeepsNews(f, base, payload, n) ==
  f = [i \in 0..n |->
        IF i = 0 THEN <<>>
        ELSE IF payload[i] \in ToSet(base) THEN f[i - 1] ELSE Append(f[i - 1], payload[i])]

\* Fresh is defined for every answer: the least length without such a function
\* could be reached from the one before.
LEMMA KeptExists ==
  ASSUME NEW base, NEW payload, NEW n \in Nat
  PROVE  \E f : KeepsNews(f, base, payload, n)
<1> DEFINE S == {m \in Nat : ~ \E f : KeepsNews(f, base, payload, m)}
<1>1. SUFFICES ASSUME S # {} PROVE FALSE
  OBVIOUS
<1>2. PICK m \in S : \A y \in S : m <= y
  <2>1. S \subseteq Nat
    OBVIOUS
  <2> HIDE DEF S
  <2> QED
    BY <1>1, <2>1, LeastNumber
<1> DEFINE body(f, i) ==
             IF i = 0 THEN <<>>
             ELSE IF payload[i] \in ToSet(base) THEN f[i - 1] ELSE Append(f[i - 1], payload[i])
<1>3. CASE m = 0
  <2> DEFINE f == [i \in 0..0 |-> <<>>]
  <2>1. f = [i \in 0..0 |-> body(f, i)]
    OBVIOUS
  <2> QED
    BY <1>3, <2>1 DEF KeepsNews
<1>4. CASE m # 0
  <2>0. m \in Nat /\ m - 1 \in Nat
    BY <1>4
  <2>1. PICK g : KeepsNews(g, base, payload, m - 1)
    BY <1>2, <2>0
  <2>2. g = [i \in 0..(m - 1) |-> body(g, i)]
    BY <2>1 DEF KeepsNews
  <2> DEFINE f == [i \in 0..m |-> body(g, i)]
  <2>3. \A i \in 0..m : i # 0 => f[i - 1] = g[i - 1]
    <3> SUFFICES ASSUME NEW i \in 0..m, i # 0 PROVE f[i - 1] = g[i - 1]
      OBVIOUS
    <3>1. i - 1 \in 0..m /\ i - 1 \in 0..(m - 1)
      BY <2>0
    <3>2. f[i - 1] = body(g, i - 1)
      BY <3>1
    <3> HIDE DEF f, body
    <3> QED
      BY <2>2, <3>1, <3>2
  <2>4. \A i \in 0..m : body(f, i) = body(g, i)
    <3> HIDE DEF f
    <3> QED
      BY <2>3
  <2>5. f = [i \in 0..m |-> body(f, i)]
    <3> HIDE DEF body
    <3> QED
      BY <2>4
  <2>6. KeepsNews(f, base, payload, m)
    BY <2>5 DEF KeepsNews
  <2> HIDE DEF f
  <2> QED
    BY <2>6
<1> QED
  BY <1>3, <1>4

\* The news of an answer are messages of it, each once, that the window lacks.
LEMMA FreshListed ==
  ASSUME NEW base, NEW n \in Nat, NEW payload, Listed(payload, n)
  PROVE  /\ Listed(Fresh(base, payload), n)
         /\ \A i \in 1..Len(Fresh(base, payload)) : Fresh(base, payload)[i] \notin ToSet(base)
<1> DEFINE l == Len(payload)
           f == CHOOSE g : KeepsNews(g, base, payload, l)
           Told(i, j) == \E k \in 1..i : f[i][j] = payload[k] /\ payload[k] \notin ToSet(base)
           Good(i) == /\ f[i] \in Seq(Nat) /\ Len(f[i]) <= i
                      /\ \A j \in 1..Len(f[i]) : Told(i, j)
                      /\ \A j, k \in 1..Len(f[i]) : f[i][j] = f[i][k] => j = k
<1>1. l \in Nat /\ \A i \in 1..l : payload[i] \in Nat
  BY LenProperties, ElementOfSeq DEF Listed
<1>2. KeepsNews(f, base, payload, l)
  BY <1>1, KeptExists
<1>3. Fresh(base, payload) = f[l]
  BY DEF Fresh, KeepsNews
<1> HIDE DEF f
<1>4. f[0] = <<>>
  BY <1>1, <1>2 DEF KeepsNews
<1>5. ASSUME NEW i \in 1..l
      PROVE  f[i] = IF payload[i] \in ToSet(base) THEN f[i - 1] ELSE Append(f[i - 1], payload[i])
  <2>1. i \in 0..l /\ i # 0
    BY <1>1
  <2> QED
    BY <1>2, <2>1 DEF KeepsNews
<1>6. Good(0)
  BY <1>4, EmptySeq
<1>7. ASSUME NEW i \in 1..l, Good(i - 1) PROVE Good(i)
  <2>0. i \in Nat /\ i - 1 \in Nat /\ payload[i] \in Nat
    BY <1>1
  <2>1. CASE payload[i] \in ToSet(base)
    <3>1. f[i] = f[i - 1]
      BY <1>5, <2>1
    <3>2. \A j \in 1..Len(f[i]) : Told(i, j)
      BY <1>7, <2>0, <3>1
    <3>3. /\ f[i] \in Seq(Nat) /\ Len(f[i]) <= i - 1
          /\ \A j, k \in 1..Len(f[i]) : f[i][j] = f[i][k] => j = k
      BY <1>7, <3>1
    <3>4. Len(f[i]) <= i
      <4>1. Len(f[i]) \in Nat
        BY <3>3, LenProperties
      <4> QED
        BY <2>0, <3>3, <4>1
    <3> HIDE DEF Told
    <3> QED
      BY <3>2, <3>3, <3>4
  <2>2. CASE payload[i] \notin ToSet(base)
    <3> DEFINE g == f[i - 1]
               h == f[i]
    <3>1. h = Append(g, payload[i]) /\ g \in Seq(Nat)
      BY <1>5, <1>7, <2>2
    <3>2. /\ h \in Seq(Nat) /\ Len(g) \in Nat /\ Len(h) = Len(g) + 1
          /\ \A j \in 1..Len(g) : h[j] = g[j]
          /\ h[Len(g) + 1] = payload[i]
      <4> HIDE DEF g, h
      <4> QED
        BY <2>0, <3>1, LenProperties
    <3>3. Len(g) <= i - 1
      BY <1>7
    <3>4. \A j \in 1..Len(g) : \E k \in 1..(i - 1) : g[j] = payload[k] /\ payload[k] \notin ToSet(base)
      BY <1>7
    <3>5. \A j, k \in 1..Len(g) : g[j] = g[k] => j = k
      BY <1>7
    <3> HIDE DEF g, h
    <3>6. \A j \in 1..Len(g) : h[j] # payload[i]
      <4>1. \A k \in 1..(i - 1) : payload[k] # payload[i]
        BY <2>0, <1>1 DEF Listed
      <4> QED
        BY <3>2, <3>4, <4>1
    <3>7. \A j \in 1..Len(h) : j \in 1..Len(g) \/ j = Len(g) + 1
      BY <3>2
    <3>8. \A j \in 1..Len(h) : \E k \in 1..i : h[j] = payload[k] /\ payload[k] \notin ToSet(base)
      <4> SUFFICES ASSUME NEW j \in 1..Len(h)
                   PROVE  \E k \in 1..i : h[j] = payload[k] /\ payload[k] \notin ToSet(base)
        OBVIOUS
      <4>1. CASE j \in 1..Len(g)
        <5>1. PICK k \in 1..(i - 1) : g[j] = payload[k] /\ payload[k] \notin ToSet(base)
          BY <3>4, <4>1
        <5>2. k \in 1..i /\ h[j] = g[j]
          BY <2>0, <3>2, <4>1
        <5> QED
          BY <5>1, <5>2
      <4>2. CASE j = Len(g) + 1
        <5>1. i \in 1..i /\ h[j] = payload[i]
          BY <2>0, <3>2, <4>2
        <5> QED
          BY <2>2, <5>1
      <4> QED
        BY <3>7, <4>1, <4>2
    <3>9. \A j, k \in 1..Len(h) : h[j] = h[k] => j = k
      BY <3>2, <3>5, <3>6, <3>7
    <3> QED
      BY <2>0, <3>2, <3>3, <3>8, <3>9 DEF h
  <2> QED
    BY <2>1, <2>2
<1>8. Good(l)
  <2> DEFINE S == {i \in 0..l : ~ Good(i)}
  <2> HIDE DEF Good
  <2>1. SUFFICES ASSUME S # {} PROVE FALSE
    BY <1>1
  <2>2. S \subseteq Nat
    BY <1>1
  <2>3. PICK i \in S : \A y \in S : i <= y
    <3> HIDE DEF S
    <3> QED
      BY <2>1, <2>2, LeastNumber
  <2>4. i \in 1..l /\ i - 1 \in 0..l
    BY <1>1, <1>6, <2>3
  <2>5. Good(i - 1)
    BY <2>3, <2>4
  <2> QED
    BY <1>7, <2>3, <2>4, <2>5
<1>9. \A j \in 1..Len(f[l]) : f[l][j] \notin ToSet(base)
  BY <1>8
<1>10. f[l] \in Seq(Nat) /\ Len(f[l]) <= l /\ \A j, k \in 1..Len(f[l]) : f[l][j] = f[l][k] => j = k
  BY <1>8
<1>11. Len(f[l]) <= n
  <2>1. Len(f[l]) \in Nat /\ l <= n
    BY <1>10, LenProperties DEF Listed
  <2> QED
    BY <1>1, <1>10, <2>1
<1> QED
  BY <1>3, <1>9, <1>10, <1>11 DEF Listed

\* What a turn is given and the cache keeps: the window, the news after it,
\* cut down to the newest when it would be longer than twice the limit.
LEMMA WindowListed ==
  ASSUME NEW base, NEW payload, Listed(payload, Limit), base = Absent \/ Listed(base, 2 * Limit)
  PROVE  Listed(Window(base, payload), 2 * Limit)
<1>0. Limit \in Nat \ {0} /\ 2 * Limit \in Nat
  BY TurnSetupAssumption
<1>1. CASE base = Absent
  <2>1. Len(payload) \in Nat
    BY LenProperties DEF Listed
  <2> QED
    BY <1>0, <1>1, <2>1 DEF Window, Listed
<1>2. CASE base # Absent
  <2> DEFINE news == Fresh(base, payload)
             w == base \o news
  <2>1. /\ Listed(base, 2 * Limit) /\ Listed(news, Limit)
        /\ \A i \in 1..Len(news) : news[i] \notin ToSet(base)
    BY <1>0, <1>2, FreshListed
  <2> HIDE DEF news
  <2>2. /\ w \in Seq(Nat) /\ Len(base) \in Nat /\ Len(news) \in Nat /\ Len(w) = Len(base) + Len(news)
        /\ \A i \in 1..Len(w) : w[i] = IF i <= Len(base) THEN base[i] ELSE news[i - Len(base)]
    BY <2>1, ConcatProperties, LenProperties DEF Listed
  <2>3. \A i \in 1..Len(base) : base[i] \in ToSet(base)
    BY <2>1, LenProperties DEF Listed, ToSet
  <2> HIDE DEF w
  <2>4. \A i \in 1..Len(w) : i > Len(base) => i - Len(base) \in 1..Len(news) /\ w[i] = news[i - Len(base)]
    BY <2>2
  <2>5. \A i \in 1..Len(w) : i <= Len(base) => i \in 1..Len(base) /\ w[i] = base[i]
    BY <2>2
  <2>6. ASSUME NEW i \in 1..Len(w), NEW j \in 1..Len(w), w[i] = w[j] PROVE i = j
    <3>1. i <= Len(base) \/ i > Len(base)
      BY <2>2
    <3>2. j <= Len(base) \/ j > Len(base)
      BY <2>2
    <3>3. CASE i <= Len(base) /\ j <= Len(base)
      BY <2>1, <2>5, <2>6, <3>3 DEF Listed
    <3>4. CASE i > Len(base) /\ j > Len(base)
      <4>1. i - Len(base) = j - Len(base)
        BY <2>1, <2>4, <2>6, <3>4 DEF Listed
      <4> QED
        BY <2>2, <4>1
    <3>5. CASE i <= Len(base) /\ j > Len(base)
      BY <2>1, <2>3, <2>4, <2>5, <2>6, <3>5
    <3>6. CASE i > Len(base) /\ j <= Len(base)
      BY <2>1, <2>3, <2>4, <2>5, <2>6, <3>6
    <3> QED
      BY <3>1, <3>2, <3>3, <3>4, <3>5, <3>6
  <2>7. Listed(Trimmed(w), 2 * Limit)
    <3>1. CASE Len(w) <= 2 * Limit
      <4>1. Trimmed(w) = w
        BY <1>0, <2>2, <3>1 DEF Trimmed
      <4> QED
        BY <2>2, <2>6, <3>1, <4>1 DEF Listed
    <3>2. CASE Len(w) > 2 * Limit
      <4> DEFINE a == Len(w) - Limit + 1
                 b == Len(w)
                 t == SubSeq(w, a, b)
      <4>1. a \in Int /\ b \in Int /\ a \in 1..b /\ b - a + 1 = Limit
        BY <1>0, <2>2, <3>2
      <4>2. \A i \in a..b : i \in 1..Len(w)
        BY <4>1
      <4>3. \A i \in a..b : w[i] \in Nat
        BY <2>2, <4>2, ElementOfSeq
      <4> HIDE DEF a, b
      <4>4. /\ t \in Seq(Nat) /\ Len(t) = Limit
            /\ \A i \in 1..Limit : t[i] = w[a + i - 1]
        <5>1. /\ t \in Seq(Nat) /\ Len(t) = IF a <= b THEN b - a + 1 ELSE 0
              /\ \A i \in 1..(b - a + 1) : t[i] = w[a + i - 1]
          BY <4>1, <4>3, SubSeqProperties
        <5> QED
          BY <1>0, <4>1, <5>1
      <4> HIDE DEF t
      <4>5. ASSUME NEW i \in 1..Len(t), NEW j \in 1..Len(t), t[i] = t[j] PROVE i = j
        <5>1. i \in 1..Limit /\ j \in 1..Limit
          BY <4>4
        <5>2. a + i - 1 \in a..b /\ a + j - 1 \in a..b
          BY <1>0, <4>1, <5>1
        <5>3. w[a + i - 1] = w[a + j - 1]
          BY <4>4, <4>5, <5>1
        <5>4. a + i - 1 = a + j - 1
          BY <2>6, <4>2, <5>2, <5>3
        <5> QED
          BY <4>1, <5>1, <5>4
      <4>6. Trimmed(w) = t
        BY <3>2 DEF Trimmed, t, a, b
      <4>7. Limit <= 2 * Limit
        BY <1>0
      <4> QED
        BY <4>4, <4>5, <4>6, <4>7 DEF Listed
    <3> QED
      BY <1>0, <2>2, <3>1, <3>2
  <2> QED
    BY <1>2, <2>7 DEF Window, w, news
<1> QED
  BY <1>1, <1>2

\* What a turn has of the history, and what is cached.
HistoryListed(r) ==
  /\ Listed(r.payload, Limit) /\ Listed(r.context, 2 * Limit)
  /\ r.base = Absent \/ Listed(r.base, 2 * Limit)
CacheListed == cache = Absent \/ Listed(cache, 2 * Limit)

HistoryInv == log \in Nat /\ CacheListed /\ \A m \in Messages : HistoryListed(turn[m])

\* The history in a turn's hands.
Brings(r, payload, base, context) ==
  Shaped(r) /\ r.payload = payload /\ r.base = base /\ r.context = context

\* A field of a turn that changes leaves the others.
LEMMA BringsField ==
  ASSUME NEW r, NEW payload, NEW base, NEW context, NEW v, Brings(r, payload, base, context)
  PROVE  /\ Brings([r EXCEPT !.at = v], payload, base, context)
         /\ Brings([r EXCEPT !.ask = v], payload, base, context)
         /\ Brings([r EXCEPT !.perms = v], payload, base, context)
         /\ Brings([r EXCEPT !.payload = v], v, base, context)
         /\ Brings([r EXCEPT !.base = v], payload, v, context)
         /\ Brings([r EXCEPT !.context = v], payload, base, v)
         /\ Brings([r EXCEPT !.card = v], payload, base, context)
         /\ Brings([r EXCEPT !.crossed = v], payload, base, context)
         /\ Brings([r EXCEPT !.used = v], payload, base, context)
<1>1. Brings([r EXCEPT !.at = v], payload, base, context)
  BY DEF Brings, Shaped
<1>2. Brings([r EXCEPT !.ask = v], payload, base, context)
  BY DEF Brings, Shaped
<1>3. Brings([r EXCEPT !.perms = v], payload, base, context)
  BY DEF Brings, Shaped
<1>4. Brings([r EXCEPT !.payload = v], v, base, context)
  BY DEF Brings, Shaped
<1>5. Brings([r EXCEPT !.base = v], payload, v, context)
  BY DEF Brings, Shaped
<1>6. Brings([r EXCEPT !.context = v], payload, base, v)
  BY DEF Brings, Shaped
<1>7. Brings([r EXCEPT !.card = v], payload, base, context)
  BY DEF Brings, Shaped
<1>8. Brings([r EXCEPT !.crossed = v], payload, base, context)
  BY DEF Brings, Shaped
<1>9. Brings([r EXCEPT !.used = v], payload, base, context)
  BY DEF Brings, Shaped
<1> QED
  BY <1>1, <1>2, <1>3, <1>4, <1>5, <1>6, <1>7, <1>8, <1>9

\* A place without a turn has no history.
LEMMA BringsNoTurn == Brings(NoTurn, <<>>, Absent, <<>>)
  BY DEF NoTurn, Brings, Shaped

\* A turn as it is.
LEMMA BringsTurn ==
  ASSUME NEW r, Shaped(r)
  PROVE  Brings(r, r.payload, r.base, r.context)
  BY DEF Brings

\* A turn without a history breaks no bound.
LEMMA NothingListed ==
  ASSUME NEW r, Brings(r, <<>>, Absent, <<>>)
  PROVE  HistoryListed(r)
<1>1. Limit \in Nat /\ 2 * Limit \in Nat /\ 0 \in Nat
  BY TurnSetupAssumption
<1>2. Listed(<<>>, Limit) /\ Listed(<<>>, 2 * Limit)
  BY <1>1, NewestListed
<1> QED
  BY <1>2 DEF Brings, HistoryListed

\* One turn moves on, and whatever is cached meanwhile keeps to the bound.
LEMMA HistoryMoves ==
  ASSUME TurnsShaped, HistoryInv, NEW m \in Messages, NEW r, Update(m, r), HistoryListed(r),
         log' \in Nat, CacheListed'
  PROVE  HistoryInv'
<1>1. \A u \in Messages : turn'[u] = IF u = m THEN r ELSE turn[u]
  BY DEF Update, TurnsShaped
<1>2. \A u \in Messages : HistoryListed(turn'[u])
  BY <1>1 DEF HistoryInv
<1> QED
  BY <1>2 DEF HistoryInv, HistoryListed

\* At the start nothing is known of the conversation.
LEMMA HistoryStarts == SetupInit => HistoryInv
<1> SUFFICES ASSUME SetupInit PROVE HistoryInv
  OBVIOUS
<1>1. \A m \in Messages : turn[m] = NoTurn
  BY DEF SetupInit
<1>2. HistoryListed(NoTurn)
  BY BringsNoTurn, NothingListed
<1>3. log \in Nat /\ CacheListed
  BY DEF SetupInit, CacheListed
<1> QED
  BY <1>1, <1>2, <1>3 DEF HistoryInv

\* The conversation grows, and the cache may lose it.
LEMMA HistoryOutside ==
  ASSUME TurnsShaped, HistoryInv, Chatter \/ Toggle \/ Evict \/ Deliver
  PROVE  HistoryInv'
<1>1. log' \in Nat
  BY DEF HistoryInv, Chatter, Toggle, Evict, Deliver, outside
<1>2. CacheListed'
  BY DEF HistoryInv, CacheListed, Chatter, Toggle, Evict, Deliver
<1>3. CASE Chatter \/ Toggle \/ Evict
  <2>1. UNCHANGED turn
    BY <1>3 DEF Chatter, Toggle, Evict
  <2> QED
    BY <1>1, <1>2, <2>1 DEF HistoryInv, HistoryListed
<1>4. CASE Deliver
  <2> DEFINE r == [[NoTurn EXCEPT !.at = "waiting"] EXCEPT !.perms = setting]
  <2>1. Update(log + 1, r) /\ log < MaxLog
    BY <1>4 DEF Deliver
  <2>2. log + 1 \in Messages
    BY <2>1, TurnSetupAssumption DEF HistoryInv, Messages
  <2>3. Brings(r, <<>>, Absent, <<>>)
    BY BringsNoTurn, BringsField, Zenon
  <2> HIDE DEF r
  <2> QED
    BY <1>1, <1>2, <2>1, <2>2, <2>3, NothingListed, HistoryMoves
<1> QED
  BY <1>3, <1>4

\* A turn that ends has its history no more.
LEMMA HistoryEnds ==
  ASSUME TurnsShaped, HistoryInv, NEW m \in Messages,
         RefreshFails(m) \/ NoPrompt(m) \/ Act(m) \/ CardMade(m) \/ Call(m) \/ Return(m)
  PROVE  HistoryInv'
<1>0. log' \in Nat /\ CacheListed'
  BY DEF HistoryInv, CacheListed, RefreshFails, NoPrompt, Act, CardMade, Call, Return, outside
<1>1. \E r : Update(m, r) /\ Brings(r, <<>>, Absent, <<>>)
  <2>1. CASE RefreshFails(m) \/ Act(m) \/ Return(m)
    <3>1. PICK at : Update(m, [NoTurn EXCEPT !.at = at])
      BY <2>1 DEF RefreshFails, Act, Return
    <3>2. Brings([NoTurn EXCEPT !.at = at], <<>>, Absent, <<>>)
      BY BringsNoTurn, BringsField, Zenon
    <3> QED
      BY <3>1, <3>2, Zenon
  <2>2. CASE NoPrompt(m)
    <3> DEFINE r == [[NoTurn EXCEPT !.at = "skipped"] EXCEPT !.ask = "no_prompt"]
    <3>1. Update(m, r)
      BY <2>2 DEF NoPrompt
    <3>2. Brings(r, <<>>, Absent, <<>>)
      BY BringsNoTurn, BringsField, Zenon
    <3> HIDE DEF r
    <3> QED
      BY <3>1, <3>2
  <2>3. CASE CardMade(m)
    <3> DEFINE r == [[NoTurn EXCEPT !.at = "carded"] EXCEPT !.card = TRUE]
    <3>1. Update(m, r)
      BY <2>3 DEF CardMade
    <3>2. Brings(r, <<>>, Absent, <<>>)
      BY BringsNoTurn, BringsField, Zenon
    <3> HIDE DEF r
    <3> QED
      BY <3>1, <3>2
  <2>4. CASE Call(m)
    <3> DEFINE a == [[NoTurn EXCEPT !.at = "called"] EXCEPT !.used = backend]
           r == [[a EXCEPT !.perms = turn[m].perms] EXCEPT !.crossed = turn[m].crossed]
    <3>1. Update(m, r)
      BY <2>4 DEF Call
    <3>2. Brings(a, <<>>, Absent, <<>>)
      BY BringsNoTurn, BringsField, Zenon
    <3> HIDE DEF a
    <3>3. Brings(r, <<>>, Absent, <<>>)
      BY <3>2, BringsField, Zenon
    <3> HIDE DEF r
    <3> QED
      BY <3>1, <3>3
  <2> QED
    BY <2>1, <2>2, <2>3, <2>4
<1> QED
  BY <1>0, <1>1, NothingListed, HistoryMoves

\* A turn that goes on keeps the history it has, takes the window of the cache
\* or the answer of the server.
LEMMA HistoryGoesOn ==
  ASSUME TurnsShaped, HistoryInv, NEW m \in Messages,
         Start(m) \/ CardRefused(m) \/ Lookup(m) \/ Fetched(m) \/ FetchFails(m)
  PROVE  HistoryInv'
<1> DEFINE c == turn[m]
           Has(r, payload, base) == Brings(r, payload, base, c.context)
<1>0. /\ log' \in Nat /\ CacheListed' /\ log \in Nat
      /\ Brings(c, c.payload, c.base, c.context) /\ HistoryListed(c)
  <2>1. log' = log /\ cache' = cache
    BY DEF Start, CardRefused, Lookup, Fetched, FetchFails, outside
  <2>2. Shaped(c) /\ HistoryListed(c)
    BY DEF TurnsShaped, HistoryInv
  <2> QED
    BY <2>1, <2>2, BringsTurn DEF HistoryInv, CacheListed
<1> HIDE DEF c
<1>1. \E r, payload, base :
        /\ Update(m, r) /\ Has(r, payload, base)
        /\ payload \in {c.payload, NewestOf(log)} /\ base \in {c.base, cache, Absent}
  <2>1. CASE Start(m)
    <3>1. Update(m, [c EXCEPT !.at = "refreshing"])
      BY <2>1 DEF Start, c
    <3>2. Has([c EXCEPT !.at = "refreshing"], c.payload, c.base)
      BY <1>0, BringsField, Zenon
    <3> HIDE DEF Has
    <3> QED
      BY <3>1, <3>2
  <2>2. CASE CardRefused(m)
    <3> DEFINE r == [[c EXCEPT !.at = "history"] EXCEPT !.ask = "reply"]
    <3>1. Update(m, r)
      BY <2>2 DEF CardRefused, c
    <3>2. Has(r, c.payload, c.base)
      BY <1>0, BringsField, Zenon
    <3> HIDE DEF Has, r
    <3> QED
      BY <3>1, <3>2
  <2>3. CASE Lookup(m)
    <3>1. PICK entry \in {cache, Absent} : Update(m, [[c EXCEPT !.base = entry] EXCEPT !.at = "fetching"])
      BY <2>3 DEF Lookup, Entries, c
    <3> DEFINE r == [[c EXCEPT !.base = entry] EXCEPT !.at = "fetching"]
    <3>2. Has(r, c.payload, entry)
      BY <1>0, BringsField, Zenon
    <3>3. Update(m, r)
      BY <3>1
    <3> HIDE DEF Has, r
    <3> QED
      BY <3>2, <3>3
  <2>4. CASE Fetched(m)
    <3> DEFINE r == [[c EXCEPT !.payload = NewestOf(log)] EXCEPT !.at = "merging"]
    <3>1. Update(m, r)
      BY <2>4 DEF Fetched, c
    <3>2. Has(r, NewestOf(log), c.base)
      BY <1>0, BringsField, Zenon
    <3> HIDE DEF Has, r
    <3> QED
      BY <3>1, <3>2
  <2>5. CASE FetchFails(m)
    <3>1. Update(m, [c EXCEPT !.base = Absent]) \/ Update(m, [c EXCEPT !.at = "ready"])
      BY <2>5 DEF FetchFails, c
    <3>2. /\ Has([c EXCEPT !.base = Absent], c.payload, Absent)
          /\ Has([c EXCEPT !.at = "ready"], c.payload, c.base)
      BY <1>0, BringsField, Zenon
    <3> HIDE DEF Has
    <3> QED
      BY <3>1, <3>2
  <2> QED
    BY <2>1, <2>2, <2>3, <2>4, <2>5
<1>2. PICK r, payload, base :
        /\ Update(m, r) /\ Has(r, payload, base)
        /\ payload \in {c.payload, NewestOf(log)} /\ base \in {c.base, cache, Absent}
  BY <1>1
<1>3. HistoryListed(r)
  <2>1. Listed(payload, Limit)
    BY <1>0, <1>2, NewestListed DEF HistoryListed
  <2>2. base = Absent \/ Listed(base, 2 * Limit)
    BY <1>0, <1>2 DEF HistoryListed, HistoryInv, CacheListed
  <2> QED
    BY <1>0, <1>2, <2>1, <2>2 DEF HistoryListed, Brings
<1> QED
  BY <1>0, <1>2, <1>3, HistoryMoves

\* A turn is served: the window becomes its history, and the cache's.
LEMMA HistoryServed ==
  ASSUME TurnsShaped, HistoryInv, NEW m \in Messages, Preloaded(m) \/ Merge(m)
  PROVE  HistoryInv'
<1> DEFINE c == turn[m]
<1>0. Shaped(c) /\ HistoryListed(c) /\ log \in Nat /\ CacheListed
  BY DEF TurnsShaped, HistoryInv
<1>1. PICK base : Served(m, base, c.payload) /\ (base = Absent \/ Listed(base, 2 * Limit))
  <2>1. CASE Preloaded(m)
    BY <1>0, <2>1 DEF Preloaded, Entries, CacheListed
  <2>2. CASE Merge(m)
    BY <1>0, <2>2 DEF Merge, HistoryListed
  <2> QED
    BY <2>1, <2>2
<1> DEFINE w == Window(base, c.payload)
<1>2. Listed(w, 2 * Limit)
  BY <1>0, <1>1, WindowListed DEF HistoryListed
<1> DEFINE a == [[c EXCEPT !.context = w] EXCEPT !.payload = <<>>]
           r == [[a EXCEPT !.base = Absent] EXCEPT !.at = "ready"]
<1>3. Update(m, r) /\ cache' \in {cache, w} /\ log' = log
  BY <1>1 DEF Served, outside
<1>4. Brings(r, <<>>, Absent, w)
  <2> HIDE DEF c, w
  <2>1. Brings(c, c.payload, c.base, c.context)
    BY <1>0, BringsTurn
  <2>2. Brings(a, <<>>, c.base, w)
    BY <2>1, BringsField, Zenon
  <2> HIDE DEF a
  <2> QED
    BY <2>2, BringsField, Zenon
<1> HIDE DEF w, r
<1>5. HistoryListed(r)
  <2>1. Limit \in Nat /\ 0 \in Nat
    BY TurnSetupAssumption
  <2>2. Listed(<<>>, Limit)
    BY <2>1, NewestListed
  <2> QED
    BY <1>2, <1>4, <2>2 DEF HistoryListed, Brings
<1>6. CacheListed'
  BY <1>0, <1>2, <1>3 DEF CacheListed
<1> QED
  BY <1>0, <1>3, <1>5, <1>6, HistoryMoves

\* A turn passes the gate, and may bring the newest messages with it.
LEMMA HistoryGated ==
  ASSUME TurnsShaped, HistoryInv, NEW m \in Messages, Gate(m)
  PROVE  HistoryInv'
<1>1. PICK ask, told, preloaded :
        LET mine == Delivered(m, ask, told, preloaded) IN
          /\ turn' = [u \in Messages |->
               IF u = m THEN mine
               ELSE IF Crosses(mine.perms, u) THEN [turn[u] EXCEPT !.crossed = TRUE] ELSE turn[u]]
          /\ UNCHANGED <<outside, cache>>
  BY DEF Gate
<1> DEFINE c == turn[m]
           mine == Delivered(m, ask, told, preloaded)
           n == IF preloaded THEN NewestOf(m) ELSE <<>>
<1>2. HistoryListed(mine)
  <2>1. Brings(c, c.payload, c.base, c.context) /\ HistoryListed(c)
    BY BringsTurn DEF TurnsShaped, HistoryInv
  <2> DEFINE p == IF told THEN c.perms ELSE Absent
             a == [[c EXCEPT !.at = NextStop(ask)] EXCEPT !.ask = ask]
             r == [[a EXCEPT !.perms = p] EXCEPT !.payload = n]
  <2>2. mine = r
    BY <2>1 DEF Delivered, Brings, Shaped
  <2> HIDE DEF c, p, n, mine
  <2>3. Brings(a, c.payload, c.base, c.context)
    BY <2>1, BringsField, Zenon
  <2> HIDE DEF a
  <2>4. Brings(r, n, c.base, c.context)
    BY <2>3, BringsField, Zenon
  <2>5. Listed(n, Limit)
    <3>1. m \in Nat /\ Limit \in Nat
      BY TurnSetupAssumption DEF Messages
    <3> QED
      BY <3>1, NewestListed DEF n
  <2> QED
    BY <2>1, <2>2, <2>4, <2>5 DEF HistoryListed, Brings
<1> HIDE DEF mine
<1>3. ASSUME NEW u \in Messages, u # m
      PROVE  HistoryListed(turn[u]) /\ HistoryListed([turn[u] EXCEPT !.crossed = TRUE])
  <2> DEFINE d == turn[u]
  <2>1. HistoryListed(d) /\ Brings(d, d.payload, d.base, d.context)
    BY BringsTurn DEF TurnsShaped, HistoryInv
  <2>2. Brings([d EXCEPT !.crossed = TRUE], d.payload, d.base, d.context)
    BY <2>1, BringsField, Zenon
  <2> QED
    BY <2>1, <2>2 DEF HistoryListed, Brings
<1>4. \A u \in Messages : HistoryListed(turn'[u])
  BY <1>1, <1>2, <1>3 DEF mine
<1>5. log' = log /\ cache' = cache
  BY <1>1 DEF outside
<1> QED
  BY <1>4, <1>5 DEF HistoryInv, HistoryListed, CacheListed

\* No message is twice in the history a turn is given, and neither the history
\* nor the cached window outgrows twice the limit.
THEOREM HistoryStaysBounded == Spec => []HistoryBounded
<1>1. HistoryInv /\ UNCHANGED setupVars => HistoryInv'
  BY DEF HistoryInv, HistoryListed, CacheListed, setupVars
<1>2. TurnsShaped /\ HistoryInv /\ SetupNext => HistoryInv'
  BY HistoryOutside, HistoryEnds, HistoryGoesOn, HistoryServed, HistoryGated DEF SetupNext
<1>3. SetupSpec => []TurnsShaped
  <2>1. SetupInv => TurnsShaped
    BY DEF SetupInv
  <2> QED
    BY <2>1, SetupHolds, PTL
<1>4. SetupSpec => []HistoryInv
  BY <1>1, <1>2, <1>3, HistoryStarts, PTL DEF SetupSpec
<1>5. HistoryInv => HistoryBounded
  <2>1. 2 * Limit \in Nat
    BY TurnSetupAssumption
  <2> QED
    BY <2>1, ListedCount DEF HistoryInv, HistoryListed, CacheListed, HistoryBounded, Listed
<1> QED
  BY <1>4, <1>5, PartSpecs, PTL

----------------------------------------------------------------------------
(* The toolkit.                                                            *)

Fetches ==
  [at : {"idle", "fetching", "ready"}, age : 0..SlowestFetch, answer : Catalogs \cup {{}, NoAnswer}]
InFlight == {t \in Turns : fetch[t].at = "fetching"}

\* The fast cadence is that of an empty toolkit; every fetch made at it but the
\* one that is refused is still in flight or has raised the streak.
CadenceKept ==
  /\ wait < RefreshTTL => loaded = Nothing /\ streak \in 1..MaxAttempts
  /\ loaded = Nothing /\ quick > 0 /\ streak <= MaxAttempts => quick + 1 <= streak + Cardinality(InFlight)
  /\ NoHammering

\* An answer that is not what the server has now was asked for before the
\* catalog changed; and a toolkit fetched long enough after the change is the
\* server's, unless a fetch is still in flight.
AnswersKept ==
  /\ \A t \in Turns : fetch[t].at # "fetching" => fetch[t].answer = NoAnswer
  /\ catalog = {} => loaded = Nothing /\ \A t \in Turns : fetch[t].answer \in {NoAnswer, {}}
  /\ \A t \in InFlight : fetch[t].answer \in {NoAnswer, catalog} \/ spoiled \/ settled <= fetch[t].age
  /\ ~spoiled /\ since < RefreshTTL /\ SlowestFetch + since < settled => UpToDate(loaded) \/ InFlight # {}

ToolkitInv == ToolkitTypeOK /\ CadenceKept /\ AnswersKept

\* The lesser of two numbers.
LEMMA LesserOf ==
  ASSUME NEW a \in Nat, NEW b \in Nat
  PROVE  Min({a, b}) = IF a <= b THEN a ELSE b
<1>1. \E x \in {a, b} : \A y \in {a, b} : x <= y
  OBVIOUS
<1>2. Min({a, b}) \in {a, b} /\ \A y \in {a, b} : Min({a, b}) <= y
  BY <1>1 DEF Min
<1> QED
  BY <1>2

\* The constants of the cadence.
LEMMA Cadence ==
  /\ RefreshTTL \in Nat \ {0} /\ RetryInterval \in Nat \ {0} /\ SlowestFetch \in Nat \ {0}
  /\ MaxAttempts \in Nat /\ MaxSeeds \in Nat /\ RetryInterval <= RefreshTTL
  /\ Horizon = SlowestFetch + RefreshTTL + 1 /\ Horizon \in Nat
  /\ Cardinality(Turns) \in Nat \ {0}
<1>1. Cardinality(Turns) \in Nat /\ Cardinality(Turns) # 0
  BY ToolkitAssumption, FS_CardinalityType, FS_EmptySet
<1> QED
  BY <1>1, ToolkitAssumption DEF Horizon

\* How many fetches are in flight.
LEMMA FlightCount ==
  /\ IsFiniteSet(InFlight) /\ Cardinality(InFlight) \in Nat /\ Cardinality(InFlight) <= Cardinality(Turns)
  /\ \A t \in InFlight : Cardinality(InFlight \ {t}) = Cardinality(InFlight) - 1
  /\ \A t \in Turns \ InFlight : /\ Cardinality(InFlight \cup {t}) = Cardinality(InFlight) + 1
                                 /\ Cardinality(InFlight) + 1 <= Cardinality(Turns)
<1>1. IsFiniteSet(InFlight) /\ Cardinality(InFlight) <= Cardinality(Turns)
  BY ToolkitAssumption, FS_Subset DEF InFlight
<1>2. Cardinality(InFlight) \in Nat
  BY <1>1, FS_CardinalityType
<1>3. \A t \in InFlight : Cardinality(InFlight \ {t}) = Cardinality(InFlight) - 1
  BY <1>1, FS_RemoveElement
<1>4. ASSUME NEW t \in Turns \ InFlight
      PROVE  /\ Cardinality(InFlight \cup {t}) = Cardinality(InFlight) + 1
             /\ Cardinality(InFlight) + 1 <= Cardinality(Turns)
  <2>1. Cardinality(InFlight \cup {t}) = Cardinality(InFlight) + 1
    BY <1>1, FS_AddElement
  <2>2. InFlight \cup {t} \subseteq Turns
    BY DEF InFlight
  <2>3. Cardinality(InFlight \cup {t}) <= Cardinality(Turns)
    BY <2>2, ToolkitAssumption, FS_Subset
  <2> QED
    BY <2>1, <2>3
<1> QED
  BY <1>1, <1>2, <1>3, <1>4

\* The two halves of a catalog are finite, and empty only together with it.
LEMMA Halves ==
  ASSUME NEW offer \in Catalogs \cup {{}}
  PROVE  /\ Local(offer) \in SUBSET UNION Catalogs /\ Hosted(offer) \in SUBSET ServerTools
         /\ offer \cap Presented \in SUBSET UNION Catalogs
         /\ offer = {} <=> (Local(offer) = {} /\ Hosted(offer) = {})
         /\ Cardinality(Hosted(offer)) = 0 <=> Hosted(offer) = {}
         /\ Local(offer) \ Presented = Local(offer)
         /\ (Local(offer) \cup (offer \cap Presented)) \ Presented = Local(offer)
<1>1. IsFiniteSet(offer)
  BY ToolkitAssumption, FS_EmptySet
<1>2. IsFiniteSet(Hosted(offer))
  BY <1>1, FS_Subset DEF Hosted
<1>3. Cardinality(Hosted(offer)) = 0 <=> Hosted(offer) = {}
  BY <1>2, FS_EmptySet
<1> QED
  BY <1>3, ToolkitAssumption DEF Local, Hosted

\* The empty toolkit.
LEMMA EmptyToolkit ==
  /\ Nothing = [local |-> {}, hosted |-> {}] /\ Nothing.local = {} /\ Nothing.hosted = {}
  /\ Cardinality({}) = 0
  BY FS_EmptySet DEF Nothing, Booted, Local, Hosted

\* Whatever is swapped in is no empty toolkit; one that is not empty stays; an
\* empty one is left alone by an empty answer only.
LEMMA Survives ==
  ASSUME NEW offer \in Catalogs \cup {{}}, loaded \in [local : SUBSET UNION Catalogs, hosted : SUBSET ServerTools]
  PROVE  /\ Swap(offer) => loaded' # Nothing
         /\ Unchanged(offer) => loaded # Nothing
<1>1. ASSUME Swap(offer) PROVE loaded' # Nothing
  <2>1. offer # {} /\ loaded' = [local |-> Local(offer), hosted |-> Hosted(offer)]
    BY <1>1 DEF Swap, Differs
  <2>2. loaded'.local = Local(offer) /\ loaded'.hosted = Hosted(offer)
    BY <2>1
  <2> QED
    BY <2>1, <2>2, Halves, EmptyToolkit
<1>2. ASSUME Unchanged(offer) PROVE loaded # Nothing
  <2> SUFFICES ASSUME loaded = Nothing PROVE FALSE
    OBVIOUS
  <2>1. offer # {} /\ Local(offer) = {} /\ Cardinality(Hosted(offer)) = 0
    BY <1>2, EmptyToolkit DEF Unchanged, Degraded, Differs
  <2> QED
    BY <2>1, Halves
<1> QED
  BY <1>1, <1>2

\* At the start nothing is in flight, at the slow cadence.
LEMMA ToolkitStarts == ToolkitInit => ToolkitInv
<1> SUFFICES ASSUME ToolkitInit PROVE ToolkitInv
  OBVIOUS
<1>1. \A offer \in Catalogs \cup {{}} : Booted(offer) \in [local : SUBSET UNION Catalogs, hosted : SUBSET ServerTools]
  BY Halves DEF Booted
<1>2. loaded \in [local : SUBSET UNION Catalogs, hosted : SUBSET ServerTools]
  BY <1>1 DEF ToolkitInit, Nothing
<1>3. \A t \in Turns : fetch[t] = Idle
  BY DEF ToolkitInit
<1>4. ToolkitTypeOK
  <2>1. Idle \in [at : {"idle", "fetching", "ready"}, age : 0..SlowestFetch, answer : Catalogs \cup {{}, NoAnswer}]
    BY Cadence DEF Idle
  <2>2. fetch \in [Turns -> [at : {"idle", "fetching", "ready"}, age : 0..SlowestFetch,
                             answer : Catalogs \cup {{}, NoAnswer}]]
    BY <2>1 DEF ToolkitInit
  <2>3. wait \in {RetryInterval, RefreshTTL} /\ quick \in Nat /\ since \in 0..RefreshTTL
    BY Cadence DEF ToolkitInit
  <2>4. seeds \in 0..MaxSeeds /\ settled \in 0..Horizon /\ streak \in 0..(MaxAttempts + 1)
    BY Cadence DEF ToolkitInit
  <2>5. spoiled \in BOOLEAN /\ catalog \in Catalogs \cup {{}}
    BY DEF ToolkitInit
  <2> QED
    BY <1>2, <2>2, <2>3, <2>4, <2>5 DEF ToolkitTypeOK
<1>5. CadenceKept
  BY Cadence DEF ToolkitInit, CadenceKept, NoHammering
<1>6. AnswersKept
  <2>1. InFlight = {}
    BY <1>3 DEF InFlight, Idle
  <2>2. catalog = {} => loaded = Nothing
    BY DEF ToolkitInit, Nothing
  <2> QED
    BY <1>3, <2>1, <2>2, Cadence DEF ToolkitInit, AnswersKept, Idle
<1> QED
  BY <1>4, <1>5, <1>6 DEF ToolkitInv

\* A fetch of one turn changes.
LEMMA FetchSet ==
  ASSUME ToolkitTypeOK, NEW t \in Turns, NEW r \in Fetches, fetch' = [fetch EXCEPT ![t] = r]
  PROVE  /\ fetch' \in [Turns -> Fetches]
         /\ \A u \in Turns : fetch'[u] = IF u = t THEN r ELSE fetch[u]
         /\ InFlight' = IF r.at = "fetching" THEN InFlight \cup {t} ELSE InFlight \ {t}
<1>1. fetch \in [Turns -> Fetches]
  BY DEF ToolkitTypeOK, Fetches
<1>2. /\ fetch' \in [Turns -> Fetches]
      /\ \A u \in Turns : fetch'[u] = IF u = t THEN r ELSE fetch[u]
  BY <1>1
<1>3. InFlight' = IF r.at = "fetching" THEN InFlight \cup {t} ELSE InFlight \ {t}
  BY <1>2 DEF InFlight
<1> QED
  BY <1>2, <1>3

\* The records of a fetch: what each step writes.
LEMMA FetchRecords ==
  ASSUME ToolkitTypeOK, NEW t \in Turns
  PROVE  /\ fetch[t] \in Fetches /\ fetch \in [Turns -> Fetches]
         /\ Idle \in Fetches /\ Idle.at = "idle" /\ Idle.age = 0 /\ Idle.answer = NoAnswer
         /\ \A a \in {"idle", "fetching", "ready"} :
              LET r == [fetch[t] EXCEPT !.at = a]
              IN  r \in Fetches /\ r.at = a /\ r.age = fetch[t].age /\ r.answer = fetch[t].answer
         /\ \A c \in Catalogs \cup {{}} :
              LET r == [fetch[t] EXCEPT !.answer = c]
              IN  r \in Fetches /\ r.at = fetch[t].at /\ r.age = fetch[t].age /\ r.answer = c
         /\ LET r == [Idle EXCEPT !.at = "ready"]
            IN  r \in Fetches /\ r.at = "ready" /\ r.age = 0 /\ r.answer = NoAnswer
<1>1. fetch[t] \in Fetches /\ fetch \in [Turns -> Fetches]
  BY DEF ToolkitTypeOK, Fetches
<1>2. Idle \in Fetches /\ Idle.at = "idle" /\ Idle.age = 0 /\ Idle.answer = NoAnswer
  BY Cadence DEF Idle, Fetches
<1>3. LET r == [Idle EXCEPT !.at = "ready"]
      IN  r \in Fetches /\ r.at = "ready" /\ r.age = 0 /\ r.answer = NoAnswer
  BY Cadence DEF Idle, Fetches
<1>4. ASSUME NEW a \in {"idle", "fetching", "ready"}
      PROVE  LET r == [fetch[t] EXCEPT !.at = a]
             IN  r \in Fetches /\ r.at = a /\ r.age = fetch[t].age /\ r.answer = fetch[t].answer
  BY <1>1 DEF Fetches
<1>5. ASSUME NEW c \in Catalogs \cup {{}}
      PROVE  LET r == [fetch[t] EXCEPT !.answer = c]
             IN  r \in Fetches /\ r.at = fetch[t].at /\ r.age = fetch[t].age /\ r.answer = c
  BY <1>1 DEF Fetches
<1> QED
  BY <1>1, <1>2, <1>3, <1>4, <1>5

\* The types without those of the fetches.
LEMMA TypesBut ==
  ASSUME fetch' \in [Turns -> Fetches], catalog' \in Catalogs \cup {{}},
         loaded' \in [local : SUBSET UNION Catalogs, hosted : SUBSET ServerTools],
         seeds' \in 0..MaxSeeds, settled' \in 0..Horizon, spoiled' \in BOOLEAN,
         since' \in 0..RefreshTTL, wait' \in {RetryInterval, RefreshTTL},
         streak' \in 0..(MaxAttempts + 1), quick' \in Nat
  PROVE  ToolkitTypeOK'
  BY DEF ToolkitTypeOK, Fetches

\* The server's catalog changes: no answer is of the new one, and nothing is due yet.
LEMMA SeedKeeps == ToolkitInv /\ Seed => ToolkitInv'
<1> SUFFICES ASSUME ToolkitInv, Seed PROVE ToolkitInv'
  OBVIOUS
<1> USE DEF ToolkitInv
<1>1. PICK offer \in Catalogs : /\ seeds < MaxSeeds /\ offer # catalog
                                /\ catalog' = offer /\ seeds' = seeds + 1 /\ settled' = 0 /\ spoiled' = FALSE
                                /\ UNCHANGED <<cadence, loaded, fetch>>
  BY DEF Seed
<1>2. UNCHANGED <<since, wait, streak, quick, loaded, fetch>> /\ catalog' # {}
  BY <1>1, ToolkitAssumption DEF cadence
<1>3. InFlight' = InFlight
  BY <1>2 DEF InFlight
<1>4. ToolkitTypeOK'
  <2>1. seeds' \in 0..MaxSeeds /\ settled' \in 0..Horizon
    BY <1>1, Cadence DEF ToolkitTypeOK
  <2> QED
    BY <1>1, <1>2, <2>1 DEF ToolkitTypeOK
<1>5. CadenceKept'
  BY <1>2, <1>3 DEF CadenceKept, NoHammering
<1>6. AnswersKept'
  <2>1. \A t \in InFlight : settled' <= fetch[t].age
    BY <1>1 DEF InFlight, ToolkitTypeOK
  <2>2. ~(SlowestFetch + since' < settled')
    BY <1>1, <1>2, Cadence DEF ToolkitTypeOK
  <2> QED
    BY <1>1, <1>2, <1>3, <2>1, <2>2 DEF AnswersKept
<1> QED
  BY <1>4, <1>5, <1>6

\* A tick: the answers in flight age as fast as the catalog settles.
LEMMA TickKeeps == ToolkitInv /\ Tick => ToolkitInv'
<1> SUFFICES ASSUME ToolkitInv, Tick PROVE ToolkitInv'
  OBVIOUS
<1> USE DEF ToolkitInv
<1>1. UNCHANGED <<catalog, seeds, spoiled, wait, streak, quick, loaded>>
  BY DEF Tick
<1>2. since' = (IF since + 1 <= RefreshTTL THEN since + 1 ELSE RefreshTTL)
  <2>1. since + 1 \in Nat /\ RefreshTTL \in Nat /\ since' = Min({since + 1, RefreshTTL})
    BY Cadence DEF Tick, ToolkitTypeOK
  <2> QED
    BY <2>1, LesserOf
<1>3. settled' = (IF settled + 1 <= Horizon THEN settled + 1 ELSE Horizon)
  BY LesserOf, Cadence DEF Tick, ToolkitTypeOK
<1>4. ASSUME NEW t \in Turns
      PROVE  /\ fetch'[t] \in Fetches /\ fetch'[t].at = fetch[t].at /\ fetch'[t].answer = fetch[t].answer
             /\ fetch[t].at = "fetching" => fetch'[t].age = fetch[t].age + 1
  <2>1. fetch[t] \in Fetches /\ fetch[t].age < SlowestFetch
    BY FetchRecords DEF Tick
  <2>2. fetch'[t] = IF fetch[t].at = "fetching" THEN [fetch[t] EXCEPT !.age = @ + 1] ELSE fetch[t]
    BY DEF Tick
  <2> QED
    BY <2>1, <2>2, Cadence DEF Fetches
<1>5. fetch' \in [Turns -> Fetches]
  BY <1>4 DEF Tick
<1>6. InFlight' = InFlight
  BY <1>4 DEF InFlight
<1>7. ToolkitTypeOK'
  <2>1. since' \in 0..RefreshTTL /\ settled' \in 0..Horizon
    BY <1>2, <1>3, Cadence DEF ToolkitTypeOK
  <2> QED
    BY <1>1, <1>5, <2>1, TypesBut DEF ToolkitTypeOK
<1>8. CadenceKept'
  BY <1>1, <1>6 DEF CadenceKept, NoHammering
<1>9. AnswersKept'
  <2>1. \A t \in Turns : fetch'[t].at # "fetching" => fetch'[t].answer = NoAnswer
    BY <1>4 DEF AnswersKept
  <2>2. catalog' = {} => loaded' = Nothing /\ \A t \in Turns : fetch'[t].answer \in {NoAnswer, {}}
    BY <1>1, <1>4 DEF AnswersKept
  <2>3. ASSUME NEW t \in InFlight
        PROVE  fetch'[t].answer \in {NoAnswer, catalog'} \/ spoiled' \/ settled' <= fetch'[t].age
    <3>1. t \in Turns /\ fetch[t].at = "fetching" /\ fetch[t].age \in Nat
      <4>1. t \in Turns /\ fetch[t].at = "fetching"
        BY DEF InFlight
      <4>2. fetch[t] \in Fetches
        BY <4>1, FetchRecords
      <4> QED
        BY <4>1, <4>2, Cadence DEF Fetches
    <3>2. fetch'[t].age = fetch[t].age + 1 /\ fetch'[t].answer = fetch[t].answer
      BY <1>4, <3>1
    <3>3. settled \in Nat /\ settled' <= settled + 1
      BY <1>3, Cadence DEF ToolkitTypeOK
    <3>4. fetch[t].answer \in {NoAnswer, catalog} \/ spoiled \/ settled <= fetch[t].age
      BY DEF AnswersKept
    <3>5. settled <= fetch[t].age => settled' <= fetch'[t].age
      BY <1>3, <3>1, <3>2, <3>3, Cadence
    <3> QED
      BY <1>1, <3>2, <3>4, <3>5
  <2>4. ~spoiled' /\ since' < RefreshTTL /\ SlowestFetch + since' < settled' => UpToDate(loaded') \/ InFlight' # {}
    <3>1. SUFFICES ASSUME ~spoiled', since' < RefreshTTL, SlowestFetch + since' < settled'
                   PROVE  UpToDate(loaded') \/ InFlight # {}
      BY <1>6
    <3>2. since < RefreshTTL /\ SlowestFetch + since < settled
      BY <1>2, <1>3, <3>1, Cadence DEF ToolkitTypeOK
    <3>3. UpToDate(loaded) \/ InFlight # {}
      BY <1>1, <3>1, <3>2 DEF AnswersKept
    <3> QED
      BY <1>1, <3>3
  <2>5. (UpToDate(loaded))' <=> UpToDate(loaded')
    BY <1>1 DEF UpToDate
  <2> QED
    BY <1>6, <2>1, <2>2, <2>3, <2>4, <2>5 DEF AnswersKept
<1> QED
  BY <1>7, <1>8, <1>9

\* A step of one turn, as far as all of them have it in common: what is written
\* of its fetch is a fetch, and the other fetches are left alone.
LEMMA PassKeeps ==
  ASSUME ToolkitInv, NEW t \in Turns, Pass(t) \/ Leave(t)
  PROVE  ToolkitInv' /\ InFlight' = InFlight
<1> USE DEF ToolkitInv
<1> DEFINE r == IF fetch[t].at = "idle" THEN [fetch[t] EXCEPT !.at = "ready"] ELSE Idle
<1>1. /\ fetch' = [fetch EXCEPT ![t] = r]
      /\ UNCHANGED <<server, cadence, loaded>> /\ fetch[t].at # "fetching"
  <2>1. CASE Pass(t)
    BY <2>1 DEF Pass
  <2>2. CASE Leave(t)
    BY <2>2 DEF Leave
  <2> QED
    BY <2>1, <2>2
<1>2. r \in Fetches /\ r.at # "fetching" /\ r.answer = NoAnswer
  BY <1>1, FetchRecords DEF AnswersKept
<1> HIDE DEF r
<1>3. UNCHANGED <<catalog, seeds, settled, spoiled, since, wait, streak, quick, loaded>>
  BY <1>1 DEF server, cadence
<1>4. /\ fetch' \in [Turns -> Fetches]
      /\ \A u \in Turns : fetch'[u] = IF u = t THEN r ELSE fetch[u]
      /\ InFlight' = InFlight
  <2>1. t \notin InFlight
    BY <1>1 DEF InFlight
  <2>2. /\ fetch' \in [Turns -> Fetches]
        /\ \A u \in Turns : fetch'[u] = IF u = t THEN r ELSE fetch[u]
        /\ InFlight' = IF r.at = "fetching" THEN InFlight \cup {t} ELSE InFlight \ {t}
    BY <1>1, <1>2, FetchSet
  <2> QED
    BY <1>2, <2>1, <2>2
<1>5. ToolkitTypeOK'
  BY <1>3, <1>4, TypesBut DEF ToolkitTypeOK
<1>6. CadenceKept'
  BY <1>3, <1>4 DEF CadenceKept, NoHammering
<1>7. AnswersKept'
  <2>1. \A u \in InFlight : fetch'[u] = fetch[u]
    BY <1>1, <1>4 DEF InFlight
  <2> QED
    BY <1>2, <1>3, <1>4, <2>1 DEF AnswersKept, UpToDate
<1> QED
  BY <1>4, <1>5, <1>6, <1>7

\* A fetch: one more is in flight, and at the fast cadence one more is counted.
LEMMA FetchKeeps ==
  ASSUME ToolkitInv, NEW t \in Turns, Fetch(t)
  PROVE  ToolkitInv'
<1> USE DEF ToolkitInv
<1> DEFINE r == [fetch[t] EXCEPT !.at = "fetching"]
<1>1. /\ fetch[t].at = "idle" /\ since' = 0 /\ fetch' = [fetch EXCEPT ![t] = r]
      /\ UNCHANGED <<catalog, seeds, settled, spoiled, wait, streak, loaded>>
  BY DEF Fetch, server
<1>2. r \in Fetches /\ r.at = "fetching" /\ r.answer = NoAnswer
  BY <1>1, FetchRecords DEF AnswersKept
<1> HIDE DEF r
<1>3. /\ fetch' \in [Turns -> Fetches]
      /\ \A u \in Turns : fetch'[u] = IF u = t THEN r ELSE fetch[u]
      /\ InFlight' = InFlight \cup {t}
  BY <1>1, <1>2, FetchSet
<1>4. /\ Cardinality(InFlight') = Cardinality(InFlight) + 1
      /\ Cardinality(InFlight) \in Nat /\ Cardinality(InFlight) + 1 <= Cardinality(Turns)
  BY <1>1, <1>3, FlightCount DEF InFlight
<1>5. quick' = IF wait < RefreshTTL /\ quick + 1 <= MaxAttempts + Cardinality(Turns) THEN quick + 1
               ELSE IF wait < RefreshTTL THEN MaxAttempts + Cardinality(Turns) ELSE quick
  <2>1. quick + 1 \in Nat /\ MaxAttempts + Cardinality(Turns) \in Nat
    BY Cadence DEF ToolkitTypeOK
  <2>2. quick' = IF wait < RefreshTTL THEN Min({quick + 1, MaxAttempts + Cardinality(Turns)}) ELSE quick
    BY DEF Fetch
  <2> QED
    BY <2>1, <2>2, LesserOf
<1>6. ToolkitTypeOK'
  <2>1. quick' \in Nat /\ since' \in 0..RefreshTTL
    BY <1>1, <1>5, Cadence DEF ToolkitTypeOK
  <2> QED
    BY <1>1, <1>3, <2>1, TypesBut DEF ToolkitTypeOK
<1>7. CadenceKept'
  <2>1. quick' = IF wait < RefreshTTL THEN quick + 1 ELSE quick
    BY <1>5, Cadence DEF ToolkitTypeOK, CadenceKept, NoHammering
  <2>2. streak \in Nat /\ quick \in Nat /\ MaxAttempts \in Nat /\ Cardinality(Turns) \in Nat
    BY Cadence DEF ToolkitTypeOK
  <2>3. loaded = Nothing /\ quick' > 0 /\ streak <= MaxAttempts =>
          quick' + 1 <= streak + Cardinality(InFlight) + 1
    BY <1>4, <2>1, <2>2, Cadence DEF CadenceKept
  <2>4. quick' < MaxAttempts + Cardinality(Turns)
    BY <1>4, <2>1, <2>2, Cadence DEF CadenceKept, NoHammering
  <2> QED
    BY <1>1, <1>4, <2>2, <2>3, <2>4 DEF CadenceKept, NoHammering
<1>8. AnswersKept'
  <2>1. \A u \in InFlight : fetch'[u] = fetch[u]
    BY <1>1, <1>3 DEF InFlight
  <2> QED
    BY <1>1, <1>2, <1>3, <2>1 DEF AnswersKept
<1> QED
  BY <1>6, <1>7, <1>8

\* The server's answer to a fetch is what it has, or nothing at all.
LEMMA AnswerKeeps ==
  ASSUME ToolkitInv, NEW t \in Turns, Answer(t) \/ Blank(t)
  PROVE  ToolkitInv'
<1> USE DEF ToolkitInv
<1> DEFINE c == IF Answer(t) THEN catalog ELSE {}
           r == [fetch[t] EXCEPT !.answer = c]
<1>1. /\ fetch' = [fetch EXCEPT ![t] = r] /\ fetch[t].at = "fetching"
      /\ UNCHANGED <<catalog, seeds, settled, since, wait, streak, quick, loaded>>
      /\ (spoiled' = spoiled /\ c = catalog) \/ (spoiled' = TRUE /\ c = {})
  <2>1. CASE Answer(t)
    BY <2>1 DEF Answer, server, cadence
  <2>2. CASE ~Answer(t) /\ Blank(t)
    BY <2>2 DEF Blank, cadence
  <2> QED
    BY <2>1, <2>2
<1>2. c \in Catalogs \cup {{}} /\ (catalog = {} => c = {})
  BY <1>1 DEF ToolkitTypeOK
<1> HIDE DEF c
<1>3. r \in Fetches /\ r.at = "fetching" /\ r.answer = c
  BY <1>1, <1>2, FetchRecords
<1> HIDE DEF r
<1>4. /\ fetch' \in [Turns -> Fetches]
      /\ \A u \in Turns : fetch'[u] = IF u = t THEN r ELSE fetch[u]
      /\ InFlight' = InFlight
  <2>1. t \in InFlight
    BY <1>1 DEF InFlight
  <2>2. /\ fetch' \in [Turns -> Fetches]
        /\ \A u \in Turns : fetch'[u] = IF u = t THEN r ELSE fetch[u]
        /\ InFlight' = IF r.at = "fetching" THEN InFlight \cup {t} ELSE InFlight \ {t}
    BY <1>1, <1>3, FetchSet
  <2> QED
    BY <1>3, <2>1, <2>2
<1>5. ToolkitTypeOK'
  <2>1. spoiled' \in BOOLEAN
    BY <1>1 DEF ToolkitTypeOK
  <2> QED
    BY <1>1, <1>4, <2>1, TypesBut DEF ToolkitTypeOK
<1>6. CadenceKept'
  BY <1>1, <1>4 DEF CadenceKept, NoHammering
<1>7. AnswersKept'
  <2>1. \A u \in Turns : fetch'[u].at # "fetching" => fetch'[u].answer = NoAnswer
    BY <1>3, <1>4 DEF AnswersKept
  <2>2. catalog' = {} => loaded' = Nothing /\ \A u \in Turns : fetch'[u].answer \in {NoAnswer, {}}
    BY <1>1, <1>2, <1>3, <1>4 DEF AnswersKept
  <2>3. \A u \in InFlight' : fetch'[u].answer \in {NoAnswer, catalog'} \/ spoiled' \/ settled' <= fetch'[u].age
    BY <1>1, <1>3, <1>4 DEF AnswersKept, InFlight
  <2>4. ~spoiled' /\ since' < RefreshTTL /\ SlowestFetch + since' < settled' =>
          UpToDate(loaded)' \/ InFlight' # {}
    BY <1>1, <1>4 DEF InFlight
  <2> QED
    BY <2>1, <2>2, <2>3, <2>4 DEF AnswersKept
<1> QED
  BY <1>5, <1>6, <1>7

\* A refused fetch is over, its turn too, and nobody counts it.
LEMMA RefusedKeeps ==
  ASSUME ToolkitInv, NEW t \in Turns, Refused(t)
  PROVE  ToolkitInv'
<1> USE DEF ToolkitInv
<1>1. /\ fetch' = [fetch EXCEPT ![t] = Idle] /\ spoiled' = TRUE /\ quick' = 0
      /\ UNCHANGED <<catalog, seeds, settled, since, wait, streak, loaded>>
  BY DEF Refused
<1>2. Idle \in Fetches /\ Idle.at = "idle" /\ Idle.answer = NoAnswer
  BY FetchRecords
<1>3. /\ fetch' \in [Turns -> Fetches]
      /\ \A u \in Turns : fetch'[u] = IF u = t THEN Idle ELSE fetch[u]
  BY <1>1, <1>2, FetchSet
<1>4. ToolkitTypeOK'
  BY <1>1, <1>3, TypesBut DEF ToolkitTypeOK
<1>5. CadenceKept'
  BY <1>1, Cadence DEF CadenceKept, NoHammering
<1>6. AnswersKept'
  BY <1>1, <1>2, <1>3 DEF AnswersKept
<1> QED
  BY <1>4, <1>5, <1>6

\* An answer that is what the server has now leaves the toolkit up to date.
LEMMA ApplyUpToDate ==
  ASSUME ToolkitInv, StillEmpty(catalog) \/ Unchanged(catalog) \/ Swap(catalog), catalog' = catalog
  PROVE  UpToDate(loaded)'
<1> USE DEF ToolkitInv
<1>1. catalog \in Catalogs \cup {{}}
  BY DEF ToolkitTypeOK
<1>2. CASE StillEmpty(catalog)
  <2>1. catalog = {} /\ loaded' = Nothing
    BY <1>2 DEF StillEmpty, Degraded
  <2> QED
    BY <1>1, <2>1, EmptyToolkit, Halves DEF UpToDate
<1>3. CASE Unchanged(catalog)
  <2>1. catalog # {} /\ ~Differs(catalog) /\ loaded' = loaded
    BY <1>3 DEF Unchanged, Degraded, AnswersKept
  <2>2. Local(catalog) = loaded.local /\ Cardinality(Hosted(catalog)) = Cardinality(loaded.hosted)
    BY <2>1 DEF Differs
  <2>3. Local(catalog) \ Presented = Local(catalog)
    BY <1>1, Halves
  <2> QED
    BY <2>1, <2>2, <2>3 DEF UpToDate
<1>4. CASE Swap(catalog)
  <2>1. loaded' = [local |-> Local(catalog), hosted |-> Hosted(catalog)]
    BY <1>4 DEF Swap
  <2>2. loaded'.local = Local(catalog) /\ loaded'.hosted = Hosted(catalog)
    BY <2>1
  <2>3. Local(catalog) \ Presented = Local(catalog)
    BY <1>1, Halves
  <2> QED
    BY <2>2, <2>3 DEF UpToDate
<1> QED
  BY <1>2, <1>3, <1>4

\* An answer to a fetch begun after the catalog last changed is the server's own.
LEMMA LateAnswer ==
  ASSUME ToolkitInv, NEW t \in Turns, fetch[t].at = "fetching", fetch[t].answer # NoAnswer,
         ~spoiled, SlowestFetch < settled
  PROVE  fetch[t].answer = catalog
<1>1. fetch[t].age \in 0..SlowestFetch /\ settled \in Nat
  BY FetchRecords, Cadence DEF ToolkitInv, ToolkitTypeOK, Fetches
<1>2. t \in InFlight
  BY DEF InFlight
<1>3. fetch[t].answer \in {NoAnswer, catalog} \/ spoiled \/ settled <= fetch[t].age
  BY <1>2 DEF ToolkitInv, AnswersKept
<1> QED
  BY <1>1, <1>3, Cadence

\* The answer is applied: the empty one counts against the fast cadence, any
\* other leaves it, and the fetch is no longer in flight.
LEMMA ApplyKeeps ==
  ASSUME ToolkitInv, NEW t \in Turns, Apply(t)
  PROVE  ToolkitInv'
<1> USE DEF ToolkitInv
<1> DEFINE offer == fetch[t].answer
           r == [Idle EXCEPT !.at = "ready"]
<1>1. /\ fetch[t].at = "fetching" /\ offer # NoAnswer /\ fetch' = [fetch EXCEPT ![t] = r]
      /\ StillEmpty(offer) \/ Unchanged(offer) \/ Swap(offer)
      /\ UNCHANGED <<catalog, seeds, settled, spoiled, since, quick>>
  BY DEF Apply, server
<1>2. r \in Fetches /\ r.at = "ready" /\ r.answer = NoAnswer
  BY FetchRecords
<1>3. offer \in Catalogs \cup {{}}
  BY <1>1, FetchRecords DEF Fetches
<1> HIDE DEF r
<1>4. /\ fetch' \in [Turns -> Fetches]
      /\ \A u \in Turns : fetch'[u] = IF u = t THEN r ELSE fetch[u]
      /\ InFlight' = InFlight \ {t}
  <2>1. InFlight' = IF r.at = "fetching" THEN InFlight \cup {t} ELSE InFlight \ {t}
    BY <1>1, <1>2, FetchSet
  <2> QED
    BY <1>1, <1>2, <2>1, FetchSet
<1>5. /\ Cardinality(InFlight') = Cardinality(InFlight) - 1 /\ Cardinality(InFlight) \in Nat
  BY <1>1, <1>4, FlightCount DEF InFlight
<1>6. /\ loaded \in [local : SUBSET UNION Catalogs, hosted : SUBSET ServerTools]
      /\ streak \in 0..(MaxAttempts + 1) /\ wait \in {RetryInterval, RefreshTTL} /\ quick \in Nat
      /\ MaxAttempts \in Nat
  BY Cadence DEF ToolkitTypeOK
<1>7. \/ /\ offer = {} /\ loaded = Nothing /\ loaded' = loaded
         /\ streak' = IF streak <= MaxAttempts THEN streak + 1 ELSE MaxAttempts + 1
         /\ wait' = IF streak + 1 <= MaxAttempts THEN RetryInterval ELSE RefreshTTL
      \/ /\ loaded' # Nothing /\ streak' = 0 /\ wait' = RefreshTTL
         /\ loaded' \in [local : SUBSET UNION Catalogs, hosted : SUBSET ServerTools]
  <2>1. CASE StillEmpty(offer)
    <3>1. streak' = Min({streak + 1, MaxAttempts + 1})
      BY <2>1 DEF StillEmpty, Escalate
    <3>2. streak + 1 \in Nat /\ MaxAttempts + 1 \in Nat
      BY <1>6
    <3>3. streak' = IF streak + 1 <= MaxAttempts + 1 THEN streak + 1 ELSE MaxAttempts + 1
      BY <3>1, <3>2, LesserOf
    <3> QED
      BY <2>1, <3>3, <1>6 DEF StillEmpty, Escalate, Degraded
  <2>2. CASE Unchanged(offer)
    BY <1>3, <1>6, <2>2, Survives DEF Unchanged, Relaxed
  <2>3. CASE Swap(offer)
    <3>1. loaded' = [local |-> Local(offer), hosted |-> Hosted(offer)]
      BY <2>3 DEF Swap
    <3>2. Local(offer) \in SUBSET UNION Catalogs /\ Hosted(offer) \in SUBSET ServerTools
      BY <1>3, Halves
    <3> QED
      BY <1>3, <1>6, <2>3, <3>1, <3>2, Survives DEF Swap, Relaxed
  <2> QED
    BY <1>1, <2>1, <2>2, <2>3
<1>8. ToolkitTypeOK'
  <2>1. /\ streak' \in 0..(MaxAttempts + 1) /\ wait' \in {RetryInterval, RefreshTTL}
        /\ loaded' \in [local : SUBSET UNION Catalogs, hosted : SUBSET ServerTools]
    BY <1>6, <1>7
  <2> QED
    BY <1>1, <1>4, <2>1, TypesBut DEF ToolkitTypeOK
<1>9. CadenceKept'
  <2>1. wait' < RefreshTTL => loaded' = Nothing /\ streak' \in 1..MaxAttempts
    BY <1>6, <1>7, Cadence
  <2>2. loaded' = Nothing /\ quick > 0 /\ streak' <= MaxAttempts =>
          quick + 1 <= streak' + Cardinality(InFlight')
    BY <1>5, <1>6, <1>7 DEF CadenceKept
  <2> QED
    BY <1>1, <2>1, <2>2 DEF CadenceKept, NoHammering
<1>10. AnswersKept'
  <2>1. \A u \in Turns : fetch'[u].at # "fetching" => fetch'[u].answer = NoAnswer
    BY <1>2, <1>4 DEF AnswersKept
  <2>2. catalog' = {} => loaded' = Nothing /\ \A u \in Turns : fetch'[u].answer \in {NoAnswer, {}}
    <3>1. SUFFICES ASSUME catalog = {}
                   PROVE  loaded' = Nothing /\ \A u \in Turns : fetch'[u].answer \in {NoAnswer, {}}
      BY <1>1
    <3>2. offer = {} /\ loaded = Nothing
      BY <1>1, <3>1 DEF AnswersKept
    <3>3. StillEmpty(offer)
      BY <1>1, <3>2 DEF Unchanged, Degraded, Swap, Differs
    <3> QED
      BY <1>2, <1>4, <3>1, <3>2, <3>3 DEF AnswersKept, StillEmpty
  <2>3. \A u \in InFlight' : fetch'[u].answer \in {NoAnswer, catalog'} \/ spoiled' \/ settled' <= fetch'[u].age
    <3>1. \A u \in InFlight' : u \in InFlight /\ fetch'[u] = fetch[u]
      BY <1>4 DEF InFlight
    <3> QED
      BY <1>1, <3>1 DEF AnswersKept
  <2>4. ~spoiled' /\ since' < RefreshTTL /\ SlowestFetch + since' < settled' =>
          UpToDate(loaded)' \/ InFlight' # {}
    <3>1. SUFFICES ASSUME ~spoiled, since < RefreshTTL, SlowestFetch + since < settled
                   PROVE  UpToDate(loaded)'
      BY <1>1
    <3>2. SlowestFetch < settled
      BY <3>1, Cadence DEF ToolkitTypeOK
    <3>3. offer = catalog
      BY <1>1, <3>1, <3>2, LateAnswer
    <3> QED
      BY <1>1, <3>3, ApplyUpToDate
  <2> QED
    BY <2>1, <2>2, <2>3, <2>4 DEF AnswersKept
<1> QED
  BY <1>8, <1>9, <1>10

\* Every step of the toolkit keeps what is known of it.
LEMMA ToolkitSteps == ToolkitInv /\ [ToolkitNext]_toolkitVars => ToolkitInv'
<1>1. ASSUME ToolkitInv, UNCHANGED toolkitVars PROVE ToolkitInv'
  <2>1. UNCHANGED <<catalog, seeds, settled, spoiled, since, wait, streak, quick, loaded, fetch>>
    BY <1>1 DEF toolkitVars, server, cadence
  <2> QED
    BY <1>1, <2>1 DEF ToolkitInv, ToolkitTypeOK, CadenceKept, NoHammering, AnswersKept, InFlight, UpToDate
<1>2. ASSUME ToolkitInv, NEW t \in Turns,
             Pass(t) \/ Fetch(t) \/ Answer(t) \/ Blank(t) \/ Refused(t) \/ Apply(t) \/ Leave(t)
      PROVE  ToolkitInv'
  BY <1>2, PassKeeps, FetchKeeps, AnswerKeeps, RefusedKeeps, ApplyKeeps
<1> QED
  BY <1>1, <1>2, SeedKeeps, TickKeeps DEF ToolkitNext

\* Everything that is known of the toolkit holds at all times.
LEMMA ToolkitHolds == Spec => []ToolkitInv
<1>1. ToolkitSpec => []ToolkitInv
  BY ToolkitStarts, ToolkitSteps, PTL DEF ToolkitSpec
<1> QED
  BY <1>1, PartSpecs, PTL

\* The types of the toolkit, and the bound on how often an agent without tools
\* asks for some: the fast cadence is left after MaxAttempts fetches, and those
\* that are still unanswered by then (agent_bridge.py:3307).
THEOREM FastCadenceEnds == Spec => []CadenceExact
<1>1. ToolkitInv => CadenceExact
  BY DEF ToolkitInv, CadenceKept, CadenceExact
<1> QED
  BY <1>1, ToolkitHolds, PTL

\* A turn that leaves the refresh and did not fetch: its toolkit is the
\* server's, or somebody's fetch is in flight.
LEMMA PassesUpToDate ==
  ASSUME ToolkitInv, NEW t \in Turns, Pass(t), settled = Horizon, ~spoiled
  PROVE  UpToDate(loaded)' \/ \E u \in Turns \ {t} : fetch[u].at = "fetching"
<1>1. since < RefreshTTL /\ SlowestFetch + since < settled
  <2>1. since < wait /\ wait <= RefreshTTL
    BY Cadence DEF Pass, Due, ToolkitInv, ToolkitTypeOK
  <2> QED
    BY <2>1, Cadence DEF ToolkitInv, ToolkitTypeOK
<1>2. UpToDate(loaded) \/ InFlight # {}
  BY <1>1 DEF ToolkitInv, AnswersKept
<1>3. UNCHANGED <<catalog, loaded>> /\ t \notin InFlight
  BY DEF Pass, server, InFlight
<1> QED
  BY <1>2, <1>3 DEF InFlight, UpToDate

\* What a turn leaves the refresh with: a toolkit that works is never replaced
\* by an empty one, and what the server has had for the slowest fetch and one
\* refresh period is what the turn gets, or somebody's fetch is still in
\* flight or has failed (agent_bridge.py:3275, 4219).
THEOREM ToolkitStaysGood == Spec => ToolkitKept
<1>1. ToolkitInv /\ [ToolkitNext]_toolkitVars => [loaded # Nothing => loaded' # Nothing]_toolkitVars
  <2>1. SUFFICES ASSUME ToolkitInv, ToolkitNext, loaded # Nothing PROVE loaded' # Nothing
    OBVIOUS
  <2>2. loaded \in [local : SUBSET UNION Catalogs, hosted : SUBSET ServerTools]
    BY <2>1 DEF ToolkitInv, ToolkitTypeOK
  <2>3. ASSUME NEW t \in Turns, Apply(t) PROVE loaded' # Nothing
    <3>1. fetch[t].answer \in Catalogs \cup {{}}
      BY <2>1, <2>3, FetchRecords DEF Apply, Fetches, ToolkitInv
    <3> QED
      BY <2>1, <2>2, <2>3, <3>1, Survives DEF Apply, StillEmpty, Unchanged
  <2>4. ASSUME UNCHANGED loaded PROVE loaded' # Nothing
    BY <2>1, <2>4
  <2> QED
    BY <2>1, <2>3, <2>4 DEF ToolkitNext, Seed, Tick, Pass, Fetch, Answer, Blank, Refused, Leave
<1>2. ToolkitInv /\ [ToolkitNext]_toolkitVars =>
        [\A t \in Turns :
           (fetch'[t].at = "ready" /\ fetch[t].at # "ready" /\ settled = Horizon /\ ~spoiled) =>
             UpToDate(loaded') \/ \E u \in Turns \ {t} : fetch[u].at = "fetching"]_toolkitVars
  <2>1. SUFFICES ASSUME ToolkitInv, ToolkitNext, NEW t \in Turns, settled = Horizon, ~spoiled,
                        fetch'[t].at = "ready", fetch[t].at # "ready"
                 PROVE  UpToDate(loaded') \/ \E u \in Turns \ {t} : fetch[u].at = "fetching"
    OBVIOUS
  <2>2. Pass(t) \/ Apply(t)
    <3>1. ToolkitTypeOK
      BY <2>1 DEF ToolkitInv
    <3>2. ~Seed
      BY <2>1 DEF Seed
    <3>3. ~Tick
      <4>1. SUFFICES ASSUME Tick PROVE FALSE
        OBVIOUS
      <4>2. fetch'[t] = IF fetch[t].at = "fetching" THEN [fetch[t] EXCEPT !.age = @ + 1] ELSE fetch[t]
        BY <4>1 DEF Tick
      <4>3. fetch[t] \in Fetches
        BY <3>1, FetchRecords
      <4> QED
        BY <2>1, <4>2, <4>3 DEF Fetches
    <3>4. ASSUME NEW u \in Turns, u # t, Pass(u) \/ Fetch(u) \/ Answer(u) \/ Blank(u) \/ Refused(u) \/ Apply(u) \/ Leave(u)
          PROVE  FALSE
      <4>1. fetch \in [Turns -> Fetches]
        BY <3>1, FetchRecords
      <4>2. fetch'[t] = fetch[t]
        BY <3>4, <4>1 DEF Pass, Fetch, Answer, Blank, Refused, Apply, Leave
      <4> QED
        BY <2>1, <4>2
    <3>5. ASSUME Fetch(t) \/ Answer(t) \/ Blank(t) \/ Refused(t) \/ Leave(t) PROVE FALSE
      <4>1. /\ fetch \in [Turns -> Fetches] /\ fetch[t] \in Fetches
            /\ Idle.at = "idle" /\ [fetch[t] EXCEPT !.at = "fetching"].at = "fetching"
            /\ [fetch[t] EXCEPT !.answer = catalog].at = fetch[t].at
            /\ [fetch[t] EXCEPT !.answer = {}].at = fetch[t].at
        <5>1. catalog \in Catalogs \cup {{}} /\ {} \in Catalogs \cup {{}}
          BY <3>1 DEF ToolkitTypeOK
        <5> QED
          BY <3>1, <5>1, FetchRecords, Zenon
      <4> QED
        BY <2>1, <3>5, <4>1 DEF Fetch, Answer, Blank, Refused, Leave
    <3> QED
      BY <2>1, <3>2, <3>3, <3>4, <3>5 DEF ToolkitNext
  <2>3. CASE Pass(t)
    <3>1. UNCHANGED <<catalog, loaded>>
      BY <2>3 DEF Pass, server
    <3> QED
      BY <2>1, <2>3, <3>1, PassesUpToDate DEF UpToDate
  <2>4. CASE Apply(t)
    <3>1. fetch[t].answer = catalog
      <4>1. SlowestFetch < settled
        BY <2>1, Cadence
      <4> QED
        BY <2>1, <2>4, <4>1, LateAnswer DEF Apply
    <3>2. catalog' = catalog
      BY <2>4 DEF Apply, server
    <3>3. UpToDate(loaded)'
      BY <2>1, <2>4, <3>1, <3>2, ApplyUpToDate DEF Apply
    <3> QED
      BY <3>2, <3>3 DEF UpToDate
  <2> QED
    BY <2>2, <2>3, <2>4
<1>3. ToolkitSpec => [][ToolkitNext]_toolkitVars
  BY PTL DEF ToolkitSpec
<1> QED
  BY <1>1, <1>2, <1>3, ToolkitHolds, PartSpecs, PTL DEF ToolkitKept, ToolkitSurvives, StaleOnlyBehindAFetch
=============================================================================
