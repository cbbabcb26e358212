------------------------------ MODULE TurnSetup ------------------------------
(***************************************************************************)
(* How handle_message (agent_bridge.py) brings a turn from its delivery to *)
(* the model call: the server's directives decide whether there is a call  *)
(* at all, per-turn settings are written to the one backend object that    *)
(* every turn of the process shares, and the conversation's history comes  *)
(* from a cached window (_cached_get_messages) that concurrent turns read  *)
(* before an await and write after it.  A message is its number in the     *)
(* conversation.                                                           *)
(***************************************************************************)
EXTENDS Naturals, Sequences, FiniteSets, SequencesExt

CONSTANTS
  MaxLog,          \* bound: messages of the conversation
  Limit,           \* history_limit
  MaxConcurrent,   \* handlers at once
  MaxToggles,      \* bound: changes of the agent's setting by its owner
  Operator,        \* --dangerously-skip-permissions was given
  Absent           \* a directive that is not there, a window that is not cached

ASSUME TurnSetupAssumption ==
  /\ {MaxLog, Limit, MaxConcurrent} \subseteq Nat \ {0} /\ MaxToggles \in Nat
  /\ Operator \in BOOLEAN /\ Absent \notin BOOLEAN

VARIABLES
  log,        \* the conversation has the messages 1..log
  setting,    \* the owner's dangerouslySkipPermissions
  toggles,
  backend,    \* _skip_permissions of the backend object
  cache,      \* the conversation's entry of _conv_message_cache
  turn        \* of a message: the turn it triggers

setupVars == <<log, setting, toggles, backend, cache, turn>>
outside == <<log, setting, toggles>>

Messages == 1..MaxLog

\* the newest messages of the conversation, oldest first
NewestOf(n) == [i \in 1..(IF n < Limit THEN n ELSE Limit) |->
                  IF n < Limit THEN i ELSE n - Limit + i]

\* what the directives of a turn ask for
Asks == {"reply", "no_prompt", "skip", "cta", "task_card"}

\* what a turn has in hand until it is over, as far as it is still used;
\* payload: recent_messages of the delivery, then the answer of get_messages;
\* base: the window read before the await; crossed: another turn has written
\* another setting meanwhile
NoTurn == [at |-> "none", ask |-> "reply", perms |-> Absent, payload |-> <<>>,
           base |-> Absent, context |-> <<>>, card |-> FALSE, crossed |-> FALSE,
           used |-> Absent]

SetupInit ==
  /\ log = 0 /\ setting \in BOOLEAN /\ toggles = 0
  /\ backend \in (IF Operator THEN {TRUE} ELSE BOOLEAN)
  /\ cache = Absent
  /\ turn = [m \in Messages |-> NoTurn]

Update(m, record) == turn' = [turn EXCEPT ![m] = record]

-----------------------------------------------------------------------------
\* what happens outside: messages that do not wake the agent, and the owner
Chatter ==
  /\ log < MaxLog /\ log' = log + 1
  /\ UNCHANGED <<setting, toggles, backend, cache, turn>>

Toggle ==
  /\ toggles < MaxToggles /\ toggles' = toggles + 1 /\ setting' = ~setting
  /\ UNCHANGED <<log, backend, cache, turn>>

\* a message reaches the agent, with the setting of now in its directives
Deliver ==
  /\ log < MaxLog /\ log' = log + 1
  /\ Update(log + 1, [NoTurn EXCEPT !.at = "waiting", !.perms = setting])
  /\ UNCHANGED <<setting, toggles, backend, cache>>

\* another conversation is stored while the cache is full
Evict ==
  /\ cache # Absent /\ cache' = Absent
  /\ UNCHANGED <<outside, backend, turn>>

-----------------------------------------------------------------------------
Active(m) == turn[m].at \notin {"none", "waiting", "over"}
Running == {m \in Messages : Active(m)}

Start(m) ==
  /\ turn[m].at = "waiting" /\ Cardinality(Running) < MaxConcurrent
  /\ Update(m, [turn[m] EXCEPT !.at = "refreshing"])
  /\ UNCHANGED <<outside, backend, cache>>

\* the toolkit refresh raises an AuthError
RefreshFails(m) ==
  /\ turn[m].at = "refreshing"
  /\ Update(m, [NoTurn EXCEPT !.at = "raised"])
  /\ UNCHANGED <<outside, backend, cache>>

\* _skip_directives_unavailable
NoPrompt(m) ==
  /\ turn[m].at = "refreshing"
  /\ Update(m, [NoTurn EXCEPT !.at = "skipped", !.ask = "no_prompt"])
  /\ UNCHANGED <<outside, backend, cache>>

\* _sync_skip_permissions; _sync_computer_use and _sync_prompt_cache do the
\* same to other fields of the backend
SyncedOff(perms) == IF Operator THEN backend ELSE IF perms = Absent THEN FALSE ELSE perms

Synced(perms) == IF Operator \/ perms = Absent THEN backend ELSE perms

Gated == {"creating", "history", "fetching", "merging", "ready"}

Crosses(perms, u) ==
  turn[u].at \in Gated /\ turn[u].perms # Absent /\ perms \notin {Absent, turn[u].perms}

\* where the directives send a turn
NextStop(ask) == CASE ask = "skip" -> "skipped" [] ask = "cta" -> "acting"
                   [] ask = "task_card" -> "creating" [] OTHER -> "history"

\* what the delivery of m has brought: the directives may not name the setting,
\* and a message may come with the newest messages of then
Delivered(m, ask, told, preloaded) ==
  [turn[m] EXCEPT !.at = NextStop(ask), !.ask = ask, !.perms = IF told THEN @ ELSE Absent,
                  !.payload = IF preloaded THEN NewestOf(m) ELSE <<>>]

\* one region without an await: the directives are read, the settings written
Gate(m) == \E ask \in Asks \ {"no_prompt"}, told \in BOOLEAN, preloaded \in BOOLEAN :
  LET mine == Delivered(m, ask, told, preloaded) IN
    /\ turn[m].at = "refreshing"
    /\ ask \notin {"reply", "task_card"} => told /\ ~preloaded
    /\ backend' = Synced(mine.perms)
    /\ turn' = [u \in Messages |->
         IF u = m THEN mine
         ELSE IF Crosses(mine.perms, u) THEN [turn[u] EXCEPT !.crossed = TRUE] ELSE turn[u]]
    /\ UNCHANGED <<outside, cache>>

\* _handle_cta_action: the draft is sent or saved, and the reply says so or why not
Act(m) ==
  /\ turn[m].at = "acting"
  /\ Update(m, [NoTurn EXCEPT !.at = "acted"])
  /\ UNCHANGED <<outside, backend, cache>>

\* MessageTriage: a card is created and is the answer; refused as a duplicate,
\* or lost to an error the card may have survived, the turn goes on
CardMade(m) ==
  /\ turn[m].at = "creating"
  /\ Update(m, [NoTurn EXCEPT !.at = "carded", !.card = TRUE])
  /\ UNCHANGED <<outside, backend, cache>>

CardRefusedReturns(m) ==
  /\ turn[m].at = "creating"
  /\ Update(m, [NoTurn EXCEPT !.at = "carded"])
  /\ UNCHANGED <<outside, backend, cache>>

CardRefused(m) ==
  /\ turn[m].at = "creating"
  /\ Update(m, [turn[m] EXCEPT !.at = "history", !.ask = "reply"])
  /\ UNCHANGED <<outside, backend, cache>>

-----------------------------------------------------------------------------
Trimmed(window) ==
  IF Len(window) > 2 * Limit THEN SubSeq(window, Len(window) - Limit + 1, Len(window)) ELSE window

\* the messages of the answer that the window lacks, in their order
Fresh(base, payload) ==
  LET kept[i \in 0..Len(payload)] ==
        IF i = 0 THEN <<>>
        ELSE IF payload[i] \in ToSet(base) THEN kept[i - 1] ELSE Append(kept[i - 1], payload[i])
  IN  kept[Len(payload)]

\* the newest messages appended to the window, or a new window
Window(base, payload) ==
  IF base = Absent THEN payload ELSE Trimmed(base \o Fresh(base, payload))

ServedOnTop(m, base, payload) ==
  LET window == IF base = Absent \/ cache = Absent THEN payload
                ELSE Trimmed(cache \o Fresh(base, payload)) IN
    /\ cache' = IF base # Absent /\ Fresh(base, payload) = <<>> THEN cache ELSE window
    /\ Update(m, [turn[m] EXCEPT !.context = window, !.payload = <<>>, !.base = Absent,
                                 !.at = "ready"])
    /\ UNCHANGED <<outside, backend>>

\* a window without news is given out, and left in the cache, as it is
Served(m, base, payload) ==
  LET window == Window(base, payload) IN
    /\ cache' = IF base # Absent /\ Fresh(base, payload) = <<>> THEN cache ELSE window
    /\ Update(m, [turn[m] EXCEPT !.context = window, !.payload = <<>>, !.base = Absent,
                                 !.at = "ready"])
    /\ UNCHANGED <<outside, backend>>

\* _cached_get_messages: an entry past its time counts as none
Entries == {cache, Absent}

Preloaded(m) == \E entry \in Entries :
  turn[m].at = "history" /\ turn[m].payload # <<>> /\ Served(m, entry, turn[m].payload)

Lookup(m) == \E entry \in Entries :
  /\ turn[m].at = "history" /\ turn[m].payload = <<>>
  /\ Update(m, [turn[m] EXCEPT !.base = entry, !.at = "fetching"])
  /\ UNCHANGED <<outside, backend, cache>>

\* the server answers get_messages; the answer is on its way
Fetched(m) ==
  /\ turn[m].at = "fetching"
  /\ Update(m, [turn[m] EXCEPT !.payload = NewestOf(log), !.at = "merging"])
  /\ UNCHANGED <<outside, backend, cache>>

Merge(m) == turn[m].at = "merging" /\ Served(m, turn[m].base, turn[m].payload)

\* a window that cannot be extended is fetched anew; that failing too, the
\* turn goes on without a history
FetchFails(m) ==
  /\ turn[m].at = "fetching"
  /\ Update(m, IF turn[m].base # Absent THEN [turn[m] EXCEPT !.base = Absent]
               ELSE [turn[m] EXCEPT !.at = "ready"])
  /\ UNCHANGED <<outside, backend, cache>>

-----------------------------------------------------------------------------
\* the model call: the backend builds its command from its fields
Call(m) ==
  /\ turn[m].at = "ready"
  /\ Update(m, [NoTurn EXCEPT !.at = "called", !.used = backend,
                             !.perms = turn[m].perms, !.crossed = turn[m].crossed])
  /\ UNCHANGED <<outside, backend, cache>>

Ended == {"skipped", "raised", "acted", "carded", "called"}

Return(m) ==
  /\ turn[m].at \in Ended
  /\ Update(m, [NoTurn EXCEPT !.at = "over"])
  /\ UNCHANGED <<outside, backend, cache>>

SetupNext ==
  \/ Chatter \/ Toggle \/ Deliver \/ Evict
  \/ \E m \in Messages :
       \/ Start(m) \/ RefreshFails(m) \/ NoPrompt(m) \/ Gate(m) \/ Act(m) \/ CardMade(m) \/ CardRefused(m)
       \/ Preloaded(m) \/ Lookup(m) \/ Fetched(m) \/ FetchFails(m) \/ Merge(m)
       \/ Call(m) \/ Return(m)

SetupSpec == SetupInit /\ [][SetupNext]_setupVars

-----------------------------------------------------------------------------
(* No message is twice in the history a turn is given, and neither the       *)
(* history nor the cached window outgrows 2 * limit, although a turn extends *)
(* the window it read before the await and overwrites what others stored     *)
(* meanwhile (_cached_get_messages, agent_bridge.py:1939).                   *)
HistoryBounded ==
  /\ \A m \in Messages :
       /\ Len(turn[m].context) = Cardinality(ToSet(turn[m].context))
       /\ Len(turn[m].context) <= 2 * Limit
  /\ cache # Absent => Len(cache) <= 2 * Limit

(* A turn runs with the setting its directives carry, unless another turn    *)
(* wrote another one between its own write and its model call; the operator's *)
(* flag is never undone, and directives without the setting change nothing   *)
(* (_sync_skip_permissions, agent_bridge.py:4341).                           *)
DirectedUnlessCrossed ==
  /\ Operator => backend
  /\ \A m \in Messages : turn[m].at = "called" =>
       turn[m].used = turn[m].perms \/ Operator \/ turn[m].perms = Absent \/ turn[m].crossed

(* A turn ends without a word only when the server said so, or when a task   *)
(* card stands for the answer: a card that was refused or lost to an error   *)
(* never silences the agent (MessageTriage, agent_bridge.py:5020).           *)
SilentOnlyIfTold ==
  \A m \in Messages : turn[m].at \in {"skipped", "carded"} =>
    turn[m].ask \in {"no_prompt", "skip"} \/ turn[m].card

(* A turn does what its directives say, the setting and the silence alike.   *)
TurnAsDirected == DirectedUnlessCrossed /\ SilentOnlyIfTold
=============================================================================
