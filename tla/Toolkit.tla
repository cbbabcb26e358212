------------------------------- MODULE Toolkit -------------------------------
(***************************************************************************)
(* The toolkit of a bridge process and how it is kept up to date: every    *)
(* turn passes _maybe_refresh_resolved_tools (agent_bridge.py), which       *)
(* fetches the agent's profile when the last fetch was stamped long enough *)
(* ago.  The stamp is set before the fetch, so a turn may pass while       *)
(* another's fetch is in flight, and a fetch slower than the cadence is    *)
(* overtaken by the next one.  Time is counted in ticks.                   *)
(***************************************************************************)
EXTENDS Naturals, FiniteSets, FiniteSetsExt

CONSTANTS
  Turns,            \* the turns running at once
  Catalogs,         \* the non-empty resolvedTools the server may come to send
  ServerTools,      \* the tools of category "server_tool"
  Presented,        \* those this backend cannot attach and the bridge dispatches itself
  RefreshTTL,       \* _TOOLS_REFRESH_TTL
  RetryInterval,    \* _DEGRADED_RETRY_INTERVAL
  MaxAttempts,      \* _DEGRADED_ESCALATION_ATTEMPTS
  SlowestFetch,     \* bound: ticks a fetch may take, its token exchange included
  MaxSeeds,         \* bound: changes of the server's catalog
  NoAnswer

ASSUME ToolkitAssumption ==
  /\ IsFiniteSet(Turns) /\ Turns # {} /\ \A tools \in Catalogs : tools # {} /\ IsFiniteSet(tools)
  /\ NoAnswer \notin Catalogs \cup {{}}
  /\ Presented \subseteq ServerTools
  /\ {RefreshTTL, RetryInterval, SlowestFetch} \subseteq Nat \ {0}
  /\ RetryInterval <= RefreshTTL
  /\ {MaxAttempts, MaxSeeds} \subseteq Nat

VARIABLES
  catalog,    \* the server's resolvedTools
  seeds,      \* how often the server's catalog changed
  settled,    \* ticks since it last changed, up to Horizon
  spoiled,    \* a fetch of this catalog came back empty
  loaded,     \* [local: resolved_tools, hosted: server_tools]
  since,      \* ticks since _tools_refreshed_at, up to RefreshTTL
  wait,       \* _next_refresh_after
  streak,     \* _degraded_streak, up to MaxAttempts + 1
  quick,      \* fetches made at the fast cadence since the boot or a refusal
  fetch       \* of a turn: where its refresh stands, its age, the server's answer

server == <<catalog, seeds, settled, spoiled>>
cadence == <<since, wait, streak, quick>>
toolkitVars == <<server, cadence, loaded, fetch>>

Local(tools)  == tools \ ServerTools
Hosted(tools) == tools \cap ServerTools
Booted(tools) == [local |-> Local(tools) \cup (tools \cap Presented), hosted |-> Hosted(tools)]
Nothing == Booted({})
Idle == [at |-> "idle", age |-> 0, answer |-> NoAnswer]

\* after this long every fetch begun before the change is over and a later one is due
Horizon == SlowestFetch + RefreshTTL + 1

ToolkitInit ==
  /\ catalog \in Catalogs \cup {{}} /\ seeds = 0 /\ settled = 0 /\ spoiled = FALSE
  /\ loaded \in {Nothing, Booted(catalog)}
  /\ since = 0 /\ wait = RefreshTTL /\ streak = 0 /\ quick = 0
  /\ fetch = [t \in Turns |-> Idle]

\* the server's catalog changes: a tool is seeded, granted or revoked
Seed == \E tools \in Catalogs :
  /\ seeds < MaxSeeds /\ tools # catalog
  /\ catalog' = tools /\ seeds' = seeds + 1 /\ settled' = 0 /\ spoiled' = FALSE
  /\ UNCHANGED <<cadence, loaded, fetch>>

Tick ==
  /\ \A t \in Turns : fetch[t].age < SlowestFetch
  /\ since' = Min({since + 1, RefreshTTL}) /\ settled' = Min({settled + 1, Horizon})
  /\ fetch' = [t \in Turns |-> IF fetch[t].at = "fetching"
                               THEN [fetch[t] EXCEPT !.age = @ + 1] ELSE fetch[t]]
  /\ UNCHANGED <<catalog, seeds, spoiled, wait, streak, quick, loaded>>

-----------------------------------------------------------------------------
Due == since >= wait

\* a turn begins: it goes on with the toolkit there is, or fetches first
Pass(t) ==
  /\ fetch[t].at = "idle" /\ ~Due
  /\ fetch' = [fetch EXCEPT ![t].at = "ready"]
  /\ UNCHANGED <<server, cadence, loaded>>

Fetch(t) ==
  /\ fetch[t].at = "idle" /\ Due
  /\ since' = 0
  /\ quick' = IF wait < RefreshTTL THEN Min({quick + 1, MaxAttempts + Cardinality(Turns)}) ELSE quick
  /\ fetch' = [fetch EXCEPT ![t].at = "fetching"]
  /\ UNCHANGED <<server, wait, streak, loaded>>

\* the server answers; the answer is on its way, and the catalog may change behind it
Answer(t) ==
  /\ fetch[t].at = "fetching" /\ fetch[t].answer = NoAnswer
  /\ fetch' = [fetch EXCEPT ![t].answer = catalog]
  /\ UNCHANGED <<server, cadence, loaded>>

\* _fetch_profile turns every failure but a refused credential into None
Blank(t) ==
  /\ fetch[t].at = "fetching" /\ fetch[t].answer = NoAnswer
  /\ fetch' = [fetch EXCEPT ![t].answer = {}]
  /\ spoiled' = TRUE
  /\ UNCHANGED <<catalog, seeds, settled, cadence, loaded>>

\* an AuthError, which a token exchange that times out raises too, ends the turn
Refused(t) ==
  /\ fetch[t].at = "fetching" /\ fetch[t].answer = NoAnswer
  /\ fetch' = [fetch EXCEPT ![t] = Idle] /\ spoiled' = TRUE /\ quick' = 0
  /\ UNCHANGED <<catalog, seeds, settled, since, wait, streak, loaded>>

-----------------------------------------------------------------------------
Degraded == loaded = Nothing

DiffersInNumber(tools) ==
  /\ tools # {}
  /\ \/ Cardinality(Local(tools)) # Cardinality(loaded.local)
     \/ Cardinality(Hosted(tools)) # Cardinality(loaded.hosted)

\* _diff_resolved_toolkit: is there anything to swap in?
Differs(tools) ==
  /\ tools # {}
  /\ \/ Local(tools) # loaded.local
     \/ Cardinality(Hosted(tools)) # Cardinality(loaded.hosted)

\* _degraded_refresh_state of a toolkit that is empty and stays so
EscalateLate ==
  /\ streak' = Min({streak + 1, MaxAttempts + 1})
  /\ wait' = IF streak <= MaxAttempts THEN RetryInterval ELSE RefreshTTL

Escalate ==
  /\ streak' = Min({streak + 1, MaxAttempts + 1})
  /\ wait' = IF streak + 1 <= MaxAttempts THEN RetryInterval ELSE RefreshTTL

StillEmpty(tools) ==
  /\ tools = {} /\ Degraded
  /\ Escalate /\ UNCHANGED loaded

Relaxed == streak' = 0 /\ wait' = RefreshTTL

Unchanged(tools) ==
  /\ ~(tools = {} /\ Degraded) /\ ~Differs(tools)
  /\ Relaxed /\ UNCHANGED loaded

Swap(tools) ==
  /\ Differs(tools)
  /\ Relaxed
  /\ loaded' = [local |-> Local(tools), hosted |-> Hosted(tools)]

Apply(t) ==
  /\ fetch[t].at = "fetching" /\ fetch[t].answer # NoAnswer
  /\ LET tools == fetch[t].answer IN StillEmpty(tools) \/ Unchanged(tools) \/ Swap(tools)
  /\ fetch' = [fetch EXCEPT ![t] = [Idle EXCEPT !.at = "ready"]]
  /\ UNCHANGED <<server, since, quick>>

Leave(t) ==
  /\ fetch[t].at = "ready"
  /\ fetch' = [fetch EXCEPT ![t] = Idle]
  /\ UNCHANGED <<server, cadence, loaded>>

ToolkitNext ==
  \/ Seed \/ Tick
  \/ \E t \in Turns : Pass(t) \/ Fetch(t) \/ Answer(t) \/ Blank(t) \/ Refused(t) \/ Apply(t) \/ Leave(t)

ToolkitSpec == ToolkitInit /\ [][ToolkitNext]_toolkitVars

-----------------------------------------------------------------------------
ToolkitTypeOK ==
  /\ catalog \in Catalogs \cup {{}}
  /\ loaded \in [local : SUBSET UNION Catalogs, hosted : SUBSET ServerTools]
  /\ seeds \in 0..MaxSeeds /\ settled \in 0..Horizon /\ spoiled \in BOOLEAN
  /\ since \in 0..RefreshTTL /\ wait \in {RetryInterval, RefreshTTL}
  /\ streak \in 0..(MaxAttempts + 1) /\ quick \in Nat
  /\ fetch \in [Turns -> [at : {"idle", "fetching", "ready"}, age : 0..SlowestFetch,
                          answer : Catalogs \cup {{}, NoAnswer}]]

UpToDate(toolkit) ==
  /\ toolkit.local \ Presented = Local(catalog)
  /\ Cardinality(toolkit.hosted) = Cardinality(Hosted(catalog))

(* A turn leaves the refresh with the tools the server has had for a while.  *)
(* The only other way is to pass while somebody's fetch is still in flight,  *)
(* or after a fetch that failed: fetches that overtake each other may load   *)
(* an older answer over a newer one, and still nothing stays stale for       *)
(* longer than the slowest fetch and one refresh period                      *)
(* (_maybe_refresh_resolved_tools, agent_bridge.py:4219).                    *)
StaleOnlyBehindAFetch ==
  [][\A t \in Turns :
       (fetch'[t].at = "ready" /\ fetch[t].at # "ready" /\ settled = Horizon /\ ~spoiled) =>
         UpToDate(loaded') \/ \E u \in Turns \ {t} : fetch[u].at = "fetching"]_toolkitVars

(* A toolkit that works is never replaced by an empty one, whatever a fetch  *)
(* brings and however late it comes (agent_bridge.py:3275).                  *)
ToolkitSurvives == [][loaded # Nothing => loaded' # Nothing]_toolkitVars

(* What a turn leaves the refresh with is as good as the server's answers    *)
(* allow: never emptied, and stale only behind a fetch.                      *)
ToolkitKept == ToolkitSurvives /\ StaleOnlyBehindAFetch

(* A refreshed toolkit is wired exactly as one present at boot, the server    *)
(* tools the bridge dispatches itself included; it is not                    *)
(* (agent_bridge.py:4303).                                                   *)
WiredAsAtBoot == loaded \in {Booted(tools) : tools \in Catalogs \cup {{}}}

(* A server that has no tools for the agent is not hammered: the fast        *)
(* cadence is left after MaxAttempts attempts, and the attempts that are     *)
(* still unanswered by then, one of each other turn; only a refused fetch is *)
(* counted by nobody (agent_bridge.py:3307).                                 *)
NoHammering == quick < MaxAttempts + Cardinality(Turns)

(* The types of the state, with the cadence.                                 *)
CadenceExact == ToolkitTypeOK /\ NoHammering
=============================================================================
