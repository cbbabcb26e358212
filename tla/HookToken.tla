------------------------------- MODULE HookToken -------------------------------
(***************************************************************************)
(* The agent token that the hooks, heartbeats and pollers of a machine     *)
(* share in hook-token.json (agntchat_hook.py).  The file holds one entry, *)
(* for one key; a process that finds no fresh token exchanges its key for  *)
(* one, and writes the outcome over whatever is in the file by then: it    *)
(* truncates the file first, which reads as an empty entry until the new   *)
(* one is in it.  Ages and the doubling of the back-off are left to the    *)
(* environment.                                                            *)
(***************************************************************************)
CONSTANTS
  Callers,   \* processes
  Keys,      \* API keys: the user rotates them
  NoKey      \* the key of an entry that an older copy of the program wrote

ASSUME HookTokenAssumption == NoKey \notin Keys

VARIABLES
  tokenCache,     \* hook-token.json: a key, whether there is a token, whether a failure
  caller     \* of a process: where it stands, its key, the entry it read before
             \* its exchange and the one it writes after it, whether it saw a usable
             \* token, whether it was rejected

tokenVars == <<tokenCache, caller>>

Entry(key, token, failed) == [key |-> key, token |-> token, failed |-> failed]
NoEntry == Entry(NoKey, FALSE, FALSE)
Asleep(key) ==
  [at |-> "asleep", key |-> key, read |-> NoEntry, entry |-> NoEntry, held |-> FALSE, again |-> FALSE]

TokenInit ==
  /\ tokenCache \in {NoEntry, Entry(NoKey, TRUE, FALSE)}
  /\ caller \in [Callers -> {Asleep(k) : k \in Keys}]

Becomes(p, record) == caller' = [caller EXCEPT ![p] = record]
Sleeps(p) == Becomes(p, Asleep(caller[p].key))

\* a process that starts from now on has the new key
Rotates(p, key) ==
  /\ caller[p].at = "asleep" /\ caller[p].key # key
  /\ Becomes(p, Asleep(key))
  /\ UNCHANGED tokenCache

-----------------------------------------------------------------------------
Usable(p) == tokenCache.token /\ tokenCache.key \in {caller[p].key, NoKey}

\* _token: a token that is fresh enough is taken ...
TakesCached(p) ==
  /\ caller[p].at = "asleep" /\ Usable(p)
  /\ Becomes(p, [caller[p] EXCEPT !.at = "sending"])
  /\ UNCHANGED tokenCache

\* ... and otherwise, or when the server rejected it, exchanged
WantsFresh(p) ==
  /\ caller[p].at \in {"asleep", "rejected"}
  /\ Becomes(p, [caller[p] EXCEPT !.at = "reading", !.held = Usable(p), !.again = caller[p].at = "rejected"])
  /\ UNCHANGED tokenCache

\* without a new token the one it saw has to do
SendsNext(p) == Becomes(p, [caller[p] EXCEPT !.at = "sending", !.read = NoEntry, !.entry = NoEntry])
MakesDo(p) == IF caller[p].held THEN SendsNext(p) ELSE Sleeps(p)

\* _in_backoff: a failure of this key cools down
BacksOff(p) ==
  /\ caller[p].at = "reading" /\ tokenCache.failed /\ tokenCache.key = caller[p].key
  /\ MakesDo(p)
  /\ UNCHANGED tokenCache

\* _exchange_token: the file is read, and the server asked for up to 25 seconds
Exchanges(p) ==
  /\ caller[p].at = "reading"
  /\ Becomes(p, [caller[p] EXCEPT !.at = "asking", !.read = tokenCache])
  /\ UNCHANGED tokenCache

\* _write_token_cache truncates the file ...
Empties(p, new) ==
  /\ tokenCache' = NoEntry
  /\ Becomes(p, [caller[p] EXCEPT !.at = "writing", !.entry = new])

Obtains(p) ==
  /\ caller[p].at = "asking"
  /\ Empties(p, Entry(caller[p].key, TRUE, FALSE))

FailureAlone(p) == Entry(caller[p].key, FALSE, TRUE)

\* a token this key already had is kept
Failure(p) ==
  LET read == caller[p].read IN Entry(caller[p].key, read.key = caller[p].key /\ read.token, TRUE)

Fails(p) ==
  /\ caller[p].at = "asking"
  /\ Empties(p, Failure(p))

\* ... and writes it, or cannot; over what another wrote meanwhile, the longer
\* of the two leaves a tail with which nothing parses
Writes(p) ==
  /\ caller[p].at = "writing"
  /\ \/ tokenCache' = caller[p].entry
     \/ tokenCache # NoEntry /\ tokenCache' = NoEntry
     \/ UNCHANGED tokenCache
  /\ IF caller[p].entry.failed THEN MakesDo(p) ELSE SendsNext(p)

\* it is killed, in between too, and another process starts
Dies(p) ==
  /\ caller[p].at # "asleep"
  /\ Sleeps(p)
  /\ UNCHANGED tokenCache

\* _api: a rejected token is exchanged once
Sends(p) ==
  /\ caller[p].at = "sending"
  /\ \/ Sleeps(p)
     \/ ~caller[p].again /\ Becomes(p, [caller[p] EXCEPT !.at = "rejected", !.held = FALSE])
  /\ UNCHANGED tokenCache

TokenNext == \E p \in Callers :
  \/ \E key \in Keys : Rotates(p, key)
  \/ TakesCached(p) \/ WantsFresh(p) \/ BacksOff(p) \/ Exchanges(p) \/ Obtains(p) \/ Fails(p)
  \/ Writes(p) \/ Dies(p) \/ Sends(p)

TokenSpec == TokenInit /\ [][TokenNext]_tokenVars

-----------------------------------------------------------------------------
Known(key) ==
  \/ tokenCache.token /\ tokenCache.key = key
  \/ \E p \in Callers : caller[p].at = "writing" /\ caller[p].entry.token /\ caller[p].entry.key = key

\* a process had read the token before its exchange
Knew(p, key) == caller[p].read.token /\ caller[p].read.key = key

(* The token of a key goes from the machine, which has it in the file or in  *)
(* the hands of a process that is writing it there, only in an exchange or   *)
(* the write of a process with another key, or of one that had read the file *)
(* when the token was not in it, or else in a write that failed, was cut off *)
(* or met another one: the failure of one that knew the token does not take  *)
(* it away (agntchat_hook.py:252, 310).                                      *)
TokenKept ==
  [][\A key \in Keys : Known(key) /\ ~Known(key)' =>
       \E p \in Callers :
         /\ caller[p].at \in {"asking", "writing"} /\ caller'[p].at # caller[p].at
         /\ \/ caller[p].key # key \/ ~Knew(p, key)
            \/ caller[p].at = "writing" /\ tokenCache' # caller[p].entry]_tokenVars
=============================================================================
