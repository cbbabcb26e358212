--------------------------- MODULE SdkClientProofs ---------------------------
(***************************************************************************)
(* Proofs about the SDK client: for any number of conversations, joins,    *)
(* lost sockets and errors.                                                *)
(***************************************************************************)
EXTENDS SdkClient, TLAPS

\* Where the heartbeat of the transport is, it has attempts left; the socket
\* that is not closed has its receive loop.
TransportKept ==
  /\ TransportTypeOK /\ (pinger = "pausing" => tries < Tries)
  /\ Connected => reader

\* The types of the flags and of the server; a process that has not exited has
\* credentials to try once more.
ClientTyped ==
  /\ pc \in [Callers -> {"off", "start", "opening", "user", "listing", "convs", "trust",
                         "done", "failed", "wait", "backoff", "closing", "ended", "joining"}]
  /\ todo \in [{Boot, Loop} -> SUBSET Convs] /\ at \in [Callers -> Convs \cup {NoConv}]
  /\ members \subseteq Convs /\ news \subseteq members
FlagsTyped ==
  /\ signal \in {"none", "clear", "set"} /\ connected \in BOOLEAN /\ exited \in BOOLEAN
  /\ quit \in {"no", "closing", "done"} /\ errors \in 0..MaxErrors
  /\ strikes \in 0..GiveUp /\ (~exited => strikes < GiveUp)
SetsTyped ==
  joined \subseteq Convs /\ missed \subseteq Convs /\ chans \subseteq Convs \cup {User}

\* The stages each coroutine goes through; the loop comes after connect().
Staged ==
  /\ pc[Boot] \in {"opening", "user", "listing", "convs", "trust", "done", "failed"}
  /\ pc[Loop] \in {"off", "start", "wait", "backoff", "closing", "opening", "user", "listing",
                   "convs", "trust", "ended"}
  /\ pc[Boot] # "done" => pc[Loop] = "off" /\ quit = "no"
  /\ quit # "no" => pc[Loop] = "ended"
  /\ \A a \in Spawned : pc[a] \in {"off", "start", "joining"} /\ (pc[a] # "off" => at[a] \in Convs)
  /\ \A x \in {Boot, Loop} : pc[x] = "convs" => at[x] \in Convs

\* Who has called is at a join, but for the loop that disconnect() has cancelled;
\* while the socket is replaced no reply of the old one is left to be taken.
CallsKept ==
  /\ NoOrphanCall
  /\ \A a \in Spawned : call[a] # "idle" => pc[a] = "joining"
  /\ call[Boot] # "idle" => pc[Boot] \in {"user", "convs"}
  /\ call[Loop] # "idle" /\ quit = "no" => pc[Loop] \in {"user", "convs"}
  /\ quit # "no" => ~reader
  /\ pc[Boot] = "opening" => ~reader /\ \A a \in Spawned : pc[a] = "off"
  /\ pc[Loop] \in {"closing", "opening"} => ~reader /\ \A a \in Spawned : call[a] # "replied"

\* A reply that is still to be taken, on a live socket, is for a joined channel.
JoinsKept ==
  /\ JoinedIsLive
  /\ "opening" \in {pc[Boot], pc[Loop]} => joined = {}
  /\ ws = "open" =>
       \A c \in Callers \ {Ping} : call[c] = "replied" =>
         /\ pc[c] \in {"convs", "joining"} => at[c] \in chans
         /\ pc[c] = "user" => User \in chans

\* The client is past the join of the user channel; past the listing.
Listening(stages) == pc[Boot] \in stages \/ (pc[Boot] = "done" /\ pc[Loop] \in stages \cup {"start", "wait"})

\* A conversation is about to be joined, by whom.
Coming(c) ==
  \/ \E x \in {Boot, Loop} : pc[x] = "convs" /\ (at[x] = c \/ c \in todo[x])
  \/ \E a \in Spawned : at[a] = c /\ (pc[a] = "start" \/ (pc[a] = "joining" /\ call[a] # "cancelled"))

\* Past the listing each conversation is joined, given up, announced or coming.
AllHeard ==
  ws = "open" =>
    /\ Listening({"listing", "convs", "trust"}) => User \in chans
    /\ Listening({"convs", "trust"}) =>
         \A c \in members : c \in joined \cup missed \cup news \/ Coming(c)

SdkInv ==
  /\ TransportKept /\ ClientTyped /\ FlagsTyped /\ SetsTyped
  /\ Staged /\ CallsKept /\ JoinsKept /\ AllHeard

\* Before connect().
LEMMA SdkStarts == Init => SdkInv
<1> SUFFICES ASSUME Init PROVE SdkInv
  OBVIOUS
<1> USE SdkAssumption, TransportAssumption DEF Init, TransportInit
<1>1. TransportKept
  <2>1. tries \in 0..Tries /\ faults \in 0..MaxFaults
    OBVIOUS
  <2>2. reader \in BOOLEAN
    OBVIOUS
  <2> QED
    BY <2>1, <2>2 DEF TransportKept, TransportTypeOK, Calls, Connected
<1>2. ClientTyped
  BY DEF ClientTyped
<1>3. FlagsTyped /\ SetsTyped
  <2>1. strikes \in 0..GiveUp /\ strikes < GiveUp /\ errors \in 0..MaxErrors
    OBVIOUS
  <2>2. connected \in BOOLEAN /\ exited \in BOOLEAN
    OBVIOUS
  <2> QED
    BY <2>1, <2>2 DEF FlagsTyped, SetsTyped
<1>4. Staged
  BY DEF Staged
<1>5. CallsKept
  BY DEF CallsKept, NoOrphanCall
<1>6. JoinsKept /\ AllHeard
  BY DEF JoinsKept, JoinedIsLive, AllHeard
<1> QED
  BY <1>1, <1>2, <1>3, <1>4, <1>5, <1>6 DEF SdkInv

\* Every step of the network, the server and the client keeps the invariant.
LEMMA SdkSteps == SdkInv /\ [Next]_vars => SdkInv'
<1> SUFFICES ASSUME SdkInv, [Next]_vars PROVE SdkInv'
  OBVIOUS
<1> USE SdkAssumption, TransportAssumption DEF SdkInv, client, flags, server, transport
<1>1. ASSUME Fault PROVE SdkInv'
  <2>1. TransportKept'
    BY <1>1 DEF Fault, PeerCloses, GoesMute, TransportKept, TransportTypeOK, Connected
  <2>2. ClientTyped'
    BY <1>1 DEF Fault, ClientTyped
  <2>3. SetsTyped'
    BY <1>1 DEF Fault, SetsTyped
  <2>4. JoinsKept'
    BY <1>1 DEF Fault, PeerCloses, GoesMute, JoinsKept, JoinedIsLive
  <2>5. AllHeard'
    BY <1>1 DEF Fault, PeerCloses, GoesMute, AllHeard
  <2>6. FlagsTyped' /\ Staged' /\ CallsKept'
    BY <1>1 DEF Fault, PeerCloses, GoesMute, FlagsTyped, Staged, CallsKept, NoOrphanCall
  <2> QED
    BY <2>1, <2>2, <2>3, <2>4, <2>5, <2>6
<1>2. ASSUME NEW c \in Callers, Answer(c) PROVE SdkInv'
  <2>1. TransportKept'
    BY <1>2 DEF Answer, Answered, TransportKept, TransportTypeOK, Calls
  <2>2. SetsTyped'
    BY <1>2 DEF Answer, Answered, Topic, SetsTyped, Staged, CallsKept
  <2>3. CallsKept'
    BY <1>2 DEF Answer, Answered, CallsKept, NoOrphanCall
  <2>4. JoinsKept'
    BY <1>2 DEF Answer, Answered, Topic, JoinsKept, JoinedIsLive
  <2>5. AllHeard'
    BY <1>2 DEF Answer, Answered, AllHeard, Listening, Coming
  <2>6. ClientTyped' /\ FlagsTyped' /\ Staged'
    BY <1>2 DEF Answer, ClientTyped, FlagsTyped, Staged
  <2> QED
    BY <2>1, <2>2, <2>3, <2>4, <2>5, <2>6
<1>3. ASSUME NEW c \in Callers, Timeout(c) PROVE SdkInv'
  <2>1. TransportKept'
    BY <1>3 DEF Timeout, TimedOut, TransportKept, TransportTypeOK, Calls, Connected
  <2>2. FlagsTyped'
    BY <1>3 DEF Timeout, FlagsTyped
  <2>3. SetsTyped'
    BY <1>3 DEF Timeout, TimedOut, Topic, SetsTyped, Staged, CallsKept, TransportKept, Connected
  <2>4. CallsKept'
    BY <1>3 DEF Timeout, TimedOut, CallsKept, NoOrphanCall
  <2>5. JoinsKept'
    BY <1>3 DEF Timeout, TimedOut, JoinsKept, JoinedIsLive
  <2>6. AllHeard'
    BY <1>3 DEF Timeout, TimedOut, AllHeard, Listening, Coming
  <2>7. ClientTyped' /\ Staged'
    BY <1>3 DEF Timeout, ClientTyped, Staged
  <2> QED
    BY <2>1, <2>2, <2>3, <2>4, <2>5, <2>6, <2>7
<1>4. ASSUME NEW c \in Convs, NewConversation(c) PROVE SdkInv'
  <2>1. ClientTyped'
    BY <1>4 DEF NewConversation, ClientTyped
  <2>2. AllHeard'
    BY <1>4 DEF NewConversation, AllHeard, Listening, Coming
  <2>3. TransportKept' /\ FlagsTyped' /\ SetsTyped' /\ Staged' /\ CallsKept' /\ JoinsKept'
    BY <1>4 DEF NewConversation, TransportKept, TransportTypeOK, Connected, FlagsTyped, SetsTyped,
       Staged, CallsKept, NoOrphanCall, JoinsKept, JoinedIsLive
  <2> QED
    BY <2>1, <2>2, <2>3
<1>5. ASSUME NEW c \in Convs, NEW a \in Spawned, Announced(a, c) PROVE SdkInv'
  <2>1. ClientTyped'
    BY <1>5 DEF Announced, ClientTyped
  <2>2. Staged'
    BY <1>5 DEF Announced, Staged, ClientTyped
  <2>3. CallsKept'
    BY <1>5 DEF Announced, CallsKept, NoOrphanCall
  <2>4. JoinsKept'
    BY <1>5 DEF Announced, JoinsKept, JoinedIsLive
  <2>5. AllHeard'
    BY <1>5 DEF Announced, AllHeard, Listening, Coming, ClientTyped
  <2>6. TransportKept' /\ FlagsTyped' /\ SetsTyped'
    BY <1>5 DEF Announced, TransportKept, TransportTypeOK, FlagsTyped, SetsTyped
  <2> QED
    BY <2>1, <2>2, <2>3, <2>4, <2>5, <2>6
<1>6. ASSUME Disconnected PROVE SdkInv'
  <2>1. TransportKept'
    BY <1>6 DEF Disconnected, ReaderEnds, CancelPending, TransportKept, TransportTypeOK, Calls,
       Connected
  <2>2. FlagsTyped'
    BY <1>6 DEF Disconnected, FlagsTyped
  <2>3. CallsKept'
    BY <1>6 DEF Disconnected, ReaderEnds, CancelPending, CallsKept, NoOrphanCall
  <2>4. JoinsKept'
    BY <1>6 DEF Disconnected, ReaderEnds, JoinsKept, JoinedIsLive
  <2>5. AllHeard'
    BY <1>6 DEF Disconnected, ReaderEnds, AllHeard
  <2>6. ClientTyped' /\ SetsTyped' /\ Staged'
    BY <1>6 DEF Disconnected, ClientTyped, SetsTyped, Staged
  <2> QED
    BY <2>1, <2>2, <2>3, <2>4, <2>5, <2>6
<1>7. ASSUME Pings PROVE SdkInv'
  <2>1. TransportKept'
    BY <1>7 DEF Pings, PingStep, PingWakes, PingAnswered, PingFails, PingCancelled, PingRetries,
       ForceClose, Ask, Sent, Settled, TransportKept, TransportTypeOK, Calls, Connected
  <2>2. CallsKept'
    BY <1>7 DEF Pings, PingStep, PingWakes, PingAnswered, PingFails, PingCancelled, PingRetries,
       ForceClose, Ask, Sent, Settled, CallsKept, NoOrphanCall, TransportKept, TransportTypeOK
  <2>3. JoinsKept'
    BY <1>7 DEF Pings, PingStep, PingWakes, PingAnswered, PingFails, PingCancelled, PingRetries,
       ForceClose, Ask, Settled, JoinsKept, JoinedIsLive, TransportKept, TransportTypeOK
  <2>4. AllHeard'
    BY <1>7 DEF Pings, PingStep, PingWakes, PingAnswered, PingFails, PingCancelled, PingRetries,
       ForceClose, Ask, Settled, AllHeard, Listening, Coming, TransportKept, TransportTypeOK
  <2>5. ClientTyped' /\ FlagsTyped' /\ SetsTyped' /\ Staged'
    BY <1>7 DEF Pings, ClientTyped, FlagsTyped, SetsTyped, Staged
  <2> QED
    BY <2>1, <2>2, <2>3, <2>4, <2>5
<1>8. ASSUME NEW x \in {Boot, Loop}, Opened(x) PROVE SdkInv'
  <2>1. TransportKept'
    BY <1>8 DEF Opened, Opens, TransportKept, TransportTypeOK, Calls
  <2>2. ClientTyped'
    BY <1>8 DEF Opened, ClientTyped
  <2>3. FlagsTyped'
    BY <1>8 DEF Opened, FlagsTyped
  <2>4. SetsTyped'
    BY <1>8 DEF Opened, SetsTyped
  <2>5. Staged'
    BY <1>8 DEF Opened, Staged
  <2>6. CallsKept'
    BY <1>8 DEF Opened, Opens, CallsKept, NoOrphanCall, Staged, ClientTyped
  <2>7. JoinsKept'
    BY <1>8 DEF Opened, JoinsKept, JoinedIsLive, CallsKept, Staged
  <2>8. AllHeard'
    BY <1>8 DEF Opened, AllHeard, Listening, Staged
  <2> QED
    BY <2>1, <2>2, <2>3, <2>4, <2>5, <2>6, <2>7, <2>8
<1>9. ASSUME NEW x \in {Boot, Loop}, NEW auth \in BOOLEAN, OpenFails(x, auth) PROVE SdkInv'
  <2>1. ClientTyped'
    BY <1>9 DEF OpenFails, FailedAs, ClientTyped
  <2>2. FlagsTyped'
    BY <1>9 DEF OpenFails, FlagsTyped, Running
  <2>3. Staged'
    BY <1>9 DEF OpenFails, FailedAs, Staged
  <2>4. CallsKept'
    BY <1>9 DEF OpenFails, CallsKept, NoOrphanCall
  <2>5. JoinsKept'
    BY <1>9 DEF OpenFails, JoinsKept, JoinedIsLive, CallsKept, TransportKept, Connected
  <2>6. AllHeard'
    BY <1>9 DEF OpenFails, AllHeard, CallsKept, TransportKept, Connected
  <2>7. TransportKept' /\ SetsTyped'
    BY <1>9 DEF OpenFails, TransportKept, TransportTypeOK, Connected, SetsTyped
  <2> QED
    BY <2>1, <2>2, <2>3, <2>4, <2>5, <2>6, <2>7
<1>10. ASSUME NEW x \in {Boot, Loop}, UserJoined(x) PROVE SdkInv'
  <2>1. TransportKept'
    BY <1>10 DEF UserJoined, Settled, TransportKept, TransportTypeOK, Calls, Connected
  <2>2. ClientTyped'
    BY <1>10 DEF UserJoined, ClientTyped
  <2>3. Staged'
    BY <1>10 DEF UserJoined, Staged
  <2>4. CallsKept'
    BY <1>10 DEF UserJoined, Settled, CallsKept, NoOrphanCall, TransportKept, TransportTypeOK
  <2>5. JoinsKept'
    BY <1>10 DEF UserJoined, Settled, JoinsKept, JoinedIsLive
  <2>6. AllHeard'
    BY <1>10 DEF UserJoined, Settled, AllHeard, Listening, JoinsKept, Staged
  <2>7. FlagsTyped' /\ SetsTyped'
    BY <1>10 DEF UserJoined, FlagsTyped, SetsTyped
  <2> QED
    BY <2>1, <2>2, <2>3, <2>4, <2>5, <2>6, <2>7
<1>11. ASSUME NEW x \in {Boot, Loop}, UserFailed(x) PROVE SdkInv'
  <2>1. TransportKept'
    BY <1>11 DEF UserFailed, Settled, TransportKept, TransportTypeOK, Calls, Connected
  <2>2. ClientTyped'
    BY <1>11 DEF UserFailed, FailedAs, ClientTyped
  <2>3. Staged'
    BY <1>11 DEF UserFailed, FailedAs, Staged
  <2>4. CallsKept'
    BY <1>11 DEF UserFailed, Settled, FailedAs, CallsKept, NoOrphanCall, TransportKept,
       TransportTypeOK
  <2>5. JoinsKept'
    BY <1>11 DEF UserFailed, Settled, FailedAs, JoinsKept, JoinedIsLive
  <2>6. AllHeard'
    BY <1>11 DEF UserFailed, FailedAs, AllHeard, Listening, Staged
  <2>7. FlagsTyped' /\ SetsTyped'
    BY <1>11 DEF UserFailed, FlagsTyped, SetsTyped
  <2> QED
    BY <2>1, <2>2, <2>3, <2>4, <2>5, <2>6, <2>7
<1>12. ASSUME NEW x \in {Boot, Loop}, Cancelled(x) PROVE SdkInv'
  <2>1. TransportKept'
    BY <1>12 DEF Cancelled, Settled, TransportKept, TransportTypeOK, Calls, Connected
  <2>2. ClientTyped'
    BY <1>12 DEF Cancelled, ClientTyped
  <2>3. Staged'
    BY <1>12 DEF Cancelled, Staged
  <2>4. CallsKept'
    BY <1>12 DEF Cancelled, Settled, CallsKept, NoOrphanCall, TransportKept, TransportTypeOK
  <2>5. JoinsKept'
    BY <1>12 DEF Cancelled, Settled, JoinsKept, JoinedIsLive
  <2>6. AllHeard'
    BY <1>12 DEF Cancelled, AllHeard, Listening, Staged, ClientTyped
  <2>7. FlagsTyped' /\ SetsTyped'
    BY <1>12 DEF Cancelled, FlagsTyped, SetsTyped
  <2> QED
    BY <2>1, <2>2, <2>3, <2>4, <2>5, <2>6, <2>7
<1>13. ASSUME NEW x \in {Boot, Loop}, Listed(x) PROVE SdkInv'
  <2>1. TransportKept'
    BY <1>13 DEF Listed, NextConv, Sent, TransportKept, TransportTypeOK, Calls, Connected
  <2>2. ClientTyped'
    BY <1>13 DEF Listed, NextConv, ClientTyped
  <2>3. SetsTyped'
    BY <1>13 DEF Listed, SetsTyped
  <2>4. Staged'
    BY <1>13 DEF Listed, NextConv, Staged, ClientTyped
  <2>5. CallsKept'
    BY <1>13 DEF Listed, NextConv, Sent, CallsKept, NoOrphanCall, ClientTyped, TransportKept,
       TransportTypeOK
  <2>6. JoinsKept'
    BY <1>13 DEF Listed, NextConv, Sent, JoinsKept, JoinedIsLive, ClientTyped, TransportKept,
       TransportTypeOK
  <2>7. AllHeard'
    BY <1>13 DEF Listed, NextConv, AllHeard, Listening, Coming, ClientTyped
  <2>8. FlagsTyped'
    BY <1>13 DEF Listed, FlagsTyped
  <2> QED
    BY <2>1, <2>2, <2>3, <2>4, <2>5, <2>6, <2>7, <2>8
<1>14. ASSUME NEW x \in {Boot, Loop}, ListFails(x) PROVE SdkInv'
  <2>1. ClientTyped'
    BY <1>14 DEF ListFails, ClientTyped
  <2>2. FlagsTyped'
    BY <1>14 DEF ListFails, FlagsTyped
  <2>3. SetsTyped'
    BY <1>14 DEF ListFails, SetsTyped, ClientTyped
  <2>4. Staged'
    BY <1>14 DEF ListFails, Staged
  <2>5. CallsKept'
    BY <1>14 DEF ListFails, CallsKept, NoOrphanCall
  <2>6. JoinsKept'
    BY <1>14 DEF ListFails, JoinsKept, JoinedIsLive
  <2>7. AllHeard'
    BY <1>14 DEF ListFails, AllHeard, Listening, Staged
  <2>8. TransportKept'
    BY <1>14 DEF ListFails, TransportKept, TransportTypeOK, Connected
  <2> QED
    BY <2>1, <2>2, <2>3, <2>4, <2>5, <2>6, <2>7, <2>8
<1>15. ASSUME NEW x \in {Boot, Loop}, ConvJoined(x) PROVE SdkInv'
  <2>1. TransportKept'
    BY <1>15 DEF ConvJoined, NextConv, Sent, TransportKept, TransportTypeOK, Calls, Connected
  <2>2. ClientTyped'
    BY <1>15 DEF ConvJoined, NextConv, ClientTyped
  <2>3. SetsTyped'
    BY <1>15 DEF ConvJoined, SetsTyped, Staged
  <2>4. Staged'
    BY <1>15 DEF ConvJoined, NextConv, Staged, ClientTyped
  <2>5. CallsKept'
    BY <1>15 DEF ConvJoined, NextConv, Sent, CallsKept, NoOrphanCall, ClientTyped, TransportKept,
       TransportTypeOK
  <2>6. JoinsKept'
    BY <1>15 DEF ConvJoined, NextConv, Sent, JoinsKept, JoinedIsLive, Staged, ClientTyped,
       TransportKept, TransportTypeOK
  <2>7. AllHeard'
    BY <1>15 DEF ConvJoined, NextConv, AllHeard, Listening, Coming, ClientTyped, TransportKept,
       TransportTypeOK
  <2>8. FlagsTyped'
    BY <1>15 DEF ConvJoined, FlagsTyped
  <2> QED
    BY <2>1, <2>2, <2>3, <2>4, <2>5, <2>6, <2>7, <2>8
<1>16. ASSUME NEW x \in {Boot, Loop}, ConvFailed(x) PROVE SdkInv'
  <2>1. TransportKept'
    BY <1>16 DEF ConvFailed, NextConv, Sent, TransportKept, TransportTypeOK, Calls, Connected
  <2>2. ClientTyped'
    BY <1>16 DEF ConvFailed, NextConv, ClientTyped
  <2>3. SetsTyped'
    BY <1>16 DEF ConvFailed, SetsTyped, Staged
  <2>4. Staged'
    BY <1>16 DEF ConvFailed, NextConv, Staged, ClientTyped
  <2>5. CallsKept'
    BY <1>16 DEF ConvFailed, NextConv, Sent, CallsKept, NoOrphanCall, ClientTyped, TransportKept,
       TransportTypeOK
  <2>6. JoinsKept'
    BY <1>16 DEF ConvFailed, NextConv, Sent, JoinsKept, JoinedIsLive, ClientTyped, TransportKept,
       TransportTypeOK
  <2>7. AllHeard'
    BY <1>16 DEF ConvFailed, NextConv, AllHeard, Listening, Coming, ClientTyped, TransportKept,
       TransportTypeOK
  <2>8. FlagsTyped'
    BY <1>16 DEF ConvFailed, FlagsTyped
  <2> QED
    BY <2>1, <2>2, <2>3, <2>4, <2>5, <2>6, <2>7, <2>8
<1>17. ASSUME BootDone PROVE SdkInv'
  <2>1. ClientTyped'
    BY <1>17 DEF BootDone, ClientTyped
  <2>2. FlagsTyped'
    BY <1>17 DEF BootDone, FlagsTyped
  <2>3. Staged'
    BY <1>17 DEF BootDone, Staged, ClientTyped
  <2>4. CallsKept'
    BY <1>17 DEF BootDone, CallsKept, NoOrphanCall, Staged, ClientTyped
  <2>5. JoinsKept'
    BY <1>17 DEF BootDone, JoinsKept, JoinedIsLive, ClientTyped
  <2>6. AllHeard'
    BY <1>17 DEF BootDone, AllHeard, Listening, Coming, Staged, ClientTyped
  <2>7. TransportKept' /\ SetsTyped'
    BY <1>17 DEF BootDone, TransportKept, TransportTypeOK, Connected, SetsTyped
  <2> QED
    BY <2>1, <2>2, <2>3, <2>4, <2>5, <2>6, <2>7
<1>18. ASSUME NEW from \in {"start", "trust"}, Rest(from) PROVE SdkInv'
  <2>1. ClientTyped'
    BY <1>18 DEF Rest, ClientTyped
  <2>2. FlagsTyped'
    BY <1>18 DEF Rest, FlagsTyped
  <2>3. Staged'
    BY <1>18 DEF Rest, Staged
  <2>4. CallsKept'
    BY <1>18 DEF Rest, CallsKept, NoOrphanCall
  <2>5. JoinsKept'
    BY <1>18 DEF Rest, JoinsKept, JoinedIsLive
  <2>6. AllHeard'
    BY <1>18 DEF Rest, AllHeard, Listening, Coming
  <2>7. TransportKept' /\ SetsTyped'
    BY <1>18 DEF Rest, TransportKept, TransportTypeOK, Connected, SetsTyped
  <2> QED
    BY <2>1, <2>2, <2>3, <2>4, <2>5, <2>6, <2>7
<1>19. ASSUME Wakes PROVE SdkInv'
  <2>1. ClientTyped'
    BY <1>19 DEF Wakes, ClientTyped
  <2>2. Staged'
    BY <1>19 DEF Wakes, Staged
  <2>3. CallsKept'
    BY <1>19 DEF Wakes, CallsKept, NoOrphanCall
  <2>4. JoinsKept'
    BY <1>19 DEF Wakes, JoinsKept, JoinedIsLive
  <2>5. AllHeard'
    BY <1>19 DEF Wakes, AllHeard, Listening, Staged, ClientTyped
  <2>6. TransportKept' /\ FlagsTyped' /\ SetsTyped'
    BY <1>19 DEF Wakes, TransportKept, TransportTypeOK, Connected, FlagsTyped, SetsTyped
  <2> QED
    BY <2>1, <2>2, <2>3, <2>4, <2>5, <2>6
<1>20. ASSUME BackoffOver PROVE SdkInv'
  <2>1. TransportKept'
    BY <1>20 DEF BackoffOver, DisconnectIdle, DisconnectBegins, StopLoops, CancelPending,
       TransportKept, TransportTypeOK, Calls, Connected
  <2>2. ClientTyped'
    BY <1>20 DEF BackoffOver, ClientTyped
  <2>3. SetsTyped'
    BY <1>20 DEF BackoffOver, SetsTyped
  <2>4. Staged'
    BY <1>20 DEF BackoffOver, Staged, ClientTyped
  <2>5. CallsKept'
    <3>1. /\ \A a \in Spawned : call[a] # "idle" => pc[a] = "joining" /\ call[a] = "waiting"
          /\ quit = "no" /\ pc[Boot] = "done" /\ call[Boot] = "idle" /\ call[Loop] = "idle"
          /\ call \in [Callers -> Calls] /\ \A c \in Callers \ {Ping} : call[c] \in {"idle", "waiting"}
      BY <1>20 DEF BackoffOver, Ready, CallsKept, Staged, TransportKept, TransportTypeOK
    <3>2. /\ reader' = FALSE /\ UNCHANGED quit /\ pc' = [pc EXCEPT ![Loop] = pc'[Loop]]
          /\ pc'[Loop] \in {"opening", "closing"}
      BY <1>20 DEF BackoffOver, DisconnectIdle, DisconnectBegins, StopLoops, ClientTyped
    <3>3. /\ \A c \in Callers \ {Ping} : call'[c] # "replied" /\ (call'[c] = "idle" <=> call[c] = "idle")
          /\ \A c \in Callers : call'[c] = "waiting" => pc'[Loop] = "closing"
      <4>1. CASE DisconnectIdle /\ pc' = [pc EXCEPT ![Loop] = "opening"]
        BY <3>1, <4>1 DEF DisconnectIdle, CancelPending
      <4>2. CASE DisconnectBegins /\ pc' = [pc EXCEPT ![Loop] = "closing"]
        BY <3>1, <4>2 DEF DisconnectBegins, ClientTyped
      <4> QED
        BY <1>20, <4>1, <4>2 DEF BackoffOver
    <3> QED
      BY <3>1, <3>2, <3>3 DEF CallsKept, NoOrphanCall, ClientTyped
  <2>6. JoinsKept'
    BY <1>20 DEF BackoffOver, DisconnectIdle, DisconnectBegins, JoinsKept, JoinedIsLive, ClientTyped
  <2>7. AllHeard'
    BY <1>20 DEF BackoffOver, AllHeard, Listening, Staged, ClientTyped
  <2>8. FlagsTyped'
    BY <1>20 DEF BackoffOver, FlagsTyped
  <2> QED
    BY <2>1, <2>2, <2>3, <2>4, <2>5, <2>6, <2>7, <2>8
<1>21. ASSUME ClosedOld PROVE SdkInv'
  <2>1. TransportKept'
    BY <1>21 DEF ClosedOld, DisconnectEnds, CancelPending, TransportKept, TransportTypeOK, Calls,
       Connected
  <2>2. ClientTyped'
    BY <1>21 DEF ClosedOld, ClientTyped
  <2>3. SetsTyped'
    BY <1>21 DEF ClosedOld, SetsTyped
  <2>4. Staged'
    BY <1>21 DEF ClosedOld, Staged
  <2>5. CallsKept'
    BY <1>21 DEF ClosedOld, DisconnectEnds, CancelPending, CallsKept, NoOrphanCall
  <2>6. JoinsKept'
    BY <1>21 DEF ClosedOld, DisconnectEnds, JoinsKept, JoinedIsLive
  <2>7. AllHeard'
    BY <1>21 DEF ClosedOld, AllHeard, Listening, Staged
  <2>8. FlagsTyped'
    BY <1>21 DEF ClosedOld, FlagsTyped
  <2> QED
    BY <2>1, <2>2, <2>3, <2>4, <2>5, <2>6, <2>7, <2>8
<1>22. ASSUME NEW a \in Spawned, JoinStarts(a) PROVE SdkInv'
  <2>1. TransportKept'
    BY <1>22 DEF JoinStarts, Ask, Sent, TransportKept, TransportTypeOK, Calls, Connected
  <2>2. ClientTyped'
    BY <1>22 DEF JoinStarts, ClientTyped
  <2>3. Staged'
    BY <1>22 DEF JoinStarts, Staged, ClientTyped
  <2>4. CallsKept'
    BY <1>22 DEF JoinStarts, Ask, Sent, CallsKept, NoOrphanCall, ClientTyped, TransportKept,
       TransportTypeOK
  <2>5. JoinsKept'
    BY <1>22 DEF JoinStarts, Ask, Sent, JoinsKept, JoinedIsLive, ClientTyped, TransportKept,
       TransportTypeOK
  <2>6. AllHeard'
    BY <1>22 DEF JoinStarts, Ask, Sent, AllHeard, Listening, Coming, ClientTyped, TransportKept,
       TransportTypeOK
  <2>7. FlagsTyped' /\ SetsTyped'
    BY <1>22 DEF JoinStarts, FlagsTyped, SetsTyped
  <2> QED
    BY <2>1, <2>2, <2>3, <2>4, <2>5, <2>6, <2>7
<1>23. ASSUME NEW a \in Spawned, NEW how \in {"replied", "failed", "cancelled"}, JoinEnds(a, how) PROVE SdkInv'
  <2>1. TransportKept'
    BY <1>23 DEF JoinEnds, Settled, TransportKept, TransportTypeOK, Calls, Connected
  <2>2. ClientTyped'
    BY <1>23 DEF JoinEnds, ClientTyped
  <2>3. SetsTyped'
    BY <1>23 DEF JoinEnds, SetsTyped, Staged
  <2>4. Staged'
    BY <1>23 DEF JoinEnds, Staged, ClientTyped
  <2>5. CallsKept'
    BY <1>23 DEF JoinEnds, Settled, CallsKept, NoOrphanCall, TransportKept, TransportTypeOK
  <2>6. JoinsKept'
    BY <1>23 DEF JoinEnds, Settled, JoinsKept, JoinedIsLive, CallsKept, TransportKept,
       TransportTypeOK
  <2>7. AllHeard'
    BY <1>23 DEF JoinEnds, Settled, AllHeard, Listening, Coming
  <2>8. FlagsTyped'
    BY <1>23 DEF JoinEnds, FlagsTyped
  <2> QED
    BY <2>1, <2>2, <2>3, <2>4, <2>5, <2>6, <2>7, <2>8
<1>24. ASSUME Quit PROVE SdkInv'
  <2>1. TransportKept'
    BY <1>24 DEF Quit, DisconnectIdle, DisconnectBegins, StopLoops, CancelPending, TransportKept,
       TransportTypeOK, Calls, Connected
  <2>2. ClientTyped'
    BY <1>24 DEF Quit, ClientTyped
  <2>3. FlagsTyped'
    BY <1>24 DEF Quit, FlagsTyped
  <2>4. SetsTyped'
    BY <1>24 DEF Quit, SetsTyped
  <2>5. Staged'
    BY <1>24 DEF Quit, Staged, ClientTyped
  <2>6. CallsKept'
    BY <1>24 DEF Quit, DisconnectIdle, DisconnectBegins, StopLoops, CancelPending, CallsKept,
       NoOrphanCall, ClientTyped, TransportKept, TransportTypeOK, Calls
  <2>7. JoinsKept'
    BY <1>24 DEF Quit, DisconnectIdle, DisconnectBegins, JoinsKept, JoinedIsLive
  <2>8. AllHeard'
    BY <1>24 DEF Quit, AllHeard, Listening, ClientTyped
  <2> QED
    BY <2>1, <2>2, <2>3, <2>4, <2>5, <2>6, <2>7, <2>8
<1>25. ASSUME QuitEnds PROVE SdkInv'
  <2>1. TransportKept'
    BY <1>25 DEF QuitEnds, DisconnectEnds, CancelPending, TransportKept, TransportTypeOK, Calls,
       Connected
  <2>2. FlagsTyped'
    BY <1>25 DEF QuitEnds, FlagsTyped
  <2>3. SetsTyped'
    BY <1>25 DEF QuitEnds, SetsTyped
  <2>4. Staged'
    BY <1>25 DEF QuitEnds, Staged
  <2>5. CallsKept'
    BY <1>25 DEF QuitEnds, DisconnectEnds, CancelPending, CallsKept, NoOrphanCall
  <2>6. JoinsKept'
    BY <1>25 DEF QuitEnds, DisconnectEnds, JoinsKept, JoinedIsLive
  <2>7. AllHeard'
    BY <1>25 DEF QuitEnds, AllHeard, Listening, Staged
  <2>8. ClientTyped'
    BY <1>25 DEF QuitEnds, ClientTyped
  <2> QED
    BY <2>1, <2>2, <2>3, <2>4, <2>5, <2>6, <2>7, <2>8
<1>26. ASSUME UNCHANGED vars PROVE SdkInv'
  BY <1>26 DEF vars, TransportKept, TransportTypeOK, Connected, ClientTyped, FlagsTyped, SetsTyped,
     Staged, CallsKept, NoOrphanCall, JoinsKept, JoinedIsLive, AllHeard, Listening, Coming
<1> QED
  BY <1>1, <1>2, <1>3, <1>4, <1>5, <1>6, <1>7, <1>8, <1>9, <1>10, <1>11, <1>12, <1>13, <1>14, <1>15,
     <1>16, <1>17, <1>18, <1>19, <1>20, <1>21, <1>22, <1>23, <1>24, <1>25, <1>26 DEF Next, Stage,
     LoopStep, JoinStep

\* The invariant holds in every reachable state.
LEMMA SdkHolds == Spec => []SdkInv
  BY SdkStarts, SdkSteps, PTL DEF Spec

\* Nobody waits for a reply that no receive loop is there to read: whatever the
\* order of lost sockets, reconnects, joins and disconnect(), the calls in flight
\* are cancelled with the loop that would have answered them.
THEOREM NoCallIsOrphaned == Spec => []NoOrphanCall
<1>1. SdkInv => NoOrphanCall
  BY DEF SdkInv, CallsKept
<1> QED
  BY <1>1, SdkHolds, PTL

\* What a client takes for joined is joined, on any number of sockets, and a
\* client at rest listens to every conversation that was not given up.
THEOREM JoinsAreExact == Spec => []JoinsExact
<1>1. SdkInv => TypeOK
  BY DEF SdkInv, TransportKept, ClientTyped, FlagsTyped, SetsTyped, TypeOK
<1>2. SdkInv => JoinedIsLive
  BY DEF SdkInv, JoinsKept
<1>3. SdkInv => NoConversationMissed
  <2> SUFFICES ASSUME SdkInv, Resting, NEW c \in members PROVE c \in joined \cup missed
    BY DEF NoConversationMissed
  <2>1. Listening({"convs", "trust"}) /\ ws = "open" /\ news = {}
    BY DEF Resting, Listening
  <2>2. ~Coming(c)
    BY DEF Resting, Quiescent, Coming
  <2> QED
    BY <2>1, <2>2 DEF SdkInv, AllHeard
<1> QED
  BY <1>1, <1>2, <1>3, SdkHolds, PTL DEF JoinsExact
=============================================================================
