----------------------------- MODULE ComputerUse -----------------------------
(***************************************************************************)
(* The computer-use servers of a machine (computer_use_mcp_server.py): one *)
(* process per run of an agent's CLI.  At most one may have the screen, by *)
(* a lock file that names its process and that others take over when that  *)
(* process is dead; the one that has it answers requests one at a time,    *)
(* each behind the pause file, the audit log and the screening of the      *)
(* focused application.  Coordinates are of one axis; the driver is the    *)
(* Windows one, which maps them (on macOS they pass through): from the     *)
(* screenshot to a pixel, and from that to the grid on which Windows is    *)
(* told where the pointer goes.                                            *)
(***************************************************************************)
EXTENDS Integers

CONSTANTS
  Servers,      \* the server processes: a server is its process id
  Gone,         \* a process that is dead
  Stranger,     \* a live process that is no server: it has a dead one's id
  MaxTries,     \* attempts at the lock file
  Layouts,      \* screens: [origin, captured, shipped], in pixels
  Grid,         \* the last place of an absolute mouse event: 65535
  NoLayout, NoFile

ASSUME ComputerUseAssumption ==
  /\ MaxTries \in Nat \ {0} /\ Grid \in Nat
  /\ Layouts \subseteq [origin : Int, captured : Nat, shipped : Nat]
  /\ \A l \in Layouts : 0 < l.shipped /\ l.shipped <= l.captured /\ l.captured <= Grid
  /\ Gone # Stranger /\ {Gone, Stranger} \cap Servers = {}
  /\ NoLayout \notin Layouts /\ NoFile \notin [by : Servers \cup {Gone, Stranger}, written : BOOLEAN]

VARIABLES
  lock,      \* the lock file: who made it, and whether the id is written in it yet
  controller,\* of a server: where it stands
  robbed,    \* servers whose lock file another one removed by mistake
  screens    \* the layout of the machine's screens

computerVars == <<lock, controller, robbed, screens>>

File(by, written) == [by |-> by, written |-> written]

\* saw: the lock file as read; transform: of the last capture; seen: the screens
\* on the last screenshot that was answered; misled: the transform is another;
\* live: the metrics of the screens as read; target: the pixel to go to, and
\* place: on the grid; pointer: where it went
NotStarted ==
  [at |-> "off", tries |-> 0, saw |-> NoFile, transform |-> NoLayout, seen |-> NoLayout,
   misled |-> FALSE, ask |-> "none", x |-> 0, live |-> NoLayout, target |-> 0, place |-> 0, pointer |-> 0]

Requests == {"screenshot", "pointer", "other"}

ComputerInit ==
  /\ lock \in {NoFile, File(Gone, TRUE), File(Gone, FALSE), File(Stranger, TRUE)}
  /\ controller = [s \in Servers |-> NotStarted]
  /\ robbed = {}
  /\ screens \in Layouts

Puts(s, record) == controller' = [controller EXCEPT ![s] = record]
Moves(s, at) == Puts(s, [controller[s] EXCEPT !.at = at])

-----------------------------------------------------------------------------
\* a monitor is plugged in, or taken away
Rearranged ==
  /\ screens' \in Layouts \ {screens}
  /\ UNCHANGED <<lock, controller, robbed>>

\* a server is started, and killed at any point
Launch(s) ==
  /\ controller[s].at = "off"
  /\ Moves(s, "locking")
  /\ UNCHANGED <<lock, robbed, screens>>

Dead == {s \in Servers : controller[s].at \in {"off", "dead"}} \cup {Gone}

Kill(s) ==
  /\ s \notin Dead
  /\ Puts(s, [NotStarted EXCEPT !.at = "dead"])
  /\ UNCHANGED <<lock, robbed, screens>>

-----------------------------------------------------------------------------
\* _try_acquire_lock: O_CREAT | O_EXCL, and then the id is written
Create(s) ==
  /\ controller[s].at = "locking" /\ lock = NoFile
  /\ lock' = File(s, FALSE)
  /\ Moves(s, "writing")
  /\ UNCHANGED <<robbed, screens>>

\* what is written to a file that was unlinked meanwhile nobody sees
Write(s) ==
  /\ controller[s].at = "writing"
  /\ lock' = IF lock = File(s, FALSE) THEN File(s, TRUE) ELSE lock
  /\ Puts(s, [NotStarted EXCEPT !.at = "serving"])
  /\ UNCHANGED <<robbed, screens>>

Taken(s) ==
  /\ controller[s].at = "locking" /\ lock # NoFile
  /\ Moves(s, "reading")
  /\ UNCHANGED <<lock, robbed, screens>>

PidAliveNever(pid) == pid \in {}

\* _pid_alive
PidAlive(pid) == pid \notin Dead

\* a lock file that cannot be read counts as corrupt, one that names a dead
\* process as stale: both are taken over
ReadsHolder(s) ==
  /\ controller[s].at = "reading"
  /\ Puts(s, [controller[s] EXCEPT !.saw = lock,
              !.at = IF lock # NoFile /\ lock.written THEN "judging" ELSE "stealing"])
  /\ UNCHANGED <<lock, robbed, screens>>

Judges(s) ==
  /\ controller[s].at = "judging"
  /\ IF PidAlive(controller[s].saw.by)
     THEN Puts(s, [NotStarted EXCEPT !.at = "dead"])
     ELSE Moves(s, "stealing")
  /\ UNCHANGED <<lock, robbed, screens>>

\* the unlink does not ask whether the file is still the one that was read
RemovesFile(read) ==
  /\ lock' = NoFile
  /\ robbed' = IF lock # NoFile /\ (lock # read \/ ~lock.written)
               THEN robbed \cup {lock.by} ELSE robbed

Steal(s) ==
  /\ controller[s].at = "stealing"
  /\ RemovesFile(controller[s].saw)
  /\ IF controller[s].tries + 1 < MaxTries
     THEN Puts(s, [controller[s] EXCEPT !.at = "locking", !.tries = @ + 1, !.saw = NoFile])
     ELSE Puts(s, [NotStarted EXCEPT !.at = "dead"])
  /\ UNCHANGED screens

\* stdin ends: _release_lock removes the file that names this process
Closes(s) ==
  /\ controller[s].at = "serving"
  /\ IF lock = File(s, TRUE) THEN Moves(s, "releasing") ELSE Puts(s, [NotStarted EXCEPT !.at = "dead"])
  /\ UNCHANGED <<lock, robbed, screens>>

Release(s) ==
  /\ controller[s].at = "releasing"
  /\ RemovesFile(File(s, TRUE))
  /\ Puts(s, [NotStarted EXCEPT !.at = "dead"])
  /\ UNCHANGED screens

-----------------------------------------------------------------------------
\* execute_action: a request meets one gate after the other, and the first that
\* is shut answers it with an error; they change nothing and whether one is shut
\* depends on what is not here, so that they count as one
Ask(s) == \E ask \in Requests :
  /\ controller[s].at = "serving"
  /\ Puts(s, [controller[s] EXCEPT !.at = "gates", !.ask = ask])
  /\ UNCHANGED <<lock, robbed, screens>>

Answers(s, record) ==
  Puts(s, [record EXCEPT !.at = "serving", !.ask = "none", !.x = 0,
                         !.live = NoLayout, !.target = 0, !.place = 0, !.pointer = 0])

\* not paused; the audit row could be written; but for a screenshot, the focused
\* application is known, not a denied one, and an allowed one; still not paused
Passes(s) ==
  /\ controller[s].at = "gates"
  /\ Moves(s, "driving")
  /\ UNCHANGED <<lock, robbed, screens>>

Refuses(s) ==
  /\ controller[s].at = "gates"
  /\ Answers(s, controller[s])
  /\ UNCHANGED <<lock, robbed, screens>>

-----------------------------------------------------------------------------
\* round(x / scale), halves to even
Rounded(n, d) ==
  LET q == n \div d  r == n % d IN
    IF 2 * r < d \/ (2 * r = d /\ q % 2 = 0) THEN q ELSE q + 1

MappedUnscaled(x, layout) == layout.origin + x

\* _map_model_coords
Mapped(x, layout) == layout.origin + Rounded(x * layout.captured, layout.shipped)

\* WindowsDriver._to_screen: before the first capture, the screens of now
Aim(s) == IF controller[s].transform = NoLayout THEN screens ELSE controller[s].transform

\* the model names a place on its last screenshot, or guesses before it has one
Shown(s) == IF controller[s].seen = NoLayout THEN screens ELSE controller[s].seen

Points(s) == \E x \in 0 .. Shown(s).shipped - 1 :
  /\ controller[s].at = "driving" /\ controller[s].ask = "pointer"
  /\ Puts(s, [controller[s] EXCEPT !.at = "mapped", !.x = x, !.target = Mapped(x, Aim(s))])
  /\ UNCHANGED <<lock, robbed, screens>>

Edge(l) == IF l.captured = 1 THEN 1 ELSE l.captured - 1
Within(n, last) == IF n < 0 THEN 0 ELSE IF n > last THEN last ELSE n

\* _win_mouse_event: by the screens of now, and kept on the grid
Placed(pixel, l) == Within(Rounded((pixel - l.origin) * Grid, Edge(l)), Grid)

Normalises(s) ==
  /\ controller[s].at = "mapped"
  /\ Puts(s, [controller[s] EXCEPT !.at = "normalised", !.live = screens,
                                   !.place = Placed(controller[s].target, screens)])
  /\ UNCHANGED <<lock, robbed, screens>>

\* SendInput: Windows spreads the grid over the screens there are, and if they
\* are others by then the pointer is anywhere
PixelAt(place, l) == l.origin + Rounded(place * (l.captured - 1), Grid)

Injects(s) ==
  /\ controller[s].at = "normalised"
  /\ \/ /\ controller[s].live = screens
        /\ Puts(s, [controller[s] EXCEPT !.at = "pointed", !.pointer = PixelAt(controller[s].place, screens)])
     \/ controller[s].live # screens /\ Answers(s, controller[s])
  /\ UNCHANGED <<lock, robbed, screens>>

\* WindowsDriver.screenshot reads the origin ...
Screenshot(s) ==
  /\ controller[s].at = "driving" /\ controller[s].ask = "screenshot"
  /\ Puts(s, [controller[s] EXCEPT !.at = "capturing", !.live = screens])
  /\ UNCHANGED <<lock, robbed, screens>>

\* ... and grabs the screens: blocked before the transform is recorded
\* (Finishes), or after it, when the picture turns out too small
Transform(s) == [screens EXCEPT !.origin = controller[s].live.origin]

Captured(s) ==
  [controller[s] EXCEPT !.transform = Transform(s), !.seen = screens, !.misled = Transform(s) # screens]

Grabs(s) ==
  /\ controller[s].at = "capturing"
  /\ \/ Answers(s, Captured(s))
     \/ Answers(s, [controller[s] EXCEPT !.transform = Transform(s), !.misled = TRUE])
  /\ UNCHANGED <<lock, robbed, screens>>

\* everything else: the driver did it or raised, the arguments are refused;
\* the caller gets an answer and nothing is kept
Finishes(s) ==
  /\ controller[s].at \in {"driving", "mapped", "normalised", "pointed", "capturing"}
  /\ Answers(s, controller[s])
  /\ UNCHANGED <<lock, robbed, screens>>

ComputerNext ==
  \/ Rearranged
  \/ \E s \in Servers :
       \/ Launch(s) \/ Kill(s) \/ Create(s) \/ Write(s) \/ Taken(s) \/ ReadsHolder(s) \/ Judges(s)
       \/ Steal(s) \/ Closes(s) \/ Release(s)
       \/ Ask(s) \/ Passes(s) \/ Refuses(s) \/ Points(s) \/ Normalises(s) \/ Injects(s)
       \/ Screenshot(s) \/ Grabs(s) \/ Finishes(s)

ComputerSpec == ComputerInit /\ [][ComputerNext]_computerVars

-----------------------------------------------------------------------------
HasScreen(s) == controller[s].at \notin {"off", "locking", "writing", "reading", "judging", "stealing", "dead"}

(* Two servers have the screen at once only when one of them was robbed of   *)
(* its lock: another server that was about to remove a dead process's lock,  *)
(* one it read before its id was in it, or its own at its end, removed this  *)
(* one's instead (_try_acquire_lock, computer_use_mcp_server.py:935).        *)
OneControllerUnlessRobbed ==
  \A s, t \in Servers : s # t /\ HasScreen(s) /\ HasScreen(t) => s \in robbed \/ t \in robbed

Pixels(l) == l.origin .. l.origin + l.captured - 1
Apart(p, q) == IF p < q THEN q - p ELSE p - q

(* A pointer request of a model that was given a screenshot aims at the      *)
(* physical pixel nearest to the place it named there, and the pointer goes  *)
(* to that pixel, or where the screens have been rearranged since and it is  *)
(* gone, to the nearest one there is; but for a capture that was refused for *)
(* its size, and screens rearranged in the middle of a capture or a move     *)
(* (computer_use_mcp_server.py:30, 584, 1378, 1417).                         *)
PointsWhereSeen ==
  \A s \in Servers :
    LET c == controller[s]  seen == c.seen
        off == (c.target - seen.origin) * seen.shipped - c.x * seen.captured IN
      c.at = "pointed" /\ seen # NoLayout /\ ~c.misled =>
        /\ 2 * off <= seen.shipped /\ 2 * (-off) <= seen.shipped
        /\ c.pointer \in Pixels(c.live)
        /\ \A q \in Pixels(c.live) : Apart(c.pointer, c.target) <= Apart(q, c.target)
=============================================================================
