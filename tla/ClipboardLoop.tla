--------------------------- MODULE ClipboardLoop ---------------------------
(***************************************************************************)
(* Two members of a group copy, send and receive texts: one runs the       *)
(* command-line client, whose ClipboardWatcher                             *)
(* (apps/client-cli/src/adapters/clipboard-watcher.ts) polls the clipboard *)
(* of its host; the other runs the Windows application, whose page         *)
(* (apps/desktop-windows/web/main.js) polls it through the shell.  Both    *)
(* write what they receive to the clipboard they poll, and have to tell    *)
(* their own writes from what their user copies.                           *)
(*                                                                         *)
(* What is sent reaches the other end, once, in order: delivery, keys and  *)
(* policy are the subject of other modules.  Images are left out, and a      *)
(* clipboard always holds a text.                                          *)
(*                                                                         *)
(* Node.js and the page each run one callback at a time.  The watcher      *)
(* reads and writes through child processes, which end in any order; the   *)
(* shell carries out the page's commands one by one on its main thread,    *)
(* and their answers reach the page in that order.                         *)
(***************************************************************************)
EXTENDS Integers, Sequences, FiniteSets

CONSTANTS
  Texts,       \* what can be on a clipboard
  NoText,      \* no text or fingerprint seen yet
  Polls,       \* pollOnce calls of the watcher that may be under way together
  MaxCopies,   \* bound of the model: texts the users copy
  MaxSends,    \* bound of the model: texts the two ends send
  MaxStops,    \* bound of the model: times the watcher is stopped, or its process ends
  MaxRestarts, \* bound of the model: times the page is closed and opened, or reloaded
  MaxReads     \* bound of the model: answers to the page under way

ASSUME LoopAssumption ==
  /\ NoText \notin Texts
  /\ MaxCopies \in Nat /\ MaxSends \in Nat /\ MaxStops \in Nat
  /\ MaxRestarts \in Nat /\ MaxReads \in Nat

Ends == {"cli", "page"}

VARIABLES
  clip,          \* per end: the text on its clipboard and who put it there
  wire,          \* per end: the texts on their way to it
  \* the watcher
  watch,         \* "off", "starting" (in its first read) or "on"
  firstRead,     \* what that read has found
  latest, suppressNext, pollInFlight,
  poll,          \* the pollOnce calls
  writing,       \* how often each text is being written by a child process
  \* the page
  syncRunning, lastFingerprint, suppressed,
  commands,      \* the texts the shell has been asked to write
  answers,       \* answers of the shell the page has not handled
  \* history
  copies, sends, stops, restarts,
  owed,          \* per end: writes it has noted, less the copies of its user taken for an echo
  races,         \* changes found by polls of the watcher that overlapped a write, a
                 \* stop or another poll, and ends of its process in the middle of a
                 \* write, less the texts it had written itself and sent
  echoes         \* how often the page has sent a text it had written itself

watcherVars == <<watch, firstRead, latest, suppressNext, pollInFlight, poll, writing>>
pageVars    == <<syncRunning, lastFingerprint, suppressed, commands, answers>>
countVars   == <<copies, sends, stops, restarts, owed, races, echoes>>
vars        == <<clip, wire, watcherVars, pageVars, countVars>>

Entry == [text : Texts \cup {NoText}, by : {"user", "client"}]

Idle == [at |-> "idle", read |-> [text |-> NoText, by |-> "user"], raced |-> FALSE]

\* Every variable has its type.
TypeOK ==
  /\ clip \in [Ends -> [text : Texts, by : {"user", "client"}]]
  /\ wire \in [Ends -> Seq(Texts)]
  /\ watch \in {"off", "starting", "on"}
  /\ firstRead \in Texts \cup {NoText}
  /\ latest \in Texts \cup {NoText}
  /\ suppressNext \in BOOLEAN
  /\ pollInFlight \in BOOLEAN
  /\ poll \in [Polls -> [at : {"idle", "read", "sending"}, read : Entry, raced : BOOLEAN]]
  /\ writing \in [Texts -> Nat]
  /\ syncRunning \in BOOLEAN
  /\ lastFingerprint \in Texts \cup {NoText}
  /\ suppressed \in Texts \cup {NoText}
  /\ commands \in Seq(Texts)
  /\ answers \in Seq([to : {"read", "write"}, read : Entry])
  /\ copies \in 0 .. MaxCopies
  /\ sends \in 0 .. MaxSends
  /\ stops \in 0 .. MaxStops
  /\ restarts \in 0 .. MaxRestarts
  /\ owed \in [Ends -> Int]
  /\ races \in Int
  /\ echoes \in Nat

-----------------------------------------------------------------------------
(* The users *)

Copy(e, x) ==
  /\ copies < MaxCopies
  /\ copies' = copies + 1
  /\ clip' = [clip EXCEPT ![e] = [text |-> x, by |-> "user"]]
  /\ UNCHANGED <<wire, watcherVars, pageVars, sends, stops, owed, races, restarts, echoes>>

-----------------------------------------------------------------------------
(* The watcher *)

\* start, as far as its read of the clipboard.
WatchStarts ==
  /\ watch = "off"
  /\ watch' = "starting"
  /\ firstRead' = clip["cli"].text
  /\ UNCHANGED <<clip, wire, latest, suppressNext, pollInFlight, poll, writing, pageVars, countVars>>

\* The read is answered: the timer is set.  suppressNext stays what it was.
WatchStarted ==
  /\ watch = "starting"
  /\ watch' = "on"
  /\ latest' = firstRead
  /\ firstRead' = NoText
  /\ pollInFlight' = FALSE
  /\ UNCHANGED <<clip, wire, suppressNext, poll, writing, pageVars, countVars>>

\* The polls, those that have read marked as overlapped by what happens.
Overlapped == [k \in Polls |-> [poll[k] EXCEPT !.raced = poll[k].at = "read"]]

\* stop: a poll that is under way goes on.
WatchStops ==
  /\ watch = "on"
  /\ stops < MaxStops
  /\ stops' = stops + 1
  /\ watch' = "off"
  /\ pollInFlight' = FALSE
  /\ poll' = Overlapped
  /\ UNCHANGED <<clip, wire, firstRead, latest, suppressNext, writing, pageVars,
                 copies, sends, owed, races, restarts, echoes>>

\* A write is under way, or a poll that outlived a stop.
Disturbed == (\E x \in Texts : writing[x] > 0) \/ \E k \in Polls : poll[k].at = "read"

\* The timer fires, no poll is in flight, and pollOnce reads the clipboard.
PollReads(k) ==
  /\ watch = "on"
  /\ ~pollInFlight
  /\ poll[k].at = "idle"
  /\ pollInFlight' = TRUE
  /\ poll' = [Overlapped EXCEPT ![k] =
                [at |-> "read", read |-> clip["cli"], raced |-> Disturbed]]
  /\ UNCHANGED <<clip, wire, watch, firstRead, latest, suppressNext, writing, pageVars, countVars>>

\* Mutant: a poll that fails, or finds nothing, leaves the flag up.
PollEndsInFlight(k) == poll' = [poll EXCEPT ![k] = Idle] /\ UNCHANGED pollInFlight

\* The end of pollOnce, whichever poll the flag stands for.
PollEnds(k) == poll' = [poll EXCEPT ![k] = Idle] /\ pollInFlight' = FALSE

\* Mutant: the flag is never taken down.
SuppressAgain == UNCHANGED suppressNext

\* The next change is swallowed, once.
Suppress == suppressNext' = FALSE

\* What pollOnce has read is compared with latest: nothing new, a change to be
\* suppressed, or one to be sent.
PollHandles(k) ==
  LET next == poll[k].read
      news == next.text # latest
      race == IF poll[k].raced THEN 1 ELSE 0
  IN  /\ poll[k].at = "read"
      /\ latest' = next.text
      /\ \/ ~news /\ PollEnds(k) /\ UNCHANGED <<suppressNext, owed, races>>
         \/ /\ news /\ suppressNext
            /\ Suppress
            /\ PollEnds(k)
            /\ owed' = [owed EXCEPT !["cli"] = @ - (IF next.by = "user" THEN 1 ELSE 0)]
            /\ races' = races + race
         \/ /\ news /\ ~suppressNext
            /\ poll' = [poll EXCEPT ![k].at = "sending"]
            /\ races' = races + race - (IF next.by = "client" THEN 1 ELSE 0)
            /\ UNCHANGED <<suppressNext, pollInFlight, owed>>
      /\ UNCHANGED <<clip, wire, watch, firstRead, writing, pageVars, copies, sends, stops, restarts, echoes>>

\* The read fails: the error is logged and the next poll tries again.
PollFails(k) ==
  /\ poll[k].at = "read"
  /\ PollEnds(k)
  /\ UNCHANGED <<clip, wire, watch, firstRead, latest, suppressNext, writing, pageVars, countVars>>

\* onChange is done: sendText has been accepted, or has failed or been refused.
\* The watcher has waited for it.
SendEnds(k) ==
  /\ poll[k].at = "sending"
  /\ PollEnds(k)
  /\ \/ UNCHANGED <<wire, sends>>
     \/ /\ sends < MaxSends
        /\ sends' = sends + 1
        /\ wire' = [wire EXCEPT !["page"] = Append(@, poll[k].read.text)]
  /\ UNCHANGED <<clip, watch, firstRead, latest, suppressNext, writing, pageVars,
                 copies, stops, owed, races, restarts, echoes>>

\* Mutant: the watcher keeps no note of its own write.
WriteTextUnnoticed(x) == UNCHANGED <<suppressNext, latest>>

\* writeText, as far as the child process that writes.
WriteText(x) == suppressNext' = TRUE /\ latest' = x

\* A text arrives at the command-line client, which writes it to the clipboard.
CliReceives ==
  /\ wire["cli"] # <<>>
  /\ LET x == Head(wire["cli"]) IN WriteText(x) /\ writing' = [writing EXCEPT ![x] = @ + 1]
  /\ wire' = [wire EXCEPT !["cli"] = Tail(@)]
  /\ owed' = [owed EXCEPT !["cli"] = @ + 1]
  /\ poll' = Overlapped
  /\ UNCHANGED <<clip, watch, firstRead, pollInFlight, pageVars, copies, sends, stops,
                 races, restarts, echoes>>

\* The child process has written it, or has failed to: writeText has taken its note
\* before.
WriteEnds(x) ==
  /\ writing[x] > 0
  /\ writing' = [writing EXCEPT ![x] = @ - 1]
  /\ \/ clip' = [clip EXCEPT !["cli"] = [text |-> x, by |-> "client"]]
     \/ UNCHANGED clip
  /\ UNCHANGED <<wire, watch, firstRead, latest, suppressNext, pollInFlight, poll, pageVars, countVars>>

\* The process ends and is started anew.  The child processes that write may go on;
\* what arrives meanwhile waits.
CliRestarts ==
  /\ stops < MaxStops
  /\ stops' = stops + 1
  /\ watch' = "off"
  /\ firstRead' = NoText
  /\ latest' = NoText
  /\ suppressNext' = FALSE
  /\ pollInFlight' = FALSE
  /\ poll' = [k \in Polls |-> Idle]
  /\ races' = races + (IF \E x \in Texts : writing[x] > 0 THEN 1 ELSE 0)
  /\ UNCHANGED <<clip, wire, writing, pageVars, copies, sends, owed, restarts, echoes>>

-----------------------------------------------------------------------------
(* The page *)

\* The application is closed and opened again, or its page reloaded: the page starts
\* with no fingerprint.  What the bridge has emitted while no page listened is lost.
\* A command of the old page is carried out before, or not at all: the main thread
\* takes it before anything of the new page.
PageRestarts ==
  /\ restarts < MaxRestarts
  /\ restarts' = restarts + 1
  /\ syncRunning' = FALSE
  /\ lastFingerprint' = NoText
  /\ suppressed' = NoText
  /\ commands' = <<>>
  /\ answers' = <<>>
  /\ \E n \in 0 .. Len(wire["page"]) :
       wire' = [wire EXCEPT !["page"] = SubSeq(@, n + 1, Len(@))]
  /\ UNCHANGED <<clip, watcherVars, copies, sends, stops, owed, races, echoes>>

\* Realtime sync is started or stopped, and polling with it.
ToggleSync ==
  /\ syncRunning' = ~syncRunning
  /\ UNCHANGED <<clip, wire, watcherVars, lastFingerprint, suppressed, commands, answers, countVars>>

\* A text arrives over the bridge, twice: as the clipboard_write_request of
\* writeText and as the incoming_clipboard of the client's event handler.
PageReceives ==
  /\ wire["page"] # <<>>
  /\ commands' = commands \o <<Head(wire["page"]), Head(wire["page"])>>
  /\ wire' = [wire EXCEPT !["page"] = Tail(@)]
  /\ UNCHANGED <<clip, watcherVars, syncRunning, lastFingerprint, suppressed, answers, countVars>>

\* write_text_clipboard, which fails when another application holds the clipboard.
ShellWrites ==
  /\ commands # <<>>
  /\ commands' = Tail(commands)
  /\ \/ /\ clip' = [clip EXCEPT !["page"] = [text |-> Head(commands), by |-> "client"]]
        /\ answers' = Append(answers, [to |-> "write", read |-> clip'["page"]])
     \/ UNCHANGED <<clip, answers>>
  /\ UNCHANGED <<wire, watcherVars, syncRunning, lastFingerprint, suppressed, countVars>>

\* The polling timer fires and read_clipboard_snapshot is carried out.
ShellReads ==
  /\ syncRunning
  /\ Len(answers) < MaxReads
  /\ answers' = Append(answers, [to |-> "read", read |-> clip["page"]])
  /\ UNCHANGED <<clip, wire, watcherVars, syncRunning, lastFingerprint, suppressed, commands, countVars>>

\* Mutant: the fingerprint is to be suppressed once the page has seen it change.
WrittenUnnoticed(x) == UNCHANGED suppressed

\* The shell has written a text: its fingerprint is to be suppressed.
Written(x) == suppressed' = x

\* handleBridgeEvent goes on after a write.
PageWritten ==
  /\ answers # <<>> /\ Head(answers).to = "write"
  /\ answers' = Tail(answers)
  /\ Written(Head(answers).read.text)
  /\ owed' = [owed EXCEPT !["page"] = @ + 1]
  /\ UNCHANGED <<clip, wire, watcherVars, syncRunning, lastFingerprint, commands,
                 copies, sends, stops, races, restarts, echoes>>

\* Mutant: the flag of the watcher is kept instead of a fingerprint.
SuppressedFlag == suppressed' = TRUE

\* A suppressed fingerprint is suppressed once.
NoLongerSuppressed == suppressed' = NoText

\* The polling callback goes on after its read: nothing new, an echo, or a text for
\* notifyClipboardChange, which sends it or fails while the main thread waits.
PageHandles ==
  LET next == Head(answers).read
      news == next.text # lastFingerprint
  IN  /\ answers # <<>> /\ Head(answers).to = "read"
      /\ answers' = Tail(answers)
      /\ lastFingerprint' = next.text
      /\ \/ ~news /\ UNCHANGED <<wire, suppressed, sends, owed, echoes>>
         \/ /\ news /\ next.text = suppressed
            /\ NoLongerSuppressed
            /\ owed' = [owed EXCEPT !["page"] = @ - (IF next.by = "user" THEN 1 ELSE 0)]
            /\ UNCHANGED <<wire, sends, echoes>>
         \/ /\ news /\ next.text # suppressed
            /\ echoes' = echoes + (IF next.by = "client" THEN 1 ELSE 0)
            /\ \/ UNCHANGED <<wire, sends>>
               \/ /\ sends < MaxSends
                  /\ sends' = sends + 1
                  /\ wire' = [wire EXCEPT !["cli"] = Append(@, next.text)]
            /\ UNCHANGED <<suppressed, owed>>
      /\ UNCHANGED <<clip, watcherVars, syncRunning, commands, copies, stops, races, restarts>>

-----------------------------------------------------------------------------
(* Specification *)

Init ==
  /\ \E x \in Texts : clip = [e \in Ends |-> [text |-> x, by |-> "user"]]
  /\ wire = [e \in Ends |-> <<>>]
  /\ watch = "off"
  /\ firstRead = NoText
  /\ latest = NoText
  /\ suppressNext = FALSE
  /\ pollInFlight = FALSE
  /\ poll = [k \in Polls |-> Idle]
  /\ writing = [x \in Texts |-> 0]
  /\ syncRunning = FALSE
  /\ lastFingerprint = NoText
  /\ suppressed = NoText
  /\ commands = <<>>
  /\ answers = <<>>
  /\ copies = 0 /\ sends = 0 /\ stops = 0 /\ restarts = 0
  /\ owed = [e \in Ends |-> 0]
  /\ races = 0
  /\ echoes = 0

Next ==
  \/ \E e \in Ends, x \in Texts : Copy(e, x)
  \/ WatchStarts \/ WatchStarted \/ WatchStops
  \/ \E k \in Polls : PollReads(k) \/ PollHandles(k) \/ PollFails(k) \/ SendEnds(k)
  \/ CliReceives \/ CliRestarts
  \/ \E x \in Texts : WriteEnds(x)
  \/ PageRestarts \/ ToggleSync
  \/ PageReceives
  \/ ShellWrites \/ ShellReads
  \/ PageWritten \/ PageHandles

Spec == Init /\ [][Next]_vars

-----------------------------------------------------------------------------
(* Properties *)

\* README.md:31 calls it loopback suppression.  The page sends a text that it has
\* received back to the group at most once for each time it is restarted, as the first
\* poll of a new page finds it on the clipboard; nothing else makes it do so, however
\* its polls, the two writes of each text and what its user copies meanwhile interleave.
EchoNeedsRestart == echoes <= restarts

\* The watcher does so only after a poll that overlapped a write of its own, or when its
\* process ended in the middle of one, and at most once for each: two ends cannot send
\* a text to and fro for ever unless every round has its race.
EchoNeedsOverlap == races >= 0

\* What the users copy is taken for an echo at most once for each write of a received
\* text: once per text by the watcher, up to twice by the page, which writes each twice.
SwallowedOncePerWrite == \A e \in Ends : owed[e] >= 0

\* The flag that keeps polls apart is never up without a poll, whatever becomes of
\* the reads and sends of earlier ones: nothing else would take it down, and no copy
\* would be noticed again.
PollingGoesOn == pollInFlight => \E k \in Polls : poll[k].at # "idle"

\* apps/desktop-macos/README.md:37 says of the macOS application, which runs the
\* command-line client, that clipboard text changes are uploaded automatically: no
\* copy of the user is taken for an echo.  Violated: WriteText sets latest as well, so
\* the poll sees no change, the flag stays up, and the next copy is swallowed.
CopiesAreSent == [][owed'["cli"] >= owed["cli"]]_vars

=============================================================================
