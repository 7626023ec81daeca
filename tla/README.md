# SharePaste in TLA+

SharePaste shares a clipboard between the devices of a group.  A server keeps groups,
pairs devices, enforces a sharing policy and relays encrypted items; clients encrypt
what is copied, push it, and write what they receive to their own clipboard.  This
directory models the parts of it in which order, failure and concurrency matter,
checks the models with TLC and proves theorems about them with TLAPS.

Everything is translated from the source; where the text below says "the code", it
means the file the `map` in `PROJECT.json` names for each definition.

## 1. The system

| Component | State it keeps | Operations | Talks to |
|---|---|---|---|
| In-memory store `apps/server/src/store/sharepaste-store.ts` | devices, groups (key, key version, policy), members, bind codes, bind requests, offline queues, presences, ids recently seen | register, recover, remove, bind code / request / confirm, policy, push, ack, fetch, open and close presence | called by the handlers; hands events to presence callbacks |
| Durable store `durable-sharepaste-store.ts`, `postgres-persistence.ts`, `redis-runtime.ts` | the in-memory store, one JSON snapshot row, audit rows, counters in Redis | each method: rate limit, change, export, save, audit | wraps the in-memory store; Postgres, Redis |
| gRPC handlers `services/handlers.ts` | per event stream: the device that said hello | unary calls pass through; `OpenEventStream` | client streams, store |
| Command-line client `apps/client-cli/src/core`, `cli.ts` | state file, session, sync engine, realtime loop and its stream | commands, bootstrap, recovery, start and stop realtime, sync the backlog, reconnect, handle messages, confirm a request, send | server by gRPC, state file, clipboard |
| Clipboard watcher `adapters/clipboard-watcher.ts` | the last text, a suppression flag, a flag for the poll in flight | start, poll, stop, write a text | the clipboard through child processes; the client |
| Client core library `packages/client-core` | ids recently seen, history | policy check, duplicate check, encryption | used by the client |
| Desktop bridge `runtime/runtime-bridge.ts` | the client, ready and running flags | requests of a shell, handled concurrently | client, state file, shell by standard input and output |
| Windows application `apps/desktop-windows` | page: device, sync shown as running, fingerprints; shell: request table, bridge process | load, set up, recover, start and stop sync, change the server's address; poll and write the clipboard | bridge, clipboard |
| macOS application `apps/desktop-macos` | the process of realtime sync | start and terminate it, run a command with a time-out of 5 s | command-line client as subprocesses |
| Android client `apps/mobile-android` | session flow, sync job, inbox | its own sync loop and engine | server by gRPC |
| Rust runtime, LAN discovery, deployment | see `PROJECT.json` | | |

How they interact: clients make unary calls and keep one event stream per device open;
the store is called synchronously by the handlers (in durable mode with awaits after
the change); events flow back through the callback each stream registers with
`openPresence`; the durable store shares nothing between two overlapping calls but
the store itself and the table.  The Windows application talks to a client in a bridge
process; the macOS application starts processes of the client, which share a state
file.

What is hard about it:

* **Pairing** is a protocol of three calls by two devices (a code, a request, an
  approval), with expiry, attempts, capacity, and with devices that are moved or
  removed between the calls.
* **Delivery** is to a presence or to a queue.  Whether a device is present is what
  the server believes, not whether the link works; there is no acknowledgement for an
  item written to a stream.
* **The client** runs handlers of several streams, a start in progress and key
  updates interleaved at every `await`, with any RPC failing before or after it took
  effect, writes that fail or are cut off, links that break without a word, and process
  restarts that forget what was seen.
* **Durable mode** changes memory first and saves later, several calls at once,
  through a pool of connections, and may crash in between.
* **The clipboard** is polled, and both ends write what they receive to the clipboard
  they poll: a write, a poll that read before it and a copy of the user may come in any
  order, and an echo that is sent comes back.
* **The state file** holds the device of a host.  Several processes read it when they
  start and write it whole, without a lock, and any of them may be terminated.
* **The bridge** handles requests concurrently.  The shell sends one at a time but gives
  up after 60 s, and a bridge that has died is replaced in passing.

What makes each part correct:

* store: the two records of membership agree; capacity; attempts and expiry; a device
  is moved only with its consent and the issuer's; each entry rotates the key and
  tells those online; nothing accepted goes missing; items stay within their group;
  removal is final; duplicates are recognised;
* client: an item is written once while the client remembers it, is never just gone, and
  the loop recovers;
* clipboard: no endless echo, and no copy of the user taken for one without cause;
* state file: fit to be read, or made so again by the next save, and of the device that
  occupies the host's seat;
* bridge: one loop, serving the client's device, which the page knows of and can stop, and
  no more of them than requests were given up;
* durable store: a restart finds a past state, success means saved, the limit holds.

The hazards behind these, each at its line, are the list `hazards` of `PROJECT.json`.

## 2. Modules

| Module | What it is |
|---|---|
| `SharePasteStore` | the in-memory store, one action per method (the core) |
| `GroupMembership` | abstract: who is in which group, and the version of its key |
| `Mailboxes` | abstract: an item goes to a callback or waits in a queue |
| `RealtimeClient` | one command-line client, its event streams, the server half that serves it |
| `DurableStore` | calls of the durable store, snapshot writes, rate limit, crashes |
| `ClipboardLoop` | the clipboard watcher and the page's polling, sending to one another |
| `ClientState` | the state file and the processes of the macOS application that share it |
| `DesktopBridge` | page, shell, bridge and realtime loops of the Windows application |
| `SharePasteStore_proofs` | theorems about the store: types, membership, capacity, consent, rotation |
| `SharePastePairing_proofs` | theorems about the store: attempts, and that it implements `GroupMembership` |
| `SharePasteDelivery_proofs` | theorems about the store: delivery, duplicates, who is sent to, removal, and that it implements `Mailboxes` |
| `DurableStore_proofs`, `RealtimeClient_proofs`, `ClipboardLoop_proofs`, `ClientState_proofs`, `DesktopBridge_proofs` | the theorems about each of these |
| `MC_Pairing`, `MC_Relay`, `MC_Regroup`, `MC_Client`, `MC_Durable`, `MC_Clipboard`, `MC_Session`, `MC_Desktop` | instances for TLC |

`SharePasteStore` implements `GroupMembership` (through `groupDevices`, the key versions
and the removed devices) and `Mailboxes` (through queues, presences and what callbacks
have been handed).  `RealtimeClient` contains the server's half of one device again, in
less detail, so that the client can be explored with its streams; that half, too, is
checked and proved to implement `Mailboxes`.  This is how the two modules are held together: what
the client's module assumes of delivery is what the store is shown to do.

### SharePasteStore

Variables have the names of the fields of the class.  The process is single-threaded
and no method awaits, so each method is one action, with the sweep of expired entries
(`cleanupExpired`) as part of those that start with it.  A method that throws keeps what it changed before:
`RequestBindRefused` spends the attempt.  Calls that sweep and then only read or refuse
are one action, `CleanupExpired`.  `Restart` is a restart in durable mode with the
snapshot up to date; what happens when it is not is the subject of `DurableStore`.

Abstractions: codes and requests are numbered in the order they are made (`nextId`), a
key is its version, an item its id and kind, a policy the set of kinds it admits; names,
platforms, LAN addresses and `lastSeenUnix` are left out, and `renameDevice` with them.
`wire` collects what each callback has been handed; `pushLog` and `acked` are history,
read by properties only.  A queue is a set of envelopes: `fetchOffline` sorts what it returns
by creation time, so their order in the queue shows nowhere.  `AckItem` is enumerated over the
items the device has been handed or has in its queue, since for any other it changes nothing.

### RealtimeClient

What runs between two awaits is one action.  `phase` says what `bootstrap`,
`startRealtime` or the loop it started is waiting for; `acks`, `saves` and `writing` are
the continuations of handlers and of `syncOffline` (as the worker `NoStream`).
`applyIncoming` marks an item as seen and begins to write it in one step (`Apply`); the
write of the clipboard or the file ends in another (`Written`), fails (`NotWritten`), or is
cut off by the end of the process (`Restart`), and an item that fails stays marked.  The write
of the state file likewise ends, fails, or is forgotten with the process.  `recentlySeen` is a
list that drops its first id when it holds more than `SeenSize` (1000 in the code); ids of items the
device sends itself (`Own`) are noted in it, too.  The client may approve a request of its
own (`ConfirmBind`, when `Approves`), and takes the new key from the answer.  After a restart
it goes through `bootstrap` (`Booting`) before a start.

A stream is the list of messages the server wrote to it and how many the client has handled; a
link that breaks loses the rest.  The client is told of the end (`StreamEnds`) unless the
link broke in silence (`silent`): the channels are made with no options (grpc-client.ts:148),
so without keepalive, and after hello the client writes nothing, so that nothing
obliges such a link to be noticed.  The server hears of an end later or
never (`ServeEnd`).  An `AckItem` may be carried out and its answer lost.  A stream the client
has given up because a handler failed is *not* cancelled in the code, and so its handlers go
on here, too.

The stream's first message ("connected") and the pairing requests are left out, since
the client does nothing with them but log and call a callback.  What a save that fails leaves
of the state file is the subject of `ClientState`: here it leaves the key that was there.
Other devices are what they do to this one: push items sealed
with the present or an older key, and rotate the key.  `age`, `applied`, `failed` and `cut` are
history.

### DurableStore

A call goes through the stages of `withPersist`.  The content of the store is abstracted
to the set of calls that have changed it, so that "an older snapshot" is a smaller
set.  The write of a snapshot is one atomic statement (`INSERT ... ON CONFLICT`), but a
call whose answer is lost may have been carried out, and a crash leaves at most one of
the writes under way to land (several landing one after another leave the same table as
the last of them alone).  A call that throws (`ChangeRefused`) changes nothing here: the
attempt a refused `requestBind` has spent in memory is a detail of the content that is abstracted,
and `SharePasteStore` has it (`RequestBindRefused`).  `granted`, `saved` and `overtaken` are history.

### ClipboardLoop

Two members of a group, each with a clipboard.  One runs the command-line client: the
watcher's timer, `pollOnce`, `writeText` and `stop` are actions, each up to its next
`await`, and the child processes that read and write the clipboard end in any order.
The other runs the Windows page: `commands` is what it has asked the shell to write,
`answers` what the shell has answered; every received text is written twice, because
the bridge reports it both as a write request and as an incoming item.

Writes may fail: a child process, or the shell when another application holds the
clipboard.  The process of the watcher may end and be started anew (`CliRestarts`), with the
processes that write for it going on; the page may be closed and opened, or reloaded
(`PageRestarts`), and starts without a fingerprint (main.js:23), so that its first poll
takes whatever is on the clipboard for new.

Clipboards remember who put their text there.  `owed` counts, per end, the writes
it has noted less the copies of the user taken for an echo; `echoes` counts the texts the page
sent that it had written itself; `races` counts the changes found
by polls that overlapped a write, a stop or another poll, and the ends of the process in the
middle of a write, less the echoes the watcher sent.  Images,
empty clipboards, policy and keys are left out, and texts arrive once and in order: what
may happen to them on the way is the subject of `RealtimeClient`.

### ClientState

One action per `await` of `bootstrap`, `recoverGroup`, `startRealtime`'s refresh,
`confirmBind` and the handler of a key update, as far as the state file, the session and
the server's record of the device go.  `at` says what a task waits for, `held` the state
it will write, `goal` what follows.  `writeFile` truncates the file (`OpenForSave`) and
later writes it (`SaveEnds`); a task writes to the file it opened, also if that has been
deleted (`linked`).  A save may fail before the open, at it, or after it with the file torn
(`SaveFails`); a command and the process of sync then end, while the rejection of a handler
is caught by the stream's callback (sharepaste-client.ts:453) and the process goes on with the key it
has.  A key that cannot be opened is heard and not kept (`UpdateArrives`).  Two writers of one file leave the last one's contents, or a mixture
of the two that is no JSON (`Torn`); a file of the same length written twice is whole
again.

`Run` is the process the macOS application keeps running, `Commands` those it starts
besides and terminates after 5 s.  `excused`, `crowd`, `spoilt` and `unkept` are
history, and the exceptions the properties make: the devices given up by a recovery or lost
with the answer or the save that brought them; those whose identity was made while another
process was alive; whether the write of the file's present contents was not alone or not
finished; whether the newest key came while another was handled or could not be kept.  The
last two are taken back: by the next write that is alone, and by the next update that comes
alone and is kept (or the next refresh).  They say how long the damage lasts.

### DesktopBridge

`queue` holds the jobs the page has under way, each a list of requests still to be made;
the shell serves the head of the first, one at a time, since its commands run on its main
thread.  `reqs` are the requests of the bridge, of which two can be under way once the
shell has given one up.  Each handler is one action per `await`.  A loop is reduced to
whether its stream is open, cut or paused, and the device it was started for; what it
does with messages is the subject of `RealtimeClient`.

`Inspect` fails when there is a file that is not valid.  `BridgeEnds` is one step: on Windows
the shell kills `npm.cmd` (main.rs:316) and the node process below it ends when it notices
that its standard input has (runtime-bridge.ts:353).  In between it gets no request and the
page no longer hears of it; a call or save it may still finish then is cut off in the model.

## 3. What is checked

| Run | Instance | Shows |
|---|---|---|
| `pairing` | 3 devices, 2 groups of at most 2, 3 codes and requests, 2 instants, no items | `TypeOK`, `MembershipAgrees`, `CapacityRespected`, `AttemptsAccounted`, `MovedOnlyWithConsent`, `RotationAnnounced`, refinement of `GroupMembership` |
| `relay` | 2 devices in 1 group, 3 items of a kind the first policy refuses, window of 2, 4 fan-outs | `DedupWindow`, `AcceptedItemAccounted`, refinement of `Mailboxes` |
| `regroup` | 3 devices, 2 groups, 1 item, 2 fan-outs | `AcceptedItemAccounted` across moves and removal, `SentWithinGroup`, `RemovedForGood` |
| `client` | 2 items, a window of 1 id, 2 streams, 2 keys, 2 runs of the process | `TypeOK`, `AppliedOncePerWindow`, `NothingVanishes`, `NoPresenceAfterEnd`, `AckedWasRead`, refinement of `Mailboxes` |
| `client_live` | 1 item, 1 of its own, approvals, 1 silent link at a time, otherwise the same bounds, fairness | `LoopRecovers` |
| `durable` | 3 rate-limited calls with a limit of 2, 1 other change, 1 presence call, 1 crash | `TypeOK`, `SnapshotsOfThePast`, `ConfirmedWasSaved`, `OnlyOvertakingLoses`, `LimitKept` |
| `clipboard` | 2 texts, 2 polls, 2 copies, 2 sends, 1 stop or end of the watcher, 1 restart of the page, 2 answers under way | `TypeOK`, `EchoNeedsRestart`, `EchoNeedsOverlap`, `SwallowedOncePerWrite`, `PollingGoesOn` |
| `session` | 1 command beside the process of sync, 2 handlers, 2 devices, 3 keys, 1 termination | `TypeOK`, `FileFit`, `SeatsAccounted`, `NewestKeyKept` |
| `desktop` | 2 requests, 3 loops, 2 devices, 3 clicks, 1 time-out, 1 death | `TypeOK`, `OneLoop`, `LoopsCounted`, `PageInStep`, `LoopServesDevice`, `StopCompletes` |

Three more runs each check one sentence of the documents that the code does not keep,
and end with TLC's counterexample:

| Run | The document | The code |
|---|---|---|
| `clipboard_copy` | desktop-macos/README.md:37, text changes are uploaded automatically | after a received text the next copy is taken for its echo |
| `client_presence` | PRD-v0.1-internal-pilot.md:82, reconnection succeeds | the old stream's late end closes the new presence |
| `durable_loss` | TECH-DESIGN-v0.1.md:9, Postgres is the source of truth | an overtaking snapshot write and a crash lose a confirmed change |

Several properties hold only with the exceptions they state, and the exceptions are what
a reader should know about the code:

* `AppliedOncePerWindow` is about the window: an item whose `AckItem` failed comes again over a
  later backlog, and is written again once `recentlySeen` has dropped its id.
* `AckedWasRead` admits items whose decryption or write failed in this run: an item is marked
  as seen before either, so one that failed is taken for a duplicate and acknowledged when it
  comes round again.  A failure of an earlier run, or a write that the end of the process cut
  off, is made good by the next start.
* `NothingVanishes` admits what no start makes good: an item of a stream, which is in no queue,
  is gone when its write fails (it is reported), when the process ends in the middle of it
  (`cut`), or when the link breaks before it is read.  It also admits items
  that wait in the queue of a client that is connected: the reconnect loop fetches no
  backlog, which waits for the next `startRealtime`, although TECH-DESIGN-v0.1.md:75 has it
  that a "Peer fetches backlog on reconnect".
* `LoopRecovers` is about links whose end is reported.  One that breaks in silence leaves
  `connectOnce` waiting until somebody stops it.
* `EchoNeedsRestart` says that the page does echo after a restart, when a received text is
  still on the clipboard: once, and for nothing else.
* `EchoNeedsOverlap` does not say that the watcher never echoes.  A poll that read before
  `writeText` and goes on after it sets `latest` back to the old text; the next poll finds
  the received text new, and sends it.
* `SwallowedOncePerWrite` allows two copies per text at the page, which writes each twice.
* `SeatsAccounted` excepts a device whose identity is made (`recover`, or a reset of a stale
  state) while the process of sync is alive: that process writes its old device back at
  its next key update, and the new device occupies a seat nobody can use.  Nor does it
  hold while the file is spoilt.
* `FileFit` excepts a file whose write failed, was cut off by a termination, or met another
  one.  A save that comes alone, of a process that is still running, puts it right; if none is,
  every command but `recover` ends with `STATE_FILE_INVALID` from then on.
* `NewestKeyKept` excepts a newest key that came while an older one was being saved, which may
  then win, or that could not be opened or saved; until the next update that comes alone and is
  kept.
* `LoopServesDevice` and `PageInStep` fail when the device is replaced under a running
  loop: the page finds sync running and starts nothing, so the loop goes on for the old
  device.  A recovery that fails leaves the bridge ready with no device.
* `OneLoop` and `StopCompletes` fail after a request was given up and overlapped the next:
  two starts begin two loops, and a stop may cancel one and wait for the other.  `LoopsCounted`
  has no exception: there is never more than one loop besides those of requests given up.
* `PageInStep` fails when the bridge has died: the page goes on showing sync as running.

Every property of a passing run has a mutant in `PROJECT.json`: a version of one
definition with a plausible bug, defined just before the right one, which TLC finds to
violate the property.

**Why the bounds are enough.**  In `pairing`, three devices are the least for two
requesters racing for the last place of a group of two; three numbers allow a code and
two requests on it, or two codes and a request; two instants are the moment before
expiry and expiry itself.  In `relay`, a window of two overflows at the third item and
the fourth fan-out is the first that can repeat an id that was evicted.  In
`regroup`, one item travels through a move and a removal in either order.  In
`client`, two streams are an old one and its successor, two keys an old and a new one,
two runs a restart in the middle of anything; two items are needed for a backlog of
which the first item fails, and for one to push the other out of a window of one id.  In `durable`, three calls against a limit of two, one
more change and a presence call give writes that overtake each other in every way.
In `clipboard`, two texts are enough for a text to be new or known, two polls for one that
outlived a stop, two sends for an echo and its answer, and one restart for an
echo that is allowed.  In `session`, two devices are an
old identity and a new one, three keys two updates after the first; one command beside
the process of sync gives every overlap of two processes.  In `desktop`, three clicks are
a start, a stop and a start again or a recovery between them; two requests overlap, one time-out gives a second loop, and the third is one more than may run.  (With
two time-outs, three requests and four clicks `LoopsCounted` was checked once, too.)
Devices, groups and items are symmetric where they are interchangeable; the runs
of liveness properties and those that end with a counterexample use no symmetry.

**Deadlock** is checked in the runs of the store, where some call is always possible.  It is not in
the others: there streams, calls, copies, terminations and clicks are used up, and what
was stopped really does stop.

**Fairness** (`client_live`): weak fairness of the loop's timer, of the end of a stream that
is reported to the client, and of the delivery of a hello whose link stays up.  Node.js fires
its timers and emits the events it has, and TCP delivers what it can.  Nothing is assumed of
RPCs, which have no deadline, of writes, of handlers, of links that break in silence, of users, of
other devices, or of the server hearing of
the end of a stream.  `LoopRecovers` excuses the model's last stream, after which the
model has no further one to open.

In `desktop`, weak fairness of each request's handler, and of the end of a stream that was
cancelled and of the loop's pause: an answer or an error comes (gRPC calls of a client to
a server that is gone fail), Node.js ends a stream it has cancelled, and the timer fires.
Nothing says that an open stream ever ends, and nothing is assumed of the page, of the
shell or of the user.  So `StopCompletes` rests on `stopRealtime` cutting the stream
the loop waits for.

`DedupWindow` says *at least* `SeenWindow` other ids; that a duplicate is accepted after
those is what the bounded window of TECH-DESIGN-v0.1.md:93 means.

## 4. What is proved

For every value of the constants that meets the `ASSUME`s of the modules:

| Theorem | Says |
|---|---|
| `SharePasteStore_proofs!TypeCorrect` | `Spec => []TypeOK` |
| `MembershipCorrect` | `Spec => []MembershipAgrees` |
| `CapacityCorrect` | `Spec => []CapacityRespected` |
| `ConsentCorrect` | `Spec => MovedOnlyWithConsent` |
| `RotationCorrect` | `Spec => RotationAnnounced` |
| `SharePastePairing_proofs!AttemptsCorrect` | `Spec => []AttemptsAccounted` |
| `MembershipImplemented` | `Spec => ImplementsMembership`: the store implements `GroupMembership` |
| `SharePasteDelivery_proofs!DeliveryCorrect` | `Spec => []AcceptedItemAccounted` |
| `WindowCorrect` | `Spec => []DedupWindow` |
| `SentCorrect` | `Spec => SentWithinGroup` |
| `RemovalCorrect` | `Spec => RemovedForGood` |
| `MailboxesImplemented` | `Spec => ImplementsMailboxes`: the store implements `Mailboxes` |
| `DurableStore_proofs!TypeCorrect` | `Spec => []TypeOK` |
| `LimitCorrect` | `Spec => []LimitKept` |
| `PastCorrect` | `Spec => []SnapshotsOfThePast` |
| `ConfirmationCorrect` | `Spec => []ConfirmedWasSaved` |
| `LossCorrect` | `Spec => []OnlyOvertakingLoses` |
| `RealtimeClient_proofs!TypeCorrect` | `Spec => []TypeOK` |
| `PresenceCorrect` | `Spec => []NoPresenceAfterEnd` |
| `OnceCorrect` | `Spec => AppliedOncePerWindow` |
| `AckCorrect` | `Spec => AckedWasRead` |
| `NothingLost` | `Spec => []NothingVanishes` |
| `MailboxImplemented` | `Spec => ServerIsMailbox`: the client's server half implements `Mailboxes` |
| `LoopHeard` | `Spec => []LoopIsHeard /\ LoopStays`: the handlers of the stream the loop waits for are attached, so that an end which is reported reaches it, and only a stop or the end of the process takes the client out of it |
| `ClipboardLoop_proofs!TypeCorrect` | `Spec => []TypeOK` |
| `PollingCorrect` | `Spec => []PollingGoesOn` |
| `SwallowedCorrect` | `Spec => []SwallowedOncePerWrite` |
| `PageCorrect` | `Spec => []EchoNeedsRestart` |
| `RaceCorrect` | `Spec => []EchoNeedsOverlap` |
| `ClientState_proofs!TypeCorrect` | `Spec => []TypeOK` |
| `FileCorrect` | `Spec => []FileFit` |
| `KeyCorrect` | `Spec => []NewestKeyKept` |
| `SeatsCorrect` | `Spec => []SeatsAccounted` |
| `DesktopBridge_proofs!TypeCorrect` | `Spec => []TypeOK` |
| `OneLoopCorrect` | `Spec => []OneLoop` |
| `DeviceCorrect` | `Spec => []LoopServesDevice` |
| `PageCorrect` | `Spec => []PageInStep` |
| `StopHeard` | `Spec => []StopIsHeard`: what a stop waits for is a loop whose stream was cancelled, or that pauses, unless a request was given up |

*The store.*  The types alone are not inductive: an approval indexes the groups by the
group of the issuer, and only `MembershipAgrees` says that this is a group.  So types
and membership are proved together.  Five actions touch the records of membership, and
the lemma `MovedMembers` (what the member sets are after a move) carries the one that
is not obvious.  Capacity needs that the member sets are finite, hence that
`Devices` is.  Consent needs one more invariant: no code and no request is good for
longer than `BIND_TTL_SECONDS` from now.  The two action properties are proved of one
step from a state that satisfies the invariant; `RotationCorrect` covers every change of
a key, that of a member's second request as well as that of an entry, and says that both
reach whoever is in the group after the move and online.  `AttemptsInv` adds that a number names one
code and that no request quotes a number not yet given out: without the first a request
would count against two codes, without the second a new code could have requests.  The
refinement of `GroupMembership` needs that an active device has never been removed and that
a newcomer is in no group (`WhoIsWho`); each call, the sweep and the restart then
maps to a step or to none.

*Delivery.*  `AccountsInv` is the property with `PresenceOwn`: a presence is a callback of
the device it stands for, so that what a device is sent reaches a callback of its own.
What callbacks have been handed only grows, and what leaves a queue is too old or was
acknowledged; an item accounted for stays so by these two lemmas, and the refinement of
`Mailboxes` rests on the same description of a step.  `WindowInv` says what the ids
remembered for a group are: those of its latest pushes, in their order, as many
as the window holds.  With it goes that a group which has had a push goes on existing, since
making it anew would empty its window.  `SentCorrect` and `RemovalCorrect`
start from a callback that is handed something new: it is the presence of a device the
event was for (`NotifiedPresent`), and of no other device, since a callback is made for one call of
`openPresence` (`CallbackAssumption`).  Removal needs besides that only an active device is
present (`PresentActive`) and that no step touches a device once it is removed, codes and
requests it left behind included.

*The durable store.*  `SnapshotInv` strengthens the three properties about
snapshots by "a change that is being saved is in its own snapshot"; three lemmas say what
every step is to it: nothing, a snapshot taken, or a snapshot written.  `LimitInv`
strengthens the limit by the observation on which it rests: a call that has yet to set
the time to live is the only one, and has been counted but not let pass.

*The client.*  `WindowInv` says what `recentlySeen` holds: an id's age is its distance from
the end of the list, and an item that is not in it has the greatest age there is; so a write,
which begins only for an item not in it, begins for one of that age.  `RouteInv` says that an
item comes from the queue or over a stream, never both ways.  `MarkedInv` says that what is
marked was written or failed in this run or is being written, and that what `syncOffline`
acknowledges was written or failed; with `RouteInv`, no handler is still writing what the queue
is asked to forget.  `StreamInv` says that no more of a stream is handled than was sent, and
that an item on it is unread or landed: written, failed, being written or cut off.  Presence needs that a stream not yet opened is
unknown to the server.  The refinement of `Mailboxes` takes the items written to each stream for
what its callback was told; all the client does is a step of the abstract queue or none.
`HeardInv` (the loop waits for a stream just while it is streaming, and that stream's
handlers are attached) is what `LoopRecovers` rests on, and is proved with the action
property that no failure takes the client out of its loop.

*The clipboard.*  `OwedInv`: a note that has not been used is owed.  `EchoInv`: whatever
text of the group is on the page's clipboard is known to the page, or will be by the
answers under way, which come in order, or the page has just been restarted and has an echo
to its credit (`Fresh`).  `RaceInv` says what holds of the watcher as long as
no overlap is left to pay for: polls are alone, no write is under way, and what is on the
clipboard is what `latest` says or was put there by the user.

*The state file.*  Types need `DevicesActual`: nobody uses the blank device.
`FileInv` says that the file is torn only while somebody writes or when it is spoilt, that it
is torn while one task writes alone, and that two writers spoil it.
`KeyInv` says that handlers run only while sync is up, and that, unless the newest key is
`unkept`, at most one runs and holds that key.  `SeatsAccounted` takes the most: `PlacesInv`
says for which device each process and handler works and that the server knows it.  `SeatsInv`
then says why a device that counts (it is registered, not removed, and no exception) keeps its
seat: every process that is alive works for it, it is in the file or on its way there
(`Brings`) unless the file is torn, and whoever writes writes to the file at the path.  A second
identity can only be made when no process is alive, and then the first is given up or removed;
or it is noted in `crowd`, which `Watch` does after every step.

*The bridge.*  One invariant, `IInv`, carries the four properties: a dead bridge has no
requests and no loops; only the shell's call is under way unless one was given up
(`AloneInv`); the stream a stop would cancel is open; `realtimeLoop` is the loop that runs,
and whoever is about to start one still sees none; the session is the device of the
file, or nobody's; and the page is in step, lagging by exactly what the answer it waits
for will tell it.  That last part is what makes `PageInStep` inductive, since the property
itself speaks only of moments when nothing is under way.  `CutInv` adds that the one open
stream is the one a stop would cancel, and that none is open while a stop is under way; hence
`StopHeard`, on which `StopCompletes` rests.  `LoopsCounted` is model-checked only.

The assumptions are those a caller would expect: finitely many devices, positive limits,
model values that are not members of the sets they stand outside of, and a callback that
belongs to one device (`handlers.ts` makes it for the call).

Only model-checked: `LoopsCounted`, and liveness, `LoopRecovers` and `StopCompletes`, which is
out of the prover's reach.  What they say without fairness, that nobody is left waiting for something
that will not be told to it, is proved (`LoopHeard`, `StopHeard`); that the steps left
are then taken is what TLC shows on the instances `client_live` and `desktop`.  The three
properties of the runs that end with a counterexample are false, and so not proved.

## 5. What is not modelled, and the plan

Not modelled: cryptography (no state; decryption succeeds exactly with the key of the
item), LAN discovery (no influence on delivery), message conversion, presentation, build
and deployment; the Rust port of the client core library, which no shell uses yet.  Of the
components that are modelled: images and files (their storage, and their way to the
clipboard of the Windows page), the user interfaces, the history, and the client's own
check of the policy, which the server repeats.  A client is modelled three times, from
three sides (`RealtimeClient`: messages; `ClientState`: its file; `DesktopBridge`: calls
that overlap), not as one composition, which TLC could not explore.

Not modelled yet, in the order planned:

1. `AndroidSync`: the sync loop of `SharePasteRepository.kt`, in which the next message
   cancels the handler of the previous one, with its session flow and service; over the
   same `Mailboxes`.
2. Policy engine and sync engine of the client core library and of its Rust port as
   algorithms, against reference definitions.
