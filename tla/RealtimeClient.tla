--------------------------- MODULE RealtimeClient ---------------------------
(***************************************************************************)
(* One device running the command-line client (SharePasteClient in         *)
(* apps/client-cli/src/core/sharepaste-client.ts), the event streams it    *)
(* opens (OpenEventStream in apps/server/src/services/handlers.ts) and the *)
(* part of the server's store that serves it: its queue and its presence.  *)
(*                                                                         *)
(* The client is one Node.js process: what runs between two awaits is one  *)
(* action, and the handlers of messages that have arrived meanwhile run    *)
(* interleaved.  A unary RPC is one action, which succeeds or fails; an    *)
(* AckItem may be carried out and its answer lost.  An event stream is a   *)
(* FIFO of the messages the server has written to it, of which the client  *)
(* has read the first got[s]; when its link breaks, or the client cancels  *)
(* it, what was not read is lost.  The client is told that a stream ended  *)
(* unless its link broke silently: its channels have no keepalive          *)
(* (grpc-client.ts), so nothing obliges such a link to report anything.    *)
(* The server may hear of the end at any later time, or never.             *)
(*                                                                         *)
(* The writes of the process (to the clipboard, to files of received       *)
(* items, to the state file) are awaited: each begins in one step and      *)
(* ends, fails or is cut off by the end of the process in another.         *)
(*                                                                         *)
(* A group key is named by its version.  An item is sealed with the key    *)
(* its sender had, which may be older than the group's.  Other devices,    *)
(* the expiry of queued items and removal are left to SharePasteStore.     *)
(***************************************************************************)
EXTENDS Integers, FiniteSets, Sequences

CONSTANTS
  Items,       \* items other members send to this device
  Own,         \* ids of items the device itself sends
  Approves,    \* whether its user approves requests to join the group
  SeenSize,    \* how many ids recentlySeen holds (1000)
  NoStream,    \* no event stream
  MaxKey,      \* bound of the model: versions of the group key
  MaxStreams,  \* bound of the model: event streams ever opened
  MaxSilent,   \* bound of the model: links broken silently at one time
  MaxRuns      \* bound of the model: runs of the client process

ASSUME ClientAssumption ==
  /\ MaxKey \in Nat \ {0}
  /\ MaxStreams \in Nat
  /\ MaxSilent \in Nat
  /\ MaxRuns \in Nat \ {0}
  /\ SeenSize \in Nat \ {0}
  /\ Approves \in BOOLEAN
  /\ NoStream \notin Nat
  /\ Items \cap Own = {}

Streams == 1 .. MaxStreams
Keys    == 1 .. MaxKey
Ids     == Items \cup Own

\* Who works on an item: the handler of a stream, or syncOffline (NoStream).
Workers == Streams \cup {NoStream}

VARIABLES
  \* the server
  keyVersion,   \* groupKeyVersion of the group the device is in
  sealedWith,   \* the key each item was sealed with, 0 before it is pushed
  queue,        \* the items offline holds for the device
  presence,     \* the stream whose callback presences holds, or NoStream
  session,      \* how far OpenEventStream has got with each stream
  sent,         \* the messages call.write has been given for each stream
  \* the network
  opened,       \* number of streams opened so far
  linkUp,       \* the streams whose two ends are connected
  silent,       \* the broken streams nothing reports to the client
  \* the client process
  run,          \* which run of the process this is
  phase,        \* what bootstrap, startRealtime, or the loop it started, waits for
  stream,       \* the stream connectOnce waits for, or NoStream
  stopRequested,
  listening,    \* the streams whose handlers are attached and may still fire
  got,          \* how many messages of each stream have been handled
  key,          \* groupKeyVersion of the session's state
  savedKey,     \* groupKeyVersion of the state file
  base,         \* key of the state bootstrap or startRealtime works with: the one it
                \* began with, then the one fetched; 1 when neither is under way
  saves,        \* <<stream, version>>: saves of the state file under way
  batch,        \* items fetchOffline returned and syncOffline has left to do
  writing,      \* <<worker, item>>: awaited writes of an item
  acks,         \* <<worker, item>>: awaited AckItems
  seen,         \* recentlySeen of the sync engine, oldest first
  \* history
  age,          \* ids noted since the item was, in this run; SeenSize: as many or more
  applied,      \* the items that ever reached the clipboard or their file
  failed,       \* the last run in which applyIncoming threw on the item, 0: none
  cut           \* items of a stream a process was writing when it ended

serverVars  == <<keyVersion, sealedWith, queue, presence, session, sent>>
networkVars == <<opened, linkUp, silent>>
startVars   == <<base, batch>>
loopVars    == <<phase, stream, stopRequested, listening>>
keyVars     == <<key, savedKey, saves>>
historyVars == <<age, applied, failed, cut>>
itemVars    == <<writing, acks, seen, historyVars>>
clientVars  == <<run, startVars, loopVars, got, keyVars, itemVars>>
clientNetVars == <<serverVars, networkVars, clientVars>>

Clip(i)   == [type |-> "clipboard", item |-> i]
NewKey(v) == [type |-> "group_key_update", version |-> v]
Message   == {Clip(i) : i \in Items} \cup {NewKey(v) : v \in Keys}

\* bootstrap of a process that found a state file: the client has no session yet.
Booting == {"booting", "bootSaving"}

Phases == {"stopped", "refreshing", "saving", "fetching", "syncing", "streaming",
           "waiting"} \cup Booting

\* Every variable has its type.
TypeOK ==
  /\ keyVersion \in Keys
  /\ sealedWith \in [Items -> 0 .. MaxKey]
  /\ queue \in SUBSET Items
  /\ presence \in Streams \cup {NoStream}
  /\ session \in [Streams -> {"unused", "hello", "live", "ended"}]
  /\ sent \in [Streams -> Seq(Message)]
  /\ opened \in 0 .. MaxStreams
  /\ linkUp \in SUBSET Streams
  /\ silent \in SUBSET Streams
  /\ run \in 1 .. MaxRuns
  /\ phase \in Phases
  /\ stream \in Streams \cup {NoStream}
  /\ stopRequested \in BOOLEAN
  /\ listening \in SUBSET Streams
  /\ got \in [Streams -> Nat]
  /\ key \in Keys
  /\ savedKey \in Keys
  /\ base \in Keys
  /\ saves \in SUBSET (Workers \X Keys)
  /\ batch \in SUBSET Items
  /\ writing \in SUBSET (Workers \X Items)
  /\ acks \in SUBSET (Workers \X Items)
  /\ seen \in Seq(Ids) /\ Len(seen) <= SeenSize
  /\ age \in [Items -> 0 .. SeenSize]
  /\ applied \in SUBSET Items
  /\ failed \in [Items -> 0 .. MaxRuns]
  /\ cut \in SUBSET Items

-----------------------------------------------------------------------------
(* The server and the other devices *)

\* sent after call.write(m) on the stream the presence was opened with.
WriteToPresence(m) == [sent EXCEPT ![presence] = Append(@, m)]

\* Mutant: the item is queued for a device that is present, too.
PushAndQueue(i, v) ==
  /\ sealedWith[i] = 0
  /\ sealedWith' = [sealedWith EXCEPT ![i] = v]
  /\ queue' = queue \cup {i}
  /\ \/ presence = NoStream /\ UNCHANGED sent
     \/ presence # NoStream /\ sent' = WriteToPresence(Clip(i))
  /\ UNCHANGED <<keyVersion, presence, session, networkVars, clientVars>>

\* pushClipboardItem by another member, as far as this device goes.
Push(i, v) ==
  /\ sealedWith[i] = 0
  /\ sealedWith' = [sealedWith EXCEPT ![i] = v]
  /\ \/ presence = NoStream /\ queue' = queue \cup {i} /\ UNCHANGED sent
     \/ presence # NoStream /\ sent' = WriteToPresence(Clip(i)) /\ UNCHANGED queue
  /\ UNCHANGED <<keyVersion, presence, session, networkVars, clientVars>>

\* confirmBind on the server: the group of this device has a new key.
NewGroupKey ==
  /\ keyVersion < MaxKey
  /\ keyVersion' = keyVersion + 1
  /\ \/ presence = NoStream /\ UNCHANGED sent
     \/ presence # NoStream /\ sent' = WriteToPresence(NewKey(keyVersion'))
  /\ UNCHANGED <<sealedWith, queue, presence, session, networkVars>>

\* Another member approves a request, or moves this device into its group.
Rotate == NewGroupKey /\ UNCHANGED clientVars

\* The client approves one itself, and takes the new key from the answer, too.
ConfirmBind ==
  /\ Approves
  /\ phase \notin Booting
  /\ NewGroupKey
  /\ saves' = saves \cup {<<NoStream, keyVersion'>>}
  /\ UNCHANGED <<run, startVars, loopVars, got, key, savedKey, itemVars>>

\* The hello of stream s reaches OpenEventStream: connectedDeviceId is set and
\* openPresence replaces whatever presence there was.
ServeHello(s) ==
  /\ session[s] = "hello"
  /\ s \in linkUp
  /\ session' = [session EXCEPT ![s] = "live"]
  /\ presence' = s
  /\ UNCHANGED <<keyVersion, sealedWith, queue, sent, networkVars, clientVars>>

\* Mutant: the end of a stream leaves the presence alone.
PresenceAfterEndKept(s) == presence

\* closePresence(connectedDeviceId): by device, whichever stream it belongs to.
PresenceAfterEnd(s) == IF session[s] = "live" THEN NoStream ELSE presence

\* "end" or "error" of stream s is emitted on the server.
ServeEnd(s) ==
  /\ session[s] \in {"hello", "live"}
  /\ s \notin linkUp
  /\ session' = [session EXCEPT ![s] = "ended"]
  /\ presence' = PresenceAfterEnd(s)
  /\ UNCHANGED <<keyVersion, sealedWith, queue, sent, networkVars, clientVars>>

\* The connection under stream s breaks, with or without a report to the client.
LinkBreaks(s) ==
  /\ s \in linkUp
  /\ linkUp' = linkUp \ {s}
  /\ \/ UNCHANGED silent
     \/ Cardinality(silent) < MaxSilent /\ silent' = silent \cup {s}
  /\ UNCHANGED <<serverVars, opened, clientVars>>

-----------------------------------------------------------------------------
(* startRealtime *)

\* startRealtime when no loop runs, as far as its GetDeviceContext.
StartRealtime ==
  /\ phase = "stopped"
  /\ phase' = "refreshing"
  /\ base' = key
  /\ UNCHANGED <<serverVars, networkVars, run, batch, stream,
                 stopRequested, listening, got, keyVars, itemVars>>

\* The context arrives, for startRealtime or for bootstrap: the state the refresh
\* started from is attached again, and the one with the new key goes to the state
\* file first.  (bootstrap that gets no answer changes nothing and is tried again.)
ContextArrives ==
  /\ \/ phase = "refreshing" /\ phase' = "saving"
     \/ phase = "booting" /\ phase' = "bootSaving"
  /\ key' = base
  /\ base' = keyVersion
  /\ UNCHANGED <<serverVars, networkVars, run, batch, stream,
                 stopRequested, listening, got, savedKey, saves, itemVars>>

RefreshSaved ==
  /\ \/ phase = "saving" /\ phase' = "fetching" /\ UNCHANGED base
     \/ phase = "bootSaving" /\ phase' = "stopped" /\ base' = 1
  /\ key' = base
  /\ savedKey' = base
  /\ UNCHANGED <<serverVars, networkVars, run, batch, stream,
                 stopRequested, listening, got, saves, itemVars>>

\* startRealtime rejects: nothing it has done is undone, and there is no loop.
GiveUp ==
  /\ phase' = "stopped"
  /\ batch' = {}
  /\ base' = 1
  /\ UNCHANGED <<keyVersion, sealedWith, presence, session, sent, networkVars, run,
                 stream, stopRequested, listening, got>>

\* The state file is not written: startRealtime rejects, and bootstrap is tried again.
\* (What a write that fails leaves of the file is the subject of ClientState.)
RefreshNotSaved ==
  /\ \/ phase = "saving" /\ GiveUp
     \/ /\ phase = "bootSaving"
        /\ phase' = "booting"
        /\ base' = savedKey
        /\ UNCHANGED <<keyVersion, sealedWith, presence, session, sent, networkVars, run,
                       batch, stream, stopRequested, listening, got>>
  /\ UNCHANGED <<queue, keyVars, itemVars>>

\* Mutant: what has been fetched leaves the queue at once.
BacklogArrivesForGood ==
  /\ phase = "fetching"
  /\ phase' = "syncing"
  /\ batch' = queue
  /\ queue' = {}
  /\ UNCHANGED <<keyVersion, sealedWith, presence, session, sent, networkVars, run,
                 base, stream, stopRequested, listening, got,
                 keyVars, itemVars>>

\* FetchOffline is answered (the queue of the model is shorter than the limit).
BacklogArrives ==
  /\ phase = "fetching"
  /\ phase' = "syncing"
  /\ batch' = queue
  /\ UNCHANGED <<serverVars, networkVars, run, base, stream,
                 stopRequested, listening, got, keyVars, itemVars>>

\* GetDeviceContext or FetchOffline fails, or the context holds no key the client can
\* open: by then the state the refresh started from is attached.
StartFails ==
  /\ \/ phase \in {"refreshing", "fetching"} /\ UNCHANGED key
     \/ phase = "refreshing" /\ key' = base
  /\ GiveUp
  /\ UNCHANGED <<queue, savedKey, saves, itemVars>>

-----------------------------------------------------------------------------
(* applyIncoming *)

\* Mutant: the id is forgotten before as many others were noted.
MarkSeenShort(i) ==
  seen' = IF Len(seen) + 1 >= SeenSize THEN Tail(Append(seen, i)) ELSE Append(seen, i)

\* Mutant: recentlySeen is never cut back.
MarkSeenForGood(i) == seen' = Append(seen, i)

\* markSeen: recentlySeen keeps insertion order and drops its first id on overflow.
MarkSeen(i) ==
  seen' = IF Len(seen) + 1 > SeenSize THEN Tail(Append(seen, i)) ELSE Append(seen, i)

\* The id is marked, and the other items have seen one more.
Note(i) ==
  /\ MarkSeen(i)
  /\ age' = [j \in Items |-> IF j = i THEN 0
                             ELSE IF age[j] = SeenSize THEN SeenSize ELSE age[j] + 1]

\* The ids shouldApplyIncoming refuses.
Repeats == {seen[n] : n \in DOMAIN seen}

\* applyIncoming(i) for the worker s with key k, up to its first await, when it does
\* not throw: a repeat goes straight to its AckItem; another is marked as seen,
\* decrypted, and its write begins.
Apply(s, i, k) ==
  /\ \/ /\ i \in Repeats
        /\ acks' = acks \cup {<<s, i>>}
        /\ UNCHANGED <<writing, seen, age>>
     \/ /\ i \notin Repeats
        /\ sealedWith[i] = k
        /\ Note(i)
        /\ writing' = writing \cup {<<s, i>>}
        /\ UNCHANGED acks
  /\ UNCHANGED <<applied, failed, cut>>

\* applyIncoming(i) with key k throws on decryption: the item has been marked by then.
FailToApply(i, k) ==
  /\ i \notin Repeats
  /\ sealedWith[i] # k
  /\ Note(i)
  /\ failed' = [failed EXCEPT ![i] = run]
  /\ UNCHANGED <<writing, acks, applied, cut>>

\* Mutant: a write that fails is taken for done.
WrittenAnyway(s, i) ==
  /\ <<s, i>> \in writing
  /\ writing' = writing \ {<<s, i>>}
  /\ acks' = acks \cup {<<s, i>>}
  /\ \/ applied' = applied \cup {i}
     \/ UNCHANGED applied
  /\ UNCHANGED <<seen, age, failed, cut>>

\* The clipboard or the file is written, and the AckItem asked for.
Written(s, i) ==
  /\ <<s, i>> \in writing
  /\ writing' = writing \ {<<s, i>>}
  /\ acks' = acks \cup {<<s, i>>}
  /\ applied' = applied \cup {i}
  /\ UNCHANGED <<seen, age, failed, cut>>

\* The write is rejected, and applyIncoming with it: the item stays marked.
NotWritten(s, i) ==
  /\ <<s, i>> \in writing
  /\ writing' = writing \ {<<s, i>>}
  /\ failed' = [failed EXCEPT ![i] = run]
  /\ UNCHANGED <<acks, seen, age, applied, cut>>

\* The device sends an item of its own: shouldSend marks its id.
SendOwn(o) ==
  /\ phase \notin Booting
  /\ o \notin Repeats
  /\ Note(o)
  /\ UNCHANGED <<serverVars, networkVars, run, startVars, loopVars, got, keyVars,
                 writing, acks, applied, failed, cut>>

-----------------------------------------------------------------------------
(* syncOffline *)

\* syncOffline awaits nothing.
Between == phase = "syncing" /\ \A i \in Items : <<NoStream, i>> \notin writing \cup acks

\* syncOffline turns to the next item, with the key it took at the beginning (which
\* base holds).
SyncItem(i) ==
  /\ Between
  /\ i \in batch
  /\ batch' = batch \ {i}
  /\ Apply(NoStream, i, base)
  /\ UNCHANGED <<serverVars, networkVars, run, base, loopVars, got, keyVars>>

SyncItemFails(i) ==
  /\ Between
  /\ i \in batch
  /\ FailToApply(i, base)
  /\ GiveUp
  /\ UNCHANGED <<queue, keyVars>>

SyncWritten(i) ==
  /\ Written(NoStream, i)
  /\ UNCHANGED <<serverVars, networkVars, run, startVars, loopVars, got, keyVars>>

SyncWriteFails(i) ==
  /\ NotWritten(NoStream, i)
  /\ GiveUp
  /\ UNCHANGED <<queue, keyVars>>

SyncAcked(i) ==
  /\ <<NoStream, i>> \in acks
  /\ acks' = acks \ {<<NoStream, i>>}
  /\ queue' = queue \ {i}
  /\ UNCHANGED <<keyVersion, sealedWith, presence, session, sent, networkVars, run,
                 startVars, loopVars, got, keyVars, writing, seen, historyVars>>

\* AckItem fails, on its way to the server or on the way back.
SyncAckFails(i) ==
  /\ <<NoStream, i>> \in acks
  /\ acks' = acks \ {<<NoStream, i>>}
  /\ queue' \in {queue, queue \ {i}}
  /\ GiveUp
  /\ UNCHANGED <<keyVars, writing, seen, historyVars>>

-----------------------------------------------------------------------------
(* The loop and its streams *)

\* connectOnce opens a stream and writes hello.
Connect ==
  LET s == opened + 1
  IN  /\ opened < MaxStreams
      /\ opened' = s
      /\ linkUp' = linkUp \cup {s}
      /\ session' = [session EXCEPT ![s] = "hello"]
      /\ phase' = "streaming"
      /\ stream' = s
      /\ listening' = listening \cup {s}
      /\ UNCHANGED <<keyVersion, sealedWith, queue, presence, sent, silent, run, batch,
                     got, keyVars, itemVars>>

\* The backlog is done, the clipboard is being watched: the loop begins, whatever
\* has been requested of it before.
LoopBegins ==
  /\ Between
  /\ batch = {}
  /\ base' = 1
  /\ stopRequested' = FALSE
  /\ Connect

\* Mutant: the end of a stream is not told to the loop.
CleanupUnnoticed(s) == UNCHANGED <<stream, phase>>

\* cleanup() of the connectOnce that opened s, which resolves it if it is the one
\* the loop waits for.  The stream itself is not cancelled.
Cleanup(s) ==
  IF stream = s
    THEN /\ stream' = NoStream
         /\ phase' = IF stopRequested THEN "stopped" ELSE "waiting"
    ELSE UNCHANGED <<stream, phase>>

\* "error", "end" or "close" of a broken stream is emitted on the client.
StreamEnds(s) ==
  /\ s \in listening
  /\ s \notin linkUp
  /\ listening' = listening \ {s}
  /\ silent' = silent \ {s}
  /\ Cleanup(s)
  /\ UNCHANGED <<serverVars, opened, linkUp, run, startVars, stopRequested, got,
                 keyVars, itemVars>>

\* The two seconds between two connections are over: nothing is refreshed and
\* nothing fetched before the next one.
Reconnect ==
  /\ phase = "waiting"
  /\ ~stopRequested
  /\ Connect
  /\ UNCHANGED <<base, stopRequested>>

\* They are over, and stopRealtime has been called meanwhile.
LoopEnds ==
  /\ phase = "waiting"
  /\ stopRequested
  /\ phase' = "stopped"
  /\ UNCHANGED <<serverVars, networkVars, run, startVars, stream, stopRequested,
                 listening, got, keyVars, itemVars>>

\* stopRealtime: cancels the stream, if there is one, and waits for the loop.  A stream
\* that is cancelled reports its end, however its link is.
StopRealtime ==
  /\ phase \notin {"stopped"} \cup Booting
  /\ ~stopRequested
  /\ stopRequested' = TRUE
  /\ linkUp' = linkUp \ {stream}
  /\ silent' = silent \ {stream}
  /\ UNCHANGED <<serverVars, opened, run, startVars, phase, stream, listening, got,
                 keyVars, itemVars>>

\* The next message of stream s is there to be handled.
Arrived(s, m) ==
  /\ s \in listening
  /\ s \in linkUp
  /\ got[s] < Len(sent[s])
  /\ m = sent[s][got[s] + 1]
  /\ got' = [got EXCEPT ![s] = @ + 1]

\* handleRealtimeMessage with a group key, as far as the write of the state file.
HandleNewKey(s, v) ==
  /\ Arrived(s, NewKey(v))
  /\ saves' = saves \cup {<<s, v>>}
  /\ UNCHANGED <<serverVars, networkVars, run, startVars, loopVars, key, savedKey,
                 itemVars>>

\* The handler cannot open the key: the failure is logged and ends the connectOnce of s.
HandleNewKeyFails(s, v) ==
  /\ Arrived(s, NewKey(v))
  /\ Cleanup(s)
  /\ UNCHANGED <<serverVars, networkVars, run, startVars, stopRequested, listening,
                 keyVars, itemVars>>

\* The state file is written, and the state with that key becomes the session's.
\* Writes that are under way together may end in any order.
NewKeySaved(s, v) ==
  /\ <<s, v>> \in saves
  /\ saves' = saves \ {<<s, v>>}
  /\ savedKey' = v
  /\ key' = v
  /\ UNCHANGED <<serverVars, networkVars, run, startVars, loopVars, got, itemVars>>

\* It is not: the session keeps the key it has.  The handler ends the
\* connectOnce of its stream; confirmBind reports to its caller.
NewKeyNotSaved(s, v) ==
  /\ <<s, v>> \in saves
  /\ saves' = saves \ {<<s, v>>}
  /\ \/ s # NoStream /\ Cleanup(s)
     \/ s = NoStream /\ UNCHANGED <<stream, phase>>
  /\ UNCHANGED <<serverVars, networkVars, run, startVars, stopRequested, listening, got,
                 key, savedKey, itemVars>>

\* handleRealtimeMessage with an item, as far as its first await.
HandleItem(s, i) ==
  /\ Arrived(s, Clip(i))
  /\ Apply(s, i, key)
  /\ UNCHANGED <<serverVars, networkVars, run, startVars, loopVars, keyVars>>

\* The handler throws: the failure is logged and ends the connectOnce of s.
HandleItemFails(s, i) ==
  /\ Arrived(s, Clip(i))
  /\ FailToApply(i, key)
  /\ Cleanup(s)
  /\ UNCHANGED <<serverVars, networkVars, run, startVars, stopRequested, listening,
                 keyVars>>

ItemWritten(s, i) ==
  /\ Written(s, i)
  /\ UNCHANGED <<serverVars, networkVars, run, startVars, loopVars, got, keyVars>>

ItemWriteFails(s, i) ==
  /\ NotWritten(s, i)
  /\ Cleanup(s)
  /\ UNCHANGED <<serverVars, networkVars, run, startVars, stopRequested, listening, got,
                 keyVars>>

ItemAcked(s, i) ==
  /\ <<s, i>> \in acks
  /\ acks' = acks \ {<<s, i>>}
  /\ queue' = queue \ {i}
  /\ UNCHANGED <<keyVersion, sealedWith, presence, session, sent, networkVars, run,
                 startVars, loopVars, got, keyVars, writing, seen, historyVars>>

ItemAckFails(s, i) ==
  /\ <<s, i>> \in acks
  /\ acks' = acks \ {<<s, i>>}
  /\ queue' \in {queue, queue \ {i}}
  /\ Cleanup(s)
  /\ UNCHANGED <<keyVersion, sealedWith, presence, session, sent, networkVars, run, startVars,
                 stopRequested, listening, got, keyVars, writing, seen, historyVars>>

-----------------------------------------------------------------------------
(* The process *)

\* The process ends, by a crash or by its user, and is started again: what it had
\* not saved is gone, what it was writing is cut off, and the other end of its
\* connections with it.  The new process begins with bootstrap, from what the state
\* file holds.
Restart ==
  /\ run < MaxRuns
  /\ run' = run + 1
  /\ phase' = "booting"
  /\ stream' = NoStream
  /\ stopRequested' = FALSE
  /\ linkUp' = linkUp \ listening
  /\ silent' = {}
  /\ listening' = {}
  /\ key' = savedKey
  /\ base' = savedKey
  /\ saves' = {}
  /\ batch' = {}
  /\ writing' = {}
  /\ acks' = {}
  /\ seen' = <<>>
  /\ age' = [i \in Items |-> SeenSize]
  /\ cut' = cut \cup {i \in Items : \E s \in Streams : <<s, i>> \in writing}
  /\ UNCHANGED <<serverVars, opened, savedKey, got, applied, failed>>

-----------------------------------------------------------------------------
(* Specification *)

Init ==
  /\ keyVersion = 1
  /\ sealedWith = [i \in Items |-> 0]
  /\ queue = {}
  /\ presence = NoStream
  /\ session = [s \in Streams |-> "unused"]
  /\ sent = [s \in Streams |-> <<>>]
  /\ opened = 0
  /\ linkUp = {}
  /\ silent = {}
  /\ run = 1
  /\ phase = "stopped"
  /\ stream = NoStream
  /\ stopRequested = FALSE
  /\ listening = {}
  /\ got = [s \in Streams |-> 0]
  /\ key = 1
  /\ savedKey = 1
  /\ base = 1
  /\ saves = {}
  /\ batch = {}
  /\ writing = {}
  /\ acks = {}
  /\ seen = <<>>
  /\ age = [i \in Items |-> SeenSize]
  /\ applied = {}
  /\ failed = [i \in Items |-> 0]
  /\ cut = {}

GroupStep ==
  \/ \E i \in Items, v \in 1 .. keyVersion : Push(i, v)
  \/ Rotate
  \/ ConfirmBind

StreamServerStep ==
  \/ \E s \in Streams : ServeHello(s)
  \/ \E s \in Streams : ServeEnd(s)

StartStep ==
  \/ ContextArrives
  \/ RefreshSaved
  \/ RefreshNotSaved
  \/ BacklogArrives
  \/ StartFails
  \/ LoopBegins

SyncStep ==
  \E i \in Items :
    \/ SyncItem(i) \/ SyncItemFails(i)
    \/ SyncWritten(i) \/ SyncWriteFails(i)
    \/ SyncAcked(i) \/ SyncAckFails(i)

LoopStep ==
  \/ \E s \in Streams : StreamEnds(s)
  \/ Reconnect
  \/ LoopEnds

KeyStep ==
  \/ \E s \in Streams, v \in Keys : HandleNewKey(s, v) \/ HandleNewKeyFails(s, v)
  \/ \E s \in Workers, v \in Keys : NewKeySaved(s, v) \/ NewKeyNotSaved(s, v)

ItemStep ==
  \E s \in Streams, i \in Items :
    \/ HandleItem(s, i) \/ HandleItemFails(s, i)
    \/ ItemWritten(s, i) \/ ItemWriteFails(s, i)
    \/ ItemAcked(s, i) \/ ItemAckFails(s, i)

Next ==
  \/ GroupStep
  \/ StreamServerStep
  \/ \E s \in Streams : LinkBreaks(s)
  \/ StartRealtime
  \/ StopRealtime
  \/ StartStep
  \/ SyncStep
  \/ LoopStep
  \/ KeyStep
  \/ ItemStep
  \/ \E o \in Own : SendOwn(o)
  \/ Restart

\* The timer between two connections fires, the end of a stream that is reported is
\* emitted, and a hello whose link stays up reaches the server.  Nothing else has to
\* happen: RPCs have no deadline and may hang, so may writes and handlers; nobody has to
\* push, start or stop anything; the server need not hear of the end of a stream, nor
\* the client of a link that broke silently.
Fairness ==
  /\ WF_clientNetVars(Reconnect \/ LoopEnds)
  /\ \A s \in Streams :
       /\ WF_clientNetVars(s \notin silent /\ StreamEnds(s))
       /\ WF_clientNetVars(ServeHello(s))

Spec == Init /\ [][Next]_clientNetVars

FairSpec == Spec /\ Fairness

-----------------------------------------------------------------------------
(* Properties *)

\* The write of an item begins a second time in one run of the client only when as many
\* other ids as recentlySeen holds have been noted since the first, sent or received,
\* however the backlog, the streams left over from earlier connections, and
\* acknowledgements that failed bring it there again.
AppliedOncePerWindow ==
  [][\A w \in writing' \ writing : age[w[2]] = SeenSize]_clientNetVars

\* What can become of an item pushed to the device is this and nothing else: it waits in
\* the queue, has been written, is being written, is under way on a stream or was lost
\* with one that broke before it was read, or the client failed to apply it and said so,
\* or the process ended in the middle of writing it.
NothingVanishes ==
  \A i \in Items :
    \/ sealedWith[i] = 0
    \/ i \in queue \cup applied \cup cut
    \/ failed[i] # 0
    \/ \E s \in Streams :
         \/ <<s, i>> \in writing
         \/ \E n \in got[s] + 1 .. Len(sent[s]) : sent[s][n] = Clip(i)

\* An item leaves the queue only after the client has written it, in this run or an
\* earlier one, or has failed to in this very run and said so: a write that was cut off
\* by the end of the process, or failed in a process that has ended, is made again.  The
\* failure of this run is not: the item stays marked, so that the next start takes it
\* for a repeat and has it removed unread.
AckedWasRead ==
  [][\A i \in queue \ queue' : i \in applied \/ failed[i] = run]_clientNetVars

\* The server never writes to a stream the end of which it has heard of.
NoPresenceAfterEnd == presence # NoStream => session[presence] = "live"

\* A client that is told of the loss of its stream, and not to stop, finds its way back
\* to a stream the server has taken up, unless its process ends meanwhile, or the new
\* stream breaks in silence (or the last stream of the model breaks, too).
LoopRecovers ==
  \A s \in Streams :
    stream = s /\ s \notin linkUp \cup silent /\ ~stopRequested ~>
      \/ stream \in linkUp /\ session[stream] = "live"
      \/ stream \in silent
      \/ stopRequested \/ phase \in {"stopped"} \cup Booting
      \/ opened = MaxStreams /\ stream \notin linkUp

\* The server half keeps the promises of Mailboxes, for the one device there is.
Mailbox ==
  INSTANCE Mailboxes WITH
    Devices   <- {"me"},
    Callbacks <- Streams,
    Nobody    <- NoStream,
    queue     <- [d \in {"me"} |-> queue],
    holder    <- [d \in {"me"} |-> presence],
    told      <- [s \in Streams |->
                    {i \in Items : \E n \in DOMAIN sent[s] : sent[s][n] = Clip(i)}]

\* So what this module assumes of the server is what SharePasteStore is shown to do.
ServerIsMailbox == Mailbox!Spec

-----------------------------------------------------------------------------
(* What the documents say and the client does not do *)

\* docs/pre-dev/PRD-v0.1-internal-pilot.md:82: "Event stream reconnection succeeds
\* within 5s after transient disconnect."  A client whose stream is connected, and
\* which the server has taken up, is present.
ReconnectionRestoresPresence ==
  phase = "streaming" /\ stream \in linkUp /\ session[stream] = "live" =>
    presence = stream

=============================================================================
