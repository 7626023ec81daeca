----------------------- MODULE RealtimeClient_proofs -----------------------
(***************************************************************************)
(* Theorems about the realtime client: types, presence, what becomes of    *)
(* the items that are pushed to it, when one is written again, that the    *)
(* server it talks to keeps the promises of Mailboxes, and that its loop   *)
(* listens to the stream it waits for.                                     *)
(***************************************************************************)
EXTENDS RealtimeClient, SequenceTheorems, TLAPS

-----------------------------------------------------------------------------
(* Types *)

ServerOK ==
  /\ keyVersion \in Keys
  /\ sealedWith \in [Items -> 0 .. MaxKey]
  /\ queue \in SUBSET Items
  /\ presence \in Streams \cup {NoStream}
  /\ session \in [Streams -> {"unused", "hello", "live", "ended"}]
  /\ sent \in [Streams -> Seq(Message)]

NetworkOK ==
  /\ opened \in 0 .. MaxStreams
  /\ linkUp \in SUBSET Streams
  /\ silent \in SUBSET Streams

StartOK == base \in Keys /\ batch \in SUBSET Items

LoopOK ==
  /\ phase \in Phases
  /\ stream \in Streams \cup {NoStream}
  /\ stopRequested \in BOOLEAN
  /\ listening \in SUBSET Streams

KeyOK == key \in Keys /\ savedKey \in Keys /\ saves \in SUBSET (Workers \X Keys)

MarkOK ==
  /\ seen \in Seq(Ids) /\ Len(seen) <= SeenSize
  /\ age \in [Items -> 0 .. SeenSize]

WorkOK ==
  /\ writing \in SUBSET (Workers \X Items)
  /\ acks \in SUBSET (Workers \X Items)
  /\ applied \in SUBSET Items
  /\ failed \in [Items -> 0 .. MaxRuns]
  /\ cut \in SUBSET Items

ItemOK == MarkOK /\ WorkOK

ProcessOK == run \in 1 .. MaxRuns /\ got \in [Streams -> Nat]

LEMMA TypeParts ==
  /\ TypeOK <=> ServerOK /\ NetworkOK /\ StartOK /\ LoopOK /\ KeyOK /\ ItemOK /\ ProcessOK
  /\ TypeOK' <=> ServerOK' /\ NetworkOK' /\ StartOK' /\ LoopOK' /\ KeyOK' /\ ItemOK' /\ ProcessOK'
  BY DEF TypeOK, ServerOK, NetworkOK, StartOK, LoopOK, KeyOK, ItemOK, MarkOK, WorkOK, ProcessOK

LEMMA Numbers ==
  /\ MaxKey \in Nat /\ MaxKey > 0 /\ MaxStreams \in Nat
  /\ MaxRuns \in Nat /\ MaxRuns > 0 /\ SeenSize \in Nat /\ SeenSize > 0
  BY ClientAssumption

LEMMA StreamNumbers ==
  NoStream \notin Streams /\ (\A s \in Streams : s \in Nat) /\ Streams \subseteq Workers
  BY ClientAssumption DEF Streams, Workers

LEMMA MessageTypes ==
  /\ \A i \in Items : Clip(i) \in Message
  /\ \A v \in Keys : NewKey(v) \in Message
  BY DEF Message

LEMMA InitType == Init => TypeOK
  <1> SUFFICES ASSUME Init PROVE TypeOK
    OBVIOUS
  <1>1. 1 \in Keys /\ 1 \in 1 .. MaxRuns /\ 0 \in 0 .. MaxKey /\ 0 \in 0 .. MaxStreams
        /\ 0 \in 0 .. MaxRuns /\ SeenSize \in 0 .. SeenSize
    BY Numbers DEF Keys
  <1>2. ServerOK
    <2>1. <<>> \in Seq(Message)
      OBVIOUS
    <2>2. sent \in [Streams -> Seq(Message)]
      BY <2>1 DEF Init
    <2>3. QED
      BY <1>1, <2>2 DEF Init, ServerOK
  <1>3. NetworkOK /\ StartOK /\ LoopOK /\ KeyOK
    BY <1>1 DEF Init, NetworkOK, StartOK, LoopOK, KeyOK, Phases
  <1>4. MarkOK
    <2>1. seen \in Seq(Ids) /\ Len(seen) = 0
      BY DEF Init
    <2>2. QED
      BY <1>1, <2>1, Numbers DEF Init, MarkOK
  <1>5. WorkOK
    BY <1>1 DEF Init, WorkOK
  <1>6. ProcessOK
    <2>1. got \in [Streams -> Nat]
      BY DEF Init
    <2>2. QED
      BY <1>1, <2>1 DEF Init, ProcessOK
  <1>7. QED
    BY <1>2, <1>3, <1>4, <1>5, <1>6, TypeParts DEF ItemOK

\* A message is written to the stream of the presence.
LEMMA WriteType ==
  ASSUME ServerOK, presence # NoStream, NEW m \in Message
  PROVE  /\ WriteToPresence(m) \in [Streams -> Seq(Message)]
         /\ presence \in Streams
         /\ WriteToPresence(m)[presence] = Append(sent[presence], m)
         /\ \A s \in Streams : s # presence => WriteToPresence(m)[s] = sent[s]
  <1>1. presence \in Streams /\ sent[presence] \in Seq(Message)
    BY DEF ServerOK
  <1>2. Append(sent[presence], m) \in Seq(Message)
    BY <1>1, AppendProperties
  <1>3. QED
    BY <1>1, <1>2 DEF ServerOK, WriteToPresence

\* An id is noted: recentlySeen keeps all it held and gets one more, or, being full,
\* loses its first.
LEMMA MarkShape ==
  ASSUME MarkOK, NEW i \in Ids, MarkSeen(i)
  PROVE  LET n == Len(seen)
         IN  /\ n \in Nat /\ seen' \in Seq(Ids)
             /\ \/ /\ n < SeenSize /\ Len(seen') = n + 1 /\ seen'[n + 1] = i
                   /\ \A k \in 1 .. n : seen'[k] = seen[k]
                \/ /\ n = SeenSize /\ Len(seen') = n /\ seen'[n] = i
                   /\ \A k \in 1 .. n - 1 : seen'[k] = seen[k + 1]
  <1> DEFINE n == Len(seen)
             q == Append(seen, i)
  <1>1. /\ seen \in Seq(Ids) /\ n \in Nat /\ n <= SeenSize
        /\ q \in Seq(Ids) /\ Len(q) = n + 1 /\ q[n + 1] = i
        /\ \A k \in 1 .. n : q[k] = seen[k]
    BY AppendProperties, LenProperties DEF MarkOK
  <1> HIDE DEF n, q
  <1>2. CASE n + 1 > SeenSize
    <2>1. seen' = Tail(q) /\ n = SeenSize
      BY <1>1, <1>2, Numbers DEF MarkSeen, n, q
    <2>2. q # <<>>
      BY <1>1, EmptySeq
    <2>3. Tail(q) \in Seq(Ids) /\ Len(Tail(q)) = n /\ \A k \in 1 .. n : Tail(q)[k] = q[k + 1]
      BY <1>1, <2>2, HeadTailProperties
    <2>4. \A k \in 1 .. n - 1 : Tail(q)[k] = seen[k + 1]
      BY <1>1, <2>3
    <2>5. Tail(q)[n] = i
      BY <1>1, <2>1, <2>3, Numbers
    <2>6. QED
      BY <1>1, <2>1, <2>3, <2>4, <2>5 DEF n
  <1>3. CASE ~ (n + 1 > SeenSize)
    <2>1. seen' = q
      BY <1>3 DEF MarkSeen, n, q
    <2>2. QED
      BY <1>1, <1>3, <2>1, Numbers DEF n
  <1>4. QED
    BY <1>2, <1>3

LEMMA NoteType ==
  ASSUME MarkOK, NEW i \in Ids, Note(i)
  PROVE  MarkOK'
  <1>1. seen' \in Seq(Ids) /\ Len(seen') <= SeenSize
    BY MarkShape, Numbers DEF Note
  <1>2. age' \in [Items -> 0 .. SeenSize]
    <2>1. \A j \in Items : (IF j = i THEN 0 ELSE IF age[j] = SeenSize THEN SeenSize ELSE age[j] + 1)
                             \in 0 .. SeenSize
      BY Numbers DEF MarkOK
    <2>2. QED
      BY <2>1 DEF Note
  <1>3. QED
    BY <1>1, <1>2 DEF MarkOK

LEMMA ApplyType ==
  ASSUME ItemOK, NEW s \in Workers, NEW i \in Items, NEW k, Apply(s, i, k)
  PROVE  ItemOK'
  <1>1. i \in Ids
    BY DEF Ids
  <1>2. CASE UNCHANGED <<seen, age>> /\ writing' = writing /\ acks' = acks \cup {<<s, i>>}
             /\ UNCHANGED <<applied, failed, cut>>
    BY <1>2 DEF ItemOK, MarkOK, WorkOK
  <1>3. CASE Note(i) /\ acks' = acks /\ writing' = writing \cup {<<s, i>>}
             /\ UNCHANGED <<applied, failed, cut>>
    BY <1>1, <1>3, NoteType DEF ItemOK, WorkOK
  <1>4. QED
    BY <1>2, <1>3 DEF Apply

LEMMA FailToApplyType ==
  ASSUME ItemOK, ProcessOK, NEW i \in Items, NEW k, FailToApply(i, k)
  PROVE  ItemOK'
  <1>1. i \in Ids /\ run \in 0 .. MaxRuns
    BY Numbers DEF Ids, ProcessOK
  <1>2. MarkOK'
    BY <1>1, NoteType DEF FailToApply, ItemOK
  <1>3. WorkOK'
    BY <1>1 DEF FailToApply, ItemOK, WorkOK
  <1>4. QED
    BY <1>2, <1>3 DEF ItemOK

LEMMA WrittenType ==
  ASSUME ItemOK, ProcessOK, NEW s \in Workers, NEW i \in Items, Written(s, i) \/ NotWritten(s, i)
  PROVE  ItemOK'
  <1>1. run \in 0 .. MaxRuns
    BY Numbers DEF ProcessOK
  <1>2. MarkOK'
    BY DEF Written, NotWritten, ItemOK, MarkOK
  <1>3. WorkOK'
    BY <1>1 DEF Written, NotWritten, ItemOK, WorkOK
  <1>4. QED
    BY <1>2, <1>3 DEF ItemOK

\* An AckItem has an answer, or none.
LEMMA AckType ==
  ASSUME ItemOK, NEW a, acks' = acks \ {a}, UNCHANGED <<writing, seen, historyVars>>
  PROVE  ItemOK'
  BY DEF ItemOK, MarkOK, WorkOK, historyVars

LEMMA CleanupType ==
  ASSUME LoopOK, NEW s \in Streams, Cleanup(s)
  PROVE  phase' \in Phases /\ stream' \in Streams \cup {NoStream}
  BY DEF LoopOK, Cleanup, Phases

\* The queue has lost an item, or has not.
LEMMA QueueType ==
  ASSUME ServerOK, queue' \subseteq queue, UNCHANGED <<keyVersion, sealedWith, presence, session, sent>>
  PROVE  ServerOK'
  BY DEF ServerOK

\* What a part leaves alone keeps its type.
LEMMA StillServer == ServerOK /\ UNCHANGED serverVars => ServerOK'
  BY DEF ServerOK, serverVars

LEMMA StillNetwork == NetworkOK /\ UNCHANGED networkVars => NetworkOK'
  BY DEF NetworkOK, networkVars

LEMMA StillStart == StartOK /\ UNCHANGED startVars => StartOK'
  BY DEF StartOK, startVars

LEMMA StillLoop == LoopOK /\ UNCHANGED loopVars => LoopOK'
  BY DEF LoopOK, loopVars

LEMMA StillKey == KeyOK /\ UNCHANGED keyVars => KeyOK'
  BY DEF KeyOK, keyVars

LEMMA StillItem == ItemOK /\ UNCHANGED itemVars => ItemOK'
  BY DEF ItemOK, MarkOK, WorkOK, itemVars, historyVars

LEMMA StillProcess == ProcessOK /\ UNCHANGED <<run, got>> => ProcessOK'
  BY DEF ProcessOK

LEMMA StillClient ==
  /\ StartOK /\ LoopOK /\ KeyOK /\ ItemOK /\ ProcessOK
  /\ UNCHANGED clientVars
  => StartOK' /\ LoopOK' /\ KeyOK' /\ ItemOK' /\ ProcessOK'
  BY StillStart, StillLoop, StillKey, StillItem, StillProcess DEF clientVars

LEMMA GroupType ==
  ASSUME TypeOK, GroupStep
  PROVE  TypeOK'
  <1> USE TypeParts
  <1>1. ASSUME NEW i \in Items, NEW v \in 1 .. keyVersion, Push(i, v)
        PROVE  TypeOK'
    <2>1. v \in 0 .. MaxKey
      BY Numbers DEF ServerOK, Keys
    <2>2. sealedWith' \in [Items -> 0 .. MaxKey] /\ queue' \in SUBSET Items
      BY <1>1, <2>1 DEF Push, ServerOK
    <2>3. sent' \in [Streams -> Seq(Message)]
      BY <1>1, WriteType, MessageTypes DEF Push, ServerOK
    <2>4. ServerOK'
      BY <1>1, <2>2, <2>3 DEF Push, ServerOK
    <2>5. QED
      BY <1>1, <2>4, StillNetwork, StillClient DEF Push
  <1>2. ASSUME NewGroupKey PROVE ServerOK' /\ NetworkOK'
    <2>1. keyVersion' \in Keys
      BY <1>2, Numbers DEF NewGroupKey, ServerOK, Keys
    <2>2. sent' \in [Streams -> Seq(Message)]
      BY <1>2, <2>1, WriteType, MessageTypes DEF NewGroupKey, ServerOK
    <2>3. QED
      BY <1>2, <2>1, <2>2, StillNetwork DEF NewGroupKey, ServerOK
  <1>3. CASE Rotate
    BY <1>2, <1>3, StillClient DEF Rotate
  <1>4. CASE ConfirmBind
    <2>1. KeyOK'
      BY <1>2, <1>4 DEF ConfirmBind, KeyOK, ServerOK, Workers
    <2>2. QED
      BY <1>2, <1>4, <2>1, StillStart, StillLoop, StillItem, StillProcess DEF ConfirmBind
  <1>5. QED
    BY <1>1, <1>3, <1>4 DEF GroupStep

LEMMA StreamServerType ==
  ASSUME TypeOK, NEW s \in Streams, ServeHello(s) \/ ServeEnd(s) \/ LinkBreaks(s)
  PROVE  TypeOK'
  <1> USE TypeParts
  <1>1. CASE ServeHello(s)
    <2>1. ServerOK'
      BY <1>1 DEF ServeHello, ServerOK
    <2>2. QED
      BY <1>1, <2>1, StillNetwork, StillClient DEF ServeHello
  <1>2. CASE ServeEnd(s)
    <2>1. ServerOK'
      BY <1>2 DEF ServeEnd, PresenceAfterEnd, ServerOK
    <2>2. QED
      BY <1>2, <2>1, StillNetwork, StillClient DEF ServeEnd
  <1>3. CASE LinkBreaks(s)
    <2>1. NetworkOK'
      BY <1>3 DEF LinkBreaks, NetworkOK
    <2>2. QED
      BY <1>3, <2>1, StillServer, StillClient DEF LinkBreaks
  <1>4. QED
    BY <1>1, <1>2, <1>3

\* startRealtime is over.
LEMMA GiveUpType ==
  ASSUME TypeOK, GiveUp, queue' \subseteq queue
  PROVE  ServerOK' /\ NetworkOK' /\ StartOK' /\ LoopOK' /\ ProcessOK'
  <1>1. 1 \in Keys
    BY Numbers DEF Keys
  <1>2. StartOK' /\ LoopOK'
    BY <1>1, TypeParts DEF GiveUp, StartOK, LoopOK, Phases
  <1>3. QED
    BY <1>2, TypeParts, QueueType, StillNetwork, StillProcess DEF GiveUp

LEMMA ConnectType ==
  ASSUME TypeOK, Connect, base' \in Keys, stopRequested' \in BOOLEAN
  PROVE  TypeOK'
  <1> USE TypeParts
  <1>1. opened + 1 \in Streams /\ opened' \in 0 .. MaxStreams
    BY Numbers DEF Connect, NetworkOK, Streams
  <1>2. ServerOK'
    BY <1>1 DEF Connect, ServerOK
  <1>3. NetworkOK'
    BY <1>1 DEF Connect, NetworkOK
  <1>4. LoopOK'
    BY <1>1 DEF Connect, LoopOK, Phases
  <1>5. StartOK'
    BY DEF Connect, StartOK
  <1>6. QED
    BY <1>2, <1>3, <1>4, <1>5, StillKey, StillItem, StillProcess DEF Connect

LEMMA StartType ==
  ASSUME TypeOK, StartRealtime \/ StopRealtime \/ StartStep
  PROVE  TypeOK'
  <1> USE TypeParts
  <1>1. CASE StartRealtime
    <2>1. StartOK' /\ LoopOK'
      BY <1>1 DEF StartRealtime, StartOK, LoopOK, KeyOK, Phases
    <2>2. QED
      BY <1>1, <2>1, StillServer, StillNetwork, StillKey, StillItem, StillProcess DEF StartRealtime
  <1>2. CASE StopRealtime
    <2>1. LoopOK' /\ NetworkOK'
      BY <1>2 DEF StopRealtime, LoopOK, NetworkOK
    <2>2. QED
      BY <1>2, <2>1, StillServer, StillStart, StillKey, StillItem, StillProcess DEF StopRealtime
  <1>3. CASE ContextArrives
    <2>1. StartOK' /\ LoopOK' /\ KeyOK'
      BY <1>3 DEF ContextArrives, StartOK, LoopOK, KeyOK, ServerOK, Phases, Booting
    <2>2. QED
      BY <1>3, <2>1, StillServer, StillNetwork, StillItem, StillProcess DEF ContextArrives
  <1>4. CASE RefreshSaved
    <2>1. 1 \in Keys
      BY Numbers DEF Keys
    <2>2. StartOK' /\ LoopOK' /\ KeyOK'
      BY <1>4, <2>1 DEF RefreshSaved, StartOK, LoopOK, KeyOK, Phases
    <2>3. QED
      BY <1>4, <2>2, StillServer, StillNetwork, StillItem, StillProcess DEF RefreshSaved
  <1>5. CASE BacklogArrives
    <2>1. StartOK' /\ LoopOK'
      BY <1>5 DEF BacklogArrives, StartOK, LoopOK, ServerOK, Phases
    <2>2. QED
      BY <1>5, <2>1, StillServer, StillNetwork, StillKey, StillItem, StillProcess DEF BacklogArrives
  <1>6. CASE StartFails
    <2>1. KeyOK'
      BY <1>6 DEF StartFails, KeyOK, StartOK
    <2>2. QED
      BY <1>6, <2>1, GiveUpType, StillItem DEF StartFails
  <1>7. CASE RefreshNotSaved
    <2>1. KeyOK' /\ ItemOK' /\ queue' = queue
      BY <1>7, StillKey, StillItem DEF RefreshNotSaved
    <2>2. CASE GiveUp
      BY <2>1, <2>2, GiveUpType
    <2>3. CASE ~GiveUp
      <3>1. StartOK' /\ LoopOK'
        BY <1>7, <2>3 DEF RefreshNotSaved, StartOK, LoopOK, KeyOK, Phases, Booting
      <3>2. ServerOK' /\ NetworkOK' /\ ProcessOK'
        BY <1>7, <2>1, <2>3, QueueType, StillNetwork, StillProcess DEF RefreshNotSaved
      <3>3. QED
        BY <2>1, <3>1, <3>2
    <2>4. QED
      BY <2>2, <2>3
  <1>8. CASE LoopBegins
    <2>1. 1 \in Keys
      BY Numbers DEF Keys
    <2>2. QED
      BY <1>8, <2>1, ConnectType DEF LoopBegins
  <1>9. QED
    BY <1>1, <1>2, <1>3, <1>4, <1>5, <1>6, <1>7, <1>8 DEF StartStep

LEMMA SyncType ==
  ASSUME TypeOK, SyncStep
  PROVE  TypeOK'
  <1> USE TypeParts
  <1>1. NoStream \in Workers
    BY DEF Workers
  <1>2. PICK i \in Items : \/ SyncItem(i) \/ SyncItemFails(i) \/ SyncWritten(i)
                           \/ SyncWriteFails(i) \/ SyncAcked(i) \/ SyncAckFails(i)
    BY DEF SyncStep
  <1>3. CASE SyncItem(i)
    <2>1. StartOK'
      BY <1>3 DEF SyncItem, StartOK
    <2>2. ItemOK'
      BY <1>1, <1>3, ApplyType DEF SyncItem
    <2>3. QED
      BY <1>3, <2>1, <2>2, StillServer, StillNetwork, StillLoop, StillKey, StillProcess DEF SyncItem
  <1>4. CASE SyncItemFails(i)
    <2>1. ItemOK' /\ queue' = queue
      BY <1>4, FailToApplyType DEF SyncItemFails
    <2>2. QED
      BY <1>4, <2>1, GiveUpType, StillKey DEF SyncItemFails
  <1>5. CASE SyncWritten(i)
    <2>1. ItemOK'
      BY <1>1, <1>5, WrittenType DEF SyncWritten
    <2>2. QED
      BY <1>5, <2>1, StillServer, StillNetwork, StillStart, StillLoop, StillKey, StillProcess DEF SyncWritten
  <1>6. CASE SyncWriteFails(i)
    <2>1. ItemOK' /\ queue' = queue
      BY <1>1, <1>6, WrittenType DEF SyncWriteFails
    <2>2. QED
      BY <1>6, <2>1, GiveUpType, StillKey DEF SyncWriteFails
  <1>7. CASE SyncAcked(i)
    <2>1. ServerOK'
      BY <1>7, QueueType DEF SyncAcked
    <2>2. ItemOK'
      BY <1>7, AckType DEF SyncAcked
    <2>3. QED
      BY <1>7, <2>1, <2>2, StillNetwork, StillStart, StillLoop, StillKey, StillProcess DEF SyncAcked
  <1>8. CASE SyncAckFails(i)
    <2>1. ItemOK' /\ queue' \subseteq queue
      BY <1>8, AckType DEF SyncAckFails
    <2>2. QED
      BY <1>8, <2>1, GiveUpType, StillKey DEF SyncAckFails
  <1>9. QED
    BY <1>2, <1>3, <1>4, <1>5, <1>6, <1>7, <1>8

LEMMA LoopType ==
  ASSUME TypeOK, LoopStep
  PROVE  TypeOK'
  <1> USE TypeParts
  <1>1. ASSUME NEW s \in Streams, StreamEnds(s)
        PROVE  TypeOK'
    <2>1. LoopOK'
      BY <1>1, CleanupType DEF StreamEnds, LoopOK
    <2>2. NetworkOK'
      BY <1>1 DEF StreamEnds, NetworkOK
    <2>3. QED
      BY <1>1, <2>1, <2>2, StillServer, StillStart, StillKey, StillItem, StillProcess DEF StreamEnds
  <1>2. CASE Reconnect
    BY <1>2, ConnectType DEF Reconnect, LoopOK, StartOK
  <1>3. CASE LoopEnds
    <2>1. LoopOK'
      BY <1>3 DEF LoopEnds, LoopOK, Phases
    <2>2. QED
      BY <1>3, <2>1, StillServer, StillNetwork, StillStart, StillKey, StillItem, StillProcess DEF LoopEnds
  <1>4. QED
    BY <1>1, <1>2, <1>3 DEF LoopStep

LEMMA ArrivedType ==
  ASSUME ProcessOK, NEW s \in Streams, NEW m, Arrived(s, m)
  PROVE  got' \in [Streams -> Nat]
  BY DEF ProcessOK, Arrived

\* Loop and process after a handler or a save that fails.
LEMMA CleanupLoop ==
  ASSUME LoopOK, NEW s \in Streams, Cleanup(s), UNCHANGED <<stopRequested, listening>>
  PROVE  LoopOK'
  BY CleanupType DEF LoopOK

LEMMA KeyType ==
  ASSUME TypeOK, KeyStep
  PROVE  TypeOK'
  <1> USE TypeParts
  <1>1. ASSUME NEW s \in Streams, NEW v \in Keys, HandleNewKey(s, v)
        PROVE  TypeOK'
    <2>1. KeyOK' /\ ProcessOK'
      BY <1>1, ArrivedType, StreamNumbers DEF HandleNewKey, KeyOK, ProcessOK
    <2>2. QED
      BY <1>1, <2>1, StillServer, StillNetwork, StillStart, StillLoop, StillItem DEF HandleNewKey
  <1>2. ASSUME NEW s \in Streams, NEW v \in Keys, HandleNewKeyFails(s, v)
        PROVE  TypeOK'
    <2>1. ProcessOK'
      BY <1>2, ArrivedType DEF HandleNewKeyFails, ProcessOK
    <2>2. QED
      BY <1>2, <2>1, CleanupLoop, StillServer, StillNetwork, StillStart, StillKey, StillItem
         DEF HandleNewKeyFails
  <1>3. ASSUME NEW s \in Workers, NEW v \in Keys, NewKeySaved(s, v)
        PROVE  TypeOK'
    <2>1. KeyOK'
      BY <1>3 DEF NewKeySaved, KeyOK
    <2>2. QED
      BY <1>3, <2>1, StillServer, StillNetwork, StillStart, StillLoop, StillItem, StillProcess
         DEF NewKeySaved
  <1>4. ASSUME NEW s \in Workers, NEW v \in Keys, NewKeyNotSaved(s, v)
        PROVE  TypeOK'
    <2>1. KeyOK'
      BY <1>4 DEF NewKeyNotSaved, KeyOK
    <2>2. LoopOK'
      <3>1. CASE s # NoStream
        <4>1. s \in Streams
          BY <3>1 DEF Workers
        <4>2. QED
          BY <1>4, <3>1, <4>1, CleanupLoop DEF NewKeyNotSaved
      <3>2. CASE s = NoStream
        BY <1>4, <3>2, StillLoop DEF NewKeyNotSaved, loopVars
      <3>3. QED
        BY <3>1, <3>2
    <2>3. QED
      BY <1>4, <2>1, <2>2, StillServer, StillNetwork, StillStart, StillItem, StillProcess
         DEF NewKeyNotSaved
  <1>5. QED
    BY <1>1, <1>2, <1>3, <1>4 DEF KeyStep

LEMMA ItemType ==
  ASSUME TypeOK, ItemStep
  PROVE  TypeOK'
  <1> USE TypeParts
  <1>1. PICK s \in Streams, i \in Items :
               \/ HandleItem(s, i) \/ HandleItemFails(s, i) \/ ItemWritten(s, i)
               \/ ItemWriteFails(s, i) \/ ItemAcked(s, i) \/ ItemAckFails(s, i)
    BY DEF ItemStep
  <1>2. s \in Workers
    BY StreamNumbers
  <1>3. CASE HandleItem(s, i)
    <2>1. ProcessOK'
      BY <1>3, ArrivedType DEF HandleItem, ProcessOK
    <2>2. ItemOK'
      BY <1>2, <1>3, ApplyType DEF HandleItem
    <2>3. QED
      BY <1>3, <2>1, <2>2, StillServer, StillNetwork, StillStart, StillLoop, StillKey DEF HandleItem
  <1>4. CASE HandleItemFails(s, i)
    <2>1. ProcessOK'
      BY <1>4, ArrivedType DEF HandleItemFails, ProcessOK
    <2>2. ItemOK'
      BY <1>4, FailToApplyType DEF HandleItemFails
    <2>3. QED
      BY <1>4, <2>1, <2>2, CleanupLoop, StillServer, StillNetwork, StillStart, StillKey
         DEF HandleItemFails
  <1>5. CASE ItemWritten(s, i)
    <2>1. ItemOK'
      BY <1>2, <1>5, WrittenType DEF ItemWritten
    <2>2. QED
      BY <1>5, <2>1, StillServer, StillNetwork, StillStart, StillLoop, StillKey, StillProcess
         DEF ItemWritten
  <1>6. CASE ItemWriteFails(s, i)
    <2>1. ItemOK'
      BY <1>2, <1>6, WrittenType DEF ItemWriteFails
    <2>2. QED
      BY <1>6, <2>1, CleanupLoop, StillServer, StillNetwork, StillStart, StillKey, StillProcess
         DEF ItemWriteFails
  <1>7. CASE ItemAcked(s, i)
    <2>1. ServerOK'
      BY <1>7, QueueType DEF ItemAcked
    <2>2. ItemOK'
      BY <1>7, AckType DEF ItemAcked
    <2>3. QED
      BY <1>7, <2>1, <2>2, StillNetwork, StillStart, StillLoop, StillKey, StillProcess DEF ItemAcked
  <1>8. CASE ItemAckFails(s, i)
    <2>1. ServerOK'
      BY <1>8, QueueType DEF ItemAckFails
    <2>2. ItemOK'
      BY <1>8, AckType DEF ItemAckFails
    <2>3. QED
      BY <1>8, <2>1, <2>2, CleanupLoop, StillNetwork, StillStart, StillKey, StillProcess
         DEF ItemAckFails
  <1>9. QED
    BY <1>1, <1>3, <1>4, <1>5, <1>6, <1>7, <1>8

LEMMA SendOwnType ==
  ASSUME TypeOK, NEW o \in Own, SendOwn(o)
  PROVE  TypeOK'
  <1> USE TypeParts
  <1>1. MarkOK'
    BY NoteType DEF SendOwn, ItemOK, Ids
  <1>2. WorkOK'
    BY DEF SendOwn, ItemOK, WorkOK
  <1>3. QED
    BY <1>1, <1>2, StillServer, StillNetwork, StillStart, StillLoop, StillKey, StillProcess
       DEF SendOwn, ItemOK

LEMMA RestartType ==
  ASSUME TypeOK, Restart
  PROVE  TypeOK'
  <1> USE TypeParts
  <1>1. run' \in 1 .. MaxRuns /\ ProcessOK'
    BY Numbers DEF Restart, ProcessOK
  <1>2. MarkOK'
    <2>1. seen' \in Seq(Ids) /\ Len(seen') = 0
      BY DEF Restart
    <2>2. SeenSize \in 0 .. SeenSize /\ 0 <= SeenSize
      BY Numbers
    <2>3. QED
      BY <2>1, <2>2 DEF Restart, MarkOK
  <1>3. WorkOK'
    BY DEF Restart, ItemOK, WorkOK
  <1>4. KeyOK' /\ StartOK'
    BY DEF Restart, KeyOK, StartOK
  <1>5. LoopOK' /\ NetworkOK'
    BY DEF Restart, LoopOK, NetworkOK, Phases, Booting
  <1>6. QED
    BY <1>1, <1>2, <1>3, <1>4, <1>5, StillServer DEF Restart, ItemOK

LEMMA TypeStep == TypeOK /\ [Next]_clientNetVars => TypeOK'
  <1> SUFFICES ASSUME TypeOK, [Next]_clientNetVars PROVE TypeOK'
    OBVIOUS
  <1>1. CASE Next
    BY <1>1, GroupType, StreamServerType, StartType, SyncType, LoopType, KeyType, ItemType, SendOwnType,
       RestartType
       DEF Next, StreamServerStep
  <1>2. CASE UNCHANGED clientNetVars
    BY <1>2, TypeParts, StillServer, StillNetwork, StillClient DEF clientNetVars
  <1>3. QED
    BY <1>1, <1>2

\* The variables have their types.
THEOREM TypeCorrect == Spec => []TypeOK
  BY InitType, TypeStep, PTL DEF Spec

-----------------------------------------------------------------------------
(* Presence *)

\* A stream that has not been opened is unknown to the server.
UnopenedUnused == \A s \in Streams : s > opened => session[s] = "unused"

PresenceInv == NoPresenceAfterEnd /\ UnopenedUnused

\* The stream the loop opens is a new one.
LEMMA ConnectPresence ==
  ASSUME TypeOK, PresenceInv, Connect
  PROVE  PresenceInv'
  <1> DEFINE new == opened + 1
  <1>1. /\ new \in Streams /\ opened' = new /\ new > opened /\ opened \in Nat
        /\ presence' = presence /\ session' = [session EXCEPT ![new] = "hello"]
        /\ session \in [Streams -> {"unused", "hello", "live", "ended"}]
        /\ presence \in Streams \cup {NoStream}
    BY Numbers, TypeParts DEF Connect, NetworkOK, ServerOK, Streams
  <1> HIDE DEF new
  <1>2. session[new] = "unused"
    BY <1>1 DEF PresenceInv, UnopenedUnused
  <1>3. NoPresenceAfterEnd'
    BY <1>1, <1>2 DEF PresenceInv, NoPresenceAfterEnd
  <1>4. UnopenedUnused'
    <2> SUFFICES ASSUME NEW s \in Streams, s > new PROVE session'[s] = "unused"
      BY <1>1 DEF UnopenedUnused
    <2>1. s > opened /\ s # new
      BY <1>1, StreamNumbers DEF new
    <2>2. QED
      BY <1>1, <2>1 DEF PresenceInv, UnopenedUnused
  <1>5. QED
    BY <1>3, <1>4 DEF PresenceInv

LEMMA PresenceStep == TypeOK /\ PresenceInv /\ [Next]_clientNetVars => PresenceInv'
  <1> SUFFICES ASSUME TypeOK, PresenceInv, [Next]_clientNetVars PROVE PresenceInv'
    OBVIOUS
  <1>1. CASE UNCHANGED <<presence, session, opened>>
    BY <1>1 DEF PresenceInv, NoPresenceAfterEnd, UnopenedUnused
  <1>2. GroupStep => PresenceInv'
    BY <1>1 DEF GroupStep, Push, Rotate, ConfirmBind, NewGroupKey, networkVars
  <1>3. ASSUME NEW s \in Streams, ServeHello(s) \/ ServeEnd(s)
        PROVE  PresenceInv'
    <2>1. /\ session \in [Streams -> {"unused", "hello", "live", "ended"}]
          /\ presence \in Streams \cup {NoStream} /\ opened' = opened
      BY <1>3, TypeParts DEF ServerOK, ServeHello, ServeEnd, networkVars
    <2>2. NoPresenceAfterEnd'
      BY <1>3, <2>1 DEF ServeHello, ServeEnd, PresenceAfterEnd, PresenceInv, NoPresenceAfterEnd
    <2>3. UnopenedUnused'
      BY <1>3, <2>1 DEF ServeHello, ServeEnd, PresenceInv, UnopenedUnused
    <2>4. QED
      BY <2>2, <2>3 DEF PresenceInv
  <1>4. (\E s \in Streams : LinkBreaks(s)) \/ StartRealtime \/ StopRealtime => PresenceInv'
    BY <1>1 DEF LinkBreaks, StartRealtime, StopRealtime, serverVars, networkVars
  <1>5. StartStep => PresenceInv'
    BY <1>1, ConnectPresence DEF StartStep, ContextArrives, RefreshSaved, RefreshNotSaved,
       BacklogArrives, StartFails, LoopBegins, GiveUp, serverVars, networkVars
  <1>6. SyncStep => PresenceInv'
    BY <1>1 DEF SyncStep, SyncItem, SyncItemFails, SyncWritten, SyncWriteFails, SyncAcked,
       SyncAckFails, GiveUp, serverVars, networkVars
  <1>7. LoopStep => PresenceInv'
    BY <1>1, ConnectPresence DEF LoopStep, StreamEnds, Reconnect, LoopEnds, serverVars, networkVars
  <1>8. KeyStep => PresenceInv'
    BY <1>1 DEF KeyStep, HandleNewKey, HandleNewKeyFails, NewKeySaved, NewKeyNotSaved, serverVars,
       networkVars
  <1>9. ItemStep => PresenceInv'
    BY <1>1 DEF ItemStep, HandleItem, HandleItemFails, ItemWritten, ItemWriteFails, ItemAcked,
       ItemAckFails, serverVars, networkVars
  <1>10. (\E o \in Own : SendOwn(o)) \/ Restart \/ UNCHANGED clientNetVars => PresenceInv'
    BY <1>1 DEF SendOwn, Restart, clientNetVars, serverVars, networkVars
  <1>11. QED
    BY <1>2, <1>3, <1>4, <1>5, <1>6, <1>7, <1>8, <1>9, <1>10 DEF Next, StreamServerStep

\* The server never writes to a stream the end of which it has heard of.
THEOREM PresenceCorrect == Spec => []NoPresenceAfterEnd
  <1>1. Init => PresenceInv
    BY DEF Init, PresenceInv, NoPresenceAfterEnd, UnopenedUnused
  <1>2. PresenceInv => NoPresenceAfterEnd
    BY DEF PresenceInv
  <1>3. QED
    BY <1>1, <1>2, InitType, TypeStep, PresenceStep, PTL DEF Spec

-----------------------------------------------------------------------------
(* What a step does to the items the client works on *)

\* Nothing, but that an AckItem may have been answered.
Idle ==
  /\ UNCHANGED <<writing, seen, historyVars, run>>
  /\ acks' \subseteq acks

\* An item of its own is sent.
OwnNoted(o) == o \notin Repeats /\ Note(o) /\ UNCHANGED <<writing, acks, applied, failed, cut, run>>

\* syncOffline, or the handler of a stream, turns to an item.
Taken(s, i) ==
  /\ \E k \in Keys : Apply(s, i, k)
  /\ \/ s = NoStream /\ Between /\ i \in batch
     \/ s \in Streams /\ Arrived(s, Clip(i))
  /\ UNCHANGED run

Refused(i) == (\E k \in Keys : FailToApply(i, k)) /\ UNCHANGED run

LEMMA ItemShape ==
  ASSUME TypeOK, [Next]_clientNetVars
  PROVE  \/ Idle
         \/ \E o \in Own : OwnNoted(o)
         \/ \E s \in Workers, i \in Items : Taken(s, i)
         \/ \E i \in Items : Refused(i)
         \/ \E s \in Workers, i \in Items : (Written(s, i) \/ NotWritten(s, i)) /\ UNCHANGED run
         \/ Restart
  <1>1. CASE UNCHANGED <<run, itemVars>>
    BY <1>1 DEF Idle, itemVars
  <1>2. CASE UNCHANGED clientVars
    BY <1>1, <1>2 DEF clientVars
  <1>3. NoStream \in Workers /\ Streams \subseteq Workers /\ base \in Keys /\ key \in Keys
    BY TypeParts DEF Workers, StartOK, KeyOK
  <1>4. GroupStep \/ StreamServerStep \/ (\E s \in Streams : LinkBreaks(s)) => UNCHANGED <<run, itemVars>>
    BY DEF GroupStep, Push, Rotate, ConfirmBind, StreamServerStep, ServeHello, ServeEnd, LinkBreaks,
           clientVars
  <1>5. StartRealtime \/ StopRealtime \/ StartStep => UNCHANGED <<run, itemVars>>
    BY DEF StartRealtime, StopRealtime, StartStep, ContextArrives, RefreshSaved, RefreshNotSaved,
           BacklogArrives, StartFails, LoopBegins, Connect, GiveUp
  <1>6. LoopStep \/ KeyStep => UNCHANGED <<run, itemVars>>
    BY DEF LoopStep, StreamEnds, Reconnect, Connect, LoopEnds, KeyStep, HandleNewKey,
           HandleNewKeyFails, NewKeySaved, NewKeyNotSaved
  <1>7. ASSUME NEW i \in Items, SyncItem(i) \/ SyncItemFails(i)
        PROVE  Taken(NoStream, i) \/ Refused(i)
    BY <1>3, <1>7 DEF SyncItem, SyncItemFails, GiveUp, Taken, Refused
  <1>8. ASSUME NEW i \in Items, SyncWritten(i) \/ SyncWriteFails(i)
        PROVE  (Written(NoStream, i) \/ NotWritten(NoStream, i)) /\ UNCHANGED run
    BY <1>8 DEF SyncWritten, SyncWriteFails, GiveUp
  <1>9. ASSUME NEW i \in Items, SyncAcked(i) \/ SyncAckFails(i)
        PROVE  Idle
    BY <1>9 DEF SyncAcked, SyncAckFails, GiveUp, Idle
  <1>10. ASSUME NEW s \in Streams, NEW i \in Items, HandleItem(s, i) \/ HandleItemFails(s, i)
         PROVE  Taken(s, i) \/ Refused(i)
    BY <1>3, <1>10 DEF HandleItem, HandleItemFails, Taken, Refused
  <1>11. ASSUME NEW s \in Streams, NEW i \in Items, ItemWritten(s, i) \/ ItemWriteFails(s, i)
         PROVE  (Written(s, i) \/ NotWritten(s, i)) /\ UNCHANGED run
    BY <1>11 DEF ItemWritten, ItemWriteFails
  <1>12. ASSUME NEW s \in Streams, NEW i \in Items, ItemAcked(s, i) \/ ItemAckFails(s, i)
         PROVE  Idle
    BY <1>12 DEF ItemAcked, ItemAckFails, Idle
  <1>13. ASSUME NEW o \in Own, SendOwn(o)
         PROVE  OwnNoted(o)
    BY <1>13 DEF SendOwn, OwnNoted
  <1>14. CASE SyncStep
    BY <1>3, <1>7, <1>8, <1>9, <1>14 DEF SyncStep
  <1>15. CASE ItemStep
    BY <1>3, <1>10, <1>11, <1>12, <1>15 DEF ItemStep
  <1>16. CASE UNCHANGED clientNetVars
    BY <1>2, <1>16 DEF clientNetVars
  <1>17. QED
    BY <1>1, <1>4, <1>5, <1>6, <1>13, <1>14, <1>15, <1>16 DEF Next

-----------------------------------------------------------------------------
(* When an item is written again *)

\* The age of an item recentlySeen holds is its distance from the end, and one it does
\* not hold is as old as can be told.
WindowInv ==
  /\ \A n \in DOMAIN seen : seen[n] \in Items => age[seen[n]] = Len(seen) - n
  /\ \A i \in Items : i \notin Repeats => age[i] = SeenSize

LEMMA NoteWindow ==
  ASSUME MarkOK, WindowInv, NEW x \in Ids, x \notin Repeats, Note(x)
  PROVE  WindowInv'
  <1> DEFINE n == Len(seen)
             m == Len(seen')
  <1>1. /\ n \in Nat /\ seen \in Seq(Ids) /\ DOMAIN seen = 1 .. n /\ n <= SeenSize
        /\ seen' \in Seq(Ids) /\ DOMAIN seen' = 1 .. m /\ m \in Nat
        /\ SeenSize \in Nat /\ SeenSize > 0
    BY MarkShape, LenProperties, Numbers DEF MarkOK, Note
  <1>2. \/ /\ n < SeenSize /\ m = n + 1 /\ seen'[m] = x
           /\ \A k \in 1 .. n : seen'[k] = seen[k]
        \/ /\ n = SeenSize /\ m = n /\ seen'[m] = x
           /\ \A k \in 1 .. n - 1 : seen'[k] = seen[k + 1]
    BY MarkShape DEF Note
  <1>3. \A j \in Items : age'[j] = IF j = x THEN 0
                                   ELSE IF age[j] = SeenSize THEN SeenSize ELSE age[j] + 1
    BY DEF Note
  <1>4. \A k \in 1 .. n : seen[k] # x /\ (seen[k] \in Items => age[seen[k]] = n - k)
    BY <1>1 DEF Repeats, WindowInv
  <1> HIDE DEF n, m
  <1>5. \A k \in 1 .. m : seen'[k] \in Items => age'[seen'[k]] = m - k
    <2> SUFFICES ASSUME NEW k \in 1 .. m, seen'[k] \in Items PROVE age'[seen'[k]] = m - k
      OBVIOUS
    <2>1. CASE k = m
      BY <1>1, <1>2, <1>3, <2>1
    <2>2. CASE k # m /\ m = n + 1 /\ n < SeenSize /\ \A l \in 1 .. n : seen'[l] = seen[l]
      <3>1. k \in 1 .. n /\ seen'[k] = seen[k]
        BY <1>1, <2>2
      <3>2. seen[k] # x /\ age[seen[k]] = n - k
        BY <1>4, <3>1
      <3>3. age[seen[k]] # SeenSize
        BY <1>1, <2>2, <3>1, <3>2
      <3>4. age'[seen[k]] = (n - k) + 1
        BY <1>3, <3>1, <3>2, <3>3
      <3>5. QED
        BY <1>1, <2>2, <3>1, <3>4
    <2>3. CASE k # m /\ m = n /\ n = SeenSize /\ \A l \in 1 .. n - 1 : seen'[l] = seen[l + 1]
      <3>1. k \in 1 .. n - 1 /\ k + 1 \in 1 .. n /\ seen'[k] = seen[k + 1]
        BY <1>1, <2>3
      <3>2. seen[k + 1] # x /\ age[seen[k + 1]] = n - (k + 1)
        BY <1>4, <3>1
      <3>3. age[seen[k + 1]] # SeenSize
        BY <1>1, <2>3, <3>1, <3>2
      <3>4. age'[seen[k + 1]] = n - (k + 1) + 1
        BY <1>3, <3>1, <3>2, <3>3
      <3>5. QED
        BY <1>1, <2>3, <3>1, <3>4
    <2>4. QED
      BY <1>2, <2>1, <2>2, <2>3
  <1>6. ASSUME NEW j \in Items, \A k \in 1 .. m : seen'[k] # j
        PROVE  age'[j] = SeenSize
    <2>1. j # x
      BY <1>1, <1>2, <1>6
    <2>2. CASE \A k \in 1 .. n : seen[k] # j
      <3>1. age[j] = SeenSize
        BY <1>1, <2>2 DEF WindowInv, Repeats
      <3>2. QED
        BY <1>3, <2>1, <3>1
    <2>3. CASE \E k \in 1 .. n : seen[k] = j
      <3>1. PICK k \in 1 .. n : seen[k] = j
        BY <2>3
      <3>2. m = n /\ n = SeenSize /\ \A l \in 1 .. n - 1 : seen'[l] = seen[l + 1]
        BY <1>1, <1>2, <1>6, <3>1
      <3>3. k = 1
        <4> SUFFICES ASSUME k # 1 PROVE FALSE
          OBVIOUS
        <4>1. k - 1 \in 1 .. n - 1 /\ k - 1 \in 1 .. m /\ (k - 1) + 1 = k
          BY <1>1, <3>2
        <4>2. seen'[k - 1] = seen[k]
          BY <3>2, <4>1
        <4>3. QED
          BY <1>6, <3>1, <4>1, <4>2
      <3>4. age[j] = SeenSize - 1
        BY <1>4, <3>1, <3>2, <3>3
      <3>5. QED
        BY <1>1, <1>3, <2>1, <3>4
    <2>4. QED
      BY <2>2, <2>3
  <1>7. QED
    BY <1>1, <1>5, <1>6 DEF WindowInv, Repeats, m

LEMMA WindowStep == TypeOK /\ WindowInv /\ [Next]_clientNetVars => WindowInv'
  <1> SUFFICES ASSUME TypeOK, WindowInv, [Next]_clientNetVars PROVE WindowInv'
    OBVIOUS
  <1>1. MarkOK /\ Items \subseteq Ids /\ Own \subseteq Ids
    BY TypeParts DEF ItemOK, Ids
  <1>2. CASE UNCHANGED <<seen, age>>
    BY <1>2 DEF WindowInv, Repeats
  <1>3. CASE Idle
    BY <1>2, <1>3 DEF Idle, historyVars
  <1>4. ASSUME NEW o \in Own, OwnNoted(o)
        PROVE  WindowInv'
    BY <1>1, <1>4, NoteWindow DEF OwnNoted
  <1>5. ASSUME NEW s \in Workers, NEW i \in Items, Taken(s, i)
        PROVE  WindowInv'
    BY <1>1, <1>2, <1>5, NoteWindow DEF Taken, Apply
  <1>6. ASSUME NEW i \in Items, Refused(i)
        PROVE  WindowInv'
    BY <1>1, <1>6, NoteWindow DEF Refused, FailToApply
  <1>7. ASSUME NEW s \in Workers, NEW i \in Items, Written(s, i) \/ NotWritten(s, i)
        PROVE  WindowInv'
    BY <1>2, <1>7 DEF Written, NotWritten
  <1>8. CASE Restart
    BY <1>8 DEF Restart, WindowInv
  <1>9. QED
    BY <1>3, <1>4, <1>5, <1>6, <1>7, <1>8, ItemShape

\* The write of an item begins again in one run of the client only when recentlySeen has
\* been filled with other ids since.
THEOREM OnceCorrect == Spec => AppliedOncePerWindow
  <1>1. Init => WindowInv
    BY DEF Init, WindowInv
  <1>2. TypeOK /\ WindowInv /\ [Next]_clientNetVars
          => [\A w \in writing' \ writing : age[w[2]] = SeenSize]_clientNetVars
    <2> SUFFICES ASSUME TypeOK, WindowInv, [Next]_clientNetVars, NEW w \in writing' \ writing
                 PROVE  age[w[2]] = SeenSize
      OBVIOUS
    <2>1. ~Idle /\ ~Restart /\ (\A o \in Own : ~OwnNoted(o)) /\ \A i \in Items : ~Refused(i)
      BY DEF Idle, Restart, OwnNoted, Refused, FailToApply
    <2>2. \A s \in Workers, i \in Items : ~Written(s, i) /\ ~NotWritten(s, i)
      BY DEF Written, NotWritten
    <2>3. PICK s \in Workers, i \in Items : Taken(s, i)
      BY <2>1, <2>2, ItemShape
    <2>4. i \notin Repeats /\ w = <<s, i>>
      BY <2>3 DEF Taken, Apply
    <2>5. QED
      BY <2>4 DEF WindowInv
  <1>3. QED
    BY <1>1, <1>2, InitType, TypeStep, WindowStep, PTL DEF Spec, AppliedOncePerWindow

-----------------------------------------------------------------------------
(* What streams have been handed *)

LEMMA MessagesDiffer ==
  /\ \A i, j \in Items : Clip(i) = Clip(j) => i = j
  /\ \A i \in Items, v \in Keys : Clip(i) # NewKey(v)
  <1>1. \A i, j \in Items : Clip(i) = Clip(j) => i = j
    <2>1. \A i \in Items : Clip(i).item = i
      BY DEF Clip
    <2>2. QED
      BY <2>1
  <1>2. \A i \in Items, v \in Keys : Clip(i) # NewKey(v)
    <2>1. \A i \in Items : Clip(i).type = "clipboard"
      BY DEF Clip
    <2>2. \A v \in Keys : NewKey(v).type = "group_key_update"
      BY DEF NewKey
    <2>3. QED
      BY <2>1, <2>2
  <1>3. QED
    BY <1>1, <1>2

Told(sto) == [s \in Streams |-> {i \in Items : \E n \in DOMAIN sto[s] : sto[s][n] = Clip(i)}]

\* What a message adds to what its stream has been handed.
LEMMA ToldWritten ==
  ASSUME ServerOK, presence # NoStream, NEW m \in Message
  PROVE  Told(WriteToPresence(m)) =
           [s \in Streams |->
              IF s = presence THEN Told(sent)[s] \cup {i \in Items : m = Clip(i)} ELSE Told(sent)[s]]
  <1> DEFINE q == sent[presence]
             w == WriteToPresence(m)
  <1>1. /\ presence \in Streams /\ q \in Seq(Message) /\ w[presence] = Append(q, m)
        /\ \A s \in Streams : s # presence => w[s] = sent[s]
    BY WriteType DEF ServerOK
  <1>2. Told(w)[presence] = Told(sent)[presence] \cup {i \in Items : m = Clip(i)}
    <2>1. Len(q) \in Nat /\ DOMAIN q = 1 .. Len(q) /\ DOMAIN Append(q, m) = 1 .. Len(q) + 1
      BY <1>1, AppendProperties, LenProperties
    <2>2. \A n \in DOMAIN Append(q, m) : Append(q, m)[n] = IF n \in DOMAIN q THEN q[n] ELSE m
      BY <1>1, <2>1, AppendProperties
    <2> HIDE DEF q, w
    <2>3. ASSUME NEW i \in Items
          PROVE  (\E n \in DOMAIN Append(q, m) : Append(q, m)[n] = Clip(i))
                   <=> (\E n \in DOMAIN q : q[n] = Clip(i)) \/ m = Clip(i)
      <3>1. Len(q) + 1 \in DOMAIN Append(q, m) \ DOMAIN q /\ DOMAIN q \subseteq DOMAIN Append(q, m)
        BY <2>1
      <3>2. QED
        BY <2>2, <3>1
    <2>4. Told(w)[presence] = {i \in Items : \E n \in DOMAIN w[presence] : w[presence][n] = Clip(i)}
      BY <1>1 DEF Told
    <2>5. Told(sent)[presence] = {i \in Items : \E n \in DOMAIN q : q[n] = Clip(i)}
      BY <1>1 DEF Told, q
    <2>6. QED
      BY <1>1, <2>3, <2>4, <2>5
  <1>3. \A s \in Streams : s # presence => Told(w)[s] = Told(sent)[s]
    BY <1>1 DEF Told
  <1>4. QED
    BY <1>2, <1>3 DEF Told

\* A pushed item is what the stream of the presence is handed, if there is a presence.
LEMMA ToldItem ==
  ASSUME ServerOK, NEW i \in Items, NEW v, Push(i, v), presence # NoStream
  PROVE  Told(sent') =
           [s \in Streams |-> IF s = presence THEN Told(sent)[s] \cup {i} ELSE Told(sent)[s]]
  <1>1. sent' = WriteToPresence(Clip(i))
    BY DEF Push
  <1>2. {j \in Items : Clip(i) = Clip(j)} = {i}
    BY MessagesDiffer
  <1>3. QED
    BY <1>1, <1>2, ToldWritten, MessageTypes

\* A group key is no item.
LEMMA ToldKey ==
  ASSUME ServerOK, NewGroupKey
  PROVE  Told(sent') = Told(sent)
  <1>1. CASE presence = NoStream
    BY <1>1 DEF NewGroupKey
  <1>2. CASE presence # NoStream
    <2>1. keyVersion' \in Keys
      BY Numbers DEF NewGroupKey, ServerOK, Keys
    <2>2. {j \in Items : NewKey(keyVersion') = Clip(j)} = {}
      BY <2>1, MessagesDiffer
    <2>3. sent' = WriteToPresence(NewKey(keyVersion'))
      BY <1>2 DEF NewGroupKey
    <2>4. Told(sent') = [c \in Streams |-> IF c = presence THEN Told(sent)[c] \cup {} ELSE Told(sent)[c]]
      BY <1>2, <2>1, <2>2, <2>3, ToldWritten, MessageTypes
    <2>5. QED
      BY <2>4 DEF Told
  <1>3. QED
    BY <1>1, <1>2

-----------------------------------------------------------------------------
(* The two ways an item comes, and what is marked *)

Streamed(i) == \E s \in Streams : i \in Told(sent)[s]

\* syncOffline works on the item, or may yet get it.
OfQueue(i) == i \in queue \cup batch \/ <<NoStream, i>> \in writing \cup acks

\* The handler of a stream works on it.
OfStream(i) == \E s \in Streams : <<s, i>> \in writing \cup acks

\* An item comes from the queue or over a stream, and never both ways.
RouteInv ==
  \A i \in Items :
    /\ OfQueue(i) => sealedWith[i] # 0 /\ ~Streamed(i)
    /\ OfStream(i) => Streamed(i)
    /\ Streamed(i) => sealedWith[i] # 0

\* What a step other than the group's does to the two routes.
LEMMA RouteShape ==
  ASSUME Next, ~GroupStep
  PROVE  /\ UNCHANGED <<sealedWith, sent>>
         /\ queue' \subseteq queue /\ batch' \subseteq batch \cup queue
  <1>1. StreamServerStep \/ (\E s \in Streams : LinkBreaks(s)) \/ StartRealtime \/ StopRealtime
          => UNCHANGED <<sealedWith, sent, queue, batch>>
    BY DEF StreamServerStep, ServeHello, ServeEnd, LinkBreaks, StartRealtime, StopRealtime,
           serverVars, clientVars, startVars
  <1>2. StartStep => /\ UNCHANGED <<sealedWith, sent>>
                     /\ queue' = queue /\ batch' \subseteq batch \cup queue
    BY DEF StartStep, ContextArrives, RefreshSaved, RefreshNotSaved, BacklogArrives, StartFails,
           LoopBegins, Connect, GiveUp, serverVars
  <1>3. SyncStep => /\ UNCHANGED <<sealedWith, sent>>
                    /\ queue' \subseteq queue /\ batch' \subseteq batch \cup queue
    BY DEF SyncStep, SyncItem, SyncItemFails, SyncWritten, SyncWriteFails, SyncAcked, SyncAckFails,
           GiveUp, serverVars, startVars
  <1>4. LoopStep \/ KeyStep => UNCHANGED <<sealedWith, sent, queue, batch>>
    BY DEF LoopStep, StreamEnds, Reconnect, LoopEnds, Connect, KeyStep, HandleNewKey,
           HandleNewKeyFails, NewKeySaved, NewKeyNotSaved, serverVars, startVars
  <1>5. ItemStep => UNCHANGED <<sealedWith, sent, batch>> /\ queue' \subseteq queue
    BY DEF ItemStep, HandleItem, HandleItemFails, ItemWritten, ItemWriteFails, ItemAcked,
           ItemAckFails, serverVars, startVars
  <1>6. (\E o \in Own : SendOwn(o)) \/ Restart => /\ UNCHANGED <<sealedWith, sent, queue>>
                                                  /\ batch' \subseteq batch
    BY DEF SendOwn, Restart, serverVars, startVars
  <1>7. QED
    BY <1>1, <1>2, <1>3, <1>4, <1>5, <1>6 DEF Next

\* The item that is handled is one its stream has been handed.
LEMMA ArrivedTold ==
  ASSUME ServerOK, ProcessOK, NEW s \in Streams, NEW i \in Items, Arrived(s, Clip(i))
  PROVE  Streamed(i)
  <1>1. /\ got[s] \in Nat /\ sent[s] \in Seq(Message) /\ got[s] < Len(sent[s])
        /\ Clip(i) = sent[s][got[s] + 1]
    BY DEF ServerOK, ProcessOK, Arrived
  <1>2. got[s] + 1 \in DOMAIN sent[s]
    BY <1>1, LenProperties
  <1>3. QED
    BY <1>1, <1>2 DEF Streamed, Told

\* What is worked on after a step was worked on before, or has just been taken.
LEMMA WorkShape ==
  ASSUME TypeOK, [Next]_clientNetVars, NEW s \in Workers, NEW i \in Items,
         <<s, i>> \in writing' \cup acks'
  PROVE  <<s, i>> \in writing \cup acks \/ Taken(s, i)
  <1>1. CASE Idle \/ (\E o \in Own : OwnNoted(o)) \/ (\E j \in Items : Refused(j)) \/ Restart
    BY <1>1 DEF Idle, OwnNoted, Refused, FailToApply, Restart
  <1>2. ASSUME NEW t \in Workers, NEW j \in Items, Taken(t, j)
        PROVE  <<s, i>> \in writing \cup acks \/ Taken(s, i)
    <2>1. writing' \cup acks' \subseteq writing \cup acks \cup {<<t, j>>}
      BY <1>2 DEF Taken, Apply
    <2>2. QED
      BY <1>2, <2>1
  <1>3. ASSUME NEW t \in Workers, NEW j \in Items, Written(t, j) \/ NotWritten(t, j)
        PROVE  <<s, i>> \in writing \cup acks
    BY <1>3 DEF Written, NotWritten
  <1>4. QED
    BY <1>1, <1>2, <1>3, ItemShape

LEMMA RouteStep == TypeOK /\ RouteInv /\ [Next]_clientNetVars => RouteInv'
  <1> SUFFICES ASSUME TypeOK, RouteInv, [Next]_clientNetVars PROVE RouteInv'
    OBVIOUS
  <1>1. ServerOK /\ ProcessOK
    BY TypeParts
  <1>2. CASE GroupStep
    <2>1. UNCHANGED <<batch, writing, acks>>
      BY <1>2 DEF GroupStep, Push, Rotate, ConfirmBind, clientVars, startVars, itemVars
    <2>2. CASE NewGroupKey
      <3>1. UNCHANGED <<sealedWith, queue>> /\ Told(sent') = Told(sent)
        BY <1>1, <2>2, ToldKey DEF NewGroupKey
      <3>2. QED
        BY <2>1, <3>1 DEF RouteInv, OfQueue, OfStream, Streamed
    <2>3. ASSUME NEW i \in Items, NEW v \in 1 .. keyVersion, Push(i, v)
          PROVE  RouteInv'
      <3>1. /\ sealedWith[i] = 0 /\ sealedWith'[i] # 0
            /\ \A j \in Items : j # i => sealedWith'[j] = sealedWith[j]
        BY <1>1, <2>3 DEF Push, ServerOK, Keys
      <3>2. ~OfQueue(i) /\ ~OfStream(i) /\ ~Streamed(i)
        BY <3>1 DEF RouteInv
      <3>3. CASE presence = NoStream
        <4>1. queue' = queue \cup {i} /\ sent' = sent
          BY <2>3, <3>3 DEF Push
        <4>2. QED
          BY <2>1, <3>1, <3>2, <4>1 DEF RouteInv, OfQueue, OfStream, Streamed
      <3>4. CASE presence # NoStream
        <4>1. queue' = queue /\ presence \in Streams
          BY <1>1, <2>3, <3>4 DEF Push, ServerOK
        <4>2. \A s \in Streams : Told(sent')[s] = IF s = presence THEN Told(sent)[s] \cup {i}
                                                                  ELSE Told(sent)[s]
          BY <1>1, <2>3, <3>4, ToldItem
        <4>3. \A j \in Items : Streamed(j)' <=> Streamed(j) \/ j = i
          BY <4>1, <4>2 DEF Streamed
        <4>4. \A j \in Items : (OfQueue(j)' <=> OfQueue(j)) /\ (OfStream(j)' <=> OfStream(j))
          BY <2>1, <4>1 DEF OfQueue, OfStream
        <4>5. QED
          BY <3>1, <3>2, <4>3, <4>4 DEF RouteInv
      <3>5. QED
        BY <3>3, <3>4
    <2>4. QED
      BY <1>2, <2>2, <2>3 DEF GroupStep, Rotate, ConfirmBind
  <1>3. CASE Next /\ ~GroupStep
    <2>1. /\ UNCHANGED <<sealedWith, sent>>
          /\ queue' \subseteq queue /\ batch' \subseteq batch \cup queue
      BY <1>3, RouteShape
    <2>2. ASSUME NEW i \in Items, OfQueue(i)'
          PROVE  OfQueue(i)
      <3>1. CASE <<NoStream, i>> \in writing' \cup acks'
        <4>1. <<NoStream, i>> \in writing \cup acks \/ Taken(NoStream, i)
          BY <3>1, WorkShape DEF Workers
        <4>2. QED
          BY <4>1, StreamNumbers DEF Taken, OfQueue
      <3>2. CASE i \in queue' \cup batch'
        BY <2>1, <3>2 DEF OfQueue
      <3>3. QED
        BY <2>2, <3>1, <3>2 DEF OfQueue
    <2>3. ASSUME NEW i \in Items, OfStream(i)'
          PROVE  Streamed(i)
      <3>1. PICK s \in Streams : <<s, i>> \in writing' \cup acks'
        BY <2>3 DEF OfStream
      <3>2. <<s, i>> \in writing \cup acks \/ Taken(s, i)
        BY <3>1, WorkShape, StreamNumbers
      <3>3. CASE <<s, i>> \in writing \cup acks
        BY <3>3 DEF RouteInv, OfStream
      <3>4. CASE Taken(s, i)
        BY <1>1, <3>4, ArrivedTold, StreamNumbers DEF Taken
      <3>5. QED
        BY <3>2, <3>3, <3>4
    <2>4. \A i \in Items : Streamed(i)' <=> Streamed(i)
      BY <2>1 DEF Streamed
    <2>5. QED
      BY <2>1, <2>2, <2>3, <2>4 DEF RouteInv
  <1>4. CASE UNCHANGED clientNetVars
    BY <1>4 DEF clientNetVars, serverVars, clientVars, startVars, itemVars, RouteInv, OfQueue,
                OfStream, Streamed
  <1>5. QED
    BY <1>2, <1>3, <1>4

\* The item was written, in this run or an earlier one, or has failed in this one.
Outcome(i) == i \in applied \/ failed[i] = run

\* What recentlySeen holds has come to an end or is being written, and what syncOffline
\* acknowledges has come to an end.
MarkedInv ==
  /\ \A i \in Items : i \in Repeats => Outcome(i) \/ \E s \in Workers : <<s, i>> \in writing
  /\ \A i \in Items : <<NoStream, i>> \in acks => Outcome(i)

\* Only what is noted becomes a repeat.
LEMMA NoteRepeats ==
  ASSUME MarkOK, NEW x \in Ids, Note(x)
  PROVE  Repeats' \subseteq Repeats \cup {x}
  <1> DEFINE n == Len(seen)
             m == Len(seen')
  <1>1. /\ n \in Nat /\ DOMAIN seen = 1 .. n
        /\ seen' \in Seq(Ids) /\ DOMAIN seen' = 1 .. m /\ m \in Nat
        /\ \/ /\ m = n + 1 /\ seen'[m] = x
              /\ \A k \in 1 .. n : seen'[k] = seen[k]
           \/ /\ m = n /\ seen'[m] = x
              /\ \A k \in 1 .. n - 1 : seen'[k] = seen[k + 1]
    BY MarkShape, LenProperties DEF MarkOK, Note
  <1> HIDE DEF n, m
  <1>2. ASSUME NEW k \in 1 .. m
        PROVE  seen'[k] = x \/ \E l \in 1 .. n : seen'[k] = seen[l]
    <2>1. CASE k = m
      BY <1>1, <2>1
    <2>2. CASE k # m /\ m = n + 1 /\ \A l \in 1 .. n : seen'[l] = seen[l]
      <3>1. k \in 1 .. n
        BY <1>1, <2>2
      <3>2. QED
        BY <2>2, <3>1
    <2>3. CASE k # m /\ m = n /\ \A l \in 1 .. n - 1 : seen'[l] = seen[l + 1]
      <3>1. k \in 1 .. n - 1 /\ k + 1 \in 1 .. n
        BY <1>1, <2>3
      <3>2. QED
        BY <2>3, <3>1
    <2>4. QED
      BY <1>1, <2>1, <2>2, <2>3
  <1>3. QED
    BY <1>1, <1>2 DEF Repeats

LEMMA MarkedStep == TypeOK /\ RouteInv /\ MarkedInv /\ [Next]_clientNetVars => MarkedInv'
  <1> SUFFICES ASSUME TypeOK, RouteInv, MarkedInv, [Next]_clientNetVars PROVE MarkedInv'
    OBVIOUS
  <1>1. MarkOK /\ WorkOK /\ Items \subseteq Ids /\ Own \subseteq Ids /\ NoStream \in Workers
    BY TypeParts DEF ItemOK, Ids, Workers
  <1>2. CASE Idle
    BY <1>2 DEF Idle, historyVars, MarkedInv, Outcome, Repeats
  <1>3. ASSUME NEW o \in Own, OwnNoted(o)
        PROVE  MarkedInv'
    <2>1. Repeats' \subseteq Repeats \cup {o} /\ o \notin Items
      BY <1>1, <1>3, NoteRepeats, ClientAssumption DEF OwnNoted
    <2>2. QED
      BY <1>3, <2>1 DEF OwnNoted, MarkedInv, Outcome
  <1>4. ASSUME NEW s \in Workers, NEW i \in Items, Taken(s, i)
        PROVE  MarkedInv'
    <2>1. UNCHANGED <<applied, failed, run>> /\ \E k : Apply(s, i, k)
      BY <1>4 DEF Taken, Apply
    <2>2. CASE i \notin Repeats
      <3>1. Note(i) /\ writing' = writing \cup {<<s, i>>} /\ acks' = acks
        BY <2>1, <2>2 DEF Apply
      <3>2. Repeats' \subseteq Repeats \cup {i}
        BY <1>1, <3>1, NoteRepeats
      <3>3. QED
        BY <2>1, <3>1, <3>2 DEF MarkedInv, Outcome
    <2>3. CASE i \in Repeats
      <3>1. UNCHANGED <<writing, seen>> /\ acks' = acks \cup {<<s, i>>}
        BY <2>1, <2>3 DEF Apply
      <3>2. s = NoStream => Outcome(i)
        <4> SUFFICES ASSUME s = NoStream PROVE Outcome(i)
          OBVIOUS
        <4>1. i \in batch /\ <<NoStream, i>> \notin writing
          BY <1>4, StreamNumbers DEF Taken, Between
        <4>2. ~Streamed(i)
          BY <4>1 DEF RouteInv, OfQueue
        <4>3. \A t \in Streams : <<t, i>> \notin writing
          BY <4>2 DEF RouteInv, OfStream
        <4>4. QED
          BY <2>3, <4>1, <4>3 DEF MarkedInv, Workers
      <3>3. QED
        BY <2>1, <3>1, <3>2 DEF MarkedInv, Outcome, Repeats
    <2>4. QED
      BY <2>2, <2>3
  <1>5. ASSUME NEW i \in Items, Refused(i)
        PROVE  MarkedInv'
    <2>1. /\ Note(i) /\ UNCHANGED <<writing, acks, applied, run>>
          /\ failed' = [failed EXCEPT ![i] = run]
      BY <1>5 DEF Refused, FailToApply
    <2>2. Repeats' \subseteq Repeats \cup {i}
      BY <1>1, <2>1, NoteRepeats
    <2>3. Outcome(i)' /\ \A j \in Items : Outcome(j) => Outcome(j)'
      BY <1>1, <2>1 DEF Outcome, WorkOK
    <2>4. QED
      BY <2>1, <2>2, <2>3 DEF MarkedInv
  <1>6. ASSUME NEW s \in Workers, NEW i \in Items, Written(s, i) \/ NotWritten(s, i), UNCHANGED run
        PROVE  MarkedInv'
    <2>1. Outcome(i)' /\ \A j \in Items : Outcome(j) => Outcome(j)'
      BY <1>1, <1>6 DEF Written, NotWritten, Outcome, WorkOK
    <2>2. /\ writing' = writing \ {<<s, i>>} /\ acks' \subseteq acks \cup {<<s, i>>}
          /\ Repeats' = Repeats
      BY <1>6 DEF Written, NotWritten, Repeats
    <2>3. QED
      BY <2>1, <2>2 DEF MarkedInv
  <1>7. CASE Restart
    BY <1>7 DEF Restart, MarkedInv, Repeats
  <1>8. QED
    BY <1>2, <1>3, <1>4, <1>5, <1>6, <1>7, ItemShape

LEMMA InitMarked == Init => RouteInv /\ MarkedInv
  <1> SUFFICES ASSUME Init PROVE RouteInv /\ MarkedInv
    OBVIOUS
  <1>1. \A i \in Items : ~OfQueue(i) /\ ~OfStream(i) /\ ~Streamed(i)
    BY DEF Init, OfQueue, OfStream, Streamed, Told
  <1>2. MarkedInv
    BY DEF Init, MarkedInv, Repeats
  <1>3. QED
    BY <1>1, <1>2 DEF RouteInv

\* What leaves the queue is what an AckItem of syncOffline names.
LEMMA QueueLosesAcked ==
  ASSUME TypeOK, RouteInv, MarkedInv, [Next]_clientNetVars, NEW i \in queue \ queue'
  PROVE  Outcome(i)
  <1>1. i \in Items /\ queue # queue'
    BY TypeParts DEF ServerOK
  <1>2. ~GroupStep /\ ~StreamServerStep /\ ~UNCHANGED clientNetVars
    BY <1>1 DEF GroupStep, Push, Rotate, ConfirmBind, NewGroupKey, StreamServerStep, ServeHello,
                ServeEnd, clientNetVars, serverVars
  <1>3. ~Restart /\ ~StartRealtime /\ ~StopRealtime /\ ~LoopStep
    BY <1>1 DEF Restart, StartRealtime, StopRealtime, LoopStep, StreamEnds, Reconnect, Connect,
                LoopEnds, serverVars
  <1>4. ~StartStep /\ ~KeyStep
    BY <1>1 DEF StartStep, ContextArrives, RefreshSaved, RefreshNotSaved, BacklogArrives, StartFails,
                LoopBegins, Connect, GiveUp, KeyStep, HandleNewKey, HandleNewKeyFails, NewKeySaved,
                NewKeyNotSaved, serverVars
  <1>5. ~(\E s \in Streams : LinkBreaks(s)) /\ ~(\E o \in Own : SendOwn(o))
    BY <1>1 DEF LinkBreaks, SendOwn, serverVars
  <1>6. SyncStep => <<NoStream, i>> \in acks
    BY <1>1 DEF SyncStep, SyncItem, SyncItemFails, SyncWritten, SyncWriteFails, SyncAcked,
                SyncAckFails, serverVars
  <1>7. ItemStep => \E s \in Streams : <<s, i>> \in acks
    BY <1>1 DEF ItemStep, HandleItem, HandleItemFails, ItemWritten, ItemWriteFails, ItemAcked,
                ItemAckFails, serverVars
  <1>8. ~ \E s \in Streams : <<s, i>> \in acks
    BY <1>1 DEF RouteInv, OfQueue, OfStream
  <1>9. QED
    BY <1>1, <1>2, <1>3, <1>4, <1>5, <1>6, <1>7, <1>8 DEF Next, MarkedInv

\* What the server forgets the client has written, or has reported in this very run that
\* it could not.
THEOREM AckCorrect == Spec => AckedWasRead
  <1>1. TypeOK /\ RouteInv /\ MarkedInv /\ [Next]_clientNetVars
          => [\A i \in queue \ queue' : i \in applied \/ failed[i] = run]_clientNetVars
    BY QueueLosesAcked DEF Outcome
  <1>2. QED
    BY <1>1, InitMarked, InitType, TypeStep, RouteStep, MarkedStep, PTL DEF Spec, AckedWasRead

-----------------------------------------------------------------------------
(* Nothing vanishes *)

\* The client has handled no more of a stream than was written to it.
GotSent == \A s \in Streams : got[s] <= Len(sent[s])

\* The item i is on the stream s, and has not been handled.
UnderWay(i, s) == \E n \in got[s] + 1 .. Len(sent[s]) : sent[s][n] = Clip(i)

\* The client has written it or failed to, is writing it for a stream, or was cut off.
Landed(i) ==
  \/ i \in applied \cup cut
  \/ failed[i] # 0
  \/ \E s \in Streams : <<s, i>> \in writing

Accounted(i) ==
  sealedWith[i] = 0 \/ i \in queue \/ Landed(i) \/ \E s \in Streams : UnderWay(i, s)

StreamInv == GotSent /\ \A i \in Items : Accounted(i)

\* A message is written: what was under way still is, and what the message brings.
LEMMA WriteUnderWay ==
  ASSUME TypeOK, GotSent, presence # NoStream, NEW m \in Message,
         sent' = WriteToPresence(m), got' = got
  PROVE  /\ GotSent'
         /\ \A i \in Items, s \in Streams : UnderWay(i, s) => UnderWay(i, s)'
         /\ \A i \in Items : m = Clip(i) => \E s \in Streams : UnderWay(i, s)'
  <1>1. /\ presence \in Streams
        /\ sent'[presence] = Append(sent[presence], m)
        /\ \A s \in Streams : s # presence => sent'[s] = sent[s]
    BY WriteType, TypeParts
  <1>2. /\ \A s \in Streams : sent[s] \in Seq(Message) /\ Len(sent[s]) \in Nat /\ got[s] \in Nat
        /\ sent[presence] \in Seq(Message)
    BY <1>1, TypeParts, LenProperties DEF ServerOK, ProcessOK
  <1>3. /\ Len(sent'[presence]) = Len(sent[presence]) + 1
        /\ \A n \in 1 .. Len(sent[presence]) : sent'[presence][n] = sent[presence][n]
        /\ sent'[presence][Len(sent[presence]) + 1] = m
    BY <1>1, <1>2, AppendProperties
  <1>4. GotSent'
    BY <1>1, <1>2, <1>3 DEF GotSent
  <1>5. ASSUME NEW i \in Items, NEW s \in Streams, UnderWay(i, s)
        PROVE  UnderWay(i, s)'
    <2>1. CASE s # presence
      BY <1>1, <1>5, <2>1 DEF UnderWay
    <2>2. CASE s = presence
      <3>1. PICK n \in got[s] + 1 .. Len(sent[s]) : sent[s][n] = Clip(i)
        BY <1>5 DEF UnderWay
      <3>2. n \in 1 .. Len(sent[s]) /\ n \in got'[s] + 1 .. Len(sent'[s])
        BY <1>2, <1>3, <2>2, <3>1
      <3>3. sent'[s][n] = Clip(i)
        BY <1>3, <2>2, <3>1, <3>2
      <3>4. QED
        BY <3>2, <3>3 DEF UnderWay, Clip
    <2>3. QED
      BY <2>1, <2>2
  <1>6. ASSUME NEW i \in Items, m = Clip(i)
        PROVE  \E s \in Streams : UnderWay(i, s)'
    <2>1. PICK s \in Streams : s = presence
      BY <1>1
    <2>2. Len(sent[s]) + 1 \in got'[s] + 1 .. Len(sent'[s])
      BY <1>2, <1>3, <2>1 DEF GotSent
    <2>3. UnderWay(i, s)'
      BY <1>3, <1>6, <2>1, <2>2 DEF UnderWay, Clip
    <2>4. QED
      BY <2>3
  <1>7. QED
    BY <1>1, <1>4, <1>5, <1>6

\* What the client has had in hand is never forgotten.
LEMMA LandedStep ==
  ASSUME TypeOK, [Next]_clientNetVars, NEW i \in Items, Landed(i)
  PROVE  Landed(i)'
  <1>1. WorkOK /\ run \in Nat /\ run # 0
    BY TypeParts, Numbers DEF ItemOK, ProcessOK
  <1>2. CASE Idle \/ \E o \in Own : OwnNoted(o)
    BY <1>2 DEF Idle, historyVars, OwnNoted, Landed
  <1>3. ASSUME NEW s \in Workers, NEW j \in Items, Taken(s, j)
        PROVE  Landed(i)'
    BY <1>3 DEF Taken, Apply, Landed
  <1>4. ASSUME NEW j \in Items, Refused(j)
        PROVE  Landed(i)'
    BY <1>1, <1>4 DEF Refused, FailToApply, Landed, WorkOK
  <1>5. ASSUME NEW s \in Workers, NEW j \in Items, Written(s, j) \/ NotWritten(s, j)
        PROVE  Landed(i)'
    BY <1>1, <1>5 DEF Written, NotWritten, Landed, WorkOK
  <1>6. CASE Restart
    BY <1>6 DEF Restart, Landed
  <1>7. QED
    BY <1>2, <1>3, <1>4, <1>5, <1>6, ItemShape

\* What comes to an end in a run has landed.
LEMMA OutcomeLanded ==
  ASSUME TypeOK, NEW i \in Items, Outcome(i)
  PROVE  Landed(i)
  BY TypeParts, Numbers DEF Outcome, Landed, ProcessOK

\* Outside the steps of the group nothing is written to a stream, and a message that is
\* handled is an item that is taken or refused, or a group key.
LEMMA GotShape ==
  ASSUME TypeOK, Next, ~GroupStep
  PROVE  \/ got' = got
         \/ \E s \in Streams, i \in Items : Arrived(s, Clip(i)) /\ (Taken(s, i) \/ Refused(i))
         \/ \E s \in Streams, v \in Keys : Arrived(s, NewKey(v))
  <1>1. base \in Keys /\ key \in Keys
    BY TypeParts DEF StartOK, KeyOK
  <1>2. StreamServerStep \/ (\E s \in Streams : LinkBreaks(s)) \/ StartRealtime \/ StopRealtime
          => got' = got
    BY DEF StreamServerStep, ServeHello, ServeEnd, LinkBreaks, StartRealtime, StopRealtime, clientVars
  <1>3. StartStep => got' = got
    BY DEF StartStep, ContextArrives, RefreshSaved, RefreshNotSaved, BacklogArrives, StartFails,
           LoopBegins, Connect, GiveUp
  <1>4. SyncStep => got' = got
    BY DEF SyncStep, SyncItem, SyncItemFails, SyncWritten, SyncWriteFails, SyncAcked, SyncAckFails,
           GiveUp
  <1>5. LoopStep \/ (\E o \in Own : SendOwn(o)) \/ Restart => got' = got
    BY DEF LoopStep, StreamEnds, Reconnect, LoopEnds, Connect, SendOwn, Restart
  <1>6. KeyStep => got' = got \/ \E s \in Streams, v \in Keys : Arrived(s, NewKey(v))
    BY DEF KeyStep, HandleNewKey, HandleNewKeyFails, NewKeySaved, NewKeyNotSaved
  <1>7. ASSUME NEW s \in Streams, NEW i \in Items, HandleItem(s, i) \/ HandleItemFails(s, i)
        PROVE  Arrived(s, Clip(i)) /\ (Taken(s, i) \/ Refused(i))
    BY <1>1, <1>7 DEF HandleItem, HandleItemFails, Taken, Refused
  <1>8. \A s \in Streams, i \in Items :
          ItemWritten(s, i) \/ ItemWriteFails(s, i) \/ ItemAcked(s, i) \/ ItemAckFails(s, i)
            => got' = got
    BY DEF ItemWritten, ItemWriteFails, ItemAcked, ItemAckFails
  <1>9. QED
    BY <1>2, <1>3, <1>4, <1>5, <1>6, <1>7, <1>8 DEF Next, ItemStep

\* An item that is handled lands.
LEMMA HandledLands ==
  ASSUME TypeOK, RouteInv, MarkedInv, [Next]_clientNetVars,
         NEW s \in Streams, NEW i \in Items, Arrived(s, Clip(i)), Taken(s, i) \/ Refused(i)
  PROVE  Landed(i)'
  <1>1. WorkOK /\ run \in Nat /\ run # 0
    BY TypeParts, Numbers DEF ItemOK, ProcessOK
  <1>2. CASE Refused(i)
    BY <1>1, <1>2 DEF Refused, FailToApply, Landed, WorkOK
  <1>3. CASE Taken(s, i) /\ i \notin Repeats
    <2>1. <<s, i>> \in writing'
      BY <1>3 DEF Taken, Apply
    <2>2. QED
      BY <2>1 DEF Landed
  <1>4. CASE i \in Repeats
    <2>1. Streamed(i)
      BY TypeParts, ArrivedTold
    <2>2. <<NoStream, i>> \notin writing
      BY <2>1 DEF RouteInv, OfQueue
    <2>3. Outcome(i) \/ \E t \in Streams : <<t, i>> \in writing
      BY <1>4, <2>2 DEF MarkedInv, Workers
    <2>4. Landed(i)
      BY <2>3, OutcomeLanded DEF Landed
    <2>5. QED
      BY <2>4, LandedStep
  <1>5. QED
    BY <1>2, <1>3, <1>4

LEMMA StreamStep ==
  TypeOK /\ RouteInv /\ MarkedInv /\ StreamInv /\ [Next]_clientNetVars => StreamInv'
  <1> SUFFICES ASSUME TypeOK, RouteInv, MarkedInv, StreamInv, [Next]_clientNetVars PROVE StreamInv'
    OBVIOUS
  <1>1. ServerOK /\ ProcessOK /\ GotSent
    BY TypeParts DEF StreamInv
  <1>2. CASE GroupStep
    <2>1. got' = got /\ UNCHANGED <<applied, cut, failed, writing>>
      BY <1>2 DEF GroupStep, Push, Rotate, ConfirmBind, clientVars, itemVars, historyVars
    <2>2. \A i \in Items : Landed(i) => Landed(i)'
      BY <2>1 DEF Landed
    <2>3. CASE NewGroupKey
      <3>1. GotSent' /\ \A i \in Items, s \in Streams : UnderWay(i, s) => UnderWay(i, s)'
        <4>1. CASE presence = NoStream
          BY <1>1, <2>1, <2>3, <4>1 DEF NewGroupKey, GotSent, UnderWay
        <4>2. CASE presence # NoStream
          <5>1. keyVersion' \in Keys
            BY <1>1, <2>3, Numbers DEF NewGroupKey, ServerOK, Keys
          <5>2. NewKey(keyVersion') \in Message /\ sent' = WriteToPresence(NewKey(keyVersion'))
            BY <2>3, <4>2, <5>1, MessageTypes DEF NewGroupKey
          <5>3. QED
            BY <1>1, <2>1, <4>2, <5>2, WriteUnderWay
        <4>3. QED
          BY <4>1, <4>2
      <3>2. UNCHANGED <<sealedWith, queue>>
        BY <2>3 DEF NewGroupKey
      <3>3. QED
        BY <2>2, <3>1, <3>2 DEF StreamInv, Accounted
    <2>4. ASSUME NEW i \in Items, NEW v \in 1 .. keyVersion, Push(i, v)
          PROVE  StreamInv'
      <3>1. \A j \in Items : j # i => sealedWith'[j] = sealedWith[j]
        BY <1>1, <2>4 DEF Push, ServerOK
      <3>2. CASE presence = NoStream
        <4>1. queue' = queue \cup {i} /\ sent' = sent
          BY <2>4, <3>2 DEF Push
        <4>2. QED
          BY <1>1, <2>1, <2>2, <3>1, <4>1 DEF StreamInv, Accounted, GotSent, UnderWay
      <3>3. CASE presence # NoStream
        <4>1. queue' = queue /\ sent' = WriteToPresence(Clip(i)) /\ Clip(i) \in Message
          BY <2>4, <3>3, MessageTypes DEF Push
        <4>2. /\ GotSent'
              /\ \A j \in Items, s \in Streams : UnderWay(j, s) => UnderWay(j, s)'
              /\ \E s \in Streams : UnderWay(i, s)'
          BY <1>1, <2>1, <3>3, <4>1, WriteUnderWay
        <4>3. QED
          BY <2>2, <3>1, <4>1, <4>2 DEF StreamInv, Accounted
      <3>4. QED
        BY <3>2, <3>3
    <2>5. QED
      BY <1>2, <2>3, <2>4 DEF GroupStep, Rotate, ConfirmBind
  <1>3. CASE Next /\ ~GroupStep
    <2>1. UNCHANGED <<sealedWith, sent>>
      BY <1>3, RouteShape
    <2>2. \A i \in Items : Landed(i) => Landed(i)'
      BY LandedStep
    <2>3. \A i \in Items : i \in queue => i \in queue' \/ Landed(i)'
      BY <2>2, QueueLosesAcked, OutcomeLanded
    <2>4. GotSent' /\ \A i \in Items, s \in Streams : UnderWay(i, s) => UnderWay(i, s)' \/ Landed(i)'
      <3>1. CASE got' = got
        BY <1>1, <2>1, <3>1 DEF GotSent, UnderWay
      <3>2. ASSUME NEW s \in Streams, NEW m \in Message, Arrived(s, m),
                   \A i \in Items : m = Clip(i) => Landed(i)'
            PROVE  GotSent' /\ \A i \in Items, t \in Streams : UnderWay(i, t) => UnderWay(i, t)' \/ Landed(i)'
        <4>1. /\ got[s] \in Nat /\ got[s] < Len(sent[s]) /\ sent[s][got[s] + 1] = m
              /\ got' = [got EXCEPT ![s] = @ + 1] /\ got \in [Streams -> Nat] /\ Len(sent[s]) \in Nat
          BY <1>1, <3>2, LenProperties DEF Arrived, ProcessOK, ServerOK
        <4>2. GotSent'
          BY <1>1, <2>1, <4>1 DEF GotSent
        <4>3. ASSUME NEW i \in Items, NEW t \in Streams, UnderWay(i, t)
              PROVE  UnderWay(i, t)' \/ Landed(i)'
          <5>1. PICK n \in got[t] + 1 .. Len(sent[t]) : sent[t][n] = Clip(i)
            BY <4>3 DEF UnderWay
          <5>2. CASE t = s /\ n = got[s] + 1
            BY <3>2, <4>1, <5>1, <5>2
          <5>3. CASE ~ (t = s /\ n = got[s] + 1)
            <6>1. n \in got'[t] + 1 .. Len(sent'[t]) /\ sent'[t][n] = Clip(i)
              BY <2>1, <4>1, <5>1, <5>3
            <6>2. QED
              BY <6>1 DEF UnderWay, Clip
          <5>4. QED
            BY <5>2, <5>3
        <4>4. QED
          BY <4>2, <4>3
      <3>3. ASSUME NEW s \in Streams, NEW i \in Items, Arrived(s, Clip(i)), Taken(s, i) \/ Refused(i)
            PROVE  \A j \in Items : Clip(i) = Clip(j) => Landed(j)'
        BY <3>3, HandledLands, MessagesDiffer
      <3>4. QED
        BY <1>3, <3>1, <3>2, <3>3, GotShape, MessageTypes, MessagesDiffer
    <2>5. QED
      BY <2>1, <2>2, <2>3, <2>4 DEF StreamInv, Accounted
  <1>4. CASE UNCHANGED clientNetVars
    BY <1>4 DEF clientNetVars, serverVars, clientVars, itemVars, historyVars, StreamInv, GotSent,
                Accounted, Landed, UnderWay
  <1>5. QED
    BY <1>2, <1>3, <1>4

\* An item pushed to the device is never just gone: it waits, is under way, was written,
\* is being written, was refused aloud or was cut off by the end of the process.
THEOREM NothingLost == Spec => []NothingVanishes
  <1>1. Init => StreamInv
    <2> SUFFICES ASSUME Init PROVE StreamInv
      OBVIOUS
    <2>1. GotSent
      BY DEF Init, GotSent
    <2>2. \A i \in Items : sealedWith[i] = 0
      BY DEF Init
    <2>3. QED
      BY <2>1, <2>2 DEF StreamInv, Accounted
  <1>2. StreamInv => NothingVanishes
    BY DEF StreamInv, Accounted, Landed, UnderWay, NothingVanishes
  <1>3. QED
    BY <1>1, <1>2, InitMarked, InitType, TypeStep, RouteStep, MarkedStep, StreamStep, PTL DEF Spec

-----------------------------------------------------------------------------
(* The server half implements Mailboxes *)

Holder(p)  == [d \in {"me"} |-> p]

\* An item is pushed: a fan-out to the one device there is.
LEMMA MailPush ==
  ASSUME TypeOK, NEW i \in Items, NEW v, Push(i, v)
  PROVE  Mailbox!Fanout(i, {"me"})
  <1>1. ServerOK
    BY TypeParts
  <1>2. CASE presence = NoStream
    <2>1. queue' = queue \cup {i} /\ sent' = sent /\ presence' = presence
      BY <1>2 DEF Push
    <2>2. Mailbox!Away({"me"}) = {"me"}
      BY <1>2 DEF Mailbox!Away
    <2>3. Told(sent') = [c \in Streams |-> IF \E d \in {"me"} : Holder(presence)[d] = c
                                             THEN Told(sent)[c] \cup {i} ELSE Told(sent)[c]]
      BY <1>2, <2>1, StreamNumbers DEF Told, Holder
    <2>4. QED
      BY <2>1, <2>2, <2>3 DEF Mailbox!Fanout, Told, Holder
  <1>3. CASE presence # NoStream
    <2>1. queue' = queue /\ presence' = presence
      BY <1>3 DEF Push
    <2>2. Mailbox!Away({"me"}) = {}
      BY <1>3 DEF Mailbox!Away
    <2>3. Told(sent') = [c \in Streams |-> IF c = presence THEN Told(sent)[c] \cup {i} ELSE Told(sent)[c]]
      BY <1>1, <1>3, ToldItem
    <2>4. Told(sent') = [c \in Streams |-> IF \E d \in {"me"} : Holder(presence)[d] = c
                                             THEN Told(sent)[c] \cup {i} ELSE Told(sent)[c]]
      BY <2>3 DEF Holder
    <2>5. QED
      BY <2>1, <2>2, <2>4 DEF Mailbox!Fanout, Told, Holder
  <1>4. QED
    BY <1>2, <1>3

LEMMA MailKey ==
  ASSUME TypeOK, NewGroupKey
  PROVE  UNCHANGED Mailbox!vars
  <1>1. queue' = queue /\ presence' = presence
    BY DEF NewGroupKey
  <1>2. Told(sent') = Told(sent)
    BY TypeParts, ToldKey
  <1>3. QED
    BY <1>1, <1>2 DEF Mailbox!vars, Told

\* An AckItem was carried out, or was not.
LEMMA MailForget ==
  ASSUME queue' \subseteq queue, UNCHANGED <<presence, sent>>
  PROVE  Mailbox!Forget
  BY DEF Mailbox!Forget

LEMMA MailHello ==
  ASSUME NEW s \in Streams, ServeHello(s)
  PROVE  Mailbox!Hold("me", s)
  BY DEF ServeHello, Mailbox!Hold

LEMMA MailEnd ==
  ASSUME NEW s \in Streams, ServeEnd(s)
  PROVE  Mailbox!Leave({"me"}) \/ UNCHANGED Mailbox!vars
  BY DEF ServeEnd, PresenceAfterEnd, Mailbox!Leave, Mailbox!vars

\* Every step of the client, of its streams and of the server that serves it is a step
\* of Mailboxes, or none.
LEMMA MailStep ==
  ASSUME TypeOK, [Next]_clientNetVars
  PROVE  [Mailbox!Next]_(Mailbox!vars)
  <1> DEFINE Still == UNCHANGED <<queue, presence, sent>>
             Lost  == queue' \subseteq queue /\ UNCHANGED <<presence, sent>>
  <1>1. Still => UNCHANGED Mailbox!vars
    BY DEF Mailbox!vars
  <1>2. Lost => Mailbox!Next
    BY MailForget DEF Mailbox!Next
  <1>3. CASE GroupStep
    <2>1. ASSUME NEW i \in Items, NEW v \in 1 .. keyVersion, Push(i, v)
          PROVE  Mailbox!Next
      BY <2>1, MailPush DEF Mailbox!Next
    <2>2. CASE Rotate \/ ConfirmBind
      BY <2>2, MailKey DEF Rotate, ConfirmBind
    <2>3. QED
      BY <1>3, <2>1, <2>2 DEF GroupStep
  <1>4. CASE StreamServerStep
    <2>1. ASSUME NEW s \in Streams, ServeHello(s)
          PROVE  Mailbox!Next
      BY <2>1, MailHello DEF Mailbox!Next
    <2>2. ASSUME NEW s \in Streams, ServeEnd(s)
          PROVE  [Mailbox!Next]_(Mailbox!vars)
      BY <2>2, MailEnd DEF Mailbox!Next
    <2>3. QED
      BY <1>4, <2>1, <2>2 DEF StreamServerStep
  <1>5. CASE StartStep \/ KeyStep
    <2>1. Still
      BY <1>5
      DEF StartStep, ContextArrives, RefreshSaved, RefreshNotSaved, BacklogArrives, StartFails,
          LoopBegins, Connect, GiveUp, KeyStep, HandleNewKey, HandleNewKeyFails, NewKeySaved,
          NewKeyNotSaved, serverVars
    <2>2. QED
      BY <1>1, <2>1
  <1>6. CASE SyncStep \/ ItemStep
    <2>1. Still \/ Lost
      BY <1>6
      DEF SyncStep, SyncItem, SyncItemFails, SyncWritten, SyncWriteFails, SyncAcked, SyncAckFails,
          GiveUp, ItemStep, HandleItem, HandleItemFails, ItemWritten, ItemWriteFails, ItemAcked,
          ItemAckFails, serverVars
    <2>2. QED
      BY <1>1, <1>2, <2>1
  <1>7. CASE LoopStep \/ StartRealtime \/ StopRealtime \/ Restart
    <2>1. Still
      BY <1>7
      DEF LoopStep, StreamEnds, Reconnect, Connect, LoopEnds, StartRealtime, StopRealtime, Restart,
          serverVars
    <2>2. QED
      BY <1>1, <2>1
  <1>8. CASE (\E s \in Streams : LinkBreaks(s)) \/ (\E o \in Own : SendOwn(o)) \/ UNCHANGED clientNetVars
    BY <1>1, <1>8 DEF LinkBreaks, SendOwn, clientNetVars, serverVars
  <1>9. QED
    BY <1>3, <1>4, <1>5, <1>6, <1>7, <1>8 DEF Next

\* What the client counts on of the server is what Mailboxes promises, which the store
\* is shown to keep: the queue and the presence its handlers find, and what its streams
\* have been handed, are those of a mailbox.
THEOREM MailboxImplemented == Spec => ServerIsMailbox
  <1>1. Init => Mailbox!Init
    BY DEF Init, Mailbox!Init
  <1>2. TypeOK /\ [Next]_clientNetVars => [Mailbox!Next]_(Mailbox!vars)
    BY MailStep
  <1>3. QED
    BY <1>1, <1>2, InitType, TypeStep, PTL DEF Spec, Mailbox!Spec, ServerIsMailbox

-----------------------------------------------------------------------------
(* The loop listens to the stream it waits for *)

\* The item syncOffline is writing or acknowledging.
InSync(i) == <<NoStream, i>> \in writing \cup acks

\* The loop waits for a stream while it is streaming, and then only, and that stream's
\* handlers are attached; syncOffline awaits one thing at a time, and nothing when it
\* is not at work.
HeardInv ==
  /\ phase = "streaming" => stream # NoStream
  /\ stream # NoStream => phase = "streaming" /\ stream \in listening
  /\ \A i \in Items : InSync(i) => phase = "syncing"
  /\ \A i, j \in Items : InSync(i) /\ InSync(j) => i = j
  /\ \A i \in Items : <<NoStream, i>> \in writing => <<NoStream, i>> \notin acks

\* The handlers of the stream the loop waits for are attached: the end of that stream,
\* when it is reported, reaches the loop.
LoopIsHeard == phase = "streaming" => stream \in listening

\* Nothing but a stop, or the end of the process, takes the client out of its loop: a
\* stream that ended, a handler that threw and an AckItem that failed do not.
LoopStays ==
  [][stopRequested \/ phase \notin {"streaming", "waiting"}
       \/ phase' \in {"streaming", "waiting", "booting"}]_clientNetVars

\* Only syncOffline begins or ends work of its own.
SyncUntouched == \A i \in Items : /\ <<NoStream, i>> \in writing' <=> <<NoStream, i>> \in writing
                                  /\ <<NoStream, i>> \in acks' <=> <<NoStream, i>> \in acks

LEMMA HeardAlone ==
  ASSUME HeardInv, UNCHANGED <<phase, stream, listening>>, SyncUntouched
  PROVE  HeardInv'
  BY DEF HeardInv, SyncUntouched, InSync

LEMMA ConnectHeard ==
  ASSUME TypeOK, Connect, \A i \in Items : ~InSync(i)
  PROVE  HeardInv' /\ phase' = "streaming"
  <1>1. stream' \in listening' /\ stream' # NoStream /\ phase' = "streaming"
    BY Numbers, ClientAssumption, TypeParts DEF Connect, NetworkOK
  <1>2. \A i \in Items : ~InSync(i)' /\ <<NoStream, i>> \notin writing'
    BY DEF Connect, itemVars, InSync
  <1>3. QED
    BY <1>1, <1>2 DEF HeardInv

LEMMA CleanupHeard ==
  ASSUME HeardInv, NEW s \in Streams, Cleanup(s), SyncUntouched,
         listening' = listening \ {s} \/ listening' = listening
  PROVE  HeardInv'
  <1>1. CASE stream = s
    <2>1. stream' = NoStream /\ phase' # "streaming" /\ phase = "streaming"
      BY <1>1, StreamNumbers DEF Cleanup, HeardInv
    <2>2. \A i \in Items : ~InSync(i) /\ ~InSync(i)'
      BY <2>1 DEF HeardInv, SyncUntouched, InSync
    <2>3. QED
      BY <2>1, <2>2 DEF HeardInv, InSync
  <1>2. CASE stream # s
    BY <1>2 DEF Cleanup, HeardInv, SyncUntouched, InSync
  <1>3. QED
    BY <1>1, <1>2

\* While startRealtime is under way, or nothing is, the loop waits for no stream.
LEMMA NoLoopHeard ==
  ASSUME HeardInv, stream = NoStream, UNCHANGED <<stream, listening>>, phase' # "streaming",
         \A i \in Items : ~InSync(i)'
  PROVE  HeardInv'
  BY DEF HeardInv, InSync

LEMMA SyncHeard ==
  ASSUME HeardInv, NEW i \in Items,
         \/ SyncItem(i) \/ SyncItemFails(i) \/ SyncWritten(i)
         \/ SyncWriteFails(i) \/ SyncAcked(i) \/ SyncAckFails(i)
  PROVE  HeardInv' /\ phase = "syncing"
  <1>1. phase = "syncing" /\ stream = NoStream
    BY DEF HeardInv, SyncItem, SyncItemFails, SyncWritten, SyncWriteFails, SyncAcked, SyncAckFails,
           Between, Written, NotWritten, InSync
  <1>2. CASE SyncItem(i)
    <2>1. \A j \in Items : ~InSync(j)
      BY <1>2 DEF SyncItem, Between, InSync
    <2>2. UNCHANGED <<phase, stream, listening>>
      BY <1>2 DEF SyncItem, loopVars
    <2>3. \/ writing' = writing /\ acks' = acks \cup {<<NoStream, i>>}
          \/ acks' = acks /\ writing' = writing \cup {<<NoStream, i>>}
      BY <1>2 DEF SyncItem, Apply
    <2>4. QED
      BY <1>1, <2>1, <2>2, <2>3 DEF HeardInv, InSync
  <1>3. CASE SyncItemFails(i)
    <2>1. \A j \in Items : ~InSync(j)'
      BY <1>3 DEF SyncItemFails, Between, FailToApply, InSync
    <2>2. QED
      BY <1>1, <1>3, <2>1, NoLoopHeard DEF SyncItemFails, GiveUp
  <1>4. CASE SyncWritten(i)
    <2>1. /\ <<NoStream, i>> \in writing /\ UNCHANGED <<phase, stream, listening>>
          /\ writing' = writing \ {<<NoStream, i>>} /\ acks' = acks \cup {<<NoStream, i>>}
      BY <1>4 DEF SyncWritten, Written, loopVars
    <2>2. QED
      BY <1>1, <2>1 DEF HeardInv, InSync
  <1>5. CASE SyncWriteFails(i)
    <2>1. <<NoStream, i>> \in writing /\ writing' = writing \ {<<NoStream, i>>} /\ acks' = acks
      BY <1>5 DEF SyncWriteFails, NotWritten
    <2>2. \A j \in Items : ~InSync(j)'
      BY <2>1 DEF HeardInv, InSync
    <2>3. QED
      BY <1>1, <1>5, <2>2, NoLoopHeard DEF SyncWriteFails, GiveUp
  <1>6. CASE SyncAcked(i)
    BY <1>1, <1>6 DEF SyncAcked, HeardInv, InSync, loopVars
  <1>7. CASE SyncAckFails(i)
    <2>1. <<NoStream, i>> \in acks /\ acks' = acks \ {<<NoStream, i>>} /\ writing' = writing
      BY <1>7 DEF SyncAckFails
    <2>2. \A j \in Items : ~InSync(j)'
      BY <2>1 DEF HeardInv, InSync
    <2>3. QED
      BY <1>1, <1>7, <2>2, NoLoopHeard DEF SyncAckFails, GiveUp
  <1>8. QED
    BY <1>1, <1>2, <1>3, <1>4, <1>5, <1>6, <1>7

LEMMA HeardStep == TypeOK /\ HeardInv /\ [Next]_clientNetVars => HeardInv'
  <1> SUFFICES ASSUME TypeOK, HeardInv, [Next]_clientNetVars PROVE HeardInv'
    OBVIOUS
  <1>1. CASE UNCHANGED <<phase, stream, listening, writing, acks>>
    BY <1>1, HeardAlone DEF SyncUntouched
  <1>2. CASE \/ GroupStep \/ StreamServerStep \/ StopRealtime
             \/ (\E s \in Streams : LinkBreaks(s)) \/ (\E o \in Own : SendOwn(o))
    BY <1>1, <1>2
    DEF GroupStep, Push, Rotate, ConfirmBind, StreamServerStep, ServeHello, ServeEnd,
        StopRealtime, LinkBreaks, SendOwn, clientVars, loopVars, itemVars
  <1>3. CASE StartRealtime \/ StartStep
    <2>1. CASE StartRealtime \/ ContextArrives \/ RefreshSaved \/ RefreshNotSaved \/ BacklogArrives \/ StartFails
      <3>1. /\ phase \notin {"streaming", "syncing"} /\ phase' # "streaming"
            /\ UNCHANGED <<stream, listening, writing, acks>>
        BY <2>1 DEF StartRealtime, ContextArrives, RefreshSaved, RefreshNotSaved, BacklogArrives,
                    StartFails, GiveUp, itemVars
      <3>2. stream = NoStream /\ \A i \in Items : ~InSync(i)'
        BY <3>1 DEF HeardInv, InSync
      <3>3. QED
        BY <3>1, <3>2, NoLoopHeard
    <2>2. CASE LoopBegins
      BY <2>2, ConnectHeard DEF LoopBegins, Between, InSync
    <2>3. QED
      BY <1>3, <2>1, <2>2 DEF StartStep
  <1>4. CASE SyncStep
    BY <1>4, SyncHeard DEF SyncStep
  <1>5. CASE LoopStep
    <2>1. ASSUME NEW s \in Streams, StreamEnds(s)
          PROVE  HeardInv'
      BY <2>1, CleanupHeard DEF StreamEnds, itemVars, SyncUntouched
    <2>2. CASE Reconnect
      BY <2>2, ConnectHeard DEF Reconnect, HeardInv
    <2>3. CASE LoopEnds
      <3>1. stream = NoStream /\ \A i \in Items : ~InSync(i)'
        BY <2>3 DEF LoopEnds, HeardInv, InSync, itemVars
      <3>2. QED
        BY <2>3, <3>1, NoLoopHeard DEF LoopEnds
    <2>4. QED
      BY <1>5, <2>1, <2>2, <2>3 DEF LoopStep
  <1>6. CASE KeyStep
    <2>1. ASSUME NEW s \in Streams, NEW v \in Keys, HandleNewKey(s, v)
          PROVE  HeardInv'
      BY <1>1, <2>1 DEF HandleNewKey, loopVars, itemVars
    <2>2. ASSUME NEW s \in Streams, NEW v \in Keys, HandleNewKeyFails(s, v)
          PROVE  HeardInv'
      BY <2>2, CleanupHeard DEF HandleNewKeyFails, itemVars, SyncUntouched
    <2>3. ASSUME NEW s \in Workers, NEW v \in Keys, NewKeySaved(s, v)
          PROVE  HeardInv'
      BY <1>1, <2>3 DEF NewKeySaved, loopVars, itemVars
    <2>4. ASSUME NEW s \in Workers, NEW v \in Keys, NewKeyNotSaved(s, v)
          PROVE  HeardInv'
      <3>1. listening' = listening /\ SyncUntouched
        BY <2>4 DEF NewKeyNotSaved, itemVars, SyncUntouched
      <3>2. CASE s # NoStream
        <4>1. s \in Streams
          BY <3>2 DEF Workers
        <4>2. QED
          BY <2>4, <3>1, <3>2, <4>1, CleanupHeard DEF NewKeyNotSaved
      <3>3. CASE s = NoStream
        BY <2>4, <3>1, <3>3, HeardAlone DEF NewKeyNotSaved
      <3>4. QED
        BY <3>2, <3>3
    <2>5. QED
      BY <1>6, <2>1, <2>2, <2>3, <2>4 DEF KeyStep
  <1>7. CASE ItemStep
    <2> PICK s \in Streams, i \in Items :
               \/ HandleItem(s, i) \/ HandleItemFails(s, i) \/ ItemWritten(s, i)
               \/ ItemWriteFails(s, i) \/ ItemAcked(s, i) \/ ItemAckFails(s, i)
      BY <1>7 DEF ItemStep
    <2>1. listening' = listening /\ SyncUntouched
      BY StreamNumbers DEF HandleItem, HandleItemFails, ItemWritten, ItemWriteFails, ItemAcked,
         ItemAckFails, Apply, FailToApply, Written, NotWritten, loopVars, SyncUntouched
    <2>2. Cleanup(s) \/ UNCHANGED <<phase, stream>>
      BY DEF HandleItem, HandleItemFails, ItemWritten, ItemWriteFails, ItemAcked, ItemAckFails, loopVars
    <2>3. QED
      BY <2>1, <2>2, CleanupHeard, HeardAlone
  <1>8. CASE Restart
    BY <1>8 DEF Restart, HeardInv, InSync
  <1>9. CASE UNCHANGED clientNetVars
    BY <1>1, <1>9 DEF clientNetVars, clientVars, loopVars, itemVars
  <1>10. QED
    BY <1>2, <1>3, <1>4, <1>5, <1>6, <1>7, <1>8, <1>9 DEF Next

LEMMA StaysStep ==
  ASSUME TypeOK, HeardInv, [Next]_clientNetVars, phase \in {"streaming", "waiting"}, ~stopRequested
  PROVE  phase' \in {"streaming", "waiting", "booting"}
  <1>1. CASE UNCHANGED phase
    BY <1>1
  <1>2. CASE \/ GroupStep \/ StreamServerStep \/ StopRealtime
             \/ (\E s \in Streams : LinkBreaks(s)) \/ (\E o \in Own : SendOwn(o))
    BY <1>1, <1>2
    DEF GroupStep, Push, Rotate, ConfirmBind, StreamServerStep, ServeHello, ServeEnd,
        StopRealtime, LinkBreaks, SendOwn, clientVars, loopVars
  <1>3. ~StartRealtime /\ ~StartStep
    BY DEF StartRealtime, StartStep, ContextArrives, RefreshSaved, RefreshNotSaved, BacklogArrives,
           StartFails, LoopBegins, Between
  <1>4. ~SyncStep
    BY SyncHeard DEF SyncStep
  <1>5. CASE LoopStep
    BY <1>5 DEF LoopStep, StreamEnds, Cleanup, Reconnect, Connect, LoopEnds
  <1>6. CASE KeyStep
    BY <1>6 DEF KeyStep, HandleNewKey, HandleNewKeyFails, NewKeySaved, NewKeyNotSaved, Cleanup, loopVars
  <1>7. CASE ItemStep
    BY <1>7
    DEF ItemStep, HandleItem, HandleItemFails, ItemWritten, ItemWriteFails, ItemAcked, ItemAckFails,
        Cleanup, loopVars
  <1>8. CASE Restart
    BY <1>8 DEF Restart
  <1>9. CASE UNCHANGED clientNetVars
    BY <1>1, <1>9 DEF clientNetVars, clientVars, loopVars
  <1>10. QED
    BY <1>2, <1>3, <1>4, <1>5, <1>6, <1>7, <1>8, <1>9 DEF Next

\* The part of LoopRecovers that needs no fairness: the end of the stream the loop waits
\* for reaches the loop once it is reported, and no failure of a stream or of a handler
\* takes the client out of it.
THEOREM LoopHeard == Spec => []LoopIsHeard /\ LoopStays
  <1>1. Init => HeardInv
    BY DEF Init, HeardInv, InSync
  <1>2. HeardInv => LoopIsHeard
    BY DEF HeardInv, LoopIsHeard
  <1>3. TypeOK /\ HeardInv /\ [Next]_clientNetVars =>
          [stopRequested \/ phase \notin {"streaming", "waiting"}
           \/ phase' \in {"streaming", "waiting", "booting"}]_clientNetVars
    BY StaysStep
  <1>4. QED
    BY <1>1, <1>2, <1>3, InitType, TypeStep, HeardStep, PTL DEF Spec, LoopStays
=============================================================================
