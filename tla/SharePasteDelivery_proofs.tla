---------------------- MODULE SharePasteDelivery_proofs ----------------------
(***************************************************************************)
(* Theorems about delivery by the in-memory store: an accepted item is     *)
(* accounted for until it may be forgotten, the store implements           *)
(* Mailboxes, the ids a group remembers are those of its last fan-outs, an *)
(* item is handed to members of its group only, and a removed device is    *)
(* handed nothing.                                                         *)
(***************************************************************************)
EXTENDS SharePasteStore_proofs

-----------------------------------------------------------------------------
(* What a step does to presences, queues and callbacks *)

\* A presence is a callback of the device it stands for.
PresenceOwn == \A d \in Devices : presences[d] \in SinkOf[d] \cup {NoSink}

LEMMA StepPresence == TypeOK /\ PresenceOwn /\ [Next]_storeVars => PresenceOwn'
  <1> SUFFICES ASSUME TypeOK, PresenceOwn, [Next]_storeVars PROVE PresenceOwn'
    OBVIOUS
  <1>1. CASE UNCHANGED presences
    BY <1>1 DEF PresenceOwn
  <1>2. ASSUME NEW d \in Devices, NEW t \in Devices, RemoveDevice(d, t)
        PROVE  PresenceOwn'
    BY <1>2 DEF RemoveDevice, PresenceOwn, TypeOK
  <1>3. ASSUME NEW d \in Devices, NEW s \in SinkOf[d], OpenPresence(d, s)
        PROVE  PresenceOwn'
    BY <1>3 DEF OpenPresence, PresenceOwn, TypeOK
  <1>4. ASSUME NEW d \in Devices, ClosePresence(d)
        PROVE  PresenceOwn'
    BY <1>4 DEF ClosePresence, PresenceOwn, TypeOK
  <1>5. CASE Restart
    BY <1>5 DEF Restart, PresenceOwn
  <1>6. ASSUME Next, ~PresenceStep, ~ \E d, t \in Devices : RemoveDevice(d, t)
        PROVE  UNCHANGED presences
    BY <1>6
    DEF Next, MembershipStep, PairingStep, PolicyStep, DeliveryStep, Tick, CleanupExpired,
        RegisterNewGroup, RegisterExistingGroup, CreateBindCode, RequestBindRefused,
        RequestBind, RejectBind, ApproveBind, UpdatePolicy, PushClipboardItem, AckItem,
        deliveryVars
  <1>7. QED
    BY <1>1, <1>2, <1>3, <1>4, <1>5, <1>6 DEF PresenceStep, storeVars, deliveryVars

\* A callback that has been handed something has been handed it for good.
WireGrows == \A s \in Sinks : wire[s] \subseteq wire'[s]

LEMMA NotifyGrows ==
  ASSUME TypeOK, NEW D, NEW e, wire' = Notify(D, e)
  PROVE  WireGrows
  BY DEF Notify, WireGrows

LEMMA StepWire == TypeOK /\ [Next]_storeVars => WireGrows
  <1> SUFFICES ASSUME TypeOK, [Next]_storeVars PROVE WireGrows
    OBVIOUS
  <1>1. CASE UNCHANGED wire
    BY <1>1 DEF WireGrows
  <1>2. ASSUME NEW d \in Devices, NEW c \in bindCodes, RequestBind(d, c)
        PROVE  WireGrows
    BY <1>2, NotifyGrows DEF RequestBind
  <1>3. ASSUME NEW r \in bindRequests, ApproveBind(r)
        PROVE  WireGrows
    BY <1>3, NotifyGrows DEF ApproveBind, SendGroupKey
  <1>4. ASSUME NEW d \in Devices, NEW i \in Items, PushClipboardItem(d, i)
        PROVE  WireGrows
    BY <1>4, NotifyGrows DEF PushClipboardItem
  <1>5. ASSUME NEW d \in Devices, NEW s \in SinkOf[d], OpenPresence(d, s)
        PROVE  WireGrows
    BY <1>5 DEF OpenPresence, WireGrows, TypeOK
  <1>6. ASSUME Next,
               ~ \E d \in Devices, c \in bindCodes : RequestBind(d, c),
               ~ \E r \in bindRequests : ApproveBind(r),
               ~ \E d \in Devices, i \in Items : PushClipboardItem(d, i),
               ~ \E d \in Devices : \E s \in SinkOf[d] : OpenPresence(d, s)
        PROVE  UNCHANGED wire
    BY <1>6
    DEF Next, MembershipStep, PairingStep, PolicyStep, DeliveryStep, PresenceStep, Tick,
        CleanupExpired, RegisterNewGroup, RegisterExistingGroup, RemoveDevice,
        CreateBindCode, RequestBindRefused, RejectBind, UpdatePolicy, AckItem,
        ClosePresence, Restart, deliveryVars
  <1>7. QED
    BY <1>1, <1>2, <1>3, <1>4, <1>5, <1>6 DEF storeVars, deliveryVars

\* What leaves a queue is too old, or was acknowledged.
QueueKept ==
  \A t \in Devices : \A e \in offline[t] :
    e \in offline'[t] \/ e.expiresAt <= now \/ <<t, e.item>> \in acked'

LEMMA LiveKept ==
  ASSUME TypeOK, NEW t \in Devices, NEW e \in offline[t]
  PROVE  e \in LiveOffline[t] \/ e.expiresAt <= now
  BY DEF LiveOffline, TypeOK, Envelope

LEMMA StepQueue == TypeOK /\ [Next]_storeVars => QueueKept
  <1> SUFFICES ASSUME TypeOK, [Next]_storeVars PROVE QueueKept
    OBVIOUS
  <1>1. CASE UNCHANGED offline
    BY <1>1 DEF QueueKept
  <1>2. CASE offline' = LiveOffline
    BY <1>2, LiveKept DEF QueueKept
  <1>3. ASSUME NEW d \in Devices, NEW i \in Items, PushClipboardItem(d, i)
        PROVE  QueueKept
    <2>1. PICK D : offline' = Enqueue(D, i)
      BY <1>3 DEF PushClipboardItem
    <2>2. \A t \in Devices : LiveOffline[t] \subseteq offline'[t]
      BY <2>1 DEF Enqueue
    <2>3. QED
      BY <2>2, LiveKept DEF QueueKept
  <1>4. ASSUME NEW d \in Devices, NEW i, AckItem(d, i)
        PROVE  QueueKept
    BY <1>4 DEF AckItem, QueueKept, TypeOK
  <1>5. ASSUME Next,
               ~ \E d \in Devices, i \in Items : PushClipboardItem(d, i),
               ~ \E d \in Devices : \E i \in Received(d) : AckItem(d, i)
        PROVE  offline' \in {offline, LiveOffline}
    BY <1>5
    DEF Next, MembershipStep, PairingStep, PolicyStep, DeliveryStep, PresenceStep, Tick,
        CleanupExpired, Sweep, RegisterNewGroup, RegisterExistingGroup, RemoveDevice,
        CreateBindCode, RequestBindRefused, RequestBind, RejectBind, ApproveBind,
        UpdatePolicy, OpenPresence, ClosePresence, Restart, deliveryVars
  <1>6. QED
    BY <1>1, <1>2, <1>3, <1>4, <1>5 DEF storeVars, deliveryVars

-----------------------------------------------------------------------------
(* Accounting *)

\* Where the item of fan-out f is for its target t, when wire, offline, acked and now
\* are w, q, a and n.
Somewhere(f, t, w, q, a, n) ==
  \/ \E s \in SinkOf[t] : Clipboard(f.item) \in w[s]
  \/ \E e \in q[t] : e.item = f.item /\ e.expiresAt >= f.at + OfflineTtl
  \/ <<t, f.item>> \in a
  \/ n >= f.at + OfflineTtl

LEMMA StaysSomewhere ==
  ASSUME TypeOK, WireGrows, QueueKept, now' >= now, now' \in Nat, acked \subseteq acked',
         NEW f \in Fanout, NEW t \in Devices, Somewhere(f, t, wire, offline, acked, now)
  PROVE  Somewhere(f, t, wire', offline', acked', now')
  <1>1. CASE \E s \in SinkOf[t] : Clipboard(f.item) \in wire[s]
    BY <1>1, IdsAssumption DEF Somewhere, WireGrows
  <1>2. CASE <<t, f.item>> \in acked
    BY <1>2 DEF Somewhere
  <1>3. CASE now >= f.at + OfflineTtl
    BY <1>3, LimitsAssumption DEF Somewhere, TypeOK, Fanout
  <1>4. CASE \E e \in offline[t] : e.item = f.item /\ e.expiresAt >= f.at + OfflineTtl
    <2>1. PICK e \in offline[t] : e.item = f.item /\ e.expiresAt >= f.at + OfflineTtl
      BY <1>4
    <2>2. e \in offline'[t] \/ e.expiresAt <= now \/ <<t, e.item>> \in acked'
      BY DEF QueueKept
    <2>3. e.expiresAt <= now => now' >= f.at + OfflineTtl
      BY <2>1, LimitsAssumption DEF TypeOK, Fanout, Envelope
    <2>4. QED
      BY <2>1, <2>2, <2>3 DEF Somewhere
  <1>5. QED
    BY <1>1, <1>2, <1>3, <1>4 DEF Somewhere

\* A fan-out puts its item where each target will find it.
LEMMA FanoutReaches ==
  ASSUME TypeOK, PresenceOwn, NEW d \in Devices, NEW i \in Items, PushClipboardItem(d, i),
         NEW t \in Targets(devices[d].groupId, d), t \in Devices,
         NEW f, f.item = i, f.at = now
  PROVE  Somewhere(f, t, wire', offline', acked', now')
  <1> DEFINE targets == Targets(devices[d].groupId, d)
             away    == {u \in targets : presences[u] = NoSink}
  <1>1. offline' = Enqueue(away, i) /\ wire' = Notify(targets \ away, Clipboard(i))
    BY DEF PushClipboardItem
  <1>2. CASE presences[t] = NoSink
    <2>1. t \in away
      BY <1>2
    <2> HIDE DEF away, targets
    <2>2. [item |-> i, expiresAt |-> now + OfflineTtl] \in offline'[t]
      BY <1>1, <2>1 DEF Enqueue
    <2>3. now + OfflineTtl >= now + OfflineTtl
      BY LimitsAssumption DEF TypeOK
    <2>4. QED
      BY <2>2, <2>3 DEF Somewhere
  <1>3. CASE presences[t] # NoSink
    <2>1. presences[t] \in SinkOf[t] /\ presences[t] \in Sinks
      BY <1>3 DEF PresenceOwn, TypeOK
    <2>2. t \in targets \ away
      BY <1>3
    <2> HIDE DEF away, targets
    <2>3. Clipboard(i) \in wire'[presences[t]]
      BY <1>1, <2>1, <2>2 DEF Notify
    <2>4. QED
      BY <2>1, <2>3 DEF Somewhere
  <1>4. QED
    BY <1>2, <1>3

AccountsInv ==
  /\ PresenceOwn
  /\ \A n \in DOMAIN pushLog :
       \A t \in pushLog[n].targets :
         Somewhere(pushLog[n], t, wire, offline, acked, now)

LEMMA StepAccounts ==
  TypeOK /\ TypeOK' /\ AccountsInv /\ [Next]_storeVars => AccountsInv'
  <1> SUFFICES ASSUME TypeOK, TypeOK', AccountsInv, [Next]_storeVars PROVE AccountsInv'
    OBVIOUS
  <1>1. PresenceOwn /\ PresenceOwn' /\ WireGrows /\ QueueKept
    BY StepPresence, StepWire, StepQueue DEF AccountsInv
  <1>2. now' >= now /\ now' \in Nat
    <2>1. now' = now \/ now' = now + 1
      BY DEF Next, MembershipStep, PairingStep, PolicyStep, DeliveryStep, PresenceStep,
          Tick, CleanupExpired, RegisterNewGroup, RegisterExistingGroup, RemoveDevice,
          CreateBindCode, RequestBindRefused, RequestBind, RejectBind, ApproveBind,
          UpdatePolicy, PushClipboardItem, AckItem, OpenPresence, ClosePresence, Restart,
          storeVars
    <2>2. QED
      BY <2>1 DEF TypeOK
  <1>3. acked \subseteq acked'
    BY DEF Next, MembershipStep, PairingStep, PolicyStep, DeliveryStep,
        PresenceStep, Tick, CleanupExpired, RegisterNewGroup, RegisterExistingGroup,
        RemoveDevice, CreateBindCode, RequestBindRefused, RequestBind, RejectBind,
        ApproveBind, UpdatePolicy, PushClipboardItem, AckItem, OpenPresence,
        ClosePresence, Restart, storeVars, historyVars
  <1>4. \A n \in DOMAIN pushLog :
          \A t \in pushLog[n].targets :
            Somewhere(pushLog[n], t, wire', offline', acked', now')
    <2> SUFFICES ASSUME NEW n \in DOMAIN pushLog, NEW t \in pushLog[n].targets
                 PROVE  Somewhere(pushLog[n], t, wire', offline', acked', now')
      OBVIOUS
    <2>1. pushLog[n] \in Fanout
      BY DEF TypeOK
    <2>2. t \in Devices
      BY <2>1 DEF Fanout
    <2>3. Somewhere(pushLog[n], t, wire, offline, acked, now)
      BY DEF AccountsInv
    <2>4. QED
      BY <1>1, <1>2, <1>3, <2>1, <2>2, <2>3, StaysSomewhere
  <1>5. CASE UNCHANGED pushLog
    BY <1>1, <1>4, <1>5 DEF AccountsInv
  <1>6. ASSUME NEW d \in Devices, NEW i \in Items, PushClipboardItem(d, i)
        PROVE  AccountsInv'
    <2> DEFINE f == [item |-> i, group |-> devices[d].groupId, source |-> d,
                     targets |-> Targets(devices[d].groupId, d), at |-> now]
    <2>1. pushLog' = Append(pushLog, f)
      BY <1>6 DEF PushClipboardItem
    <2>2. /\ Len(pushLog) \in Nat /\ Len(pushLog') = Len(pushLog) + 1
          /\ DOMAIN pushLog = 1 .. Len(pushLog) /\ DOMAIN pushLog' = 1 .. Len(pushLog')
          /\ \A n \in 1 .. Len(pushLog) : pushLog'[n] = pushLog[n]
          /\ pushLog'[Len(pushLog) + 1] = f
      BY <2>1 DEF TypeOK
    <2>3. \A t \in f.targets : t \in Devices
      <3>1. f \in Fanout
        BY <2>2 DEF TypeOK
      <3>2. QED
        BY <3>1 DEF Fanout
    <2>4. \A t \in f.targets : Somewhere(f, t, wire', offline', acked', now')
      <3>1. f.item = i /\ f.at = now /\ f.targets = Targets(devices[d].groupId, d)
        OBVIOUS
      <3> HIDE DEF f
      <3>2. QED
        BY <1>1, <1>6, <2>3, <3>1, FanoutReaches
    <2> HIDE DEF f
    <2>5. \A n \in DOMAIN pushLog' :
            \A t \in pushLog'[n].targets :
              Somewhere(pushLog'[n], t, wire', offline', acked', now')
      <3> SUFFICES ASSUME NEW n \in DOMAIN pushLog', NEW t \in pushLog'[n].targets
                   PROVE  Somewhere(pushLog'[n], t, wire', offline', acked', now')
        OBVIOUS
      <3>1. CASE n \in DOMAIN pushLog
        BY <1>4, <2>2, <3>1
      <3>2. CASE n = Len(pushLog) + 1
        BY <2>2, <2>4, <3>2
      <3>3. QED
        BY <2>2, <3>1, <3>2
    <2>6. QED
      BY <1>1, <2>5 DEF AccountsInv
  <1>7. ASSUME Next, ~ \E d \in Devices, i \in Items : PushClipboardItem(d, i)
        PROVE  UNCHANGED pushLog
    BY <1>7
    DEF Next, MembershipStep, PairingStep, PolicyStep, DeliveryStep, PresenceStep, Tick,
        CleanupExpired, RegisterNewGroup, RegisterExistingGroup, RemoveDevice,
        CreateBindCode, RequestBindRefused, RequestBind, RejectBind, ApproveBind,
        UpdatePolicy, AckItem, OpenPresence, ClosePresence, Restart, historyVars
  <1>8. QED
    BY <1>5, <1>6, <1>7 DEF storeVars, historyVars

\* However presences come and go, whoever sweeps and whenever the server restarts, an
\* accepted item is with its target, waits for it, was acknowledged, or has had its time.
THEOREM DeliveryCorrect == Spec => []AcceptedItemAccounted
  <1>1. Init => AccountsInv
    BY DEF Init, AccountsInv, PresenceOwn
  <1>2. TypeOK /\ TypeOK' /\ AccountsInv /\ [Next]_storeVars => AccountsInv'
    BY StepAccounts
  <1>3. AccountsInv => AcceptedItemAccounted
    BY DEF AccountsInv, AcceptedItemAccounted, Somewhere
  <1>4. IInv => TypeOK
    BY DEF IInv
  <1>5. QED
    BY <1>1, <1>2, <1>3, <1>4, Invariance, PTL DEF Spec

-----------------------------------------------------------------------------
(* The window of remembered ids *)

\* The later fan-outs in the log q for the group of its m-th.
Later(q, m) == {k \in m + 1 .. Len(q) : q[k].group = q[m].group}

LEMMA LaterFinite ==
  ASSUME NEW q \in Seq(Fanout), NEW m \in DOMAIN q
  PROVE  IsFiniteSet(Later(q, m)) /\ Cardinality(Later(q, m)) \in Nat
  <1>1. m + 1 \in Int /\ Len(q) \in Int
    BY LenProperties
  <1>2. IsFiniteSet(m + 1 .. Len(q))
    BY <1>1, FS_Interval
  <1>3. IsFiniteSet(Later(q, m))
    BY <1>2, FS_Subset DEF Later
  <1>4. QED
    BY <1>3, FS_CardinalityType

\* One more fan-out is later than all others of its group.
LEMMA LaterAppended ==
  ASSUME NEW q \in Seq(Fanout), NEW f \in Fanout, NEW m \in DOMAIN q
  PROVE  /\ Append(q, f)[m] = q[m]
         /\ Cardinality(Later(Append(q, f), m))
              = Cardinality(Later(q, m)) + IF f.group = q[m].group THEN 1 ELSE 0
  <1> DEFINE p == Append(q, f)
             N == Len(q)
  <1>1. /\ Len(p) = N + 1 /\ N \in Nat /\ m \in 1 .. N
        /\ \A k \in 1 .. N : p[k] = q[k]
        /\ p[N + 1] = f
    BY AppendProperties, LenProperties
  <1> HIDE DEF p
  <1>2. p[m] = q[m]
    BY <1>1
  <1>3. Later(p, m) = IF f.group = q[m].group THEN Later(q, m) \cup {N + 1} ELSE Later(q, m)
    <2>1. \A k \in m + 1 .. N + 1 : k = N + 1 \/ (k \in m + 1 .. N /\ k \in 1 .. N)
      BY <1>1
    <2>2. N + 1 \in m + 1 .. N + 1 /\ \A k \in m + 1 .. N : k \in m + 1 .. N + 1 /\ k \in 1 .. N
      BY <1>1
    <2>3. Later(p, m) = {k \in m + 1 .. N + 1 : p[k].group = q[m].group}
      BY <1>1, <1>2 DEF Later
    <2>4. QED
      BY <1>1, <2>1, <2>2, <2>3 DEF Later
  <1>4. N + 1 \notin Later(q, m)
    BY <1>1 DEF Later
  <1>5. /\ Cardinality(Later(q, m)) \in Nat
        /\ Cardinality(Later(q, m) \cup {N + 1}) = Cardinality(Later(q, m)) + 1
    BY <1>4, LaterFinite, FS_AddElement
  <1>6. Cardinality(Later(p, m))
          = Cardinality(Later(q, m)) + IF f.group = q[m].group THEN 1 ELSE 0
    BY <1>3, <1>5
  <1>7. QED
    BY <1>2, <1>6 DEF p

\* seen.add puts the id last and moves the others one place towards the front, where the
\* oldest goes once the window is full.
LEMMA RememberShifts ==
  ASSUME NEW q \in Seq(Items), NEW i \in Items, Len(q) <= SeenWindow
  PROVE  LET r == Remember(q, i)
         IN  /\ Len(r) <= SeenWindow /\ Len(r) > 0
             /\ r[Len(r)] = i
             /\ \A n \in Nat :
                  n + 1 < SeenWindow /\ n < Len(q) =>
                    n + 1 < Len(r) /\ r[Len(r) - (n + 1)] = q[Len(q) - n]
  <1> DEFINE longer == Append(q, i)
             r      == Remember(q, i)
  <1>1. /\ longer \in Seq(Items) /\ longer # <<>>
        /\ Len(longer) = Len(q) + 1 /\ Len(q) \in Nat
        /\ \A k \in 1 .. Len(q) : longer[k] = q[k]
        /\ longer[Len(q) + 1] = i
    BY AppendProperties
  <1>2. SeenWindow \in Nat /\ SeenWindow > 0
    BY LimitsAssumption
  <1>3. r = IF Len(longer) > SeenWindow THEN Tail(longer) ELSE longer
    BY DEF Remember
  <1> HIDE DEF longer, r
  <1>4. CASE Len(longer) > SeenWindow
    <2>1. /\ Len(r) = Len(q) /\ Len(q) = SeenWindow
          /\ \A k \in 1 .. Len(r) : r[k] = longer[k + 1]
      BY <1>1, <1>2, <1>3, <1>4, HeadTailProperties
    <2>2. r[Len(r)] = i
      BY <1>1, <1>2, <2>1
    <2>3. ASSUME NEW n \in Nat, n + 1 < SeenWindow
          PROVE  n + 1 < Len(r) /\ r[Len(r) - (n + 1)] = q[Len(q) - n]
      <3>1. Len(r) - (n + 1) \in 1 .. Len(r) /\ Len(q) - n \in 1 .. Len(q)
        BY <1>2, <2>1, <2>3
      <3>2. r[Len(r) - (n + 1)] = longer[Len(r) - (n + 1) + 1]
        BY <2>1, <3>1
      <3>3. Len(r) - (n + 1) + 1 = Len(q) - n
        BY <1>2, <2>1
      <3>4. longer[Len(q) - n] = q[Len(q) - n]
        BY <1>1, <3>1
      <3>5. QED
        BY <1>2, <2>1, <2>3, <3>2, <3>3, <3>4
    <2>4. QED
      BY <1>2, <2>1, <2>2, <2>3 DEF r
  <1>5. CASE ~(Len(longer) > SeenWindow)
    <2>1. r = longer
      BY <1>3, <1>5
    <2>2. ASSUME NEW n \in Nat, n < Len(q)
          PROVE  n + 1 < Len(r) /\ r[Len(r) - (n + 1)] = q[Len(q) - n]
      <3>1. Len(r) - (n + 1) = Len(q) - n /\ Len(q) - n \in 1 .. Len(q)
        BY <1>1, <2>1, <2>2
      <3>2. QED
        BY <1>1, <2>1, <2>2, <3>1
    <2>3. QED
      BY <1>1, <1>2, <1>5, <2>1, <2>2 DEF r
  <1>6. QED
    BY <1>4, <1>5

\* Why a duplicate is recognised: the ids a group remembers are those of its last
\* fan-outs, in order, the n-th from the end of the log n places from the end.  (And a
\* group that has had a fan-out is not made anew, which would empty its window.)
Remembered(q, seen, m) ==
  LET s == seen[q[m].group]
      n == Cardinality(Later(q, m))
  IN  n < SeenWindow => n < Len(s) /\ s[Len(s) - n] = q[m].item

WindowInv ==
  /\ \A g \in Groups : Len(seenItems[g]) <= SeenWindow
  /\ \A m \in DOMAIN pushLog :
       Exists(pushLog[m].group) /\ Remembered(pushLog, seenItems, m)
  /\ DedupWindow

\* A group that exists goes on existing.
LEMMA ExistsForGood ==
  ASSUME IInv, TypeOK', [Next]_storeVars, NEW h \in Groups, Exists(h)
  PROVE  Exists(h)'
  <1> USE DEF Exists
  <1>1. groups[h].keyVersion \in Nat
    BY DEF IInv, TypeOK, Group
  <1>2. CASE UNCHANGED storeVars
    BY <1>2 DEF storeVars, pairingVars
  <1>3. CASE Next /\ \E r \in bindRequests : ApproveBind(r)
    BY <1>1, <1>3, ApprovalRotates
  <1>4. CASE Next /\ ~ \E r \in bindRequests : ApproveBind(r)
    BY <1>4, OnlyApprovalsRotate DEF IInv
  <1>5. QED
    BY <1>2, <1>3, <1>4

LEMMA LogEntry ==
  ASSUME TypeOK, NEW m \in DOMAIN pushLog
  PROVE  pushLog[m] \in Fanout /\ pushLog[m].group \in Groups
  <1>1. pushLog[m] \in Fanout
    BY DEF TypeOK
  <1>2. QED
    BY <1>1 DEF Fanout

LEMMA PushKeepsWindow ==
  ASSUME IInv, TypeOK', WindowInv, NEW d \in Devices, NEW i \in Items,
         PushClipboardItem(d, i), \A h \in Groups : Exists(h) => Exists(h)'
  PROVE  WindowInv'
  <1> DEFINE g == devices[d].groupId
             f == [item |-> i, group |-> g, source |-> d, targets |-> Targets(g, d), at |-> now]
             N == Len(pushLog)
             s == seenItems[g]
             r == Remember(s, i)
  <1> USE DEF IInv
  <1>1. g \in Groups /\ Exists(g)
    BY ActiveGroup DEF PushClipboardItem
  <1>2. /\ pushLog' = Append(pushLog, f)
        /\ seenItems' = [seenItems EXCEPT ![g] = r]
        /\ i \notin SeqRange(s)
    BY DEF PushClipboardItem
  <1>3. /\ N \in Nat /\ Len(pushLog') = N + 1
        /\ DOMAIN pushLog = 1 .. N /\ DOMAIN pushLog' = 1 .. N + 1
        /\ \A n \in 1 .. N : pushLog'[n] = pushLog[n]
        /\ pushLog'[N + 1] = f
    BY <1>2 DEF TypeOK
  <1>4. f \in Fanout /\ f.group = g /\ f.item = i
    BY <1>3 DEF TypeOK
  <1>5. s \in Seq(Items) /\ Len(s) <= SeenWindow /\ Len(s) \in Nat
    BY <1>1 DEF TypeOK, WindowInv
  <1>6. /\ seenItems'[g] = r
        /\ \A h \in Groups : h # g => seenItems'[h] = seenItems[h]
    BY <1>1, <1>2 DEF TypeOK
  <1>7. /\ Len(r) <= SeenWindow /\ Len(r) > 0 /\ r[Len(r)] = i
        /\ \A n \in Nat : n + 1 < SeenWindow /\ n < Len(s) =>
             n + 1 < Len(r) /\ r[Len(r) - (n + 1)] = s[Len(s) - n]
    BY <1>5, RememberShifts
  <1>8. Len(r) \in Nat /\ SeenWindow \in Nat
    BY <1>1, <1>6, LimitsAssumption DEF TypeOK
  <1>9. \A m \in 1 .. N : pushLog[m] \in Fanout /\ pushLog[m].group \in Groups
    BY <1>3, LogEntry
  <1> HIDE DEF f, g, s, r
  <1>10. \A h \in Groups : Len(seenItems'[h]) <= SeenWindow
    BY <1>6, <1>7 DEF WindowInv
  <1>11. ASSUME NEW m \in 1 .. N
         PROVE  Remembered(pushLog', seenItems', m)
    <2> DEFINE h == pushLog[m].group
               n == Cardinality(Later(pushLog, m))
    <2>1. h \in Groups /\ pushLog'[m] = pushLog[m] /\ m \in DOMAIN pushLog
      BY <1>3, <1>9
    <2>2. /\ n \in Nat
          /\ n < SeenWindow => /\ n < Len(seenItems[h])
                               /\ seenItems[h][Len(seenItems[h]) - n] = pushLog[m].item
      BY <2>1, LaterFinite DEF WindowInv, Remembered, TypeOK
    <2>3. Cardinality(Later(pushLog', m)) = n + IF g = h THEN 1 ELSE 0
      BY <1>2, <1>4, <2>1, LaterAppended DEF TypeOK
    <2> HIDE DEF n, h
    <2>4. CASE g = h
      <3>1. Cardinality(Later(pushLog', m)) = n + 1
        BY <2>3, <2>4
      <3>2. n + 1 < SeenWindow =>
              n + 1 < Len(r) /\ r[Len(r) - (n + 1)] = pushLog[m].item
        BY <1>5, <1>7, <1>8, <2>2, <2>4 DEF s
      <3>3. seenItems'[h] = r /\ pushLog'[m].group = h
        BY <1>6, <2>1, <2>4 DEF h
      <3>4. QED
        BY <2>1, <3>1, <3>2, <3>3 DEF Remembered
    <2>5. CASE g # h
      <3>1. Cardinality(Later(pushLog', m)) = n
        BY <2>2, <2>3, <2>5
      <3>2. seenItems'[h] = seenItems[h] /\ pushLog'[m].group = h
        BY <1>6, <2>1, <2>5 DEF h
      <3>3. QED
        BY <2>1, <2>2, <3>1, <3>2 DEF Remembered
    <2>6. QED
      BY <2>4, <2>5
  <1>12. Remembered(pushLog', seenItems', N + 1)
    <2>1. Later(pushLog', N + 1) = {}
      BY <1>3 DEF Later
    <2>2. Cardinality(Later(pushLog', N + 1)) = 0
      BY <2>1, FS_EmptySet
    <2>3. Len(r) - 0 = Len(r)
      BY <1>8
    <2>4. QED
      BY <1>3, <1>4, <1>6, <1>7, <1>8, <2>2, <2>3 DEF Remembered
  <1>13. DedupWindow'
    <2> SUFFICES ASSUME NEW m \in 1 .. N + 1, NEW n \in 1 .. N + 1, m < n,
                        pushLog'[m].group = pushLog'[n].group,
                        pushLog'[m].item = pushLog'[n].item
                 PROVE  Cardinality({k \in m + 1 .. n - 1 : pushLog'[k].group = pushLog'[n].group})
                          >= SeenWindow
      BY <1>3 DEF DedupWindow
    <2>1. CASE n \in 1 .. N
      <3>1. m \in 1 .. N
        BY <1>3, <2>1
      <3>2. \A k \in m + 1 .. n - 1 : k \in 1 .. N
        BY <1>3, <2>1
      <3>3. {k \in m + 1 .. n - 1 : pushLog'[k].group = pushLog'[n].group}
              = {k \in m + 1 .. n - 1 : pushLog[k].group = pushLog[n].group}
        BY <1>3, <2>1, <3>2
      <3>4. Cardinality({k \in m + 1 .. n - 1 : pushLog[k].group = pushLog[n].group})
              >= SeenWindow
        BY <1>3, <2>1, <3>1 DEF WindowInv, DedupWindow
      <3>5. QED
        BY <3>3, <3>4
    <2>2. CASE n = N + 1
      <3>1. m \in 1 .. N /\ pushLog[m].group = g /\ pushLog[m].item = i
        BY <1>3, <1>4, <2>2
      <3> DEFINE c == Cardinality(Later(pushLog, m))
      <3>2. c \in Nat
        BY <1>3, <3>1, LaterFinite DEF TypeOK
      <3>3. c < SeenWindow => c < Len(s) /\ s[Len(s) - c] = i
        BY <1>3, <3>1 DEF WindowInv, Remembered, s
      <3>4. c >= SeenWindow
        <4>1. ASSUME c < SeenWindow
              PROVE  FALSE
          <5> HIDE DEF c
          <5>1. Len(s) - c \in DOMAIN s
            BY <1>5, <3>2, <3>3, <4>1
          <5>2. i \in SeqRange(s)
            BY <3>3, <4>1, <5>1 DEF SeqRange
          <5>3. QED
            BY <1>2, <5>2
        <4> HIDE DEF c
        <4>2. QED
          BY <1>8, <3>2, <4>1
      <3>5. {k \in m + 1 .. n - 1 : pushLog'[k].group = pushLog'[n].group} = Later(pushLog, m)
        <4>1. n - 1 = N
          BY <1>3, <2>2
        <4>2. \A k \in m + 1 .. N : k \in 1 .. N
          BY <1>3, <3>1
        <4>3. pushLog'[n].group = pushLog[m].group
          BY <1>3, <1>4, <2>2, <3>1
        <4>4. QED
          BY <1>3, <4>1, <4>2, <4>3 DEF Later
      <3>6. QED
        BY <3>4, <3>5
    <2>3. n \in 1 .. N \/ n = N + 1
      BY <1>3
    <2>4. QED
      BY <2>1, <2>2, <2>3
  <1>14. \A m \in DOMAIN pushLog' : Remembered(pushLog', seenItems', m)
    BY <1>3, <1>11, <1>12
  <1>15. \A m \in DOMAIN pushLog' : groups'[pushLog'[m].group].keyVersion > 0
    <2>1. \A h \in Groups : Exists(h) => groups'[h].keyVersion > 0
      BY DEF Exists
    <2>2. \A m \in 1 .. N : groups'[pushLog[m].group].keyVersion > 0
      BY <1>3, <1>9, <2>1 DEF WindowInv
    <2>3. groups'[g].keyVersion > 0
      BY <1>1, <2>1
    <2>4. QED
      BY <1>3, <1>4, <2>2, <2>3
  <1>16. QED
    BY <1>10, <1>13, <1>14, <1>15 DEF WindowInv, Exists

LEMMA StepWindow == IInv /\ IInv' /\ WindowInv /\ [Next]_storeVars => WindowInv'
  <1> SUFFICES ASSUME IInv, IInv', WindowInv, [Next]_storeVars PROVE WindowInv'
    OBVIOUS
  <1>1. TypeOK /\ TypeOK'
    BY DEF IInv
  <1>2. \A h \in Groups : Exists(h) => Exists(h)'
    BY <1>1, ExistsForGood
  <1>3. ASSUME NEW d \in Devices, NEW i \in Items, PushClipboardItem(d, i)
        PROVE  WindowInv'
    BY <1>1, <1>2, <1>3, PushKeepsWindow
  <1>4. ASSUME UNCHANGED pushLog,
               \A h \in Groups : seenItems'[h] = seenItems[h] \/ (seenItems'[h] = <<>> /\ ~Exists(h))
        PROVE  WindowInv'
    <2>1. \A h \in Groups : Len(seenItems'[h]) <= SeenWindow
      BY <1>4, LimitsAssumption DEF WindowInv
    <2>2. \A m \in DOMAIN pushLog : pushLog[m].group \in Groups
      BY <1>1, LogEntry
    <2>3. \A m \in DOMAIN pushLog : groups'[pushLog[m].group].keyVersion > 0
      BY <1>2, <2>2 DEF WindowInv, Exists
    <2>4. \A m \in DOMAIN pushLog : Remembered(pushLog, seenItems', m)
      <3>1. ASSUME NEW m \in DOMAIN pushLog
            PROVE  seenItems'[pushLog[m].group] = seenItems[pushLog[m].group]
        BY <1>4, <2>2 DEF WindowInv
      <3>2. QED
        BY <3>1 DEF WindowInv, Remembered
    <2>5. pushLog' = pushLog
      BY <1>4
    <2>6. DedupWindow'
      BY <2>5 DEF WindowInv, DedupWindow
    <2>7. QED
      BY <2>1, <2>3, <2>4, <2>5, <2>6 DEF WindowInv, Exists
  <1>5. ASSUME NEW d \in Devices, NEW g \in Groups, RegisterNewGroup(d, g)
        PROVE  WindowInv'
    <2>1. /\ UNCHANGED pushLog /\ ~Exists(g)
          /\ seenItems' = [seenItems EXCEPT ![g] = <<>>]
      BY <1>5 DEF RegisterNewGroup, historyVars
    <2>2. QED
      BY <1>1, <1>4, <2>1 DEF TypeOK
  <1>6. ASSUME Next,
               ~ \E d \in Devices, i \in Items : PushClipboardItem(d, i),
               ~ \E d \in Devices, g \in Groups : RegisterNewGroup(d, g)
        PROVE  UNCHANGED <<pushLog, seenItems>>
    BY <1>6
    DEF Next, MembershipStep, PairingStep, PolicyStep, DeliveryStep, PresenceStep, Tick,
        CleanupExpired, RegisterExistingGroup, RemoveDevice, CreateBindCode,
        RequestBindRefused, RequestBind, RejectBind, ApproveBind, UpdatePolicy, AckItem,
        OpenPresence, ClosePresence, Restart, historyVars, deliveryVars
  <1>7. CASE UNCHANGED storeVars
    BY <1>4, <1>7 DEF storeVars, historyVars, deliveryVars
  <1>8. QED
    BY <1>3, <1>4, <1>5, <1>6, <1>7

\* A duplicate is let through only when SeenWindow other items of the group have come
\* between: Remember evicts the oldest id, and no later one.
THEOREM WindowCorrect == Spec => []DedupWindow
  <1>1. Init => WindowInv
    BY LimitsAssumption DEF Init, WindowInv, DedupWindow
  <1>2. IInv /\ IInv' /\ WindowInv /\ [Next]_storeVars => WindowInv'
    BY StepWindow
  <1>3. WindowInv => DedupWindow
    BY DEF WindowInv
  <1>4. QED
    BY <1>1, <1>2, <1>3, Invariance, PTL DEF Spec

-----------------------------------------------------------------------------
(* The store implements Mailboxes *)

Queue == [d \in Devices |-> {e.item : e \in offline[d]}]
Told  == [s \in Sinks |-> {i \in Items : Clipboard(i) \in wire[s]}]

LEMMA MailInit == Init => Mailbox!Init
  <1> SUFFICES ASSUME Init PROVE Mailbox!Init
    OBVIOUS
  <1>1. Queue = [d \in Devices |-> {}]
    BY DEF Init, Queue
  <1>2. Told = [s \in Sinks |-> {}]
    BY DEF Init, Told
  <1>3. presences = [d \in Devices |-> NoSink]
    BY DEF Init
  <1>4. QED
    BY <1>1, <1>2, <1>3 DEF Mailbox!Init, Queue, Told

\* What the callbacks have been handed of the kind "clipboard" stays as it is.
LEMMA ToldStays ==
  ASSUME \A s \in Sinks, i \in Items : Clipboard(i) \in wire'[s] <=> Clipboard(i) \in wire[s]
  PROVE  Told' = Told
  BY DEF Told

\* A step after which every queue is part of what it was, and nothing else has changed.
LEMMA MailForget ==
  ASSUME \A d \in Devices : offline'[d] \subseteq offline[d],
         UNCHANGED presences,
         \A s \in Sinks, i \in Items : Clipboard(i) \in wire'[s] <=> Clipboard(i) \in wire[s]
  PROVE  Mailbox!Forget
  <1>1. Queue' = [d \in Devices |-> Queue'[d]]
    BY DEF Queue
  <1>2. \A d \in Devices : Queue'[d] \subseteq Queue[d]
    BY DEF Queue
  <1>3. Told' = Told
    BY ToldStays
  <1>4. QED
    BY <1>1, <1>2, <1>3 DEF Mailbox!Forget, Queue, Told

LEMMA NotClipboard ==
  ASSUME NEW D, NEW e, e.type # "clipboard", wire' = Notify(D, e)
  PROVE  \A s \in Sinks, i \in Items : Clipboard(i) \in wire'[s] <=> Clipboard(i) \in wire[s]
  <1>1. \A i \in Items : Clipboard(i) # e
    BY DEF Clipboard
  <1>2. QED
    BY <1>1 DEF Notify

LEMMA MailFanout ==
  ASSUME TypeOK, TypeOK', MembershipAgrees, NEW d \in Devices, NEW i \in Items,
         PushClipboardItem(d, i)
  PROVE  \E D \in SUBSET Devices : Mailbox!Fanout(i, D)
  <1>1. Targets(devices[d].groupId, d) \in SUBSET Devices
    BY ActiveGroup DEF PushClipboardItem, Targets, TypeOK
  <1> PICK D \in SUBSET Devices : D = Targets(devices[d].groupId, d)
    BY <1>1
  <1> DEFINE away == {t \in D : presences[t] = NoSink}
  <1>2. /\ offline' = Enqueue(away, i) /\ wire' = Notify(D \ away, Clipboard(i))
        /\ presences' = presences
    BY DEF PushClipboardItem
  <1>3. Mailbox!Away(D) = away
    BY DEF Mailbox!Away
  <1>4. Told' = [c \in Sinks |->
                   IF \E t \in D : presences[t] = c THEN Told[c] \cup {i} ELSE Told[c]]
    <2>1. \A c \in Sinks : (\E t \in D : presences[t] = c)
                           <=> \E t \in D \ away : presences[t] = c
      BY IdsAssumption
    <2> HIDE DEF away
    <2>2. \A c \in Sinks :
            wire'[c] = IF \E t \in D : presences[t] = c THEN wire[c] \cup {Clipboard(i)}
                                                       ELSE wire[c]
      BY <1>2, <2>1 DEF Notify
    <2>3. \A j \in Items : Clipboard(j) = Clipboard(i) => j = i
      BY DEF Clipboard
    <2>4. \A c \in Sinks : {j \in Items : Clipboard(j) \in wire'[c]}
            = IF \E t \in D : presences[t] = c
                THEN {j \in Items : Clipboard(j) \in wire[c]} \cup {i}
                ELSE {j \in Items : Clipboard(j) \in wire[c]}
      <3> SUFFICES ASSUME NEW c \in Sinks
                   PROVE  {j \in Items : Clipboard(j) \in wire'[c]}
                            = IF \E t \in D : presences[t] = c
                                THEN {j \in Items : Clipboard(j) \in wire[c]} \cup {i}
                                ELSE {j \in Items : Clipboard(j) \in wire[c]}
        OBVIOUS
      <3>1. CASE \E t \in D : presences[t] = c
        <4>1. wire'[c] = wire[c] \cup {Clipboard(i)}
          BY <2>2, <3>1
        <4>2. {j \in Items : Clipboard(j) \in wire'[c]}
                = {j \in Items : Clipboard(j) \in wire[c]} \cup {i}
          BY <2>3, <4>1
        <4>3. QED
          BY <3>1, <4>2
      <3>2. CASE ~ \E t \in D : presences[t] = c
        <4>1. wire'[c] = wire[c]
          BY <2>2, <3>2
        <4>2. QED
          BY <3>2, <4>1
      <3>3. QED
        BY <3>1, <3>2
    <2>5. QED
      BY <2>4 DEF Told
  <1>5. \A t \in away : i \in Queue'[t]
    <2>1. \A t \in away : t \in Devices
      OBVIOUS
    <2> HIDE DEF away
    <2>2. \A t \in away : [item |-> i, expiresAt |-> now + OfflineTtl] \in offline'[t]
      BY <1>2, <2>1 DEF Enqueue
    <2>3. QED
      BY <2>1, <2>2 DEF Queue
  <1>6. \A t \in Devices : Queue'[t] \subseteq Queue[t] \cup {j \in {i} : t \in away}
    <2> HIDE DEF away
    <2> SUFFICES ASSUME NEW t \in Devices, NEW j \in Queue'[t]
                 PROVE  j \in Queue[t] \/ (j = i /\ t \in away)
      OBVIOUS
    <2>1. PICK e \in offline'[t] : e.item = j
      BY DEF Queue
    <2>2. e \in LiveOffline[t]
            \/ (t \in away /\ e = [item |-> i, expiresAt |-> now + OfflineTtl])
      BY <1>2 DEF Enqueue
    <2>3. e \in LiveOffline[t] => e \in offline[t]
      BY LiveEntries
    <2>4. QED
      BY <2>1, <2>2, <2>3 DEF Queue
  <1>7. Queue' = [t \in Devices |-> Queue'[t]]
    BY DEF Queue
  <1>8. Mailbox!Fanout(i, D)
    <2> HIDE DEF away
    <2>1. QED
      BY <1>2, <1>3, <1>4, <1>5, <1>6, <1>7 DEF Mailbox!Fanout, Queue, Told
  <1>9. QED
    BY <1>8

\* Only presences change.
LEMMA MailSame ==
  ASSUME UNCHANGED <<offline, wire>>
  PROVE  Queue' = Queue /\ Told' = Told
  BY DEF Queue, Told

LEMMA MailLeave ==
  ASSUME TypeOK, UNCHANGED <<offline, wire>>, NEW D \in SUBSET Devices,
         presences' = [d \in Devices |-> IF d \in D THEN NoSink ELSE presences[d]]
  PROVE  \E E \in SUBSET Devices : Mailbox!Leave(E)
  <1>1. Queue' = Queue /\ Told' = Told
    BY MailSame
  <1>2. Mailbox!Leave(D)
    BY <1>1 DEF Mailbox!Leave, Queue, Told
  <1>3. QED
    BY <1>2

LEMMA MailHold ==
  ASSUME TypeOK, NEW d \in Devices, NEW s \in SinkOf[d], OpenPresence(d, s)
  PROVE  \E c \in Sinks : Mailbox!Hold(d, c)
  <1>1. s \in Sinks
    BY IdsAssumption
  <1>2. \A j \in Items : Clipboard(j) # Connected
    BY DEF Clipboard, Connected
  <1>3. \A c \in Sinks, i \in Items : Clipboard(i) \in wire'[c] <=> Clipboard(i) \in wire[c]
    BY <1>1, <1>2 DEF OpenPresence, TypeOK
  <1>4. Queue' = Queue /\ Told' = Told
    BY <1>3, ToldStays DEF OpenPresence, Queue
  <1>5. presences' = [presences EXCEPT ![d] = s]
    BY DEF OpenPresence
  <1>6. Mailbox!Hold(d, s)
    BY <1>4, <1>5 DEF Mailbox!Hold, Queue, Told
  <1>7. QED
    BY <1>1, <1>6

\* Every step of the store is a step of Mailboxes, or none.
LEMMA MailStep ==
  ASSUME IInv, IInv', [Next]_storeVars
  PROVE  [Mailbox!Next]_(Mailbox!vars)
  <1> USE DEF IInv
  <1>1. ASSUME NEW d \in Devices, NEW i \in Items, PushClipboardItem(d, i)
        PROVE  Mailbox!Next
    BY <1>1, MailFanout DEF Mailbox!Next
  <1>2. ASSUME NEW d \in Devices, NEW s \in SinkOf[d], OpenPresence(d, s)
        PROVE  Mailbox!Next
    BY <1>2, MailHold DEF Mailbox!Next
  <1>3. ASSUME NEW d \in Devices, ClosePresence(d)
        PROVE  Mailbox!Next
    <2>1. /\ UNCHANGED <<offline, wire>>
          /\ presences' = [e \in Devices |-> IF e \in {d} THEN NoSink ELSE presences[e]]
      BY <1>3 DEF ClosePresence, TypeOK
    <2>2. QED
      BY <2>1, MailLeave DEF Mailbox!Next
  <1>4. ASSUME NEW d \in Devices, NEW t \in Devices, RemoveDevice(d, t)
        PROVE  Mailbox!Next
    <2>1. /\ UNCHANGED <<offline, wire>>
          /\ presences' = [e \in Devices |-> IF e \in {t} THEN NoSink ELSE presences[e]]
      BY <1>4 DEF RemoveDevice, TypeOK
    <2>2. QED
      BY <2>1, MailLeave DEF Mailbox!Next
  <1>5. CASE Restart
    <2>1. /\ UNCHANGED <<offline, wire>>
          /\ presences' = [e \in Devices |-> IF e \in Devices THEN NoSink ELSE presences[e]]
      BY <1>5 DEF Restart
    <2>2. QED
      BY <2>1, MailLeave DEF Mailbox!Next
  <1>6. ASSUME NEW d \in Devices, NEW c \in bindCodes, RequestBind(d, c)
        PROVE  Mailbox!Next
    <2>1. /\ \A t \in Devices : offline'[t] \subseteq offline[t]
          /\ presences' = presences
          /\ wire' = Notify({c.issuer}, PairingRequest(nextId))
      BY <1>6, LiveEntries DEF RequestBind
    <2>2. PairingRequest(nextId).type # "clipboard"
      BY DEF PairingRequest
    <2>3. \A s \in Sinks, i \in Items : Clipboard(i) \in wire'[s] <=> Clipboard(i) \in wire[s]
      BY <2>1, <2>2, NotClipboard
    <2>4. QED
      BY <2>1, <2>3, MailForget DEF Mailbox!Next
  <1>7. ASSUME NEW r \in bindRequests, ApproveBind(r)
        PROVE  Mailbox!Next
    <2>1. /\ \A t \in Devices : offline'[t] \subseteq offline[t]
          /\ presences' = presences
          /\ \E D, g, v : wire' = Notify(D, GroupKeyUpdate(g, v))
      BY <1>7, LiveEntries DEF ApproveBind, SendGroupKey
    <2>2. \A g, v : GroupKeyUpdate(g, v).type # "clipboard"
      BY DEF GroupKeyUpdate
    <2>3. \A s \in Sinks, i \in Items : Clipboard(i) \in wire'[s] <=> Clipboard(i) \in wire[s]
      BY <2>1, <2>2, NotClipboard
    <2>4. QED
      BY <2>1, <2>3, MailForget DEF Mailbox!Next
  <1>8. CASE UNCHANGED <<presences, wire>> /\ \A t \in Devices : offline'[t] \subseteq offline[t]
    BY <1>8, MailForget DEF Mailbox!Next
  <1>9. ASSUME NEW d \in Devices, NEW i, AckItem(d, i)
        PROVE  UNCHANGED <<presences, wire>> /\ \A t \in Devices : offline'[t] \subseteq offline[t]
    BY <1>9 DEF AckItem, TypeOK
  <1>10. ASSUME Next,
                ~ \E d \in Devices, i \in Items : PushClipboardItem(d, i),
                ~PresenceStep,
                ~ \E d, t \in Devices : RemoveDevice(d, t),
                ~ \E d \in Devices, c \in bindCodes : RequestBind(d, c),
                ~ \E r \in bindRequests : ApproveBind(r),
                ~ \E d \in Devices : \E i \in Received(d) : AckItem(d, i)
         PROVE  UNCHANGED <<presences, wire>> /\ offline' \in {offline, LiveOffline}
    BY <1>10
    DEF Next, MembershipStep, PairingStep, PolicyStep, DeliveryStep, Tick, CleanupExpired,
        Sweep, RegisterNewGroup, RegisterExistingGroup, CreateBindCode,
        RequestBindRefused, RejectBind, UpdatePolicy, deliveryVars
  <1>11. ASSUME UNCHANGED <<presences, wire>>, offline' \in {offline, LiveOffline}
         PROVE  Mailbox!Next
    <2>1. \A t \in Devices : offline'[t] \subseteq offline[t]
      BY <1>11, LiveEntries
    <2>2. QED
      BY <1>11, <2>1, MailForget DEF Mailbox!Next
  <1>12. CASE Next
    <2>1. CASE PresenceStep
      BY <1>2, <1>3, <1>5, <2>1 DEF PresenceStep
    <2>2. CASE \E d \in Devices : \E i \in Received(d) : AckItem(d, i)
      BY <1>8, <1>9, <2>2
    <2>3. QED
      BY <1>1, <1>4, <1>6, <1>7, <1>10, <1>11, <1>12, <2>1, <2>2
  <1>13. CASE UNCHANGED storeVars
    BY <1>11, <1>13 DEF storeVars, deliveryVars
  <1>14. QED
    BY <1>12, <1>13

\* The store keeps the promises of Mailboxes.
THEOREM MailboxesImplemented == Spec => ImplementsMailboxes
  <1>1. Init => Mailbox!Init
    BY MailInit
  <1>2. IInv /\ IInv' /\ [Next]_storeVars => [Mailbox!Next]_(Mailbox!vars)
    BY MailStep
  <1>3. QED
    BY <1>1, <1>2, Invariance, PTL DEF Spec, Mailbox!Spec, ImplementsMailboxes
-----------------------------------------------------------------------------
(* Who is handed what *)

\* What reaches the device t in a step: envelopes in its queue, items at its callbacks.
Reaches(i, t) ==
  \/ \E e \in offline'[t] \ offline[t] : e.item = i
  \/ \E s \in SinkOf[t] : Clipboard(i) \in wire'[s] \ wire[s]

\* A callback that is handed something new is the presence of one of those it was for.
LEMMA NotifiedPresent ==
  ASSUME PresenceOwn, NEW D \in SUBSET Devices, NEW e, wire' = Notify(D, e),
         NEW t \in Devices, NEW s \in SinkOf[t], wire'[s] # wire[s]
  PROVE  t \in D /\ presences[t] = s
  <1>1. s \in Sinks
    BY IdsAssumption
  <1>2. PICK d \in D : presences[d] = s
    BY <1>1 DEF Notify
  <1>3. s \in SinkOf[d]
    BY <1>1, <1>2, IdsAssumption DEF PresenceOwn
  <1>4. QED
    BY <1>2, <1>3, CallbackAssumption

\* A push reaches its targets, with its item, and nobody else.
LEMMA PushReachesTargets ==
  ASSUME TypeOK, MembershipAgrees, PresenceOwn, NEW d \in Devices, NEW i \in Items,
         PushClipboardItem(d, i), NEW t \in Devices, NEW j \in Items, Reaches(j, t)
  PROVE  j = i /\ t \in Targets(devices[d].groupId, d)
  <1>1. Targets(devices[d].groupId, d) \in SUBSET Devices
    BY ActiveGroup DEF PushClipboardItem, Targets, TypeOK
  <1> PICK D \in SUBSET Devices : D = Targets(devices[d].groupId, d)
    BY <1>1
  <1> DEFINE away == {u \in D : presences[u] = NoSink}
  <1>2. offline' = Enqueue(away, i) /\ wire' = Notify(D \ away, Clipboard(i))
    BY DEF PushClipboardItem
  <1>3. away \subseteq D /\ D \ away \in SUBSET Devices
    OBVIOUS
  <1> HIDE DEF away
  <1>4. CASE \E e \in offline'[t] \ offline[t] : e.item = j
    <2>1. PICK e \in offline'[t] \ offline[t] : e.item = j
      BY <1>4
    <2>2. e \in LiveOffline[t]
            \/ (t \in away /\ e = [item |-> i, expiresAt |-> now + OfflineTtl])
      BY <1>2, <2>1 DEF Enqueue
    <2>3. LiveOffline[t] \subseteq offline[t]
      BY LiveEntries
    <2>4. QED
      BY <1>3, <2>1, <2>2, <2>3
  <1>5. CASE \E s \in SinkOf[t] : Clipboard(j) \in wire'[s] \ wire[s]
    <2>1. PICK s \in SinkOf[t] : Clipboard(j) \in wire'[s] \ wire[s]
      BY <1>5
    <2>2. t \in D \ away
      BY <1>2, <1>3, <2>1, NotifiedPresent
    <2>3. s \in Sinks
      BY IdsAssumption
    <2>4. Clipboard(j) = Clipboard(i)
      BY <1>2, <2>1, <2>3 DEF Notify
    <2>5. QED
      BY <2>2, <2>4 DEF Clipboard
  <1>6. QED
    BY <1>4, <1>5 DEF Reaches

\* Nothing but a push reaches anybody.
LEMMA OnlyPushesReach ==
  ASSUME TypeOK, Next, ~ \E d \in Devices, i \in Items : PushClipboardItem(d, i),
         NEW t \in Devices, NEW j \in Items
  PROVE  ~Reaches(j, t)
  <1>1. ASSUME \A s \in Sinks : Clipboard(j) \in wire'[s] <=> Clipboard(j) \in wire[s],
               offline'[t] \subseteq offline[t]
        PROVE  ~Reaches(j, t)
    BY <1>1, IdsAssumption DEF Reaches
  <1>2. LiveOffline[t] \subseteq offline[t]
    BY LiveEntries
  <1>3. ASSUME NEW d \in Devices, NEW c \in bindCodes, RequestBind(d, c)
        PROVE  ~Reaches(j, t)
    <2>1. wire' = Notify({c.issuer}, PairingRequest(nextId)) /\ offline' = LiveOffline
      BY <1>3 DEF RequestBind
    <2>2. PairingRequest(nextId).type # "clipboard"
      BY DEF PairingRequest
    <2>3. QED
      BY <1>1, <1>2, <2>1, <2>2, NotClipboard
  <1>4. ASSUME NEW r \in bindRequests, ApproveBind(r)
        PROVE  ~Reaches(j, t)
    <2>1. (\E D, g, v : wire' = Notify(D, GroupKeyUpdate(g, v))) /\ offline' = LiveOffline
      BY <1>4 DEF ApproveBind, SendGroupKey
    <2>2. \A g, v : GroupKeyUpdate(g, v).type # "clipboard"
      BY DEF GroupKeyUpdate
    <2>3. QED
      BY <1>1, <1>2, <2>1, <2>2, NotClipboard
  <1>5. ASSUME NEW d \in Devices, NEW s \in SinkOf[d], OpenPresence(d, s)
        PROVE  ~Reaches(j, t)
    <2>1. Clipboard(j) # Connected
      BY DEF Clipboard, Connected
    <2>2. wire' = [wire EXCEPT ![s] = @ \cup {Connected}] /\ offline' = offline
      BY <1>5 DEF OpenPresence
    <2>3. QED
      BY <1>1, <2>1, <2>2 DEF TypeOK
  <1>6. ASSUME NEW d \in Devices, NEW i, AckItem(d, i)
        PROVE  ~Reaches(j, t)
    BY <1>1, <1>6 DEF AckItem, TypeOK
  <1>7. ASSUME ~ \E d \in Devices, c \in bindCodes : RequestBind(d, c),
               ~ \E r \in bindRequests : ApproveBind(r),
               ~ \E d \in Devices : \E s \in SinkOf[d] : OpenPresence(d, s),
               ~ \E d \in Devices : \E i \in Received(d) : AckItem(d, i)
        PROVE  wire' = wire /\ offline' \in {offline, LiveOffline}
    BY <1>7
    DEF Next, MembershipStep, PairingStep, PolicyStep, DeliveryStep, PresenceStep, Tick,
        CleanupExpired, Sweep, RegisterNewGroup, RegisterExistingGroup, RemoveDevice,
        CreateBindCode, RequestBindRefused, RejectBind, UpdatePolicy, ClosePresence,
        Restart, deliveryVars
  <1>8. QED
    BY <1>1, <1>2, <1>3, <1>4, <1>5, <1>6, <1>7

\* Whoever is handed an item, or finds it in its queue, is at that moment an active
\* member of the group of its source, and not the source.
THEOREM SentCorrect == Spec => SentWithinGroup
  <1> DEFINE Sent(i, t) ==
               /\ Len(pushLog') = Len(pushLog) + 1
               /\ LET f == pushLog'[Len(pushLog')]
                  IN  /\ f.item = i
                      /\ f.source # t
                      /\ devices[f.source].groupId = devices[t].groupId
                      /\ Active(t)
  <1>1. ASSUME IInv, PresenceOwn, Next, NEW t \in Devices, NEW i \in Items, Reaches(i, t)
        PROVE  Sent(i, t)
    <2> USE DEF IInv
    <2>1. PICK d \in Devices, j \in Items : PushClipboardItem(d, j)
      BY <1>1, OnlyPushesReach
    <2>2. i = j /\ t \in Targets(devices[d].groupId, d)
      BY <1>1, <2>1, PushReachesTargets
    <2>3. devices[d].groupId \in Groups
      BY <1>1, <2>1, ActiveGroup DEF PushClipboardItem
    <2>4. t # d /\ Active(t) /\ devices[t].groupId = devices[d].groupId
      BY <1>1, <2>2, <2>3 DEF Targets, MembershipAgrees
    <2> DEFINE f == [item |-> j, group |-> devices[d].groupId, source |-> d,
                     targets |-> Targets(devices[d].groupId, d), at |-> now]
    <2>5. pushLog' = Append(pushLog, f)
      BY <2>1 DEF PushClipboardItem
    <2>6. Len(pushLog') = Len(pushLog) + 1 /\ pushLog'[Len(pushLog')] = f
      BY <1>1, <2>5 DEF TypeOK
    <2>7. f.item = j /\ f.source = d
      OBVIOUS
    <2> HIDE DEF f
    <2>8. QED
      BY <2>2, <2>4, <2>6, <2>7
  <1>2. Init => PresenceOwn
    BY DEF Init, PresenceOwn
  <1>3. IInv /\ PresenceOwn /\ [Next]_storeVars => PresenceOwn'
    BY StepPresence DEF IInv
  <1>4. IInv /\ PresenceOwn /\ [Next]_storeVars
          => [\A t \in Devices, i \in Items : Reaches(i, t) => Sent(i, t)]_storeVars
    BY <1>1
  <1> HIDE DEF Sent
  <1>5. Spec => [][\A t \in Devices, i \in Items : Reaches(i, t) => Sent(i, t)]_storeVars
    BY <1>2, <1>3, <1>4, Invariance, PTL DEF Spec
  <1>6. QED
    BY <1>5 DEF SentWithinGroup, Reaches, Sent

\* Only an active device is present.
PresentActive == \A d \in Devices : presences[d] # NoSink => Active(d)

\* A device that was removed stays as it is.
LEMMA RemovedStays ==
  ASSUME TypeOK, [Next]_storeVars, NEW d \in Devices, devices[d] # Unregistered, ~Active(d)
  PROVE  devices'[d] = devices[d]
  <1>1. CASE UNCHANGED devices
    BY <1>1
  <1>2. ASSUME NEW e \in Devices, NEW g \in Groups,
               RegisterNewGroup(e, g) \/ RegisterExistingGroup(e, g)
        PROVE  devices'[d] = devices[d]
    BY <1>2 DEF RegisterNewGroup, RegisterExistingGroup, TypeOK
  <1>3. ASSUME NEW e \in Devices, NEW t \in Devices, RemoveDevice(e, t)
        PROVE  devices'[d] = devices[d]
    BY <1>3 DEF RemoveDevice, TypeOK
  <1>4. ASSUME NEW r \in bindRequests, ApproveBind(r)
        PROVE  devices'[d] = devices[d]
    BY <1>4 DEF ApproveBind, TypeOK
  <1>5. ASSUME Next,
               ~ \E e \in Devices, g \in Groups : RegisterNewGroup(e, g),
               ~ \E e \in Devices, g \in Groups : RegisterExistingGroup(e, g),
               ~ \E e, t \in Devices : RemoveDevice(e, t),
               ~ \E r \in bindRequests : ApproveBind(r)
        PROVE  UNCHANGED devices
    BY <1>5
    DEF Next, MembershipStep, PairingStep, PolicyStep, DeliveryStep, PresenceStep,
        pairingVars, Tick, CleanupExpired, CreateBindCode, RequestBindRefused,
        RequestBind, RejectBind, UpdatePolicy, PushClipboardItem, AckItem, OpenPresence,
        ClosePresence, Restart
  <1>6. QED
    BY <1>1, <1>2, <1>3, <1>4, <1>5 DEF storeVars, pairingVars

LEMMA StepPresent == TypeOK /\ PresentActive /\ [Next]_storeVars => PresentActive'
  <1> SUFFICES ASSUME TypeOK, PresentActive, [Next]_storeVars PROVE PresentActive'
    OBVIOUS
  <1> USE DEF PresentActive, Active
  <1>1. CASE UNCHANGED <<devices, presences>>
    BY <1>1
  <1>2. ASSUME NEW e \in Devices, NEW g \in Groups,
               RegisterNewGroup(e, g) \/ RegisterExistingGroup(e, g)
        PROVE  PresentActive'
    <2>1. presences' = presences
      BY <1>2 DEF RegisterNewGroup, RegisterExistingGroup
    <2>2. devices' = [devices EXCEPT ![e] = [groupId |-> g, active |-> TRUE]]
      BY <1>2 DEF RegisterNewGroup, RegisterExistingGroup
    <2>3. ASSUME NEW d \in Devices, devices[d].active PROVE devices'[d].active
      BY <2>2, <2>3 DEF TypeOK
    <2>4. QED
      BY <2>1, <2>3
  <1>3. ASSUME NEW e \in Devices, NEW t \in Devices, RemoveDevice(e, t)
        PROVE  PresentActive'
    BY <1>3 DEF RemoveDevice, TypeOK, Device
  <1>4. ASSUME NEW r \in bindRequests, ApproveBind(r)
        PROVE  PresentActive'
    BY <1>4 DEF ApproveBind, TypeOK, Device
  <1>5. ASSUME NEW e \in Devices, NEW s \in SinkOf[e], OpenPresence(e, s)
        PROVE  PresentActive'
    BY <1>5 DEF OpenPresence, pairingVars, TypeOK
  <1>6. ASSUME NEW e \in Devices, ClosePresence(e)
        PROVE  PresentActive'
    BY <1>6 DEF ClosePresence, pairingVars, TypeOK
  <1>7. CASE Restart
    BY <1>7 DEF Restart, pairingVars
  <1>8. ASSUME Next, ~PresenceStep,
               ~ \E e \in Devices, g \in Groups : RegisterNewGroup(e, g),
               ~ \E e \in Devices, g \in Groups : RegisterExistingGroup(e, g),
               ~ \E e, t \in Devices : RemoveDevice(e, t),
               ~ \E r \in bindRequests : ApproveBind(r)
        PROVE  UNCHANGED <<devices, presences>>
    BY <1>8
    DEF Next, MembershipStep, PairingStep, PolicyStep, DeliveryStep, pairingVars,
        deliveryVars, Tick, CleanupExpired, CreateBindCode, RequestBindRefused,
        RequestBind, RejectBind, UpdatePolicy, PushClipboardItem, AckItem
  <1>9. QED
    BY <1>1, <1>2, <1>3, <1>4, <1>5, <1>6, <1>7, <1>8
    DEF PresenceStep, storeVars, pairingVars, deliveryVars

\* A device that is not active is handed nothing.
LEMMA InactiveUntold ==
  ASSUME IInv, TypeOK', PresenceOwn, PresentActive, [Next]_storeVars,
         NEW d \in Devices, ~Active(d), NEW s \in SinkOf[d]
  PROVE  wire'[s] = wire[s]
  <1> USE DEF IInv
  <1>1. presences[d] # s
    BY IdsAssumption DEF PresentActive
  <1>2. ASSUME NEW D \in SUBSET Devices, NEW e, wire' = Notify(D, e)
        PROVE  wire'[s] = wire[s]
    BY <1>1, <1>2, NotifiedPresent
  <1>3. CASE UNCHANGED wire
    BY <1>3
  <1>4. ASSUME NEW e \in Devices, NEW c \in bindCodes, RequestBind(e, c)
        PROVE  wire'[s] = wire[s]
    <2>1. {c.issuer} \in SUBSET Devices
      BY DEF TypeOK, BindCode
    <2>2. QED
      BY <1>2, <1>4, <2>1 DEF RequestBind
  <1>5. ASSUME NEW r \in bindRequests, ApproveBind(r)
        PROVE  wire'[s] = wire[s]
    <2> DEFINE g == devices[r.issuer].groupId
    <2>1. r.issuer \in Devices /\ Active(r.issuer)
      BY <1>5 DEF ApproveBind, TypeOK, BindRequest
    <2>2. g \in Groups
      BY <2>1, ActiveGroup
    <2>3. groupDevices'[g] \in SUBSET Devices
      BY <2>2 DEF TypeOK
    <2>4. wire' = Notify(groupDevices'[g], GroupKeyUpdate(g, groups[g].keyVersion + 1))
      BY <1>5 DEF ApproveBind, SendGroupKey
    <2>5. QED
      BY <1>2, <2>3, <2>4
  <1>6. ASSUME NEW e \in Devices, NEW i \in Items, PushClipboardItem(e, i)
        PROVE  wire'[s] = wire[s]
    <2> DEFINE D == Targets(devices[e].groupId, e) \ {t \in Targets(devices[e].groupId, e) : presences[t] = NoSink}
    <2>1. D \in SUBSET Devices
      BY <1>6, ActiveGroup DEF PushClipboardItem, Targets, TypeOK
    <2>2. wire' = Notify(D, Clipboard(i))
      BY <1>6 DEF PushClipboardItem
    <2> HIDE DEF D
    <2>3. QED
      BY <1>2, <2>1, <2>2
  <1>7. ASSUME NEW e \in Devices, NEW c \in SinkOf[e], OpenPresence(e, c)
        PROVE  wire'[s] = wire[s]
    <2>1. c # s
      BY <1>7, CallbackAssumption DEF OpenPresence
    <2>2. s \in Sinks
      BY IdsAssumption
    <2>3. QED
      BY <1>7, <2>1, <2>2 DEF OpenPresence, TypeOK
  <1>8. ASSUME Next,
               ~ \E e \in Devices, c \in bindCodes : RequestBind(e, c),
               ~ \E r \in bindRequests : ApproveBind(r),
               ~ \E e \in Devices, i \in Items : PushClipboardItem(e, i),
               ~ \E e \in Devices : \E c \in SinkOf[e] : OpenPresence(e, c)
        PROVE  UNCHANGED wire
    BY <1>8
    DEF Next, MembershipStep, PairingStep, PolicyStep, DeliveryStep, PresenceStep, Tick,
        CleanupExpired, RegisterNewGroup, RegisterExistingGroup, RemoveDevice,
        CreateBindCode, RequestBindRefused, RejectBind, UpdatePolicy, AckItem,
        ClosePresence, Restart, deliveryVars
  <1>9. QED
    BY <1>3, <1>4, <1>5, <1>6, <1>7, <1>8 DEF storeVars, deliveryVars

\* Nor does anything reach its queue.
LEMMA InactiveUnqueued ==
  ASSUME IInv, [Next]_storeVars, NEW d \in Devices, ~Active(d)
  PROVE  offline'[d] \subseteq offline[d]
  <1> USE DEF IInv
  <1>1. LiveOffline[d] \subseteq offline[d]
    BY LiveEntries
  <1>2. ASSUME NEW e \in Devices, NEW i \in Items, PushClipboardItem(e, i)
        PROVE  offline'[d] \subseteq offline[d]
    <2>1. devices[e].groupId \in Groups
      BY <1>2, ActiveGroup DEF PushClipboardItem
    <2>2. d \notin Targets(devices[e].groupId, e)
      BY <2>1 DEF Targets, MembershipAgrees
    <2>3. PICK D : offline' = Enqueue(D, i) /\ d \notin D
      BY <1>2, <2>2 DEF PushClipboardItem
    <2>4. QED
      BY <1>1, <2>3 DEF Enqueue
  <1>3. ASSUME NEW e \in Devices, NEW i, AckItem(e, i)
        PROVE  offline'[d] \subseteq offline[d]
    BY <1>3 DEF AckItem, TypeOK
  <1>4. ASSUME Next,
               ~ \E e \in Devices, i \in Items : PushClipboardItem(e, i),
               ~ \E e \in Devices : \E i \in Received(e) : AckItem(e, i)
        PROVE  offline' \in {offline, LiveOffline}
    BY <1>4
    DEF Next, MembershipStep, PairingStep, PolicyStep, DeliveryStep, PresenceStep, Tick,
        CleanupExpired, Sweep, RegisterNewGroup, RegisterExistingGroup, RemoveDevice,
        CreateBindCode, RequestBindRefused, RequestBind, RejectBind, ApproveBind,
        UpdatePolicy, OpenPresence, ClosePresence, Restart, deliveryVars
  <1>5. QED
    BY <1>1, <1>2, <1>3, <1>4 DEF storeVars, deliveryVars

\* A removed device is never active, a member or present again, and neither it nor its
\* callbacks are ever handed anything more, whatever codes and requests it left behind.
THEOREM RemovalCorrect == Spec => RemovedForGood
  <1> DEFINE Stays(d) ==
               /\ devices'[d] = devices[d]
               /\ presences'[d] = NoSink
               /\ \A s \in SinkOf[d] : wire'[s] = wire[s]
               /\ offline'[d] \subseteq offline[d]
             Own == PresenceOwn /\ PresentActive
  <1>1. ASSUME IInv, IInv', Own, Own', Next, NEW d \in Devices, devices[d] # Unregistered, ~Active(d)
        PROVE  Stays(d)
    <2>1. TypeOK /\ TypeOK' /\ PresenceOwn /\ PresentActive /\ PresentActive'
      BY <1>1 DEF IInv
    <2>2. devices'[d] = devices[d]
      BY <1>1, <2>1, RemovedStays
    <2>3. presences'[d] = NoSink
      BY <1>1, <2>1, <2>2 DEF PresentActive, Active
    <2>4. \A s \in SinkOf[d] : wire'[s] = wire[s]
      BY <1>1, <2>1, InactiveUntold
    <2>5. offline'[d] \subseteq offline[d]
      BY <1>1, InactiveUnqueued
    <2>6. QED
      BY <2>2, <2>3, <2>4, <2>5
  <1>2. Init => Own
    BY DEF Init, PresenceOwn, PresentActive
  <1>3. IInv /\ Own /\ [Next]_storeVars => Own'
    BY StepPresence, StepPresent DEF IInv
  <1>4. IInv /\ IInv' /\ Own /\ Own' /\ [Next]_storeVars
          => [\A d \in Devices : devices[d] # Unregistered /\ ~Active(d) => Stays(d)]_storeVars
    BY <1>1
  <1> HIDE DEF Stays, Own
  <1>5. Spec => [][\A d \in Devices :
                     devices[d] # Unregistered /\ ~Active(d) => Stays(d)]_storeVars
    BY <1>2, <1>3, <1>4, Invariance, PTL DEF Spec
  <1>6. QED
    BY <1>5 DEF RemovedForGood, Stays
=============================================================================
