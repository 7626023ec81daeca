----------------------- MODULE SharePasteStore_proofs -----------------------
(***************************************************************************)
(* Theorems about the in-memory store, for every value of its constants.   *)
(***************************************************************************)
EXTENDS SharePasteStore, FiniteSetTheorems, SequenceTheorems, TLAPS

-----------------------------------------------------------------------------
(* What the helpers return *)

\* cleanupExpired only ever takes entries away, and the codes it leaves have an
\* attempt to spend.
LEMMA LiveEntries ==
  ASSUME TypeOK
  PROVE  /\ LiveCodes \subseteq bindCodes
         /\ LiveCodes \in SUBSET BindCode
         /\ \A c \in LiveCodes : c.attemptsLeft > 0
         /\ LiveRequests \subseteq bindRequests
         /\ LiveRequests \in SUBSET BindRequest
         /\ LiveOffline \in [Devices -> SUBSET Envelope]
         /\ \A d \in Devices : LiveOffline[d] \subseteq offline[d]
  <1>1. /\ LiveCodes \subseteq bindCodes
        /\ LiveCodes \in SUBSET BindCode
        /\ \A c \in LiveCodes : c.attemptsLeft > 0
    BY DEF LiveCodes, TypeOK
  <1>2. /\ LiveRequests \subseteq bindRequests
        /\ LiveRequests \in SUBSET BindRequest
    BY DEF LiveRequests, TypeOK
  <1>3. /\ LiveOffline \in [Devices -> SUBSET Envelope]
        /\ \A d \in Devices : LiveOffline[d] \subseteq offline[d]
    BY DEF LiveOffline, TypeOK
  <1>4. QED
    BY <1>1, <1>2, <1>3

\* Handing an event to callbacks keeps the type of wire.
LEMMA NotifyType ==
  ASSUME TypeOK, NEW D, NEW e \in Event
  PROVE  Notify(D, e) \in [Sinks -> SUBSET Event]
  BY DEF Notify, TypeOK

\* The four kinds of event are events.
LEMMA EventTypes ==
  /\ Connected \in Event
  /\ \A i \in Items : Clipboard(i) \in Event
  /\ \A r \in Nat : PairingRequest(r) \in Event
  /\ \A g \in Groups, v \in Nat : GroupKeyUpdate(g, v) \in Event
  BY DEF Connected, Clipboard, PairingRequest, GroupKeyUpdate, Event

\* Spending an attempt of a live code leaves well-formed codes.
LEMMA SpendAttemptType ==
  ASSUME TypeOK, NEW c \in LiveCodes
  PROVE  SpendAttempt(c) \in SUBSET BindCode
  <1>1. c \in BindCode /\ c.attemptsLeft > 0
    BY LiveEntries
  <1>2. [c EXCEPT !.attemptsLeft = @ - 1] \in BindCode
    BY <1>1 DEF BindCode
  <1>3. QED
    BY <1>2, LiveEntries DEF SpendAttempt

\* The window of remembered ids stays a sequence of ids.
LEMMA RememberType ==
  ASSUME NEW q \in Seq(Items), NEW i \in Items
  PROVE  Remember(q, i) \in Seq(Items)
  <1> DEFINE longer == Append(q, i)
  <1>1. longer \in Seq(Items) /\ Len(longer) = Len(q) + 1 /\ Len(q) \in Nat
    BY AppendProperties
  <1>2. longer # <<>>
    BY <1>1, EmptySeq
  <1>3. Tail(longer) \in Seq(Items)
    BY <1>1, <1>2, HeadTailProperties
  <1>4. QED
    BY <1>1, <1>3 DEF Remember

\* An active device is in a group that exists.
LEMMA ActiveGroup ==
  ASSUME TypeOK, MembershipAgrees, NEW d \in Devices, Active(d)
  PROVE  /\ devices[d].groupId \in Groups
         /\ Exists(devices[d].groupId)
         /\ d \in groupDevices[devices[d].groupId]
  BY DEF MembershipAgrees

\* An unregistered device is in no group.
LEMMA UnregisteredNowhere ==
  ASSUME TypeOK, MembershipAgrees, NEW d \in Devices, devices[d] = Unregistered
  PROVE  ~Active(d) /\ \A g \in Groups : d \notin groupDevices[g]
  BY DEF MembershipAgrees, Active, Unregistered

\* Moving a device leaves it in its new group and in no other.
LEMMA MovedMembers ==
  ASSUME TypeOK, MembershipAgrees,
         NEW d \in Devices, Active(d), NEW g \in Groups
  PROVE  \A h \in Groups :
           MoveTo(d, g)[h] = IF h = g THEN groupDevices[h] \cup {d}
                                      ELSE groupDevices[h] \ {d}
  <1> DEFINE old == devices[d].groupId
             left == [groupDevices EXCEPT ![old] = @ \ {d}]
  <1>1. left \in [Groups -> SUBSET Devices]
    BY DEF TypeOK
  <1>2. ASSUME NEW h \in Groups
        PROVE  left[h] = groupDevices[h] \ {d}
    <2>1. h # old => d \notin groupDevices[h]
      BY DEF MembershipAgrees
    <2>2. CASE h = old
      BY <2>2 DEF TypeOK
    <2>3. CASE h # old
      BY <2>1, <2>3 DEF TypeOK
    <2>4. QED
      BY <2>2, <2>3
  <1>3. MoveTo(d, g) = [left EXCEPT ![g] = @ \cup {d}]
    BY DEF MoveTo
  <1>4. \A h \in Groups :
          MoveTo(d, g)[h] = IF h = g THEN left[h] \cup {d} ELSE left[h]
    BY <1>1, <1>3
  <1>5. QED
    BY <1>2, <1>4

-----------------------------------------------------------------------------
(* Type correctness *)

LEMMA InitType == Init => TypeOK
  BY IdsAssumption
  DEF Init, TypeOK, Unregistered, NoGroupState, Device, Group

\* Every step of the store keeps the types.  An approval reads the group of the
\* issuer, which only MembershipAgrees says is a group.
LEMMA StepType == TypeOK /\ MembershipAgrees /\ [Next]_storeVars => TypeOK'
  <1> SUFFICES ASSUME TypeOK, MembershipAgrees, [Next]_storeVars PROVE TypeOK'
    OBVIOUS
  <1> USE IdsAssumption, LimitsAssumption
  <1>0. ASSUME Sweep
        PROVE  /\ bindCodes' \in SUBSET BindCode
               /\ bindRequests' \in SUBSET BindRequest
               /\ offline' \in [Devices -> SUBSET Envelope]
    BY <1>0, LiveEntries DEF Sweep
  <1>1. CASE Tick
    BY <1>1 DEF Tick, TypeOK, pairingVars, deliveryVars, historyVars
  <1>2. CASE CleanupExpired
    BY <1>2, <1>0 DEF CleanupExpired, TypeOK, historyVars
  <1>3. ASSUME NEW d \in Devices, NEW g \in Groups, RegisterNewGroup(d, g)
        PROVE  TypeOK'
    <2>1. devices' \in [Devices -> Device]
      BY <1>3 DEF RegisterNewGroup, TypeOK, Device
    <2>2. groups' \in [Groups -> Group]
      BY <1>3 DEF RegisterNewGroup, TypeOK, Group
    <2>3. groupDevices' \in [Groups -> SUBSET Devices] /\ seenItems' \in [Groups -> Seq(Items)]
      BY <1>3 DEF RegisterNewGroup, TypeOK
    <2>4. QED
      BY <1>3, <1>0, <2>1, <2>2, <2>3 DEF RegisterNewGroup, TypeOK, historyVars
  <1>4. ASSUME NEW d \in Devices, NEW g \in Groups, RegisterExistingGroup(d, g)
        PROVE  TypeOK'
    <2>1. devices' \in [Devices -> Device]
      BY <1>4 DEF RegisterExistingGroup, TypeOK, Device
    <2>2. groupDevices' \in [Groups -> SUBSET Devices]
      BY <1>4 DEF RegisterExistingGroup, TypeOK
    <2>3. QED
      BY <1>4, <1>0, <2>1, <2>2 DEF RegisterExistingGroup, TypeOK, historyVars
  <1>5. ASSUME NEW d \in Devices, NEW t \in Devices, RemoveDevice(d, t)
        PROVE  TypeOK'
    <2>1. devices' \in [Devices -> Device]
      <3>1. devices' = [devices EXCEPT ![t].active = FALSE]
        BY <1>5 DEF RemoveDevice
      <3>2. QED
        BY <3>1 DEF TypeOK, Device
    <2>2. presences' \in [Devices -> Sinks \cup {NoSink}]
      BY <1>5 DEF RemoveDevice, TypeOK
    <2>3. groupDevices' \in [Groups -> SUBSET Devices]
      BY <1>5 DEF RemoveDevice, TypeOK
    <2>4. QED
      BY <1>5, <2>1, <2>2, <2>3 DEF RemoveDevice, TypeOK, historyVars
  <1>6. ASSUME NEW d \in Devices, CreateBindCode(d)
        PROVE  TypeOK'
    <2>1. bindCodes' \in SUBSET BindCode
      BY <1>6, LiveEntries DEF CreateBindCode, TypeOK, BindCode
    <2>2. QED
      BY <1>6, <2>1, LiveEntries DEF CreateBindCode, TypeOK, historyVars
  <1>7. ASSUME NEW d \in Devices, NEW c \in bindCodes, RequestBindRefused(d, c)
        PROVE  TypeOK'
    BY <1>7, LiveEntries, SpendAttemptType
    DEF RequestBindRefused, TypeOK, historyVars
  <1>8. ASSUME NEW d \in Devices, NEW c \in bindCodes, RequestBind(d, c)
        PROVE  TypeOK'
    <2>1. bindCodes' \in SUBSET BindCode
      BY <1>8, SpendAttemptType DEF RequestBind
    <2>2. bindRequests' \in SUBSET BindRequest
      BY <1>8, LiveEntries DEF RequestBind, TypeOK, BindCode, BindRequest
    <2>3. wire' \in [Sinks -> SUBSET Event]
      BY <1>8, NotifyType, EventTypes DEF RequestBind, TypeOK
    <2>4. nextId' \in Nat /\ offline' \in [Devices -> SUBSET Envelope]
      BY <1>8, LiveEntries DEF RequestBind, TypeOK
    <2>5. UNCHANGED <<now, devices, groups, groupDevices, presences, seenItems,
                      pushLog, acked>>
      BY <1>8 DEF RequestBind, historyVars
    <2>6. QED
      BY <2>1, <2>2, <2>3, <2>4, <2>5 DEF TypeOK
  <1>9. ASSUME NEW r \in bindRequests, RejectBind(r)
        PROVE  TypeOK'
    BY <1>9, LiveEntries DEF RejectBind, TypeOK, historyVars
  <1>10. ASSUME NEW r \in bindRequests, ApproveBind(r)
         PROVE  TypeOK'
    <2> DEFINE g == devices[r.issuer].groupId
               v == groups[g].keyVersion + 1
    <2>1. r.issuer \in Devices /\ r.requester \in Devices
      BY DEF TypeOK, BindRequest
    <2>2. g \in Groups
      BY <1>10, <2>1, ActiveGroup DEF ApproveBind
    <2>3. v \in Nat
      BY <2>2 DEF TypeOK, Group
    <2>4. devices' \in [Devices -> Device]
      <3>1. devices' = [devices EXCEPT ![r.requester].groupId = g]
        BY <1>10 DEF ApproveBind
      <3> HIDE DEF g
      <3>2. devices \in [Devices -> Device]
        BY DEF TypeOK
      <3>3. [devices[r.requester] EXCEPT !.groupId = g] \in Device
        <4>1. devices[r.requester] \in Device
          BY <2>1, <3>2
        <4>2. QED
          BY <2>2, <4>1 DEF Device
      <3>4. QED
        BY <2>1, <3>1, <3>2, <3>3
    <2>5. groups' \in [Groups -> Group]
      <3>1. groups' = [groups EXCEPT ![g].keyVersion = v]
        BY <1>10 DEF ApproveBind
      <3> HIDE DEF g, v
      <3>2. groups \in [Groups -> Group]
        BY DEF TypeOK
      <3>3. [groups[g] EXCEPT !.keyVersion = v] \in Group
        <4>1. groups[g] \in Group
          BY <2>2, <3>2
        <4>2. QED
          BY <2>3, <4>1 DEF Group
      <3>4. QED
        BY <2>2, <3>1, <3>2, <3>3
    <2>6. groupDevices' \in [Groups -> SUBSET Devices]
      <3>1. groupDevices' = MoveTo(r.requester, g)
        BY <1>10 DEF ApproveBind
      <3>2. QED
        BY <2>1, <2>2, <3>1 DEF MoveTo, TypeOK
    <2>7. wire' \in [Sinks -> SUBSET Event]
      BY <1>10, <2>2, <2>3, NotifyType, EventTypes DEF ApproveBind, SendGroupKey
    <2>8. QED
      BY <1>10, <2>4, <2>5, <2>6, <2>7, LiveEntries
      DEF ApproveBind, TypeOK, historyVars
  <1>11. ASSUME NEW d \in Devices, NEW n \in 1 .. MaxPolicyVersion,
                NEW allow \in SUBSET Kinds, UpdatePolicy(d, n, allow)
         PROVE  TypeOK'
    <2>1. devices[d].groupId \in Groups
      BY <1>11, ActiveGroup DEF UpdatePolicy
    <2>2. groups' \in [Groups -> Group]
      <3>1. groups[devices[d].groupId] \in Group /\ n + 1 \in Nat
        BY <2>1, BoundsAssumption DEF TypeOK
      <3>2. [groups[devices[d].groupId] EXCEPT !.policyVersion = n + 1, !.allow = allow]
              \in Group
        BY <3>1 DEF Group
      <3>3. groups' = [groups EXCEPT ![devices[d].groupId] =
              [groups[devices[d].groupId] EXCEPT !.policyVersion = n + 1, !.allow = allow]]
        BY <1>11, <2>1 DEF UpdatePolicy, TypeOK
      <3>4. QED
        BY <2>1, <3>2, <3>3 DEF TypeOK
    <2>3. QED
      BY <1>11, <2>2 DEF UpdatePolicy, TypeOK, deliveryVars, historyVars
  <1>12. ASSUME NEW d \in Devices, NEW i \in Items, PushClipboardItem(d, i)
         PROVE  TypeOK'
    <2> DEFINE g == devices[d].groupId
               targets == Targets(g, d)
               away == {t \in targets : presences[t] = NoSink}
               f == [item |-> i, group |-> g, source |-> d,
                     targets |-> targets, at |-> now]
    <2>1. g \in Groups
      BY <1>12, ActiveGroup DEF PushClipboardItem
    <2>2. Remember(seenItems[g], i) \in Seq(Items)
      BY <2>1, RememberType DEF TypeOK
    <2>3. seenItems' \in [Groups -> Seq(Items)]
      BY <1>12, <2>1, <2>2 DEF PushClipboardItem, TypeOK
    <2>4. offline' \in [Devices -> SUBSET Envelope]
      <3>1. \A t \in Devices : LiveOffline[t] \in SUBSET Envelope
        BY LiveEntries
      <3>2. [item |-> i, expiresAt |-> now + OfflineTtl] \in Envelope
        BY DEF TypeOK, Envelope
      <3>3. offline' = Enqueue(away, i)
        BY <1>12 DEF PushClipboardItem
      <3>4. QED
        BY <3>1, <3>2, <3>3 DEF Enqueue
    <2>5. wire' \in [Sinks -> SUBSET Event]
      BY <1>12, NotifyType, EventTypes DEF PushClipboardItem
    <2>6. f \in Fanout
      BY <2>1 DEF TypeOK, Fanout, Targets
    <2>7. pushLog' \in Seq(Fanout)
      <3>1. pushLog' = Append(pushLog, f)
        BY <1>12 DEF PushClipboardItem
      <3>2. QED
        BY <2>6, <3>1 DEF TypeOK
    <2>8. QED
      BY <1>12, <2>3, <2>4, <2>5, <2>7, LiveEntries DEF PushClipboardItem, TypeOK
  <1>13. ASSUME NEW d \in Devices, NEW i \in Received(d), AckItem(d, i)
         PROVE  TypeOK'
    <2>1. i \in Items
      BY DEF Received, TypeOK, Envelope
    <2>2. QED
      BY <1>13, <2>1 DEF AckItem, TypeOK, pairingVars
  <1>14. ASSUME NEW d \in Devices, NEW s \in SinkOf[d], OpenPresence(d, s)
         PROVE  TypeOK'
    <2>1. s \in Sinks
      OBVIOUS
    <2>2. QED
      BY <1>14, <2>1, EventTypes DEF OpenPresence, TypeOK, pairingVars, historyVars
  <1>15. ASSUME NEW d \in Devices, ClosePresence(d)
         PROVE  TypeOK'
    BY <1>15 DEF ClosePresence, TypeOK, pairingVars, historyVars
  <1>16. CASE Restart
    BY <1>16 DEF Restart, TypeOK, pairingVars, historyVars
  <1>17. CASE UNCHANGED storeVars
    BY <1>17 DEF storeVars, pairingVars, deliveryVars, historyVars, TypeOK
  <1>18. QED
    BY <1>1, <1>2, <1>3, <1>4, <1>5, <1>6, <1>7, <1>8, <1>9, <1>10, <1>11,
       <1>12, <1>13, <1>14, <1>15, <1>16, <1>17
    DEF Next, MembershipStep, PairingStep, PolicyStep, DeliveryStep, PresenceStep

-----------------------------------------------------------------------------
(* The two records of membership agree *)

LEMMA InitMembership == Init => MembershipAgrees
  BY IdsAssumption DEF Init, MembershipAgrees, Active, Unregistered

\* Of the steps of the store only five touch devices, groups or groupDevices, and
\* each of them changes the two records of membership together.
LEMMA StepMembership ==
  TypeOK /\ MembershipAgrees /\ [Next]_storeVars => MembershipAgrees'
  <1> SUFFICES ASSUME TypeOK, MembershipAgrees, [Next]_storeVars
               PROVE  MembershipAgrees'
    OBVIOUS
  <1> USE IdsAssumption
  <1>1. ASSUME NEW d \in Devices, NEW g \in Groups, RegisterNewGroup(d, g)
        PROVE  MembershipAgrees'
    <2>1. \A h \in Groups : d \notin groupDevices[h]
      BY <1>1, UnregisteredNowhere DEF RegisterNewGroup
    <2>2. groupDevices[g] = {}
      <3>1. ~Exists(g) /\ groupDevices[g] \subseteq Devices
        BY <1>1 DEF RegisterNewGroup, TypeOK
      <3>2. \A e \in Devices : e \notin groupDevices[g]
        BY <3>1 DEF MembershipAgrees
      <3>3. QED
        BY <3>1, <3>2
    <2>3. /\ devices' = [devices EXCEPT ![d] = [groupId |-> g, active |-> TRUE]]
          /\ groupDevices' = [groupDevices EXCEPT ![g] = {d}]
          /\ \A h \in Groups : Exists(h) \/ h = g => groups'[h].keyVersion > 0
      BY <1>1 DEF RegisterNewGroup, TypeOK, Exists
    <2>4. QED
      BY <2>1, <2>2, <2>3 DEF MembershipAgrees, Active, Exists, TypeOK
  <1>2. ASSUME NEW d \in Devices, NEW g \in Groups, RegisterExistingGroup(d, g)
        PROVE  MembershipAgrees'
    <2>1. \A h \in Groups : d \notin groupDevices[h]
      BY <1>2, UnregisteredNowhere DEF RegisterExistingGroup
    <2>2. /\ devices' = [devices EXCEPT ![d] = [groupId |-> g, active |-> TRUE]]
          /\ groupDevices' = [groupDevices EXCEPT ![g] = @ \cup {d}]
          /\ Exists(g) /\ UNCHANGED groups
      BY <1>2 DEF RegisterExistingGroup
    <2>3. QED
      BY <2>1, <2>2 DEF MembershipAgrees, Active, Exists, TypeOK
  <1>3. ASSUME NEW d \in Devices, NEW t \in Devices, RemoveDevice(d, t)
        PROVE  MembershipAgrees'
    <2> DEFINE g == devices[t].groupId
    <2>1. g \in Groups
      BY <1>3, ActiveGroup DEF RemoveDevice
    <2>2. /\ \A e \in Devices \ {t} : devices'[e] = devices[e]
          /\ devices'[t].active = FALSE
          /\ groupDevices' = [groupDevices EXCEPT ![g] = @ \ {t}]
          /\ UNCHANGED groups
      BY <1>3 DEF RemoveDevice, TypeOK, Device
    <2>3. QED
      BY <1>3, <2>1, <2>2 DEF MembershipAgrees, Active, Exists, TypeOK
  <1>4. ASSUME NEW r \in bindRequests, ApproveBind(r)
        PROVE  MembershipAgrees'
    <2> DEFINE d == r.requester
               g == devices[r.issuer].groupId
    <2>1. d \in Devices /\ r.issuer \in Devices /\ Active(d) /\ Active(r.issuer)
      BY <1>4 DEF ApproveBind, TypeOK, BindRequest
    <2>2. g \in Groups /\ Exists(g) /\ devices[d].groupId \in Groups
      BY <2>1, ActiveGroup
    <2>3. /\ \A e \in Devices \ {d} : devices'[e] = devices[e]
          /\ devices'[d].groupId = g /\ devices'[d].active
      BY <1>4, <2>1 DEF ApproveBind, TypeOK, Device, Active
    <2>4. \A h \in Groups :
            groupDevices'[h] = IF h = g THEN groupDevices[h] \cup {d}
                                        ELSE groupDevices[h] \ {d}
      BY <1>4, <2>1, <2>2, MovedMembers DEF ApproveBind
    <2>5. \A h \in Groups : Exists(h) => groups'[h].keyVersion > 0
      BY <1>4, <2>2 DEF ApproveBind, TypeOK, Group, Exists
    <2>6. \A e \in Devices \ {d} :
            \A h \in Groups : e \in groupDevices'[h] <=> e \in groupDevices[h]
      <3>1. \A e \in Devices \ {d} :
              e \in groupDevices'[g] <=> e \in groupDevices[g]
        BY <2>2, <2>4
      <3>2. \A e \in Devices \ {d}, h \in Groups \ {g} :
              e \in groupDevices'[h] <=> e \in groupDevices[h]
        BY <2>4
      <3>3. QED
        BY <3>1, <3>2
    <2>7. \A h \in Groups : d \in groupDevices'[h] <=> h = g
      <3>1. d \in groupDevices'[g]
        <4>1. groupDevices'[g] = groupDevices[g] \cup {d}
          BY <2>2, <2>4
        <4>2. QED
          BY <4>1
      <3>2. ASSUME NEW h \in Groups \ {g}
            PROVE  d \notin groupDevices'[h]
        <4>1. groupDevices'[h] = groupDevices[h] \ {d}
          BY <2>4
        <4>2. QED
          BY <4>1
      <3>3. QED
        BY <3>1, <3>2
    <2>8. QED
      BY <2>1, <2>2, <2>3, <2>5, <2>6, <2>7 DEF MembershipAgrees, Active, Exists
  <1>5. ASSUME NEW d \in Devices, NEW n \in 1 .. MaxPolicyVersion,
               NEW allow \in SUBSET Kinds, UpdatePolicy(d, n, allow)
        PROVE  MembershipAgrees'
    <2>1. \A h \in Groups : groups'[h].keyVersion = groups[h].keyVersion
      BY <1>5 DEF UpdatePolicy, TypeOK, Group
    <2>2. UNCHANGED <<devices, groupDevices>>
      BY <1>5 DEF UpdatePolicy
    <2>3. QED
      BY <2>1, <2>2 DEF MembershipAgrees, Active, Exists
  <1>6. CASE UNCHANGED <<devices, groups, groupDevices>>
    BY <1>6 DEF MembershipAgrees, Active, Exists
  <1>7. ASSUME Next,
               ~ \E d \in Devices, g \in Groups : RegisterNewGroup(d, g),
               ~ \E d \in Devices, g \in Groups : RegisterExistingGroup(d, g),
               ~ \E d, t \in Devices : RemoveDevice(d, t),
               ~ \E r \in bindRequests : ApproveBind(r),
               ~ PolicyStep
        PROVE  UNCHANGED <<devices, groups, groupDevices>>
    BY <1>7
    DEF Next, MembershipStep, PairingStep, DeliveryStep, PresenceStep, pairingVars,
        Tick, CleanupExpired, CreateBindCode, RequestBindRefused, RequestBind,
        RejectBind, PushClipboardItem, AckItem, OpenPresence, ClosePresence, Restart
  <1>8. QED
    BY <1>1, <1>2, <1>3, <1>4, <1>5, <1>6, <1>7
    DEF PolicyStep, storeVars, pairingVars

-----------------------------------------------------------------------------
(* Capacity *)

\* One more member fits a group that has room.
LEMMA RoomForOne ==
  ASSUME TypeOK, NEW g \in Groups, HasRoom(g), NEW d \in Devices
  PROVE  Cardinality(groupDevices[g] \cup {d}) <= MaxDevicesPerGroup
  <1>1. IsFiniteSet(groupDevices[g])
    BY IdsAssumption, FS_Subset DEF TypeOK
  <1>2. Cardinality(groupDevices[g]) \in Nat
    BY <1>1, FS_CardinalityType
  <1>3. Cardinality(groupDevices[g] \cup {d}) =
          IF d \in groupDevices[g] THEN Cardinality(groupDevices[g])
                                   ELSE Cardinality(groupDevices[g]) + 1
    BY <1>1, FS_AddElement
  <1>4. Cardinality(groupDevices[g]) < MaxDevicesPerGroup
    BY DEF HasRoom
  <1>5. CASE d \in groupDevices[g]
    BY <1>2, <1>3, <1>4, <1>5, LimitsAssumption
  <1>6. CASE d \notin groupDevices[g]
    BY <1>2, <1>3, <1>4, <1>6, LimitsAssumption
  <1>7. QED
    BY <1>5, <1>6

\* A group that loses members keeps within its limit.
LEMMA FewerMembers ==
  ASSUME TypeOK, CapacityRespected, NEW g \in Groups, NEW S \in SUBSET groupDevices[g]
  PROVE  Cardinality(S) <= MaxDevicesPerGroup
  <1>1. IsFiniteSet(groupDevices[g])
    BY IdsAssumption, FS_Subset DEF TypeOK
  <1>2. /\ Cardinality(S) <= Cardinality(groupDevices[g])
        /\ Cardinality(S) \in Nat /\ Cardinality(groupDevices[g]) \in Nat
    BY <1>1, FS_Subset, FS_CardinalityType
  <1>3. QED
    BY <1>2, LimitsAssumption DEF CapacityRespected

LEMMA InitCapacity == Init => CapacityRespected
  BY FS_EmptySet, LimitsAssumption DEF Init, CapacityRespected

\* Only a registration or an approval adds a member, and both ask for room first.
LEMMA StepCapacity ==
  TypeOK /\ MembershipAgrees /\ CapacityRespected /\ [Next]_storeVars
    => CapacityRespected'
  <1> SUFFICES ASSUME TypeOK, MembershipAgrees, CapacityRespected, [Next]_storeVars,
                      NEW h \in Groups
               PROVE  Cardinality(groupDevices'[h]) <= MaxDevicesPerGroup
    BY DEF CapacityRespected
  <1>1. ASSUME NEW d \in Devices, NEW g \in Groups, RegisterNewGroup(d, g)
        PROVE  Cardinality(groupDevices'[h]) <= MaxDevicesPerGroup
    <2>1. groupDevices'[h] = {d} \/ groupDevices'[h] = groupDevices[h]
      BY <1>1 DEF RegisterNewGroup, TypeOK
    <2>2. Cardinality({d}) = 1
      BY FS_Singleton
    <2>3. QED
      BY <2>1, <2>2, LimitsAssumption DEF CapacityRespected
  <1>2. ASSUME NEW d \in Devices, NEW g \in Groups, RegisterExistingGroup(d, g)
        PROVE  Cardinality(groupDevices'[h]) <= MaxDevicesPerGroup
    <2>1. groupDevices'[h] = IF h = g THEN groupDevices[h] \cup {d} ELSE groupDevices[h]
      BY <1>2 DEF RegisterExistingGroup, TypeOK
    <2>2. HasRoom(g)
      BY <1>2 DEF RegisterExistingGroup
    <2>3. QED
      BY <2>1, <2>2, RoomForOne DEF CapacityRespected
  <1>3. ASSUME NEW d \in Devices, NEW t \in Devices, RemoveDevice(d, t)
        PROVE  Cardinality(groupDevices'[h]) <= MaxDevicesPerGroup
    <2>1. groupDevices'[h] \subseteq groupDevices[h]
      BY <1>3 DEF RemoveDevice, TypeOK
    <2>2. QED
      BY <2>1, FewerMembers
  <1>4. ASSUME NEW r \in bindRequests, ApproveBind(r)
        PROVE  Cardinality(groupDevices'[h]) <= MaxDevicesPerGroup
    <2> DEFINE d == r.requester
               g == devices[r.issuer].groupId
    <2>1. d \in Devices /\ r.issuer \in Devices /\ Active(d) /\ Active(r.issuer)
      BY <1>4 DEF ApproveBind, TypeOK, BindRequest
    <2>2. g \in Groups /\ HasRoom(g)
      BY <1>4, <2>1, ActiveGroup DEF ApproveBind
    <2>3. groupDevices'[h] = IF h = g THEN groupDevices[h] \cup {d}
                                      ELSE groupDevices[h] \ {d}
      <3>1. groupDevices' = MoveTo(d, g)
        BY <1>4 DEF ApproveBind
      <3>2. \A k \in Groups : MoveTo(d, g)[k] = IF k = g THEN groupDevices[k] \cup {d}
                                                        ELSE groupDevices[k] \ {d}
        BY <2>1, <2>2, MovedMembers
      <3>3. QED
        BY <3>1, <3>2
    <2>4. CASE h = g
      BY <2>1, <2>2, <2>3, <2>4, RoomForOne
    <2>5. CASE h # g
      <3>1. groupDevices'[h] \in SUBSET groupDevices[h]
        BY <2>3, <2>5
      <3>2. QED
        BY <3>1, FewerMembers
    <2>6. QED
      BY <2>4, <2>5
  <1>5. CASE UNCHANGED groupDevices
    BY <1>5 DEF CapacityRespected
  <1>6. ASSUME Next,
               ~ \E d \in Devices, g \in Groups : RegisterNewGroup(d, g),
               ~ \E d \in Devices, g \in Groups : RegisterExistingGroup(d, g),
               ~ \E d, t \in Devices : RemoveDevice(d, t),
               ~ \E r \in bindRequests : ApproveBind(r)
        PROVE  UNCHANGED groupDevices
    BY <1>6
    DEF Next, MembershipStep, PairingStep, PolicyStep, DeliveryStep, PresenceStep,
        pairingVars, Tick, CleanupExpired, CreateBindCode, RequestBindRefused,
        RequestBind, RejectBind, UpdatePolicy, PushClipboardItem, AckItem,
        OpenPresence, ClosePresence, Restart
  <1>7. QED
    BY <1>1, <1>2, <1>3, <1>4, <1>5, <1>6 DEF storeVars, pairingVars

-----------------------------------------------------------------------------
(* Expiry *)

\* No code and no request is good for longer than BIND_TTL from now.
ExpiryBounded ==
  /\ \A c \in bindCodes : c.expiresAt <= now + BindTtl
  /\ \A r \in bindRequests : r.expiresAt <= now + BindTtl

LEMMA InitExpiry == Init => ExpiryBounded
  BY DEF Init, ExpiryBounded

LEMMA StepExpiry == TypeOK /\ ExpiryBounded /\ [Next]_storeVars => ExpiryBounded'
  <1> SUFFICES ASSUME TypeOK, ExpiryBounded, [Next]_storeVars PROVE ExpiryBounded'
    OBVIOUS
  <1> USE LimitsAssumption
  <1>1. CASE Tick
    BY <1>1 DEF Tick, pairingVars, ExpiryBounded, TypeOK, BindCode, BindRequest
  <1>2. ASSUME NEW d \in Devices, CreateBindCode(d)
        PROVE  ExpiryBounded'
    BY <1>2, LiveEntries DEF CreateBindCode, ExpiryBounded, TypeOK
  <1>3. ASSUME NEW c \in LiveCodes
        PROVE  \A k \in SpendAttempt(c) : k.expiresAt <= now + BindTtl
    BY <1>3, LiveEntries DEF SpendAttempt, ExpiryBounded, BindCode
  <1>4. ASSUME NEW d \in Devices, NEW c \in bindCodes, RequestBindRefused(d, c)
        PROVE  ExpiryBounded'
    BY <1>3, <1>4, LiveEntries DEF RequestBindRefused, ExpiryBounded
  <1>5. ASSUME NEW d \in Devices, NEW c \in bindCodes, RequestBind(d, c)
        PROVE  ExpiryBounded'
    BY <1>3, <1>5, LiveEntries DEF RequestBind, ExpiryBounded
  <1>6. CASE now' = now /\ bindCodes' \subseteq bindCodes
             /\ bindRequests' \subseteq bindRequests
    BY <1>6 DEF ExpiryBounded
  <1>7. ASSUME Next, ~Tick,
               ~ \E d \in Devices : CreateBindCode(d),
               ~ \E d \in Devices, c \in bindCodes : RequestBindRefused(d, c),
               ~ \E d \in Devices, c \in bindCodes : RequestBind(d, c)
        PROVE  now' = now /\ bindCodes' \subseteq bindCodes
               /\ bindRequests' \subseteq bindRequests
    BY <1>7, LiveEntries
    DEF Next, MembershipStep, PairingStep, PolicyStep, DeliveryStep, PresenceStep,
        pairingVars, Sweep, CleanupExpired, RegisterNewGroup, RegisterExistingGroup,
        RemoveDevice, RejectBind, ApproveBind, UpdatePolicy, PushClipboardItem,
        AckItem, OpenPresence, ClosePresence, Restart
  <1>8. QED
    BY <1>1, <1>2, <1>4, <1>5, <1>6, <1>7 DEF storeVars, pairingVars

-----------------------------------------------------------------------------
(* The invariant *)

\* The inductive invariant of the store.
IInv == TypeOK /\ MembershipAgrees /\ CapacityRespected /\ ExpiryBounded

LEMMA Invariance == Spec => []IInv
  <1>1. Init => IInv
    BY InitType, InitMembership, InitCapacity, InitExpiry DEF IInv
  <1>2. IInv /\ [Next]_storeVars => IInv'
    BY StepType, StepMembership, StepCapacity, StepExpiry DEF IInv
  <1>3. QED
    BY <1>1, <1>2, PTL DEF Spec

\* Every variable of the store keeps its type.
THEOREM TypeCorrect == Spec => []TypeOK
  <1>1. IInv => TypeOK
    BY DEF IInv
  <1>2. QED
    BY <1>1, Invariance, PTL

\* groupDevices and the devices' own group ids never part company.
THEOREM MembershipCorrect == Spec => []MembershipAgrees
  <1>1. IInv => MembershipAgrees
    BY DEF IInv
  <1>2. QED
    BY <1>1, Invariance, PTL

\* No group ever outgrows its limit, however registrations, recoveries and
\* approvals interleave.
THEOREM CapacityCorrect == Spec => []CapacityRespected
  <1>1. IInv => CapacityRespected
    BY DEF IInv
  <1>2. QED
    BY <1>1, Invariance, PTL

-----------------------------------------------------------------------------
(* What a step may do *)

\* A registered device changes group only with the consent of a member of the group
\* it enters, given by approving a request that has not expired.
THEOREM ConsentCorrect == Spec => MovedOnlyWithConsent
  <1>1. IInv /\ [Next]_storeVars => [MovesAreConsented]_storeVars
    <2> SUFFICES ASSUME IInv, Next, NEW e \in Devices,
                        devices[e] # Unregistered,
                        devices'[e].groupId # devices[e].groupId
                 PROVE  \E r \in bindRequests \ bindRequests' :
                          /\ r.requester = e
                          /\ now < r.expiresAt /\ r.expiresAt <= now + BindTtl
                          /\ Active(e) /\ Active(r.issuer)
                          /\ devices'[e].groupId = devices[r.issuer].groupId
      BY DEF MovesAreConsented, MoveIsConsented
    <2> USE DEF IInv
    <2>1. ASSUME NEW d \in Devices, NEW g \in Groups, RegisterNewGroup(d, g)
          PROVE  FALSE
      BY <2>1 DEF RegisterNewGroup, TypeOK
    <2>2. ASSUME NEW d \in Devices, NEW g \in Groups, RegisterExistingGroup(d, g)
          PROVE  FALSE
      BY <2>2 DEF RegisterExistingGroup, TypeOK
    <2>3. ASSUME NEW d \in Devices, NEW t \in Devices, RemoveDevice(d, t)
          PROVE  FALSE
      BY <2>3 DEF RemoveDevice, TypeOK, Device
    <2>4. CASE \E r \in bindRequests : ApproveBind(r)
      <3>1. PICK r \in bindRequests : ApproveBind(r)
        BY <2>4
      <3>2. r \in LiveRequests /\ r \notin bindRequests'
        BY <3>1 DEF ApproveBind
      <3>3. now < r.expiresAt /\ r.expiresAt <= now + BindTtl
        BY <3>2 DEF LiveRequests, ExpiryBounded, TypeOK, BindRequest
      <3>4. r.requester = e /\ devices'[e].groupId = devices[r.issuer].groupId
        BY <3>1 DEF ApproveBind, TypeOK, Device, BindRequest
      <3>5. Active(e) /\ Active(r.issuer)
        BY <3>1, <3>4 DEF ApproveBind
      <3>6. QED
        BY <3>2, <3>3, <3>4, <3>5
    <2>5. ASSUME ~ \E d \in Devices, g \in Groups : RegisterNewGroup(d, g),
                 ~ \E d \in Devices, g \in Groups : RegisterExistingGroup(d, g),
                 ~ \E d, t \in Devices : RemoveDevice(d, t),
                 ~ \E r \in bindRequests : ApproveBind(r)
          PROVE  UNCHANGED devices
      BY <2>5
      DEF Next, MembershipStep, PairingStep, PolicyStep, DeliveryStep, PresenceStep,
          pairingVars, Tick, CleanupExpired, CreateBindCode, RequestBindRefused,
          RequestBind, RejectBind, UpdatePolicy, PushClipboardItem, AckItem,
          OpenPresence, ClosePresence, Restart
    <2>6. QED
      BY <2>1, <2>2, <2>3, <2>4, <2>5
  <1>2. QED
    BY <1>1, Invariance, PTL DEF Spec, MovedOnlyWithConsent

\* An approval moves the requester into the group of the issuer, and gives that group,
\* and no other, a key which its members online are handed.
LEMMA ApprovalRotates ==
  ASSUME IInv, TypeOK', NEW r \in bindRequests, ApproveBind(r)
  PROVE  \E g \in Groups :
           /\ groups'[g].keyVersion = groups[g].keyVersion + 1
           /\ \A h \in Groups : h # g => groups'[h].keyVersion = groups[h].keyVersion
           /\ \A h \in Groups : h # g => groupDevices'[h] \subseteq groupDevices[h]
           /\ \A m \in groupDevices'[g] :
                presences[m] # NoSink =>
                  GroupKeyUpdate(g, groups'[g].keyVersion) \in wire'[presences[m]]
  <1> USE DEF IInv
  <1> DEFINE d == r.requester
             g == devices[r.issuer].groupId
             v == groups[g].keyVersion + 1
  <1>1. d \in Devices /\ r.issuer \in Devices /\ Active(d) /\ Active(r.issuer)
    BY DEF ApproveBind, TypeOK, BindRequest
  <1>2. g \in Groups
    BY <1>1, ActiveGroup
  <1>3. groups' = [groups EXCEPT ![g].keyVersion = v]
    BY DEF ApproveBind
  <1>4. /\ groups'[g].keyVersion = v
        /\ \A h \in Groups : h # g => groups'[h].keyVersion = groups[h].keyVersion
    BY <1>2, <1>3 DEF TypeOK, Group
  <1>5. \A h \in Groups : h # g => groupDevices'[h] \subseteq groupDevices[h]
    <2>1. groupDevices' = MoveTo(d, g)
      BY DEF ApproveBind
    <2>2. \A h \in Groups : MoveTo(d, g)[h] = IF h = g THEN groupDevices[h] \cup {d}
                                                      ELSE groupDevices[h] \ {d}
      BY <1>1, <1>2, MovedMembers
    <2>3. QED
      BY <2>1, <2>2
  <1>6. wire' = Notify(groupDevices'[g], GroupKeyUpdate(g, v))
    BY DEF ApproveBind, SendGroupKey
  <1>7. ASSUME NEW m \in groupDevices'[g], presences[m] # NoSink
        PROVE  GroupKeyUpdate(g, v) \in wire'[presences[m]]
    <2>1. m \in Devices
      BY <1>2, <1>7 DEF TypeOK
    <2>2. presences[m] \in Sinks
      BY <1>7, <2>1 DEF TypeOK
    <2>3. wire'[presences[m]] = wire[presences[m]] \cup {GroupKeyUpdate(g, v)}
      BY <1>6, <1>7, <2>2 DEF Notify
    <2>4. QED
      BY <2>3
  <1>8. QED
    BY <1>2, <1>4, <1>5, <1>7

\* No other step changes the key of a group that exists.
LEMMA OnlyApprovalsRotate ==
  ASSUME TypeOK, Next, ~ \E r \in bindRequests : ApproveBind(r), NEW h \in Groups, Exists(h)
  PROVE  groups'[h].keyVersion = groups[h].keyVersion
  <1>1. ASSUME NEW d \in Devices, NEW g \in Groups, RegisterNewGroup(d, g)
        PROVE  groups'[h].keyVersion = groups[h].keyVersion
    BY <1>1 DEF RegisterNewGroup, TypeOK
  <1>2. ASSUME NEW d \in Devices, NEW n, NEW allow, UpdatePolicy(d, n, allow)
        PROVE  groups'[h].keyVersion = groups[h].keyVersion
    BY <1>2 DEF UpdatePolicy, TypeOK, Group
  <1>3. ASSUME ~ \E d \in Devices, g \in Groups : RegisterNewGroup(d, g),
               ~ \E d \in Devices, n \in 1 .. MaxPolicyVersion, allow \in SUBSET Kinds :
                     UpdatePolicy(d, n, allow)
        PROVE  UNCHANGED groups
    BY <1>3
    DEF Next, MembershipStep, PairingStep, PolicyStep, DeliveryStep, PresenceStep,
        pairingVars, Tick, CleanupExpired, RegisterExistingGroup, RemoveDevice,
        CreateBindCode, RequestBindRefused, RequestBind, RejectBind, PushClipboardItem,
        AckItem, OpenPresence, ClosePresence, Restart
  <1>4. QED
    BY <1>1, <1>2, <1>3

\* A registered device enters a group by an approval only.
LEMMA OnlyApprovalsAdmit ==
  ASSUME IInv, Next, ~ \E r \in bindRequests : ApproveBind(r),
         NEW h \in Groups, NEW e \in groupDevices'[h] \ groupDevices[h]
  PROVE  devices[e] = Unregistered
  <1> USE DEF IInv
  <1>1. ASSUME NEW d \in Devices, NEW g \in Groups, RegisterNewGroup(d, g)
        PROVE  devices[e] = Unregistered
    BY <1>1 DEF RegisterNewGroup, TypeOK
  <1>2. ASSUME NEW d \in Devices, NEW g \in Groups, RegisterExistingGroup(d, g)
        PROVE  devices[e] = Unregistered
    <2>1. /\ groupDevices' = [groupDevices EXCEPT ![g] = @ \cup {d}]
          /\ devices[d] = Unregistered
      BY <1>2 DEF RegisterExistingGroup
    <2>2. groupDevices'[h] \subseteq groupDevices[h] \cup {d}
      BY <2>1 DEF TypeOK
    <2>3. QED
      BY <2>1, <2>2
  <1>3. ASSUME NEW d \in Devices, NEW t \in Devices, RemoveDevice(d, t)
        PROVE  FALSE
    <2>1. groupDevices' = [groupDevices EXCEPT ![devices[t].groupId] = @ \ {t}]
      BY <1>3 DEF RemoveDevice
    <2>2. groupDevices'[h] \subseteq groupDevices[h]
      BY <2>1 DEF TypeOK
    <2>3. QED
      BY <2>2
  <1>4. ASSUME ~ \E d \in Devices, g \in Groups : RegisterNewGroup(d, g),
               ~ \E d \in Devices, g \in Groups : RegisterExistingGroup(d, g),
               ~ \E d, t \in Devices : RemoveDevice(d, t)
        PROVE  UNCHANGED groupDevices
    BY <1>4
    DEF Next, MembershipStep, PairingStep, PolicyStep, DeliveryStep, PresenceStep,
        pairingVars, Tick, CleanupExpired, CreateBindCode, RequestBindRefused,
        RequestBind, RejectBind, UpdatePolicy, PushClipboardItem, AckItem,
        OpenPresence, ClosePresence, Restart
  <1>5. QED
    BY <1>1, <1>2, <1>3, <1>4

\* A device that enters a group by pairing finds a key the members did not have
\* before, and whenever a group has a new key everyone online in it has been handed it.
THEOREM RotationCorrect == Spec => RotationAnnounced
  <1>1. IInv /\ IInv' /\ [Next]_storeVars => [EntriesRotateKeys]_storeVars
    <2> SUFFICES ASSUME IInv, IInv', Next, NEW h \in Groups
                 PROVE  /\ RotationReachesMembers(h)
                        /\ \A e \in Devices : EntryRotatesKey(e, h)
      BY DEF EntriesRotateKeys
    <2>1. CASE \E r \in bindRequests : ApproveBind(r)
      <3>1. PICK g \in Groups :
              /\ groups'[g].keyVersion = groups[g].keyVersion + 1
              /\ \A f \in Groups : f # g => groups'[f].keyVersion = groups[f].keyVersion
              /\ \A f \in Groups : f # g => groupDevices'[f] \subseteq groupDevices[f]
              /\ \A m \in groupDevices'[g] :
                   presences[m] # NoSink =>
                     GroupKeyUpdate(g, groups'[g].keyVersion) \in wire'[presences[m]]
        BY <2>1, ApprovalRotates DEF IInv
      <3>2. CASE h = g
        BY <3>1, <3>2 DEF RotationReachesMembers, EntryRotatesKey
      <3>3. CASE h # g
        BY <3>1, <3>3 DEF RotationReachesMembers, EntryRotatesKey
      <3>4. QED
        BY <3>2, <3>3
    <2>2. CASE ~ \E r \in bindRequests : ApproveBind(r)
      <3>1. RotationReachesMembers(h)
        BY <2>2, OnlyApprovalsRotate DEF IInv, RotationReachesMembers
      <3>2. \A e \in Devices : EntryRotatesKey(e, h)
        BY <2>2, OnlyApprovalsAdmit DEF EntryRotatesKey
      <3>3. QED
        BY <3>1, <3>2
    <2>3. QED
      BY <2>1, <2>2
  <1>2. QED
    BY <1>1, Invariance, PTL DEF Spec, RotationAnnounced

=============================================================================
