-------------------------- MODULE SharePasteStore --------------------------
(***************************************************************************)
(* The in-memory store of the SharePaste server, SharePasteStore in        *)
(* apps/server/src/store/sharepaste-store.ts.                              *)
(*                                                                         *)
(* The server is one Node.js process and every method of the store runs to *)
(* completion without an await, so each method is one action.  A method    *)
(* that throws stops where the code throws: what it had already changed    *)
(* (expired entries swept away, one attempt of a bind code used up) stays. *)
(*                                                                         *)
(* What is abstracted.  A bind code, a request id and a group key are      *)
(* random; here codes and requests are numbered in the order they are made *)
(* (nextId) and the key of a group is named by its version.  Whoever knows *)
(* the recovery phrase of a group knows the group.  A clipboard item is    *)
(* its id and its kind, a policy the set of kinds it lets through.  Names, *)
(* platforms, public keys, LAN addresses and lastSeenUnix are left out.    *)
(* A presence is the callback it was opened with; wire[s] is what has been *)
(* handed to callback s so far.                                            *)
(***************************************************************************)
EXTENDS Integers, FiniteSets, Sequences

CONSTANTS
  Devices,              \* device ids the server may mint
  Groups,               \* group ids the server may mint
  Items,                \* ids of clipboard items
  Kinds,                \* kinds of item a policy tells apart
  Kind,                 \* the kind of each item
  DefaultAllow,         \* the kinds DEFAULT_POLICY lets through
  Sinks,                \* event callbacks (one per hello of an event stream)
  SinkOf,               \* the callbacks a device may open a presence with
  NoGroup,              \* groupId of a device that was never registered
  NoSink,               \* no presence
  MaxBindAttempts,      \* MAX_BIND_ATTEMPTS      (5 in the code)
  BindTtl,              \* BIND_TTL_SECONDS       (60)
  OfflineTtl,           \* OFFLINE_TTL_SECONDS    (24 * 3600)
  MaxDevicesPerGroup,   \* MAX_DEVICES_PER_GROUP  (10)
  SeenWindow,           \* item ids remembered per group (1000)
  MaxNow,               \* bound of the model: the last instant of the clock
  MaxIds,               \* bound of the model: codes and requests ever made
  MaxPushes,            \* bound of the model: fan-outs ever made
  MaxPolicyVersion      \* bound of the model: policy versions

ASSUME IdsAssumption ==
  /\ IsFiniteSet(Devices)
  /\ NoGroup \notin Groups
  /\ NoSink \notin Sinks
  /\ Kind \in [Items -> Kinds]
  /\ DefaultAllow \in SUBSET Kinds
  /\ SinkOf \in [Devices -> SUBSET Sinks]

\* A callback is a function made for one call of openPresence, so for one device.
ASSUME CallbackAssumption ==
  \A d, e \in Devices : SinkOf[d] \cap SinkOf[e] # {} => d = e

ASSUME LimitsAssumption ==
  /\ MaxBindAttempts \in Nat \ {0}
  /\ BindTtl \in Nat \ {0}
  /\ OfflineTtl \in Nat \ {0}
  /\ MaxDevicesPerGroup \in Nat \ {0}
  /\ SeenWindow \in Nat \ {0}

ASSUME BoundsAssumption ==
  /\ MaxNow \in Nat
  /\ MaxIds \in Nat
  /\ MaxPushes \in Nat
  /\ MaxPolicyVersion \in Nat

VARIABLES
  now,           \* nowUnix()
  nextId,        \* the number the next bind code or request gets
  devices,       \* Map deviceId -> Device
  groups,        \* Map groupId -> GroupState; keyVersion 0: no such group
  groupDevices,  \* Map groupId -> set of member ids
  bindCodes,     \* the bind codes held by the map of that name
  bindRequests,  \* the bind requests held by the map of that name
  offline,       \* Map deviceId -> queue of envelopes
  presences,     \* Map deviceId -> callback
  seenItems,     \* Map groupId -> item ids in the order they were added
  wire,          \* what each callback has been handed
  pushLog,       \* history: the fan-outs, in order
  acked          \* history: the <<device, item>> pairs acknowledged

pairingVars  == <<nextId, devices, groups, groupDevices, bindCodes, bindRequests>>
deliveryVars == <<offline, presences, seenItems, wire>>
historyVars  == <<pushLog, acked>>
storeVars    == <<now, pairingVars, deliveryVars, historyVars>>

-----------------------------------------------------------------------------
(* Types *)

Device   == [groupId: Groups \cup {NoGroup}, active: BOOLEAN]
Group    == [keyVersion: Nat, policyVersion: Nat, allow: SUBSET Kinds]
BindCode == [code: Nat, issuer: Devices, expiresAt: Nat, attemptsLeft: Nat]
BindRequest ==
  [id: Nat, code: Nat, issuer: Devices, requester: Devices, expiresAt: Nat]
Envelope == [item: Items, expiresAt: Nat]
Fanout   ==
  [item: Items, group: Groups, source: Devices, targets: SUBSET Devices, at: Nat]

Connected           == [type |-> "connected"]
Clipboard(i)        == [type |-> "clipboard", item |-> i]
PairingRequest(r)   == [type |-> "pairing_request", request |-> r]
GroupKeyUpdate(g,v) == [type |-> "group_key_update", group |-> g, version |-> v]

Event ==
  [type: {"connected"}]
    \cup [type: {"clipboard"}, item: Items]
    \cup [type: {"pairing_request"}, request: Nat]
    \cup [type: {"group_key_update"}, group: Groups, version: Nat]

\* Every variable has its type.
TypeOK ==
  /\ now \in Nat
  /\ nextId \in Nat
  /\ devices \in [Devices -> Device]
  /\ groups \in [Groups -> Group]
  /\ groupDevices \in [Groups -> SUBSET Devices]
  /\ bindCodes \in SUBSET BindCode
  /\ bindRequests \in SUBSET BindRequest
  /\ offline \in [Devices -> SUBSET Envelope]
  /\ presences \in [Devices -> Sinks \cup {NoSink}]
  /\ seenItems \in [Groups -> Seq(Items)]
  /\ wire \in [Sinks -> SUBSET Event]
  /\ pushLog \in Seq(Fanout)
  /\ acked \in SUBSET (Devices \X Items)

-----------------------------------------------------------------------------
(* Helpers *)

NoGroupState == [keyVersion |-> 0, policyVersion |-> 0, allow |-> {}]
Unregistered == [groupId |-> NoGroup, active |-> FALSE]

\* requireDevice returns rather than throws.
Active(d) == devices[d].active

Exists(g) == groups[g].keyVersion > 0

\* Mutant: the limit itself still passes.
HasRoomOffByOne(g) == Cardinality(groupDevices[g]) <= MaxDevicesPerGroup

\* assertGroupCapacity returns rather than throws.
HasRoom(g) == Cardinality(groupDevices[g]) < MaxDevicesPerGroup

\* Mutants: exhausted codes survive; a request outlives its second; an envelope
\* goes one tick early.
LiveCodesByTimeOnly == {c \in bindCodes : c.expiresAt > now}
LiveRequestsOneTickLate == {r \in bindRequests : r.expiresAt >= now}
LiveOfflineOneTickEarly ==
  [d \in Devices |-> {e \in offline[d] : e.expiresAt > now + 1}]

\* What cleanupExpired leaves of the three maps it sweeps.
LiveCodes == {c \in bindCodes : c.expiresAt > now /\ c.attemptsLeft > 0}
LiveRequests == {r \in bindRequests : r.expiresAt > now}
LiveOffline == [d \in Devices |-> {e \in offline[d] : e.expiresAt > now}]

\* wire after onEvent(e) is called on the presence of each device of D that has one.
Notify(D, e) ==
  [s \in Sinks |->
     IF \E d \in D : presences[d] = s THEN wire[s] \cup {e} ELSE wire[s]]

SeqRange(q) == {q[n] : n \in DOMAIN q}

-----------------------------------------------------------------------------
(* Time, and calls that change nothing of their own *)

Tick ==
  /\ now < MaxNow
  /\ now' = now + 1
  /\ UNCHANGED <<pairingVars, deliveryVars, historyVars>>

\* cleanupExpired.
Sweep ==
  /\ bindCodes' = LiveCodes
  /\ bindRequests' = LiveRequests
  /\ offline' = LiveOffline

\* cleanupExpired, for the calls that run it and then only read (listDevices,
\* getDeviceContext, fetchOffline, exportSnapshot), return early (a push of an item
\* already seen) or refuse; any caller may make one of these at any time.
CleanupExpired ==
  /\ Sweep
  /\ UNCHANGED <<now, nextId, devices, groups, groupDevices,
                 presences, seenItems, wire, historyVars>>

-----------------------------------------------------------------------------
(* Registration and membership *)

\* registerDevice with no group, or with a group but no phrase: a group of its own.
RegisterNewGroup(d, g) ==
  /\ devices[d] = Unregistered
  /\ ~Exists(g)
  /\ groups' = [groups EXCEPT ![g] =
                  [keyVersion |-> 1, policyVersion |-> 1, allow |-> DefaultAllow]]
  /\ groupDevices' = [groupDevices EXCEPT ![g] = {d}]
  /\ seenItems' = [seenItems EXCEPT ![g] = <<>>]
  /\ devices' = [devices EXCEPT ![d] = [groupId |-> g, active |-> TRUE]]
  /\ Sweep
  /\ UNCHANGED <<now, nextId, presences, wire, historyVars>>

\* registerDevice into an existing group whose phrase the caller has, and
\* recoverGroup, which finds the group by its phrase and ends in that call.
RegisterExistingGroup(d, g) ==
  /\ devices[d] = Unregistered
  /\ Exists(g)
  /\ HasRoom(g)
  /\ devices' = [devices EXCEPT ![d] = [groupId |-> g, active |-> TRUE]]
  /\ groupDevices' = [groupDevices EXCEPT ![g] = @ \cup {d}]
  /\ Sweep
  /\ UNCHANGED <<now, nextId, groups, presences, seenItems, wire, historyVars>>

\* Mutant: the target stays in the member set of its group.
RemoveDeviceKeepingMember(d, t) ==
  /\ Active(d)
  /\ Active(t)
  /\ devices[d].groupId = devices[t].groupId
  /\ devices' = [devices EXCEPT ![t].active = FALSE]
  /\ presences' = [presences EXCEPT ![t] = NoSink]
  /\ UNCHANGED <<now, nextId, groups, groupDevices, bindCodes, bindRequests,
                 offline, seenItems, wire, historyVars>>

\* removeDevice(requester d, target t).  The queue, the codes and the requests of
\* the target stay where they are.
RemoveDevice(d, t) ==
  /\ Active(d)
  /\ Active(t)
  /\ devices[d].groupId = devices[t].groupId
  /\ devices' = [devices EXCEPT ![t].active = FALSE]
  /\ presences' = [presences EXCEPT ![t] = NoSink]
  /\ groupDevices' = [groupDevices EXCEPT ![devices[t].groupId] = @ \ {t}]
  /\ UNCHANGED <<now, nextId, groups, bindCodes, bindRequests,
                 offline, seenItems, wire, historyVars>>

-----------------------------------------------------------------------------
(* Pairing *)

CreateBindCode(d) ==
  /\ Active(d)
  /\ nextId < MaxIds
  /\ bindCodes' = LiveCodes \cup
       {[code |-> nextId, issuer |-> d, expiresAt |-> now + BindTtl,
         attemptsLeft |-> MaxBindAttempts]}
  /\ nextId' = nextId + 1
  /\ bindRequests' = LiveRequests
  /\ offline' = LiveOffline
  /\ UNCHANGED <<now, devices, groups, groupDevices,
                 presences, seenItems, wire, historyVars>>

\* Mutant: looking a code up costs nothing.
SpendNothing(c) == LiveCodes

\* The codes after one attempt of c has been used up.
SpendAttempt(c) ==
  (LiveCodes \ {c}) \cup {[c EXCEPT !.attemptsLeft = @ - 1]}

\* requestBind that throws after the attempt is spent: the issuer has been
\* removed (DEVICE_NOT_FOUND) or is in the requester's group (ALREADY_BOUND).
RequestBindRefused(d, c) ==
  /\ Active(d)
  /\ c \in LiveCodes
  /\ ~Active(c.issuer) \/ devices[c.issuer].groupId = devices[d].groupId
  /\ bindCodes' = SpendAttempt(c)
  /\ bindRequests' = LiveRequests
  /\ offline' = LiveOffline
  /\ UNCHANGED <<now, nextId, devices, groups, groupDevices,
                 presences, seenItems, wire, historyVars>>

\* requestBind: spend an attempt, file the request, tell the issuer.
RequestBind(d, c) ==
  /\ Active(d)
  /\ c \in LiveCodes
  /\ Active(c.issuer)
  /\ devices[c.issuer].groupId # devices[d].groupId
  /\ nextId < MaxIds
  /\ bindCodes' = SpendAttempt(c)
  /\ bindRequests' = LiveRequests \cup
       {[id |-> nextId, code |-> c.code, issuer |-> c.issuer, requester |-> d,
         expiresAt |-> c.expiresAt]}
  /\ nextId' = nextId + 1
  /\ wire' = Notify({c.issuer}, PairingRequest(nextId))
  /\ offline' = LiveOffline
  /\ UNCHANGED <<now, devices, groups, groupDevices, presences, seenItems, historyVars>>

\* confirmBind(r, its issuer, approve = false).  Whether the issuer is still
\* active is not asked.
RejectBind(r) ==
  /\ r \in LiveRequests
  /\ bindRequests' = LiveRequests \ {r}
  /\ bindCodes' = LiveCodes
  /\ offline' = LiveOffline
  /\ UNCHANGED <<now, nextId, devices, groups, groupDevices,
                 presences, seenItems, wire, historyVars>>

\* Mutant: the requester stays in the set of its old group as well.
MoveKeepingOldGroup(d, g) == [groupDevices EXCEPT ![g] = @ \cup {d}]

\* The member sets after device d has been moved to group g.
MoveTo(d, g) ==
  LET left == [groupDevices EXCEPT ![devices[d].groupId] = @ \ {d}]
  IN  [left EXCEPT ![g] = @ \cup {d}]

\* Mutant: the audience is taken before the requester has moved in.
SendGroupKeyBeforeMove(g, v) == Notify(groupDevices[g], GroupKeyUpdate(g, v))

\* wire after the new key of g has been sent to its members of after the move.
SendGroupKey(g, v) == Notify(groupDevices'[g], GroupKeyUpdate(g, v))

\* confirmBind(r, its issuer, approve = true): the requester leaves its group for
\* the one the issuer is in now, that group gets a new key, and every member with
\* a presence, the requester included, is sent it.  (When one of the checks throws
\* the request stays as it was but for its flag "approved", which nothing reads.)
ApproveBind(r) ==
  LET g == devices[r.issuer].groupId
      v == groups[g].keyVersion + 1
  IN  /\ r \in LiveRequests
      /\ Active(r.issuer)
      /\ Active(r.requester)
      /\ HasRoom(g)
      /\ groupDevices' = MoveTo(r.requester, g)
      /\ devices' = [devices EXCEPT ![r.requester].groupId = g]
      /\ groups' = [groups EXCEPT ![g].keyVersion = v]
      /\ wire' = SendGroupKey(g, v)
      /\ bindRequests' = LiveRequests \ {r}
      /\ bindCodes' = LiveCodes
      /\ offline' = LiveOffline
      /\ UNCHANGED <<now, nextId, presences, seenItems, historyVars>>

-----------------------------------------------------------------------------
(* Policy *)

UpdatePolicy(d, expectedVersion, allow) ==
  LET g == devices[d].groupId
  IN  /\ Active(d)
      /\ groups[g].policyVersion = expectedVersion
      /\ expectedVersion < MaxPolicyVersion
      /\ groups' = [groups EXCEPT ![g].policyVersion = expectedVersion + 1,
                                  ![g].allow = allow]
      /\ UNCHANGED <<now, nextId, devices, groupDevices, bindCodes, bindRequests,
                     deliveryVars, historyVars>>

-----------------------------------------------------------------------------
(* Delivery *)

\* Mutant: evicts as soon as the window is full rather than when it overflows.
RememberOneTooFew(seen, i) ==
  LET longer == Append(seen, i)
  IN  IF Len(longer) >= SeenWindow THEN Tail(longer) ELSE longer

\* seen.add(i), then the oldest id goes once there are more than SeenWindow.
Remember(seen, i) ==
  LET longer == Append(seen, i)
  IN  IF Len(longer) > SeenWindow THEN Tail(longer) ELSE longer

\* Mutant: devices with a presence find the item in their queue as well.
EnqueueForPresentToo(D, i) ==
  [t \in Devices |->
     IF t \in D \/ presences[t] # NoSink
       THEN LiveOffline[t] \cup {[item |-> i, expiresAt |-> now + OfflineTtl]}
       ELSE LiveOffline[t]]

\* queue.push for each device of D.
Enqueue(D, i) ==
  [t \in Devices |->
     IF t \in D
       THEN LiveOffline[t] \cup {[item |-> i, expiresAt |-> now + OfflineTtl]}
       ELSE LiveOffline[t]]

\* Mutant: fans out to every active device there is.
TargetsOfAnyGroup(g, d) == {t \in Devices : Active(t)} \ {d}

\* The members an item of device d is for.
Targets(g, d) == groupDevices[g] \ {d}

\* pushClipboardItem by its source d of an item the policy lets through and the
\* group has not seen: members with a presence are sent it, the others find it
\* in their queue.
PushClipboardItem(d, i) ==
  LET g       == devices[d].groupId
      targets == Targets(g, d)
      away    == {t \in targets : presences[t] = NoSink}
  IN  /\ Active(d)
      /\ Kind[i] \in groups[g].allow
      /\ i \notin SeqRange(seenItems[g])
      /\ Len(pushLog) < MaxPushes
      /\ seenItems' = [seenItems EXCEPT ![g] = Remember(@, i)]
      /\ offline' = Enqueue(away, i)
      /\ wire' = Notify(targets \ away, Clipboard(i))
      /\ bindCodes' = LiveCodes
      /\ bindRequests' = LiveRequests
      /\ pushLog' = Append(pushLog, [item |-> i, group |-> g, source |-> d,
                                     targets |-> targets, at |-> now])
      /\ UNCHANGED <<now, nextId, devices, groups, groupDevices, presences, acked>>

\* ackItem: every envelope of that item leaves the queue.
AckItem(d, i) ==
  /\ Active(d)
  /\ offline' = [offline EXCEPT ![d] = {e \in @ : e.item # i}]
  /\ acked' = acked \cup {<<d, i>>}
  /\ UNCHANGED <<now, pairingVars, presences, seenItems, wire, pushLog>>

\* openPresence: whatever presence the device had is replaced.
OpenPresence(d, s) ==
  /\ Active(d)
  /\ presences' = [presences EXCEPT ![d] = s]
  /\ wire' = [wire EXCEPT ![s] = @ \cup {Connected}]
  /\ UNCHANGED <<now, pairingVars, offline, seenItems, historyVars>>

\* closePresence: by device id, whichever stream the presence belongs to.
ClosePresence(d) ==
  /\ presences' = [presences EXCEPT ![d] = NoSink]
  /\ UNCHANGED <<now, pairingVars, offline, seenItems, wire, historyVars>>

\* The server, running in durable mode, stops and starts again from a snapshot of
\* the store as it was when it stopped (DurableStore says when there is one): every
\* map is in it but presences.
Restart ==
  /\ presences' = [d \in Devices |-> NoSink]
  /\ UNCHANGED <<now, pairingVars, offline, seenItems, wire, historyVars>>

-----------------------------------------------------------------------------
(* Specification *)

Init ==
  /\ now = 0
  /\ nextId = 0
  /\ devices = [d \in Devices |-> Unregistered]
  /\ groups = [g \in Groups |-> NoGroupState]
  /\ groupDevices = [g \in Groups |-> {}]
  /\ bindCodes = {}
  /\ bindRequests = {}
  /\ offline = [d \in Devices |-> {}]
  /\ presences = [d \in Devices |-> NoSink]
  /\ seenItems = [g \in Groups |-> <<>>]
  /\ wire = [s \in Sinks |-> {}]
  /\ pushLog = <<>>
  /\ acked = {}

MembershipStep ==
  \/ \E d \in Devices, g \in Groups : RegisterNewGroup(d, g)
  \/ \E d \in Devices, g \in Groups : RegisterExistingGroup(d, g)
  \/ \E d, t \in Devices : RemoveDevice(d, t)

PairingStep ==
  \/ \E d \in Devices : CreateBindCode(d)
  \/ \E d \in Devices, c \in bindCodes : RequestBindRefused(d, c)
  \/ \E d \in Devices, c \in bindCodes : RequestBind(d, c)
  \/ \E r \in bindRequests : RejectBind(r)
  \/ \E r \in bindRequests : ApproveBind(r)

PolicyStep ==
  \E d \in Devices, n \in 1 .. MaxPolicyVersion, allow \in SUBSET Kinds :
    UpdatePolicy(d, n, allow)

\* A client acknowledges items it has been handed or has found in its queue.
Received(d) ==
  {e.item : e \in offline[d]}
    \cup {i \in Items : \E s \in SinkOf[d] : Clipboard(i) \in wire[s]}

DeliveryStep ==
  \/ \E d \in Devices, i \in Items : PushClipboardItem(d, i)
  \/ \E d \in Devices : \E i \in Received(d) : AckItem(d, i)

PresenceStep ==
  \/ \E d \in Devices : \E s \in SinkOf[d] : OpenPresence(d, s)
  \/ \E d \in Devices : ClosePresence(d)
  \/ Restart

Next ==
  \/ Tick
  \/ CleanupExpired
  \/ MembershipStep
  \/ PairingStep
  \/ PolicyStep
  \/ DeliveryStep
  \/ PresenceStep

Spec == Init /\ [][Next]_storeVars

-----------------------------------------------------------------------------
(* Membership and pairing *)

\* The two places that say who is in a group agree: groupDevices holds exactly the
\* active devices whose own groupId names the group, and that group exists.  Every
\* groups.get(device.groupId)! of the store relies on it.
MembershipAgrees ==
  \A d \in Devices :
    /\ \A g \in Groups :
         d \in groupDevices[g] <=> Active(d) /\ devices[d].groupId = g
    /\ Active(d) => \E g \in Groups : devices[d].groupId = g /\ Exists(g)

\* However many requests for one group are pending when they are approved, and
\* whoever recovers it meanwhile, a group never outgrows MAX_DEVICES_PER_GROUP.
CapacityRespected ==
  \A g \in Groups : Cardinality(groupDevices[g]) <= MaxDevicesPerGroup

\* The requests a bind code still has open and the attempts it has left never add
\* up to more than MAX_BIND_ATTEMPTS, and a request lives no longer than its code:
\* requestBind spends an attempt for each request and copies the code's expiry.
AttemptsAccounted ==
  \A c \in bindCodes :
    LET opened == {r \in bindRequests : r.code = c.code}
    IN  /\ Cardinality(opened) + c.attemptsLeft <= MaxBindAttempts
        /\ \A r \in opened : r.issuer = c.issuer /\ r.expiresAt = c.expiresAt

\* A device that is already registered changes group only by the approval of an
\* unexpired request of its own, into the group in which the issuer of the code is
\* an active member at that moment, and the request is used up by it.
MoveIsConsented(d) ==
  devices[d] # Unregistered /\ devices'[d].groupId # devices[d].groupId =>
    \E r \in bindRequests \ bindRequests' :
      /\ r.requester = d
      /\ now < r.expiresAt /\ r.expiresAt <= now + BindTtl
      /\ Active(d) /\ Active(r.issuer)
      /\ devices'[d].groupId = devices[r.issuer].groupId

MovesAreConsented == \A d \in Devices : MoveIsConsented(d)

MovedOnlyWithConsent == [][MovesAreConsented]_storeVars

\* A device that enters a group by pairing never does so under a key the members
\* had before: the version goes up in the same step.
EntryRotatesKey(d, g) ==
  devices[d] # Unregistered /\ d \in groupDevices'[g] \ groupDevices[g] =>
    groups'[g].keyVersion = groups[g].keyVersion + 1

\* Nor does the key of a group ever change behind the back of a member, whether or not
\* anybody enters (a second request of the same device may be approved as well): the
\* version goes up by one, and every member online at that moment, a newcomer included,
\* has been handed the new version in the same step.
RotationReachesMembers(g) ==
  Exists(g) /\ groups'[g].keyVersion # groups[g].keyVersion =>
    /\ groups'[g].keyVersion = groups[g].keyVersion + 1
    /\ \A m \in groupDevices'[g] :
         presences[m] # NoSink =>
           GroupKeyUpdate(g, groups'[g].keyVersion) \in wire'[presences[m]]

EntriesRotateKeys ==
  \A g \in Groups : RotationReachesMembers(g) /\ \A d \in Devices : EntryRotatesKey(d, g)

RotationAnnounced == [][EntriesRotateKeys]_storeVars

\* The store keeps the promises of GroupMembership.
Membership ==
  INSTANCE GroupMembership WITH
    Capacity <- MaxDevicesPerGroup,
    members  <- groupDevices,
    epoch    <- [g \in Groups |-> groups[g].keyVersion],
    former   <- {d \in Devices : devices[d] # Unregistered /\ ~Active(d)}

\* Every behaviour of the store, seen through who is in which group and how often
\* each group key has changed, is one GroupMembership allows.
ImplementsMembership == Membership!Spec

-----------------------------------------------------------------------------
(* Delivery *)

\* An item id that a group has seen is fanned out again only after SeenWindow
\* other ids: the bound on seenItems forgets the oldest id and never a later one.
DedupWindow ==
  \A m, n \in DOMAIN pushLog :
    /\ m < n
    /\ pushLog[m].group = pushLog[n].group
    /\ pushLog[m].item = pushLog[n].item
    => Cardinality({k \in m + 1 .. n - 1 : pushLog[k].group = pushLog[n].group})
         >= SeenWindow

\* Nothing accepted goes missing in the store: for each member a fan-out was meant
\* for, the item has been handed to a callback of that member, waits in its queue
\* for the whole of OFFLINE_TTL, was acknowledged by it, or has outlived the TTL.
AcceptedItemAccounted ==
  \A n \in DOMAIN pushLog :
    LET f == pushLog[n]
    IN  \A t \in f.targets :
          \/ \E s \in SinkOf[t] : Clipboard(f.item) \in wire[s]
          \/ \E e \in offline[t] :
               e.item = f.item /\ e.expiresAt >= f.at + OfflineTtl
          \/ <<t, f.item>> \in acked
          \/ now >= f.at + OfflineTtl

\* The store keeps the promises of Mailboxes.
Mailbox ==
  INSTANCE Mailboxes WITH
    Callbacks <- Sinks,
    Nobody    <- NoSink,
    queue     <- [d \in Devices |-> {e.item : e \in offline[d]}],
    holder    <- presences,
    told      <- [s \in Sinks |-> {i \in Items : Clipboard(i) \in wire[s]}]

\* Every behaviour of the store, seen through who has been handed which item and
\* what waits for whom, is one Mailboxes allows.
ImplementsMailboxes == Mailbox!Spec

\* What is queued or handed to a device came from a member of the group it is in
\* at that moment, and never from itself.
SentWithinGroup ==
  [][\A t \in Devices, i \in Items :
       \/ \E e \in offline'[t] \ offline[t] : e.item = i
       \/ \E s \in SinkOf[t] : Clipboard(i) \in wire'[s] \ wire[s]
       => /\ Len(pushLog') = Len(pushLog) + 1
          /\ LET f == pushLog'[Len(pushLog')]
             IN  /\ f.item = i
                 /\ f.source # t
                 /\ devices[f.source].groupId = devices[t].groupId
                 /\ Active(t)]_storeVars

\* Removal is final: a removed device is never active, a member or present again,
\* and no callback of it is ever handed anything more.
RemovedForGood ==
  [][\A d \in Devices :
       devices[d] # Unregistered /\ ~Active(d) =>
         /\ devices'[d] = devices[d]
         /\ presences'[d] = NoSink
         /\ \A s \in SinkOf[d] : wire'[s] = wire[s]
         /\ offline'[d] \subseteq offline[d]]_storeVars

=============================================================================
