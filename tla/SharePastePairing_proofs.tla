---------------------- MODULE SharePastePairing_proofs ----------------------
(***************************************************************************)
(* Theorems about membership and pairing in the in-memory store: it        *)
(* implements GroupMembership, and a bind code is worth no more requests   *)
(* than it has attempts.                                                   *)
(***************************************************************************)
EXTENDS SharePasteStore_proofs

-----------------------------------------------------------------------------
(* The store implements GroupMembership *)

Epoch  == [g \in Groups |-> groups[g].keyVersion]
Former == {d \in Devices : devices[d] # Unregistered /\ ~Active(d)}

\* What an active device and an unregistered one are to GroupMembership.
LEMMA WhoIsWho ==
  ASSUME IInv, NEW d \in Devices
  PROVE  /\ Active(d) => d \notin Former /\ Membership!Enrolled(d)
         /\ devices[d] = Unregistered => Membership!Newcomer(d)
  <1>1. Active(d) => d \notin Former /\ Membership!Enrolled(d)
    BY ActiveGroup DEF IInv, Former, Membership!Enrolled
  <1>2. devices[d] = Unregistered => Membership!Newcomer(d)
    BY UnregisteredNowhere DEF IInv, Membership!Newcomer, Membership!Enrolled
  <1>3. QED
    BY <1>1, <1>2

\* The instance's own Cardinality is the store's.
LEMMA SameCardinality == \A S : Membership!Cardinality(S) = Cardinality(S)
  BY DEF Membership!Cardinality, Cardinality

LEMMA RefineInit == Init => Membership!Init
  <1> SUFFICES ASSUME Init PROVE Membership!Init
    OBVIOUS
  <1>1. groupDevices = [g \in Groups |-> {}]
    BY DEF Init
  <1>2. Epoch = [g \in Groups |-> 0]
    BY DEF Init, Epoch, NoGroupState
  <1>3. Former = {}
    BY DEF Init, Former
  <1>4. QED
    BY <1>1, <1>2, <1>3 DEF Membership!Init, Epoch, Former

\* A step that leaves membership, keys and activity alone.
LEMMA RefineStutter ==
  ASSUME UNCHANGED <<devices, groupDevices>>,
         \A g \in Groups : groups'[g].keyVersion = groups[g].keyVersion
  PROVE  UNCHANGED Membership!vars
  <1>1. Epoch' = Epoch
    BY DEF Epoch
  <1>2. Former' = Former
    BY DEF Former, Active
  <1>3. QED
    BY <1>1, <1>2 DEF Membership!vars, Epoch, Former

LEMMA RefineFound ==
  ASSUME IInv, NEW d \in Devices, NEW g \in Groups, RegisterNewGroup(d, g)
  PROVE  Membership!Found(d, g)
  <1>1. /\ devices[d] = Unregistered /\ groups[g].keyVersion = 0
        /\ devices' = [devices EXCEPT ![d] = [groupId |-> g, active |-> TRUE]]
        /\ groupDevices' = [groupDevices EXCEPT ![g] = {d}]
    BY DEF RegisterNewGroup, Exists, IInv, TypeOK, Group
  <1>2. Epoch' = [Epoch EXCEPT ![g] = 1]
    <2>1. /\ groups'[g].keyVersion = 1
          /\ \A h \in Groups : h # g => groups'[h] = groups[h]
      BY DEF RegisterNewGroup, IInv, TypeOK
    <2>2. QED
      BY <2>1 DEF Epoch
  <1>3. Former' = Former
    BY <1>1 DEF Former, Active, IInv, TypeOK, Unregistered
  <1>4. Membership!Newcomer(d)
    BY <1>1, WhoIsWho
  <1>5. QED
    BY <1>1, <1>2, <1>3, <1>4 DEF Membership!Found, Epoch, Former

LEMMA RefineEnrol ==
  ASSUME IInv, NEW d \in Devices, NEW g \in Groups, RegisterExistingGroup(d, g)
  PROVE  Membership!Enrol(d, g)
  <1>1. /\ devices[d] = Unregistered /\ groups[g].keyVersion > 0 /\ HasRoom(g)
        /\ devices' = [devices EXCEPT ![d] = [groupId |-> g, active |-> TRUE]]
        /\ groupDevices' = [groupDevices EXCEPT ![g] = @ \cup {d}]
        /\ groups' = groups
    BY DEF RegisterExistingGroup, Exists
  <1>2. Epoch' = Epoch
    BY <1>1 DEF Epoch
  <1>3. Former' = Former
    BY <1>1 DEF Former, Active, IInv, TypeOK, Unregistered
  <1>4. Membership!Newcomer(d)
    BY <1>1, WhoIsWho
  <1>5. Membership!Cardinality(groupDevices[g]) < MaxDevicesPerGroup
    BY <1>1, SameCardinality DEF HasRoom
  <1>6. QED
    BY <1>1, <1>2, <1>3, <1>4, <1>5 DEF Membership!Enrol, Epoch, Former

LEMMA RefineExpel ==
  ASSUME IInv, NEW d \in Devices, NEW t \in Devices, RemoveDevice(d, t)
  PROVE  Membership!Expel(t)
  <1> DEFINE g == devices[t].groupId
  <1>1. /\ Active(t) /\ groups' = groups
        /\ devices' = [devices EXCEPT ![t].active = FALSE]
        /\ groupDevices' = [groupDevices EXCEPT ![g] = @ \ {t}]
    BY DEF RemoveDevice
  <1>2. g \in Groups /\ \A h \in Groups : h # g => t \notin groupDevices[h]
    BY <1>1, ActiveGroup DEF IInv, MembershipAgrees
  <1>3. groupDevices' = [h \in Groups |-> groupDevices[h] \ {t}]
    <2>1. groupDevices \in [Groups -> SUBSET Devices]
      BY DEF IInv, TypeOK
    <2>2. \A h \in Groups : groupDevices'[h] = groupDevices[h] \ {t}
      BY <1>1, <1>2, <2>1
    <2>3. groupDevices' \in [Groups -> SUBSET Devices]
      BY <1>1, <1>2, <2>1
    <2>4. QED
      BY <2>2, <2>3
  <1>4. Epoch' = Epoch
    BY <1>1 DEF Epoch
  <1>5. Former' = Former \cup {t}
    <2>1. devices'[t].active = FALSE /\ devices'[t].groupId = g
      BY <1>1 DEF IInv, TypeOK, Device
    <2>2. devices'[t] # Unregistered
      BY <1>2, <2>1, IdsAssumption DEF Unregistered
    <2>3. \A e \in Devices : e # t => devices'[e] = devices[e]
      BY <1>1 DEF IInv, TypeOK
    <2>4. QED
      BY <2>1, <2>2, <2>3 DEF Former, Active
  <1>6. Membership!Enrolled(t)
    BY <1>1, WhoIsWho
  <1>7. QED
    BY <1>3, <1>4, <1>5, <1>6 DEF Membership!Expel, Epoch, Former

LEMMA RefineBring ==
  ASSUME IInv, IInv', NEW r \in bindRequests, ApproveBind(r)
  PROVE  \E d \in Devices, g \in Groups : Membership!Bring(d, g)
  <1>1. PICK d \in Devices, g \in Groups :
          /\ d = r.requester /\ g = devices[r.issuer].groupId
          /\ Active(d) /\ Exists(g)
    BY ActiveGroup DEF ApproveBind, IInv, TypeOK, BindRequest
  <1>2. d \in Devices /\ g \in Groups
    OBVIOUS
  <1>3. /\ HasRoom(g) /\ groupDevices' = MoveTo(d, g)
        /\ devices' = [devices EXCEPT ![d].groupId = g]
        /\ groups' = [groups EXCEPT ![g].keyVersion = groups[g].keyVersion + 1]
    BY <1>1 DEF ApproveBind
  <1>4. groupDevices' = [h \in Groups |-> IF h = g THEN groupDevices[h] \cup {d}
                                                   ELSE groupDevices[h] \ {d}]
    <2>1. Active(d) /\ TypeOK /\ MembershipAgrees
      BY <1>1 DEF IInv
    <2>2. \A h \in Groups :
            MoveTo(d, g)[h] = IF h = g THEN groupDevices[h] \cup {d}
                                       ELSE groupDevices[h] \ {d}
      BY <2>1, MovedMembers
    <2>3. \A h \in Groups : groupDevices'[h] = IF h = g THEN groupDevices[h] \cup {d}
                                                         ELSE groupDevices[h] \ {d}
      BY <1>3, <2>2
    <2>4. groupDevices' \in [Groups -> SUBSET Devices]
      BY DEF IInv, TypeOK
    <2>5. QED
      BY <2>3, <2>4
  <1>5. Epoch' = [Epoch EXCEPT ![g] = @ + 1]
    <2>1. /\ groups'[g].keyVersion = groups[g].keyVersion + 1
          /\ \A h \in Groups : h # g => groups'[h] = groups[h]
      BY <1>2, <1>3 DEF IInv, TypeOK, Group
    <2>2. QED
      BY <1>2, <2>1 DEF Epoch
  <1>6. Former' = Former
    <2>1. \A e \in Devices : e # d => devices'[e] = devices[e]
      BY <1>3 DEF IInv, TypeOK
    <2>2. devices'[d].active = devices[d].active
      BY <1>1, <1>3 DEF IInv, TypeOK, Device
    <2>3. d \notin Former /\ d \notin Former'
      BY <1>1, <2>2 DEF Former, Active
    <2>4. QED
      BY <2>1, <2>3 DEF Former, Active
  <1>7. Membership!Bring(d, g)
    <2>1. Membership!Enrolled(d)
      BY <1>1, WhoIsWho
    <2>2. Epoch[g] > 0 /\ Membership!Cardinality(groupDevices[g]) < MaxDevicesPerGroup
      BY <1>1, <1>2, <1>3, SameCardinality DEF Epoch, Exists, HasRoom
    <2>3. QED
      BY <1>4, <1>5, <1>6, <2>1, <2>2 DEF Membership!Bring, Epoch, Former
  <1>8. QED
    BY <1>7

\* Every step of the store is a step of GroupMembership, or none.
LEMMA RefineStep ==
  ASSUME IInv, IInv', [Next]_storeVars
  PROVE  [Membership!Next]_(Membership!vars)
  <1>1. ASSUME NEW d \in Devices, NEW g \in Groups, RegisterNewGroup(d, g)
        PROVE  Membership!Next
    BY <1>1, RefineFound DEF Membership!Next
  <1>2. ASSUME NEW d \in Devices, NEW g \in Groups, RegisterExistingGroup(d, g)
        PROVE  Membership!Next
    BY <1>2, RefineEnrol DEF Membership!Next
  <1>3. ASSUME NEW d \in Devices, NEW t \in Devices, RemoveDevice(d, t)
        PROVE  Membership!Next
    BY <1>3, RefineExpel DEF Membership!Next
  <1>4. ASSUME NEW r \in bindRequests, ApproveBind(r)
        PROVE  Membership!Next
    BY <1>4, RefineBring DEF Membership!Next
  <1>5. ASSUME NEW d \in Devices, NEW n \in 1 .. MaxPolicyVersion, NEW allow \in SUBSET Kinds,
               UpdatePolicy(d, n, allow)
        PROVE  UNCHANGED Membership!vars
    <2>1. \A h \in Groups : groups'[h].keyVersion = groups[h].keyVersion
      BY <1>5 DEF UpdatePolicy, IInv, TypeOK, Group
    <2>2. QED
      BY <1>5, <2>1, RefineStutter DEF UpdatePolicy
  <1>6. CASE UNCHANGED <<devices, groups, groupDevices>>
    BY <1>6, RefineStutter
  <1>7. ASSUME Next,
               ~ \E d \in Devices, g \in Groups : RegisterNewGroup(d, g),
               ~ \E d \in Devices, g \in Groups : RegisterExistingGroup(d, g),
               ~ \E d, t \in Devices : RemoveDevice(d, t),
               ~ \E r \in bindRequests : ApproveBind(r),
               ~ PolicyStep
        PROVE  UNCHANGED <<devices, groups, groupDevices>>
    BY <1>7
    DEF Next, MembershipStep, PairingStep, DeliveryStep, PresenceStep, pairingVars,
        Tick, CleanupExpired, CreateBindCode, RequestBindRefused, RequestBind,
        RejectBind, PushClipboardItem, AckItem, OpenPresence, ClosePresence, Restart
  <1>8. QED
    BY <1>1, <1>2, <1>3, <1>4, <1>5, <1>6, <1>7 DEF PolicyStep, storeVars, pairingVars

\* The store keeps the promises of GroupMembership.
THEOREM MembershipImplemented == Spec => ImplementsMembership
  <1>1. Init => Membership!Init
    BY RefineInit
  <1>2. IInv /\ IInv' /\ [Next]_storeVars => [Membership!Next]_(Membership!vars)
    BY RefineStep
  <1>3. QED
    BY <1>1, <1>2, Invariance, PTL DEF Spec, Membership!Spec, ImplementsMembership

-----------------------------------------------------------------------------
(* Attempts *)

\* The requests of R that quote code number k.
Opened(R, k) == {r \in R : r.code = k}

\* What AttemptsAccounted asks of code c when the requests are those of R.
Accounted(c, R) ==
  /\ Cardinality(Opened(R, c.code)) + c.attemptsLeft <= MaxBindAttempts
  /\ \A r \in Opened(R, c.code) : r.issuer = c.issuer /\ r.expiresAt = c.expiresAt

\* The inductive form: a number names one code, and no request quotes a number that
\* has not been given out, so that a new code has no request yet and a request
\* counts against one code only.
AttemptsInv ==
  /\ IsFiniteSet(bindRequests)
  /\ \A r \in bindRequests : r.code < nextId
  /\ \A c \in bindCodes : c.code < nextId
  /\ \A b, c \in bindCodes : b.code = c.code => b = c
  /\ \A c \in bindCodes : Accounted(c, bindRequests)

LEMMA FewerRequests ==
  ASSUME NEW c \in BindCode, NEW R, IsFiniteSet(R), NEW S \in SUBSET R, Accounted(c, R)
  PROVE  IsFiniteSet(S) /\ Accounted(c, S)
  <1>1. IsFiniteSet(S)
    BY FS_Subset
  <1>2. Opened(R, c.code) \in SUBSET R /\ Opened(S, c.code) \in SUBSET Opened(R, c.code)
    BY DEF Opened
  <1>3. IsFiniteSet(Opened(R, c.code))
    BY <1>2, FS_Subset
  <1>4. Cardinality(Opened(S, c.code)) <= Cardinality(Opened(R, c.code))
    BY <1>2, <1>3, FS_Subset
  <1>5. Cardinality(Opened(S, c.code)) \in Nat /\ Cardinality(Opened(R, c.code)) \in Nat
    BY <1>2, <1>3, FS_Subset, FS_CardinalityType
  <1>6. Cardinality(Opened(S, c.code)) + c.attemptsLeft <= MaxBindAttempts
    BY <1>4, <1>5, LimitsAssumption DEF Accounted, BindCode
  <1>7. QED
    BY <1>1, <1>2, <1>6 DEF Accounted

\* An attempt pays for a request.
LEMMA OneMoreRequest ==
  ASSUME NEW c \in BindCode, c.attemptsLeft > 0, NEW R, IsFiniteSet(R), Accounted(c, R),
         NEW r, r.code = c.code, r.issuer = c.issuer, r.expiresAt = c.expiresAt
  PROVE  Accounted([c EXCEPT !.attemptsLeft = @ - 1], R \cup {r})
  <1> DEFINE b == [c EXCEPT !.attemptsLeft = @ - 1]
             O == Opened(R, c.code)
  <1>1. /\ b.code = c.code /\ b.issuer = c.issuer /\ b.expiresAt = c.expiresAt
        /\ b.attemptsLeft = c.attemptsLeft - 1
    BY DEF BindCode
  <1>2. Opened(R \cup {r}, c.code) = O \cup {r}
    BY DEF Opened
  <1>3. O \in SUBSET R
    BY DEF Opened
  <1>4. IsFiniteSet(O)
    BY <1>3, FS_Subset
  <1>5. Cardinality(O) \in Nat
    BY <1>4, FS_CardinalityType
  <1>6. Cardinality(O \cup {r}) <= Cardinality(O) + 1
    <2> HIDE DEF O
    <2>1. Cardinality(O \cup {r}) = IF r \in O THEN Cardinality(O) ELSE Cardinality(O) + 1
      BY <1>4, FS_AddElement
    <2>2. QED
      BY <1>5, <2>1
  <1>7. Cardinality(O \cup {r}) \in Nat
    BY <1>4, FS_AddElement, FS_CardinalityType
  <1>8. Cardinality(O) + c.attemptsLeft <= MaxBindAttempts
    BY DEF Accounted
  <1>9. Cardinality(O \cup {r}) + b.attemptsLeft <= MaxBindAttempts
    BY <1>1, <1>5, <1>6, <1>7, <1>8, LimitsAssumption DEF BindCode
  <1>10. \A q \in O \cup {r} : q.issuer = b.issuer /\ q.expiresAt = b.expiresAt
    BY <1>1 DEF Accounted
  <1>11. QED
    BY <1>1, <1>2, <1>9, <1>10 DEF Accounted

\* An attempt that bought nothing.
LEMMA WastedAttempt ==
  ASSUME NEW c \in BindCode, c.attemptsLeft > 0, NEW R, IsFiniteSet(R), Accounted(c, R)
  PROVE  Accounted([c EXCEPT !.attemptsLeft = @ - 1], R)
  <1> DEFINE b == [c EXCEPT !.attemptsLeft = @ - 1]
  <1>1. /\ b.code = c.code /\ b.issuer = c.issuer /\ b.expiresAt = c.expiresAt
        /\ b.attemptsLeft = c.attemptsLeft - 1
    BY DEF BindCode
  <1>2. Opened(R, c.code) \in SUBSET R
    BY DEF Opened
  <1>3. Cardinality(Opened(R, c.code)) \in Nat
    BY <1>2, FS_Subset, FS_CardinalityType
  <1>4. Cardinality(Opened(R, c.code)) + b.attemptsLeft <= MaxBindAttempts
    BY <1>1, <1>3, LimitsAssumption DEF Accounted, BindCode
  <1>5. QED
    BY <1>1, <1>4 DEF Accounted

\* Codes and requests only disappear.
LEMMA AttemptsShrink ==
  ASSUME TypeOK, AttemptsInv, nextId' = nextId,
         bindCodes' \subseteq bindCodes, bindRequests' \subseteq bindRequests
  PROVE  AttemptsInv'
  <1>1. IsFiniteSet(bindRequests')
    BY FS_Subset DEF AttemptsInv
  <1>2. \A c \in bindCodes' : Accounted(c, bindRequests')
    BY FewerRequests DEF AttemptsInv, TypeOK
  <1>3. QED
    BY <1>1, <1>2 DEF AttemptsInv

LEMMA AttemptsCreate ==
  ASSUME TypeOK, AttemptsInv, NEW d \in Devices, CreateBindCode(d)
  PROVE  AttemptsInv'
  <1> DEFINE n == [code |-> nextId, issuer |-> d, expiresAt |-> now + BindTtl,
                   attemptsLeft |-> MaxBindAttempts]
  <1>1. /\ bindCodes' = LiveCodes \cup {n} /\ bindRequests' = LiveRequests
        /\ nextId' = nextId + 1
    BY DEF CreateBindCode
  <1>2. LiveCodes \subseteq bindCodes /\ bindRequests' \in SUBSET bindRequests
    BY <1>1, LiveEntries
  <1>3. IsFiniteSet(bindRequests')
    BY <1>2, FS_Subset DEF AttemptsInv
  <1>4. \A c \in LiveCodes : Accounted(c, bindRequests')
    BY <1>2, FewerRequests DEF AttemptsInv, TypeOK
  <1>5. Accounted(n, bindRequests')
    <2>1. Opened(bindRequests', n.code) = {}
      BY <1>2 DEF Opened, AttemptsInv, TypeOK, BindRequest
    <2>2. Cardinality({}) = 0
      BY FS_EmptySet
    <2>3. QED
      BY <2>1, <2>2, LimitsAssumption DEF Accounted
  <1>6. \A r \in bindRequests' : r.code < nextId'
    BY <1>1, <1>2 DEF AttemptsInv, TypeOK, BindRequest
  <1>7. \A c \in bindCodes' : c.code < nextId'
    BY <1>1, <1>2 DEF AttemptsInv, TypeOK, BindCode
  <1>8. \A b, c \in bindCodes' : b.code = c.code => b = c
    BY <1>1, <1>2 DEF AttemptsInv, TypeOK, BindCode
  <1>9. \A c \in bindCodes' : Accounted(c, bindRequests')
    BY <1>1, <1>4, <1>5
  <1>10. QED
    BY <1>3, <1>6, <1>7, <1>8, <1>9 DEF AttemptsInv

\* One attempt of code c is spent; the requests of other codes stay or disappear.
LEMMA AttemptsSpend ==
  ASSUME TypeOK, AttemptsInv, NEW c \in LiveCodes, bindCodes' = SpendAttempt(c),
         nextId' \in {nextId, nextId + 1},
         IsFiniteSet(bindRequests'), \A r \in bindRequests' : r.code < nextId',
         \A r \in bindRequests' : r \in bindRequests \/ r.code = c.code,
         Accounted([c EXCEPT !.attemptsLeft = @ - 1], bindRequests')
  PROVE  AttemptsInv'
  <1> DEFINE s == [c EXCEPT !.attemptsLeft = @ - 1]
  <1>1. /\ LiveCodes \subseteq bindCodes /\ c \in BindCode
        /\ bindCodes' = (LiveCodes \ {c}) \cup {s}
    BY LiveEntries DEF SpendAttempt
  <1>2. s.code = c.code
    BY <1>1 DEF BindCode
  <1>3. \A b \in LiveCodes \ {c} : b \in BindCode /\ b.code # c.code
    BY <1>1 DEF AttemptsInv, TypeOK
  <1>4. ASSUME NEW b \in LiveCodes \ {c}
        PROVE  Accounted(b, bindRequests')
    <2> DEFINE R == {r \in bindRequests' : r \in bindRequests}
    <2>1. R \in SUBSET bindRequests /\ Accounted(b, bindRequests) /\ IsFiniteSet(bindRequests)
      BY <1>1 DEF AttemptsInv
    <2>2. Accounted(b, R)
      BY <1>3, <2>1, FewerRequests
    <2>3. Opened(R, b.code) = Opened(bindRequests', b.code)
      BY <1>3 DEF Opened
    <2>4. QED
      BY <2>2, <2>3 DEF Accounted
  <1>5. \A b \in bindCodes' : Accounted(b, bindRequests')
    BY <1>1, <1>4
  <1>6. \A b \in bindCodes' : b.code < nextId'
    <2>1. \A b \in LiveCodes : b.code \in Nat /\ b.code < nextId /\ nextId \in Nat
      BY <1>1 DEF AttemptsInv, TypeOK, BindCode
    <2>2. \A b \in LiveCodes : b.code < nextId'
      BY <2>1
    <2>3. QED
      BY <1>1, <1>2, <2>2
  <1>7. \A a, b \in bindCodes' : a.code = b.code => a = b
    BY <1>1, <1>2, <1>3 DEF AttemptsInv
  <1>8. QED
    BY <1>5, <1>6, <1>7 DEF AttemptsInv

LEMMA AttemptsRefused ==
  ASSUME TypeOK, AttemptsInv, NEW d \in Devices, NEW c \in bindCodes,
         RequestBindRefused(d, c)
  PROVE  AttemptsInv'
  <1>1. /\ c \in LiveCodes /\ c \in BindCode /\ c.attemptsLeft > 0
        /\ bindCodes' = SpendAttempt(c) /\ nextId' = nextId
        /\ bindRequests' \in SUBSET bindRequests
    BY LiveEntries DEF RequestBindRefused
  <1>2. IsFiniteSet(bindRequests') /\ Accounted(c, bindRequests')
    BY <1>1, FewerRequests DEF AttemptsInv
  <1>3. Accounted([c EXCEPT !.attemptsLeft = @ - 1], bindRequests')
    BY <1>1, <1>2, WastedAttempt
  <1>4. \A r \in bindRequests' : r.code < nextId'
    BY <1>1 DEF AttemptsInv
  <1>5. QED
    BY <1>1, <1>2, <1>3, <1>4, AttemptsSpend

LEMMA AttemptsRequest ==
  ASSUME TypeOK, AttemptsInv, NEW d \in Devices, NEW c \in bindCodes, RequestBind(d, c)
  PROVE  AttemptsInv'
  <1> DEFINE n == [id |-> nextId, code |-> c.code, issuer |-> c.issuer, requester |-> d,
                   expiresAt |-> c.expiresAt]
  <1>1. /\ c \in LiveCodes /\ c \in BindCode /\ c.attemptsLeft > 0
        /\ bindCodes' = SpendAttempt(c) /\ nextId' = nextId + 1
        /\ LiveRequests \in SUBSET bindRequests
        /\ bindRequests' = LiveRequests \cup {n}
    BY LiveEntries DEF RequestBind
  <1>2. IsFiniteSet(LiveRequests) /\ Accounted(c, LiveRequests)
    BY <1>1, FewerRequests DEF AttemptsInv
  <1>3. IsFiniteSet(bindRequests')
    <2> HIDE DEF n
    <2>1. IsFiniteSet(LiveRequests \cup {n})
      BY <1>2, FS_AddElement
    <2>2. QED
      BY <1>1, <2>1
  <1>4. Accounted([c EXCEPT !.attemptsLeft = @ - 1], bindRequests')
    <2>1. n.code = c.code /\ n.issuer = c.issuer /\ n.expiresAt = c.expiresAt
      OBVIOUS
    <2> HIDE DEF n
    <2>2. QED
      BY <1>1, <1>2, <2>1, OneMoreRequest
  <1>5. \A r \in bindRequests' : r.code < nextId'
    BY <1>1 DEF AttemptsInv, TypeOK, BindRequest, BindCode
  <1>6. \A r \in bindRequests' : r \in bindRequests \/ r.code = c.code
    BY <1>1
  <1>7. QED
    BY <1>1, <1>3, <1>4, <1>5, <1>6, AttemptsSpend

LEMMA StepAttempts == TypeOK /\ AttemptsInv /\ [Next]_storeVars => AttemptsInv'
  <1> SUFFICES ASSUME TypeOK, AttemptsInv, [Next]_storeVars PROVE AttemptsInv'
    OBVIOUS
  <1>1. CASE nextId' = nextId /\ bindCodes' \subseteq bindCodes
             /\ bindRequests' \subseteq bindRequests
    BY <1>1, AttemptsShrink
  <1>2. ASSUME NEW d \in Devices, CreateBindCode(d)
        PROVE  AttemptsInv'
    BY <1>2, AttemptsCreate
  <1>3. ASSUME NEW d \in Devices, NEW c \in bindCodes, RequestBindRefused(d, c)
        PROVE  AttemptsInv'
    BY <1>3, AttemptsRefused
  <1>4. ASSUME NEW d \in Devices, NEW c \in bindCodes, RequestBind(d, c)
        PROVE  AttemptsInv'
    BY <1>4, AttemptsRequest
  <1>5. ASSUME Next,
               ~ \E d \in Devices : CreateBindCode(d),
               ~ \E d \in Devices, c \in bindCodes : RequestBindRefused(d, c),
               ~ \E d \in Devices, c \in bindCodes : RequestBind(d, c)
        PROVE  nextId' = nextId /\ bindCodes' \subseteq bindCodes
               /\ bindRequests' \subseteq bindRequests
    BY <1>5, LiveEntries
    DEF Next, MembershipStep, PairingStep, PolicyStep, DeliveryStep, PresenceStep,
        pairingVars, Sweep, CleanupExpired, RegisterNewGroup, RegisterExistingGroup,
        RemoveDevice, RejectBind, ApproveBind, UpdatePolicy, PushClipboardItem,
        AckItem, OpenPresence, ClosePresence, Restart, Tick
  <1>6. QED
    BY <1>1, <1>2, <1>3, <1>4, <1>5 DEF storeVars, pairingVars

\* However requests, refusals, rejections and sweeps interleave, a bind code never
\* opens more requests than it had attempts, and they die with it.
THEOREM AttemptsCorrect == Spec => []AttemptsAccounted
  <1>1. Init => AttemptsInv
    BY FS_EmptySet DEF Init, AttemptsInv
  <1>2. TypeOK /\ AttemptsInv /\ [Next]_storeVars => AttemptsInv'
    BY StepAttempts
  <1>3. AttemptsInv => AttemptsAccounted
    BY DEF AttemptsInv, AttemptsAccounted, Accounted, Opened
  <1>4. IInv => TypeOK
    BY DEF IInv
  <1>5. QED
    BY <1>1, <1>2, <1>3, <1>4, Invariance, PTL DEF Spec
=============================================================================
