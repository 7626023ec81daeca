------------------------ MODULE DurableStore_proofs ------------------------
(***************************************************************************)
(* Theorems about the store in durable mode, for any number of calls, of   *)
(* crashes and of writes that overtake one another.                        *)
(***************************************************************************)
EXTENDS DurableStore, TLAPS

-----------------------------------------------------------------------------
(* Types *)

LEMMA InitType == Init => TypeOK
  <1> SUFFICES ASSUME Init PROVE TypeOK
    OBVIOUS
  <1>1. stage \in [Calls -> Stages] /\ snapshot \in [Calls -> SUBSET Changes]
    BY DEF Init, Stages
  <1>2. expiring \in BOOLEAN /\ overtaken \in BOOLEAN
    BY DEF Init
  <1>3. QED
    BY <1>1, <1>2 DEF Init, TypeOK

\* Every step keeps the type of every variable.
LEMMA StepType == TypeOK /\ [Next]_durableVars => TypeOK'
  <1> SUFFICES ASSUME TypeOK, [Next]_durableVars PROVE TypeOK'
    OBVIOUS
  <1> USE DurableAssumption DEF TypeOK, Move, Stages, limitVars, tableVars, Calls, Changes
  <1>1. ASSUME NEW c \in Limited, Incr(c)
        PROVE  TypeOK'
    BY <1>1 DEF Incr
  <1>2. ASSUME NEW c \in Limited, Expire(c)
        PROVE  TypeOK'
    BY <1>2 DEF Expire
  <1>3. ASSUME NEW c \in Limited, LimitFails(c)
        PROVE  TypeOK'
    BY <1>3 DEF LimitFails
  <1>4. CASE WindowEnds
    BY <1>4 DEF WindowEnds
  <1>5. ASSUME NEW c \in Changes, Change(c)
        PROVE  TypeOK'
    BY <1>5 DEF Change, Exported
  <1>6. ASSUME NEW c \in Changes, ChangeRefused(c)
        PROVE  TypeOK'
    BY <1>6 DEF ChangeRefused
  <1>7. ASSUME NEW c \in Presence, ChangePresence(c)
        PROVE  TypeOK'
    BY <1>7 DEF ChangePresence
  <1>8. ASSUME NEW c \in Presence, PresenceTouched(c)
        PROVE  TypeOK'
    BY <1>8 DEF PresenceTouched
  <1>9. ASSUME NEW c \in Calls, SaveLands(c)
        PROVE  TypeOK'
    BY <1>9 DEF SaveLands, Write, Release
  <1>10. ASSUME NEW c \in Calls, SaveFails(c)
         PROVE  TypeOK'
    BY <1>10 DEF SaveFails, Write, Release
  <1>11. ASSUME NEW c \in Calls, Audited(c)
         PROVE  TypeOK'
    BY <1>11 DEF Audited
  <1>12. ASSUME NEW c \in Calls, AuditFails(c)
         PROVE  TypeOK'
    BY <1>12 DEF AuditFails
  <1>13. CASE Crash
    <2>1. /\ persisted' = NoSnapshot \/ persisted' \in SUBSET Changes
          /\ saved' \in SUBSET Changes
          /\ overtaken' \in BOOLEAN
      BY <1>13 DEF Crash, Write
    <2>2. memory' \in SUBSET Changes
      BY <1>13, <2>1 DEF Crash, FromSnapshot, Content
    <2>3. QED
      BY <1>13, <2>1, <2>2 DEF Crash
  <1>14. CASE UNCHANGED durableVars
    BY <1>14 DEF durableVars
  <1>15. QED
    BY <1>1, <1>2, <1>3, <1>4, <1>5, <1>6, <1>7, <1>8, <1>9, <1>10, <1>11, <1>12,
       <1>13, <1>14 DEF Next, LimitStep, ChangeStep, SaveStep

\* Every variable has its type, in every reachable state.
THEOREM TypeCorrect == Spec => []TypeOK
  BY InitType, StepType, PTL DEF Spec

-----------------------------------------------------------------------------
(* The rate limit *)

\* Why the limit holds: a call that has yet to set the time to live is the only one,
\* it has been counted, and it has not been let pass; so there is room for it.
LimitInv ==
  /\ granted <= counter
  /\ granted <= MaxPerMinute
  /\ \A c \in Calls : stage[c] = "expire" =>
       /\ ~expiring
       /\ granted < counter
       /\ granted < MaxPerMinute
       /\ \A e \in Calls : stage[e] = "expire" => e = c
  /\ expiring => counter > 0

LEMMA InitLimit == Init => LimitInv
  BY DurableAssumption DEF Init, LimitInv

\* A call that leaves the counter alone and does not enter "expire" keeps LimitInv.
LEMMA LimitUntouched ==
  ASSUME LimitInv, UNCHANGED limitVars,
         \A c \in Calls : stage'[c] = "expire" => stage[c] = "expire"
  PROVE  LimitInv'
  BY DEF LimitInv, limitVars

LEMMA StepLimit == TypeOK /\ LimitInv /\ [Next]_durableVars => LimitInv'
  <1> SUFFICES ASSUME TypeOK, LimitInv, [Next]_durableVars PROVE LimitInv'
    OBVIOUS
  <1>0. /\ MaxPerMinute \in Nat /\ MaxPerMinute > 0
        /\ Limited \subseteq Calls /\ Changes \subseteq Calls /\ Presence \subseteq Calls
    BY DurableAssumption DEF Calls, Changes
  <1>t. /\ counter \in Nat /\ granted \in Nat /\ expiring \in BOOLEAN
        /\ stage \in [Calls -> Stages]
    BY DEF TypeOK
  <1>1. ASSUME NEW c \in Limited, Incr(c)
        PROVE  LimitInv'
    <2>1. CASE counter = 0
      BY <1>1, <2>1, <1>0, <1>t DEF Incr, LimitInv, Move
    <2>2. CASE counter > 0
      BY <1>1, <2>2, <1>0, <1>t DEF Incr, LimitInv, Move, WithinLimit
    <2>3. QED
      BY <2>1, <2>2, <1>t
  <1>2. ASSUME NEW c \in Limited, Expire(c)
        PROVE  LimitInv'
    BY <1>2, <1>0, <1>t DEF Expire, LimitInv, Move
  <1>3. ASSUME NEW c \in Limited, LimitFails(c)
        PROVE  LimitInv'
    BY <1>3, <1>0, <1>t DEF LimitFails, LimitInv, Move
  <1>4. CASE WindowEnds
    BY <1>4, <1>0, <1>t DEF WindowEnds, LimitInv
  <1>5. CASE ChangeStep
    BY <1>5, <1>0, <1>t, LimitUntouched
       DEF ChangeStep, Change, ChangeRefused, ChangePresence, PresenceTouched, Move
  <1>6. CASE SaveStep
    BY <1>6, <1>0, <1>t, LimitUntouched
       DEF SaveStep, SaveLands, SaveFails, Audited, AuditFails, Move
  <1>7. CASE Crash
    BY <1>7, <1>0, <1>t, LimitUntouched DEF Crash, UnderWay
  <1>8. CASE UNCHANGED durableVars
    BY <1>8, LimitUntouched DEF durableVars, limitVars
  <1>9. QED
    BY <1>1, <1>2, <1>3, <1>4, <1>5, <1>6, <1>7, <1>8 DEF Next, LimitStep

\* Between two moments at which the counter is gone, no more than MaxPerMinute calls
\* pass the rate limit.
THEOREM LimitCorrect == Spec => []LimitKept
  <1>1. LimitInv => LimitKept
    BY DEF LimitInv, LimitKept
  <1>2. QED
    BY <1>1, InitType, StepType, InitLimit, StepLimit, PTL DEF Spec

-----------------------------------------------------------------------------
(* Snapshots *)

\* What a change saves includes the change.
SavesItsChange == \A c \in Changes : Saving(c) => c \in snapshot[c]

SnapshotInv ==
  /\ SnapshotsOfThePast
  /\ SavesItsChange
  /\ ConfirmedWasSaved
  /\ OnlyOvertakingLoses

LEMMA ContentOfRow == \A S \in SUBSET Changes : Content(S) = S
  BY DurableAssumption DEF Content, Calls

LEMMA ContentOfNoRow == Content(NoSnapshot) = {}
  BY DEF Content

LEMMA ContentIsSet == TypeOK => Content(persisted) \in SUBSET Changes
  BY ContentOfRow, ContentOfNoRow DEF TypeOK

LEMMA InitSnapshot == Init => SnapshotInv
  BY ContentOfNoRow
     DEF Init, SnapshotInv, SnapshotsOfThePast, SavesItsChange, ConfirmedWasSaved,
         OnlyOvertakingLoses, Saving, Calls

\* A step that leaves memory and the table alone, starts no save, and confirms
\* nothing that was not confirmed, keeps SnapshotInv.
LEMMA SnapshotUntouched ==
  ASSUME SnapshotInv, UNCHANGED <<memory, persisted, saved, overtaken>>,
         \A c \in Calls : Saving(c)' => Saving(c) /\ snapshot'[c] = snapshot[c],
         \A c \in Changes :
           stage'[c] \in {"audit", "done"} => stage[c] \in {"audit", "done"}
  PROVE  SnapshotInv'
  <1>1. SnapshotsOfThePast'
    BY DEF SnapshotInv, SnapshotsOfThePast, Saving
  <1>2. SavesItsChange'
    BY DEF SnapshotInv, SavesItsChange, Saving, Calls
  <1>3. ConfirmedWasSaved' /\ OnlyOvertakingLoses'
    BY DEF SnapshotInv, ConfirmedWasSaved, OnlyOvertakingLoses
  <1>4. QED
    BY <1>1, <1>2, <1>3 DEF SnapshotInv

\* A snapshot taken of the memory as it is after a step, which added to it.
LEMMA SnapshotTaken ==
  ASSUME TypeOK, SnapshotInv, NEW c \in Calls,
         memory \subseteq memory', c \in Changes => c \in memory',
         snapshot' = [snapshot EXCEPT ![c] = memory'],
         stage' = [stage EXCEPT ![c] = "saving"],
         UNCHANGED <<persisted, saved, overtaken>>
  PROVE  SnapshotInv'
  <1>t. /\ stage \in [Calls -> Stages]
        /\ snapshot \in [Calls -> SUBSET Changes]
        /\ Changes \subseteq Calls
    BY DEF TypeOK, Calls
  <1>1. /\ \A e \in Calls : Saving(e)' => e = c \/ (Saving(e) /\ snapshot'[e] = snapshot[e])
        /\ snapshot'[c] = memory'
    BY <1>t DEF Saving
  <1>2. SnapshotsOfThePast'
    <2>1. \A e \in Calls : Saving(e)' => snapshot'[e] \subseteq memory'
      BY <1>1 DEF SnapshotInv, SnapshotsOfThePast
    <2>2. Content(persisted)' \subseteq memory'
      BY DEF SnapshotInv, SnapshotsOfThePast
    <2>3. ASSUME NEW e \in Calls, Saving(e)'
          PROVE  \/ snapshot'[e] \subseteq Content(persisted)'
                 \/ Content(persisted)' \subseteq snapshot'[e]
      BY <1>1, <2>2, <2>3 DEF SnapshotInv, SnapshotsOfThePast
    <2>4. ASSUME NEW e \in Calls, NEW f \in Calls, Saving(e)', Saving(f)'
          PROVE  snapshot'[e] \subseteq snapshot'[f] \/ snapshot'[f] \subseteq snapshot'[e]
      <3>1. CASE e = c \/ f = c
        BY <1>1, <2>1, <2>4, <3>1
      <3>2. CASE e # c /\ f # c
        BY <1>1, <2>4, <3>2 DEF SnapshotInv, SnapshotsOfThePast
      <3>3. QED
        BY <3>1, <3>2
    <2>5. QED
      BY <2>1, <2>2, <2>3, <2>4 DEF SnapshotsOfThePast
  <1>3. SavesItsChange'
    BY <1>1, <1>t DEF SnapshotInv, SavesItsChange
  <1>4. ConfirmedWasSaved' /\ OnlyOvertakingLoses'
    BY <1>t DEF SnapshotInv, ConfirmedWasSaved, OnlyOvertakingLoses
  <1>5. QED
    BY <1>2, <1>3, <1>4 DEF SnapshotInv

\* A snapshot that reaches the table, from a call that is no longer saving after it.
LEMMA SnapshotWritten ==
  ASSUME TypeOK, SnapshotInv, NEW c \in Calls, Saving(c), Write(snapshot[c]),
         UNCHANGED memory,
         \A e \in Calls : Saving(e)' => Saving(e) /\ snapshot'[e] = snapshot[e],
         \A e \in Changes :
           stage'[e] \in {"audit", "done"} => e = c \/ stage[e] \in {"audit", "done"}
  PROVE  SnapshotInv'
  <1>1. /\ snapshot[c] \in SUBSET Changes
        /\ Content(persisted)' = snapshot[c]
        /\ saved' = saved \cup snapshot[c]
        /\ ~overtaken' => ~overtaken /\ Content(persisted) \subseteq snapshot[c]
    BY ContentOfRow DEF Write, TypeOK, Content
  <1>2. SnapshotsOfThePast'
    BY <1>1 DEF SnapshotInv, SnapshotsOfThePast
  <1>3. SavesItsChange'
    BY DEF SnapshotInv, SavesItsChange, Calls
  <1>4. c \in Changes => c \in snapshot[c]
    BY DEF SnapshotInv, SavesItsChange
  <1>5. ConfirmedWasSaved'
    BY <1>1, <1>4 DEF SnapshotInv, ConfirmedWasSaved
  <1>6. OnlyOvertakingLoses'
    BY <1>1, <1>4 DEF SnapshotInv, OnlyOvertakingLoses
  <1>7. QED
    BY <1>2, <1>3, <1>5, <1>6 DEF SnapshotInv

LEMMA CrashKeepsSnapshots == TypeOK /\ SnapshotInv /\ Crash => SnapshotInv'
  <1> SUFFICES ASSUME TypeOK, SnapshotInv, Crash PROVE SnapshotInv'
    OBVIOUS
  <1>1. /\ \A c \in Calls : ~Saving(c)'
        /\ \A c \in Changes :
             stage'[c] \in {"audit", "done"} => stage[c] \in {"audit", "done"}
    BY DEF Crash, UnderWay, Saving, Calls
  <1>2. /\ saved \subseteq saved'
        /\ ~overtaken' => ~overtaken /\ Content(persisted) \subseteq Content(persisted)'
    <2>1. CASE UNCHANGED tableVars
      BY <2>1 DEF tableVars
    <2>2. ASSUME NEW c \in Calls, Write(snapshot[c])
          PROVE  /\ saved \subseteq saved'
                 /\ ~overtaken' => ~overtaken /\ Content(persisted) \subseteq Content(persisted)'
      BY <2>2, ContentOfRow DEF Write, TypeOK, Content
    <2>3. QED
      BY <2>1, <2>2 DEF Crash
  <1>3. SnapshotsOfThePast' /\ SavesItsChange'
    BY <1>1 DEF Crash, FromSnapshot, SnapshotsOfThePast, SavesItsChange, Calls
  <1>4. ConfirmedWasSaved' /\ OnlyOvertakingLoses'
    BY <1>1, <1>2 DEF SnapshotInv, ConfirmedWasSaved, OnlyOvertakingLoses
  <1>5. QED
    BY <1>3, <1>4 DEF SnapshotInv

LEMMA StepSnapshot == TypeOK /\ SnapshotInv /\ [Next]_durableVars => SnapshotInv'
  <1> SUFFICES ASSUME TypeOK, SnapshotInv, [Next]_durableVars PROVE SnapshotInv'
    OBVIOUS
  <1>t. /\ stage \in [Calls -> Stages]
        /\ snapshot \in [Calls -> SUBSET Changes]
        /\ Limited \subseteq Calls /\ Changes \subseteq Calls /\ Presence \subseteq Calls
    BY DEF TypeOK, Calls, Changes
  <1>p. \A c \in Presence : c \notin Changes
    BY DurableAssumption
  <1>1. CASE LimitStep
    BY <1>1, <1>t, SnapshotUntouched
       DEF LimitStep, Incr, Expire, LimitFails, WindowEnds, Move, Saving, tableVars
  <1>2. ASSUME NEW c \in Changes, Change(c)
        PROVE  SnapshotInv'
    BY <1>2, <1>t, SnapshotTaken DEF Change, Exported, Move, tableVars
  <1>3. ASSUME NEW c \in Changes, ChangeRefused(c)
        PROVE  SnapshotInv'
    BY <1>3, <1>t, SnapshotUntouched DEF ChangeRefused, Move, Saving, tableVars
  <1>4. ASSUME NEW c \in Presence, ChangePresence(c)
        PROVE  SnapshotInv'
    BY <1>4, <1>t, SnapshotUntouched DEF ChangePresence, Move, Saving, tableVars
  <1>5. ASSUME NEW c \in Presence, PresenceTouched(c)
        PROVE  SnapshotInv'
    BY <1>5, <1>t, <1>p, SnapshotTaken DEF PresenceTouched, Move, tableVars
  <1>6. ASSUME NEW c \in Calls, SaveLands(c)
        PROVE  SnapshotInv'
    <2>1. /\ Saving(c)
          /\ \A e \in Calls : Saving(e)' => Saving(e) /\ snapshot'[e] = snapshot[e]
          /\ \A e \in Changes :
               stage'[e] \in {"audit", "done"} => e = c \/ stage[e] \in {"audit", "done"}
      BY <1>6, <1>t DEF SaveLands, Move, Release, Saving
    <2>2. QED
      BY <1>6, <2>1, SnapshotWritten DEF SaveLands
  <1>7. ASSUME NEW c \in Calls, SaveFails(c)
        PROVE  SnapshotInv'
    <2>1. /\ Saving(c)
          /\ \A e \in Calls : Saving(e)' => Saving(e) /\ snapshot'[e] = snapshot[e]
          /\ \A e \in Changes :
               stage'[e] \in {"audit", "done"} => stage[e] \in {"audit", "done"}
      BY <1>7, <1>t DEF SaveFails, Move, Release, Saving
    <2>2. CASE Write(snapshot[c])
      BY <1>7, <2>1, <2>2, SnapshotWritten DEF SaveFails
    <2>3. CASE UNCHANGED tableVars
      BY <1>7, <2>1, <2>3, SnapshotUntouched DEF SaveFails, tableVars
    <2>4. QED
      BY <1>7, <2>2, <2>3 DEF SaveFails
  <1>8. ASSUME NEW c \in Calls, Audited(c) \/ AuditFails(c)
        PROVE  SnapshotInv'
    BY <1>8, <1>t, SnapshotUntouched DEF Audited, AuditFails, Move, Saving, tableVars
  <1>9. CASE Crash
    BY <1>9, CrashKeepsSnapshots
  <1>10. CASE UNCHANGED durableVars
    BY <1>10, SnapshotUntouched DEF durableVars, Saving
  <1>11. QED
    BY <1>1, <1>2, <1>3, <1>4, <1>5, <1>6, <1>7, <1>8, <1>9, <1>10
       DEF Next, ChangeStep, SaveStep

LEMMA SnapshotsCorrect == Spec => []SnapshotInv
  BY InitType, StepType, InitSnapshot, StepSnapshot, PTL DEF Spec

\* Every snapshot under way or in the table is a past of the memory.
THEOREM PastCorrect == Spec => []SnapshotsOfThePast
  <1>1. SnapshotInv => SnapshotsOfThePast
    BY DEF SnapshotInv
  <1>2. QED
    BY <1>1, SnapshotsCorrect, PTL

\* No caller is told of success before its change has been written.
THEOREM ConfirmationCorrect == Spec => []ConfirmedWasSaved
  <1>1. SnapshotInv => ConfirmedWasSaved
    BY DEF SnapshotInv
  <1>2. QED
    BY <1>1, SnapshotsCorrect, PTL

\* Without an older snapshot landing on a newer one, nothing confirmed is lost.
THEOREM LossCorrect == Spec => []OnlyOvertakingLoses
  <1>1. SnapshotInv => OnlyOvertakingLoses
    BY DEF SnapshotInv
  <1>2. QED
    BY <1>1, SnapshotsCorrect, PTL

=============================================================================
