---------------------------- MODULE DurableStore ----------------------------
(***************************************************************************)
(* The store the server runs in durable mode: DurableSharePasteStore in    *)
(* apps/server/src/store/durable-sharepaste-store.ts, with the Postgres    *)
(* table it keeps its snapshot in and the Redis counters of its rate limit.*)
(*                                                                         *)
(* A call changes the store in memory, exports a snapshot of the whole of  *)
(* it in the same turn of the event loop, and then waits: for the snapshot *)
(* to be written, for the audit record, for Redis.  Other calls run        *)
(* meanwhile, each with a write of its own on a connection of the pool, so *)
(* writes may land in any order.  A crash loses memory; the next start     *)
(* loads what the table holds.                                             *)
(*                                                                         *)
(* What SharePasteStore keeps is abstracted to the set of calls that have  *)
(* changed it.  Each call is made once.  Whatever fails may have been done *)
(* before its answer was lost.  The presence keys in Redis are left out:   *)
(* nothing reads them and failures to write them are swallowed.            *)
(***************************************************************************)
EXTENDS Integers, FiniteSets

CONSTANTS
  Limited,       \* calls of createBindCode or requestBind by one device
  Plain,         \* calls of the other methods that end in withPersist
  Presence,      \* calls of openPresence and closePresence
  NoSnapshot,    \* the table has no row
  MaxPerMinute,  \* CREATE_BIND_MAX_PER_MINUTE (20), REQUEST_BIND_MAX_PER_MINUTE (30)
  MaxCrashes     \* bound of the model: crashes of the server

Changes == Limited \cup Plain
Calls   == Changes \cup Presence

ASSUME DurableAssumption ==
  /\ Limited \cap Plain = {}
  /\ Changes \cap Presence = {}
  /\ MaxPerMinute \in Nat \ {0}
  /\ MaxCrashes \in Nat
  /\ \A S \in SUBSET Calls : S # NoSnapshot

VARIABLES
  memory,     \* the calls that have changed the inner store
  stage,      \* how far each call has got
  snapshot,   \* what each call that is saving has exported
  persisted,  \* snapshot_json of the row of sharepaste_state, or NoSnapshot
  counter,    \* the rate-limit counter in Redis
  expiring,   \* the counter has a time to live
  crashes,    \* how often the server has crashed
  granted,    \* history: calls the rate limit let pass since the counter was 0
  saved,      \* history: the calls any snapshot written so far was taken after
  overtaken   \* history: an older snapshot has been written over a newer one

durableVars == <<memory, stage, snapshot, persisted, counter, expiring, crashes,
                 granted, saved, overtaken>>
limitVars   == <<counter, expiring, granted>>
tableVars   == <<persisted, saved, overtaken>>

Stages == {"new", "expire", "allowed", "touch", "saving", "audit", "done", "failed"}

UnderWay(c) == stage[c] \notin {"new", "done", "failed"}

Content(p) == IF p = NoSnapshot THEN {} ELSE p

\* Every variable has its type.
TypeOK ==
  /\ memory \in SUBSET Changes
  /\ stage \in [Calls -> Stages]
  /\ snapshot \in [Calls -> SUBSET Changes]
  /\ persisted = NoSnapshot \/ persisted \in SUBSET Changes
  /\ counter \in Nat
  /\ expiring \in BOOLEAN
  /\ crashes \in Nat
  /\ granted \in Nat
  /\ saved \in SUBSET Changes
  /\ overtaken \in BOOLEAN

-----------------------------------------------------------------------------
(* The rate limit *)

Move(c, to) == stage' = [stage EXCEPT ![c] = to]

\* Mutant: one call too many passes.
WithinLimitOffByOne(n) == n <= MaxPerMinute + 1

WithinLimit(n) == n <= MaxPerMinute

\* consumeRateLimit: INCR, which starts a counter at 1.
Incr(c) ==
  /\ stage[c] = "new"
  /\ counter' = counter + 1
  /\ \/ counter = 0 /\ Move(c, "expire") /\ UNCHANGED granted
     \/ counter > 0 /\ WithinLimit(counter') /\ Move(c, "allowed") /\ granted' = granted + 1
     \/ counter > 0 /\ ~WithinLimit(counter') /\ Move(c, "failed") /\ UNCHANGED granted
  /\ UNCHANGED <<memory, snapshot, tableVars, expiring, crashes>>

\* EXPIRE, by the call that found the counter at 1.
Expire(c) ==
  /\ stage[c] = "expire"
  /\ expiring' = TRUE
  /\ granted' = granted + 1
  /\ Move(c, "allowed")
  /\ UNCHANGED <<memory, snapshot, tableVars, counter, crashes>>

\* Redis does not answer: consumeRateLimit rejects, and the call with it.
LimitFails(c) ==
  /\ \/ stage[c] = "new" /\ counter' \in {counter, counter + 1} /\ UNCHANGED expiring
     \/ stage[c] = "expire" /\ expiring' \in BOOLEAN /\ UNCHANGED counter
  /\ Move(c, "failed")
  /\ UNCHANGED <<memory, snapshot, tableVars, crashes, granted>>

\* The minute is over, and Redis drops the counter.
WindowEnds ==
  /\ expiring
  /\ counter' = 0
  /\ expiring' = FALSE
  /\ granted' = 0
  /\ UNCHANGED <<memory, stage, snapshot, tableVars, crashes>>

-----------------------------------------------------------------------------
(* withPersist *)

MayRun(c) == stage[c] = IF c \in Limited THEN "allowed" ELSE "new"

\* Mutants: the snapshot is taken before the change; it holds the change alone.
ExportedTooEarly(c) == memory
ExportedAlone(c) == {c}

\* exportSnapshot after the change of call c.
Exported(c) == memory \cup {c}

\* actor() changes the store and, in the same turn, persist() exports it.
Change(c) ==
  /\ MayRun(c)
  /\ memory' = memory \cup {c}
  /\ snapshot' = [snapshot EXCEPT ![c] = Exported(c)]
  /\ Move(c, "saving")
  /\ UNCHANGED <<tableVars, limitVars, crashes>>

\* actor() throws: nothing is saved, the caller gets the error.
ChangeRefused(c) ==
  /\ MayRun(c)
  /\ Move(c, "failed")
  /\ UNCHANGED <<memory, snapshot, tableVars, limitVars, crashes>>

\* openPresence, closePresence: the presence itself is in no snapshot.
ChangePresence(c) ==
  /\ stage[c] = "new"
  /\ Move(c, "touch")
  /\ UNCHANGED <<memory, snapshot, tableVars, limitVars, crashes>>

\* Mutant: the snapshot holds the presence as well.
PresenceTouchedAndSaved(c) ==
  /\ stage[c] = "touch"
  /\ snapshot' = [snapshot EXCEPT ![c] = memory \cup {c}]
  /\ Move(c, "saving")
  /\ UNCHANGED <<memory, tableVars, limitVars, crashes>>

\* touchPresence or clearPresence has ended, well or badly; only then is the store
\* exported.
PresenceTouched(c) ==
  /\ stage[c] = "touch"
  /\ snapshot' = [snapshot EXCEPT ![c] = memory]
  /\ Move(c, "saving")
  /\ UNCHANGED <<memory, tableVars, limitVars, crashes>>

\* Call c has no more use for its snapshot.
Release(c) == snapshot' = [snapshot EXCEPT ![c] = {}]

\* The row is replaced by snapshot s.
Write(s) ==
  /\ persisted' = s
  /\ saved' = saved \cup s
  /\ overtaken' = (overtaken \/ ~(Content(persisted) \subseteq s))

\* saveSnapshot is answered.
SaveLands(c) ==
  /\ stage[c] = "saving"
  /\ Write(snapshot[c])
  /\ Move(c, IF c \in Presence THEN "done" ELSE "audit")
  /\ Release(c)
  /\ UNCHANGED <<memory, limitVars, crashes>>

\* Mutant: the rejection is swallowed.
SaveFailsUnnoticed(c) ==
  /\ stage[c] = "saving"
  /\ Write(snapshot[c]) \/ UNCHANGED tableVars
  /\ Move(c, IF c \in Presence THEN "done" ELSE "audit")
  /\ Release(c)
  /\ UNCHANGED <<memory, limitVars, crashes>>

\* saveSnapshot rejects: the caller gets the error, memory keeps the change.
SaveFails(c) ==
  /\ stage[c] = "saving"
  /\ Write(snapshot[c]) \/ UNCHANGED tableVars
  /\ Move(c, "failed")
  /\ Release(c)
  /\ UNCHANGED <<memory, limitVars, crashes>>

\* writeAudit is answered, and then the caller.
Audited(c) ==
  /\ stage[c] = "audit"
  /\ Move(c, "done")
  /\ UNCHANGED <<memory, snapshot, tableVars, limitVars, crashes>>

AuditFails(c) ==
  /\ stage[c] = "audit"
  /\ Move(c, "failed")
  /\ UNCHANGED <<memory, snapshot, tableVars, limitVars, crashes>>

-----------------------------------------------------------------------------
(* Crash and start *)

\* SharePasteStore.fromSnapshot: a table with no row makes an empty store.
FromSnapshot(p) == Content(p)

\* The server stops with calls under way, one write of which may still be carried
\* out, and starts again.
Crash ==
  /\ crashes < MaxCrashes
  /\ crashes' = crashes + 1
  /\ \/ UNCHANGED tableVars
     \/ \E c \in Calls : stage[c] = "saving" /\ Write(snapshot[c])
  /\ memory' = FromSnapshot(persisted')
  /\ stage' = [c \in Calls |-> IF UnderWay(c) THEN "failed" ELSE stage[c]]
  /\ snapshot' = [c \in Calls |-> {}]
  /\ UNCHANGED limitVars

-----------------------------------------------------------------------------
(* Specification *)

Init ==
  /\ memory = {}
  /\ stage = [c \in Calls |-> "new"]
  /\ snapshot = [c \in Calls |-> {}]
  /\ persisted = NoSnapshot
  /\ counter = 0
  /\ expiring = FALSE
  /\ crashes = 0
  /\ granted = 0
  /\ saved = {}
  /\ overtaken = FALSE

LimitStep ==
  \/ \E c \in Limited : Incr(c)
  \/ \E c \in Limited : Expire(c)
  \/ \E c \in Limited : LimitFails(c)
  \/ WindowEnds

ChangeStep ==
  \/ \E c \in Changes : Change(c)
  \/ \E c \in Changes : ChangeRefused(c)
  \/ \E c \in Presence : ChangePresence(c)
  \/ \E c \in Presence : PresenceTouched(c)

SaveStep ==
  \/ \E c \in Calls : SaveLands(c)
  \/ \E c \in Calls : SaveFails(c)
  \/ \E c \in Calls : Audited(c)
  \/ \E c \in Calls : AuditFails(c)

Next ==
  \/ LimitStep
  \/ ChangeStep
  \/ SaveStep
  \/ Crash

Spec == Init /\ [][Next]_durableVars

-----------------------------------------------------------------------------
(* Properties *)

Saving(c) == stage[c] = "saving"

\* Every snapshot on its way to the table, and the one in it, is a state the memory
\* of the server has gone through to become what it is: none holds a later call
\* without the earlier ones, so a restart never finds half of a history.
SnapshotsOfThePast ==
  /\ Content(persisted) \subseteq memory
  /\ \A c \in Calls : Saving(c) =>
       /\ snapshot[c] \subseteq memory
       /\ snapshot[c] \subseteq Content(persisted) \/ Content(persisted) \subseteq snapshot[c]
       /\ \A e \in Calls : Saving(e) =>
            snapshot[c] \subseteq snapshot[e] \/ snapshot[e] \subseteq snapshot[c]

\* No caller is told of success before a snapshot with its change has been written.
ConfirmedWasSaved ==
  \A c \in Changes : stage[c] \in {"audit", "done"} => c \in saved

\* What a caller was told has succeeded is lost in one way only: by an older
\* snapshot that was written over a newer one.  While writes land in the order they
\* were made in, crashes and failures lose nothing that was confirmed.
OnlyOvertakingLoses ==
  ~overtaken =>
    \A c \in Changes : stage[c] \in {"audit", "done"} => c \in Content(persisted)

\* Between two moments at which the counter is gone, no more calls pass than the
\* limit allows, however many run at once and wherever they crash.
LimitKept == granted <= MaxPerMinute

-----------------------------------------------------------------------------
(* What the documents say and the store does not do *)

\* docs/pre-dev/TECH-DESIGN-v0.1.md:9: "Postgres: persistent source of truth for
\* core metadata."  A change that was confirmed to its caller is in the store from
\* then on, restarts included.
ConfirmedSurvives ==
  \A c \in Changes : stage[c] = "done" => c \in memory

=============================================================================
