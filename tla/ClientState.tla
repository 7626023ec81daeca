---------------------------- MODULE ClientState ----------------------------
(***************************************************************************)
(* The state file of the command-line client, which holds the identity of  *)
(* a device, and the processes of one host that share it: the macOS        *)
(* application keeps one process of the client running (Run) and starts    *)
(* another for each command (apps/desktop-macos/Sources/main.swift).       *)
(* Each process takes its state from the file when it starts, asks the     *)
(* server for the context of its device, and writes the file whole; nobody *)
(* locks it.                                                               *)
(*                                                                         *)
(* Source: apps/client-cli/src/core/sharepaste-client.ts (bootstrap,       *)
(* recoverGroup, applyGroupKeyUpdate), state-store.ts, client-session.ts,  *)
(* cli.ts.  A device is numbered with its identity, in the order the       *)
(* identities are made; the keys of a device's group are numbered in the   *)
(* order the server makes them, from 1.                                    *)
(***************************************************************************)
EXTENDS Integers

CONSTANTS
  Commands,      \* commands that may be under way together
  Run,           \* the process that runs realtime sync
  Handlers,      \* its handlers of key updates
  ResetStale,    \* --reset-stale-state
  MaxDevices,    \* bound of the model: identities made
  MaxKey,        \* bound of the model: keys of one group
  MaxKills       \* bound of the model: processes terminated

ASSUME ClientAssumption ==
  /\ Run \notin Commands \cup Handlers
  /\ Commands \cap Handlers = {}
  /\ ResetStale \in BOOLEAN
  /\ MaxDevices \in Nat /\ MaxKey \in Nat \ {0} /\ MaxKills \in Nat

Processes == Commands \cup {Run}
Tasks     == Processes \cup Handlers

VARIABLES
  file,      \* what is at the path of the state file
  linked,    \* the tasks that have that file open for writing
  sess,      \* per process: the state of its session
  at,        \* per task: what it is waiting for
  held,      \* per task: the state it will write
  goal,      \* per task: where the save under way leads
  ctx,       \* per device: the newest key of its group; 0: not registered
  gone,      \* the devices removed
  heard,     \* the newest key Run has been told of
  made,      \* identities made
  kills,
  excused,   \* devices given up by a recovery, or whose identity was not saved
  crowd,     \* devices whose identity was made while another process was alive
  spoilt,    \* the write of the file's present contents was not alone, or not finished
  unkept     \* the newest key Run was told of came while another was handled, or could
             \* not be kept

procVars   == <<sess, at, held, goal>>
fileVars   == <<file, linked>>
serverVars == <<ctx, gone>>
toldVars   == <<heard, unkept>>
vars       == <<fileVars, procVars, serverVars, toldVars, made, kills, excused, crowd, spoilt>>

Devices == 1 .. MaxDevices

\* What of a PersistedState matters here.
State == [dev : Devices \cup {0}, key : 0 .. MaxKey]

Blank   == [dev |-> 0, key |-> 0]
Missing == [is |-> "missing", state |-> Blank]
Torn    == [is |-> "torn", state |-> Blank]
Whole(s) == [is |-> "whole", state |-> s]

Home(t) == IF t \in Handlers THEN Run ELSE t
Alive(p) == at[p] # "off"

\* Every variable has its type.
TypeOK ==
  /\ file \in [is : {"missing", "torn", "whole"}, state : State]
  /\ linked \in SUBSET Tasks
  /\ sess \in [Processes -> State]
  /\ at \in [Tasks -> {"off", "registering", "asking", "opening", "writing", "ready", "up"}]
  /\ held \in [Tasks -> State]
  /\ goal \in [Tasks -> {"off", "ready", "up"}]
  /\ ctx \in [Devices -> 0 .. MaxKey]
  /\ gone \in SUBSET Devices
  /\ heard \in 0 .. MaxKey
  /\ made \in 0 .. MaxDevices
  /\ kills \in 0 .. MaxKills
  /\ excused \in SUBSET Devices
  /\ crowd \in SUBSET Devices
  /\ spoilt \in BOOLEAN
  /\ unkept \in BOOLEAN

-----------------------------------------------------------------------------
(* Starting: the file is read *)

\* The process p waits for w, with the state s, on its way to g.
Waits(p, w, s, g) ==
  /\ at' = [at EXCEPT ![p] = w]
  /\ held' = [held EXCEPT ![p] = s]
  /\ goal' = [goal EXCEPT ![p] = g]

\* A new identity is attached to the session before the server knows it.
MakeIdentity(p) ==
  /\ made < MaxDevices
  /\ made' = made + 1
  /\ sess' = [sess EXCEPT ![p] = Blank]
  /\ Waits(p, "registering", [dev |-> made + 1, key |-> 0], "ready")

\* bootstrap finds no file: the device is registered.
StartFresh(p) ==
  /\ ~Alive(p)
  /\ file.is = "missing"
  /\ MakeIdentity(p)
  /\ UNCHANGED <<fileVars, serverVars, toldVars, kills, excused, spoilt>>

\* bootstrap finds a state and asks the server for the context of its device.  (A file
\* that is no valid state fails the command; nothing changes.)
StartKnown(p) ==
  /\ ~Alive(p)
  /\ file.is = "whole"
  /\ sess' = [sess EXCEPT ![p] = file.state]
  /\ Waits(p, "asking", file.state, "ready")
  /\ UNCHANGED <<fileVars, serverVars, toldVars, made, kills, excused, spoilt>>

\* recoverGroup, which reads no file: whatever device was the host's is given up.
StartRecovery(c) ==
  /\ ~Alive(c)
  /\ MakeIdentity(c)
  /\ excused' = excused \cup {d \in Devices : ctx[d] > 0}
  /\ UNCHANGED <<fileVars, serverVars, toldVars, kills, spoilt>>

-----------------------------------------------------------------------------
(* Answers of the server *)

\* Mutant: a process that has ended is told from one that was never started.
EndsForGood(p) == Waits(p, "ended", Blank, "off") /\ sess' = [sess EXCEPT ![p] = Blank]

\* The process p ends; its state is lost.
Ends(p) == Waits(p, "off", Blank, "off") /\ sess' = [sess EXCEPT ![p] = Blank]

\* RegisterDevice or RecoverGroup is answered.
Registered(p) ==
  LET d == held[p].dev
  IN  /\ at[p] = "registering"
      /\ ctx' = [ctx EXCEPT ![d] = 1]
      /\ Waits(p, "opening", [dev |-> d, key |-> 1], "ready")
      /\ UNCHANGED <<fileVars, sess, gone, toldVars, made, kills, excused, spoilt>>

\* It fails, or is carried out and the answer is lost.
RegistrationFails(p) ==
  /\ at[p] = "registering"
  /\ Ends(p)
  /\ \/ UNCHANGED <<ctx, excused>>
     \/ /\ ctx' = [ctx EXCEPT ![held[p].dev] = 1]
        /\ excused' = excused \cup {held[p].dev}
  /\ UNCHANGED <<fileVars, gone, toldVars, made, kills, spoilt>>

\* GetDeviceContext is answered.
ContextArrives(p) ==
  LET d == held[p].dev
  IN  /\ at[p] = "asking"
      /\ d \notin gone
      /\ Waits(p, "opening", [dev |-> d, key |-> ctx[d]], goal[p])
      /\ UNCHANGED <<fileVars, sess, serverVars, toldVars, made, kills, excused, spoilt>>

\* Mutant: any failure makes the client start afresh.
StaleOnFailure(p) == at[p] = "asking" /\ ResetStale

\* The server no longer knows the device and the client may start afresh.  The refresh
\* of startRealtime has no such branch.
StaleAndReset(p) ==
  at[p] = "asking" /\ held[p].dev \in gone /\ ResetStale /\ goal[p] = "ready"

\* The file is deleted and a device registered.
StartAfresh(p) ==
  /\ StaleAndReset(p)
  /\ file' = Missing
  /\ linked' = {}
  /\ spoilt' = FALSE
  /\ MakeIdentity(p)
  /\ UNCHANGED <<serverVars, toldVars, kills, excused>>

\* The call fails, or the key it brings cannot be opened, or the file not deleted: the
\* process ends with an error.
ContextFails(p) ==
  /\ at[p] = "asking"
  /\ Ends(p)
  /\ UNCHANGED <<fileVars, serverVars, toldVars, made, kills, excused, spoilt>>

-----------------------------------------------------------------------------
(* Saving *)

\* The process p is making an identity that is in no file yet.
Making(p) ==
  \/ at[p] = "registering"
  \/ at[p] \in {"opening", "writing"} /\ held[p].dev # sess[p].dev

\* mkdir is done: writeFile opens the file and truncates it.
OpenForSave(t) ==
  /\ at[t] = "opening"
  /\ at' = [at EXCEPT ![t] = "writing"]
  /\ file' = Torn
  /\ linked' = linked \cup {t}
  /\ spoilt' = (linked # {})
  /\ UNCHANGED <<sess, held, goal, serverVars, toldVars, made, kills, excused>>

\* Mutant: the key update is saved and the session keeps the key it has.
AttachProcesses(t) == sess' = IF t \in Handlers THEN sess ELSE [sess EXCEPT ![t] = held[t]]

\* What was saved becomes the state of the session, whatever it is by now.
Attach(t) == sess' = [sess EXCEPT ![Home(t)] = held[t]]

\* Mutant: the contents reach the disk only up to a point.
ContentsInPart(t) == {Torn}

\* The contents replace those of a file that is empty; over what another process has
\* written since, the longer of the two leaves its end behind.
Contents(t) == {Whole(held[t])} \cup (IF file = Torn THEN {} ELSE {Torn})

\* The contents are written: to the file, or to one that has been deleted meanwhile.
SaveEnds(t) ==
  /\ at[t] = "writing"
  /\ Waits(t, goal[t], Blank, "off")
  /\ IF goal[t] = "off" /\ t \in Processes THEN sess' = [sess EXCEPT ![t] = Blank] ELSE Attach(t)
  /\ IF t \in linked THEN file' \in Contents(t) ELSE UNCHANGED file
  /\ linked' = linked \ {t}
  /\ IF t = Run THEN heard' = held[t].key /\ unkept' = FALSE ELSE UNCHANGED toldVars
  /\ UNCHANGED <<serverVars, made, kills, excused, spoilt>>

\* mkdir, writeFile or its open rejects.  After the open the file stays as far as it is
\* written.  A command ends with the error, and so does Run; the rejection of a handler
\* is caught by the stream's callback, and Run goes on with the session it has.
SaveFails(t) ==
  /\ at[t] \in {"opening", "writing"}
  /\ IF t \in Handlers THEN Waits(t, "off", Blank, "off") /\ UNCHANGED sess ELSE Ends(t)
  /\ linked' = linked \ {t}
  /\ \/ t \in linked /\ file' = Torn /\ spoilt' = TRUE
     \/ t \notin linked /\ UNCHANGED <<file, spoilt>>
  /\ excused' = excused \cup (IF t \in Processes /\ Making(t) THEN {held[t].dev} ELSE {})
  /\ unkept' = (unkept \/ t \in Handlers)
  /\ UNCHANGED <<serverVars, heard, made, kills>>

-----------------------------------------------------------------------------
(* After bootstrap *)

\* startRealtime asks for the context again.
RunRefreshes ==
  /\ at[Run] = "ready"
  /\ Waits(Run, "asking", sess[Run], "up")
  /\ UNCHANGED <<fileVars, sess, serverVars, toldVars, made, kills, excused, spoilt>>

\* bind-confirm: a request is approved, and the new key of the group saved.
ConfirmBind(c) ==
  LET d == sess[c].dev
  IN  /\ at[c] = "ready"
      /\ d \notin gone /\ ctx[d] < MaxKey
      /\ ctx' = [ctx EXCEPT ![d] = @ + 1]
      /\ Waits(c, "opening", [dev |-> d, key |-> ctx'[d]], "off")
      /\ UNCHANGED <<fileVars, sess, gone, toldVars, made, kills, excused, spoilt>>

\* A command that saves nothing more is done, or fails.
CommandEnds(c) ==
  /\ at[c] = "ready"
  /\ Ends(c)
  /\ UNCHANGED <<fileVars, serverVars, toldVars, made, kills, excused, spoilt>>

\* A key update arrives over the stream, in order; those sent while there was no
\* stream are missed.  The handler opens the key with the session's identity, which
\* may fail: the failure is caught by the stream's callback.
UpdateArrives(h) ==
  LET d == sess[Run].dev
  IN  /\ at[Run] = "up" /\ ~Alive(h)
      /\ \E k \in heard + 1 .. ctx[d] :
           /\ heard' = k
           /\ \/ /\ Waits(h, "opening", [dev |-> d, key |-> k], "off")
                 /\ unkept' = (\E g \in Handlers : Alive(g))
              \/ unkept' = TRUE /\ UNCHANGED <<at, held, goal>>
      /\ UNCHANGED <<fileVars, sess, serverVars, made, kills, excused, spoilt>>

-----------------------------------------------------------------------------
(* The rest of the world *)

\* Another member lets a device into the group, or the device itself is moved.
Rotate(d) ==
  /\ ctx[d] \in 1 .. MaxKey - 1 /\ d \notin gone
  /\ ctx' = [ctx EXCEPT ![d] = @ + 1]
  /\ UNCHANGED <<fileVars, procVars, gone, toldVars, made, kills, excused, spoilt>>

\* Another member removes the device.
Remove(d) ==
  /\ ctx[d] > 0 /\ d \notin gone
  /\ gone' = gone \cup {d}
  /\ UNCHANGED <<fileVars, procVars, ctx, toldVars, made, kills, excused, spoilt>>

\* The tasks that end with the process p.
TasksOf(p) == {t \in Tasks : Home(t) = p}

\* A command is terminated after 5 s, Run when sync is stopped (it handles SIGINT, the
\* application sends SIGTERM), at any point.
Terminate(p) ==
  /\ Alive(p)
  /\ kills < MaxKills
  /\ kills' = kills + 1
  /\ at' = [t \in Tasks |-> IF Home(t) = p THEN "off" ELSE at[t]]
  /\ held' = [t \in Tasks |-> IF Home(t) = p THEN Blank ELSE held[t]]
  /\ goal' = [t \in Tasks |-> IF Home(t) = p THEN "off" ELSE goal[t]]
  /\ sess' = [sess EXCEPT ![p] = Blank]
  /\ heard' = IF p = Run THEN 0 ELSE heard
  /\ linked' = linked \ TasksOf(p)
  /\ spoilt' = (spoilt \/ linked \cap TasksOf(p) # {})
  /\ excused' = excused \cup (IF Making(p) THEN {held[p].dev} ELSE {})
  /\ \/ UNCHANGED ctx
     \/ at[p] = "registering" /\ ctx' = [ctx EXCEPT ![held[p].dev] = 1]
  /\ UNCHANGED <<file, gone, made, unkept>>

-----------------------------------------------------------------------------
(* Specification *)

Init ==
  /\ file = Missing
  /\ linked = {}
  /\ sess = [p \in Processes |-> Blank]
  /\ at = [t \in Tasks |-> "off"]
  /\ held = [t \in Tasks |-> Blank]
  /\ goal = [t \in Tasks |-> "off"]
  /\ ctx = [d \in Devices |-> 0]
  /\ gone = {}
  /\ heard = 0 /\ made = 0 /\ kills = 0
  /\ excused = {}
  /\ crowd = {}
  /\ spoilt = FALSE /\ unkept = FALSE

ProcessStep(p) ==
  \/ StartFresh(p) \/ StartKnown(p)
  \/ Registered(p) \/ RegistrationFails(p)
  \/ ContextArrives(p) \/ StartAfresh(p) \/ ContextFails(p)
  \/ Terminate(p)

CommandStep(c) == StartRecovery(c) \/ ConfirmBind(c) \/ CommandEnds(c)

Step ==
  \/ \E p \in Processes : ProcessStep(p)
  \/ \E c \in Commands : CommandStep(c)
  \/ RunRefreshes
  \/ \E t \in Tasks : OpenForSave(t) \/ SaveEnds(t) \/ SaveFails(t)
  \/ \E h \in Handlers : UpdateArrives(h)
  \/ \E d \in Devices : Rotate(d) \/ Remove(d)

\* Identities made beside another process are noted after every step.
Watch ==
  crowd' = crowd \cup
    {d \in Devices : \E p, q \in Processes :
                       p # q /\ Making(p)' /\ Alive(q)' /\ held'[p].dev = d}

Next == Step /\ Watch

Spec == Init /\ [][Next]_vars

-----------------------------------------------------------------------------
(* Properties *)

Saving(d) == \E t \in Tasks : at[t] \in {"opening", "writing"} /\ held[t].dev = d

\* A host keeps the seat it has in a group, and takes no second one: a device that the
\* server counts as active is the one in the state file, or is about to be, or was given
\* up by a recovery, or the answer or the save that brought it was lost with its process.
\* A seat may also be lost when an identity is made while another process is alive, and
\* for as long as the file is spoilt, which the next save puts right.
SeatsAccounted ==
  \A d \in Devices \ (gone \cup excused \cup crowd) :
    ctx[d] > 0 => file.state.dev = d \/ Saving(d) \/ (file.is = "torn" /\ spoilt)

\* The state file is not fit to be read only while it is being written, or after a
\* write that failed, was cut off or met another, and then only until the next write
\* that is alone: no order of commands, key updates, resets and failures of the server
\* spoils it otherwise, or for good.
FileFit == file.is = "torn" => linked # {} \/ spoilt

\* At rest, realtime sync uses the newest key it was told of, unless that one came while
\* an older was still being saved, which may then be kept instead, or could itself not
\* be kept; and then only until the next update that comes alone and is kept.
NewestKeyKept ==
  at[Run] = "up" /\ (\A h \in Handlers : ~Alive(h)) /\ ~unkept =>
    sess[Run].key = heard

=============================================================================
