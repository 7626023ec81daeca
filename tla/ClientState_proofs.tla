------------------------- MODULE ClientState_proofs -------------------------
(***************************************************************************)
(* Theorems about the state file and the processes that share it: types,   *)
(* what spoils the file, which key realtime sync uses, and that the host   *)
(* keeps its seat in the group.                                            *)
(***************************************************************************)
EXTENDS ClientState, TLAPS

-----------------------------------------------------------------------------
(* Types *)

\* A device is an actual one wherever it is about to be used: in a file that can be
\* read, in the session of a process that is ready, in what a task holds.
DevicesActual ==
  /\ file.is = "whole" => file.state.dev # 0
  /\ \A t \in Tasks : at[t] \in {"registering", "asking", "opening", "writing"} => held[t].dev # 0
  /\ \A p \in Processes : at[p] \in {"ready", "up"} => sess[p].dev # 0

LEMMA Numbers == MaxDevices \in Nat /\ MaxKey \in Nat /\ MaxKey > 0 /\ MaxKills \in Nat
  BY ClientAssumption

LEMMA HomeOfTask == \A t \in Tasks : Home(t) \in Processes
  BY DEF Tasks, Processes, Home

LEMMA HomeOfProcess == \A p \in Processes : p \in Tasks /\ Home(p) = p /\ p \notin Handlers
  BY ClientAssumption DEF Tasks, Processes, Home

LEMMA BlankType == Blank \in State
  BY Numbers DEF Blank, State

Places == {"off", "registering", "asking", "opening", "writing", "ready", "up"}
Goals  == {"off", "ready", "up"}

\* TypeOK but for what Watch notes.
CoreOK ==
  /\ file \in [is : {"missing", "torn", "whole"}, state : State]
  /\ linked \in SUBSET Tasks
  /\ sess \in [Processes -> State]
  /\ at \in [Tasks -> Places]
  /\ held \in [Tasks -> State]
  /\ goal \in [Tasks -> Goals]
  /\ ctx \in [Devices -> 0 .. MaxKey]
  /\ gone \in SUBSET Devices
  /\ heard \in 0 .. MaxKey
  /\ made \in 0 .. MaxDevices
  /\ kills \in 0 .. MaxKills
  /\ excused \in SUBSET Devices
  /\ spoilt \in BOOLEAN
  /\ unkept \in BOOLEAN

LEMMA TypeIsCore == TypeOK <=> CoreOK /\ crowd \in SUBSET Devices
  BY DEF TypeOK, CoreOK, Places, Goals

LEMMA InitType == Init => TypeOK /\ DevicesActual
  <1> SUFFICES ASSUME Init PROVE TypeOK /\ DevicesActual
    OBVIOUS
  <1>1. file \in [is : {"missing", "torn", "whole"}, state : State]
    BY BlankType DEF Init, Missing
  <1>2. CoreOK
    <2>1. /\ sess \in [Processes -> State] /\ at \in [Tasks -> Places]
          /\ held \in [Tasks -> State] /\ goal \in [Tasks -> Goals]
      BY BlankType DEF Init, Places, Goals
    <2>2. /\ ctx \in [Devices -> 0 .. MaxKey] /\ heard \in 0 .. MaxKey
          /\ made \in 0 .. MaxDevices /\ kills \in 0 .. MaxKills
      BY Numbers DEF Init
    <2>3. QED
      BY <1>1, <2>1, <2>2 DEF Init, CoreOK
  <1>3. TypeOK
    BY <1>2, TypeIsCore DEF Init
  <1>4. DevicesActual
    BY HomeOfProcess DEF Init, DevicesActual, Missing
  <1>5. QED
    BY <1>3, <1>4

\* A task goes from one wait to the next.
LEMMA WaitsType ==
  ASSUME CoreOK, DevicesActual, NEW t \in Tasks, NEW w \in Places, NEW s \in State, NEW g \in Goals,
         Waits(t, w, s, g),
         w \in {"registering", "asking", "opening", "writing"} => s.dev # 0
  PROVE  /\ at' \in [Tasks -> Places] /\ held' \in [Tasks -> State] /\ goal' \in [Tasks -> Goals]
         /\ \A u \in Tasks : u # t => at'[u] = at[u] /\ held'[u] = held[u]
         /\ at'[t] = w /\ held'[t] = s
         /\ \A u \in Tasks : at'[u] \in {"registering", "asking", "opening", "writing"} => held'[u].dev # 0
  <1>1. /\ at' \in [Tasks -> Places] /\ held' \in [Tasks -> State] /\ goal' \in [Tasks -> Goals]
    BY DEF Waits, CoreOK
  <1>2. /\ \A u \in Tasks : u # t => at'[u] = at[u] /\ held'[u] = held[u]
        /\ at'[t] = w /\ held'[t] = s
    BY DEF Waits, CoreOK
  <1>3. QED
    BY <1>1, <1>2 DEF DevicesActual

\* What MakeIdentity leaves.
LEMMA MakeIdentityType ==
  ASSUME CoreOK, DevicesActual, NEW p \in Processes, MakeIdentity(p)
  PROVE  /\ at' \in [Tasks -> Places] /\ held' \in [Tasks -> State] /\ goal' \in [Tasks -> Goals]
         /\ sess' \in [Processes -> State]
         /\ made' \in 0 .. MaxDevices
         /\ \A u \in Tasks : at'[u] \in {"registering", "asking", "opening", "writing"} => held'[u].dev # 0
         /\ \A q \in Processes : at'[q] \in {"ready", "up"} => sess'[q].dev # 0
  <1> DEFINE s == [dev |-> made + 1, key |-> 0]
  <1>1. s \in State /\ s.dev # 0 /\ made' \in 0 .. MaxDevices
    BY Numbers DEF MakeIdentity, CoreOK, State, Devices
  <1>2. Waits(p, "registering", s, "ready") /\ p \in Tasks
    BY HomeOfProcess DEF MakeIdentity
  <1>3. "registering" \in Places /\ "ready" \in Goals
    BY DEF Places, Goals
  <1> HIDE DEF s
  <1>4. /\ at' \in [Tasks -> Places] /\ held' \in [Tasks -> State] /\ goal' \in [Tasks -> Goals]
        /\ \A u \in Tasks : u # p => at'[u] = at[u] /\ held'[u] = held[u]
        /\ at'[p] = "registering"
        /\ \A u \in Tasks : at'[u] \in {"registering", "asking", "opening", "writing"} => held'[u].dev # 0
    BY <1>1, <1>2, <1>3, WaitsType
  <1>5. sess' \in [Processes -> State] /\ \A q \in Processes : q # p => sess'[q] = sess[q]
    BY BlankType DEF MakeIdentity, CoreOK
  <1>6. \A q \in Processes : at'[q] \in {"ready", "up"} => sess'[q].dev # 0
    BY <1>4, <1>5, HomeOfProcess DEF DevicesActual
  <1>7. QED
    BY <1>1, <1>4, <1>5, <1>6

\* What Ends leaves.
LEMMA EndsType ==
  ASSUME CoreOK, DevicesActual, NEW p \in Processes, Ends(p)
  PROVE  /\ at' \in [Tasks -> Places] /\ held' \in [Tasks -> State] /\ goal' \in [Tasks -> Goals]
         /\ sess' \in [Processes -> State]
         /\ \A u \in Tasks : at'[u] \in {"registering", "asking", "opening", "writing"} => held'[u].dev # 0
         /\ \A q \in Processes : at'[q] \in {"ready", "up"} => sess'[q].dev # 0
  <1>1. Waits(p, "off", Blank, "off") /\ p \in Tasks
    BY HomeOfProcess DEF Ends
  <1>2. "off" \in Places /\ "off" \in Goals
    BY DEF Places, Goals
  <1>3. /\ at' \in [Tasks -> Places] /\ held' \in [Tasks -> State] /\ goal' \in [Tasks -> Goals]
        /\ \A u \in Tasks : u # p => at'[u] = at[u] /\ held'[u] = held[u]
        /\ at'[p] = "off"
        /\ \A u \in Tasks : at'[u] \in {"registering", "asking", "opening", "writing"} => held'[u].dev # 0
    BY <1>1, <1>2, BlankType, WaitsType
  <1>4. sess' \in [Processes -> State] /\ \A q \in Processes : q # p => sess'[q] = sess[q]
    BY BlankType DEF Ends, CoreOK
  <1>5. \A q \in Processes : at'[q] \in {"ready", "up"} => sess'[q].dev # 0
    BY <1>3, <1>4, HomeOfProcess DEF DevicesActual
  <1>6. QED
    BY <1>3, <1>4, <1>5

\* A process leaves its wait in a state of a device, and its session alone.
LEMMA WaitsOfProcess ==
  ASSUME CoreOK, DevicesActual, NEW p \in Processes, NEW w \in Places, NEW s \in State, NEW g \in Goals,
         Waits(p, w, s, g), w \notin {"ready", "up"}, s.dev # 0,
         sess' \in [Processes -> State], \A q \in Processes : q # p => sess'[q] = sess[q]
  PROVE  /\ at' \in [Tasks -> Places] /\ held' \in [Tasks -> State] /\ goal' \in [Tasks -> Goals]
         /\ \A u \in Tasks : at'[u] \in {"registering", "asking", "opening", "writing"} => held'[u].dev # 0
         /\ \A q \in Processes : at'[q] \in {"ready", "up"} => sess'[q].dev # 0
  <1>1. p \in Tasks
    BY HomeOfProcess
  <1>2. /\ at' \in [Tasks -> Places] /\ held' \in [Tasks -> State] /\ goal' \in [Tasks -> Goals]
        /\ \A u \in Tasks : u # p => at'[u] = at[u] /\ held'[u] = held[u]
        /\ at'[p] = w
        /\ \A u \in Tasks : at'[u] \in {"registering", "asking", "opening", "writing"} => held'[u].dev # 0
    BY <1>1, WaitsType
  <1>3. QED
    BY <1>2, HomeOfProcess DEF DevicesActual

LEMMA StartKeepsType ==
  ASSUME CoreOK, DevicesActual, NEW p \in Processes,
         StartFresh(p) \/ StartKnown(p) \/ StartAfresh(p) \/ (p \in Commands /\ StartRecovery(p))
  PROVE  CoreOK' /\ DevicesActual'
  <1>1. CASE StartFresh(p)
    BY <1>1, MakeIdentityType DEF StartFresh, fileVars, serverVars, toldVars, CoreOK, DevicesActual
  <1>2. CASE StartKnown(p)
    <2>1. file.state \in State /\ file.state.dev # 0
      BY <1>2 DEF StartKnown, CoreOK, DevicesActual
    <2>2. sess' \in [Processes -> State] /\ \A q \in Processes : q # p => sess'[q] = sess[q]
      BY <1>2, <2>1 DEF StartKnown, CoreOK
    <2>3. Waits(p, "asking", file.state, "ready") /\ "asking" \in Places /\ "ready" \in Goals
      BY <1>2 DEF StartKnown, Places, Goals
    <2>4. /\ at' \in [Tasks -> Places] /\ held' \in [Tasks -> State] /\ goal' \in [Tasks -> Goals]
          /\ \A u \in Tasks : at'[u] \in {"registering", "asking", "opening", "writing"} => held'[u].dev # 0
          /\ \A q \in Processes : at'[q] \in {"ready", "up"} => sess'[q].dev # 0
      BY <2>1, <2>2, <2>3, WaitsOfProcess
    <2>5. QED
      BY <1>2, <2>2, <2>4 DEF StartKnown, fileVars, serverVars, toldVars, CoreOK, DevicesActual
  <1>3. CASE StartAfresh(p)
    <2>1. file' \in [is : {"missing", "torn", "whole"}, state : State] /\ file'.is = "missing"
      BY <1>3, BlankType DEF StartAfresh, Missing
    <2>2. QED
      BY <1>3, <2>1, MakeIdentityType DEF StartAfresh, serverVars, toldVars, CoreOK, DevicesActual
  <1>4. CASE StartRecovery(p)
    <2>1. excused' \in SUBSET Devices
      BY <1>4 DEF StartRecovery, CoreOK
    <2>2. QED
      BY <1>4, <2>1, MakeIdentityType DEF StartRecovery, fileVars, serverVars, toldVars, CoreOK, DevicesActual
  <1>5. QED
    BY <1>1, <1>2, <1>3, <1>4

LEMMA AnswerKeepsType ==
  ASSUME CoreOK, DevicesActual, NEW p \in Processes,
         Registered(p) \/ RegistrationFails(p) \/ ContextArrives(p) \/ ContextFails(p)
  PROVE  CoreOK' /\ DevicesActual'
  <1>0. p \in Tasks
    BY HomeOfProcess
  <1> DEFINE d == held[p].dev
  <1>d. ASSUME at[p] \in {"registering", "asking"}
        PROVE  d \in Devices
    BY <1>0, <1>d, Numbers DEF CoreOK, DevicesActual, State, Devices
  <1>1. CASE Registered(p)
    <2> DEFINE s == [dev |-> d, key |-> 1]
    <2>1. s \in State /\ s.dev # 0
      BY <1>1, <1>d, Numbers DEF Registered, State, Devices
    <2>2. Waits(p, "opening", s, "ready") /\ "opening" \in Places /\ "ready" \in Goals
      BY <1>1 DEF Registered, Places, Goals
    <2>3. sess' = sess /\ ctx' \in [Devices -> 0 .. MaxKey]
      <3>1. 1 \in 0 .. MaxKey
        BY Numbers
      <3>2. ctx \in [Devices -> 0 .. MaxKey] /\ ctx' = [ctx EXCEPT ![d] = 1]
        BY <1>1 DEF Registered, CoreOK
      <3>3. QED
        BY <1>1, <3>1, <3>2 DEF Registered
    <2> HIDE DEF s
    <2>4. /\ at' \in [Tasks -> Places] /\ held' \in [Tasks -> State] /\ goal' \in [Tasks -> Goals]
          /\ \A u \in Tasks : at'[u] \in {"registering", "asking", "opening", "writing"} => held'[u].dev # 0
          /\ \A q \in Processes : at'[q] \in {"ready", "up"} => sess'[q].dev # 0
      BY <2>1, <2>2, <2>3, WaitsOfProcess DEF CoreOK
    <2>5. QED
      BY <1>1, <2>3, <2>4 DEF Registered, fileVars, toldVars, CoreOK, DevicesActual
  <1>2. CASE RegistrationFails(p)
    <2>1. ctx' \in [Devices -> 0 .. MaxKey] /\ excused' \in SUBSET Devices
      BY <1>2, <1>d, Numbers DEF RegistrationFails, CoreOK
    <2>2. QED
      BY <1>2, <2>1, EndsType DEF RegistrationFails, fileVars, toldVars, CoreOK, DevicesActual
  <1>3. CASE ContextArrives(p)
    <2> DEFINE s == [dev |-> d, key |-> ctx[d]]
    <2>1. s \in State /\ s.dev # 0
      BY <1>3, <1>d, Numbers DEF ContextArrives, CoreOK, State, Devices
    <2>2. Waits(p, "opening", s, goal[p]) /\ "opening" \in Places /\ goal[p] \in Goals
      BY <1>0, <1>3 DEF ContextArrives, CoreOK, Places
    <2>3. sess' = sess
      BY <1>3 DEF ContextArrives
    <2> HIDE DEF s
    <2>4. /\ at' \in [Tasks -> Places] /\ held' \in [Tasks -> State] /\ goal' \in [Tasks -> Goals]
          /\ \A u \in Tasks : at'[u] \in {"registering", "asking", "opening", "writing"} => held'[u].dev # 0
          /\ \A q \in Processes : at'[q] \in {"ready", "up"} => sess'[q].dev # 0
      BY <2>1, <2>2, <2>3, WaitsOfProcess DEF CoreOK
    <2>5. QED
      BY <1>3, <2>3, <2>4 DEF ContextArrives, fileVars, serverVars, toldVars, CoreOK, DevicesActual
  <1>4. CASE ContextFails(p)
    BY <1>4, EndsType DEF ContextFails, fileVars, serverVars, toldVars, CoreOK, DevicesActual
  <1>5. QED
    BY <1>1, <1>2, <1>3, <1>4

LEMMA SaveKeepsType ==
  ASSUME CoreOK, DevicesActual, NEW t \in Tasks, OpenForSave(t) \/ SaveEnds(t) \/ SaveFails(t)
  PROVE  CoreOK' /\ DevicesActual'
  <1>1. CASE OpenForSave(t)
    <2>1. file' \in [is : {"missing", "torn", "whole"}, state : State] /\ file'.is = "torn"
      BY <1>1, BlankType DEF OpenForSave, Torn
    <2>2. at' \in [Tasks -> Places] /\ \A u \in Tasks : u # t => at'[u] = at[u]
      BY <1>1 DEF OpenForSave, CoreOK, Places
    <2>3. at'[t] = "writing" /\ at[t] = "opening"
      BY <1>1 DEF OpenForSave, CoreOK
    <2>4. DevicesActual'
      BY <1>1, <2>1, <2>2, <2>3, HomeOfProcess DEF OpenForSave, DevicesActual
    <2>5. QED
      BY <1>1, <2>1, <2>2, <2>4 DEF OpenForSave, serverVars, toldVars, CoreOK
  <1>2. CASE SaveEnds(t)
    <2>1. held[t] \in State /\ held[t].dev # 0 /\ goal[t] \in Goals /\ goal[t] \in Places
      BY <1>2 DEF SaveEnds, CoreOK, DevicesActual, Goals, Places
    <2>2. Waits(t, goal[t], Blank, "off") /\ "off" \in Goals
      BY <1>2 DEF SaveEnds, Goals
    <2>3. goal[t] \notin {"registering", "asking", "opening", "writing"}
      BY <2>1 DEF Goals
    <2>4. /\ at' \in [Tasks -> Places] /\ held' \in [Tasks -> State] /\ goal' \in [Tasks -> Goals]
          /\ \A u \in Tasks : u # t => at'[u] = at[u] /\ held'[u] = held[u]
          /\ at'[t] = goal[t]
          /\ \A u \in Tasks : at'[u] \in {"registering", "asking", "opening", "writing"} => held'[u].dev # 0
      BY <2>1, <2>2, <2>3, BlankType, WaitsType
    <2>5. sess' \in [Processes -> State]
      BY <1>2, <2>1, BlankType, HomeOfTask DEF SaveEnds, Attach, CoreOK
    <2>6. \A q \in Processes : at'[q] \in {"ready", "up"} => sess'[q].dev # 0
      <3> SUFFICES ASSUME NEW q \in Processes, at'[q] \in {"ready", "up"} PROVE sess'[q].dev # 0
        OBVIOUS
      <3>1. q \in Tasks /\ Home(q) = q
        BY HomeOfProcess
      <3>2. CASE q = t
        <4>1. goal[t] # "off"
          BY <2>4, <3>1, <3>2
        <4>2. sess' = [sess EXCEPT ![q] = held[t]]
          BY <1>2, <3>1, <3>2, <4>1 DEF SaveEnds, Attach
        <4>3. QED
          BY <2>1, <4>2 DEF CoreOK
      <3>3. CASE q # t
        <4>1. at[q] \in {"ready", "up"} /\ sess[q].dev # 0
          BY <2>4, <3>1, <3>3 DEF DevicesActual
        <4>2. CASE goal[t] = "off" /\ t \in Processes
          BY <1>2, <3>3, <4>1, <4>2 DEF SaveEnds, CoreOK
        <4>3. CASE ~(goal[t] = "off" /\ t \in Processes)
          BY <1>2, <2>1, <4>1, <4>3 DEF SaveEnds, Attach, CoreOK
        <4>4. QED
          BY <4>2, <4>3
      <3>4. QED
        BY <3>2, <3>3
    <2>7. /\ file' \in [is : {"missing", "torn", "whole"}, state : State]
          /\ file'.is = "whole" => file'.state.dev # 0
      <3>1. CASE t \in linked
        BY <1>2, <2>1, <3>1, BlankType DEF SaveEnds, Contents, Whole, Torn
      <3>2. CASE t \notin linked
        BY <1>2, <3>2 DEF SaveEnds, CoreOK, DevicesActual
      <3>3. QED
        BY <3>1, <3>2
    <2>8. heard' \in 0 .. MaxKey /\ unkept' \in BOOLEAN
      BY <1>2, <2>1 DEF SaveEnds, toldVars, CoreOK, State
    <2>9. linked' \in SUBSET Tasks
      BY <1>2 DEF SaveEnds, CoreOK
    <2>10. DevicesActual'
      BY <2>4, <2>6, <2>7 DEF DevicesActual
    <2>11. QED
      BY <1>2, <2>4, <2>5, <2>7, <2>8, <2>9, <2>10 DEF SaveEnds, serverVars, CoreOK
  <1>3. CASE SaveFails(t)
    <2>1. /\ file' \in [is : {"missing", "torn", "whole"}, state : State]
          /\ file'.is = "whole" => file'.state.dev # 0
          /\ linked' \in SUBSET Tasks /\ spoilt' \in BOOLEAN /\ unkept' \in BOOLEAN
      <3>1. file' = file \/ file' = Torn
        BY <1>3 DEF SaveFails
      <3>2. Torn \in [is : {"missing", "torn", "whole"}, state : State] /\ Torn.is # "whole"
        BY BlankType DEF Torn
      <3>3. QED
        BY <1>3, <3>1, <3>2 DEF SaveFails, CoreOK, DevicesActual
    <2>2. excused' \in SUBSET Devices
      <3>1. held[t].dev \in Devices
        BY <1>3, Numbers DEF SaveFails, CoreOK, DevicesActual, State, Devices
      <3>2. QED
        BY <1>3, <3>1 DEF SaveFails, CoreOK
    <2>3. CASE t \in Processes
      <3>1. Ends(t)
        BY <1>3, <2>3, HomeOfProcess DEF SaveFails
      <3>2. QED
        BY <1>3, <2>1, <2>2, <2>3, <3>1, EndsType DEF SaveFails, serverVars, CoreOK, DevicesActual
    <2>4. CASE t \in Handlers
      <3>1. Waits(t, "off", Blank, "off") /\ sess' = sess
        BY <1>3, <2>4 DEF SaveFails
      <3>2. "off" \in Places /\ "off" \in Goals
        BY DEF Places, Goals
      <3>3. /\ at' \in [Tasks -> Places] /\ held' \in [Tasks -> State] /\ goal' \in [Tasks -> Goals]
            /\ \A u \in Tasks : u # t => at'[u] = at[u] /\ held'[u] = held[u]
            /\ at'[t] = "off"
            /\ \A u \in Tasks : at'[u] \in {"registering", "asking", "opening", "writing"} => held'[u].dev # 0
        BY <3>1, <3>2, BlankType, WaitsType
      <3>4. DevicesActual'
        BY <2>1, <3>1, <3>3, HomeOfProcess DEF DevicesActual
      <3>5. QED
        BY <1>3, <2>1, <2>2, <3>1, <3>3, <3>4 DEF SaveFails, serverVars, CoreOK
    <2>5. QED
      BY <2>3, <2>4 DEF Tasks
  <1>4. QED
    BY <1>1, <1>2, <1>3

LEMMA WorkKeepsType ==
  ASSUME CoreOK, DevicesActual,
         \/ RunRefreshes
         \/ \E c \in Commands : ConfirmBind(c) \/ CommandEnds(c)
         \/ \E h \in Handlers : UpdateArrives(h)
  PROVE  CoreOK' /\ DevicesActual'
  <1>p. Run \in Processes /\ Commands \subseteq Processes /\ Handlers \subseteq Tasks
    BY DEF Processes, Tasks
  <1>d. ASSUME NEW p \in Processes, at[p] \in {"ready", "up"}
        PROVE  sess[p] \in State /\ sess[p].dev # 0 /\ sess[p].dev \in Devices
    BY <1>d, Numbers DEF CoreOK, DevicesActual, State, Devices
  <1>1. CASE RunRefreshes
    <2>1. sess[Run] \in State /\ sess[Run].dev # 0
      BY <1>1, <1>d, <1>p DEF RunRefreshes
    <2>2. Waits(Run, "asking", sess[Run], "up") /\ "asking" \in Places /\ "up" \in Goals
      BY <1>1 DEF RunRefreshes, Places, Goals
    <2>3. sess' = sess /\ sess \in [Processes -> State]
      BY <1>1 DEF RunRefreshes, CoreOK
    <2>4. /\ at' \in [Tasks -> Places] /\ held' \in [Tasks -> State] /\ goal' \in [Tasks -> Goals]
          /\ \A u \in Tasks : at'[u] \in {"registering", "asking", "opening", "writing"} => held'[u].dev # 0
          /\ \A q \in Processes : at'[q] \in {"ready", "up"} => sess'[q].dev # 0
      BY <1>p, <2>1, <2>2, <2>3, WaitsOfProcess
    <2>5. QED
      BY <1>1, <2>3, <2>4 DEF RunRefreshes, fileVars, serverVars, toldVars, CoreOK, DevicesActual
  <1>2. ASSUME NEW c \in Commands, ConfirmBind(c)
        PROVE  CoreOK' /\ DevicesActual'
    <2> DEFINE d == sess[c].dev
               s == [dev |-> d, key |-> ctx'[d]]
    <2>1. d \in Devices /\ ctx' \in [Devices -> 0 .. MaxKey]
      BY <1>2, <1>d, <1>p, Numbers DEF ConfirmBind, CoreOK
    <2>2. s \in State /\ s.dev # 0
      BY <2>1, Numbers DEF State, Devices
    <2>3. Waits(c, "opening", s, "off") /\ "opening" \in Places /\ "off" \in Goals
      BY <1>2 DEF ConfirmBind, Places, Goals
    <2>4. sess' = sess /\ sess \in [Processes -> State]
      BY <1>2 DEF ConfirmBind, CoreOK
    <2> HIDE DEF s
    <2>5. /\ at' \in [Tasks -> Places] /\ held' \in [Tasks -> State] /\ goal' \in [Tasks -> Goals]
          /\ \A u \in Tasks : at'[u] \in {"registering", "asking", "opening", "writing"} => held'[u].dev # 0
          /\ \A q \in Processes : at'[q] \in {"ready", "up"} => sess'[q].dev # 0
      BY <1>p, <2>2, <2>3, <2>4, WaitsOfProcess
    <2>6. QED
      BY <1>2, <2>1, <2>4, <2>5 DEF ConfirmBind, fileVars, toldVars, CoreOK, DevicesActual
  <1>3. ASSUME NEW c \in Commands, CommandEnds(c)
        PROVE  CoreOK' /\ DevicesActual'
    BY <1>3, <1>p, EndsType DEF CommandEnds, fileVars, serverVars, toldVars, CoreOK, DevicesActual
  <1>4. ASSUME NEW h \in Handlers, UpdateArrives(h)
        PROVE  CoreOK' /\ DevicesActual'
    <2> DEFINE d == sess[Run].dev
    <2>1. d \in Devices /\ ctx[d] \in 0 .. MaxKey
      BY <1>4, <1>d, <1>p DEF UpdateArrives, CoreOK
    <2>2. PICK k \in heard + 1 .. ctx[d] :
            /\ heard' = k /\ unkept' \in BOOLEAN
            /\ Waits(h, "opening", [dev |-> d, key |-> k], "off") \/ UNCHANGED <<at, held, goal>>
      BY <1>4 DEF UpdateArrives
    <2>3. k \in 0 .. MaxKey
      BY <2>1, <2>2, Numbers DEF CoreOK
    <2>c. CASE UNCHANGED <<at, held, goal>>
      BY <1>4, <2>2, <2>3, <2>c DEF UpdateArrives, fileVars, serverVars, CoreOK, DevicesActual
    <2> DEFINE s == [dev |-> d, key |-> k]
    <2>4. s \in State /\ s.dev # 0 /\ "opening" \in Places /\ "off" \in Goals
      BY <2>1, <2>3, Numbers DEF State, Devices, Places, Goals
    <2>5. CASE Waits(h, "opening", [dev |-> d, key |-> k], "off")
      <3>1. Waits(h, "opening", s, "off")
        BY <2>5
      <3> HIDE DEF s
      <3>2. /\ at' \in [Tasks -> Places] /\ held' \in [Tasks -> State] /\ goal' \in [Tasks -> Goals]
            /\ \A u \in Tasks : u # h => at'[u] = at[u] /\ held'[u] = held[u]
            /\ \A u \in Tasks : at'[u] \in {"registering", "asking", "opening", "writing"} => held'[u].dev # 0
        BY <1>p, <2>4, <3>1, WaitsType
      <3>3. DevicesActual'
        BY <1>4, <3>2, HomeOfProcess DEF UpdateArrives, fileVars, DevicesActual
      <3>4. QED
        BY <1>4, <2>2, <2>3, <3>2, <3>3 DEF UpdateArrives, fileVars, serverVars, CoreOK
    <2>6. QED
      BY <2>2, <2>c, <2>5
  <1>5. QED
    BY <1>1, <1>2, <1>3, <1>4

LEMMA WorldKeepsType ==
  ASSUME CoreOK, DevicesActual,
         \/ \E d \in Devices : Rotate(d) \/ Remove(d)
         \/ \E p \in Processes : Terminate(p)
  PROVE  CoreOK' /\ DevicesActual'
  <1>1. ASSUME NEW d \in Devices, Rotate(d)
        PROVE  CoreOK' /\ DevicesActual'
    <2>1. ctx' \in [Devices -> 0 .. MaxKey]
      BY <1>1, Numbers DEF Rotate, CoreOK
    <2>2. QED
      BY <1>1, <2>1 DEF Rotate, fileVars, procVars, toldVars, CoreOK, DevicesActual
  <1>2. ASSUME NEW d \in Devices, Remove(d)
        PROVE  CoreOK' /\ DevicesActual'
    BY <1>2 DEF Remove, fileVars, procVars, toldVars, CoreOK, DevicesActual
  <1>3. ASSUME NEW p \in Processes, Terminate(p)
        PROVE  CoreOK' /\ DevicesActual'
    <2>1. /\ at' \in [Tasks -> Places] /\ held' \in [Tasks -> State] /\ goal' \in [Tasks -> Goals]
          /\ \A u \in Tasks :
               \/ at'[u] = "off"
               \/ at'[u] = at[u] /\ held'[u] = held[u] /\ Home(u) # p
      <3>1. at' \in [Tasks -> Places] /\ goal' \in [Tasks -> Goals]
        BY <1>3 DEF Terminate, CoreOK, Places, Goals
      <3>2. held' \in [Tasks -> State]
        BY <1>3, BlankType DEF Terminate, CoreOK
      <3>3. ASSUME NEW u \in Tasks
            PROVE  \/ at'[u] = "off"
                   \/ at'[u] = at[u] /\ held'[u] = held[u] /\ Home(u) # p
        <4>1. /\ at'[u] = IF Home(u) = p THEN "off" ELSE at[u]
              /\ held'[u] = IF Home(u) = p THEN Blank ELSE held[u]
          BY <1>3 DEF Terminate
        <4>2. QED
          BY <4>1
      <3>4. QED
        BY <3>1, <3>2, <3>3
    <2>2. sess' \in [Processes -> State] /\ \A q \in Processes : q # p => sess'[q] = sess[q]
      <3>1. sess' = [sess EXCEPT ![p] = Blank] /\ sess \in [Processes -> State]
        BY <1>3 DEF Terminate, CoreOK
      <3>2. QED
        BY <3>1, BlankType
    <2>3. DevicesActual'
      <3>1. file' = file
        BY <1>3 DEF Terminate
      <3>2. QED
        BY <2>1, <2>2, <3>1, HomeOfProcess DEF DevicesActual
    <2>4. excused' \in SUBSET Devices
      <3>1. Making(p) => held[p].dev \in Devices
        BY HomeOfProcess, Numbers DEF Making, CoreOK, DevicesActual, State, Devices
      <3>2. QED
        BY <1>3, <3>1 DEF Terminate, CoreOK
    <2>5. ctx' \in [Devices -> 0 .. MaxKey]
      BY <1>3, Numbers DEF Terminate, CoreOK
    <2>6. /\ heard' \in 0 .. MaxKey /\ kills' \in 0 .. MaxKills
          /\ linked' \in SUBSET Tasks /\ spoilt' \in BOOLEAN
      BY <1>3, Numbers DEF Terminate, CoreOK
    <2>7. QED
      BY <1>3, <2>1, <2>2, <2>3, <2>4, <2>5, <2>6 DEF Terminate, CoreOK
  <1>4. QED
    BY <1>1, <1>2, <1>3

LEMMA StepType == TypeOK /\ DevicesActual /\ [Next]_vars => TypeOK' /\ DevicesActual'
  <1> SUFFICES ASSUME TypeOK, DevicesActual, [Next]_vars PROVE TypeOK' /\ DevicesActual'
    OBVIOUS
  <1>0. CoreOK
    BY TypeIsCore
  <1>1. CASE Next
    <2>1. Step /\ Watch
      BY <1>1 DEF Next
    <2>2. CoreOK' /\ DevicesActual'
      <3>1. CASE \E p \in Processes : ProcessStep(p)
        BY <1>0, <3>1, StartKeepsType, AnswerKeepsType, WorldKeepsType DEF ProcessStep
      <3>2. CASE \E c \in Commands : CommandStep(c)
        BY <1>0, <3>2, StartKeepsType, WorkKeepsType DEF CommandStep, Processes
      <3>3. CASE RunRefreshes \/ \E h \in Handlers : UpdateArrives(h)
        BY <1>0, <3>3, WorkKeepsType
      <3>4. CASE \E t \in Tasks : OpenForSave(t) \/ SaveEnds(t) \/ SaveFails(t)
        BY <1>0, <3>4, SaveKeepsType
      <3>5. CASE \E d \in Devices : Rotate(d) \/ Remove(d)
        BY <1>0, <3>5, WorldKeepsType
      <3>6. QED
        BY <2>1, <3>1, <3>2, <3>3, <3>4, <3>5 DEF Step
    <2>3. crowd' \in SUBSET Devices
      BY <2>1 DEF Watch, TypeOK
    <2>4. QED
      BY <2>2, <2>3 DEF TypeOK, CoreOK, Places, Goals
  <1>2. CASE UNCHANGED vars
    BY <1>2 DEF vars, fileVars, procVars, serverVars, toldVars, TypeOK, DevicesActual
  <1>3. QED
    BY <1>1, <1>2

\* Every variable has its type, in every reachable state.
THEOREM TypeCorrect == Spec => []TypeOK
  <1>1. Spec => [](TypeOK /\ DevicesActual)
    BY InitType, StepType, PTL DEF Spec
  <1>2. QED
    BY <1>1, PTL

-----------------------------------------------------------------------------
(* What spoils the file *)

\* Why only a write that fails, is cut off or meets another spoils the file: while one
\* task writes alone, what it has truncated stays so, and its contents replace nothing.
FileInv ==
  /\ file.is = "torn" => linked # {} \/ spoilt
  /\ linked # {} => file = Torn \/ spoilt
  /\ (\E t, u \in linked : t # u) => spoilt

LEMMA TornIsTorn == Torn.is = "torn" /\ Missing.is = "missing" /\ \A s : Whole(s).is = "whole"
  BY DEF Torn, Missing, Whole

\* A step that opens, closes and writes nothing.
LEMMA FileUntouched ==
  ASSUME FileInv, UNCHANGED fileVars, spoilt' = spoilt
  PROVE  FileInv'
  BY DEF FileInv, fileVars

LEMMA StepFile == FileInv /\ [Next]_vars => FileInv'
  <1> SUFFICES ASSUME FileInv, [Next]_vars PROVE FileInv'
    OBVIOUS
  <1>1. CASE UNCHANGED vars
    BY <1>1, FileUntouched DEF vars
  <1> SUFFICES ASSUME Step PROVE FileInv'
    BY <1>1 DEF Next
  <1>2. ASSUME NEW p \in Processes, StartAfresh(p)
        PROVE  FileInv'
    BY <1>2, TornIsTorn DEF StartAfresh, FileInv
  <1>3. ASSUME NEW p \in Processes, Terminate(p)
        PROVE  FileInv'
    <2>1. file' = file /\ linked' = linked \ TasksOf(p)
      BY <1>3 DEF Terminate
    <2>2. linked' = {} => linked = {} \/ linked \cap TasksOf(p) # {}
      BY <2>1
    <2>3. (spoilt => spoilt') /\ (linked \cap TasksOf(p) # {} => spoilt')
      BY <1>3 DEF Terminate
    <2>4. QED
      BY <2>1, <2>2, <2>3 DEF FileInv
  <1>4. ASSUME NEW t \in Tasks, OpenForSave(t)
        PROVE  FileInv'
    <2>1. file' = Torn /\ linked' = linked \cup {t} /\ spoilt' = (linked # {})
      BY <1>4 DEF OpenForSave
    <2>2. QED
      BY <2>1 DEF FileInv
  <1>5. ASSUME NEW t \in Tasks, SaveEnds(t)
        PROVE  FileInv'
    <2>0. linked' = linked \ {t} /\ spoilt' = spoilt
      BY <1>5 DEF SaveEnds
    <2>1. CASE t \notin linked
      <3>1. file' = file /\ linked' = linked
        BY <1>5, <2>0, <2>1 DEF SaveEnds
      <3>2. QED
        BY <2>0, <3>1 DEF FileInv
    <2>2. CASE t \in linked /\ file # Torn
      <3>1. spoilt'
        BY <2>0, <2>2 DEF FileInv
      <3>2. QED
        BY <3>1 DEF FileInv
    <2>3. CASE t \in linked /\ file = Torn
      <3>1. file' = Whole(held[t])
        BY <1>5, <2>3 DEF SaveEnds, Contents
      <3>2. file'.is # "torn"
        BY <3>1, TornIsTorn
      <3>3. linked' # {} => spoilt'
        BY <2>0, <2>3 DEF FileInv
      <3>4. QED
        BY <2>0, <3>2, <3>3 DEF FileInv
    <2>4. QED
      BY <2>1, <2>2, <2>3
  <1>6. ASSUME NEW t \in Tasks, SaveFails(t)
        PROVE  FileInv'
    <2>1. linked' = linked \ {t}
      BY <1>6 DEF SaveFails
    <2>2. CASE spoilt'
      BY <2>2 DEF FileInv
    <2>3. CASE t \notin linked /\ UNCHANGED <<file, spoilt>>
      BY <2>1, <2>3 DEF FileInv
    <2>4. QED
      BY <1>6, <2>2, <2>3 DEF SaveFails
  <1>7. ASSUME NEW p \in Processes,
               \/ StartFresh(p) \/ StartKnown(p) \/ Registered(p) \/ RegistrationFails(p)
               \/ ContextArrives(p) \/ ContextFails(p)
        PROVE  FileInv'
    BY <1>7, FileUntouched
       DEF StartFresh, StartKnown, Registered, RegistrationFails, ContextArrives, ContextFails
  <1>8. ASSUME NEW c \in Commands, CommandStep(c)
        PROVE  FileInv'
    BY <1>8, FileUntouched DEF CommandStep, StartRecovery, ConfirmBind, CommandEnds
  <1>9. CASE \/ RunRefreshes
             \/ \E h \in Handlers : UpdateArrives(h)
             \/ \E d \in Devices : Rotate(d) \/ Remove(d)
    BY <1>9, FileUntouched DEF RunRefreshes, UpdateArrives, Rotate, Remove
  <1>10. QED
    BY <1>2, <1>3, <1>4, <1>5, <1>6, <1>7, <1>8, <1>9 DEF Step, ProcessStep

\* The state file is not fit to be read only while it is being written, or after a
\* write that failed, was cut off or met another.
THEOREM FileCorrect == Spec => []FileFit
  <1>1. Init => FileInv
    BY TornIsTorn DEF Init, FileInv
  <1>2. FileInv => FileFit
    BY DEF FileInv, FileFit
  <1>3. QED
    BY <1>1, <1>2, StepFile, PTL DEF Spec

-----------------------------------------------------------------------------
(* The newest key *)

\* Why realtime sync uses the newest key: its handlers run only while it is up, and
\* unless the newest key came beside another or was not kept, one at most is at work and
\* holds that key.
KeyInv ==
  /\ \A h \in Handlers : Alive(h) => at[Run] = "up" /\ at[h] \in {"opening", "writing"} /\ goal[h] = "off"
  /\ ~unkept => \A g, h \in Handlers : Alive(g) /\ Alive(h) => g = h
  /\ ~unkept => \A h \in Handlers : Alive(h) => held[h].key = heard
  /\ at[Run] = "up" /\ (\A h \in Handlers : ~Alive(h)) /\ ~unkept => sess[Run].key = heard

\* What a process other than Run does.
LEMMA KeyUntouched ==
  ASSUME KeyInv, unkept => unkept',
         at'[Run] = at[Run], sess'[Run] = sess[Run], heard' = heard,
         \A h \in Handlers : at'[h] = at[h] /\ held'[h] = held[h] /\ goal'[h] = goal[h]
  PROVE  KeyInv'
  BY DEF KeyInv, Alive

\* Run is not up after the step, and its handlers have not begun.
LEMMA KeyNotUp ==
  ASSUME KeyInv, at'[Run] # "up", at[Run] # "up" \/ \A h \in Handlers : at'[h] = "off",
         \A h \in Handlers : at'[h] \in {at[h], "off"}
  PROVE  KeyInv'
  BY DEF KeyInv, Alive

LEMMA StepKey == TypeOK /\ KeyInv /\ [Next]_vars => KeyInv'
  <1> SUFFICES ASSUME TypeOK, KeyInv, [Next]_vars PROVE KeyInv'
    OBVIOUS
  <1>1. CASE UNCHANGED vars
    BY <1>1, KeyUntouched DEF vars, procVars, toldVars
  <1> SUFFICES ASSUME Step PROVE KeyInv'
    BY <1>1 DEF Next
  <1>t. /\ at \in [Tasks -> Places] /\ held \in [Tasks -> State] /\ goal \in [Tasks -> Goals]
        /\ sess \in [Processes -> State]
    BY TypeIsCore DEF CoreOK
  <1>p. /\ Run \in Processes /\ Run \in Tasks /\ Run \notin Handlers /\ Run \notin Commands
        /\ Handlers \subseteq Tasks /\ Commands \subseteq Processes
        /\ \A h \in Handlers : h \notin Processes
    BY ClientAssumption DEF Processes, Tasks
  \* A process p that waits for something else than to be up.
  <1>a. ASSUME NEW p \in Processes, NEW w, NEW s, NEW g, Waits(p, w, s, g), w # "up", at[p] # "up",
               sess' = sess \/ (\E y : sess' = [sess EXCEPT ![p] = y]),
               heard' = heard, unkept' = unkept
        PROVE  KeyInv'
    <2>1. \A h \in Handlers : at'[h] = at[h] /\ held'[h] = held[h] /\ goal'[h] = goal[h]
      BY <1>a, <1>t, <1>p DEF Waits
    <2>2. CASE p = Run
      <3>1. at'[Run] = w
        BY <1>a, <1>t, <1>p, <2>2 DEF Waits
      <3>2. QED
        BY <1>a, <2>1, <2>2, <3>1, KeyNotUp
    <2>3. CASE p # Run
      <3>1. at'[Run] = at[Run] /\ sess'[Run] = sess[Run]
        BY <1>a, <1>t, <1>p, <2>3 DEF Waits
      <3>2. QED
        BY <1>a, <2>1, <3>1, KeyUntouched
    <2>4. QED
      BY <2>2, <2>3
  <1>2. ASSUME NEW p \in Processes,
               StartFresh(p) \/ StartKnown(p) \/ StartAfresh(p) \/ (p \in Commands /\ StartRecovery(p))
        PROVE  KeyInv'
    <2>1. /\ at[p] # "up" /\ heard' = heard /\ unkept' = unkept
          /\ \E y : sess' = [sess EXCEPT ![p] = y]
      BY <1>2 DEF StartFresh, StartKnown, StartAfresh, StaleAndReset, StartRecovery, MakeIdentity, Alive,
                  toldVars
    <2>2. \E w, s, g : Waits(p, w, s, g) /\ w # "up"
      BY <1>2 DEF StartFresh, StartKnown, StartAfresh, StartRecovery, MakeIdentity
    <2>3. QED
      BY <2>1, <2>2, <1>a
  <1>3. ASSUME NEW p \in Processes,
               Registered(p) \/ RegistrationFails(p) \/ ContextArrives(p) \/ ContextFails(p)
               \/ (p \in Commands /\ (ConfirmBind(p) \/ CommandEnds(p)))
        PROVE  KeyInv'
    <2>1. /\ at[p] # "up" /\ heard' = heard /\ unkept' = unkept
          /\ sess' = sess \/ \E y : sess' = [sess EXCEPT ![p] = y]
      BY <1>3 DEF Registered, RegistrationFails, ContextArrives, ContextFails, Ends, ConfirmBind, CommandEnds,
                  toldVars
    <2>2. \E w, s, g : Waits(p, w, s, g) /\ w # "up"
      BY <1>3 DEF Registered, RegistrationFails, ContextArrives, ContextFails, Ends, ConfirmBind, CommandEnds
    <2>3. QED
      BY <2>1, <2>2, <1>a
  <1>4. CASE RunRefreshes
    <2>1. /\ at[Run] # "up" /\ sess' = sess /\ heard' = heard /\ unkept' = unkept
          /\ Waits(Run, "asking", sess[Run], "up")
      BY <1>4 DEF RunRefreshes, toldVars
    <2>2. QED
      BY <2>1, <1>a, <1>p
  <1>5. ASSUME NEW t \in Tasks, OpenForSave(t)
        PROVE  KeyInv'
    <2>1. /\ at' = [at EXCEPT ![t] = "writing"] /\ at[t] = "opening"
          /\ UNCHANGED <<sess, held, goal, heard, unkept>>
      BY <1>5 DEF OpenForSave, toldVars
    <2>2. \A u \in Tasks : (at'[u] = "off" <=> at[u] = "off") /\ (at'[u] = "up" <=> at[u] = "up")
      BY <2>1, <1>t
    <2>3. \A h \in Handlers : at'[h] \in {at[h], "writing"} /\ (Alive(h)' <=> Alive(h))
      BY <2>1, <2>2, <1>t, <1>p DEF Alive
    <2>4. at'[Run] = "up" <=> at[Run] = "up"
      BY <2>2, <1>p
    <2>5. QED
      BY <2>1, <2>3, <2>4 DEF KeyInv
  <1>6. ASSUME NEW t \in Processes, SaveEnds(t)
        PROVE  KeyInv'
    <2>0. t \in Tasks /\ t \notin Handlers /\ Home(t) = t
      BY HomeOfProcess
    <2>1. Waits(t, goal[t], Blank, "off") /\ at[t] = "writing"
      BY <1>6 DEF SaveEnds
    <2>2. \A h \in Handlers : at'[h] = at[h] /\ held'[h] = held[h] /\ goal'[h] = goal[h]
      BY <2>0, <2>1, <1>t, <1>p DEF Waits
    <2>3. CASE t # Run
      <3>1. at'[Run] = at[Run] /\ heard' = heard /\ unkept' = unkept
        BY <1>6, <2>1, <2>3, <1>t, <1>p DEF Waits, SaveEnds, toldVars
      <3>2. sess'[Run] = sess[Run]
        BY <1>6, <2>0, <2>3, <1>t, <1>p DEF SaveEnds, Attach
      <3>3. QED
        BY <2>2, <3>1, <3>2, KeyUntouched
    <2>4. CASE t = Run
      <3>1. \A h \in Handlers : ~Alive(h) /\ ~Alive(h)'
        BY <2>1, <2>2, <2>4 DEF KeyInv, Alive
      <3>2. heard' = held[Run].key
        BY <1>6, <2>4 DEF SaveEnds
      <3>3. at'[Run] = goal[Run]
        BY <2>1, <2>4, <1>t, <1>p DEF Waits
      <3>4. goal[Run] = "up" => sess'[Run] = held[Run]
        BY <1>6, <2>0, <2>4, <1>t, <1>p DEF SaveEnds, Attach
      <3>5. QED
        BY <3>1, <3>2, <3>3, <3>4 DEF KeyInv
    <2>5. QED
      BY <2>3, <2>4
  <1>7. ASSUME NEW h \in Handlers, SaveEnds(h)
        PROVE  KeyInv'
    <2>0. h \in Tasks /\ h \notin Processes /\ h # Run /\ Home(h) = Run
      BY <1>p DEF Home
    <2>1. Waits(h, goal[h], Blank, "off") /\ at[h] = "writing" /\ heard' = heard /\ unkept' = unkept
      BY <1>7, <2>0 DEF SaveEnds, toldVars
    <2>2. Alive(h) /\ goal[h] = "off" /\ at[Run] = "up"
      BY <2>1 DEF KeyInv, Alive
    <2>3. sess'[Run] = held[h]
      BY <1>7, <2>0, <1>t, <1>p DEF SaveEnds, Attach
    <2>4. /\ at'[Run] = at[Run] /\ at'[h] = "off"
          /\ \A g \in Handlers : g # h => at'[g] = at[g] /\ held'[g] = held[g] /\ goal'[g] = goal[g]
      BY <2>0, <2>1, <2>2, <1>t, <1>p DEF Waits
    <2>5. \A g \in Handlers : (g # h => (Alive(g)' <=> Alive(g))) /\ ~Alive(h)'
      BY <2>4 DEF Alive
    <2>6. QED
      BY <2>1, <2>2, <2>3, <2>4, <2>5 DEF KeyInv
  <1>8. ASSUME NEW h \in Handlers, UpdateArrives(h)
        PROVE  KeyInv'
    <2>1. /\ at[Run] = "up" /\ ~Alive(h) /\ sess' = sess
          /\ \/ \E k : /\ heard' = k /\ Waits(h, "opening", [dev |-> sess[Run].dev, key |-> k], "off")
                       /\ unkept' = (\E g \in Handlers : Alive(g))
             \/ unkept' = TRUE /\ UNCHANGED <<at, held, goal>>
      BY <1>8 DEF UpdateArrives
    <2>2. CASE unkept' = TRUE /\ UNCHANGED <<at, held, goal>>
      BY <2>1, <2>2 DEF KeyInv, Alive
    <2>3. CASE \E k : /\ heard' = k /\ Waits(h, "opening", [dev |-> sess[Run].dev, key |-> k], "off")
                      /\ unkept' = (\E g \in Handlers : Alive(g))
      <3>1. /\ at'[Run] = at[Run] /\ at'[h] = "opening" /\ goal'[h] = "off" /\ held'[h].key = heard'
            /\ \A g \in Handlers : g # h => at'[g] = at[g] /\ held'[g] = held[g] /\ goal'[g] = goal[g]
        BY <2>3, <1>t, <1>p DEF Waits
      <3>2. Alive(h)' /\ \A g \in Handlers : g # h => (Alive(g)' <=> Alive(g))
        BY <3>1 DEF Alive
      <3>3. ~unkept' => \A g \in Handlers : Alive(g)' => g = h
        BY <2>3, <3>2
      <3>4. QED
        BY <2>1, <3>1, <3>2, <3>3 DEF KeyInv
    <2>4. QED
      BY <2>1, <2>2, <2>3
  <1>9. ASSUME NEW d \in Devices, Rotate(d) \/ Remove(d)
        PROVE  KeyInv'
    BY <1>9, KeyUntouched DEF Rotate, Remove, procVars, toldVars
  <1>10. ASSUME NEW p \in Processes, Terminate(p)
         PROVE  KeyInv'
    <2>1. /\ at' = [t \in Tasks |-> IF Home(t) = p THEN "off" ELSE at[t]]
          /\ held' = [t \in Tasks |-> IF Home(t) = p THEN Blank ELSE held[t]]
          /\ goal' = [t \in Tasks |-> IF Home(t) = p THEN "off" ELSE goal[t]]
          /\ sess' = [sess EXCEPT ![p] = Blank]
          /\ (p # Run => heard' = heard) /\ unkept' = unkept
      BY <1>10 DEF Terminate
    <2>2. Home(Run) = Run /\ \A h \in Handlers : Home(h) = Run
      BY <1>p DEF Home
    <2>3. CASE p = Run
      BY <2>1, <2>2, <2>3, <1>p, KeyNotUp
    <2>4. CASE p # Run
      <3>1. /\ at'[Run] = at[Run] /\ sess'[Run] = sess[Run] /\ heard' = heard
            /\ \A h \in Handlers : at'[h] = at[h] /\ held'[h] = held[h] /\ goal'[h] = goal[h]
        BY <2>1, <2>2, <2>4, <1>p, <1>t
      <3>2. QED
        BY <2>1, <3>1, KeyUntouched
    <2>5. QED
      BY <2>3, <2>4
  <1>11. ASSUME NEW t \in Processes, SaveFails(t)
         PROVE  KeyInv'
    <2>0. t \in Tasks /\ t \notin Handlers
      BY HomeOfProcess
    <2>1. /\ at[t] # "up" /\ heard' = heard /\ unkept' = unkept
          /\ \E y : sess' = [sess EXCEPT ![t] = y]
          /\ Waits(t, "off", Blank, "off")
      BY <1>11, <2>0, TypeIsCore DEF SaveFails, Ends, CoreOK
    <2>2. QED
      BY <2>1, <1>a
  <1>12. ASSUME NEW h \in Handlers, SaveFails(h)
         PROVE  KeyInv'
    <2>1. unkept' /\ Waits(h, "off", Blank, "off")
      BY <1>12 DEF SaveFails
    <2>2. /\ at'[Run] = at[Run] /\ at'[h] = "off"
          /\ \A g \in Handlers : g # h => at'[g] = at[g] /\ goal'[g] = goal[g]
      BY <2>1, <1>t, <1>p DEF Waits
    <2>3. QED
      BY <2>1, <2>2 DEF KeyInv, Alive
  <1>13. QED
    BY <1>2, <1>3, <1>4, <1>5, <1>6, <1>7, <1>8, <1>9, <1>10, <1>11, <1>12, <1>p
       DEF Step, ProcessStep, CommandStep, Tasks

\* At rest, realtime sync uses the newest key it was told of, unless that one came beside
\* another or could not be kept.
THEOREM KeyCorrect == Spec => []NewestKeyKept
  <1>1. Init => KeyInv
    BY ClientAssumption DEF Init, KeyInv, Alive, Processes, Tasks
  <1>2. KeyInv => NewestKeyKept
    BY DEF KeyInv, NewestKeyKept
  <1>3. QED
    BY <1>1, <1>2, StepKey, TypeCorrect, PTL DEF Spec

-----------------------------------------------------------------------------
(* The seats of a host: who works for which device *)

Registers(d) == ctx[d] > 0

\* A process has in its session the device it works for, unless it is about to attach
\* a new one, and that device is registered but while it is being registered.
Placed(p) ==
  /\ at[p] = "registering" => sess[p].dev = 0
  /\ at[p] = "asking" => held[p].dev = sess[p].dev
  /\ at[p] \in {"asking", "opening", "writing"} => Registers(held[p].dev)
  /\ at[p] \in {"ready", "up"} => Registers(sess[p].dev)

\* So does the file, when it can be read, and a handler works for the device of Run.
PlacesInv ==
  /\ file.state.dev # 0 => file.is = "whole" /\ Registers(file.state.dev)
  /\ \A h \in Handlers : Alive(h) => held[h].dev = sess[Run].dev
  /\ \A p \in Processes : Placed(p)

LEMMA Moved ==
  ASSUME TypeOK, NEW t \in Tasks, NEW w, NEW s, NEW g, Waits(t, w, s, g)
  PROVE  /\ at'[t] = w /\ held'[t] = s /\ goal'[t] = g
         /\ \A u \in Tasks : u # t => at'[u] = at[u] /\ held'[u] = held[u]
  BY TypeIsCore DEF CoreOK, Waits

LEMMA Attached ==
  ASSUME TypeOK, NEW p \in Processes, NEW y, sess' = [sess EXCEPT ![p] = y]
  PROVE  sess'[p] = y /\ \A q \in Processes : q # p => sess'[q] = sess[q]
  BY TypeIsCore DEF CoreOK

LEMMA Kinds ==
  /\ Run \in Processes /\ Run \in Tasks /\ Run \notin Handlers /\ Run \notin Commands
  /\ Commands \subseteq Processes /\ Processes \subseteq Tasks /\ Handlers \subseteq Tasks
  /\ \A t \in Tasks : (t \in Processes /\ Home(t) = t) \/ (t \in Handlers /\ Home(t) = Run)
  /\ \A p \in Processes : p \notin Handlers /\ Home(p) = p
  /\ \A h \in Handlers : h \notin Processes /\ Home(h) = Run
  BY ClientAssumption DEF Processes, Tasks, Home

\* What is held, read or attached is the number of a device.
LEMMA DeviceNumbers ==
  ASSUME TypeOK
  PROVE  /\ \A s \in State : s.dev # 0 => s.dev \in Devices
         /\ \A d \in Devices : d # 0
         /\ file.state \in State
         /\ \A t \in Tasks : held[t] \in State
         /\ \A p \in Processes : sess[p] \in State
  BY TypeIsCore, Numbers DEF CoreOK, State, Devices

\* No device is unregistered: a key is only ever followed by another.
LEMMA Grows ==
  ASSUME TypeOK, DevicesActual, Step
  PROVE  \A d \in Devices : ctx[d] > 0 => ctx'[d] > 0
  <1>1. ctx \in [Devices -> 0 .. MaxKey] /\ MaxKey \in Nat
    BY Numbers, TypeIsCore DEF CoreOK
  <1>2. ASSUME NEW d, ctx' = [ctx EXCEPT ![d] = 1] \/ ctx' = [ctx EXCEPT ![d] = @ + 1]
        PROVE  \A e \in Devices : ctx[e] > 0 => ctx'[e] > 0
    BY <1>1, <1>2
  <1>3. CASE \E p \in Processes : ProcessStep(p)
    <2>1. ctx' = ctx \/ \E d : ctx' = [ctx EXCEPT ![d] = 1]
      BY <1>3 DEF ProcessStep, StartFresh, StartKnown, Registered, RegistrationFails, ContextArrives,
                  StartAfresh, ContextFails, Terminate, serverVars
    <2>2. QED
      BY <1>2, <2>1
  <1>4. CASE \E c \in Commands : CommandStep(c)
    <2>1. ctx' = ctx \/ \E d : ctx' = [ctx EXCEPT ![d] = @ + 1]
      BY <1>4 DEF CommandStep, StartRecovery, ConfirmBind, CommandEnds, serverVars
    <2>2. QED
      BY <1>2, <2>1
  <1>5. CASE \/ RunRefreshes
             \/ \E t \in Tasks : OpenForSave(t) \/ SaveEnds(t) \/ SaveFails(t)
             \/ \E h \in Handlers : UpdateArrives(h)
    BY <1>5 DEF RunRefreshes, OpenForSave, SaveEnds, SaveFails, UpdateArrives, serverVars
  <1>6. CASE \E d \in Devices : Rotate(d) \/ Remove(d)
    BY <1>2, <1>6 DEF Rotate, Remove
  <1>7. QED
    BY <1>3, <1>4, <1>5, <1>6 DEF Step

\* A process that is not up moves: nothing else does, and no handler is at work for it.
LEMMA ProcessMoves ==
  ASSUME TypeOK, DevicesActual, KeyInv, PlacesInv, NEW p \in Processes, at[p] # "up",
         \A d \in Devices : ctx[d] > 0 => ctx'[d] > 0,
         \A u \in Tasks : u # p => at'[u] = at[u] /\ held'[u] = held[u],
         \A q \in Processes : q # p => sess'[q] = sess[q],
         file'.state.dev # 0 => file'.is = "whole" /\ Registers(file.state.dev)',
         Placed(p)'
  PROVE  PlacesInv'
  <1>1. ASSUME NEW h \in Handlers, Alive(h)'
        PROVE  held'[h].dev = sess'[Run].dev
    <2>1. h # p /\ h \in Tasks
      BY Kinds
    <2>2. Alive(h) /\ held'[h] = held[h]
      BY <1>1, <2>1 DEF Alive
    <2>3. p # Run
      BY <2>2 DEF KeyInv
    <2>4. QED
      BY <2>2, <2>3, Kinds DEF PlacesInv
  <1>2. ASSUME NEW q \in Processes, q # p
        PROVE  Placed(q)'
    <2>1. at'[q] = at[q] /\ held'[q] = held[q] /\ sess'[q] = sess[q]
      BY <1>2, Kinds
    <2>2. Placed(q)
      BY DEF PlacesInv
    <2>3. at[q] \in {"asking", "opening", "writing"} => held[q].dev \in Devices
      BY DeviceNumbers, Kinds DEF DevicesActual
    <2>4. at[q] \in {"ready", "up"} => sess[q].dev \in Devices
      BY DeviceNumbers DEF DevicesActual
    <2>5. QED
      BY <2>1, <2>2, <2>3, <2>4 DEF Placed, Registers
  <1>3. QED
    BY <1>1, <1>2 DEF PlacesInv

\* The file is left alone.
LEMMA FilePlaced ==
  ASSUME TypeOK, PlacesInv, file' = file, \A d \in Devices : ctx[d] > 0 => ctx'[d] > 0
  PROVE  file'.state.dev # 0 => file'.is = "whole" /\ Registers(file.state.dev)'
  BY DeviceNumbers DEF PlacesInv, Registers

LEMMA StartPlaces ==
  ASSUME TypeOK, DevicesActual, KeyInv, PlacesInv, NEW p \in Processes,
         \A d \in Devices : ctx[d] > 0 => ctx'[d] > 0,
         StartFresh(p) \/ StartKnown(p) \/ StartAfresh(p) \/ StartRecovery(p)
  PROVE  PlacesInv'
  <1>0. p \in Tasks
    BY Kinds
  <1>1. at[p] # "up"
    BY DEF StartFresh, StartKnown, StartAfresh, StaleAndReset, StartRecovery, Alive
  <1>2. CASE MakeIdentity(p)
    <2>1. /\ at'[p] = "registering" /\ \A u \in Tasks : u # p => at'[u] = at[u] /\ held'[u] = held[u]
      BY <1>0, <1>2, Moved DEF MakeIdentity
    <2>2. sess'[p] = Blank /\ \A q \in Processes : q # p => sess'[q] = sess[q]
      BY <1>2, Attached DEF MakeIdentity
    <2>3. Placed(p)'
      BY <2>1, <2>2 DEF Placed, Blank
    <2>4. file'.state.dev # 0 => file'.is = "whole" /\ Registers(file.state.dev)'
      <3>1. CASE file' = file
        BY <3>1, FilePlaced
      <3>2. CASE file' = Missing
        BY <3>2 DEF Missing, Blank
      <3>3. QED
        BY <3>1, <3>2 DEF StartFresh, StartKnown, StartAfresh, StartRecovery, fileVars
    <2>5. QED
      BY <1>1, <2>1, <2>2, <2>3, <2>4, ProcessMoves
  <1>3. CASE StartKnown(p)
    <2>1. /\ at'[p] = "asking" /\ held'[p] = file.state
          /\ \A u \in Tasks : u # p => at'[u] = at[u] /\ held'[u] = held[u]
      BY <1>0, <1>3, Moved DEF StartKnown
    <2>2. sess'[p] = file.state /\ \A q \in Processes : q # p => sess'[q] = sess[q]
      BY <1>3, Attached DEF StartKnown
    <2>3. file.state.dev # 0 /\ file.state.dev \in Devices
      BY <1>3, DeviceNumbers DEF StartKnown, DevicesActual
    <2>4. Placed(p)'
      BY <2>1, <2>2, <2>3 DEF Placed, PlacesInv, Registers
    <2>5. file'.state.dev # 0 => file'.is = "whole" /\ Registers(file.state.dev)'
      BY <1>3, FilePlaced DEF StartKnown, fileVars
    <2>6. QED
      BY <1>1, <2>1, <2>2, <2>4, <2>5, ProcessMoves
  <1>4. QED
    BY <1>2, <1>3 DEF StartFresh, StartAfresh, StartRecovery

LEMMA AnswerPlaces ==
  ASSUME TypeOK, DevicesActual, KeyInv, PlacesInv, NEW p \in Processes,
         \A d \in Devices : ctx[d] > 0 => ctx'[d] > 0,
         \/ Registered(p) \/ RegistrationFails(p) \/ ContextArrives(p) \/ ContextFails(p)
         \/ ConfirmBind(p) \/ CommandEnds(p)
         \/ p = Run /\ RunRefreshes
  PROVE  PlacesInv'
  <1>0. p \in Tasks /\ Placed(p)
    BY Kinds DEF PlacesInv
  <1>1. at[p] # "up" /\ file' = file
    BY DEF Registered, RegistrationFails, ContextArrives, ContextFails, ConfirmBind, CommandEnds,
           RunRefreshes, fileVars
  <1>2. file'.state.dev # 0 => file'.is = "whole" /\ Registers(file.state.dev)'
    BY <1>1, FilePlaced
  <1>3. /\ at[p] \in {"registering", "asking"} => held[p].dev \in Devices
        /\ at[p] \in {"ready", "up"} => sess[p].dev \in Devices
    BY <1>0, DeviceNumbers DEF DevicesActual
  <1>4. ASSUME NEW w, NEW s, NEW g, Waits(p, w, s, g), sess' = sess, ctx'[s.dev] > 0,
               w = "opening" \/ (w = "asking" /\ s.dev = sess[p].dev)
        PROVE  PlacesInv'
    <2>1. /\ at'[p] = w /\ held'[p] = s
          /\ \A u \in Tasks : u # p => at'[u] = at[u] /\ held'[u] = held[u]
      BY <1>0, <1>4, Moved
    <2>2. Placed(p)'
      BY <1>4, <2>1 DEF Placed, Registers
    <2>3. QED
      BY <1>1, <1>2, <1>4, <2>1, <2>2, ProcessMoves
  <1>5. CASE Registered(p)
    <2>1. ctx' = [ctx EXCEPT ![held[p].dev] = 1] /\ held[p].dev \in Devices
      BY <1>3, <1>5 DEF Registered
    <2>2. ctx'[held[p].dev] = 1
      BY <2>1, TypeIsCore DEF CoreOK
    <2>3. Waits(p, "opening", [dev |-> held[p].dev, key |-> 1], "ready") /\ sess' = sess
      BY <1>5 DEF Registered
    <2>4. QED
      BY <1>4, <2>2, <2>3
  <1>6. CASE ContextArrives(p)
    <2>1. ctx'[held[p].dev] > 0
      BY <1>0, <1>3, <1>6 DEF ContextArrives, Placed, Registers
    <2>2. Waits(p, "opening", [dev |-> held[p].dev, key |-> ctx[held[p].dev]], goal[p]) /\ sess' = sess
      BY <1>6 DEF ContextArrives
    <2>3. QED
      BY <1>4, <2>1, <2>2
  <1>7. CASE ConfirmBind(p)
    <2>1. ctx'[sess[p].dev] > 0
      BY <1>0, <1>3, <1>7 DEF ConfirmBind, Placed, Registers
    <2>2. Waits(p, "opening", [dev |-> sess[p].dev, key |-> ctx'[sess[p].dev]], "off") /\ sess' = sess
      BY <1>7 DEF ConfirmBind
    <2>3. QED
      BY <1>4, <2>1, <2>2
  <1>8. CASE p = Run /\ RunRefreshes
    <2>1. ctx'[sess[p].dev] > 0
      BY <1>0, <1>3, <1>8 DEF RunRefreshes, Placed, Registers
    <2>2. Waits(p, "asking", sess[p], "up") /\ sess' = sess
      BY <1>8 DEF RunRefreshes
    <2>3. QED
      BY <1>4, <2>1, <2>2
  <1>9. CASE Ends(p)
    <2>1. /\ at'[p] = "off" /\ \A u \in Tasks : u # p => at'[u] = at[u] /\ held'[u] = held[u]
      BY <1>0, <1>9, Moved DEF Ends
    <2>2. \A q \in Processes : q # p => sess'[q] = sess[q]
      BY <1>9, Attached DEF Ends
    <2>3. Placed(p)'
      BY <2>1 DEF Placed
    <2>4. QED
      BY <1>1, <1>2, <2>1, <2>2, <2>3, ProcessMoves
  <1>10. QED
    BY <1>5, <1>6, <1>7, <1>8, <1>9 DEF RegistrationFails, ContextFails, CommandEnds

\* Processes stay as they are, but for the key in the session of Run.
LEMMA HandlersMove ==
  ASSUME TypeOK, DevicesActual, PlacesInv,
         \A d \in Devices : ctx[d] > 0 => ctx'[d] > 0,
         file'.state.dev # 0 => file'.is = "whole" /\ Registers(file.state.dev)',
         \A p \in Processes : /\ at'[p] = at[p] \/ (at[p] = "opening" /\ at'[p] = "writing")
                              /\ held'[p] = held[p] /\ sess'[p].dev = sess[p].dev,
         \A h \in Handlers : Alive(h)' => held'[h].dev = sess[Run].dev
  PROVE  PlacesInv'
  <1>1. ASSUME NEW p \in Processes
        PROVE  Placed(p)'
    <2>1. Placed(p)
      BY DEF PlacesInv
    <2>2. at[p] \in {"asking", "opening", "writing"} => held[p].dev \in Devices
      BY DeviceNumbers, Kinds DEF DevicesActual
    <2>3. at[p] \in {"ready", "up"} => sess[p].dev \in Devices
      BY DeviceNumbers DEF DevicesActual
    <2>4. QED
      BY <2>1, <2>2, <2>3 DEF Placed, Registers
  <1>2. QED
    BY <1>1, Kinds DEF PlacesInv

LEMMA SavePlaces ==
  ASSUME TypeOK, DevicesActual, KeyInv, PlacesInv, NEW t \in Tasks,
         \A d \in Devices : ctx[d] > 0 => ctx'[d] > 0,
         OpenForSave(t) \/ SaveEnds(t) \/ SaveFails(t)
  PROVE  PlacesInv'
  <1>0. at[t] \in {"opening", "writing"} /\ held[t].dev \in Devices
    BY DeviceNumbers DEF OpenForSave, SaveEnds, SaveFails, DevicesActual
  <1>1. Registers(held[t].dev)
    <2>1. CASE t \in Processes
      BY <1>0, <2>1 DEF PlacesInv, Placed
    <2>2. CASE t \in Handlers
      <3>1. held[t].dev = sess[Run].dev /\ at[Run] = "up"
        BY <1>0, <2>2 DEF PlacesInv, KeyInv, Alive
      <3>2. Registers(sess[Run].dev)
        BY <3>1, Kinds DEF PlacesInv, Placed
      <3>3. QED
        BY <3>1, <3>2
    <2>3. QED
      BY <2>1, <2>2, Kinds
  <1>2. CASE OpenForSave(t)
    <2>1. at' = [at EXCEPT ![t] = "writing"] /\ at[t] = "opening" /\ UNCHANGED <<sess, held>> /\ file' = Torn
      BY <1>2 DEF OpenForSave
    <2>2. at'[t] = "writing" /\ \A u \in Tasks : u # t => at'[u] = at[u]
      BY <2>1, TypeIsCore DEF CoreOK
    <2>3. \A h \in Handlers : Alive(h)' => held'[h].dev = sess[Run].dev
      BY <2>1, <2>2, Kinds DEF PlacesInv, Alive
    <2>4. file'.state.dev = 0
      BY <2>1 DEF Torn, Blank
    <2>5. \A p \in Processes : /\ at'[p] = at[p] \/ (at[p] = "opening" /\ at'[p] = "writing")
                               /\ held'[p] = held[p] /\ sess'[p].dev = sess[p].dev
      BY <2>1, <2>2, Kinds
    <2>6. QED
      BY <2>3, <2>4, <2>5, HandlersMove
  <1>3. CASE SaveEnds(t)
    <2>1. Waits(t, goal[t], Blank, "off") /\ goal[t] \in {"off", "ready", "up"}
      BY <1>3, TypeIsCore DEF SaveEnds, CoreOK, Goals
    <2>2. at'[t] = goal[t] /\ \A u \in Tasks : u # t => at'[u] = at[u] /\ held'[u] = held[u]
      BY <2>1, Moved
    <2>3. file' = file \/ file' \in {Torn, Whole(held[t])}
      BY <1>3 DEF SaveEnds, Contents
    <2>4. file'.state.dev # 0 => file'.is = "whole" /\ Registers(file.state.dev)'
      <3>1. CASE file' = file
        BY <3>1, FilePlaced
      <3>2. CASE file' = Torn
        BY <3>2 DEF Torn, Blank
      <3>3. CASE file' = Whole(held[t])
        BY <1>0, <1>1, <3>3 DEF Whole, Registers
      <3>4. QED
        BY <2>3, <3>1, <3>2, <3>3
    <2>5. CASE t \in Processes
      <3>1. at[t] # "up" /\ Home(t) = t
        BY <1>3, <2>5, Kinds DEF SaveEnds
      <3>2. \E y : sess' = [sess EXCEPT ![t] = y]
        BY <1>3, <3>1 DEF SaveEnds, Attach
      <3>3. \A q \in Processes : q # t => sess'[q] = sess[q]
        BY <2>5, <3>2, Attached
      <3>4. goal[t] # "off" => sess'[t] = held[t]
        BY <1>3, <2>5, <3>1, Attached DEF SaveEnds, Attach
      <3>5. Placed(t)'
        BY <1>0, <1>1, <2>1, <2>2, <3>4 DEF Placed, Registers
      <3>6. QED
        BY <2>2, <2>4, <2>5, <3>1, <3>3, <3>5, ProcessMoves
    <2>6. CASE t \in Handlers
      <3>1. held[t].dev = sess[Run].dev /\ goal[t] = "off" /\ t \notin Processes /\ Home(t) = Run
        BY <1>0, <2>6, Kinds DEF PlacesInv, KeyInv, Alive
      <3>2. sess' = [sess EXCEPT ![Run] = held[t]]
        BY <1>3, <3>1 DEF SaveEnds, Attach
      <3>3. sess'[Run] = held[t] /\ \A q \in Processes : q # Run => sess'[q] = sess[q]
        BY <3>2, Kinds, Attached
      <3>4. \A p \in Processes : at'[p] = at[p] /\ held'[p] = held[p] /\ sess'[p].dev = sess[p].dev
        BY <2>2, <3>1, <3>3, Kinds
      <3>5. \A h \in Handlers : Alive(h)' => held'[h].dev = sess[Run].dev
        BY <2>2, <3>1, Kinds DEF PlacesInv, Alive
      <3>6. QED
        BY <2>4, <3>4, <3>5, HandlersMove
    <2>7. QED
      BY <2>5, <2>6, Kinds
  <1>4. CASE SaveFails(t)
    <2>1. file'.state.dev # 0 => file'.is = "whole" /\ Registers(file.state.dev)'
      <3>1. CASE file' = file
        BY <3>1, FilePlaced
      <3>2. CASE file' = Torn
        BY <3>2 DEF Torn, Blank
      <3>3. QED
        BY <1>4, <3>1, <3>2 DEF SaveFails
    <2>2. Waits(t, "off", Blank, "off")
      BY <1>4 DEF SaveFails, Ends
    <2>3. at'[t] = "off" /\ \A u \in Tasks : u # t => at'[u] = at[u] /\ held'[u] = held[u]
      BY <2>2, Moved
    <2>4. CASE t \in Processes
      <3>1. \A q \in Processes : q # t => sess'[q] = sess[q]
        BY <1>4, <2>4, Kinds, Attached DEF SaveFails, Ends
      <3>2. Placed(t)'
        BY <2>3 DEF Placed
      <3>3. QED
        BY <1>0, <2>1, <2>3, <2>4, <3>1, <3>2, ProcessMoves
    <2>5. CASE t \in Handlers
      <3>1. sess' = sess
        BY <1>4, <2>5 DEF SaveFails
      <3>2. \A p \in Processes : at'[p] = at[p] /\ held'[p] = held[p] /\ sess'[p].dev = sess[p].dev
        BY <2>3, <2>5, <3>1, Kinds
      <3>3. \A h \in Handlers : Alive(h)' => held'[h].dev = sess[Run].dev
        BY <2>3, Kinds DEF PlacesInv, Alive
      <3>4. QED
        BY <2>1, <3>2, <3>3, HandlersMove
    <2>6. QED
      BY <2>4, <2>5, Kinds
  <1>5. QED
    BY <1>2, <1>3, <1>4

LEMMA WorldPlaces ==
  ASSUME TypeOK, DevicesActual, KeyInv, PlacesInv,
         \A d \in Devices : ctx[d] > 0 => ctx'[d] > 0,
         \/ \E h \in Handlers : UpdateArrives(h)
         \/ \E d \in Devices : Rotate(d) \/ Remove(d)
         \/ \E p \in Processes : Terminate(p)
  PROVE  PlacesInv'
  <1>1. file' = file
    BY DEF UpdateArrives, Rotate, Remove, Terminate, fileVars
  <1>2. file'.state.dev # 0 => file'.is = "whole" /\ Registers(file.state.dev)'
    BY <1>1, FilePlaced
  <1>3. ASSUME NEW h \in Handlers, UpdateArrives(h)
        PROVE  PlacesInv'
    <2>1. \/ \E k : Waits(h, "opening", [dev |-> sess[Run].dev, key |-> k], "off")
          \/ at' = at /\ held' = held
      BY <1>3 DEF UpdateArrives
    <2>2. /\ held'[h].dev = sess[Run].dev \/ (at' = at /\ held' = held)
          /\ \A u \in Tasks : u # h => at'[u] = at[u] /\ held'[u] = held[u]
      <3>1. CASE \E k : Waits(h, "opening", [dev |-> sess[Run].dev, key |-> k], "off")
        <4>1. PICK k : Waits(h, "opening", [dev |-> sess[Run].dev, key |-> k], "off")
          BY <3>1
        <4>2. QED
          BY <4>1, Moved, Kinds
      <3>2. QED
        BY <2>1, <3>1
    <2>3. sess' = sess
      BY <1>3 DEF UpdateArrives
    <2>4. \A g \in Handlers : Alive(g)' => held'[g].dev = sess[Run].dev
      BY <2>2, Kinds DEF PlacesInv, Alive
    <2>5. \A p \in Processes : at'[p] = at[p] /\ held'[p] = held[p] /\ sess'[p].dev = sess[p].dev
      BY <2>2, <2>3, Kinds
    <2>6. QED
      BY <1>2, <2>4, <2>5, HandlersMove
  <1>4. ASSUME NEW d \in Devices, Rotate(d) \/ Remove(d)
        PROVE  PlacesInv'
    <2>1. UNCHANGED <<sess, at, held>>
      BY <1>4 DEF Rotate, Remove, procVars
    <2>2. \A h \in Handlers : Alive(h)' => held'[h].dev = sess[Run].dev
      BY <2>1 DEF PlacesInv, Alive
    <2>3. QED
      BY <1>2, <2>1, <2>2, HandlersMove
  <1>5. ASSUME NEW p \in Processes, Terminate(p)
        PROVE  PlacesInv'
    <2>1. /\ at' = [t \in Tasks |-> IF Home(t) = p THEN "off" ELSE at[t]]
          /\ held' = [t \in Tasks |-> IF Home(t) = p THEN Blank ELSE held[t]]
          /\ sess' = [sess EXCEPT ![p] = Blank]
      BY <1>5 DEF Terminate
    <2>2. \A q \in Processes : q # p => at'[q] = at[q] /\ held'[q] = held[q] /\ sess'[q] = sess[q]
      BY <2>1, Kinds, Attached
    <2>3. at'[p] = "off"
      BY <2>1, Kinds
    <2>4. ASSUME NEW h \in Handlers, Alive(h)'
          PROVE  held'[h].dev = sess'[Run].dev
      <3>1. p # Run /\ at'[h] = at[h] /\ held'[h] = held[h]
        BY <2>1, <2>4, Kinds DEF Alive
      <3>2. QED
        BY <2>2, <2>4, <3>1, Kinds DEF PlacesInv, Alive
    <2>5. ASSUME NEW q \in Processes
          PROVE  Placed(q)'
      <3>1. Placed(q)
        BY DEF PlacesInv
      <3>2. at[q] \in {"asking", "opening", "writing"} => held[q].dev \in Devices
        BY DeviceNumbers, Kinds DEF DevicesActual
      <3>3. at[q] \in {"ready", "up"} => sess[q].dev \in Devices
        BY DeviceNumbers DEF DevicesActual
      <3>4. QED
        BY <2>2, <2>3, <3>1, <3>2, <3>3 DEF Placed, Registers
    <2>6. QED
      BY <1>2, <2>4, <2>5 DEF PlacesInv
  <1>6. QED
    BY <1>3, <1>4, <1>5

LEMMA StepPlaces == TypeOK /\ DevicesActual /\ KeyInv /\ PlacesInv /\ [Next]_vars => PlacesInv'
  <1> SUFFICES ASSUME TypeOK, DevicesActual, KeyInv, PlacesInv, [Next]_vars PROVE PlacesInv'
    OBVIOUS
  <1>1. CASE UNCHANGED vars
    BY <1>1 DEF vars, fileVars, procVars, serverVars, PlacesInv, Placed, Registers, Alive
  <1> SUFFICES ASSUME Step PROVE PlacesInv'
    BY <1>1 DEF Next
  <1>2. \A d \in Devices : ctx[d] > 0 => ctx'[d] > 0
    BY Grows
  <1>3. ASSUME NEW p \in Processes, ProcessStep(p)
        PROVE  PlacesInv'
    <2>1. CASE Terminate(p)
      BY <1>2, <2>1, WorldPlaces
    <2>2. CASE StartFresh(p) \/ StartKnown(p) \/ StartAfresh(p)
      BY <1>2, <2>2, StartPlaces
    <2>3. CASE Registered(p) \/ RegistrationFails(p) \/ ContextArrives(p) \/ ContextFails(p)
      BY <1>2, <2>3, AnswerPlaces
    <2>4. QED
      BY <1>3, <2>1, <2>2, <2>3 DEF ProcessStep
  <1>4. ASSUME NEW c \in Commands, CommandStep(c)
        PROVE  PlacesInv'
    <2>1. c \in Processes
      BY Kinds
    <2>2. QED
      BY <1>2, <1>4, <2>1, StartPlaces, AnswerPlaces DEF CommandStep
  <1>5. CASE RunRefreshes
    BY <1>2, <1>5, AnswerPlaces, Kinds
  <1>6. CASE \E t \in Tasks : OpenForSave(t) \/ SaveEnds(t) \/ SaveFails(t)
    BY <1>2, <1>6, SavePlaces
  <1>7. CASE (\E h \in Handlers : UpdateArrives(h)) \/ \E d \in Devices : Rotate(d) \/ Remove(d)
    BY <1>2, <1>7, WorldPlaces
  <1>8. QED
    BY <1>3, <1>4, <1>5, <1>6, <1>7 DEF Step

-----------------------------------------------------------------------------
(* The seats of a host: what keeps them *)

\* The device a process works for.
Serves(p) == IF Making(p) THEN held[p].dev ELSE sess[p].dev

\* A device whose seat is to be accounted for.
Counted(d) == Registers(d) /\ d \notin gone \cup excused \cup crowd

\* A process is about to save the identity of d for the first time.
Brings(d) == \E p \in Processes : Making(p) /\ at[p] # "registering" /\ held[p].dev = d

\* Why such a device keeps its seat: every process of the host works for it, it is in
\* the file or about to be, and whoever writes writes to the file at the path.
SeatKept(d) ==
  /\ \A p \in Processes : Alive(p) => Serves(p) = d
  /\ file.is # "torn" => file.state.dev = d \/ Brings(d)
  /\ \A t \in Tasks : at[t] = "writing" => t \in linked

\* Only tasks that are writing have the file open.
LinkedWrite == \A t \in linked : at[t] = "writing"

SeatsInv == LinkedWrite /\ \A d \in Devices : Counted(d) => SeatKept(d)

\* Who saves for a process, and at which wait.
LEMMA AtWork ==
  ASSUME KeyInv
  PROVE  /\ \A p \in Processes : Making(p) => Alive(p) /\ at[p] \in {"registering", "opening", "writing"}
         /\ \A h \in Handlers : Alive(h) => Alive(Run) /\ at[Run] = "up" /\ ~Making(Run)
  BY Kinds DEF KeyInv, Making, Alive

\* Whatever is being saved is saved for the device that counts.
LEMMA SavesForIt ==
  ASSUME KeyInv, PlacesInv, NEW d \in Devices, SeatKept(d), NEW t \in Tasks,
         at[t] \in {"opening", "writing"}
  PROVE  held[t].dev = d
  <1>1. CASE t \in Processes
    BY <1>1 DEF SeatKept, Serves, Making, Alive
  <1>2. CASE t \in Handlers
    <2>1. Alive(t) /\ Alive(Run) /\ ~Making(Run) /\ Run \in Processes
      BY <1>2, AtWork, Kinds DEF Alive
    <2>2. QED
      BY <1>2, <2>1 DEF SeatKept, Serves, PlacesInv
  <1>3. QED
    BY <1>1, <1>2, Kinds

\* An identity made beside another process is noted.
LEMMA Noted ==
  ASSUME TypeOK', DevicesActual', KeyInv', Watch, NEW p \in Processes, Making(p)',
         held'[p].dev \notin crowd'
  PROVE  \A q \in Processes : q # p => ~Alive(q)'
  <1>1. at'[p] \in {"registering", "opening", "writing"} /\ p \in Tasks
    BY Kinds DEF Making
  <1>2. held'[p].dev \in Devices
    BY <1>1, Numbers DEF TypeOK, DevicesActual, State, Devices
  <1>3. QED
    BY <1>2 DEF Watch

LEMMA CrowdGrows == Watch => crowd \subseteq crowd'
  BY DEF Watch

\* The file is left alone, and of the processes only p moves, which was not saving and
\* has not opened the file.
LEMMA SeatStays ==
  ASSUME NEW d \in Devices, SeatKept(d), NEW p \in Processes, UNCHANGED fileVars,
         at[p] \notin {"opening", "writing"}, at'[p] # "writing",
         \A u \in Tasks : u # p => at'[u] = at[u] /\ held'[u] = held[u],
         \A q \in Processes : q # p => sess'[q] = sess[q],
         Alive(p)' => Serves(p)' = d
  PROVE  SeatKept(d)'
  <1>1. ASSUME NEW q \in Processes, q # p
        PROVE  /\ (Making(q)' <=> Making(q)) /\ (Alive(q)' <=> Alive(q)) /\ Serves(q)' = Serves(q)
               /\ at'[q] = at[q] /\ held'[q] = held[q]
    BY <1>1, Kinds DEF Making, Alive, Serves
  <1>2. Brings(d) => Brings(d)'
    <2>1. ~(Making(p) /\ at[p] # "registering")
      BY DEF Making
    <2>2. QED
      BY <1>1, <2>1 DEF Brings
  <1>3. QED
    BY <1>1, <1>2 DEF SeatKept, fileVars

LEMMA StepLinked == TypeOK /\ LinkedWrite /\ [Next]_vars => LinkedWrite'
  <1> SUFFICES ASSUME TypeOK, LinkedWrite, [Next]_vars PROVE LinkedWrite'
    OBVIOUS
  <1>1. CASE UNCHANGED vars
    BY <1>1 DEF vars, fileVars, procVars, LinkedWrite
  <1> SUFFICES ASSUME Step PROVE LinkedWrite'
    BY <1>1 DEF Next
  \* A task that is not writing moves.
  <1>2. ASSUME NEW t \in Tasks, at[t] # "writing", NEW w, NEW s, NEW g, Waits(t, w, s, g),
               linked' = linked
        PROVE  LinkedWrite'
    BY <1>2, Moved DEF LinkedWrite, TypeOK
  <1>3. ASSUME NEW t \in Tasks, NEW w, NEW s, NEW g, Waits(t, w, s, g), linked' = linked \ {t}
        PROVE  LinkedWrite'
    BY <1>3, Moved DEF LinkedWrite, TypeOK
  <1>4. ASSUME NEW p \in Processes, ProcessStep(p)
        PROVE  LinkedWrite'
    <2>0. p \in Tasks
      BY Kinds
    <2>1. CASE StartFresh(p) \/ StartKnown(p)
      BY <1>2, <2>0, <2>1 DEF StartFresh, StartKnown, MakeIdentity, Alive, fileVars
    <2>2. CASE Registered(p) \/ RegistrationFails(p) \/ ContextArrives(p) \/ ContextFails(p)
      BY <1>2, <2>0, <2>2 DEF Registered, RegistrationFails, ContextArrives, ContextFails, Ends, fileVars
    <2>3. CASE StartAfresh(p)
      BY <2>3 DEF StartAfresh, LinkedWrite
    <2>4. CASE Terminate(p)
      <3>1. /\ linked' = linked \ TasksOf(p)
            /\ at' = [t \in Tasks |-> IF Home(t) = p THEN "off" ELSE at[t]]
        BY <2>4 DEF Terminate
      <3>2. QED
        BY <3>1 DEF LinkedWrite, TasksOf, TypeOK
    <2>5. QED
      BY <1>4, <2>1, <2>2, <2>3, <2>4 DEF ProcessStep
  <1>5. ASSUME NEW c \in Commands, CommandStep(c)
        PROVE  LinkedWrite'
    BY <1>2, <1>5, Kinds
       DEF CommandStep, StartRecovery, ConfirmBind, CommandEnds, MakeIdentity, Ends, Alive, fileVars
  <1>6. CASE RunRefreshes
    BY <1>2, <1>6, Kinds DEF RunRefreshes, fileVars
  <1>7. ASSUME NEW t \in Tasks, OpenForSave(t)
        PROVE  LinkedWrite'
    BY <1>7 DEF OpenForSave, LinkedWrite, TypeOK
  <1>8. ASSUME NEW t \in Tasks, SaveEnds(t) \/ SaveFails(t)
        PROVE  LinkedWrite'
    <2>1. linked' = linked \ {t} /\ \E w, s, g : Waits(t, w, s, g)
      BY <1>8 DEF SaveEnds, SaveFails, Ends
    <2>2. QED
      BY <1>3, <2>1
  <1>9. ASSUME NEW h \in Handlers, UpdateArrives(h)
        PROVE  LinkedWrite'
    <2>1. /\ at[h] # "writing" /\ linked' = linked
          /\ at' = at \/ \E w, s, g : Waits(h, w, s, g)
      BY <1>9 DEF UpdateArrives, Alive, fileVars
    <2>2. QED
      BY <1>2, <2>1, Kinds DEF LinkedWrite
  <1>10. CASE \E d \in Devices : Rotate(d) \/ Remove(d)
    BY <1>10 DEF Rotate, Remove, fileVars, procVars, LinkedWrite
  <1>11. QED
    BY <1>4, <1>5, <1>6, <1>7, <1>8, <1>9, <1>10 DEF Step

\* A device that counts after a step and was registered before it counted before it.
LEMMA WasKept ==
  ASSUME SeatsInv, Watch, NEW d \in Devices, Counted(d)', Registers(d),
         gone \subseteq gone', excused \subseteq excused'
  PROVE  SeatKept(d)
  BY CrowdGrows DEF SeatsInv, Counted

\* A process that starts while another brings the device that counts would be noted.
LEMMA NoneBrings ==
  ASSUME TypeOK', DevicesActual', KeyInv', Watch, NEW d \in Devices, Counted(d)',
         NEW p \in Processes, ~Alive(p), Alive(p)',
         \A u \in Tasks : u # p => at'[u] = at[u] /\ held'[u] = held[u],
         \A q \in Processes : q # p => sess'[q] = sess[q]
  PROVE  ~Brings(d)
  <1> SUFFICES ASSUME NEW q \in Processes, Making(q), held[q].dev = d PROVE FALSE
    BY DEF Brings
  <1>1. q # p
    BY DEF Making, Alive
  <1>2. Making(q)' /\ held'[q].dev = d
    BY <1>1, Kinds DEF Making
  <1>3. d \notin crowd'
    BY DEF Counted
  <1>4. QED
    BY <1>1, <1>2, <1>3, Noted

\* When an identity is made, no device is left that counts.
LEMMA SeatsAtStart ==
  ASSUME TypeOK, TypeOK', DevicesActual', KeyInv', PlacesInv, SeatsInv, Watch,
         NEW p \in Processes, StartFresh(p) \/ StartAfresh(p) \/ StartRecovery(p),
         NEW d \in Devices, Counted(d)'
  PROVE  FALSE
  <1>0. p \in Tasks /\ MakeIdentity(p)
    BY Kinds DEF StartFresh, StartAfresh, StartRecovery
  <1>1. /\ at'[p] = "registering"
        /\ \A u \in Tasks : u # p => at'[u] = at[u] /\ held'[u] = held[u]
    BY <1>0, Moved DEF MakeIdentity
  <1>2. \A q \in Processes : q # p => sess'[q] = sess[q]
    BY <1>0, Attached DEF MakeIdentity
  <1>3. Registers(d) /\ d # 0
    BY DeviceNumbers DEF Counted, Registers, StartFresh, StartAfresh, StartRecovery, serverVars
  <1>4. CASE StartRecovery(p)
    BY <1>3, <1>4 DEF StartRecovery, Counted, Registers
  <1>5. CASE StartAfresh(p)
    <2>1. SeatKept(d)
      BY <1>3, <1>5, WasKept DEF StartAfresh, serverVars
    <2>2. at[p] = "asking" /\ held[p].dev \in gone /\ gone' = gone
      BY <1>5 DEF StartAfresh, StaleAndReset, serverVars
    <2>3. Serves(p) = held[p].dev /\ Alive(p)
      BY <2>2 DEF Serves, Making, Alive, PlacesInv, Placed
    <2>4. QED
      BY <2>1, <2>2, <2>3 DEF SeatKept, Counted
  <1>6. CASE StartFresh(p)
    <2>1. SeatKept(d)
      BY <1>3, <1>6, WasKept DEF StartFresh, serverVars
    <2>2. file.state.dev # d /\ file.is # "torn"
      BY <1>3, <1>6 DEF StartFresh, PlacesInv
    <2>3. ~Brings(d)
      BY <1>1, <1>2, <1>6, NoneBrings DEF StartFresh, Alive
    <2>4. QED
      BY <2>1, <2>2, <2>3 DEF SeatKept
  <1>7. QED
    BY <1>4, <1>5, <1>6

\* The server answers a process that makes an identity.
LEMMA SeatsRegistered ==
  ASSUME TypeOK, TypeOK', DevicesActual, DevicesActual', KeyInv', PlacesInv, SeatsInv, Watch,
         NEW p \in Processes, Registered(p) \/ RegistrationFails(p),
         NEW d \in Devices, Counted(d)'
  PROVE  SeatKept(d)'
  <1> DEFINE e == held[p].dev
  <1>0. p \in Tasks /\ at[p] = "registering" /\ Making(p) /\ Alive(p) /\ Serves(p) = e
    BY Kinds DEF Registered, RegistrationFails, Making, Alive, Serves
  <1>1. e # 0 /\ sess[p].dev = 0
    BY <1>0 DEF DevicesActual, PlacesInv, Placed
  <1>2. ctx \in [Devices -> 0 .. MaxKey]
    BY TypeIsCore DEF CoreOK
  <1>3. gone' = gone /\ excused \subseteq excused' /\ UNCHANGED fileVars
    BY DEF Registered, RegistrationFails
  <1>4. CASE Registered(p) /\ d = e
    <2>1. Waits(p, "opening", [dev |-> e, key |-> 1], "ready") /\ sess' = sess
      BY <1>4 DEF Registered
    <2>2. at'[p] = "opening" /\ held'[p].dev = e
      BY <1>0, <2>1, Moved
    <2>3. Making(p)' /\ Serves(p)' = d
      BY <1>1, <1>4, <2>1, <2>2 DEF Making, Serves
    <2>4. \A q \in Processes : q # p => ~Alive(q)'
      BY <1>4, <2>2, <2>3, Noted DEF Counted
    <2>5. \A t \in Tasks : at'[t] # "writing"
      <3>1. \A h \in Handlers : at'[h] = "off"
        BY <2>2, <2>4, Kinds DEF KeyInv, Alive
      <3>2. QED
        BY <2>2, <2>4, <3>1, Kinds DEF Alive
    <2>6. Brings(d)'
      BY <1>4, <2>2, <2>3 DEF Brings
    <2>7. QED
      BY <2>3, <2>4, <2>5, <2>6 DEF SeatKept
  <1>5. CASE Registered(p) /\ d # e
    <2>1. Registers(d)
      BY <1>2, <1>5 DEF Registered, Counted, Registers
    <2>2. SeatKept(d)
      BY <1>3, <2>1, WasKept
    <2>3. QED
      BY <1>0, <1>5, <2>2 DEF SeatKept
  <1>6. CASE RegistrationFails(p)
    <2>1. Registers(d)
      BY <1>2, <1>6 DEF RegistrationFails, Counted, Registers
    <2>2. SeatKept(d)
      BY <1>3, <2>1, WasKept
    <2>3. Waits(p, "off", Blank, "off") /\ \E y : sess' = [sess EXCEPT ![p] = y]
      BY <1>6 DEF RegistrationFails, Ends
    <2>4. /\ at'[p] = "off" /\ \A u \in Tasks : u # p => at'[u] = at[u] /\ held'[u] = held[u]
      BY <1>0, <2>3, Moved
    <2>5. \A q \in Processes : q # p => sess'[q] = sess[q]
      BY <2>3, Attached
    <2>6. ~Alive(p)'
      BY <2>4 DEF Alive
    <2>7. QED
      BY <1>0, <1>3, <2>2, <2>4, <2>5, <2>6, SeatStays
  <1>7. QED
    BY <1>4, <1>5, <1>6

\* A process that makes no identity starts, asks, is answered, begins to save or ends.
LEMMA SeatsGoOn ==
  ASSUME TypeOK, DevicesActual, TypeOK', DevicesActual', KeyInv', PlacesInv, SeatsInv, Watch,
         NEW p \in Processes,
         \/ StartKnown(p) \/ ContextArrives(p) \/ ContextFails(p)
         \/ ConfirmBind(p) \/ CommandEnds(p)
         \/ p = Run /\ RunRefreshes,
         NEW d \in Devices, Counted(d)'
  PROVE  SeatKept(d)'
  <1>0. p \in Tasks /\ Placed(p)
    BY Kinds DEF PlacesInv
  <1>1. UNCHANGED <<gone, excused>> /\ UNCHANGED fileVars
    BY DEF StartKnown, ContextArrives, ContextFails, ConfirmBind, CommandEnds, RunRefreshes, serverVars
  <1>2. at[p] \in {"off", "asking", "ready"}
    BY DEF StartKnown, ContextArrives, ContextFails, ConfirmBind, CommandEnds, RunRefreshes, Alive
  <1>3. Registers(d)
    <2>1. CASE ConfirmBind(p)
      <3>1. ctx' = [ctx EXCEPT ![sess[p].dev] = @ + 1] /\ ctx[sess[p].dev] > 0
        BY <1>0, <2>1 DEF ConfirmBind, Placed, Registers
      <3>2. QED
        BY <3>1, TypeIsCore DEF CoreOK, Counted, Registers
    <2>2. QED
      BY <2>1 DEF StartKnown, ContextArrives, ContextFails, CommandEnds, RunRefreshes, serverVars,
                  Counted, Registers
  <1>4. SeatKept(d)
    BY <1>1, <1>3, WasKept
  \* The session is left alone, and what is held is of its device.
  <1>5. ASSUME NEW w, NEW s, NEW g, Waits(p, w, s, g), sess' = sess, w \in {"opening", "asking"},
               at[p] # "off", s.dev = sess[p].dev
        PROVE  SeatKept(d)'
    <2>1. /\ at'[p] = w /\ held'[p] = s
          /\ \A u \in Tasks : u # p => at'[u] = at[u] /\ held'[u] = held[u]
      BY <1>0, <1>5, Moved
    <2>2. Serves(p) = sess[p].dev /\ Alive(p)
      BY <1>2, <1>5 DEF Serves, Making, Alive
    <2>3. Serves(p)' = sess[p].dev
      BY <1>5, <2>1 DEF Serves, Making
    <2>4. QED
      BY <1>1, <1>2, <1>4, <1>5, <2>1, <2>2, <2>3, SeatStays DEF SeatKept
  <1>6. CASE StartKnown(p)
    <2>1. /\ at'[p] = "asking" /\ \A u \in Tasks : u # p => at'[u] = at[u] /\ held'[u] = held[u]
      BY <1>0, <1>6, Moved DEF StartKnown
    <2>2. sess'[p] = file.state /\ \A q \in Processes : q # p => sess'[q] = sess[q]
      BY <1>6, Attached DEF StartKnown
    <2>3. Serves(p)' = file.state.dev
      BY <2>1, <2>2 DEF Serves, Making
    <2>4. ~Brings(d)
      BY <1>6, <2>1, <2>2, NoneBrings DEF StartKnown, Alive
    <2>5. file.state.dev = d
      BY <1>4, <1>6, <2>4 DEF SeatKept, StartKnown
    <2>6. QED
      BY <1>1, <1>2, <1>4, <2>1, <2>2, <2>3, <2>5, SeatStays
  <1>7. CASE ContextArrives(p)
    <2>1. held[p].dev = sess[p].dev /\ sess' = sess /\ at[p] # "off"
      BY <1>0, <1>7 DEF ContextArrives, Placed
    <2>2. Waits(p, "opening", [dev |-> held[p].dev, key |-> ctx[held[p].dev]], goal[p])
      BY <1>7 DEF ContextArrives
    <2>3. QED
      BY <1>5, <2>1, <2>2
  <1>8. CASE ConfirmBind(p)
    <2>1. /\ Waits(p, "opening", [dev |-> sess[p].dev, key |-> ctx'[sess[p].dev]], "off")
          /\ sess' = sess /\ at[p] # "off"
      BY <1>8 DEF ConfirmBind
    <2>2. QED
      BY <1>5, <2>1
  <1>9. CASE p = Run /\ RunRefreshes
    <2>1. Waits(p, "asking", sess[p], "up") /\ sess' = sess /\ at[p] # "off"
      BY <1>9 DEF RunRefreshes
    <2>2. QED
      BY <1>5, <2>1
  <1>10. CASE Ends(p)
    <2>1. /\ at'[p] = "off" /\ \A u \in Tasks : u # p => at'[u] = at[u] /\ held'[u] = held[u]
      BY <1>0, <1>10, Moved DEF Ends
    <2>2. \A q \in Processes : q # p => sess'[q] = sess[q]
      BY <1>10, Attached DEF Ends
    <2>3. ~Alive(p)'
      BY <2>1 DEF Alive
    <2>4. QED
      BY <1>1, <1>2, <1>4, <2>1, <2>2, <2>3, SeatStays
  <1>11. QED
    BY <1>6, <1>7, <1>8, <1>9, <1>10 DEF ContextFails, CommandEnds

\* A save is begun, done or given up.
LEMMA SeatsSaved ==
  ASSUME TypeOK, KeyInv, PlacesInv, SeatsInv, Watch,
         NEW t \in Tasks, OpenForSave(t) \/ SaveEnds(t) \/ SaveFails(t),
         NEW d \in Devices, Counted(d)'
  PROVE  SeatKept(d)'
  <1>0. at[t] \in {"opening", "writing"}
    BY DEF OpenForSave, SaveEnds, SaveFails
  <1>1. SeatKept(d)
    <2>1. Registers(d) /\ gone' = gone /\ excused \subseteq excused'
      BY DEF OpenForSave, SaveEnds, SaveFails, serverVars, Counted, Registers
    <2>2. QED
      BY <2>1, WasKept
  <1>2. held[t].dev = d
    BY <1>0, <1>1, SavesForIt
  <1>3. CASE OpenForSave(t)
    <2>1. /\ file' = Torn /\ linked' = linked \cup {t} /\ sess' = sess /\ held' = held
          /\ at[t] = "opening" /\ at' = [at EXCEPT ![t] = "writing"]
      BY <1>3 DEF OpenForSave
    <2>2. at'[t] = "writing" /\ \A u \in Tasks : u # t => at'[u] = at[u]
      BY <2>1, TypeIsCore DEF CoreOK
    <2>3. \A p \in Processes : (Alive(p)' <=> Alive(p)) /\ (Making(p)' <=> Making(p))
      BY <2>1, <2>2, Kinds DEF Alive, Making
    <2>4. \A p \in Processes : Serves(p)' = Serves(p)
      BY <2>1, <2>3 DEF Serves
    <2>5. \A u \in Tasks : at'[u] = "writing" => u \in linked'
      BY <1>1, <2>1, <2>2 DEF SeatKept
    <2>6. QED
      BY <1>1, <2>1, <2>3, <2>4, <2>5, TornIsTorn DEF SeatKept
  <1>4. CASE SaveEnds(t)
    <2>1. at[t] = "writing" /\ t \in linked /\ goal[t] \in {"off", "ready", "up"}
      BY <1>1, <1>4, TypeIsCore DEF SaveEnds, SeatKept, CoreOK, Goals
    <2>2. /\ at'[t] = goal[t] /\ \A u \in Tasks : u # t => at'[u] = at[u] /\ held'[u] = held[u]
      BY <1>4, Moved DEF SaveEnds
    <2>3. file' = Torn \/ file' = Whole(held[t])
      BY <1>4, <2>1 DEF SaveEnds, Contents
    <2>4. file'.is # "torn" => file'.state.dev = d
      BY <1>2, <2>3, TornIsTorn DEF Whole
    <2>5. \A u \in Tasks : at'[u] = "writing" => u \in linked'
      BY <1>1, <1>4, <2>1, <2>2 DEF SaveEnds, SeatKept
    <2>6. ASSUME NEW p \in Processes, p # Home(t), Alive(p)'
          PROVE  Serves(p)' = d
      <3>1. p # t
        BY <2>6, Kinds
      <3>2. \E q \in Processes : \E y : q = Home(t) /\ sess' = [sess EXCEPT ![q] = y]
        <4>1. Home(t) \in Processes /\ (t \in Processes => Home(t) = t)
          BY Kinds
        <4>2. QED
          BY <1>4, <4>1 DEF SaveEnds, Attach
      <3>3. sess'[p] = sess[p]
        BY <2>6, <3>2, Attached
      <3>4. at'[p] = at[p] /\ held'[p] = held[p]
        BY <2>2, <3>1, Kinds
      <3>5. Serves(p)' = Serves(p) /\ Alive(p)
        BY <2>6, <3>3, <3>4 DEF Serves, Making, Alive
      <3>6. QED
        BY <1>1, <3>5 DEF SeatKept
    <2>7. ASSUME NEW p \in Processes, p = Home(t), Alive(p)'
          PROVE  Serves(p)' = d
      <3>1. ~(goal[t] = "off" /\ t \in Processes)
        BY <2>2, <2>7, Kinds DEF Alive
      <3>2. sess' = [sess EXCEPT ![p] = held[t]]
        BY <1>4, <2>7, <3>1 DEF SaveEnds, Attach
      <3>3. sess'[p] = held[t]
        BY <2>7, <3>2, Attached
      <3>4. at'[p] \in {"ready", "up"}
        <4>1. CASE t \in Processes
          BY <2>1, <2>2, <2>7, <3>1, <4>1, Kinds
        <4>2. CASE t \in Handlers
          <5>1. at[Run] = "up" /\ p = Run /\ t # Run
            BY <2>1, <2>7, <4>2, Kinds DEF KeyInv, Alive
          <5>2. QED
            BY <2>2, <5>1, Kinds
        <4>3. QED
          BY <4>1, <4>2, Kinds
      <3>5. QED
        BY <1>2, <3>3, <3>4 DEF Serves, Making
    <2>8. QED
      BY <2>4, <2>5, <2>6, <2>7 DEF SeatKept
  <1>5. CASE SaveFails(t)
    <2>1. Waits(t, "off", Blank, "off") /\ linked' = linked \ {t}
      BY <1>5 DEF SaveFails, Ends
    <2>2. /\ at'[t] = "off" /\ \A u \in Tasks : u # t => at'[u] = at[u] /\ held'[u] = held[u]
      BY <2>1, Moved
    <2>3. \A p \in Processes : p # t => sess'[p] = sess[p]
      <3>1. CASE t \in Processes
        BY <1>5, <3>1, Kinds, Attached DEF SaveFails, Ends
      <3>2. CASE t \in Handlers
        BY <1>5, <3>2 DEF SaveFails
      <3>3. QED
        BY <3>1, <3>2, Kinds
    <2>4. ASSUME NEW p \in Processes, p # t
          PROVE  /\ (Making(p)' <=> Making(p)) /\ (Alive(p)' <=> Alive(p)) /\ Serves(p)' = Serves(p)
                 /\ at'[p] = at[p] /\ held'[p] = held[p]
      BY <2>2, <2>3, <2>4, Kinds DEF Making, Alive, Serves
    <2>5. t \in Processes => ~Making(t) /\ ~Alive(t)'
      BY <1>2, <1>5, <2>2 DEF SaveFails, Counted, Alive
    <2>6. Brings(d) => Brings(d)'
      BY <2>4, <2>5 DEF Brings
    <2>7. file'.is # "torn" => file' = file
      BY <1>5, TornIsTorn DEF SaveFails
    <2>8. \A u \in Tasks : at'[u] = "writing" => u \in linked'
      BY <1>1, <2>1, <2>2 DEF SeatKept
    <2>9. \A p \in Processes : Alive(p)' => Serves(p)' = d
      BY <1>1, <2>4, <2>5 DEF SeatKept
    <2>10. QED
      BY <1>1, <2>6, <2>7, <2>8, <2>9 DEF SeatKept
  <1>6. QED
    BY <1>3, <1>4, <1>5

\* A key update arrives, a key is rotated, a device removed, a process terminated.
LEMMA SeatsInTheWorld ==
  ASSUME TypeOK, SeatsInv, Watch,
         \/ \E h \in Handlers : UpdateArrives(h)
         \/ \E e \in Devices : Rotate(e) \/ Remove(e)
         \/ \E p \in Processes : Terminate(p),
         NEW d \in Devices, Counted(d)'
  PROVE  SeatKept(d)'
  <1>1. ASSUME NEW h \in Handlers, UpdateArrives(h)
        PROVE  SeatKept(d)'
    <2>1. SeatKept(d) /\ UNCHANGED <<file, linked, sess>>
      BY <1>1, WasKept DEF UpdateArrives, serverVars, fileVars, Counted, Registers
    <2>2. \/ at' = at /\ held' = held
          \/ \E k : Waits(h, "opening", [dev |-> sess[Run].dev, key |-> k], "off")
      BY <1>1 DEF UpdateArrives
    <2>3. /\ \A p \in Processes : at'[p] = at[p] /\ held'[p] = held[p]
          /\ \A u \in Tasks : at'[u] = "writing" => at[u] = "writing"
      <3>1. CASE \E k : Waits(h, "opening", [dev |-> sess[Run].dev, key |-> k], "off")
        <4>1. PICK k : Waits(h, "opening", [dev |-> sess[Run].dev, key |-> k], "off")
          BY <3>1
        <4>2. at'[h] = "opening" /\ \A u \in Tasks : u # h => at'[u] = at[u] /\ held'[u] = held[u]
          BY <4>1, Moved, Kinds
        <4>3. QED
          BY <4>2, Kinds
      <3>2. QED
        BY <2>2, <3>1
    <2>4. \A p \in Processes : (Making(p)' <=> Making(p)) /\ (Alive(p)' <=> Alive(p))
      BY <2>1, <2>3 DEF Making, Alive
    <2>5. (\A p \in Processes : Serves(p)' = Serves(p)) /\ (Brings(d) => Brings(d)')
      BY <2>1, <2>3, <2>4 DEF Serves, Brings
    <2>6. QED
      BY <2>1, <2>3, <2>4, <2>5 DEF SeatKept
  <1>2. ASSUME NEW e \in Devices, Rotate(e) \/ Remove(e)
        PROVE  SeatKept(d)'
    <2>1. Registers(d)
      BY <1>2, TypeIsCore, Numbers DEF Rotate, Remove, CoreOK, Counted, Registers
    <2>2. SeatKept(d) /\ UNCHANGED <<file, linked, sess, at, held>>
      BY <1>2, <2>1, WasKept DEF Rotate, Remove, fileVars, procVars
    <2>3. QED
      BY <2>2 DEF SeatKept, Serves, Making, Alive, Brings
  <1>3. ASSUME NEW p \in Processes, Terminate(p)
        PROVE  SeatKept(d)'
    <2>1. /\ at' = [t \in Tasks |-> IF Home(t) = p THEN "off" ELSE at[t]]
          /\ held' = [t \in Tasks |-> IF Home(t) = p THEN Blank ELSE held[t]]
          /\ sess' = [sess EXCEPT ![p] = Blank]
          /\ linked' = linked \ TasksOf(p)
          /\ file' = file
      BY <1>3 DEF Terminate
    <2>2. Registers(d)
      BY <1>3, TypeIsCore DEF Terminate, CoreOK, Counted, Registers, Making
    <2>3. SeatKept(d) /\ (Making(p) => held[p].dev # d)
      BY <1>3, <2>2, WasKept DEF Terminate, Counted
    <2>4. ~Alive(p)'
      BY <2>1, Kinds DEF Alive
    <2>5. ASSUME NEW q \in Processes, q # p
          PROVE  /\ (Making(q)' <=> Making(q)) /\ (Alive(q)' <=> Alive(q)) /\ Serves(q)' = Serves(q)
                 /\ at'[q] = at[q] /\ held'[q] = held[q]
      <3>1. at'[q] = at[q] /\ held'[q] = held[q] /\ sess'[q] = sess[q]
        BY <2>1, <2>5, Kinds, Attached
      <3>2. QED
        BY <3>1 DEF Making, Alive, Serves
    <2>6. Brings(d) => Brings(d)'
      BY <2>3, <2>5 DEF Brings
    <2>7. \A u \in Tasks : at'[u] = "writing" => u \in linked'
      BY <2>1, <2>3 DEF SeatKept, TasksOf
    <2>8. \A q \in Processes : Alive(q)' => Serves(q)' = d
      BY <2>3, <2>4, <2>5 DEF SeatKept
    <2>9. QED
      BY <2>1, <2>3, <2>6, <2>7, <2>8 DEF SeatKept
  <1>4. QED
    BY <1>1, <1>2, <1>3

LEMMA StepSeats ==
  ASSUME TypeOK, TypeOK', DevicesActual, DevicesActual', KeyInv, KeyInv', PlacesInv, SeatsInv, [Next]_vars
  PROVE  SeatsInv'
  <1>1. CASE UNCHANGED vars
    BY <1>1
    DEF vars, fileVars, procVars, serverVars, SeatsInv, LinkedWrite, Counted, SeatKept, Serves, Brings,
        Making, Alive, Registers
  <1>2. LinkedWrite'
    BY StepLinked DEF SeatsInv
  <1> SUFFICES ASSUME Step, Watch, NEW d \in Devices, Counted(d)' PROVE SeatKept(d)'
    BY <1>1, <1>2 DEF Next, SeatsInv
  <1>3. ASSUME NEW p \in Processes, ProcessStep(p)
        PROVE  SeatKept(d)'
    <2>1. CASE StartFresh(p) \/ StartAfresh(p)
      BY <2>1, SeatsAtStart
    <2>2. CASE StartKnown(p) \/ ContextArrives(p) \/ ContextFails(p)
      BY <2>2, SeatsGoOn
    <2>3. CASE Registered(p) \/ RegistrationFails(p)
      BY <2>3, SeatsRegistered
    <2>4. CASE Terminate(p)
      BY <2>4, SeatsInTheWorld
    <2>5. QED
      BY <1>3, <2>1, <2>2, <2>3, <2>4 DEF ProcessStep
  <1>4. ASSUME NEW c \in Commands, CommandStep(c)
        PROVE  SeatKept(d)'
    <2>1. c \in Processes
      BY Kinds
    <2>2. QED
      BY <1>4, <2>1, SeatsAtStart, SeatsGoOn DEF CommandStep
  <1>5. CASE RunRefreshes
    BY <1>5, SeatsGoOn, Kinds
  <1>6. ASSUME NEW t \in Tasks, OpenForSave(t) \/ SaveEnds(t) \/ SaveFails(t)
        PROVE  SeatKept(d)'
    BY <1>6, SeatsSaved
  <1>7. CASE (\E h \in Handlers : UpdateArrives(h)) \/ \E e \in Devices : Rotate(e) \/ Remove(e)
    BY <1>7, SeatsInTheWorld
  <1>8. QED
    BY <1>3, <1>4, <1>5, <1>6, <1>7 DEF Step

LEMMA InitSeats == Init => PlacesInv /\ SeatsInv
  <1> SUFFICES ASSUME Init PROVE PlacesInv /\ SeatsInv
    OBVIOUS
  <1>1. \A t \in Tasks : at[t] = "off"
    BY DEF Init
  <1>2. file.state.dev = 0 /\ linked = {} /\ \A d \in Devices : ~Registers(d)
    BY DEF Init, Missing, Blank, Registers
  <1>3. PlacesInv
    BY <1>1, <1>2, Kinds DEF PlacesInv, Placed, Alive
  <1>4. SeatsInv
    BY <1>2 DEF SeatsInv, LinkedWrite, Counted
  <1>5. QED
    BY <1>3, <1>4

\* What the invariants say of the seats.
LEMMA SeatsFollow ==
  ASSUME TypeOK, KeyInv, FileInv, PlacesInv, SeatsInv
  PROVE  SeatsAccounted
  <1> SUFFICES ASSUME NEW d \in Devices, d \notin gone \cup excused \cup crowd, ctx[d] > 0
               PROVE  file.state.dev = d \/ Saving(d) \/ (file.is = "torn" /\ spoilt)
    BY DEF SeatsAccounted
  <1>1. SeatKept(d)
    BY DEF SeatsInv, Counted, Registers
  <1>2. Brings(d) => Saving(d)
    BY Kinds DEF Brings, Making, Saving
  <1>3. ASSUME NEW t \in linked
        PROVE  Saving(d)
    <2>1. t \in Tasks /\ at[t] = "writing"
      BY DEF SeatsInv, LinkedWrite, TypeOK
    <2>2. QED
      BY <1>1, <2>1, SavesForIt DEF Saving
  <1>4. QED
    BY <1>1, <1>2, <1>3 DEF SeatKept, FileInv

\* A host keeps its seat and takes no second one.
THEOREM SeatsCorrect == Spec => []SeatsAccounted
  <1> DEFINE All == TypeOK /\ DevicesActual /\ KeyInv /\ FileInv /\ PlacesInv /\ SeatsInv
  <1>1. Init => All
    <2>1. Init => KeyInv
      BY ClientAssumption DEF Init, KeyInv, Alive, Processes, Tasks
    <2>2. Init => FileInv
      BY TornIsTorn DEF Init, FileInv
    <2>3. QED
      BY <2>1, <2>2, InitType, InitSeats
  <1>2. All /\ [Next]_vars => All'
    BY StepType, StepKey, StepFile, StepPlaces, StepSeats
  <1>3. All => SeatsAccounted
    BY SeatsFollow
  <1>4. QED
    BY <1>1, <1>2, <1>3, PTL DEF Spec

=============================================================================
