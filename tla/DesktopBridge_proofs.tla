------------------------ MODULE DesktopBridge_proofs ------------------------
(***************************************************************************)
(* Theorems about the desktop application: types, one realtime loop, the   *)
(* device it serves, a page in step with its bridge, and stops that the    *)
(* loop has heard of.                                                      *)
(***************************************************************************)
EXTENDS DesktopBridge, FiniteSetTheorems, SequenceTheorems, TLAPS

-----------------------------------------------------------------------------
(* The inductive invariant, in parts *)

Job == Seq(Methods) \ {<<>>}

\* TypeOK leaves open that the queue, and each job in it, is a sequence; and what the
\* shell serves is the head of it.
TypeInv == TypeOK /\ queue \in Seq(Job) /\ (call # NoSlot => queue # <<>>)

\* A bridge that is not there has neither requests nor loops.
DeadInv ==
  ~client.alive => /\ client = Fresh(FALSE)
                   /\ reqs = [k \in Slots |-> NoRequest]
                   /\ loops = NoLoops

\* The bridge works for nobody but the shell's call, unless one was given up.
AloneInv == ~outlived => \A k \in Slots : reqs[k].at # "free" => k = call

\* The shell restarts the bridge itself.
SentInv == \A k \in Slots : reqs[k].method # "restart"

\* The stream that stopRealtime would cancel is open.
StreamInv == client.realtimeStream # NoLoop => loops[client.realtimeStream].at \in {"open", "cut"}

\* realtimeLoop is the loop that runs; it runs for good but for a stop under way; and
\* who starts a loop has seen that there is none, and still sees it.
LoopInv ==
  ~outlived =>
    /\ \A i \in Running : i = client.realtimeLoop
    /\ client.realtimeLoop = NoLoop => ~client.realtimeRunning
    /\ client.realtimeLoop # NoLoop /\ (\A k \in Slots : reqs[k].at # "joining") =>
         /\ client.realtimeLoop \in Running
         /\ client.realtimeRunning /\ client.onChange /\ ~client.stopRequested
    /\ \A k \in Slots : reqs[k].at = "starting" =>
         client.realtimeLoop = NoLoop /\ reqs[k].method = "start"
    /\ \A k \in Slots : reqs[k].at = "joining" =>
         reqs[k].loop = client.realtimeLoop /\ reqs[k].method = "stop"

\* The session is that of the state file or of nobody, and so is what a start under way
\* has taken from it.
DeviceInv ==
  ~outlived =>
    /\ client.sess # 0 => client.sess = file
    /\ \A k \in Slots : reqs[k].at = "starting" => reqs[k].dev \in {0, file}
    /\ \A i \in Running : loops[i].dev # 0
    /\ ~swapped => \A i \in Running : loops[i].dev = client.sess

Sync == Running # {} /\ client.onChange /\ ~client.stopRequested

\* The page is in step while nothing is asked, and while something is until it has been
\* done: then it lags by just what the answer will tell it.
PageInv ==
  ~outlived /\ ~died /\ ~swapped =>
    /\ call = NoSlot => page.running <=> Sync
    /\ call # NoSlot =>
         /\ queue # <<>>
         /\ reqs[call].at # "free"
         /\ reqs[call].method = Head(Head(queue))
         /\ reqs[call].at = "done" /\ reqs[call].method = "start" => Sync
         /\ reqs[call].at = "done" /\ reqs[call].method = "stop" => ~Sync
         /\ reqs[call].at # "joining"
            /\ ~(reqs[call].at = "done" /\ reqs[call].method \in {"start", "stop"}) =>
              page.running <=> Sync

IInv ==
  /\ TypeInv /\ DeadInv /\ AloneInv /\ SentInv /\ StreamInv
  /\ LoopInv /\ DeviceInv /\ PageInv

-----------------------------------------------------------------------------
(* Types *)

ReqType ==
  [method : Methods, dev : 0 .. MaxDevices, loop : Loops \cup {NoLoop},
   at : {"free", "new", "booting", "recovering", "ready", "starting",
         "joining", "done", "failed"}]

ClientType ==
  [alive : BOOLEAN, ready : BOOLEAN, realtimeRunning : BOOLEAN,
   sess : 0 .. MaxDevices, realtimeLoop : Loops \cup {NoLoop},
   realtimeStream : Loops \cup {NoLoop}, stopRequested : BOOLEAN,
   onChange : BOOLEAN]

LoopType == [at : {"none", "open", "cut", "pause"}, dev : 0 .. MaxDevices]

PageType == [known : BOOLEAN, running : BOOLEAN]

CountType ==
  /\ file \in 0 .. MaxDevices /\ made \in 0 .. MaxDevices
  /\ clicks \in 0 .. MaxClicks /\ timeOuts \in 0 .. MaxTimeOuts /\ deaths \in 0 .. MaxDeaths
  /\ {outlived, died, swapped} \subseteq BOOLEAN

Typed ==
  /\ page \in PageType /\ queue \in Seq(Job) /\ call \in Slots \cup {NoSlot}
  /\ call # NoSlot => queue # <<>>
  /\ reqs \in [Slots -> ReqType] /\ client \in ClientType /\ loops \in [Loops -> LoopType]
  /\ CountType

TypedNext ==
  /\ page' \in PageType /\ queue' \in Seq(Job) /\ call' \in Slots \cup {NoSlot}
  /\ call' # NoSlot => queue' # <<>>
  /\ reqs' \in [Slots -> ReqType] /\ client' \in ClientType /\ loops' \in [Loops -> LoopType]
  /\ CountType'

\* TypeInv and its parts.
LEMMA TypeParts == (TypeInv <=> Typed) /\ (TypeInv' <=> TypedNext)
  <1>1. \A q \in Seq(Job) :
          \A n \in DOMAIN q : Len(q[n]) > 0 /\ \A m \in DOMAIN q[n] : q[n][m] \in Methods
    <2> SUFFICES ASSUME NEW q \in Seq(Job), NEW n \in DOMAIN q
                 PROVE  Len(q[n]) > 0 /\ \A m \in DOMAIN q[n] : q[n][m] \in Methods
      OBVIOUS
    <2>1. q[n] \in Seq(Methods) /\ q[n] # <<>>
      BY DEF Job
    <2>2. Len(q[n]) \in Nat /\ Len(q[n]) # 0
      BY <2>1, EmptySeq, LenProperties
    <2>3. \A m \in DOMAIN q[n] : q[n][m] \in Methods
      BY <2>1
    <2>4. QED
      BY <2>2, <2>3
  <1>2. TypeInv <=> Typed
    BY <1>1 DEF TypeInv, Typed, TypeOK, PageType, ReqType, ClientType, LoopType, CountType
  <1>3. TypeInv' <=> TypedNext
    BY <1>1 DEF TypeInv, TypedNext, TypeOK, PageType, ReqType, ClientType, LoopType, CountType
  <1>4. QED
    BY <1>2, <1>3

LEMMA FreshTypes ==
  /\ \A b \in BOOLEAN : Fresh(b) \in ClientType
  /\ NoRequest \in ReqType
  /\ NoLoops \in [Loops -> LoopType]
  BY BridgeAssumption
  DEF Fresh, NoRequest, NoLoops, ClientType, ReqType, LoopType, Methods

LEMMA JobTypes ==
  /\ {Load, Initialize, Recover, Address} \subseteq Job
  /\ \A m \in Methods : <<m>> \in Job
  <1>1. Load \in Job /\ Initialize \in Job /\ Recover \in Job
    BY DEF Load, Initialize, Recover, Job, Methods
  <1>2. Address \in Job
    <2>1. <<"restart">> \in Seq(Methods) /\ Load \in Seq(Methods)
      BY DEF Load, Methods
    <2>2. Address \in Seq(Methods) /\ Len(Address) = 4
      BY <2>1, ConcatProperties DEF Address, Load
    <2>3. QED
      BY <2>2, EmptySeq DEF Job
  <1>3. \A m \in Methods : <<m>> \in Job
    BY DEF Job
  <1>4. QED
    BY <1>1, <1>2, <1>3

\* The page and its queue keep their types when the shell answers.
LEMMA AnsweredType ==
  ASSUME TypeInv, NEW good \in BOOLEAN, queue # <<>>, Answered(good)
  PROVE  page' \in PageType /\ queue' \in Seq(Job) /\ call' = NoSlot
  <1>1. PageAfter(Head(Head(queue))) \in PageType
    BY TypeParts DEF Typed, PageAfter, PageType
  <1>2. page' \in PageType /\ call' = NoSlot
    BY <1>1, TypeParts DEF Typed, Answered
  <1>3. /\ queue \in Seq(Job) /\ Tail(queue) \in Seq(Job) /\ Head(queue) \in Job
    BY TypeParts, HeadTailProperties DEF Typed
  <1>4. Len(Head(queue)) > 1 => Append(Tail(queue), Tail(Head(queue))) \in Seq(Job)
    <2> SUFFICES ASSUME Len(Head(queue)) > 1 PROVE Tail(Head(queue)) \in Job
      BY <1>3, AppendProperties
    <2>1. Head(queue) \in Seq(Methods) /\ Head(queue) # <<>>
      BY <1>3 DEF Job
    <2>2. Tail(Head(queue)) \in Seq(Methods) /\ Len(Tail(Head(queue))) = Len(Head(queue)) - 1
      BY <2>1, HeadTailProperties
    <2>3. Len(Head(queue)) \in Nat
      BY <2>1, LenProperties
    <2>4. QED
      BY <2>2, <2>3, EmptySeq DEF Job
  <1>5. \/ queue' = Tail(queue)
        \/ Len(Head(queue)) > 1 /\ queue' = Append(Tail(queue), Tail(Head(queue)))
    BY DEF Answered, GoesOn
  <1>6. QED
    BY <1>2, <1>3, <1>4, <1>5

LEMMA InitType == Init => TypeInv
  <1> SUFFICES ASSUME Init PROVE TypeInv
    OBVIOUS
  <1>1. queue \in Seq(Job) /\ call = NoSlot
    BY JobTypes DEF Init
  <1>2. client \in ClientType /\ reqs \in [Slots -> ReqType] /\ loops \in [Loops -> LoopType]
    BY FreshTypes DEF Init
  <1>3. page \in PageType
    BY DEF Init, PageType
  <1>4. CountType
    <2>1. /\ file \in 0 .. MaxDevices /\ made \in 0 .. MaxDevices /\ clicks \in 0 .. MaxClicks
          /\ timeOuts \in 0 .. MaxTimeOuts /\ deaths \in 0 .. MaxDeaths
      BY BridgeAssumption DEF Init
    <2>2. {outlived, died, swapped} \subseteq BOOLEAN
      BY DEF Init
    <2>3. QED
      BY <2>1, <2>2 DEF CountType
  <1>5. QED
    BY <1>1, <1>2, <1>3, <1>4, TypeParts DEF Typed

\* What a request, the client and the counters may become.
LEMMA ToType ==
  ASSUME Typed, NEW k \in Slots, NEW where, To(k, where),
         where \in {"free", "new", "booting", "recovering", "ready", "starting",
                    "joining", "done", "failed"}
  PROVE  reqs' \in [Slots -> ReqType]
  BY DEF Typed, ReqType, To

LEMMA TakesType ==
  ASSUME Typed, NEW k \in Slots, NEW d \in 0 .. MaxDevices, Takes(k, d)
  PROVE  reqs' \in [Slots -> ReqType] /\ client' \in ClientType
  <1>1. client' \in ClientType
    BY DEF Typed, ClientType, Takes
  <1>2. reqs' \in [Slots -> ReqType]
    BY ToType DEF Takes
  <1>3. QED
    BY <1>1, <1>2

LEMMA RegistersType ==
  ASSUME Typed, Registers
  PROVE  made + 1 \in 0 .. MaxDevices /\ made' = made + 1 /\ file' = made + 1 /\ swapped' \in BOOLEAN
  BY BridgeAssumption DEF Typed, CountType, Registers

LEMMA StepType == TypeInv /\ [Next]_vars => TypeInv'
  <1> SUFFICES ASSUME Typed, [Next]_vars PROVE TypedNext
    BY TypeParts
  <1> USE BridgeAssumption
  <1>1. ASSUME NEW job \in Job, Click(job)
        PROVE  TypedNext
    <2>1. queue' \in Seq(Job) /\ queue' # <<>>
      BY <1>1, AppendProperties, EmptySeq DEF Click, Typed
    <2>2. QED
      BY <1>1, <2>1 DEF Click, Typed, TypedNext, CountType
  <1>2. CASE PageStep
    BY <1>1, <1>2, JobTypes DEF PageStep, Toggle, Methods
  <1>3. CASE Restart
    <2>1. page' \in PageType /\ queue' \in Seq(Job) /\ call' = NoSlot
      BY <1>3, AnsweredType, TypeParts DEF Restart
    <2>2. reqs' \in [Slots -> ReqType] /\ client' \in ClientType /\ loops' \in [Loops -> LoopType]
      BY <1>3, FreshTypes DEF Restart, BridgeEnds
    <2>3. CountType'
      BY <1>3 DEF Restart, Typed, CountType, boundVars
    <2>4. QED
      BY <2>1, <2>2, <2>3 DEF TypedNext
  <1>4. CASE TimeOut
    <2>1. page' \in PageType /\ queue' \in Seq(Job) /\ call' = NoSlot
      BY <1>4, AnsweredType, TypeParts DEF TimeOut, Typed
    <2>2. CountType'
      <3>1. UNCHANGED <<file, made, clicks, deaths, died, swapped>>
        BY <1>4 DEF TimeOut
      <3>2. timeOuts' \in 0 .. MaxTimeOuts /\ outlived' \in BOOLEAN
        <4>1. CASE client.alive
          BY <1>4, <4>1 DEF TimeOut, Typed, CountType
        <4>2. CASE ~client.alive
          BY <1>4, <4>2 DEF TimeOut, Typed, CountType
        <4>3. QED
          BY <4>1, <4>2
      <3>3. QED
        BY <3>1, <3>2 DEF Typed, CountType
    <2>3. QED
      BY <1>4, <2>1, <2>2 DEF TimeOut, Typed, TypedNext
  <1>5. ASSUME NEW k \in Slots, Reply(k)
        PROVE  TypedNext
    <2>1. page' \in PageType /\ queue' \in Seq(Job) /\ call' \in Slots \cup {NoSlot}
          /\ (call' # NoSlot => queue' # <<>>)
      <3>1. CASE k = call
        <4>1. queue # <<>>
          BY <3>1 DEF Typed
        <4>2. QED
          BY <1>5, <3>1, <4>1, AnsweredType, TypeParts DEF Reply
      <3>2. CASE k # call
        BY <1>5, <3>2 DEF Reply, Typed
      <3>3. QED
        BY <3>1, <3>2
    <2>2. reqs' \in [Slots -> ReqType]
      BY <1>5, FreshTypes DEF Reply, Typed
    <2>3. CountType'
      BY <1>5 DEF Reply, Typed, CountType, boundVars
    <2>4. QED
      BY <1>5, <2>1, <2>2, <2>3 DEF Reply, Typed, TypedNext
  <1>6. ASSUME NEW k \in Slots, Send(k)
        PROVE  TypedNext
    <2>1. Head(Head(queue)) \in Methods
      <3>1. queue # <<>> /\ queue \in Seq(Job)
        BY <1>6 DEF Send, Typed
      <3>2. Head(queue) \in Job
        BY <3>1, HeadTailProperties
      <3>3. QED
        BY <3>2, HeadTailProperties DEF Job
    <2>2. reqs' \in [Slots -> ReqType]
      <3>1. PICK m \in Methods : reqs' = [reqs EXCEPT ![k] = [NoRequest EXCEPT !.method = m, !.at = "new"]]
        BY <1>6, <2>1 DEF Send
      <3>2. [NoRequest EXCEPT !.method = m, !.at = "new"] \in ReqType
        <4>1. \A q \in ReqType : [q EXCEPT !.method = m, !.at = "new"] \in ReqType
          BY DEF ReqType
        <4>2. QED
          BY <4>1, FreshTypes
      <3>3. QED
        BY <3>1, <3>2 DEF Typed
    <2>3. client' \in ClientType
      BY <1>6, FreshTypes DEF Send, Typed
    <2>4. CountType'
      BY <1>6 DEF Send, Typed, CountType, boundVars
    <2>5. QED
      BY <1>6, <2>2, <2>3, <2>4 DEF Send, Typed, TypedNext
  <1>7. CASE Die
    <2>1. reqs' \in [Slots -> ReqType] /\ client' \in ClientType /\ loops' \in [Loops -> LoopType]
      BY <1>7, FreshTypes DEF Die, BridgeEnds
    <2>2. CountType'
      BY <1>7 DEF Die, Typed, CountType
    <2>3. QED
      BY <1>7, <2>1, <2>2 DEF Die, Typed, TypedNext
  <1>8. ASSUME Unchanged, CountType', reqs' \in [Slots -> ReqType], client' \in ClientType,
               loops' \in [Loops -> LoopType]
        PROVE  TypedNext
    BY <1>8 DEF Unchanged, Typed, TypedNext
  <1>9. ASSUME NEW k \in Slots, HandlerStep(k)
        PROVE  TypedNext
    <2>1. CASE Inspect(k) \/ EnsureReady(k) \/ Ask(k)
      <3>1. reqs' \in [Slots -> ReqType]
        BY <2>1, ToType DEF Inspect, EnsureReady, Ask
      <3>2. Unchanged /\ UNCHANGED <<client, loops, file, made, swapped>>
        BY <2>1 DEF Inspect, EnsureReady, Ask
      <3>3. QED
        BY <1>8, <3>1, <3>2 DEF Typed, CountType, Unchanged, boundVars
    <2>2. CASE Booted(k)
      <3>1. reqs' \in [Slots -> ReqType] /\ client' \in ClientType
        <4>1. file \in 0 .. MaxDevices
          BY DEF Typed, CountType
        <4>2. [client EXCEPT !.sess = 0] \in ClientType
          BY DEF Typed, ClientType
        <4>3. CASE To(k, "failed")
          <5>1. reqs' \in [Slots -> ReqType]
            BY <4>3, ToType
          <5>2. client' = client \/ client' = [client EXCEPT !.sess = 0]
                \/ \E d \in 0 .. MaxDevices : Takes(k, d)
            BY <2>2, <4>1, RegistersType DEF Booted
          <5>3. QED
            BY <4>2, <5>1, <5>2, TakesType DEF Typed
        <4>4. QED
          BY <2>2, <4>1, <4>3, TakesType, RegistersType DEF Booted
      <3>2. CountType' /\ Unchanged /\ UNCHANGED loops
        BY <2>2, RegistersType DEF Booted, Unchanged, boundVars, Typed, CountType
      <3>3. QED
        BY <1>8, <3>1, <3>2 DEF Typed
    <2>3. CASE RecoverBegins(k)
      <3>1. reqs' \in [Slots -> ReqType]
        BY <2>3, ToType DEF RecoverBegins
      <3>2. client' \in ClientType
        BY <2>3 DEF RecoverBegins, Typed, ClientType
      <3>3. CountType' /\ Unchanged /\ UNCHANGED loops
        BY <2>3 DEF RecoverBegins, Unchanged, boundVars, Typed, CountType
      <3>4. QED
        BY <1>8, <3>1, <3>2, <3>3 DEF Typed
    <2>4. CASE Recovered(k)
      <3>1. reqs' \in [Slots -> ReqType] /\ client' \in ClientType
        BY <2>4, TakesType, RegistersType, ToType DEF Recovered, Typed
      <3>2. CountType' /\ Unchanged /\ UNCHANGED loops
        BY <2>4, RegistersType DEF Recovered, Unchanged, boundVars, Typed, CountType
      <3>3. QED
        BY <1>8, <3>1, <3>2 DEF Typed
    <2>5. CASE StartBegins(k)
      <3>1. reqs' \in [Slots -> ReqType]
        <4>1. CASE To(k, "done")
          BY <4>1, ToType
        <4>2. CASE reqs' = [reqs EXCEPT ![k].at = "starting", ![k].dev = client.sess]
          <5>1. client.sess \in 0 .. MaxDevices
            BY DEF Typed, ClientType
          <5>2. [reqs[k] EXCEPT !.at = "starting", !.dev = client.sess] \in ReqType
            BY <5>1 DEF Typed, ReqType
          <5>3. reqs' = [reqs EXCEPT ![k] = [reqs[k] EXCEPT !.at = "starting", !.dev = client.sess]]
            BY <4>2 DEF Typed, ReqType
          <5>4. QED
            BY <5>2, <5>3 DEF Typed
        <4>3. QED
          BY <2>5, <4>1, <4>2 DEF StartBegins
      <3>2. client' \in ClientType
        BY <2>5 DEF StartBegins, Typed, ClientType
      <3>3. CountType' /\ Unchanged /\ UNCHANGED loops
        BY <2>5 DEF StartBegins, Unchanged, boundVars, Typed, CountType
      <3>4. QED
        BY <1>8, <3>1, <3>2, <3>3 DEF Typed
    <2>6. CASE Started(k)
      <3>1. reqs' \in [Slots -> ReqType]
        BY <2>6, ToType DEF Started
      <3>2. client' \in ClientType /\ loops' \in [Loops -> LoopType]
        <4>1. CASE UNCHANGED <<client, loops>>
          BY <4>1 DEF Typed
        <4>2. ASSUME NEW i \in Loops,
                     loops' = [loops EXCEPT ![i] = [at |-> "open", dev |-> reqs[k].dev]],
                     client' = [client EXCEPT !.sess = reqs[k].dev, !.onChange = TRUE,
                                  !.stopRequested = FALSE, !.realtimeLoop = i,
                                  !.realtimeStream = i, !.realtimeRunning = TRUE]
              PROVE  client' \in ClientType /\ loops' \in [Loops -> LoopType]
          <5>1. reqs[k].dev \in 0 .. MaxDevices
            BY DEF Typed, ReqType
          <5>2. loops' \in [Loops -> LoopType]
            BY <4>2, <5>1 DEF Typed, LoopType
          <5>3. client' \in ClientType
            BY <4>2, <5>1 DEF Typed, ClientType
          <5>4. QED
            BY <5>2, <5>3
        <4>3. QED
          BY <2>6, <4>1, <4>2 DEF Started
      <3>3. CountType' /\ Unchanged
        BY <2>6 DEF Started, Unchanged, boundVars, Typed, CountType
      <3>4. QED
        BY <1>8, <3>1, <3>2, <3>3
    <2>7. CASE StopBegins(k)
      <3>1. reqs' \in [Slots -> ReqType]
        <4>1. CASE To(k, "done")
          BY <4>1, ToType
        <4>2. CASE reqs' = [reqs EXCEPT ![k].at = "joining", ![k].loop = client.realtimeLoop]
          <5>1. client.realtimeLoop \in Loops \cup {NoLoop}
            BY DEF Typed, ClientType
          <5>2. [reqs[k] EXCEPT !.at = "joining", !.loop = client.realtimeLoop] \in ReqType
            BY <5>1 DEF Typed, ReqType
          <5>3. reqs' = [reqs EXCEPT ![k] = [reqs[k] EXCEPT !.at = "joining",
                                                            !.loop = client.realtimeLoop]]
            BY <4>2 DEF Typed, ReqType
          <5>4. QED
            BY <5>2, <5>3 DEF Typed
        <4>3. QED
          BY <2>7, <4>1, <4>2 DEF StopBegins
      <3>2. client' \in ClientType /\ loops' \in [Loops -> LoopType]
        <4>1. client' \in ClientType
          BY <2>7 DEF StopBegins, Typed, ClientType
        <4>2. Cancel \in [Loops -> LoopType]
          <5>1. \A i \in Loops : [loops[i] EXCEPT !.at = "cut"] \in LoopType /\ loops[i] \in LoopType
            BY DEF Typed, LoopType
          <5>2. QED
            BY <5>1 DEF Cancel
        <4>3. loops' \in {loops, Cancel}
          BY <2>7 DEF StopBegins
        <4>4. QED
          BY <4>1, <4>2, <4>3 DEF Typed
      <3>3. CountType' /\ Unchanged
        BY <2>7 DEF StopBegins, Unchanged, boundVars, Typed, CountType
      <3>4. QED
        BY <1>8, <3>1, <3>2, <3>3
    <2>8. CASE Stopped(k)
      <3>1. reqs' \in [Slots -> ReqType]
        <4>1. reqs' = [reqs EXCEPT ![k].at = "done", ![k].loop = NoLoop]
          BY <2>8 DEF Stopped
        <4>2. [reqs[k] EXCEPT !.at = "done", !.loop = NoLoop] \in ReqType
          BY DEF Typed, ReqType
        <4>3. reqs' = [reqs EXCEPT ![k] = [reqs[k] EXCEPT !.at = "done", !.loop = NoLoop]]
          BY <4>1 DEF Typed, ReqType
        <4>4. QED
          BY <4>2, <4>3 DEF Typed
      <3>2. client' \in ClientType
        BY <2>8 DEF Stopped, Typed, ClientType
      <3>3. CountType' /\ Unchanged /\ UNCHANGED loops
        BY <2>8 DEF Stopped, Unchanged, boundVars, Typed, CountType
      <3>4. QED
        BY <1>8, <3>1, <3>2, <3>3 DEF Typed
    <2>9. QED
      BY <1>9, <2>1, <2>2, <2>3, <2>4, <2>5, <2>6, <2>7, <2>8 DEF HandlerStep
  <1>10. ASSUME NEW i \in Loops, LoopStep(i)
         PROVE  TypedNext
    <2>1. loops' \in [Loops -> LoopType]
      <3>1. PICK where \in {"none", "pause", "open"} : Goes(i, where)
        BY <1>10 DEF LoopStep, StreamEnds, PauseEnds
      <3>2. QED
        BY <3>1 DEF Goes, Typed, LoopType
    <2>2. client' \in ClientType
      BY <1>10 DEF LoopStep, StreamEnds, PauseEnds, Typed, ClientType
    <2>3. CountType' /\ Unchanged /\ UNCHANGED reqs
      BY <1>10 DEF LoopStep, StreamEnds, PauseEnds, Unchanged, boundVars, Typed, CountType
    <2>4. QED
      BY <1>8, <2>1, <2>2, <2>3 DEF Typed
  <1>11. CASE UNCHANGED vars
    BY <1>11 DEF vars, boundVars, Typed, TypedNext, CountType
  <1>12. QED
    BY <1>2, <1>3, <1>4, <1>5, <1>6, <1>7, <1>9, <1>10, <1>11 DEF Next, ShellStep

-----------------------------------------------------------------------------
(* One request at a time *)

\* What a handler does to the requests: it moves its own.
LEMMA HandlerMoves ==
  ASSUME Typed, NEW k \in Slots, HandlerStep(k)
  PROVE  /\ reqs[k].at # "free"
         /\ \A r \in Slots : r # k => reqs'[r] = reqs[r]
         /\ reqs'[k].method = reqs[k].method
         /\ UNCHANGED <<page, queue, call, boundVars>>
         /\ client'.alive = client.alive
  <1>1. ASSUME NEW where, To(k, where)
        PROVE  (\A r \in Slots : r # k => reqs'[r] = reqs[r]) /\ reqs'[k].method = reqs[k].method
    BY <1>1 DEF To, Typed, ReqType
  <1>2. ASSUME NEW d, Takes(k, d)
        PROVE  /\ \A r \in Slots : r # k => reqs'[r] = reqs[r]
               /\ reqs'[k].method = reqs[k].method /\ client'.alive = client.alive
    BY <1>1, <1>2 DEF Takes, Typed, ClientType
  <1>3. CASE Inspect(k) \/ EnsureReady(k) \/ Ask(k)
    BY <1>1, <1>3 DEF Inspect, EnsureReady, Ask, New, Unchanged, boundVars
  <1>4. CASE Booted(k)
    BY <1>1, <1>2, <1>4 DEF Booted, Unchanged, boundVars, Typed, ClientType
  <1>5. CASE RecoverBegins(k)
    BY <1>1, <1>5 DEF RecoverBegins, New, Unchanged, boundVars, Typed, ClientType
  <1>6. CASE Recovered(k)
    BY <1>1, <1>2, <1>6 DEF Recovered, Unchanged, boundVars
  <1>7. CASE StartBegins(k)
    BY <1>1, <1>7 DEF StartBegins, Unchanged, boundVars, Typed, ReqType, ClientType
  <1>8. CASE Started(k)
    BY <1>1, <1>8 DEF Started, Unchanged, boundVars, Typed, ClientType
  <1>9. CASE StopBegins(k)
    <2>1. /\ reqs[k].at = "new" /\ UNCHANGED <<page, queue, call, boundVars>>
          /\ \/ To(k, "done") /\ UNCHANGED client
             \/ /\ reqs' = [reqs EXCEPT ![k].at = "joining", ![k].loop = client.realtimeLoop]
                /\ client' = [client EXCEPT !.stopRequested = TRUE, !.realtimeStream = NoLoop]
      BY <1>9 DEF StopBegins, New, Unchanged
    <2>2. CASE To(k, "done") /\ UNCHANGED client
      BY <1>1, <2>1, <2>2
    <2>3. CASE /\ reqs' = [reqs EXCEPT ![k].at = "joining", ![k].loop = client.realtimeLoop]
               /\ client' = [client EXCEPT !.stopRequested = TRUE, !.realtimeStream = NoLoop]
      <3>1. client'.alive = client.alive
        BY <2>3 DEF Typed, ClientType
      <3>2. \A r \in Slots : r # k => reqs'[r] = reqs[r]
        BY <2>3 DEF Typed
      <3>3. reqs'[k].method = reqs[k].method
        BY <2>3 DEF Typed, ReqType
      <3>4. QED
        BY <2>1, <3>1, <3>2, <3>3
    <2>4. QED
      BY <2>1, <2>2, <2>3
  <1>10. CASE Stopped(k)
    BY <1>10 DEF Stopped, Unchanged, boundVars, Typed, ReqType, ClientType
  <1>11. QED
    BY <1>3, <1>4, <1>5, <1>6, <1>7, <1>8, <1>9, <1>10 DEF HandlerStep

\* What a loop does: nothing to the requests, and it was there.
LEMMA LoopMoves ==
  ASSUME Typed, NEW i \in Loops, LoopStep(i)
  PROVE  /\ i \in Running
         /\ UNCHANGED <<page, queue, call, boundVars, reqs, file, swapped>>
         /\ \A j \in Loops : j # i => loops'[j] = loops[j]
         /\ loops'[i].dev = loops[i].dev
         /\ client'.alive = client.alive
  BY DEF LoopStep, StreamEnds, PauseEnds, Goes, Unchanged, boundVars, Typed, ClientType,
         LoopType, Running

LEMMA DeadIdle ==
  ASSUME DeadInv, ~client.alive
  PROVE  /\ \A k \in Slots : reqs[k].at = "free"
         /\ \A i \in Loops : loops[i].at = "none"
  <1>1. reqs = [k \in Slots |-> NoRequest] /\ loops = NoLoops
    BY DEF DeadInv
  <1>2. \A k \in Slots : reqs[k].at = "free"
    BY <1>1 DEF NoRequest
  <1>3. \A i \in Loops : loops[i].at = "none"
    BY <1>1 DEF NoLoops
  <1>4. QED
    BY <1>2, <1>3

\* A bridge process that has just been started, or that has ended.
LEMMA FreshFields ==
  ASSUME NEW b
  PROVE  /\ Fresh(b).realtimeLoop = NoLoop /\ Fresh(b).realtimeStream = NoLoop
         /\ Fresh(b).realtimeRunning = FALSE /\ Fresh(b).onChange = FALSE
         /\ Fresh(b).sess = 0
  BY DEF Fresh

LEMMA EndsAll ==
  ASSUME BridgeEnds
  PROVE  /\ \A k \in Slots : reqs'[k].at = "free"
         /\ Running' = {}
         /\ client' = Fresh(FALSE)
  <1>1. reqs' = [k \in Slots |-> NoRequest] /\ loops' = NoLoops /\ client' = Fresh(FALSE)
    BY DEF BridgeEnds
  <1>2. \A k \in Slots : reqs'[k].at = "free"
    BY <1>1 DEF NoRequest
  <1>3. \A i \in Loops : loops'[i].at = "none"
    BY <1>1 DEF NoLoops
  <1>4. QED
    BY <1>1, <1>2, <1>3 DEF Running

LEMMA StepDead ==
  ASSUME Typed, DeadInv, [Next]_vars
  PROVE  DeadInv'
  <1>1. CASE PageStep \/ TimeOut
    BY <1>1 DEF PageStep, Toggle, Click, TimeOut, DeadInv, Fresh
  <1>2. CASE Restart \/ Die
    BY <1>2 DEF Restart, Die, BridgeEnds, DeadInv, Fresh
  <1>3. ASSUME NEW k \in Slots, Reply(k)
        PROVE  DeadInv'
    BY <1>3 DEF Reply, DeadInv, NoRequest, Fresh
  <1>4. ASSUME NEW k \in Slots, Send(k)
        PROVE  DeadInv'
    BY <1>4 DEF Send, DeadInv, Fresh
  <1>5. ASSUME NEW k \in Slots, HandlerStep(k)
        PROVE  DeadInv'
    <2>1. reqs[k].at # "free" /\ client'.alive = client.alive
      BY <1>5, HandlerMoves
    <2>2. client.alive
      BY <2>1, DeadIdle
    <2>3. QED
      BY <2>1, <2>2 DEF DeadInv
  <1>6. ASSUME NEW i \in Loops, LoopStep(i)
        PROVE  DeadInv'
    <2>1. loops[i].at # "none" /\ client'.alive = client.alive
      BY <1>6, LoopMoves DEF Running
    <2>2. client.alive
      BY <2>1, DeadIdle
    <2>3. QED
      BY <2>1, <2>2 DEF DeadInv
  <1>7. CASE UNCHANGED vars
    BY <1>7 DEF vars, DeadInv, Fresh
  <1>8. QED
    BY <1>1, <1>2, <1>3, <1>4, <1>5, <1>6, <1>7 DEF Next, ShellStep

LEMMA StepAlone ==
  ASSUME Typed, DeadInv, AloneInv, [Next]_vars
  PROVE  AloneInv'
  <1>1. CASE PageStep
    BY <1>1 DEF PageStep, Toggle, Click, AloneInv
  <1>2. CASE Restart \/ Die
    <2>1. reqs' = [k \in Slots |-> NoRequest]
      BY <1>2 DEF Restart, Die, BridgeEnds
    <2>2. \A k \in Slots : reqs'[k].at = "free"
      BY <2>1 DEF NoRequest
    <2>3. QED
      BY <2>2 DEF AloneInv
  <1>3. CASE TimeOut
    <2>1. CASE client.alive
      BY <1>3, <2>1 DEF TimeOut, AloneInv
    <2>2. CASE ~client.alive
      <3>1. reqs' = [k \in Slots |-> NoRequest]
        BY <1>3, <2>2 DEF TimeOut, DeadInv
      <3>2. \A k \in Slots : reqs'[k].at = "free"
        BY <3>1 DEF NoRequest
      <3>3. QED
        BY <3>2 DEF AloneInv
    <2>3. QED
      BY <2>1, <2>2
  <1>4. ASSUME NEW k \in Slots, Reply(k)
        PROVE  AloneInv'
    BY <1>4 DEF Reply, Answered, AloneInv, NoRequest, Typed, boundVars
  <1>5. ASSUME NEW k \in Slots, Send(k)
        PROVE  AloneInv'
    BY <1>5, BridgeAssumption DEF Send, AloneInv, Typed, boundVars
  <1>6. ASSUME NEW k \in Slots, HandlerStep(k)
        PROVE  AloneInv'
    BY <1>6, HandlerMoves DEF AloneInv, boundVars
  <1>7. ASSUME NEW i \in Loops, LoopStep(i)
        PROVE  AloneInv'
    BY <1>7, LoopMoves DEF AloneInv, boundVars
  <1>8. CASE UNCHANGED vars
    BY <1>8 DEF vars, boundVars, AloneInv
  <1>9. QED
    BY <1>1, <1>2, <1>3, <1>4, <1>5, <1>6, <1>7, <1>8 DEF Next, ShellStep

LEMMA StepSent ==
  ASSUME Typed, SentInv, [Next]_vars
  PROVE  SentInv'
  <1>1. CASE PageStep \/ TimeOut
    BY <1>1 DEF PageStep, Toggle, Click, TimeOut, SentInv
  <1>2. CASE Restart \/ Die
    <2>1. reqs' = [k \in Slots |-> NoRequest]
      BY <1>2 DEF Restart, Die, BridgeEnds
    <2>2. \A k \in Slots : reqs'[k].method = "ask"
      BY <2>1 DEF NoRequest
    <2>3. QED
      BY <2>2 DEF SentInv
  <1>3. ASSUME NEW k \in Slots, Reply(k)
        PROVE  SentInv'
    BY <1>3 DEF Reply, SentInv, Typed, NoRequest
  <1>4. ASSUME NEW k \in Slots, Send(k)
        PROVE  SentInv'
    BY <1>4 DEF Send, SentInv, Typed, NoRequest
  <1>5. ASSUME NEW k \in Slots, HandlerStep(k)
        PROVE  SentInv'
    BY <1>5, HandlerMoves DEF SentInv
  <1>6. ASSUME NEW i \in Loops, LoopStep(i)
        PROVE  SentInv'
    BY <1>6, LoopMoves DEF SentInv
  <1>7. CASE UNCHANGED vars
    BY <1>7 DEF vars, SentInv
  <1>8. QED
    BY <1>1, <1>2, <1>3, <1>4, <1>5, <1>6, <1>7 DEF Next, ShellStep

\* What the request under way is while the others are free.
LEMMA OnlyOne ==
  ASSUME AloneInv, ~outlived, NEW k \in Slots, reqs[k].at # "free"
  PROVE  k = call /\ \A r \in Slots : r # k => reqs[r].at = "free"
  BY DEF AloneInv

LEMMA StepStream ==
  ASSUME Typed, StreamInv, [Next]_vars
  PROVE  StreamInv'
  <1>1. CASE PageStep \/ TimeOut \/ \E k \in Slots : Reply(k)
    <2>1. UNCHANGED <<client, loops>>
      <3>1. CASE PageStep
        BY <3>1 DEF PageStep, Toggle, Click
      <3>2. CASE TimeOut
        BY <3>2 DEF TimeOut
      <3>3. ASSUME NEW k \in Slots, Reply(k)
            PROVE  UNCHANGED <<client, loops>>
        BY <3>3 DEF Reply
      <3>4. QED
        BY <1>1, <3>1, <3>2, <3>3
    <2>2. QED
      BY <2>1 DEF StreamInv
  <1>2. CASE Restart \/ Die
    <2>1. client'.realtimeStream = NoLoop
      BY <1>2, EndsAll, FreshFields DEF Restart, Die
    <2>2. QED
      BY <2>1 DEF StreamInv
  <1>3. ASSUME NEW k \in Slots, Send(k)
        PROVE  StreamInv'
    BY <1>3 DEF Send, Fresh, StreamInv
  <1>4. ASSUME NEW k \in Slots, HandlerStep(k)
        PROVE  StreamInv'
    <2>1. CASE Started(k)
      <3>1. CASE UNCHANGED <<client, loops>>
        BY <3>1 DEF StreamInv
      <3>2. ASSUME NEW i \in Loops,
                   loops' = [loops EXCEPT ![i] = [at |-> "open", dev |-> reqs[k].dev]],
                   client' = [client EXCEPT !.sess = reqs[k].dev, !.onChange = TRUE,
                                !.stopRequested = FALSE, !.realtimeLoop = i,
                                !.realtimeStream = i, !.realtimeRunning = TRUE]
            PROVE  StreamInv'
        <4>1. client'.realtimeStream = i /\ loops'[i].at = "open"
          BY <3>2 DEF Typed, ClientType
        <4>2. QED
          BY <4>1 DEF StreamInv
      <3>3. QED
        BY <2>1, <3>1, <3>2 DEF Started
    <2>2. CASE StopBegins(k)
      BY <2>2 DEF StopBegins, StreamInv, Typed, ClientType
    <2>3. ASSUME ~Started(k), ~StopBegins(k)
          PROVE  client'.realtimeStream = client.realtimeStream /\ loops' = loops
      BY <1>4, <2>3
      DEF HandlerStep, Inspect, EnsureReady, Booted, RecoverBegins, Recovered, Ask,
          StartBegins, Stopped, Takes, Typed, ClientType
    <2>4. QED
      BY <2>1, <2>2, <2>3 DEF StreamInv
  <1>5. ASSUME NEW i \in Loops, LoopStep(i)
        PROVE  StreamInv'
    <2>1. CASE StreamEnds(i)
      BY <2>1, BridgeAssumption DEF StreamEnds, Goes, StreamInv, Typed, ClientType, LoopType
    <2>2. CASE PauseEnds(i)
      BY <2>2, BridgeAssumption DEF PauseEnds, Goes, StreamInv, Typed, ClientType, LoopType
    <2>3. QED
      BY <1>5, <2>1, <2>2 DEF LoopStep
  <1>6. CASE UNCHANGED vars
    BY <1>6 DEF vars, StreamInv
  <1>7. QED
    BY <1>1, <1>2, <1>3, <1>4, <1>5, <1>6 DEF Next, ShellStep

-----------------------------------------------------------------------------
(* One loop *)

\* What the loops and startRealtime and stopRealtime are about, of the client.
Realtime ==
  <<client.realtimeLoop, client.realtimeStream, client.realtimeRunning, client.onChange,
    client.stopRequested>>

\* The handlers that have nothing to do with the loops.
CalmStep(k) ==
  Inspect(k) \/ EnsureReady(k) \/ Booted(k) \/ RecoverBegins(k) \/ Recovered(k) \/ Ask(k)

LEMMA CalmHandlers ==
  ASSUME Typed, NEW k \in Slots, CalmStep(k)
  PROVE  /\ UNCHANGED <<loops, Realtime>>
         /\ reqs[k].at \in {"new", "booting", "recovering", "ready"}
         /\ reqs'[k].at \in {"ready", "failed", "booting", "recovering", "done"}
         /\ reqs'[k].at = "done" => reqs[k].method \notin {"start", "stop"}
  <1>1. ASSUME NEW where, To(k, where)
        PROVE  reqs'[k].at = where
    BY <1>1 DEF To, Typed, ReqType
  <1>2. ASSUME NEW d, Takes(k, d)
        PROVE  /\ UNCHANGED Realtime
               /\ reqs'[k].at = IF reqs[k].method \in {"bootstrap", "recover"} THEN "done" ELSE "ready"
    <2>1. UNCHANGED Realtime
      BY <1>2 DEF Takes, Realtime, Typed, ClientType
    <2>2. QED
      BY <1>1, <1>2, <2>1 DEF Takes
  <1>3. ASSUME client' = [client EXCEPT !.sess = 0]
        PROVE  UNCHANGED Realtime
    BY <1>3 DEF Realtime, Typed, ClientType
  <1>4. CASE Inspect(k) \/ EnsureReady(k) \/ Ask(k)
    BY <1>1, <1>4 DEF Inspect, EnsureReady, Ask, New, Realtime
  <1>5. CASE Booted(k)
    BY <1>1, <1>2, <1>3, <1>5 DEF Booted, Realtime
  <1>6. CASE RecoverBegins(k)
    BY <1>1, <1>3, <1>6 DEF RecoverBegins, New
  <1>7. CASE Recovered(k)
    BY <1>1, <1>2, <1>7 DEF Recovered, Realtime
  <1>8. QED
    BY <1>4, <1>5, <1>6, <1>7 DEF CalmStep

\* Steps that leave the loops and what they depend on alone.
LEMMA LoopCalm ==
  ASSUME LoopInv, outlived => outlived',
         UNCHANGED <<loops, Realtime>>,
         \A r \in Slots : \/ reqs'[r] = reqs[r]
                          \/ /\ reqs[r].at \notin {"starting", "joining"}
                             /\ reqs'[r].at \notin {"starting", "joining"}
  PROVE  LoopInv'
  BY DEF LoopInv, Running, Realtime

LEMMA LoopEnds ==
  ASSUME BridgeEnds
  PROVE  LoopInv'
  <1>1. client'.realtimeLoop = NoLoop /\ client'.realtimeRunning = FALSE
    BY EndsAll, FreshFields
  <1>2. QED
    BY <1>1, EndsAll DEF LoopInv

LEMMA LoopReply ==
  ASSUME Typed, LoopInv, NEW k \in Slots, Reply(k)
  PROVE  LoopInv'
  <1>1. \A r \in Slots : \/ reqs'[r] = reqs[r]
                         \/ /\ reqs[r].at \notin {"starting", "joining"}
                            /\ reqs'[r].at \notin {"starting", "joining"}
    BY DEF Reply, Typed, NoRequest
  <1>2. UNCHANGED <<loops, client, outlived>>
    BY DEF Reply, boundVars
  <1>3. QED
    BY <1>1, <1>2, LoopCalm DEF Realtime

LEMMA LoopSend ==
  ASSUME Typed, DeadInv, LoopInv, NEW k \in Slots, Send(k)
  PROVE  LoopInv'
  <1>1. /\ reqs[k].at = "free" /\ reqs'[k].at = "new"
        /\ \A r \in Slots : r # k => reqs'[r] = reqs[r]
    BY DEF Send, Typed, NoRequest
  <1>2. CASE client.alive
    BY <1>1, <1>2, LoopCalm DEF Send, boundVars, Realtime
  <1>3. CASE ~client.alive
    <2>1. \A r \in Slots : reqs'[r].at \in {"free", "new"}
      BY <1>1, <1>3, DeadIdle
    <2>2. Running' = {}
      BY <1>3, DeadIdle DEF Send, Running
    <2>3. client'.realtimeLoop = NoLoop /\ client'.realtimeRunning = FALSE
      BY <1>3, FreshFields DEF Send
    <2>4. QED
      BY <2>1, <2>2, <2>3 DEF LoopInv
  <1>4. QED
    BY <1>2, <1>3

\* The five things LoopInv says, after a step that is not overshadowed.
LEMMA LoopStartBegins ==
  ASSUME Typed, AloneInv, LoopInv, NEW k \in Slots, StartBegins(k)
  PROVE  LoopInv'
  <1> SUFFICES ASSUME ~outlived PROVE LoopInv'
    BY DEF StartBegins, Unchanged, boundVars, LoopInv
  <1>1. reqs[k].at = "ready" /\ \A r \in Slots : r # k => reqs[r].at = "free"
    BY OnlyOne DEF StartBegins
  <1>2. \A r \in Slots : r # k => reqs'[r].at = "free"
    BY <1>1, HandlerMoves DEF HandlerStep
  <1>3. reqs[k].method = "start" /\ reqs'[k].method = "start" /\ loops' = loops
    BY HandlerMoves DEF HandlerStep, StartBegins
  <1>4. CASE MayStart(k)
    <2>1. reqs'[k].at = "starting" /\ client' = client
      BY <1>4 DEF StartBegins, Typed, ReqType
    <2>2. client.realtimeLoop = NoLoop
      BY <1>4 DEF MayStart
    <2>3. QED
      BY <1>2, <1>3, <2>1, <2>2 DEF LoopInv, Running
  <1>5. CASE ~MayStart(k)
    <2>1. reqs'[k].at = "done"
      BY <1>5 DEF StartBegins, To, Typed, ReqType
    <2>2. /\ client'.realtimeRunning = TRUE
          /\ client'.realtimeLoop = client.realtimeLoop /\ client'.onChange = client.onChange
          /\ client'.stopRequested = client.stopRequested
      BY <1>5 DEF StartBegins, Typed, ClientType
    <2>3. client.realtimeLoop # NoLoop
      BY <1>5 DEF MayStart, LoopInv
    <2>4. QED
      BY <1>1, <1>2, <1>3, <2>1, <2>2, <2>3 DEF LoopInv, Running
  <1>6. QED
    BY <1>4, <1>5

LEMMA LoopStarted ==
  ASSUME Typed, AloneInv, LoopInv, NEW k \in Slots, Started(k)
  PROVE  LoopInv'
  <1> SUFFICES ASSUME ~outlived PROVE LoopInv'
    BY DEF Started, Unchanged, boundVars, LoopInv
  <1>1. reqs[k].at = "starting" /\ \A r \in Slots : r # k => reqs[r].at = "free"
    BY OnlyOne DEF Started
  <1>2. \A r \in Slots : r # k => reqs'[r].at = "free"
    BY <1>1, HandlerMoves DEF HandlerStep
  <1>3. reqs'[k].at \in {"done", "failed"}
    <2>1. PICK where \in {"done", "failed"} : To(k, where)
      BY DEF Started
    <2>2. QED
      BY <2>1 DEF To, Typed, ReqType
  <1>4. client.realtimeLoop = NoLoop /\ Running = {}
    <2>1. client.realtimeLoop = NoLoop /\ \A i \in Running : i = NoLoop
      BY <1>1 DEF LoopInv
    <2>2. QED
      BY <2>1, BridgeAssumption DEF Running
  <1>5. CASE UNCHANGED <<client, loops>>
    BY <1>2, <1>3, <1>4, <1>5 DEF LoopInv, Running
  <1>6. ASSUME NEW i \in Loops,
               loops' = [loops EXCEPT ![i] = [at |-> "open", dev |-> reqs[k].dev]],
               client' = [client EXCEPT !.sess = reqs[k].dev, !.onChange = TRUE,
                            !.stopRequested = FALSE, !.realtimeLoop = i,
                            !.realtimeStream = i, !.realtimeRunning = TRUE]
        PROVE  LoopInv'
    <2>1. Running' = {i}
      BY <1>4, <1>6 DEF Running, Typed
    <2>2. /\ client'.realtimeLoop = i /\ client'.realtimeRunning = TRUE
          /\ client'.onChange = TRUE /\ client'.stopRequested = FALSE
      BY <1>6 DEF Typed, ClientType
    <2>3. i # NoLoop
      BY BridgeAssumption
    <2>4. QED
      BY <1>2, <1>3, <2>1, <2>2, <2>3 DEF LoopInv
  <1>7. QED
    BY <1>5, <1>6 DEF Started

\* Cancelling a stream starts no loop.
LEMMA CancelEnds ==
  ASSUME StreamInv, loops' = Cancel
  PROVE  Running' \subseteq Running
  <1>1. \A i \in Loops : i # client.realtimeStream => loops'[i] = loops[i]
    BY DEF Cancel
  <1>2. client.realtimeStream \in Loops => loops[client.realtimeStream].at # "none"
    BY BridgeAssumption DEF StreamInv
  <1>3. QED
    BY <1>1, <1>2 DEF Running

LEMMA LoopStopBegins ==
  ASSUME Typed, AloneInv, StreamInv, LoopInv, NEW k \in Slots, StopBegins(k)
  PROVE  LoopInv'
  <1> SUFFICES ASSUME ~outlived PROVE LoopInv'
    BY DEF StopBegins, Unchanged, boundVars, LoopInv
  <1>1. /\ reqs[k].at = "new" /\ reqs[k].method = "stop"
        /\ \A r \in Slots : r # k => reqs[r].at = "free"
    BY OnlyOne DEF StopBegins, New
  <1>2. (\A r \in Slots : r # k => reqs'[r].at = "free") /\ reqs'[k].method = "stop"
    BY <1>1, HandlerMoves DEF HandlerStep
  <1>3. CASE client.realtimeRunning
    <2>1. reqs'[k].at = "joining" /\ reqs'[k].loop = client.realtimeLoop
      BY <1>3 DEF StopBegins, Typed, ReqType
    <2>2. client'.realtimeLoop = client.realtimeLoop
      BY <1>3 DEF StopBegins, Typed, ClientType
    <2>3. client.realtimeLoop # NoLoop
      BY <1>3 DEF LoopInv
    <2>4. Running' \subseteq Running
      BY <1>3, CancelEnds DEF StopBegins
    <2>5. QED
      BY <1>2, <2>1, <2>2, <2>3, <2>4 DEF LoopInv
  <1>4. CASE ~client.realtimeRunning
    <2>1. /\ reqs'[k].at = "done" /\ UNCHANGED <<client, loops>>
      BY <1>4 DEF StopBegins, To, Typed, ReqType
    <2>2. QED
      BY <1>1, <1>2, <2>1 DEF LoopInv, Running
  <1>5. QED
    BY <1>3, <1>4

LEMMA LoopStopped ==
  ASSUME Typed, AloneInv, LoopInv, NEW k \in Slots, Stopped(k)
  PROVE  LoopInv'
  <1> SUFFICES ASSUME ~outlived PROVE LoopInv'
    BY DEF Stopped, Unchanged, boundVars, LoopInv
  <1>1. /\ reqs[k].at = "joining" /\ reqs[k].loop \notin Running
        /\ \A r \in Slots : r # k => reqs[r].at = "free"
    BY OnlyOne DEF Stopped
  <1>2. \A r \in Slots : r # k => reqs'[r].at = "free"
    BY <1>1, HandlerMoves DEF HandlerStep
  <1>3. reqs'[k].at = "done"
    BY DEF Stopped, Typed, ReqType
  <1>4. Running' = {}
    BY <1>1 DEF LoopInv, Stopped, Running
  <1>5. client'.realtimeLoop = NoLoop /\ client'.realtimeRunning = FALSE
    BY DEF Stopped, Typed, ClientType
  <1>6. QED
    BY <1>2, <1>3, <1>4, <1>5 DEF LoopInv

\* A loop ends only when it has been told to.
LEMMA LoopGoesOn ==
  ASSUME Typed, NEW i \in Loops, LoopStep(i)
  PROVE  /\ Running' \subseteq Running
         /\ ~client.stopRequested => Running' = Running
         /\ client'.realtimeLoop = client.realtimeLoop
         /\ client'.realtimeRunning = client.realtimeRunning
         /\ client'.onChange = client.onChange
         /\ client'.stopRequested = client.stopRequested
  <1>1. UNCHANGED <<client.realtimeLoop, client.realtimeRunning, client.onChange,
                    client.stopRequested>>
    BY DEF LoopStep, StreamEnds, PauseEnds, Typed, ClientType
  <1>2. \A j \in Loops : j # i => loops'[j] = loops[j]
    BY LoopMoves
  <1>3. i \in Running
    BY LoopMoves
  <1>4. ~client.stopRequested => loops'[i].at # "none"
    BY DEF LoopStep, StreamEnds, PauseEnds, Goes, Typed, LoopType
  <1>5. QED
    BY <1>1, <1>2, <1>3, <1>4 DEF Running

LEMMA LoopLoop ==
  ASSUME Typed, LoopInv, NEW i \in Loops, LoopStep(i)
  PROVE  LoopInv'
  <1> SUFFICES ASSUME ~outlived PROVE LoopInv'
    BY LoopMoves DEF boundVars, LoopInv
  <1>1. UNCHANGED reqs
    BY LoopMoves
  <1>2. \A j \in Running' : j = client'.realtimeLoop
    BY LoopGoesOn DEF LoopInv
  <1>3. client'.realtimeLoop = NoLoop => ~client'.realtimeRunning
    BY LoopGoesOn DEF LoopInv
  <1>4. client'.realtimeLoop # NoLoop /\ (\A k \in Slots : reqs'[k].at # "joining") =>
          /\ client'.realtimeLoop \in Running'
          /\ client'.realtimeRunning /\ client'.onChange /\ ~client'.stopRequested
    BY <1>1, LoopGoesOn DEF LoopInv
  <1>5. \A k \in Slots : reqs'[k].at = "starting" =>
          client'.realtimeLoop = NoLoop /\ reqs'[k].method = "start"
    BY <1>1, LoopGoesOn DEF LoopInv
  <1>6. \A k \in Slots : reqs'[k].at = "joining" =>
          reqs'[k].loop = client'.realtimeLoop /\ reqs'[k].method = "stop"
    BY <1>1, LoopGoesOn DEF LoopInv
  <1>7. QED
    BY <1>2, <1>3, <1>4, <1>5, <1>6 DEF LoopInv

LEMMA StepLoop ==
  ASSUME Typed, DeadInv, AloneInv, StreamInv, LoopInv, [Next]_vars
  PROVE  LoopInv'
  <1>1. CASE PageStep
    <2>1. UNCHANGED <<loops, client, reqs, outlived>>
      BY <1>1 DEF PageStep, Toggle, Click
    <2>2. QED
      BY <2>1, LoopCalm DEF Realtime
  <1>2. CASE TimeOut
    <2>1. UNCHANGED <<loops, client, reqs>> /\ (outlived => outlived')
      BY <1>2 DEF TimeOut
    <2>2. QED
      BY <2>1, LoopCalm DEF Realtime
  <1>3. CASE Restart \/ Die
    BY <1>3, LoopEnds DEF Restart, Die
  <1>4. ASSUME NEW k \in Slots, CalmStep(k)
        PROVE  LoopInv'
    <2>1. HandlerStep(k)
      BY <1>4 DEF CalmStep, HandlerStep
    <2>2. /\ \A r \in Slots : r # k => reqs'[r] = reqs[r]
          /\ outlived' = outlived
      BY <2>1, HandlerMoves DEF boundVars
    <2>3. QED
      BY <1>4, <2>2, CalmHandlers, LoopCalm
  <1>5. ASSUME NEW k \in Slots, HandlerStep(k)
        PROVE  LoopInv'
    BY <1>4, <1>5, LoopStartBegins, LoopStarted, LoopStopBegins, LoopStopped
    DEF HandlerStep, CalmStep
  <1>6. CASE UNCHANGED vars
    BY <1>6, LoopCalm DEF vars, boundVars, Realtime
  <1>7. QED
    BY <1>1, <1>2, <1>3, <1>5, <1>6, LoopReply, LoopSend, LoopLoop DEF Next, ShellStep

-----------------------------------------------------------------------------
(* The device of the loop *)

\* Steps that leave alone who is served.
LEMMA DeviceCalm ==
  ASSUME DeviceInv, outlived => outlived', UNCHANGED <<client.sess, file, swapped>>,
         \A i \in Running' : i \in Running /\ loops'[i].dev = loops[i].dev,
         \A r \in Slots : reqs'[r].at = "starting" =>
           reqs[r].at = "starting" /\ reqs'[r].dev = reqs[r].dev
  PROVE  DeviceInv'
  BY DEF DeviceInv

\* No start is under way, and the session is that of nobody or of the file.
LEMMA DeviceNew ==
  ASSUME \A r \in Slots : reqs'[r].at # "starting",
         client'.sess \in {0, file'},
         \A i \in Running' : loops'[i].dev # 0,
         swapped' \/ \A i \in Running' : loops'[i].dev = client'.sess
  PROVE  DeviceInv'
  BY DEF DeviceInv

LEMMA DeviceSend ==
  ASSUME Typed, DeadInv, DeviceInv, NEW k \in Slots, Send(k)
  PROVE  DeviceInv'
  <1>1. /\ reqs'[k].at = "new" /\ \A r \in Slots : r # k => reqs'[r] = reqs[r]
        /\ UNCHANGED <<loops, file, swapped, outlived>>
    BY DEF Send, Typed, NoRequest, boundVars
  <1>2. CASE client.alive
    <2>1. UNCHANGED client
      BY <1>2 DEF Send
    <2>2. QED
      BY <1>1, <2>1, DeviceCalm DEF Running
  <1>3. CASE ~client.alive
    <2>1. client'.sess = 0 /\ Running' = {}
      BY <1>1, <1>3, DeadIdle, FreshFields DEF Send, Running
    <2>2. \A r \in Slots : reqs'[r].at # "starting"
      BY <1>1, <1>3, DeadIdle
    <2>3. QED
      BY <2>1, <2>2, DeviceNew
  <1>4. QED
    BY <1>2, <1>3

\* Handlers that leave the session alone.
LEMMA DeviceQuiet ==
  ASSUME Typed, StreamInv, DeviceInv, NEW k \in Slots,
         Inspect(k) \/ EnsureReady(k) \/ Ask(k) \/ StopBegins(k) \/ Stopped(k)
  PROVE  DeviceInv'
  <1>1. /\ UNCHANGED <<client.sess, file, swapped, outlived>>
        /\ \A r \in Slots : r # k => reqs'[r] = reqs[r]
    <2>1. CASE Inspect(k) \/ EnsureReady(k) \/ Ask(k)
      BY <2>1 DEF Inspect, EnsureReady, Ask, To, Typed, Unchanged, boundVars
    <2>2. CASE StopBegins(k)
      BY <2>2 DEF StopBegins, To, Typed, ClientType, Unchanged, boundVars
    <2>3. CASE Stopped(k)
      BY <2>3 DEF Stopped, Typed, ClientType, Unchanged, boundVars
    <2>4. QED
      BY <2>1, <2>2, <2>3
  <1>2. reqs'[k].at # "starting"
    <2>1. ASSUME NEW where, To(k, where)
          PROVE  reqs'[k].at = where
      BY <2>1 DEF To, Typed, ReqType
    <2>2. CASE Inspect(k) \/ EnsureReady(k) \/ Ask(k)
      BY <2>1, <2>2 DEF Inspect, EnsureReady, Ask
    <2>3. CASE StopBegins(k)
      <3>1. \/ To(k, "done")
            \/ reqs' = [reqs EXCEPT ![k].at = "joining", ![k].loop = client.realtimeLoop]
        BY <2>3 DEF StopBegins
      <3>2. CASE reqs' = [reqs EXCEPT ![k].at = "joining", ![k].loop = client.realtimeLoop]
        BY <3>2 DEF Typed, ReqType
      <3>3. QED
        BY <2>1, <3>1, <3>2
    <2>4. CASE Stopped(k)
      BY <2>4 DEF Stopped, Typed, ReqType
    <2>5. QED
      BY <2>2, <2>3, <2>4
  <1>3. \A i \in Loops : loops'[i].dev = loops[i].dev
    BY DEF Inspect, EnsureReady, Ask, StopBegins, Stopped, Cancel, Typed, LoopType
  <1>4. Running' \subseteq Running
    BY CancelEnds DEF Inspect, EnsureReady, Ask, StopBegins, Stopped, Running
  <1>5. QED
    BY <1>1, <1>2, <1>3, <1>4, DeviceCalm DEF Running

\* What the session and the file become.
LEMMA DeviceTakes ==
  ASSUME Typed, NEW k \in Slots, NEW d, Takes(k, d)
  PROVE  client'.sess = d /\ reqs'[k].at # "starting"
  <1>1. client'.sess = d
    BY DEF Takes, Typed, ClientType
  <1>2. PICK where \in {"done", "ready"} : To(k, where)
    BY DEF Takes
  <1>3. reqs'[k].at = where
    BY <1>2 DEF To, Typed, ReqType
  <1>4. QED
    BY <1>1, <1>3

LEMMA DeviceBooted ==
  ASSUME Typed, AloneInv, DeviceInv, NEW k \in Slots, Booted(k) \/ RecoverBegins(k) \/ Recovered(k)
  PROVE  DeviceInv'
  <1> SUFFICES ASSUME ~outlived PROVE DeviceInv'
    BY DEF Booted, RecoverBegins, Recovered, Unchanged, boundVars, DeviceInv
  <1>1. HandlerStep(k) /\ reqs[k].at # "free"
    BY HandlerMoves DEF HandlerStep
  <1>2. \A r \in Slots : r # k => reqs'[r].at # "starting"
    BY <1>1, OnlyOne, HandlerMoves
  <1>3. loops' = loops
    BY DEF Booted, RecoverBegins, Recovered
  <1>4. ASSUME NEW where \in {"failed", "recovering"}, To(k, where)
        PROVE  reqs'[k].at # "starting"
    BY <1>4 DEF To, Typed, ReqType
  <1>5. \A i \in Running' : i \in Running /\ loops'[i].dev # 0 /\ loops'[i].dev = loops[i].dev
    BY <1>3 DEF Running, DeviceInv
  <1>6. CASE file # 0 /\ Takes(k, file) /\ UNCHANGED <<file, made, swapped>>
    <2>1. swapped \/ \A i \in Running' : loops'[i].dev = file
      BY <1>5 DEF DeviceInv
    <2>2. QED
      BY <1>2, <1>5, <1>6, <2>1, DeviceTakes, DeviceNew
  <1>7. CASE Registers /\ Takes(k, made + 1)
    <2>1. file' = made + 1 /\ (swapped' \/ Running' = {})
      BY <1>3, <1>7 DEF Registers, Running
    <2>2. QED
      BY <1>2, <1>5, <1>7, <2>1, DeviceTakes, DeviceNew
  <1>8. CASE To(k, "failed") /\ UNCHANGED <<client, file, made, swapped>>
    BY <1>2, <1>4, <1>5, <1>8, DeviceCalm DEF Booted, RecoverBegins, Recovered, Unchanged, boundVars
  <1>9. CASE /\ client' = [client EXCEPT !.sess = 0] /\ \E where \in {"failed", "recovering"} : To(k, where)
             /\ swapped' = (swapped \/ Running # {})
    <2>1. client'.sess = 0 /\ (swapped' \/ Running' = {})
      BY <1>3, <1>9 DEF Typed, ClientType, Running
    <2>2. QED
      BY <1>2, <1>4, <1>5, <1>9, <2>1, DeviceNew
  <1>10. QED
    BY <1>6, <1>7, <1>8, <1>9 DEF Booted, RecoverBegins, Recovered

LEMMA DeviceStartBegins ==
  ASSUME Typed, AloneInv, DeviceInv, NEW k \in Slots, StartBegins(k)
  PROVE  DeviceInv'
  <1> SUFFICES ASSUME ~outlived PROVE DeviceInv'
    BY DEF StartBegins, Unchanged, boundVars, DeviceInv
  <1>1. /\ \A r \in Slots : r # k => reqs'[r].at = "free"
        /\ UNCHANGED <<loops, file, swapped, outlived>>
    BY OnlyOne, HandlerMoves DEF HandlerStep, StartBegins, Unchanged, boundVars
  <1>2. client'.sess = client.sess
    BY DEF StartBegins, Typed, ClientType
  <1>3. client.sess \in {0, file}
    BY DEF DeviceInv
  <1>4. reqs'[k].at = "starting" => reqs'[k].dev = client.sess
    <2>1. \/ To(k, "done")
          \/ reqs' = [reqs EXCEPT ![k].at = "starting", ![k].dev = client.sess]
      BY DEF StartBegins
    <2>2. CASE To(k, "done")
      BY <2>2 DEF To, Typed, ReqType
    <2>3. CASE reqs' = [reqs EXCEPT ![k].at = "starting", ![k].dev = client.sess]
      BY <2>3 DEF Typed, ReqType
    <2>4. QED
      BY <2>1, <2>2, <2>3
  <1>5. QED
    BY <1>1, <1>2, <1>3, <1>4 DEF DeviceInv, Running

LEMMA DeviceStarted ==
  ASSUME Typed, AloneInv, LoopInv, DeviceInv, NEW k \in Slots, Started(k)
  PROVE  DeviceInv'
  <1> SUFFICES ASSUME ~outlived PROVE DeviceInv'
    BY DEF Started, Unchanged, boundVars, DeviceInv
  <1>1. /\ \A r \in Slots : r # k => reqs'[r].at = "free"
        /\ UNCHANGED <<file, swapped, outlived>>
    BY OnlyOne, HandlerMoves DEF HandlerStep, Started, Unchanged, boundVars
  <1>2. reqs'[k].at # "starting"
    <2>1. PICK where \in {"done", "failed"} : To(k, where)
      BY DEF Started
    <2>2. QED
      BY <2>1 DEF To, Typed, ReqType
  <1>3. CASE UNCHANGED <<client, loops>>
    BY <1>1, <1>2, <1>3, DeviceCalm DEF Running
  <1>4. ASSUME NEW i \in Loops, reqs[k].dev # 0,
               loops' = [loops EXCEPT ![i] = [at |-> "open", dev |-> reqs[k].dev]],
               client' = [client EXCEPT !.sess = reqs[k].dev, !.onChange = TRUE,
                            !.stopRequested = FALSE, !.realtimeLoop = i,
                            !.realtimeStream = i, !.realtimeRunning = TRUE]
        PROVE  DeviceInv'
    <2>1. Running = {}
      <3>1. \A j \in Running : j = NoLoop
        BY DEF LoopInv, Started
      <3>2. QED
        BY <3>1, BridgeAssumption DEF Running
    <2>2. \A j \in Running' : j = i
      BY <1>4, <2>1 DEF Running
    <2>3. loops'[i].dev = reqs[k].dev /\ client'.sess = reqs[k].dev
      BY <1>4 DEF Typed, ClientType
    <2>4. reqs[k].dev = file
      BY <1>4 DEF DeviceInv, Started
    <2>5. QED
      BY <1>1, <1>2, <1>4, <2>2, <2>3, <2>4, DeviceNew
  <1>5. QED
    BY <1>3, <1>4 DEF Started

LEMMA StepDevice ==
  ASSUME Typed, DeadInv, AloneInv, StreamInv, LoopInv, DeviceInv, [Next]_vars
  PROVE  DeviceInv'
  <1>1. CASE PageStep
    <2>1. UNCHANGED <<loops, client, reqs, outlived, file, swapped>>
      BY <1>1 DEF PageStep, Toggle, Click
    <2>2. QED
      BY <2>1, DeviceCalm DEF Running
  <1>2. CASE TimeOut
    <2>1. UNCHANGED <<loops, client, reqs, file, swapped>> /\ (outlived => outlived')
      BY <1>2 DEF TimeOut
    <2>2. QED
      BY <2>1, DeviceCalm DEF Running
  <1>3. CASE Restart \/ Die
    <2>1. BridgeEnds
      BY <1>3 DEF Restart, Die
    <2>2. client'.sess = 0 /\ Running' = {} /\ \A r \in Slots : reqs'[r].at = "free"
      BY <2>1, EndsAll, FreshFields
    <2>3. QED
      BY <2>2, DeviceNew
  <1>4. ASSUME NEW k \in Slots, Reply(k)
        PROVE  DeviceInv'
    <2>1. reqs'[k].at = "free" /\ \A r \in Slots : r # k => reqs'[r] = reqs[r]
      BY <1>4 DEF Reply, Typed, NoRequest
    <2>2. UNCHANGED <<loops, client, outlived, file, swapped>>
      BY <1>4 DEF Reply, boundVars
    <2>3. QED
      BY <2>1, <2>2, DeviceCalm DEF Running
  <1>5. ASSUME NEW i \in Loops, LoopStep(i)
        PROVE  DeviceInv'
    <2>1. client'.sess = client.sess
      BY <1>5 DEF LoopStep, StreamEnds, PauseEnds, Typed, ClientType
    <2>2. UNCHANGED <<reqs, outlived, file, swapped>>
      BY <1>5, LoopMoves DEF boundVars
    <2>3. \A j \in Loops : loops'[j].dev = loops[j].dev
      BY <1>5, LoopMoves
    <2>4. Running' \subseteq Running
      BY <1>5, LoopGoesOn
    <2>5. QED
      BY <2>1, <2>2, <2>3, <2>4, DeviceCalm DEF Running
  <1>6. CASE UNCHANGED vars
    BY <1>6, DeviceCalm DEF vars, boundVars, Running
  <1>7. ASSUME NEW k \in Slots, HandlerStep(k)
        PROVE  DeviceInv'
    BY <1>7, DeviceQuiet, DeviceBooted, DeviceStartBegins, DeviceStarted DEF HandlerStep
  <1>8. QED
    BY <1>1, <1>2, <1>3, <1>4, <1>5, <1>6, <1>7, DeviceSend DEF Next, ShellStep

-----------------------------------------------------------------------------
(* The page *)

\* Nothing happens to the page, to what it asked, or to the requests, and a loop neither
\* starts nor stops.
LEMMA PageCalm ==
  ASSUME PageInv, UNCHANGED <<page, queue, call, reqs>>, Sync' = Sync,
         outlived => outlived', died => died', swapped => swapped'
  PROVE  PageInv'
  BY DEF PageInv

\* The page and the loop when no request is under way.
LEMMA PageIdle ==
  ASSUME call' = NoSlot, ~outlived' /\ ~died' /\ ~swapped' => (page'.running <=> Sync')
  PROVE  PageInv'
  BY DEF PageInv

LEMMA PageClick ==
  ASSUME Typed, PageInv, NEW job, Click(job), job \in Job
  PROVE  PageInv'
  <1>1. UNCHANGED <<page, call, reqs, loops, client, outlived, died, swapped>>
    BY DEF Click
  <1>2. queue # <<>> => queue' # <<>> /\ Head(queue') = Head(queue)
    <2>1. queue \in Seq(Job) /\ queue' = Append(queue, job)
      BY DEF Typed, Click
    <2>2. QED
      BY <2>1
  <1>3. Sync' = Sync
    BY <1>1 DEF Sync, Running
  <1>4. QED
    BY <1>1, <1>2, <1>3 DEF PageInv

LEMMA PageRestart ==
  ASSUME Typed, Restart
  PROVE  PageInv'
  <1>1. call' = NoSlot /\ page' = PageAfter("restart")
    BY DEF Restart, Answered
  <1>2. page'.running <=> FALSE
    BY <1>1 DEF PageAfter, Typed, PageType
  <1>3. ~Sync'
    BY EndsAll DEF Restart, Sync
  <1>4. QED
    BY <1>1, <1>2, <1>3, PageIdle

LEMMA PageTimeOut ==
  ASSUME Typed, DeadInv, PageInv, TimeOut
  PROVE  PageInv'
  <1>1. CASE client.alive
    BY <1>1 DEF TimeOut, PageInv
  <1>2. CASE ~client.alive
    <2>1. call \in Slots /\ reqs[call].at = "free"
      BY <1>2, DeadIdle DEF TimeOut, Typed
    <2>2. outlived \/ died \/ swapped
      BY <2>1 DEF PageInv, TimeOut
    <2>3. outlived' \/ died' \/ swapped'
      BY <1>2, <2>2 DEF TimeOut
    <2>4. QED
      BY <2>3 DEF PageInv
  <1>3. QED
    BY <1>1, <1>2

LEMMA PageSend ==
  ASSUME Typed, DeadInv, PageInv, NEW k \in Slots, Send(k)
  PROVE  PageInv'
  <1>1. /\ call = NoSlot /\ call' = k /\ k # NoSlot /\ queue # <<>>
        /\ UNCHANGED <<page, queue, loops, outlived, died, swapped>>
    BY BridgeAssumption DEF Send, boundVars
  <1>2. reqs'[k].at = "new" /\ reqs'[k].method = Head(Head(queue))
    BY DEF Send, Typed, NoRequest
  <1>3. Sync' <=> Sync
    <2>1. CASE client.alive
      BY <1>1, <2>1 DEF Send, Sync, Running
    <2>2. CASE ~client.alive
      <3>1. Running = {}
        BY <2>2, DeadIdle DEF Running
      <3>2. Running' = {}
        BY <1>1, <3>1 DEF Running
      <3>3. QED
        BY <3>1, <3>2 DEF Sync
    <2>3. QED
      BY <2>1, <2>2
  <1>4. QED
    BY <1>1, <1>2, <1>3 DEF PageInv

\* What the answer to the page's request makes of what it shows.
LEMMA PageReply ==
  ASSUME Typed, AloneInv, SentInv, LoopInv, DeviceInv, PageInv, NEW k \in Slots, Reply(k)
  PROVE  PageInv'
  <1>1. UNCHANGED <<client, loops, file, outlived, died, swapped>>
    BY DEF Reply, boundVars
  <1> SUFFICES ASSUME ~outlived, ~died, ~swapped PROVE PageInv'
    BY <1>1 DEF PageInv
  <1>2. k = call /\ reqs[k].at \in {"done", "failed"}
    BY OnlyOne DEF Reply
  <1>3. k # NoSlot
    BY BridgeAssumption
  <1>4. /\ reqs[k].method = Head(Head(queue))
        /\ reqs[k].at = "done" /\ reqs[k].method = "start" => Sync
        /\ reqs[k].at = "done" /\ reqs[k].method = "stop" => ~Sync
        /\ ~(reqs[k].at = "done" /\ reqs[k].method \in {"start", "stop"}) => (page.running <=> Sync)
    BY <1>2, <1>3 DEF PageInv
  <1>5. Sync' <=> Sync
    BY <1>1 DEF Sync, Running
  <1>6. call' = NoSlot
    BY <1>2 DEF Reply, Answered
  <1>7. CASE reqs[k].at = "failed"
    <2>1. page' = page
      BY <1>2, <1>7 DEF Reply, Answered
    <2>2. QED
      BY <1>4, <1>5, <1>6, <1>7, <2>1, PageIdle
  <1>8. CASE reqs[k].at = "done"
    <2> DEFINE m == reqs[k].method
    <2>1. page' = PageAfter(m)
      BY <1>2, <1>4, <1>8 DEF Reply, Answered
    <2>2. page'.running <=>
            \/ m = "start"
            \/ /\ page.running /\ m \notin {"stop", "restart"}
               /\ ~(m = "inspect" /\ file = 0)
      BY <2>1 DEF PageAfter, Typed, PageType
    <2>3. Sync => file # 0
      BY DEF Sync, DeviceInv
    <2>4. m # "restart"
      BY DEF SentInv
    <2>5. QED
      BY <1>4, <1>5, <1>6, <1>8, <2>2, <2>3, <2>4, PageIdle
  <1>9. QED
    BY <1>2, <1>7, <1>8

\* What is known of the page's request k while the bridge works on it.
LEMMA PageServed ==
  ASSUME Typed, AloneInv, PageInv, ~outlived, ~died, ~swapped, NEW k \in Slots, reqs[k].at # "free"
  PROVE  /\ k = call /\ call # NoSlot /\ queue # <<>>
         /\ reqs[k].method = Head(Head(queue))
         /\ reqs[k].at \notin {"joining", "done"} => (page.running <=> Sync)
  BY BridgeAssumption DEF AloneInv, PageInv

\* What has to be shown of a handler's step.
LEMMA PageHandled ==
  ASSUME Typed, AloneInv, PageInv, NEW k \in Slots, HandlerStep(k),
         swapped => swapped',
         ~outlived, ~died, ~swapped,
         reqs'[k].at # "free",
         reqs'[k].at = "done" /\ reqs[k].method = "start" => Sync',
         reqs'[k].at = "done" /\ reqs[k].method = "stop" => ~Sync',
         reqs'[k].at # "joining"
           /\ ~(reqs'[k].at = "done" /\ reqs[k].method \in {"start", "stop"}) =>
           (page.running <=> Sync')
  PROVE  PageInv'
  <1>1. /\ reqs'[k].method = reqs[k].method
        /\ UNCHANGED <<page, queue, call>>
    BY HandlerMoves
  <1>2. k = call /\ call # NoSlot /\ queue # <<>> /\ reqs[k].method = Head(Head(queue))
    BY HandlerMoves, PageServed
  <1>3. QED
    BY <1>1, <1>2 DEF PageInv

LEMMA SwappedStays ==
  ASSUME NEW k \in Slots, HandlerStep(k)
  PROVE  swapped => swapped'
  BY DEF HandlerStep, Inspect, EnsureReady, Booted, Registers, RecoverBegins, Recovered, Ask,
         StartBegins, Started, StopBegins, Stopped

LEMMA PageHandler ==
  ASSUME Typed, AloneInv, StreamInv, LoopInv, PageInv, NEW k \in Slots, HandlerStep(k)
  PROVE  PageInv'
  <1>1. /\ reqs[k].at # "free" /\ UNCHANGED <<outlived, died>>
        /\ swapped => swapped'
        /\ reqs'[k].method = reqs[k].method
    BY HandlerMoves, SwappedStays DEF boundVars
  <1> SUFFICES ASSUME ~outlived, ~died, ~swapped PROVE PageInv'
    BY <1>1 DEF PageInv
  <1>2. reqs[k].at \notin {"joining", "done"} => (page.running <=> Sync)
    BY <1>1, PageServed
  <1>3. \A r \in Slots : r # k => reqs[r].at = "free"
    BY <1>1, OnlyOne
  <1>4. ASSUME NEW where, To(k, where)
        PROVE  reqs'[k].at = where
    BY <1>4 DEF To, Typed, ReqType
  <1>5. CASE CalmStep(k)
    <2>1. Sync' <=> Sync
      BY <1>5, CalmHandlers DEF Sync, Running, Realtime
    <2>2. QED
      BY <1>1, <1>2, <1>5, <2>1, CalmHandlers, PageHandled
  <1>6. CASE StartBegins(k)
    <2>1. Sync' <=> Sync
      BY <1>6 DEF StartBegins, Sync, Running, Typed, ClientType
    <2>2. reqs[k].at = "ready" /\ reqs[k].method = "start"
      BY <1>6 DEF StartBegins
    <2>3. CASE MayStart(k)
      <3>1. reqs'[k].at = "starting"
        BY <1>6, <2>3 DEF StartBegins, Typed, ReqType
      <3>2. QED
        BY <1>1, <1>2, <2>1, <2>2, <3>1, PageHandled
    <2>4. CASE ~MayStart(k)
      <3>1. reqs'[k].at = "done"
        BY <1>4, <1>6, <2>4 DEF StartBegins
      <3>2. client.realtimeLoop # NoLoop
        BY <2>4 DEF MayStart, LoopInv
      <3>3. \A r \in Slots : reqs[r].at # "joining"
        BY <1>3, <2>2
      <3>4. Sync
        BY <3>2, <3>3 DEF LoopInv, Sync
      <3>5. QED
        BY <1>1, <2>1, <2>2, <3>1, <3>4, PageHandled
    <2>5. QED
      BY <2>3, <2>4
  <1>7. CASE Started(k)
    <2>1. reqs[k].at = "starting" /\ reqs[k].method = "start"
      BY <1>7 DEF Started, LoopInv
    <2>2. CASE To(k, "failed") /\ UNCHANGED <<client, loops>>
      <3>1. Sync' <=> Sync
        BY <2>2 DEF Sync, Running
      <3>2. QED
        BY <1>1, <1>2, <1>4, <2>1, <2>2, <3>1, PageHandled
    <2>3. ASSUME NEW i \in Loops, To(k, "done"),
                 loops' = [loops EXCEPT ![i] = [at |-> "open", dev |-> reqs[k].dev]],
                 client' = [client EXCEPT !.sess = reqs[k].dev, !.onChange = TRUE,
                              !.stopRequested = FALSE, !.realtimeLoop = i,
                              !.realtimeStream = i, !.realtimeRunning = TRUE]
          PROVE  PageInv'
      <3>1. i \in Running'
        BY <2>3 DEF Running, Typed
      <3>2. client'.onChange = TRUE /\ client'.stopRequested = FALSE
        BY <2>3 DEF Typed, ClientType
      <3>3. Sync'
        BY <3>1, <3>2 DEF Sync
      <3>4. QED
        BY <1>1, <1>4, <2>1, <2>3, <3>3, PageHandled
    <2>4. QED
      BY <1>7, <2>2, <2>3 DEF Started
  <1>8. CASE StopBegins(k)
    <2>1. reqs[k].at = "new" /\ reqs[k].method = "stop"
      BY <1>8 DEF StopBegins, New
    <2>2. CASE client.realtimeRunning
      <3>1. reqs'[k].at = "joining"
        BY <1>8, <2>2 DEF StopBegins, Typed, ReqType
      <3>2. QED
        BY <1>1, <2>1, <3>1, PageHandled
    <2>3. CASE ~client.realtimeRunning
      <3>1. reqs'[k].at = "done" /\ UNCHANGED <<client, loops>>
        BY <1>4, <1>8, <2>3 DEF StopBegins
      <3>2. \A r \in Slots : reqs[r].at # "joining"
        BY <1>3, <2>1
      <3>3. client.realtimeLoop = NoLoop
        BY <2>3, <3>2 DEF LoopInv
      <3>4. Running = {}
        BY <3>3, BridgeAssumption DEF LoopInv, Running
      <3>5. ~Sync'
        BY <3>1, <3>4 DEF Sync, Running
      <3>6. QED
        BY <1>1, <2>1, <3>1, <3>5, PageHandled
    <2>4. QED
      BY <2>2, <2>3
  <1>9. CASE Stopped(k)
    <2>1. reqs[k].method = "stop"
      BY <1>9 DEF Stopped, LoopInv
    <2>2. reqs'[k].at = "done"
      BY <1>9 DEF Stopped, Typed, ReqType
    <2>3. client'.onChange = FALSE
      BY <1>9 DEF Stopped, Typed, ClientType
    <2>4. ~Sync'
      BY <2>3 DEF Sync
    <2>5. QED
      BY <1>1, <2>1, <2>2, <2>4, PageHandled
  <1>10. QED
    BY <1>5, <1>6, <1>7, <1>8, <1>9 DEF HandlerStep, CalmStep

LEMMA StepPage ==
  ASSUME Typed, DeadInv, AloneInv, SentInv, StreamInv, LoopInv, DeviceInv, PageInv, [Next]_vars
  PROVE  PageInv'
  <1>1. CASE PageStep
    BY <1>1, PageClick, JobTypes DEF PageStep, Toggle, Methods
  <1>2. CASE Die
    BY <1>2 DEF Die, PageInv
  <1>3. ASSUME NEW i \in Loops, LoopStep(i)
        PROVE  PageInv'
    <2>1. UNCHANGED <<page, queue, call, reqs, outlived, died, swapped>>
      BY <1>3, LoopMoves DEF boundVars
    <2>2. Sync' <=> Sync
      BY <1>3, LoopGoesOn DEF Sync
    <2>3. QED
      BY <2>1, <2>2 DEF PageInv
  <1>4. CASE UNCHANGED vars
    BY <1>4, PageCalm DEF vars, boundVars, Sync, Running
  <1>5. QED
    BY <1>1, <1>2, <1>3, <1>4, PageRestart, PageTimeOut, PageSend, PageReply, PageHandler
    DEF Next, ShellStep

-----------------------------------------------------------------------------
(* The theorems *)

LEMMA InitIInv == Init => IInv
  <1> SUFFICES ASSUME Init PROVE IInv
    OBVIOUS
  <1>1. reqs = [k \in Slots |-> NoRequest] /\ loops = NoLoops /\ client = Fresh(FALSE)
        /\ call = NoSlot /\ page = [known |-> FALSE, running |-> FALSE]
    BY DEF Init
  <1>2. \A k \in Slots : reqs[k].at = "free" /\ reqs[k].method = "ask"
    BY <1>1 DEF NoRequest
  <1>3. Running = {}
    BY <1>1 DEF NoLoops, Running
  <1>4. DeadInv /\ AloneInv /\ SentInv
    BY <1>1, <1>2 DEF DeadInv, AloneInv, SentInv
  <1>5. StreamInv
    BY <1>1, FreshFields DEF StreamInv
  <1>6. LoopInv
    BY <1>1, <1>2, <1>3, FreshFields DEF LoopInv
  <1>7. DeviceInv
    BY <1>1, <1>2, <1>3, FreshFields DEF DeviceInv
  <1>8. PageInv
    BY <1>1, <1>3 DEF PageInv, Sync
  <1>9. QED
    BY <1>4, <1>5, <1>6, <1>7, <1>8, InitType DEF IInv

LEMMA Invariance == Spec => []IInv
  <1>1. IInv /\ [Next]_vars => IInv'
    BY TypeParts, StepType, StepDead, StepAlone, StepSent, StepStream, StepLoop, StepDevice,
       StepPage
    DEF IInv
  <1>2. QED
    BY <1>1, InitIInv, PTL DEF Spec

\* Every variable of the desktop application keeps its type.
THEOREM TypeCorrect == Spec => []TypeOK
  <1>1. IInv => TypeOK
    BY DEF IInv, TypeInv
  <1>2. QED
    BY <1>1, Invariance, PTL

\* However the page's requests to start and stop follow one another, and whatever fails,
\* a bridge process has one realtime loop, unless a request that was given up went on.
THEOREM OneLoopCorrect == Spec => []OneLoop
  <1>1. IInv => OneLoop
    <2> SUFFICES ASSUME IInv, ~outlived PROVE ~(Cardinality(Running) > 1)
      BY DEF OneLoop
    <2>1. Running \in SUBSET {client.realtimeLoop}
      BY DEF IInv, LoopInv
    <2>2. IsFiniteSet({client.realtimeLoop}) /\ Cardinality({client.realtimeLoop}) = 1
      BY FS_Singleton
    <2>3. IsFiniteSet(Running) /\ Cardinality(Running) <= 1
      BY <2>1, <2>2, FS_Subset
    <2>4. Cardinality(Running) \in Nat
      BY <2>3, FS_CardinalityType
    <2>5. QED
      BY <2>3, <2>4
  <1>2. QED
    BY <1>1, Invariance, PTL

\* The loop serves the device of the session and of the state file, unless that device
\* was replaced while the loop ran.
THEOREM DeviceCorrect == Spec => []LoopServesDevice
  <1>1. IInv => LoopServesDevice
    BY DEF IInv, DeviceInv, LoopServesDevice
  <1>2. QED
    BY <1>1, Invariance, PTL

\* Between its jobs the page shows what the bridge does.
THEOREM PageCorrect == Spec => []PageInStep
  <1>1. IInv => PageInStep
    <2> SUFFICES ASSUME IInv, call = NoSlot, ~outlived, ~died, ~swapped
                 PROVE  page.running = (Running # {} /\ client.onChange /\ ~client.stopRequested)
      BY DEF PageInStep, Quiet
    <2>1. page.running <=> Sync
      BY DEF IInv, PageInv
    <2>2. page.running \in BOOLEAN
      BY DEF IInv, TypeInv, TypeOK
    <2>3. QED
      BY <2>1, <2>2 DEF Sync
  <1>2. QED
    BY <1>1, Invariance, PTL

-----------------------------------------------------------------------------
(* A stop is never left waiting for a stream that stays open *)

\* The one open stream is the one a stop would cancel; and while a stop is under way
\* there is none, nor will the loop open another.
CutInv ==
  ~outlived =>
    /\ \A i \in Running : loops[i].at = "open" => client.realtimeStream = i
    /\ \A k \in Slots : reqs[k].at = "joining" =>
         client.stopRequested /\ client.realtimeStream = NoLoop

\* What stopRealtime waits for has been told to end: the loop is between two streams, or
\* its stream has been cancelled, and with stopRequested set its next step is its last.
StopIsHeard ==
  ~outlived =>
    \A k \in Slots : reqs[k].at = "joining" /\ reqs[k].loop \in Running =>
      client.stopRequested /\ loops[reqs[k].loop].at \in {"cut", "pause"}

\* Nothing that matters to a stop is done, and none begins.
LEMMA CutKept ==
  ASSUME CutInv, outlived => outlived', loops' = loops,
         client'.realtimeStream = client.realtimeStream,
         client'.stopRequested = client.stopRequested,
         \A k \in Slots : reqs'[k].at = "joining" => reqs[k].at = "joining"
  PROVE  CutInv'
  BY DEF CutInv, Running

LEMMA CutHandler ==
  ASSUME Typed, AloneInv, LoopInv, CutInv, NEW k \in Slots, HandlerStep(k)
  PROVE  CutInv'
  <1>0. outlived' = outlived /\ \A r \in Slots : r # k => reqs'[r] = reqs[r]
    BY HandlerMoves DEF boundVars
  <1>1. CASE Started(k)
    <2>1. reqs'[k].at # "joining"
      <3>1. To(k, "failed") \/ To(k, "done")
        BY <1>1 DEF Started
      <3>2. reqs'[k].at \in {"failed", "done"}
        BY <3>1 DEF To, Typed, ReqType
      <3>3. QED
        BY <3>2
    <2>2. CASE UNCHANGED <<client, loops>>
      BY <1>0, <2>1, <2>2, CutKept
    <2>3. ASSUME NEW i \in Loops, ~outlived,
                 loops' = [loops EXCEPT ![i] = [at |-> "open", dev |-> reqs[k].dev]],
                 client' = [client EXCEPT !.sess = reqs[k].dev, !.onChange = TRUE,
                              !.stopRequested = FALSE, !.realtimeLoop = i,
                              !.realtimeStream = i, !.realtimeRunning = TRUE]
          PROVE  CutInv'
      <3>1. \A r \in Slots : reqs'[r].at # "joining"
        BY <1>0, <1>1, <2>1, <2>3, OnlyOne DEF Started
      <3>2. client.realtimeLoop = NoLoop
        BY <1>1, <2>3 DEF Started, LoopInv
      <3>3. Running = {}
        BY <2>3, <3>2, BridgeAssumption DEF LoopInv, Running
      <3>4. \A j \in Loops : j # i => loops'[j].at = "none"
        BY <2>3, <3>3 DEF Running, Typed
      <3>5. client'.realtimeStream = i
        BY <2>3 DEF Typed, ClientType
      <3>6. QED
        BY <3>1, <3>4, <3>5 DEF CutInv, Running
    <2>4. QED
      BY <1>0, <1>1, <2>2, <2>3 DEF Started, CutInv
  <1>2. CASE StopBegins(k)
    <2>1. CASE UNCHANGED <<client, loops>> /\ To(k, "done")
      <3>1. reqs'[k].at # "joining"
        BY <2>1 DEF To, Typed, ReqType
      <3>2. QED
        BY <1>0, <2>1, <3>1, CutKept
    <2>2. ASSUME loops' = Cancel, ~outlived,
                 client' = [client EXCEPT !.stopRequested = TRUE, !.realtimeStream = NoLoop]
          PROVE  CutInv'
      <3>1. client'.stopRequested /\ client'.realtimeStream = NoLoop
        BY <2>2 DEF Typed, ClientType
      <3>2. \A i \in Loops : loops'[i].at # "open"
        <4>1. \A i \in Loops : loops[i].at = "open" => i = client.realtimeStream
          BY <2>2 DEF CutInv, Running
        <4>2. \A i \in Loops : i # client.realtimeStream => loops'[i] = loops[i]
          BY <2>2 DEF Cancel
        <4>3. \A i \in Loops : i = client.realtimeStream => loops'[i].at = "cut"
          BY <2>2 DEF Cancel, Typed, LoopType
        <4>4. QED
          BY <4>1, <4>2, <4>3
      <3>3. QED
        BY <3>1, <3>2 DEF CutInv, Running
    <2>3. QED
      BY <1>0, <1>2, <2>1, <2>2 DEF StopBegins, CutInv
  <1>3. ASSUME ~Started(k), ~StopBegins(k)
        PROVE  CutInv'
    <2>1. loops' = loops
      BY <1>3 DEF HandlerStep, Inspect, EnsureReady, Booted, RecoverBegins, Recovered, Ask,
                  StartBegins, Stopped, Takes
    <2>2. client'.realtimeStream = client.realtimeStream /\ client'.stopRequested = client.stopRequested
      BY <1>3 DEF HandlerStep, Inspect, EnsureReady, Booted, RecoverBegins, Recovered, Ask,
                  StartBegins, Stopped, Takes, Typed, ClientType
    <2>3. reqs'[k].at # "joining"
      BY <1>3 DEF HandlerStep, Inspect, EnsureReady, Booted, RecoverBegins, Recovered, Ask,
                  StartBegins, Stopped, Takes, To, Typed, ReqType
    <2>4. QED
      BY <1>0, <2>1, <2>2, <2>3, CutKept
  <1>4. QED
    BY <1>1, <1>2, <1>3

LEMMA CutLoop ==
  ASSUME Typed, LoopInv, CutInv, NEW i \in Loops, LoopStep(i)
  PROVE  CutInv'
  <1>0. /\ outlived' = outlived /\ reqs' = reqs
        /\ \A j \in Loops : j # i => loops'[j] = loops[j]
    BY LoopMoves DEF boundVars
  <1> SUFFICES ASSUME ~outlived PROVE CutInv'
    BY <1>0 DEF CutInv
  <1>1. CASE StreamEnds(i)
    <2>1. loops'[i].at # "open"
      BY <1>1 DEF StreamEnds, Goes, Typed, LoopType
    <2>2. client' = [client EXCEPT !.realtimeStream = IF @ = i THEN NoLoop ELSE @]
      BY <1>1 DEF StreamEnds
    <2>3. /\ client'.stopRequested = client.stopRequested
          /\ client'.realtimeStream = IF client.realtimeStream = i THEN NoLoop ELSE client.realtimeStream
      BY <2>2 DEF Typed, ClientType
    <2>4. QED
      BY <1>0, <2>1, <2>3 DEF CutInv, Running
  <1>2. CASE PauseEnds(i)
    <2>1. \A j \in Loops : j # i => loops'[j].at = "none"
      <3>1. \A j \in Loops : j # i => loops[j].at = "none"
        BY <1>2 DEF PauseEnds, LoopInv, Running
      <3>2. QED
        BY <1>0, <3>1
    <2>2. CASE client.stopRequested
      <3>1. loops'[i].at = "none" /\ client' = client
        BY <1>2, <2>2 DEF PauseEnds, Goes, Typed, LoopType
      <3>2. QED
        BY <1>0, <2>1, <3>1 DEF CutInv, Running
    <2>3. CASE ~client.stopRequested
      <3>1. client' = [client EXCEPT !.realtimeStream = i]
        BY <1>2, <2>3 DEF PauseEnds
      <3>2. client'.realtimeStream = i
        BY <3>1 DEF Typed, ClientType
      <3>3. \A k \in Slots : reqs'[k].at # "joining"
        BY <1>0, <2>3 DEF CutInv
      <3>4. QED
        BY <2>1, <3>2, <3>3 DEF CutInv, Running
    <2>4. QED
      BY <2>2, <2>3
  <1>3. QED
    BY <1>1, <1>2 DEF LoopStep

LEMMA StepCut ==
  ASSUME Typed, DeadInv, AloneInv, LoopInv, CutInv, [Next]_vars
  PROVE  CutInv'
  <1>1. CASE PageStep
    BY <1>1, CutKept DEF PageStep, Toggle, Click
  <1>2. CASE Restart \/ Die
    <2>1. Running' = {} /\ \A k \in Slots : reqs'[k].at = "free"
      BY <1>2, EndsAll DEF Restart, Die
    <2>2. QED
      BY <2>1 DEF CutInv
  <1>3. CASE TimeOut
    <2>1. UNCHANGED <<reqs, client, loops>> /\ (outlived => outlived')
      BY <1>3 DEF TimeOut
    <2>2. QED
      BY <2>1, CutKept
  <1>4. ASSUME NEW k \in Slots, Reply(k)
        PROVE  CutInv'
    <2>1. UNCHANGED <<client, loops, outlived>> /\ reqs' = [reqs EXCEPT ![k] = NoRequest]
      BY <1>4 DEF Reply, boundVars
    <2>2. \A r \in Slots : reqs'[r].at = "joining" => reqs[r].at = "joining"
      BY <2>1 DEF NoRequest, Typed
    <2>3. QED
      BY <2>1, <2>2, CutKept
  <1>5. ASSUME NEW k \in Slots, Send(k)
        PROVE  CutInv'
    <2>1. /\ UNCHANGED <<loops, outlived>>
          /\ client' = IF client.alive THEN client ELSE Fresh(TRUE)
          /\ \A r \in Slots : r # k => reqs'[r] = reqs[r]
      BY <1>5 DEF Send, boundVars, Typed
    <2>2. reqs'[k].at = "new"
      BY <1>5 DEF Send, NoRequest, Typed
    <2>3. CASE client.alive
      BY <2>1, <2>2, <2>3, CutKept
    <2>4. CASE ~client.alive
      <3>1. \A r \in Slots : reqs'[r].at # "joining"
        BY <2>1, <2>2, <2>4, DeadIdle
      <3>2. \A i \in Loops : loops'[i].at = "none"
        BY <2>1, <2>4, DeadIdle
      <3>3. QED
        BY <3>1, <3>2 DEF CutInv, Running
    <2>5. QED
      BY <2>3, <2>4
  <1>6. CASE \E k \in Slots : HandlerStep(k)
    BY <1>6, CutHandler
  <1>7. CASE \E i \in Loops : LoopStep(i)
    BY <1>7, CutLoop
  <1>8. CASE UNCHANGED vars
    BY <1>8, CutKept DEF vars, boundVars
  <1>9. QED
    BY <1>1, <1>2, <1>3, <1>4, <1>5, <1>6, <1>7, <1>8 DEF Next, ShellStep

\* The part of StopCompletes that needs no fairness: a stop that waits has nothing left
\* in its way but steps the loop can always take, the end of a stream that has been
\* cancelled or the end of the pause.
THEOREM StopHeard == Spec => []StopIsHeard
  <1>1. Init => CutInv
    <2> SUFFICES ASSUME Init
                 PROVE  CutInv
      OBVIOUS
    <2>1. \A i \in Loops : loops[i].at = "none"
      BY DEF Init, NoLoops
    <2>2. \A k \in Slots : reqs[k].at = "free"
      BY DEF Init, NoRequest
    <2>3. QED
      BY <2>1, <2>2 DEF CutInv, Running
  <1>2. IInv /\ CutInv /\ [Next]_vars => CutInv'
    BY TypeParts, StepCut DEF IInv
  <1>3. IInv /\ CutInv => StopIsHeard
    <2> SUFFICES ASSUME IInv, CutInv, ~outlived, NEW k \in Slots, reqs[k].at = "joining",
                        reqs[k].loop \in Running
                 PROVE  client.stopRequested /\ loops[reqs[k].loop].at \in {"cut", "pause"}
      BY DEF StopIsHeard
    <2>1. client.stopRequested /\ client.realtimeStream = NoLoop
      BY DEF CutInv
    <2>2. reqs[k].loop \in Loops /\ loops[reqs[k].loop].at # "none"
      BY DEF Running
    <2>3. loops[reqs[k].loop].at # "open"
      BY <2>1, <2>2, BridgeAssumption DEF CutInv
    <2>4. loops[reqs[k].loop].at \in {"none", "open", "cut", "pause"}
      BY <2>2, TypeParts DEF IInv, Typed, LoopType
    <2>5. QED
      BY <2>1, <2>2, <2>3, <2>4
  <1>4. QED
    BY <1>1, <1>2, <1>3, Invariance, PTL DEF Spec
=============================================================================
