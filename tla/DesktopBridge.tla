--------------------------- MODULE DesktopBridge ---------------------------
(***************************************************************************)
(* The Windows application: its page (apps/desktop-windows/web/main.js),   *)
(* the shell that passes the page's requests on                            *)
(* (apps/desktop-windows/src-tauri/src/main.rs), and the bridge process    *)
(* that carries them out with a client of its own                          *)
(* (apps/client-cli/src/runtime/runtime-bridge.ts, and startRealtime,      *)
(* stopRealtime and their loop in core/sharepaste-client.ts).              *)
(*                                                                         *)
(* The shell serves one request at a time, on its main thread, and gives   *)
(* up after 60 s; the bridge carries on, so requests overlap in the bridge *)
(* only after that.  A bridge that has died is replaced at the next        *)
(* request.  What the page does with an answer is one step with the        *)
(* answer.                                                                 *)
(***************************************************************************)
EXTENDS Integers, Sequences, FiniteSets

CONSTANTS
  Slots,         \* requests the bridge may have under way
  Loops,         \* realtime loops of one bridge process
  ResetStale,    \* reset_stale_state of the settings
  MaxDevices,    \* bound of the model: devices registered
  MaxClicks,     \* bound of the model: what the user does
  MaxTimeOuts,   \* bound of the model: requests given up while the bridge is alive
  MaxDeaths,     \* bound of the model: bridge processes that die
  NoSlot, NoLoop

ASSUME BridgeAssumption ==
  /\ NoSlot \notin Slots /\ NoLoop \notin Loops
  /\ ResetStale \in BOOLEAN
  /\ MaxDevices \in Nat /\ MaxClicks \in Nat /\ MaxTimeOuts \in Nat /\ MaxDeaths \in Nat

VARIABLES
  page,      \* what the page knows: whether there is a device, whether sync runs
  queue,     \* what the page's jobs have asked of the shell: the head is being served
  call,      \* the request the shell waits for
  reqs,      \* the requests of the bridge
  client,    \* the bridge process and its client
  loops,     \* the realtime loops
  file,      \* the device in the state file; 0: no file
  made,      \* devices registered
  clicks, timeOuts, deaths,
  outlived,  \* a request was given up and went on
  died,      \* a bridge process has died
  swapped    \* the device was replaced, or a recovery begun, while a loop ran

boundVars == <<clicks, timeOuts, deaths, outlived, died>>
vars      == <<page, queue, call, reqs, client, loops, file, made, boundVars, swapped>>

Methods == {"restart", "inspect", "bootstrap", "recover", "ask", "start", "stop"}

\* What a job of the page asks, one request after the other.  "ask" stands for the
\* requests that only need a client that is ready: lists, policy, pairing, sending.
Load       == <<"inspect", "ask", "start">>
Initialize == <<"bootstrap", "ask", "start">>
Recover    == <<"recover", "ask", "start">>
Address    == <<"restart">> \o Load

NoRequest == [method |-> "ask", at |-> "free", dev |-> 0, loop |-> NoLoop]
NoLoops   == [i \in Loops |-> [at |-> "none", dev |-> 0]]

\* A bridge process that has just been started, or that has died.
Fresh(alive) ==
  [alive |-> alive, ready |-> FALSE, realtimeRunning |-> FALSE, sess |-> 0,
   realtimeLoop |-> NoLoop, realtimeStream |-> NoLoop, stopRequested |-> FALSE,
   onChange |-> FALSE]

\* Every variable has its type.
TypeOK ==
  /\ page \in [known : BOOLEAN, running : BOOLEAN]
  /\ \A n \in DOMAIN queue : Len(queue[n]) > 0 /\ \A m \in DOMAIN queue[n] : queue[n][m] \in Methods
  /\ call \in Slots \cup {NoSlot}
  /\ reqs \in [Slots -> [method : Methods, dev : 0 .. MaxDevices, loop : Loops \cup {NoLoop},
                         at : {"free", "new", "booting", "recovering", "ready", "starting",
                               "joining", "done", "failed"}]]
  /\ client \in [alive : BOOLEAN, ready : BOOLEAN, realtimeRunning : BOOLEAN,
                 sess : 0 .. MaxDevices, realtimeLoop : Loops \cup {NoLoop},
                 realtimeStream : Loops \cup {NoLoop}, stopRequested : BOOLEAN,
                 onChange : BOOLEAN]
  /\ loops \in [Loops -> [at : {"none", "open", "cut", "pause"}, dev : 0 .. MaxDevices]]
  /\ file \in 0 .. MaxDevices /\ made \in 0 .. MaxDevices
  /\ clicks \in 0 .. MaxClicks /\ timeOuts \in 0 .. MaxTimeOuts /\ deaths \in 0 .. MaxDeaths
  /\ {outlived, died, swapped} \subseteq BOOLEAN

Running == {i \in Loops : loops[i].at # "none"}

-----------------------------------------------------------------------------
(* The page *)

\* A click, or a change of the clipboard, starts a job.
Click(job) ==
  /\ clicks < MaxClicks
  /\ clicks' = clicks + 1
  /\ queue' = Append(queue, job)
  /\ UNCHANGED <<page, call, reqs, client, loops, file, made, timeOuts, deaths, outlived,
                 died, swapped>>

\* toggleRealtime.
Toggle == page.known /\ Click(IF page.running THEN <<"stop">> ELSE <<"start">>)

\* Mutant: a new address leaves sync shown as running.
PageAfterAddressKept(method) ==
  [page EXCEPT !.known = IF method = "inspect" THEN file # 0
                         ELSE @ \/ method \in {"bootstrap", "recover"},
               !.running = method = "start" \/ (@ /\ method # "stop")]

\* What the page makes of a good answer.
PageAfter(method) ==
  [page EXCEPT !.known = IF method = "inspect" THEN file # 0
                         ELSE @ \/ method \in {"bootstrap", "recover"},
               !.running = \/ method = "start"
                           \/ /\ @ /\ method \notin {"stop", "restart"}
                              /\ ~(method = "inspect" /\ file = 0)]

\* The job goes on, unless no device was found, or sync already runs.
GoesOn(job) ==
  /\ Len(job) > 1
  /\ page'.known
  /\ ~(job[2] = "start" /\ page'.running)

\* The shell answers the job it serves: the page handles the answer, and asks the next
\* thing.  An error ends the job.
Answered(good) ==
  LET job == Head(queue) IN
  /\ call' = NoSlot
  /\ page' = IF good THEN PageAfter(Head(job)) ELSE page
  /\ queue' = IF good /\ GoesOn(job) THEN Append(Tail(queue), Tail(job)) ELSE Tail(queue)

-----------------------------------------------------------------------------
(* The shell *)

\* bridge_request: a bridge that is not there, or has died, is started; the request is
\* sent.
Send(k) ==
  /\ call = NoSlot /\ queue # <<>>
  /\ LET method == Head(Head(queue)) IN
       /\ method # "restart"
       /\ reqs[k].at = "free"
       /\ reqs' = [reqs EXCEPT ![k] = [NoRequest EXCEPT !.method = method, !.at = "new"]]
  /\ call' = k
  /\ client' = IF client.alive THEN client ELSE Fresh(TRUE)
  /\ UNCHANGED <<page, queue, loops, file, made, boundVars, swapped>>

BridgeEnds ==
  /\ client' = Fresh(FALSE)
  /\ reqs' = [k \in Slots |-> NoRequest]
  /\ loops' = NoLoops

\* set_server_address kills the bridge.
Restart ==
  /\ call = NoSlot /\ queue # <<>>
  /\ Head(Head(queue)) = "restart"
  /\ BridgeEnds
  /\ Answered(TRUE)
  /\ UNCHANGED <<file, made, boundVars, swapped>>

\* The bridge process dies by itself; the request the shell waits for is not answered.
Die ==
  /\ client.alive
  /\ deaths < MaxDeaths
  /\ deaths' = deaths + 1
  /\ died' = TRUE
  /\ BridgeEnds
  /\ UNCHANGED <<page, queue, call, file, made, clicks, timeOuts, outlived, swapped>>

\* No answer for 60 s.
TimeOut ==
  /\ call # NoSlot
  /\ IF client.alive
       THEN timeOuts < MaxTimeOuts /\ timeOuts' = timeOuts + 1 /\ outlived' = TRUE
       ELSE UNCHANGED <<timeOuts, outlived>>
  /\ Answered(FALSE)
  /\ UNCHANGED <<reqs, client, loops, file, made, clicks, deaths, died, swapped>>

\* The bridge answers; an answer nobody waits for is dropped.
Reply(k) ==
  /\ reqs[k].at \in {"done", "failed"}
  /\ reqs' = [reqs EXCEPT ![k] = NoRequest]
  /\ IF k = call THEN Answered(reqs[k].at = "done") ELSE UNCHANGED <<page, queue, call>>
  /\ UNCHANGED <<client, loops, file, made, boundVars, swapped>>

-----------------------------------------------------------------------------
(* The bridge: one handler per method *)

To(k, where) == reqs' = [reqs EXCEPT ![k].at = where]

New(k, methods) == reqs[k].at = "new" /\ reqs[k].method \in methods

\* What every handler leaves to others.
Unchanged == UNCHANGED <<page, queue, call, boundVars>>

\* inspectState reads the file, or finds it unfit to be read.
Inspect(k) ==
  /\ New(k, {"inspect"})
  /\ To(k, "done") \/ (file # 0 /\ To(k, "failed"))
  /\ Unchanged /\ UNCHANGED <<client, loops, file, made, swapped>>

\* ensureReady; bootstrap asks for no less.
EnsureReady(k) ==
  /\ New(k, {"ask", "start", "bootstrap"})
  /\ LET boot == reqs[k].method = "bootstrap" IN
     \/ client.ready /\ ~boot /\ To(k, "ready")
     \/ ~client.ready /\ ~boot /\ file = 0 /\ To(k, "failed")
     \/ (boot \/ (~client.ready /\ file # 0)) /\ To(k, "booting")
  /\ Unchanged /\ UNCHANGED <<client, loops, file, made, swapped>>

\* Mutant: the request is marked with its own method.
TakesOver(k, d) ==
  client' = [client EXCEPT !.sess = d, !.ready = TRUE] /\ To(k, reqs[k].method)

\* Mutant: a client that has a device keeps it.
TakesFirst(k, d) ==
  /\ client' = [client EXCEPT !.sess = IF client.ready THEN @ ELSE d, !.ready = TRUE]
  /\ To(k, IF reqs[k].method \in {"bootstrap", "recover"} THEN "done" ELSE "ready")

\* The client takes the device d.
Takes(k, d) ==
  /\ client' = [client EXCEPT !.sess = d, !.ready = TRUE]
  /\ To(k, IF reqs[k].method \in {"bootstrap", "recover"} THEN "done" ELSE "ready")

Registers ==
  /\ made < MaxDevices
  /\ made' = made + 1
  /\ file' = made + 1
  /\ swapped' = (swapped \/ Running # {})

\* bootstrap is done: with the device of the file, with a new one if there was none or
\* the server did not know it, or not at all.  A registration that fails after the
\* reset leaves neither a file nor a device in the session.
Booted(k) ==
  /\ reqs[k].at = "booting"
  /\ \/ file # 0 /\ Takes(k, file) /\ UNCHANGED <<file, made, swapped>>
     \/ (file = 0 \/ ResetStale) /\ Registers /\ Takes(k, made + 1)
     \/ To(k, "failed") /\ UNCHANGED <<client, file, made, swapped>>
     \/ /\ ResetStale /\ file # 0 /\ To(k, "failed")
        /\ client' = [client EXCEPT !.sess = 0]
        /\ file' = 0
        /\ swapped' = (swapped \/ Running # {})
        /\ UNCHANGED made
  /\ Unchanged /\ UNCHANGED loops

\* recover: the session is that of no device until the answer.
RecoverBegins(k) ==
  /\ New(k, {"recover"})
  /\ client' = [client EXCEPT !.sess = 0]
  /\ swapped' = (swapped \/ Running # {})
  /\ To(k, "recovering")
  /\ Unchanged /\ UNCHANGED <<loops, file, made>>

\* The answer, or a failure, which leaves the session as it is.
Recovered(k) ==
  /\ reqs[k].at = "recovering"
  /\ \/ Registers /\ Takes(k, made + 1)
     \/ To(k, "failed") /\ UNCHANGED <<client, file, made, swapped>>
  /\ Unchanged /\ UNCHANGED loops

\* A request that needs nothing but the client.  The server knows no device without an
\* id, which is what a failed recovery has left.
Ask(k) ==
  /\ reqs[k].at = "ready" /\ reqs[k].method = "ask"
  /\ (client.sess # 0 /\ To(k, "done")) \/ To(k, "failed")
  /\ Unchanged /\ UNCHANGED <<client, loops, file, made, swapped>>

\* Mutant: nothing keeps sync from being started again.
MayStartAgain(k) == TRUE

\* Sync is not running, nor is there a loop.
MayStart(k) == ~client.realtimeRunning /\ client.realtimeLoop = NoLoop

\* startRealtime begins: the context is fetched, and what is queued.
StartBegins(k) ==
  /\ reqs[k].at = "ready" /\ reqs[k].method = "start"
  /\ IF MayStart(k)
       THEN /\ reqs' = [reqs EXCEPT ![k].at = "starting", ![k].dev = client.sess]
            /\ UNCHANGED client
       ELSE /\ To(k, "done")
            /\ client' = [client EXCEPT !.realtimeRunning = TRUE]
  /\ Unchanged /\ UNCHANGED <<loops, file, made, swapped>>

\* The clipboard is listened to and the loop begins, whatever has been asked meanwhile;
\* or a call has failed.
Started(k) ==
  /\ reqs[k].at = "starting"
  /\ \/ To(k, "failed") /\ UNCHANGED <<client, loops>>
     \/ \E i \in Loops \ (Running \cup {client.realtimeLoop} \cup {reqs[r].loop : r \in Slots}) :
          /\ reqs[k].dev # 0
          /\ To(k, "done")
          /\ loops' = [loops EXCEPT ![i] = [at |-> "open", dev |-> reqs[k].dev]]
          /\ client' = [client EXCEPT !.sess = reqs[k].dev, !.onChange = TRUE,
                                      !.stopRequested = FALSE, !.realtimeLoop = i,
                                      !.realtimeStream = i, !.realtimeRunning = TRUE]
  /\ Unchanged /\ UNCHANGED <<file, made, swapped>>

\* Mutant: the stream is dropped, not cancelled.
CancelNothing == loops

\* The current stream is cancelled.
Cancel == [i \in Loops |-> IF i = client.realtimeStream THEN [loops[i] EXCEPT !.at = "cut"]
                                                         ELSE loops[i]]

\* stopRealtime begins: the loop is told to stop and waited for.
StopBegins(k) ==
  /\ New(k, {"stop"})
  /\ IF client.realtimeRunning
       THEN /\ reqs' = [reqs EXCEPT ![k].at = "joining", ![k].loop = client.realtimeLoop]
            /\ client' = [client EXCEPT !.stopRequested = TRUE, !.realtimeStream = NoLoop]
            /\ loops' = Cancel
       ELSE To(k, "done") /\ UNCHANGED <<client, loops>>
  /\ Unchanged /\ UNCHANGED <<file, made, swapped>>

\* The loop it waited for, if any, has ended.
Stopped(k) ==
  /\ reqs[k].at = "joining"
  /\ reqs[k].loop \notin Running
  /\ reqs' = [reqs EXCEPT ![k].at = "done", ![k].loop = NoLoop]
  /\ client' = [client EXCEPT !.realtimeLoop = NoLoop, !.onChange = FALSE,
                              !.realtimeRunning = FALSE]
  /\ Unchanged /\ UNCHANGED <<loops, file, made, swapped>>

-----------------------------------------------------------------------------
(* The realtime loops *)

Goes(i, where) == loops' = [loops EXCEPT ![i].at = where]

\* A stream ends; the loop pauses, or ends itself if it is to.
StreamEnds(i) ==
  /\ loops[i].at \in {"open", "cut"}
  /\ Goes(i, IF client.stopRequested THEN "none" ELSE "pause")
  /\ client' = [client EXCEPT !.realtimeStream = IF @ = i THEN NoLoop ELSE @]
  /\ Unchanged /\ UNCHANGED <<reqs, file, made, swapped>>

\* The pause is over.
PauseEnds(i) ==
  /\ loops[i].at = "pause"
  /\ IF client.stopRequested
       THEN Goes(i, "none") /\ UNCHANGED client
       ELSE Goes(i, "open") /\ client' = [client EXCEPT !.realtimeStream = i]
  /\ Unchanged /\ UNCHANGED <<reqs, file, made, swapped>>

-----------------------------------------------------------------------------
(* Specification *)

\* The page begins with loadExistingState.
Init ==
  /\ page = [known |-> FALSE, running |-> FALSE]
  /\ queue = <<Load>>
  /\ call = NoSlot
  /\ reqs = [k \in Slots |-> NoRequest]
  /\ client = Fresh(FALSE)
  /\ loops = NoLoops
  /\ file = 0 /\ made = 0
  /\ clicks = 0 /\ timeOuts = 0 /\ deaths = 0
  /\ outlived = FALSE /\ died = FALSE /\ swapped = FALSE

PageStep == Toggle \/ \E job \in {Initialize, Recover, Address, <<"ask">>} : Click(job)

ShellStep == Restart \/ TimeOut \/ \E k \in Slots : Send(k) \/ Reply(k)

HandlerStep(k) ==
  \/ Inspect(k) \/ EnsureReady(k) \/ Booted(k)
  \/ RecoverBegins(k) \/ Recovered(k)
  \/ Ask(k)
  \/ StartBegins(k) \/ Started(k)
  \/ StopBegins(k) \/ Stopped(k)

LoopStep(i) == StreamEnds(i) \/ PauseEnds(i)

Next ==
  \/ PageStep
  \/ ShellStep
  \/ Die
  \/ \E k \in Slots : HandlerStep(k)
  \/ \E i \in Loops : LoopStep(i)

\* A stream that is cancelled ends, a pause is over after 2 s, and a handler goes on
\* once it can.  Nothing says that an open stream ever ends.
Fairness ==
  /\ \A k \in Slots : WF_vars(HandlerStep(k))
  /\ \A i \in Loops : WF_vars(loops[i].at # "open" /\ LoopStep(i))

Spec == Init /\ [][Next]_vars /\ Fairness

-----------------------------------------------------------------------------
(* Properties *)

\* A bridge process has one realtime loop, however its requests follow one another,
\* unless a request that was given up went on beside the next.
OneLoop == Cardinality(Running) > 1 => outlived

\* And each request that was given up leaves at most one loop more, however it and the
\* requests after it overlap, and however often sync is stopped and started since.
LoopsCounted == Cardinality(Running) <= 1 + timeOuts

Quiet == queue = <<>> /\ call = NoSlot /\ \A k \in Slots : reqs[k].at = "free"

\* Between its jobs the page shows sync as running just when a loop runs and what the
\* user copies is listened to, unless a request was given up, the bridge has died, or
\* the device was replaced under a running loop.  (A reset that fails then takes the
\* file away, and a page that reloads takes sync for stopped.)
PageInStep ==
  Quiet /\ ~outlived /\ ~died /\ ~swapped =>
    page.running = (Running # {} /\ client.onChange /\ ~client.stopRequested)

\* A loop serves the device the client works with, whose key decrypts what arrives and
\* which is the one in the state file, unless the device was replaced, or its recovery
\* tried, under a running loop, or a request that was given up went on.
LoopServesDevice ==
  ~swapped /\ ~outlived => \A i \in Running : loops[i].dev = client.sess /\ client.sess = file

\* stopRealtime completes, or the bridge dies, unless a request that was given up has
\* started a second loop: stopRealtime cancels the stream opened last and waits for the
\* loop started last, which need not be the same.
StopCompletes ==
  \A k \in Slots : reqs[k].at = "joining" ~> reqs[k].at # "joining" \/ outlived

=============================================================================
