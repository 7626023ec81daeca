------------------------ MODULE ClipboardLoop_proofs ------------------------
(***************************************************************************)
(* Theorems about the clipboard loop: the page echoes only after a         *)
(* restart, the watcher only after a race, nothing is swallowed without    *)
(* cause, polling goes on.                                                 *)
(***************************************************************************)
EXTENDS ClipboardLoop, SequenceTheorems, TLAPS

-----------------------------------------------------------------------------
(* Types *)

Call    == [at : {"idle", "read", "sending"}, read : Entry, raced : BOOLEAN]
Content == [text : Texts, by : {"user", "client"}]
Answer  == [to : {"read", "write"}, read : Entry]

WatcherOK ==
  /\ watch \in {"off", "starting", "on"}
  /\ firstRead \in Texts \cup {NoText}
  /\ latest \in Texts \cup {NoText}
  /\ suppressNext \in BOOLEAN
  /\ pollInFlight \in BOOLEAN
  /\ poll \in [Polls -> Call]
  /\ writing \in [Texts -> Nat]
  /\ races \in Int

PageOK ==
  /\ syncRunning \in BOOLEAN
  /\ lastFingerprint \in Texts \cup {NoText}
  /\ suppressed \in Texts \cup {NoText}
  /\ commands \in Seq(Texts)
  /\ answers \in Seq(Answer)
  /\ restarts \in 0 .. MaxRestarts
  /\ echoes \in Nat

SharedOK ==
  /\ clip \in [Ends -> Content]
  /\ wire \in [Ends -> Seq(Texts)]
  /\ copies \in 0 .. MaxCopies
  /\ sends \in 0 .. MaxSends
  /\ stops \in 0 .. MaxStops
  /\ owed \in [Ends -> Int]

\* What a poll has read is a text, which is what it may send.
SendsTexts == \A k \in Polls : poll[k].at # "idle" => poll[k].read.text \in Texts

\* What the shell answers is a text.
AnswersTexts == \A n \in 1 .. Len(answers) : answers[n].read.text \in Texts

TypeInv == WatcherOK /\ PageOK /\ SharedOK /\ SendsTexts /\ AnswersTexts

LEMMA TypeParts == TypeOK <=> WatcherOK /\ PageOK /\ SharedOK
  BY DEF TypeOK, WatcherOK, PageOK, SharedOK, Call, Content, Answer

LEMMA Numbers == /\ MaxCopies \in Nat /\ MaxSends \in Nat /\ MaxStops \in Nat
                 /\ MaxRestarts \in Nat /\ MaxReads \in Nat
  BY LoopAssumption

LEMMA BothEnds == "cli" \in Ends /\ "page" \in Ends /\ \A e \in Ends : e = "cli" \/ e = "page"
  BY DEF Ends

LEMMA ContentIsEntry == \A c \in Content : c \in Entry /\ c.text \in Texts
  BY DEF Content, Entry

LEMMA IdleType == Idle \in Call /\ Idle.at = "idle"
  BY DEF Idle, Call, Entry

LEMMA InitType == Init => TypeInv
  <1> SUFFICES ASSUME Init PROVE TypeInv
    OBVIOUS
  <1>1. WatcherOK
    <2>1. poll \in [Polls -> Call]
      BY IdleType DEF Init
    <2>2. writing \in [Texts -> Nat]
      BY DEF Init
    <2>3. /\ watch = "off" /\ firstRead = NoText /\ latest = NoText
          /\ suppressNext = FALSE /\ pollInFlight = FALSE /\ races = 0
      BY DEF Init
    <2>4. races \in Int
      BY DEF Init
    <2>5. QED
      BY <2>1, <2>2, <2>3, <2>4 DEF WatcherOK
  <1>2. PageOK
    <2>1. commands \in Seq(Texts)
      BY DEF Init
    <2>2. answers \in Seq(Answer)
      BY DEF Init
    <2>3. restarts = 0 /\ echoes = 0
      BY DEF Init
    <2>4. restarts \in 0 .. MaxRestarts /\ echoes \in Nat
      BY <2>3, Numbers
    <2>5. syncRunning \in BOOLEAN /\ lastFingerprint = NoText /\ suppressed = NoText
      BY DEF Init
    <2>6. QED
      BY <2>1, <2>2, <2>4, <2>5 DEF PageOK
  <1>3. SharedOK
    <2>1. clip \in [Ends -> Content]
      BY DEF Init, Content
    <2>2. wire \in [Ends -> Seq(Texts)]
      <3>1. <<>> \in Seq(Texts)
        OBVIOUS
      <3>2. QED
        BY <3>1 DEF Init
    <2>3. owed \in [Ends -> Int]
      BY DEF Init
    <2>4. QED
      BY <2>1, <2>2, <2>3, Numbers DEF Init, SharedOK
  <1>4. SendsTexts
    BY IdleType DEF Init, SendsTexts
  <1>5. AnswersTexts
    BY DEF Init, AnswersTexts
  <1>6. QED
    BY <1>1, <1>2, <1>3, <1>4, <1>5 DEF TypeInv

\* Overlapped changes what is noted of the polls, and nothing else of them.
LEMMA OverlappedPolls ==
  ASSUME TypeInv
  PROVE  /\ Overlapped \in [Polls -> Call]
         /\ \A k \in Polls : /\ Overlapped[k].at = poll[k].at
                             /\ Overlapped[k].read = poll[k].read
                             /\ Overlapped[k].raced = (poll[k].at = "read")
  BY DEF TypeInv, WatcherOK, Overlapped, Call

\* A poll that ends is idle, and the others are as they were.
LEMMA EndedPoll ==
  ASSUME TypeInv, NEW k \in Polls, poll' = [poll EXCEPT ![k] = Idle]
  PROVE  /\ poll' \in [Polls -> Call]
         /\ poll'[k].at = "idle"
         /\ \A j \in Polls : j # k => poll'[j] = poll[j]
         /\ SendsTexts'
  <1>1. /\ poll' \in [Polls -> Call] /\ poll'[k] = Idle
        /\ \A j \in Polls : j # k => poll'[j] = poll[j]
    BY IdleType DEF TypeInv, WatcherOK
  <1>2. QED
    BY <1>1, IdleType DEF TypeInv, SendsTexts

LEMMA UserKeepsType ==
  ASSUME TypeInv, \/ \E e \in Ends, x \in Texts : Copy(e, x)
                  \/ ToggleSync
  PROVE  TypeInv'
  <1>1. ASSUME NEW e \in Ends, NEW x \in Texts, Copy(e, x)
        PROVE  TypeInv'
    <2>1. /\ UNCHANGED <<wire, watcherVars, pageVars, sends, stops, owed>>
          /\ clip' \in [Ends -> Content]
          /\ copies' \in 0 .. MaxCopies
      BY <1>1, Numbers DEF Copy, TypeInv, SharedOK, Content
    <2>2. SharedOK'
      BY <2>1 DEF TypeInv, SharedOK
    <2>3. WatcherOK' /\ PageOK' /\ SendsTexts' /\ AnswersTexts'
      BY <1>1, <2>1 DEF Copy, TypeInv, WatcherOK, PageOK, SendsTexts, AnswersTexts, watcherVars, pageVars
    <2>4. QED
      BY <2>2, <2>3 DEF TypeInv
  <1>2. CASE ToggleSync
    <2>1. SharedOK' /\ WatcherOK' /\ SendsTexts'
      BY <1>2 DEF ToggleSync, TypeInv, SharedOK, WatcherOK, SendsTexts, watcherVars, countVars
    <2>2. PageOK' /\ AnswersTexts'
      BY <1>2 DEF ToggleSync, TypeInv, PageOK, AnswersTexts, countVars
    <2>3. QED
      BY <2>1, <2>2 DEF TypeInv
  <1>3. QED
    BY <1>1, <1>2

\* What the watcher does leaves the page as it is.
LEMMA PageKept ==
  ASSUME TypeInv, UNCHANGED <<pageVars, restarts, echoes>>
  PROVE  PageOK' /\ AnswersTexts'
  BY DEF TypeInv, PageOK, AnswersTexts, pageVars

\* What the page does leaves the watcher as it is.
LEMMA WatcherKept ==
  ASSUME TypeInv, UNCHANGED <<watcherVars, races>>
  PROVE  WatcherOK' /\ SendsTexts'
  BY DEF TypeInv, WatcherOK, SendsTexts, watcherVars

LEMMA SharedKept ==
  ASSUME TypeInv, UNCHANGED <<clip, wire, copies, sends, stops, owed>>
  PROVE  SharedOK'
  BY DEF TypeInv, SharedOK

LEMMA StartStopKeepsType ==
  ASSUME TypeInv, WatchStarts \/ WatchStarted \/ WatchStops \/ CliRestarts
  PROVE  TypeInv'
  <1>1. CASE WatchStarts
    <2>1. SharedOK' /\ PageOK' /\ AnswersTexts'
      BY <1>1, PageKept, SharedKept DEF WatchStarts, countVars
    <2>2. firstRead' \in Texts
      BY <1>1, BothEnds DEF WatchStarts, TypeInv, SharedOK, Content
    <2>3. WatcherOK' /\ SendsTexts'
      BY <1>1, <2>2 DEF WatchStarts, TypeInv, WatcherOK, SendsTexts, countVars
    <2>4. QED
      BY <2>1, <2>3 DEF TypeInv
  <1>2. CASE WatchStarted
    <2>1. SharedOK' /\ PageOK' /\ AnswersTexts'
      BY <1>2, PageKept, SharedKept DEF WatchStarted, countVars
    <2>2. WatcherOK' /\ SendsTexts'
      BY <1>2 DEF WatchStarted, TypeInv, WatcherOK, SendsTexts, countVars
    <2>3. QED
      BY <2>1, <2>2 DEF TypeInv
  <1>3. CASE WatchStops
    <2>1. PageOK' /\ AnswersTexts'
      BY <1>3, PageKept DEF WatchStops
    <2>2. SharedOK'
      BY <1>3, Numbers DEF WatchStops, TypeInv, SharedOK
    <2>3. poll' \in [Polls -> Call] /\ SendsTexts'
      BY <1>3, OverlappedPolls DEF WatchStops, TypeInv, SendsTexts
    <2>4. WatcherOK'
      BY <1>3, <2>3 DEF WatchStops, TypeInv, WatcherOK
    <2>5. QED
      BY <2>1, <2>2, <2>3, <2>4 DEF TypeInv
  <1>4. CASE CliRestarts
    <2>1. PageOK' /\ AnswersTexts'
      BY <1>4, PageKept DEF CliRestarts
    <2>2. SharedOK'
      BY <1>4, Numbers DEF CliRestarts, TypeInv, SharedOK
    <2>3. poll' = [k \in Polls |-> Idle]
      BY <1>4 DEF CliRestarts
    <2>4. poll' \in [Polls -> Call] /\ SendsTexts'
      BY <2>3, IdleType DEF SendsTexts
    <2>5. races' \in Int
      BY <1>4 DEF CliRestarts, TypeInv, WatcherOK
    <2>6. WatcherOK'
      BY <1>4, <2>4, <2>5 DEF CliRestarts, TypeInv, WatcherOK
    <2>7. QED
      BY <2>1, <2>2, <2>4, <2>6 DEF TypeInv
  <1>5. QED
    BY <1>1, <1>2, <1>3, <1>4

\* What PollReads makes of the polls.
LEMMA ReadPoll ==
  ASSUME TypeInv, NEW k \in Polls, PollReads(k)
  PROVE  /\ poll' \in [Polls -> Call]
         /\ poll'[k] = [at |-> "read", read |-> clip["cli"], raced |-> Disturbed]
         /\ \A j \in Polls : j # k => poll'[j] = Overlapped[j]
  <1>1. clip["cli"] \in Entry
    BY BothEnds, ContentIsEntry DEF TypeInv, SharedOK
  <1>2. Disturbed \in BOOLEAN
    BY DEF Disturbed
  <1>3. [at |-> "read", read |-> clip["cli"], raced |-> Disturbed] \in Call
    BY <1>1, <1>2, Zenon DEF Call
  <1> DEFINE c == [at |-> "read", read |-> clip["cli"], raced |-> Disturbed]
  <1>4. c \in Call /\ poll' = [Overlapped EXCEPT ![k] = c]
    BY <1>3 DEF PollReads
  <1> HIDE DEF c
  <1>5. poll' \in [Polls -> Call] /\ poll'[k] = c /\ \A j \in Polls : j # k => poll'[j] = Overlapped[j]
    BY <1>4, OverlappedPolls
  <1>6. QED
    BY <1>5 DEF c

LEMMA PollKeepsType ==
  ASSUME TypeInv, NEW k \in Polls, PollReads(k) \/ PollHandles(k) \/ PollFails(k) \/ SendEnds(k)
  PROVE  TypeInv'
  <1>1. CASE PollReads(k)
    <2>1. SharedOK' /\ PageOK' /\ AnswersTexts'
      BY <1>1, PageKept, SharedKept DEF PollReads, countVars
    <2>2. SendsTexts'
      <3>1. clip["cli"].text \in Texts
        BY BothEnds, ContentIsEntry DEF TypeInv, SharedOK
      <3>2. QED
        BY <1>1, <3>1, ReadPoll, OverlappedPolls DEF TypeInv, SendsTexts
    <2>3. WatcherOK'
      BY <1>1, ReadPoll DEF PollReads, TypeInv, WatcherOK, countVars
    <2>4. QED
      BY <2>1, <2>2, <2>3 DEF TypeInv
  <1>2. CASE PollHandles(k)
    <2>1. PageOK' /\ AnswersTexts'
      BY <1>2, PageKept DEF PollHandles
    <2>2. SharedOK'
      <3>1. owed' \in [Ends -> Int]
        BY <1>2 DEF PollHandles, TypeInv, SharedOK
      <3>2. QED
        BY <1>2, <3>1 DEF PollHandles, TypeInv, SharedOK
    <2>3. poll' \in [Polls -> Call] /\ SendsTexts'
      <3>1. CASE PollEnds(k)
        BY <3>1, EndedPoll DEF PollEnds
      <3>2. CASE poll' = [poll EXCEPT ![k].at = "sending"] /\ poll[k].at = "read"
        BY <3>2 DEF TypeInv, WatcherOK, SendsTexts, Call
      <3>3. QED
        BY <1>2, <3>1, <3>2 DEF PollHandles
    <2>4. latest' \in Texts
      BY <1>2 DEF PollHandles, TypeInv, SendsTexts
    <2>5. races' \in Int
      BY <1>2 DEF PollHandles, TypeInv, WatcherOK
    <2>6. suppressNext' \in BOOLEAN /\ pollInFlight' \in BOOLEAN
      BY <1>2 DEF PollHandles, PollEnds, Suppress, TypeInv, WatcherOK
    <2>7. WatcherOK'
      BY <1>2, <2>3, <2>4, <2>5, <2>6 DEF PollHandles, TypeInv, WatcherOK
    <2>8. QED
      BY <2>1, <2>2, <2>3, <2>7 DEF TypeInv
  <1>3. CASE PollFails(k)
    <2>1. SharedOK' /\ PageOK' /\ AnswersTexts'
      BY <1>3, PageKept, SharedKept DEF PollFails, countVars
    <2>2. poll' \in [Polls -> Call] /\ SendsTexts'
      BY <1>3, EndedPoll DEF PollFails, PollEnds
    <2>3. WatcherOK'
      BY <1>3, <2>2 DEF PollFails, PollEnds, TypeInv, WatcherOK, countVars
    <2>4. QED
      BY <2>1, <2>2, <2>3 DEF TypeInv
  <1>4. CASE SendEnds(k)
    <2>1. PageOK' /\ AnswersTexts'
      BY <1>4, PageKept DEF SendEnds
    <2>2. poll' \in [Polls -> Call] /\ SendsTexts'
      BY <1>4, EndedPoll DEF SendEnds, PollEnds
    <2>3. WatcherOK'
      BY <1>4, <2>2 DEF SendEnds, PollEnds, TypeInv, WatcherOK
    <2>4. SharedOK'
      <3>1. poll[k].read.text \in Texts /\ wire["page"] \in Seq(Texts)
        BY <1>4, BothEnds DEF SendEnds, TypeInv, SendsTexts, SharedOK
      <3>2. Append(wire["page"], poll[k].read.text) \in Seq(Texts)
        BY <3>1, AppendProperties
      <3>3. wire' \in [Ends -> Seq(Texts)]
        BY <1>4, <3>2 DEF SendEnds, TypeInv, SharedOK
      <3>4. sends' \in 0 .. MaxSends
        BY <1>4, Numbers DEF SendEnds, TypeInv, SharedOK
      <3>5. QED
        BY <1>4, <3>3, <3>4 DEF SendEnds, TypeInv, SharedOK
    <2>5. QED
      BY <2>1, <2>2, <2>3, <2>4 DEF TypeInv
  <1>5. QED
    BY <1>1, <1>2, <1>3, <1>4

\* A text arrives at the end e: it is taken from the wire.
LEMMA ReceivedText ==
  ASSUME TypeInv, NEW e \in Ends, wire[e] # <<>>
  PROVE  /\ Head(wire[e]) \in Texts
         /\ [wire EXCEPT ![e] = Tail(@)] \in [Ends -> Seq(Texts)]
  <1>1. wire[e] \in Seq(Texts)
    BY DEF TypeInv, SharedOK
  <1>2. Head(wire[e]) \in Texts /\ Tail(wire[e]) \in Seq(Texts)
    BY <1>1, HeadTailProperties
  <1>3. QED
    BY <1>2 DEF TypeInv, SharedOK

LEMMA WriteKeepsType ==
  ASSUME TypeInv, CliReceives \/ \E x \in Texts : WriteEnds(x)
  PROVE  TypeInv'
  <1>1. CASE CliReceives
    <2> DEFINE x == Head(wire["cli"])
    <2>1. x \in Texts /\ wire' \in [Ends -> Seq(Texts)]
      BY <1>1, ReceivedText, BothEnds DEF CliReceives
    <2>2. /\ suppressNext' = TRUE /\ latest' = x
          /\ writing' = [writing EXCEPT ![x] = @ + 1]
      BY <1>1 DEF CliReceives, WriteText
    <2>3. poll' \in [Polls -> Call] /\ SendsTexts'
      BY <1>1, OverlappedPolls DEF CliReceives, TypeInv, SendsTexts
    <2> HIDE DEF x
    <2>4. writing' \in [Texts -> Nat]
      BY <2>1, <2>2 DEF TypeInv, WatcherOK
    <2>5. WatcherOK'
      BY <1>1, <2>1, <2>2, <2>3, <2>4 DEF CliReceives, TypeInv, WatcherOK
    <2>6. owed' \in [Ends -> Int]
      <3>1. owed \in [Ends -> Int] /\ owed' = [owed EXCEPT !["cli"] = owed["cli"] + 1]
        BY <1>1 DEF CliReceives, TypeInv, SharedOK
      <3>2. owed["cli"] \in Int
        BY <3>1, BothEnds
      <3>3. owed["cli"] + 1 \in Int
        BY <3>2
      <3>4. QED
        BY <3>1, <3>3
    <2>7. SharedOK'
      BY <1>1, <2>1, <2>6 DEF CliReceives, TypeInv, SharedOK
    <2>8. PageOK' /\ AnswersTexts'
      BY <1>1, PageKept DEF CliReceives
    <2>9. QED
      BY <2>3, <2>5, <2>7, <2>8 DEF TypeInv
  <1>2. ASSUME NEW x \in Texts, WriteEnds(x)
        PROVE  TypeInv'
    <2>1. PageOK' /\ AnswersTexts'
      BY <1>2, PageKept DEF WriteEnds, countVars
    <2>2. writing' \in [Texts -> Nat]
      BY <1>2 DEF WriteEnds, TypeInv, WatcherOK
    <2>3. WatcherOK' /\ SendsTexts'
      BY <1>2, <2>2 DEF WriteEnds, TypeInv, WatcherOK, SendsTexts, countVars
    <2>4. clip' \in [Ends -> Content]
      BY <1>2 DEF WriteEnds, TypeInv, SharedOK, Content
    <2>5. SharedOK'
      BY <1>2, <2>4 DEF WriteEnds, TypeInv, SharedOK, countVars
    <2>6. QED
      BY <2>1, <2>3, <2>5 DEF TypeInv
  <1>3. QED
    BY <1>1, <1>2

\* The page handles the answer that is first: what it read is a text, and the rest are
\* answers still.
LEMMA FirstAnswer ==
  ASSUME TypeInv, answers # <<>>
  PROVE  /\ Len(answers) > 0 /\ Len(answers) \in Nat
         /\ Head(answers) = answers[1] /\ Head(answers) \in Answer
         /\ Head(answers).read.text \in Texts
         /\ Tail(answers) \in Seq(Answer)
         /\ Len(Tail(answers)) = Len(answers) - 1
         /\ \A n \in 1 .. Len(answers) - 1 : Tail(answers)[n] = answers[n + 1]
         /\ \A n \in 1 .. Len(answers) - 1 : Tail(answers)[n].read.text \in Texts
  <1>1. answers \in Seq(Answer)
    BY DEF TypeInv, PageOK
  <1>2. Len(answers) \in Nat \ {0} /\ Head(answers) = answers[1]
    BY <1>1, EmptySeq
  <1>3. /\ Tail(answers) \in Seq(Answer) /\ Head(answers) \in Answer
        /\ Len(Tail(answers)) = Len(answers) - 1
        /\ \A n \in 1 .. Len(Tail(answers)) : Tail(answers)[n] = answers[n + 1]
    BY <1>1, HeadTailProperties
  <1>4. \A n \in 1 .. Len(answers) - 1 : n + 1 \in 1 .. Len(answers)
    BY <1>2
  <1>5. QED
    BY <1>2, <1>3, <1>4 DEF TypeInv, AnswersTexts

\* An answer that is added is the last.
LEMMA AddedAnswer ==
  ASSUME TypeInv, NEW a \in Answer, answers' = Append(answers, a)
  PROVE  /\ answers' \in Seq(Answer)
         /\ Len(answers) \in Nat
         /\ Len(answers') = Len(answers) + 1
         /\ \A n \in 1 .. Len(answers) : answers'[n] = answers[n]
         /\ answers'[Len(answers) + 1] = a
         /\ a.read.text \in Texts => AnswersTexts'
  <1>1. answers \in Seq(Answer)
    BY DEF TypeInv, PageOK
  <1>2. /\ answers' \in Seq(Answer)
        /\ Len(answers') = Len(answers) + 1
        /\ \A n \in 1 .. Len(answers) : answers'[n] = answers[n]
        /\ answers'[Len(answers) + 1] = a
    BY <1>1, AppendProperties
  <1>3. Len(answers) \in Nat
    BY <1>1, LenProperties
  <1>4. \A n \in 1 .. Len(answers) + 1 : n \in 1 .. Len(answers) \/ n = Len(answers) + 1
    BY <1>3
  <1>5. a.read.text \in Texts => AnswersTexts'
    BY <1>2, <1>4 DEF TypeInv, AnswersTexts
  <1>6. QED
    BY <1>2, <1>3, <1>5

LEMMA CommandType ==
  ASSUME TypeInv, commands # <<>>
  PROVE  Head(commands) \in Texts /\ Tail(commands) \in Seq(Texts)
  <1>1. commands \in Seq(Texts)
    BY DEF TypeInv, PageOK
  <1>2. QED
    BY <1>1, HeadTailProperties

\* The shell has written a text to the clipboard.
ShellWrote ==
  /\ commands # <<>>
  /\ clip' = [clip EXCEPT !["page"] = [text |-> Head(commands), by |-> "client"]]
  /\ answers' = Append(answers, [to |-> "write", read |-> clip'["page"]])

\* What that leaves: the clipboard, and an answer that says so.
LEMMA ShellWritten ==
  ASSUME TypeInv, ShellWrote
  PROVE  /\ clip' \in [Ends -> Content] /\ clip'["page"].by = "client"
         /\ [to |-> "write", read |-> clip'["page"]] \in Answer
         /\ clip'["page"].text \in Texts
         /\ clip'["cli"] = clip["cli"]
  <1>1. Head(commands) \in Texts /\ clip \in [Ends -> Content]
    BY CommandType DEF ShellWrote, TypeInv, SharedOK
  <1>2. clip' = [clip EXCEPT !["page"] = [text |-> Head(commands), by |-> "client"]]
    BY DEF ShellWrote
  <1>3. [text |-> Head(commands), by |-> "client"] \in Content
    BY <1>1 DEF Content
  <1>4. clip' \in [Ends -> Content]
    BY <1>1, <1>2, <1>3
  <1>5. clip'["page"] = [text |-> Head(commands), by |-> "client"] /\ clip'["cli"] = clip["cli"]
    BY <1>1, <1>2, BothEnds
  <1>6. clip'["page"] \in Entry /\ clip'["page"].text \in Texts
    BY <1>3, <1>5, ContentIsEntry
  <1>7. [to |-> "write", read |-> clip'["page"]] \in Answer
    BY <1>6 DEF Answer
  <1>8. QED
    BY <1>4, <1>5, <1>6, <1>7

LEMMA ReadAnswer ==
  ASSUME TypeInv
  PROVE  [to |-> "read", read |-> clip["page"]] \in Answer /\ clip["page"].text \in Texts
  <1>1. clip["page"] \in Entry /\ clip["page"].text \in Texts
    BY BothEnds, ContentIsEntry DEF TypeInv, SharedOK
  <1>2. QED
    BY <1>1 DEF Answer

LEMMA ShellKeepsType ==
  ASSUME TypeInv, PageReceives \/ ShellWrites \/ ShellReads
  PROVE  TypeInv'
  <1>1. CASE PageReceives
    <2> DEFINE x == Head(wire["page"])
    <2>1. x \in Texts /\ wire' \in [Ends -> Seq(Texts)]
      BY <1>1, ReceivedText, BothEnds DEF PageReceives
    <2>2. commands' = commands \o <<x, x>> /\ commands \in Seq(Texts)
      BY <1>1 DEF PageReceives, TypeInv, PageOK
    <2> HIDE DEF x
    <2>3. <<x, x>> \in Seq(Texts)
      BY <2>1
    <2>4. commands' \in Seq(Texts)
      BY <2>2, <2>3, ConcatProperties
    <2>5. PageOK' /\ AnswersTexts'
      BY <1>1, <2>4 DEF PageReceives, TypeInv, PageOK, AnswersTexts, countVars
    <2>6. SharedOK'
      BY <1>1, <2>1 DEF PageReceives, TypeInv, SharedOK, countVars
    <2>7. WatcherOK' /\ SendsTexts'
      BY <1>1, WatcherKept DEF PageReceives, countVars
    <2>8. QED
      BY <2>5, <2>6, <2>7 DEF TypeInv
  <1>2. CASE ShellWrites
    <2>1. ShellWrote \/ UNCHANGED <<clip, answers>>
      BY <1>2 DEF ShellWrites, ShellWrote
    <2>2. answers' \in Seq(Answer) /\ AnswersTexts'
      BY <2>1, ShellWritten, AddedAnswer DEF ShellWrote, TypeInv, PageOK, AnswersTexts
    <2>3. commands' \in Seq(Texts)
      BY <1>2, CommandType DEF ShellWrites
    <2>4. PageOK'
      BY <1>2, <2>2, <2>3 DEF ShellWrites, TypeInv, PageOK, countVars
    <2>5. clip' \in [Ends -> Content]
      BY <2>1, ShellWritten DEF TypeInv, SharedOK
    <2>6. SharedOK'
      BY <1>2, <2>5 DEF ShellWrites, TypeInv, SharedOK, countVars
    <2>7. WatcherOK' /\ SendsTexts'
      BY <1>2, WatcherKept DEF ShellWrites, countVars
    <2>8. QED
      BY <2>2, <2>4, <2>6, <2>7 DEF TypeInv
  <1>3. CASE ShellReads
    <2>1. answers' \in Seq(Answer) /\ AnswersTexts'
      BY <1>3, ReadAnswer, AddedAnswer DEF ShellReads
    <2>2. PageOK'
      BY <1>3, <2>1 DEF ShellReads, TypeInv, PageOK, countVars
    <2>3. SharedOK' /\ WatcherOK' /\ SendsTexts'
      BY <1>3, SharedKept, WatcherKept DEF ShellReads, countVars
    <2>4. QED
      BY <2>1, <2>2, <2>3 DEF TypeInv
  <1>4. QED
    BY <1>1, <1>2, <1>3

LEMMA PageKeepsType ==
  ASSUME TypeInv, PageWritten \/ PageHandles \/ PageRestarts
  PROVE  TypeInv'
  <1>1. CASE PageWritten
    <2>1. answers' \in Seq(Answer) /\ AnswersTexts' /\ suppressed' \in Texts
      BY <1>1, FirstAnswer DEF PageWritten, Written, AnswersTexts
    <2>2. PageOK'
      BY <1>1, <2>1 DEF PageWritten, TypeInv, PageOK
    <2>3. owed' \in [Ends -> Int]
      <3>1. owed \in [Ends -> Int] /\ owed' = [owed EXCEPT !["page"] = owed["page"] + 1]
        BY <1>1 DEF PageWritten, TypeInv, SharedOK
      <3>2. owed["page"] \in Int
        BY <3>1, BothEnds
      <3>3. owed["page"] + 1 \in Int
        BY <3>2
      <3>4. QED
        BY <3>1, <3>3
    <2>4. SharedOK'
      BY <1>1, <2>3 DEF PageWritten, TypeInv, SharedOK
    <2>5. WatcherOK' /\ SendsTexts'
      BY <1>1, WatcherKept DEF PageWritten
    <2>6. QED
      BY <2>1, <2>2, <2>4, <2>5 DEF TypeInv
  <1>2. CASE PageHandles
    <2>1. answers' \in Seq(Answer) /\ AnswersTexts'
      BY <1>2, FirstAnswer DEF PageHandles, AnswersTexts
    <2>2. lastFingerprint' \in Texts
      BY <1>2, FirstAnswer DEF PageHandles
    <2>3. suppressed' \in Texts \cup {NoText} /\ echoes' \in Nat
      BY <1>2 DEF PageHandles, NoLongerSuppressed, TypeInv, PageOK
    <2>4. PageOK'
      BY <1>2, <2>1, <2>2, <2>3 DEF PageHandles, TypeInv, PageOK
    <2>5. owed' \in [Ends -> Int]
      <3>1. \/ owed' = owed
            \/ owed' = [owed EXCEPT !["page"] = @ - (IF Head(answers).read.by = "user" THEN 1 ELSE 0)]
        BY <1>2 DEF PageHandles
      <3>2. QED
        BY <3>1 DEF TypeInv, SharedOK
    <2>6. wire' \in [Ends -> Seq(Texts)] /\ sends' \in 0 .. MaxSends
      <3>1. \/ wire' = wire /\ sends' = sends
            \/ /\ sends < MaxSends /\ sends' = sends + 1
               /\ wire' = [wire EXCEPT !["cli"] = Append(@, Head(answers).read.text)]
        BY <1>2 DEF PageHandles
      <3>2. Head(answers).read.text \in Texts /\ wire["cli"] \in Seq(Texts)
        BY <1>2, FirstAnswer, BothEnds DEF PageHandles, TypeInv, SharedOK
      <3>3. Append(wire["cli"], Head(answers).read.text) \in Seq(Texts)
        BY <3>2, AppendProperties
      <3>4. wire' \in [Ends -> Seq(Texts)]
        BY <3>1, <3>3 DEF TypeInv, SharedOK
      <3>5. QED
        BY <3>1, <3>4, Numbers DEF TypeInv, SharedOK
    <2>7. SharedOK'
      BY <1>2, <2>5, <2>6 DEF PageHandles, TypeInv, SharedOK
    <2>8. WatcherOK' /\ SendsTexts'
      BY <1>2, WatcherKept DEF PageHandles
    <2>9. QED
      BY <2>1, <2>4, <2>7, <2>8 DEF TypeInv
  <1>3. CASE PageRestarts
    <2>1. commands' = <<>> /\ answers' = <<>> /\ restarts' \in 0 .. MaxRestarts
      BY <1>3, Numbers DEF PageRestarts, TypeInv, PageOK
    <2>2. commands' \in Seq(Texts) /\ answers' \in Seq(Answer) /\ AnswersTexts'
      BY <2>1 DEF AnswersTexts
    <2>3. PageOK'
      BY <1>3, <2>1, <2>2 DEF PageRestarts, TypeInv, PageOK
    <2>4. PICK n \in 0 .. Len(wire["page"]) :
            wire' = [wire EXCEPT !["page"] = SubSeq(@, n + 1, Len(@))]
      BY <1>3 DEF PageRestarts
    <2>5. wire["page"] \in Seq(Texts)
      BY BothEnds DEF TypeInv, SharedOK
    <2>6. SubSeq(wire["page"], n + 1, Len(wire["page"])) \in Seq(Texts)
      <3>1. Len(wire["page"]) \in Nat
        BY <2>5, LenProperties
      <3>2. \A i \in n + 1 .. Len(wire["page"]) : i \in 1 .. Len(wire["page"])
        BY <3>1
      <3>3. QED
        BY <2>5, <3>1, <3>2, SubSeqProperties
    <2>7. wire' \in [Ends -> Seq(Texts)]
      BY <2>4, <2>6 DEF TypeInv, SharedOK
    <2>8. SharedOK'
      BY <1>3, <2>7 DEF PageRestarts, TypeInv, SharedOK
    <2>9. WatcherOK' /\ SendsTexts'
      BY <1>3, WatcherKept DEF PageRestarts
    <2>10. QED
      BY <2>2, <2>3, <2>8, <2>9 DEF TypeInv
  <1>4. QED
    BY <1>1, <1>2, <1>3

LEMMA TypeStep == TypeInv /\ [Next]_vars => TypeInv'
  <1> SUFFICES ASSUME TypeInv, [Next]_vars PROVE TypeInv'
    OBVIOUS
  <1>1. CASE Next
    BY <1>1, UserKeepsType, StartStopKeepsType, PollKeepsType, WriteKeepsType, ShellKeepsType,
       PageKeepsType DEF Next
  <1>2. CASE UNCHANGED vars
    <2>1. UNCHANGED <<clip, wire, watcherVars, pageVars, countVars>>
      BY <1>2 DEF vars
    <2>2. QED
      BY <2>1, PageKept, WatcherKept, SharedKept DEF TypeInv, countVars
  <1>3. QED
    BY <1>1, <1>2

\* The variables have their types.
THEOREM TypeCorrect == Spec => []TypeOK
  <1>1. TypeInv => TypeOK
    BY TypeParts DEF TypeInv
  <1>2. QED
    BY <1>1, InitType, TypeStep, PTL DEF Spec

-----------------------------------------------------------------------------
(* Polling goes on *)

LEMMA PollingStep == TypeInv /\ PollingGoesOn /\ [Next]_vars => PollingGoesOn'
  <1> SUFFICES ASSUME TypeInv, PollingGoesOn, [Next]_vars PROVE PollingGoesOn'
    OBVIOUS
  <1>1. CASE UNCHANGED <<pollInFlight, poll>>
    BY <1>1 DEF PollingGoesOn
  <1>2. CASE pollInFlight' = FALSE
    BY <1>2 DEF PollingGoesOn
  <1>3. CASE pollInFlight' = pollInFlight /\ poll' = Overlapped
    BY <1>3, OverlappedPolls DEF PollingGoesOn
  <1>4. ASSUME NEW k \in Polls, PollReads(k)
        PROVE  PollingGoesOn'
    BY <1>4, ReadPoll DEF PollingGoesOn
  <1>5. ASSUME NEW k \in Polls, PollHandles(k)
        PROVE  PollingGoesOn'
    <2>1. CASE PollEnds(k)
      BY <2>1, <1>2 DEF PollEnds
    <2>2. CASE poll' = [poll EXCEPT ![k].at = "sending"]
      BY <2>2 DEF PollingGoesOn, TypeInv, WatcherOK, Call
    <2>3. QED
      BY <1>5, <2>1, <2>2 DEF PollHandles
  <1>6. ASSUME NEW k \in Polls, PollFails(k) \/ SendEnds(k)
        PROVE  PollingGoesOn'
    BY <1>6, <1>2 DEF PollFails, SendEnds, PollEnds
  <1>7. WatchStarts \/ WatchStarted \/ WatchStops \/ CliRestarts => PollingGoesOn'
    BY <1>1, <1>2 DEF WatchStarts, WatchStarted, WatchStops, CliRestarts
  <1>8. CliReceives => PollingGoesOn'
    BY <1>3 DEF CliReceives
  <1>9. \A x \in Texts : WriteEnds(x) => PollingGoesOn'
    BY <1>1 DEF WriteEnds
  <1>10. \A e \in Ends, x \in Texts : Copy(e, x) => PollingGoesOn'
    BY <1>1 DEF Copy, watcherVars
  <1>11. ToggleSync \/ PageReceives \/ ShellWrites \/ ShellReads => PollingGoesOn'
    BY <1>1 DEF ToggleSync, PageReceives, ShellWrites, ShellReads, watcherVars
  <1>12. PageWritten \/ PageHandles \/ PageRestarts => PollingGoesOn'
    BY <1>1 DEF PageWritten, PageHandles, PageRestarts, watcherVars
  <1>13. UNCHANGED vars => PollingGoesOn'
    BY <1>1 DEF vars, watcherVars
  <1>14. QED
    BY <1>4, <1>5, <1>6, <1>7, <1>8, <1>9, <1>10, <1>11, <1>12, <1>13 DEF Next

\* The flag that keeps polls apart is up only while a poll is under way.
THEOREM PollingCorrect == Spec => []PollingGoesOn
  <1>1. Init => PollingGoesOn
    BY DEF Init, PollingGoesOn
  <1>2. QED
    BY <1>1, InitType, TypeStep, PollingStep, PTL DEF Spec

-----------------------------------------------------------------------------
(* What is swallowed *)

\* A note that has not been used is owed.
OwedInv ==
  /\ owed["cli"] >= IF suppressNext THEN 1 ELSE 0
  /\ owed["page"] >= IF suppressed # NoText THEN 1 ELSE 0

LEMMA OwedStep == TypeInv /\ OwedInv /\ [Next]_vars => OwedInv'
  <1> SUFFICES ASSUME TypeInv, OwedInv, [Next]_vars PROVE OwedInv'
    OBVIOUS
  <1>1. owed \in [Ends -> Int] /\ suppressNext \in BOOLEAN
    BY DEF TypeInv, SharedOK, WatcherOK
  <1>2. CASE UNCHANGED <<owed, suppressNext, suppressed>>
    BY <1>2 DEF OwedInv
  <1>3. CASE CliReceives
    <2>1. suppressNext' = TRUE /\ suppressed' = suppressed /\ owed' = [owed EXCEPT !["cli"] = owed["cli"] + 1]
      BY <1>3 DEF CliReceives, WriteText, pageVars
    <2>2. owed'["cli"] = owed["cli"] + 1 /\ owed'["page"] = owed["page"]
      BY <1>1, <2>1, BothEnds
    <2>3. owed["cli"] \in Int
      BY <1>1, BothEnds
    <2>4. QED
      BY <2>1, <2>2, <2>3 DEF OwedInv
  <1>4. ASSUME NEW k \in Polls, PollHandles(k)
        PROVE  OwedInv'
    <2> DEFINE n == IF poll[k].read.by = "user" THEN 1 ELSE 0
    <2>1. CASE UNCHANGED <<owed, suppressNext>>
      BY <1>2, <1>4, <2>1 DEF PollHandles, pageVars
    <2>2. CASE suppressNext /\ suppressNext' = FALSE /\ owed' = [owed EXCEPT !["cli"] = owed["cli"] - n]
      <3>1. n \in {0, 1}
        OBVIOUS
      <3> HIDE DEF n
      <3>2. owed'["cli"] = owed["cli"] - n /\ owed'["page"] = owed["page"]
        BY <1>1, <2>2, BothEnds
      <3>3. owed["cli"] \in Int /\ suppressed' = suppressed
        BY <1>1, <1>4, BothEnds DEF PollHandles, pageVars
      <3>4. QED
        BY <2>2, <3>1, <3>2, <3>3 DEF OwedInv
    <2>3. QED
      BY <1>4, <2>1, <2>2 DEF PollHandles, Suppress
  <1>5. CASE PageWritten
    <2>1. suppressNext' = suppressNext /\ owed' = [owed EXCEPT !["page"] = owed["page"] + 1]
      BY <1>5 DEF PageWritten, watcherVars
    <2>2. owed'["page"] = owed["page"] + 1 /\ owed'["cli"] = owed["cli"]
      BY <1>1, <2>1, BothEnds
    <2>3. owed["page"] \in Int
      BY <1>1, BothEnds
    <2>4. QED
      BY <2>1, <2>2, <2>3 DEF OwedInv
  <1>6. CASE PageHandles
    <2> DEFINE n == IF Head(answers).read.by = "user" THEN 1 ELSE 0
    <2>1. CASE UNCHANGED <<owed, suppressed>>
      BY <1>2, <1>6, <2>1 DEF PageHandles, watcherVars
    <2>2. CASE /\ Head(answers).read.text = suppressed /\ suppressed' = NoText
               /\ owed' = [owed EXCEPT !["page"] = owed["page"] - n]
      <3>1. n \in {0, 1}
        OBVIOUS
      <3>2. suppressed # NoText
        BY <1>6, <2>2, FirstAnswer, LoopAssumption DEF PageHandles
      <3> HIDE DEF n
      <3>3. owed'["page"] = owed["page"] - n /\ owed'["cli"] = owed["cli"]
        BY <1>1, <2>2, BothEnds
      <3>4. owed["page"] \in Int /\ suppressNext' = suppressNext
        BY <1>1, <1>6, BothEnds DEF PageHandles, watcherVars
      <3>5. QED
        BY <2>2, <3>1, <3>2, <3>3, <3>4 DEF OwedInv
    <2>3. QED
      BY <1>6, <2>1, <2>2 DEF PageHandles, NoLongerSuppressed
  <1>7. \A k \in Polls : PollReads(k) \/ PollFails(k) \/ SendEnds(k) => OwedInv'
    BY <1>2 DEF PollReads, PollFails, SendEnds, pageVars, countVars
  <1>8. WatchStarts \/ WatchStarted \/ WatchStops => OwedInv'
    BY <1>2 DEF WatchStarts, WatchStarted, WatchStops, pageVars, countVars
  <1>9. \A x \in Texts : WriteEnds(x) => OwedInv'
    BY <1>2 DEF WriteEnds, pageVars, countVars
  <1>10. \A e \in Ends, x \in Texts : Copy(e, x) => OwedInv'
    BY <1>2 DEF Copy, watcherVars, pageVars
  <1>11. ToggleSync \/ PageReceives \/ ShellWrites \/ ShellReads => OwedInv'
    BY <1>2 DEF ToggleSync, PageReceives, ShellWrites, ShellReads, watcherVars, countVars
  <1>12. UNCHANGED vars => OwedInv'
    BY <1>2 DEF vars, watcherVars, pageVars, countVars
  \* A note that is forgotten swallows nothing any more.
  <1>13. CliRestarts \/ PageRestarts => OwedInv'
    <2>1. owed["cli"] \in Int /\ owed["page"] \in Int
      BY <1>1, BothEnds
    <2>2. owed["cli"] >= 0 /\ owed["page"] >= 0
      BY <2>1 DEF OwedInv
    <2>3. CASE CliRestarts
      <3>1. owed' = owed /\ suppressNext' = FALSE /\ suppressed' = suppressed
        BY <2>3 DEF CliRestarts, pageVars
      <3>2. QED
        BY <2>2, <3>1 DEF OwedInv
    <2>4. CASE PageRestarts
      <3>1. owed' = owed /\ suppressNext' = suppressNext /\ suppressed' = NoText
        BY <2>4 DEF PageRestarts, watcherVars
      <3>2. QED
        BY <2>2, <3>1 DEF OwedInv
    <2>5. QED
      BY <2>3, <2>4
  <1>14. QED
    BY <1>3, <1>4, <1>5, <1>6, <1>7, <1>8, <1>9, <1>10, <1>11, <1>12, <1>13 DEF Next

\* What the users copy is taken for an echo at most once for each write noted.
THEOREM SwallowedCorrect == Spec => []SwallowedOncePerWrite
  <1>1. Init => OwedInv
    BY BothEnds DEF Init, OwedInv
  <1>2. TypeInv /\ OwedInv => SwallowedOncePerWrite
    <2> SUFFICES ASSUME TypeInv, OwedInv PROVE \A e \in Ends : owed[e] >= 0
      BY DEF SwallowedOncePerWrite
    <2>1. owed["cli"] \in Int /\ owed["page"] \in Int
      BY BothEnds DEF TypeInv, SharedOK
    <2>2. owed["cli"] >= 0 /\ owed["page"] >= 0
      BY <2>1 DEF OwedInv
    <2>3. QED
      BY <2>2, BothEnds
  <1>3. QED
    BY <1>1, <1>2, InitType, TypeStep, OwedStep, PTL DEF Spec

-----------------------------------------------------------------------------
(* The page echoes only after a restart *)

ByClient(c) == c.by = "client"

\* The page has been restarted since it last sent an echo, and has handled no read.
Fresh == lastFingerprint = NoText /\ echoes < restarts

\* The page knows the text t and will not send it, or has one echo to its credit.
Known(t) == t = suppressed \/ t = lastFingerprint \/ Fresh

\* After the step it knows the text t.
KnownNext(t) == t = suppressed' \/ t = lastFingerprint' \/ Fresh'

\* A text the client has written is answered for before it is read, or known.
AnswersInOrder ==
  \A n \in 1 .. Len(answers) :
    answers[n].to = "read" /\ ByClient(answers[n].read) =>
      /\ n = 1 => Known(answers[n].read.text)
      /\ n # 1 => answers[n - 1].read = answers[n].read

\* So is the one on the clipboard: the answer last given is about it.
ClipKnown ==
  ByClient(clip["page"]) =>
    IF answers = <<>> THEN Known(clip["page"].text)
                      ELSE answers[Len(answers)].read = clip["page"]

EchoInv == echoes <= restarts /\ AnswersInOrder /\ ClipKnown

\* An answer that tells what is on the clipboard by then keeps both.
LEMMA AddAnswer ==
  ASSUME TypeInv, EchoInv, NEW a \in Answer, answers' = Append(answers, a),
         a.read = clip'["page"],
         a.to = "read" => clip'["page"] = clip["page"],
         UNCHANGED <<lastFingerprint, suppressed, restarts, echoes>>
  PROVE  AnswersInOrder' /\ ClipKnown'
  <1> DEFINE m == Len(answers) + 1
  <1>1. /\ Len(answers) \in Nat /\ Len(answers') = m
        /\ \A n \in 1 .. Len(answers) : answers'[n] = answers[n]
        /\ answers'[m] = a /\ answers' # <<>>
    BY AddedAnswer DEF TypeInv, PageOK
  <1>2. answers = <<>> <=> Len(answers) = 0
    BY EmptySeq DEF TypeInv, PageOK
  <1>3. AnswersInOrder'
    <2> SUFFICES ASSUME NEW n \in 1 .. Len(answers'),
                        answers'[n].to = "read" /\ ByClient(answers'[n].read)
                 PROVE  /\ n = 1 => KnownNext(answers'[n].read.text)
                        /\ n # 1 => answers'[n - 1].read = answers'[n].read
      BY DEF AnswersInOrder, ByClient, Known, KnownNext
    <2>1. CASE n \in 1 .. Len(answers)
      <3>1. answers'[n] = answers[n] /\ (n # 1 => answers'[n - 1] = answers[n - 1])
        BY <1>1, <2>1
      <3>2. QED
        BY <2>1, <3>1 DEF EchoInv, AnswersInOrder, ByClient, Known, KnownNext, Fresh
    <2>2. CASE n = m
      <3>1. answers'[n] = a /\ ByClient(clip["page"]) /\ a.read = clip["page"]
        BY <1>1, <2>2 DEF ByClient
      <3>2. CASE n = 1
        BY <1>1, <1>2, <2>2, <3>1, <3>2 DEF EchoInv, ClipKnown, Known, KnownNext, Fresh
      <3>3. CASE n # 1
        <4>1. n - 1 = Len(answers) /\ n - 1 \in 1 .. Len(answers) /\ answers # <<>>
          BY <1>1, <1>2, <2>2, <3>3
        <4>2. answers'[n - 1] = answers[Len(answers)]
          BY <1>1, <4>1
        <4>3. answers[Len(answers)].read = clip["page"]
          BY <3>1, <4>1 DEF EchoInv, ClipKnown
        <4>4. QED
          BY <3>1, <3>3, <4>2, <4>3
      <3>4. QED
        BY <3>2, <3>3
    <2>3. QED
      BY <1>1, <2>1, <2>2
  <1>4. ClipKnown'
    BY <1>1 DEF ClipKnown
  <1>5. QED
    BY <1>3, <1>4

\* Once the first answer is handled, what it read is known.
LEMMA DropAnswer ==
  ASSUME TypeInv, EchoInv, answers # <<>>, answers' = Tail(answers),
         KnownNext(Head(answers).read.text), clip' = clip
  PROVE  AnswersInOrder' /\ ClipKnown'
  <1>1. AnswersInOrder'
    <2> SUFFICES ASSUME NEW n \in 1 .. Len(answers'),
                        answers'[n].to = "read" /\ ByClient(answers'[n].read)
                 PROVE  /\ n = 1 => KnownNext(answers'[n].read.text)
                        /\ n # 1 => answers'[n - 1].read = answers'[n].read
      BY DEF AnswersInOrder, ByClient, Known, KnownNext
    <2>1. n \in 1 .. Len(answers) - 1 /\ answers'[n] = answers[n + 1] /\ n + 1 \in 1 .. Len(answers)
      BY FirstAnswer
    <2>2. answers[n].read = answers[n + 1].read
      <3>1. n + 1 # 1 /\ (n + 1) - 1 = n
        BY <2>1
      <3>2. QED
        BY <2>1, <3>1 DEF EchoInv, AnswersInOrder
    <2>3. CASE n = 1
      <3>1. answers'[n].read = Head(answers).read
        BY <2>1, <2>2, <2>3, FirstAnswer
      <3>2. QED
        BY <2>3, <3>1 DEF Known, KnownNext
    <2>4. CASE n # 1
      <3>1. n - 1 \in 1 .. Len(answers) - 1 /\ (n - 1) + 1 = n
        BY <2>1, <2>4, FirstAnswer
      <3>2. answers'[n - 1] = answers[n]
        BY <3>1, FirstAnswer
      <3>3. QED
        BY <2>1, <2>2, <2>4, <3>2
    <2>5. QED
      BY <2>3, <2>4
  <1>2. ClipKnown'
    <2> SUFFICES ASSUME ByClient(clip["page"])
                 PROVE  IF answers' = <<>> THEN KnownNext(clip["page"].text)
                                           ELSE answers'[Len(answers')].read = clip["page"]
      BY DEF ClipKnown, ByClient, Known, KnownNext
    <2>1. answers[Len(answers)].read = clip["page"]
      BY DEF EchoInv, ClipKnown
    <2>2. answers' = <<>> <=> Len(answers') = 0
      BY FirstAnswer, EmptySeq
    <2>3. CASE answers' = <<>>
      <3>1. Len(answers) = 1
        BY <2>2, <2>3, FirstAnswer
      <3>2. QED
        BY <2>1, <2>3, <3>1, FirstAnswer DEF Known, KnownNext
    <2>4. CASE answers' # <<>>
      <3>1. Len(answers') \in 1 .. Len(answers) - 1 /\ Len(answers') + 1 = Len(answers)
        BY <2>2, <2>4, FirstAnswer
      <3>2. QED
        BY <2>1, <2>4, <3>1, FirstAnswer
    <2>5. QED
      BY <2>3, <2>4
  <1>3. QED
    BY <1>1, <1>2

LEMMA EchoStep == TypeInv /\ EchoInv /\ [Next]_vars => EchoInv'
  <1> SUFFICES ASSUME TypeInv, EchoInv, [Next]_vars PROVE EchoInv'
    OBVIOUS
  <1>1. CASE UNCHANGED <<restarts, echoes, answers, lastFingerprint, suppressed>> /\ clip'["page"] = clip["page"]
    BY <1>1 DEF EchoInv, AnswersInOrder, ClipKnown, ByClient, Known, KnownNext, Fresh
  <1>2. ASSUME NEW e \in Ends, NEW x \in Texts, Copy(e, x)
        PROVE  EchoInv'
    <2>1. clip \in [Ends -> Content]
      BY DEF TypeInv, SharedOK
    <2>2. clip'["page"] = clip["page"] \/ clip'["page"].by = "user"
      BY <1>2, <2>1, BothEnds DEF Copy
    <2>3. UNCHANGED <<restarts, echoes, answers, lastFingerprint, suppressed>>
      BY <1>2 DEF Copy, pageVars
    <2>4. CASE clip'["page"].by = "user"
      <3>1. ClipKnown'
        BY <2>4 DEF ClipKnown, ByClient
      <3>2. AnswersInOrder'
        BY <2>3 DEF EchoInv, AnswersInOrder, ByClient, Known, KnownNext, Fresh
      <3>3. QED
        BY <2>3, <3>1, <3>2 DEF EchoInv
    <2>5. QED
      BY <1>1, <2>2, <2>3, <2>4
  <1>3. \A k \in Polls : PollReads(k) \/ PollHandles(k) \/ PollFails(k) \/ SendEnds(k) => EchoInv'
    BY <1>1 DEF PollReads, PollHandles, PollFails, SendEnds, pageVars, countVars
  <1>4. WatchStarts \/ WatchStarted \/ WatchStops \/ CliReceives \/ CliRestarts => EchoInv'
    BY <1>1 DEF WatchStarts, WatchStarted, WatchStops, CliReceives, CliRestarts, pageVars, countVars
  <1>5. ASSUME NEW x \in Texts, WriteEnds(x)
        PROVE  EchoInv'
    <2>1. clip'["page"] = clip["page"]
      BY <1>5, BothEnds DEF WriteEnds, TypeInv, SharedOK
    <2>2. QED
      BY <1>1, <1>5, <2>1 DEF WriteEnds, pageVars, countVars
  <1>6. ToggleSync \/ PageReceives \/ UNCHANGED vars => EchoInv'
    BY <1>1 DEF ToggleSync, PageReceives, vars, pageVars, countVars
  <1>7. CASE ShellWrites
    <2>1. CASE UNCHANGED <<clip, answers>>
      BY <1>1, <1>7, <2>1 DEF ShellWrites, countVars
    <2>2. CASE ShellWrote
      <3>1. [to |-> "write", read |-> clip'["page"]] \in Answer
        BY <2>2, ShellWritten
      <3>2. UNCHANGED <<lastFingerprint, suppressed, restarts, echoes>>
        BY <1>7 DEF ShellWrites, countVars
      <3>3. AnswersInOrder' /\ ClipKnown'
        BY <2>2, <3>1, <3>2, AddAnswer DEF ShellWrote
      <3>4. QED
        BY <3>2, <3>3 DEF EchoInv
    <2>3. QED
      BY <1>7, <2>1, <2>2 DEF ShellWrites, ShellWrote
  <1>8. CASE ShellReads
    <2>1. [to |-> "read", read |-> clip["page"]] \in Answer
      BY ReadAnswer
    <2>2. UNCHANGED <<clip, lastFingerprint, suppressed, restarts, echoes>>
      BY <1>8 DEF ShellReads, countVars
    <2>3. AnswersInOrder' /\ ClipKnown'
      BY <1>8, <2>1, <2>2, AddAnswer DEF ShellReads
    <2>4. QED
      BY <2>2, <2>3 DEF EchoInv
  <1>9. CASE PageWritten
    <2>1. KnownNext(Head(answers).read.text)
      BY <1>9 DEF PageWritten, Written, Known, KnownNext
    <2>2. AnswersInOrder' /\ ClipKnown'
      BY <1>9, <2>1, DropAnswer DEF PageWritten
    <2>3. QED
      BY <1>9, <2>2 DEF EchoInv, PageWritten
  \* What is sent back is what a new page finds: its credit is used, and it has a fingerprint.
  <1>10. CASE PageHandles
    <2> DEFINE r == Head(answers).read
    <2>1. KnownNext(r.text)
      BY <1>10 DEF PageHandles, Known, KnownNext
    <2>2. AnswersInOrder' /\ ClipKnown'
      BY <1>10, <2>1, DropAnswer DEF PageHandles
    <2>3. r.by = "client" => Known(r.text)
      BY <1>10, FirstAnswer DEF PageHandles, EchoInv, AnswersInOrder, ByClient
    <2>4. restarts \in Nat /\ echoes \in Nat /\ echoes <= restarts /\ restarts' = restarts
      BY <1>10, Numbers DEF PageHandles, EchoInv, TypeInv, PageOK
    <2>5. \/ echoes' = echoes
          \/ /\ r.text # lastFingerprint /\ r.text # suppressed
             /\ echoes' = echoes + (IF r.by = "client" THEN 1 ELSE 0)
      BY <1>10 DEF PageHandles
    <2>6. echoes' <= restarts'
      BY <2>3, <2>4, <2>5 DEF Known, Fresh
    <2>7. QED
      BY <2>2, <2>6 DEF EchoInv
  \* A new page has one echo to its credit, which covers whatever is on the clipboard.
  <1>11. CASE PageRestarts
    <2>1. /\ restarts' = restarts + 1 /\ echoes' = echoes /\ lastFingerprint' = NoText
          /\ answers' = <<>> /\ restarts \in Nat /\ echoes \in Nat
      BY <1>11, Numbers DEF PageRestarts, TypeInv, PageOK
    <2>2. Fresh' /\ echoes' <= restarts'
      BY <2>1 DEF EchoInv, Fresh
    <2>3. AnswersInOrder' /\ ClipKnown'
      BY <2>1, <2>2 DEF AnswersInOrder, ClipKnown, Known
    <2>4. QED
      BY <2>2, <2>3 DEF EchoInv
  <1>12. QED
    BY <1>2, <1>3, <1>4, <1>5, <1>6, <1>7, <1>8, <1>9, <1>10, <1>11 DEF Next

\* The page sends a text that it has received back at most once for each time it is
\* restarted.
THEOREM PageCorrect == Spec => []EchoNeedsRestart
  <1>1. Init => EchoInv
    <2>1. Init => answers = <<>> /\ echoes = 0 /\ restarts = 0 /\ clip["page"].by = "user"
      BY BothEnds DEF Init
    <2>2. answers = <<>> => AnswersInOrder
      BY DEF AnswersInOrder
    <2>3. QED
      BY <2>1, <2>2 DEF EchoInv, ClipKnown, ByClient
  <1>2. EchoInv => EchoNeedsRestart
    BY DEF EchoInv, EchoNeedsRestart
  <1>3. QED
    BY <1>1, <1>2, InitType, TypeStep, EchoStep, PTL DEF Spec

-----------------------------------------------------------------------------
(* The watcher echoes only after a race *)

Reading(k) == poll[k].at = "read"
Unraced(k) == poll[k].at = "read" /\ ~poll[k].raced
NoWrites   == \A x \in Texts : ~(writing[x] > 0)

\* The clipboard of the client holds c, unless its user has copied a text since.
Holds(c) == clip["cli"] = c \/ clip["cli"].by = "user"

\* Likewise for its text alone.
HoldsText(t) == clip["cli"].by = "user" \/ clip["cli"].text = t

\* While a poll is not overlapped it is alone, and what it has read is still there.
AloneInv ==
  \A k \in Polls : Unraced(k) =>
    /\ watch = "on" /\ NoWrites /\ Holds(poll[k].read)
    /\ \A j \in Polls : Reading(j) => j = k

\* With no race to account for and no change to suppress, no write is under way, and
\* whatever is about to become latest is what the clipboard holds of the client's texts.
QuietInv ==
  ~suppressNext /\ races = 0 =>
    /\ NoWrites
    /\ watch = "on" => HoldsText(latest)
    /\ watch = "starting" => HoldsText(firstRead)
    /\ \A k \in Polls : Reading(k) /\ poll[k].read.by = "client" => HoldsText(poll[k].read.text)
    /\ \A k \in Polls : Unraced(k) /\ poll[k].read.by = "client" => poll[k].read.text = latest

RaceInv == races >= 0 /\ AloneInv /\ QuietInv

\* What does not touch the watcher and its clipboard.
LEMMA RaceKept ==
  ASSUME RaceInv, UNCHANGED <<watcherVars, races>>, clip'["cli"] = clip["cli"] \/ clip'["cli"].by = "user"
  PROVE  RaceInv'
  <1>1. AloneInv'
    BY DEF RaceInv, AloneInv, Unraced, Reading, NoWrites, Holds, watcherVars
  <1>2. QuietInv'
    BY DEF RaceInv, QuietInv, Unraced, Reading, NoWrites, HoldsText, watcherVars
  <1>3. QED
    BY <1>1, <1>2 DEF RaceInv

\* Once every poll under way is overlapped none is alone.
LEMMA NoneUnraced ==
  ASSUME TypeInv, poll' = Overlapped
  PROVE  /\ \A k \in Polls : ~Unraced(k)'
         /\ \A k \in Polls : Reading(k)' = Reading(k) /\ poll'[k].read = poll[k].read
  BY OverlappedPolls DEF Unraced, Reading

\* A poll that ends is not reading, and the others are as they were.
LEMMA EndedReading ==
  ASSUME TypeInv, NEW k \in Polls,
         poll' = [poll EXCEPT ![k] = Idle] \/ poll' = [poll EXCEPT ![k].at = "sending"]
  PROVE  /\ ~Reading(k)' /\ ~Unraced(k)'
         /\ \A j \in Polls : j # k => poll'[j] = poll[j]
         /\ \A j \in Polls : Reading(j)' => Reading(j) /\ j # k /\ poll'[j].read = poll[j].read
         /\ \A j \in Polls : Unraced(j)' => Unraced(j) /\ j # k /\ poll'[j].read = poll[j].read
  <1>1. /\ poll'[k].at # "read"
        /\ \A j \in Polls : j # k => poll'[j] = poll[j]
    BY IdleType DEF TypeInv, WatcherOK, Call
  <1>2. QED
    BY <1>1 DEF Reading, Unraced

LEMMA StartStopRace ==
  ASSUME TypeInv, RaceInv, WatchStarts \/ WatchStarted \/ WatchStops \/ CliRestarts
  PROVE  RaceInv'
  <1>1. CASE WatchStarts
    <2>1. /\ UNCHANGED <<clip, latest, suppressNext, poll, writing, races>>
          /\ watch = "off" /\ watch' = "starting" /\ firstRead' = clip["cli"].text
      BY <1>1 DEF WatchStarts, countVars
    <2>2. AloneInv'
      BY <2>1 DEF RaceInv, AloneInv, Unraced, Reading, NoWrites, Holds
    <2>3. QuietInv'
      BY <2>1 DEF RaceInv, QuietInv, Unraced, Reading, NoWrites, HoldsText
    <2>4. QED
      BY <2>1, <2>2, <2>3 DEF RaceInv
  <1>2. CASE WatchStarted
    <2>1. /\ UNCHANGED <<clip, suppressNext, poll, writing, races>> /\ watch = "starting" /\ watch' = "on"
          /\ latest' = firstRead
      BY <1>2 DEF WatchStarted, countVars
    <2>2. AloneInv' /\ \A k \in Polls : ~Unraced(k)'
      BY <2>1 DEF RaceInv, AloneInv, Unraced, Reading, NoWrites, Holds
    <2>3. QuietInv'
      BY <2>1, <2>2 DEF RaceInv, QuietInv, Unraced, Reading, NoWrites, HoldsText
    <2>4. QED
      BY <2>1, <2>2, <2>3 DEF RaceInv
  <1>3. CASE WatchStops
    <2>1. UNCHANGED <<clip, latest, suppressNext, writing, races>> /\ watch' = "off" /\ poll' = Overlapped
      BY <1>3 DEF WatchStops
    <2>2. AloneInv'
      BY <2>1, NoneUnraced DEF AloneInv
    <2>3. QuietInv'
      BY <2>1, NoneUnraced DEF RaceInv, QuietInv, NoWrites, HoldsText
    <2>4. QED
      BY <2>1, <2>2, <2>3 DEF RaceInv
  \* A write that outlives the process is accounted for.
  <1>4. CASE CliRestarts
    <2>1. /\ poll' = [k \in Polls |-> Idle] /\ watch' = "off" /\ writing' = writing
          /\ races' = races + (IF ~NoWrites THEN 1 ELSE 0)
      BY <1>4 DEF CliRestarts, NoWrites
    <2>2. \A k \in Polls : ~Reading(k)' /\ ~Unraced(k)'
      BY <2>1, IdleType DEF Reading, Unraced
    <2>3. AloneInv'
      BY <2>2 DEF AloneInv
    <2>4. races \in Int /\ races >= 0
      BY DEF RaceInv, TypeInv, WatcherOK
    <2>5. races' >= 0 /\ (races' = 0 => NoWrites')
      BY <2>1, <2>4 DEF NoWrites
    <2>6. QuietInv'
      BY <2>1, <2>2, <2>5 DEF QuietInv
    <2>7. QED
      BY <2>3, <2>5, <2>6 DEF RaceInv
  <1>5. QED
    BY <1>1, <1>2, <1>3, <1>4

LEMMA ReadRace ==
  ASSUME TypeInv, RaceInv, NEW k \in Polls, PollReads(k)
  PROVE  RaceInv'
  <1>1. UNCHANGED <<clip, watch, latest, suppressNext, firstRead, writing, races>> /\ watch = "on"
    BY DEF PollReads, countVars
  <1>2. /\ poll'[k].at = "read" /\ poll'[k].read = clip["cli"] /\ poll'[k].raced = Disturbed
        /\ \A j \in Polls : j # k => poll'[j] = Overlapped[j]
    BY ReadPoll
  <1>3. \A j \in Polls : j # k => ~Unraced(j)' /\ (Reading(j)' => Reading(j)) /\ poll'[j].read = poll[j].read
    BY <1>2, OverlappedPolls DEF Unraced, Reading
  <1>4. Unraced(k)' => NoWrites /\ \A j \in Polls : ~Reading(j)
    BY <1>2 DEF Unraced, Disturbed, NoWrites, Reading
  <1>5. AloneInv'
    <2> SUFFICES ASSUME NEW j \in Polls, Unraced(j)'
                 PROVE  /\ watch' = "on" /\ NoWrites' /\ Holds(poll[j].read)'
                        /\ \A i \in Polls : Reading(i)' => i = j
      BY DEF AloneInv
    <2>1. j = k
      BY <1>3
    <2>2. QED
      BY <1>1, <1>2, <1>3, <1>4, <2>1 DEF NoWrites, Holds
  <1>6. QuietInv'
    <2> SUFFICES ASSUME ~suppressNext, races = 0 PROVE QuietInv'
      BY <1>1 DEF QuietInv
    <2>1. /\ NoWrites'
          /\ watch' = "on" => HoldsText(latest)'
          /\ watch' = "starting" => HoldsText(firstRead)'
      BY <1>1 DEF RaceInv, QuietInv, NoWrites, HoldsText
    <2>2. \A j \in Polls : Reading(j)' /\ poll'[j].read.by = "client" => HoldsText(poll[j].read.text)'
      BY <1>1, <1>2, <1>3 DEF RaceInv, QuietInv, HoldsText
    <2>3. \A j \in Polls : Unraced(j)' /\ poll'[j].read.by = "client" => poll'[j].read.text = latest'
      BY <1>1, <1>2, <1>3 DEF RaceInv, QuietInv, HoldsText
    <2>4. QED
      BY <2>1, <2>2, <2>3 DEF QuietInv
  <1>7. QED
    BY <1>1, <1>5, <1>6 DEF RaceInv

\* A poll that is done, with what it has found nothing new or not read at all.
LEMMA DoneRace ==
  ASSUME TypeInv, RaceInv, NEW k \in Polls, poll' = [poll EXCEPT ![k] = Idle],
         UNCHANGED <<clip, watch, latest, suppressNext, firstRead, writing, races>>
  PROVE  RaceInv'
  <1>1. AloneInv'
    BY EndedReading DEF RaceInv, AloneInv, NoWrites, Holds
  <1>2. QuietInv'
    <2>1. /\ \A j \in Polls : Reading(j)' => Reading(j) /\ poll'[j].read = poll[j].read
          /\ \A j \in Polls : Unraced(j)' => Unraced(j) /\ poll'[j].read = poll[j].read
      BY EndedReading
    <2>2. QED
      BY <2>1 DEF RaceInv, QuietInv, NoWrites, HoldsText
  <1>3. QED
    BY <1>1, <1>2 DEF RaceInv

LEMMA HandleRace ==
  ASSUME TypeInv, RaceInv, NEW k \in Polls, PollHandles(k)
  PROVE  RaceInv'
  <1> DEFINE next == poll[k].read
             race == IF poll[k].raced THEN 1 ELSE 0
  <1>1. /\ UNCHANGED <<clip, watch, firstRead, writing>> /\ latest' = next.text /\ Reading(k)
        /\ races \in Int /\ races >= 0 /\ next.by \in {"user", "client"} /\ poll[k].raced \in BOOLEAN
    BY DEF PollHandles, Reading, TypeInv, WatcherOK, Call, Entry, RaceInv
  <1>2. CASE next.text = latest /\ PollEnds(k) /\ UNCHANGED <<suppressNext, races>>
    BY <1>1, <1>2, DoneRace DEF PollEnds
  <1>3. ASSUME poll' = [poll EXCEPT ![k] = Idle] \/ poll' = [poll EXCEPT ![k].at = "sending"]
        PROVE  AloneInv'
    BY <1>1, <1>3, EndedReading DEF RaceInv, AloneInv, NoWrites, Holds
  \* An unraced poll leaves nothing behind that could be sent back.
  <1>4. ASSUME Unraced(k),
               poll' = [poll EXCEPT ![k] = Idle] \/ poll' = [poll EXCEPT ![k].at = "sending"]
        PROVE  QuietInv'
    <2>1. /\ watch = "on" /\ NoWrites /\ Holds(poll[k].read)
          /\ \A j \in Polls : Reading(j) => j = k
      <3>1. AloneInv
        BY DEF RaceInv
      <3>2. QED
        BY <1>4, <3>1, Zenon DEF AloneInv
    <2>2. \A j \in Polls : ~Reading(j)' /\ ~Unraced(j)'
      <3>1. /\ \A j \in Polls : Reading(j)' => Reading(j) /\ j # k
            /\ \A j \in Polls : Unraced(j)' => Reading(j)'
        BY <1>4, EndedReading DEF Unraced, Reading
      <3>2. QED
        BY <2>1, <3>1
    <2>3. NoWrites' /\ HoldsText(latest)' /\ watch' = "on"
      BY <1>1, <2>1 DEF NoWrites, Holds, HoldsText
    <2>4. QED
      BY <2>2, <2>3 DEF QuietInv
  <1>5. CASE /\ poll' = [poll EXCEPT ![k] = Idle] /\ races' = races + race
    <2>1. races' >= 0
      BY <1>1, <1>5
    <2>2. CASE Unraced(k)
      BY <1>3, <1>4, <1>5, <2>1, <2>2 DEF RaceInv
    <2>3. CASE ~Unraced(k)
      <3>1. races' > 0
        BY <1>1, <1>5, <2>3 DEF Unraced, Reading
      <3>2. QED
        BY <1>3, <1>5, <2>1, <3>1 DEF RaceInv, QuietInv
    <2>4. QED
      BY <2>2, <2>3
  <1>6. CASE /\ next.text # latest /\ ~suppressNext /\ suppressNext' = suppressNext
             /\ poll' = [poll EXCEPT ![k].at = "sending"]
             /\ races' = races + race - (IF next.by = "client" THEN 1 ELSE 0)
    <2>1. CASE Unraced(k)
      <3>1. race = 0
        BY <2>1 DEF Unraced
      <3>2. races = 0 => next.by # "client"
        BY <1>6, <2>1 DEF RaceInv, QuietInv
      <3>3. races' >= 0
        BY <1>1, <1>6, <3>1, <3>2
      <3>4. QED
        BY <1>3, <1>4, <1>6, <2>1, <3>3 DEF RaceInv
    <2>2. CASE ~Unraced(k)
      <3>1. race = 1
        BY <1>1, <2>2 DEF Unraced, Reading
      <3>2. CASE next.by = "user"
        <4>1. races' > 0 /\ races' >= 0
          BY <1>1, <1>6, <3>1, <3>2
        <4>2. QED
          BY <1>3, <1>6, <4>1 DEF RaceInv, QuietInv
      <3>3. CASE next.by = "client"
        <4>1. races' = races
          BY <1>1, <1>6, <3>1, <3>3
        <4>2. QuietInv'
          <5> SUFFICES ASSUME races = 0 PROVE QuietInv'
            BY <4>1 DEF QuietInv
          <5>1. /\ NoWrites /\ HoldsText(next.text)
                /\ watch = "starting" => HoldsText(firstRead)
                /\ \A j \in Polls : Reading(j) /\ poll[j].read.by = "client" => HoldsText(poll[j].read.text)
            BY <1>1, <1>6, <3>3 DEF RaceInv, QuietInv
          <5>2. \A j \in Polls : ~Unraced(j)'
            BY <1>1, <1>6, EndedReading DEF RaceInv, AloneInv
          <5>3. \A j \in Polls : Reading(j)' => Reading(j) /\ poll'[j].read = poll[j].read
            BY <1>6, EndedReading
          <5>4. QED
            BY <1>1, <5>1, <5>2, <5>3 DEF QuietInv, NoWrites, HoldsText
        <4>3. QED
          BY <1>1, <1>3, <1>6, <4>1, <4>2 DEF RaceInv
      <3>4. QED
        BY <1>1, <3>2, <3>3
    <2>3. QED
      BY <2>1, <2>2
  <1>7. QED
    BY <1>2, <1>5, <1>6 DEF PollHandles, PollEnds

LEMMA WriteRace ==
  ASSUME TypeInv, RaceInv, CliReceives \/ \E x \in Texts : WriteEnds(x)
  PROVE  RaceInv'
  <1>1. CASE CliReceives
    <2>1. suppressNext' = TRUE /\ poll' = Overlapped /\ races' = races
      BY <1>1 DEF CliReceives, WriteText
    <2>2. QED
      BY <2>1, NoneUnraced DEF RaceInv, AloneInv, QuietInv
  <1>2. ASSUME NEW x \in Texts, WriteEnds(x)
        PROVE  RaceInv'
    <2>1. writing[x] > 0 /\ UNCHANGED <<suppressNext, races, poll>>
      BY <1>2 DEF WriteEnds, countVars
    <2>2. ~NoWrites
      BY <2>1 DEF NoWrites
    <2>3. AloneInv'
      BY <2>1, <2>2 DEF RaceInv, AloneInv, Unraced
    <2>4. QuietInv'
      BY <2>1, <2>2 DEF RaceInv, QuietInv
    <2>5. QED
      BY <2>1, <2>3, <2>4 DEF RaceInv
  <1>3. QED
    BY <1>1, <1>2

LEMMA RaceStep == TypeInv /\ RaceInv /\ [Next]_vars => RaceInv'
  <1> SUFFICES ASSUME TypeInv, RaceInv, [Next]_vars PROVE RaceInv'
    OBVIOUS
  <1>1. clip \in [Ends -> Content]
    BY DEF TypeInv, SharedOK
  <1>2. ASSUME NEW e \in Ends, NEW x \in Texts, Copy(e, x)
        PROVE  RaceInv'
    <2>1. clip'["cli"] = clip["cli"] \/ clip'["cli"].by = "user"
      BY <1>1, <1>2, BothEnds DEF Copy
    <2>2. QED
      BY <1>2, <2>1, RaceKept DEF Copy
  <1>3. ASSUME NEW k \in Polls, PollFails(k) \/ SendEnds(k)
        PROVE  RaceInv'
    <2>1. /\ poll' = [poll EXCEPT ![k] = Idle]
          /\ UNCHANGED <<clip, watch, latest, suppressNext, firstRead, writing, races>>
      BY <1>3 DEF PollFails, SendEnds, PollEnds, countVars
    <2>2. QED
      BY <2>1, DoneRace
  <1>4. ToggleSync \/ PageReceives \/ ShellReads \/ UNCHANGED vars => RaceInv'
    BY RaceKept DEF ToggleSync, PageReceives, ShellReads, vars, countVars
  <1>5. ShellWrites => RaceInv'
    <2>1. ShellWrites => ShellWrote \/ clip' = clip
      BY DEF ShellWrites, ShellWrote
    <2>2. QED
      BY <2>1, ShellWritten, RaceKept DEF ShellWrites, countVars
  <1>6. PageWritten \/ PageHandles \/ PageRestarts => RaceInv'
    BY RaceKept DEF PageWritten, PageHandles, PageRestarts
  <1>7. QED
    BY <1>2, <1>3, <1>4, <1>5, <1>6, StartStopRace, ReadRace, HandleRace, WriteRace DEF Next

\* The watcher sends a text it has written itself at most once for each poll that
\* overlapped a write, a stop or another poll, and each end of its process in a write.
THEOREM RaceCorrect == Spec => []EchoNeedsOverlap
  <1>1. Init => RaceInv
    <2> SUFFICES ASSUME Init PROVE RaceInv
      OBVIOUS
    <2>1. poll = [k \in Polls |-> Idle] /\ writing = [x \in Texts |-> 0] /\ races = 0 /\ watch = "off"
      BY DEF Init
    <2>2. \A k \in Polls : ~Reading(k) /\ ~Unraced(k)
      BY <2>1, IdleType DEF Reading, Unraced
    <2>3. NoWrites
      BY <2>1 DEF NoWrites
    <2>4. clip["cli"].by = "user"
      BY BothEnds DEF Init
    <2>5. QED
      BY <2>1, <2>2, <2>3, <2>4 DEF RaceInv, AloneInv, QuietInv, HoldsText
  <1>2. RaceInv => EchoNeedsOverlap
    BY DEF RaceInv, EchoNeedsOverlap
  <1>3. QED
    BY <1>1, <1>2, InitType, TypeStep, RaceStep, PTL DEF Spec
=============================================================================
