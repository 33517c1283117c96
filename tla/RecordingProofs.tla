--------------------------- MODULE RecordingProofs ---------------------------
(***************************************************************************)
(* What is proved of Recording for every capacity of the queue, every      *)
(* length of a fight and every number of recordings: its typing, that the  *)
(* game is given back, that no recording reads another's messages, that a  *)
(* video stays in step with its recording, that an answer tells what was   *)
(* left at the paths and that a published recording is the whole fight.    *)
(***************************************************************************)
EXTENDS Recording, SequenceTheorems, TLAPS

Released == ~ armed /\ ~ fast /\ ~ camera /\ pending = NoMessage

(* What was pushed and not yet written.                                    *)
Queued == {queue[i] : i \in 1..Len(queue)} \cup {peeked}

(* Nothing is captured that was not asked for.                             *)
Begun == armed \/ worker # "idle" => recordings # 0

(* Only a video leaves a tick pending, and a video is not sped up.         *)
OnScreen ==
  /\ pending # NoMessage => camera /\ pending.of = recordings
  /\ ~ (fast /\ camera)

(* The terminal tick of a fight gives the game back as it is pushed.       *)
LastReleases ==
  /\ terminalSeen => Released
  /\ \A m \in Ticks \cap Queued : m.last => Released

(* How a recording can reach its end: by the terminal tick, by the end of  *)
(* a replay's thread, or by failing.                                       *)
WaysOut ==
  /\ worker # "idle" /\ ~ Replayed => fight = "none"
  /\ worker = "recheck" => Replayed
  /\ worker \in {"video", "mcfr"} => Replayed \/ terminalSeen
  /\ worker = "abort" => drained = "failed"
  /\ worker = "join" => drained = "failed" \/ Replayed \/ terminalSeen

(* What is queued while a recording is drained is its own.                 *)
Own == worker # "idle" => \A m \in Queued : m # NoMessage => m.of = recordings

(* The tick that is pending is the game's until it is pushed, so what is   *)
(* rendered meanwhile is that tick.                                        *)
InStep ==
  /\ worker \in {"idle", "stop"} => fight # "running"
  /\ armed => (camera <=> op.video)
  /\ armed /\ pending # NoMessage =>
       pending.n = tick /\ (rendered => shown = tick)
  /\ worker # "idle" /\ op.video =>
       \A m \in Ticks \cap Queued : m.frame = m.n
  /\ op.video => frames = wrote
  /\ mov # NoFile =>
       mov = frames /\ worker \notin {"drain", "empty", "recheck", "video"}

Typed == RecTypeOK /\ Begun
RecInv ==
  /\ Typed
  /\ OnScreen
  /\ LastReleases
  /\ WaysOut
  /\ GivenBack
  /\ Own
  /\ InStep

-----------------------------------------------------------------------------
(* What the queue's operations do to what is queued.                       *)

LEMMA PlainIsMessage ==
  ASSUME RecTypeOK, recordings # 0,
         NEW k \in {"initial", "settlement", "failure"}
  PROVE  Plain(k) \in Messages \ Ticks /\ Plain(k).of = recordings
PROOF
  BY RecordingAssumption DEF RecordingAssumption, RecTypeOK, WorkerTypeOK,
                             Plain, Messages, Ticks

LEMMA AppendHolds ==
  ASSUME RecTypeOK, NEW m \in Messages, HasRoom,
         queue' = Append(queue, m), peeked' = peeked
  PROVE  /\ queue' \in Seq(Messages) /\ Len(queue') <= QUEUE_CAPACITY
         /\ Queued' = Queued \cup {m}
PROOF
  <1>1. /\ queue' \in Seq(Messages)
        /\ Len(queue') = Len(queue) + 1
        /\ queue'[Len(queue) + 1] = m
        /\ \A i \in 1..Len(queue) : queue'[i] = queue[i]
    BY AppendProperties DEF RecTypeOK, CaptureTypeOK
  <1>2. Len(queue) \in Nat /\ QUEUE_CAPACITY \in Nat
    BY LenProperties, RecordingAssumption
       DEF RecTypeOK, CaptureTypeOK, RecordingAssumption
  <1>3. Queued' = Queued \cup {m}
    BY <1>1, <1>2 DEF Queued
  <1> QED
    BY <1>1, <1>2, <1>3 DEF HasRoom

LEMMA PushHolds ==
  ASSUME RecTypeOK, NEW m \in Messages, NEW stays \in BOOLEAN,
         PushKeeping(m, stays), peeked' = peeked
  PROVE  /\ queue' \in Seq(Messages) /\ Len(queue') <= QUEUE_CAPACITY
         /\ armed' \in BOOLEAN /\ lost' \in BOOLEAN
         /\ armed' => stays
         /\ Queued' = IF HasRoom THEN Queued \cup {m} ELSE Queued
PROOF
  <1>1. CASE HasRoom
    BY <1>1, AppendHolds DEF PushKeeping, RecTypeOK, CaptureTypeOK
  <1>2. CASE ~ HasRoom
    BY <1>2 DEF PushKeeping, RecTypeOK, CaptureTypeOK, Queued
  <1> QED
    BY <1>1, <1>2

LEMMA FailHolds ==
  ASSUME RecTypeOK, recordings # 0, Fail, peeked' = peeked
  PROVE  /\ queue' \in Seq(Messages) /\ Len(queue') <= QUEUE_CAPACITY
         /\ armed' = FALSE /\ lost' \in BOOLEAN
         /\ Queued' \subseteq Queued \cup {Plain("failure")}
PROOF
  <1>1. CASE HasRoom
    BY <1>1, PlainIsMessage, AppendHolds DEF Fail, RecTypeOK, CaptureTypeOK
  <1>2. CASE ~ HasRoom
    BY <1>2 DEF Fail, RecTypeOK, CaptureTypeOK, Queued
  <1> QED
    BY <1>1, <1>2

LEMMA TailHolds ==
  ASSUME RecTypeOK, queue # <<>>, queue' = Tail(queue)
  PROVE  /\ queue' \in Seq(Messages) /\ Len(queue') <= QUEUE_CAPACITY
         /\ Head(queue) \in Messages /\ Head(queue) \in Queued
         /\ {queue'[i] : i \in 1..Len(queue')} \subseteq Queued
PROOF
  <1>1. /\ Head(queue) \in Messages
        /\ Tail(queue) \in Seq(Messages)
        /\ Len(Tail(queue)) = Len(queue) - 1
        /\ \A i \in 1..Len(Tail(queue)) : Tail(queue)[i] = queue[i + 1]
    BY HeadTailProperties DEF RecTypeOK, CaptureTypeOK
  <1>2. Len(queue) \in Nat \ {0} /\ QUEUE_CAPACITY \in Nat
    BY LenProperties, EmptySeq, RecordingAssumption
       DEF RecTypeOK, CaptureTypeOK, RecordingAssumption
  <1>3. Head(queue) = queue[1]
    OBVIOUS
  <1>4. Head(queue) \in Queued
    BY <1>2, <1>3 DEF Queued
  <1>5. {queue'[i] : i \in 1..Len(queue')} \subseteq Queued
    BY <1>1, <1>2 DEF Queued
  <1> QED
    BY <1>1, <1>2, <1>4, <1>5 DEF RecTypeOK, CaptureTypeOK

(* What the drain reads is a message of the queue, and leaves it.          *)
LEMMA ReadsHolds ==
  ASSUME RecTypeOK, Reads
  PROVE  /\ queue' \in Seq(Messages) /\ Len(queue') <= QUEUE_CAPACITY
         /\ peeked' = NoMessage
         /\ Front \in Messages /\ Front \in Queued
         /\ Queued' \subseteq Queued \cup {NoMessage}
PROOF
  <1>1. CASE peeked # NoMessage
    BY <1>1 DEF RecTypeOK, CaptureTypeOK, WorkerTypeOK, Reads, Front, Queued
  <1>2. CASE peeked = NoMessage
    <2>1. queue # <<>> /\ queue' = Tail(queue) /\ peeked' = NoMessage
      BY <1>2 DEF Reads
    <2>2. Front = Head(queue)
      BY <1>2 DEF Front
    <2> QED
      BY <2>1, <2>2, TailHolds DEF Queued
  <1> QED
    BY <1>1, <1>2

-----------------------------------------------------------------------------
(* The types are kept by the hooks, which write CaptureState and, of the   *)
(* game, the tick, the time scale and the camera.                          *)

LEMMA WorkerStands ==
  ASSUME WorkerTypeOK, UNCHANGED <<drainVars, workVars, fileVars, flagVars>>
  PROVE  WorkerTypeOK' /\ peeked' = peeked /\ worker' = worker
         /\ recordings' = recordings
PROOF
  BY DEF WorkerTypeOK, drainVars, workVars, fileVars, flagVars

LEMMA InitializeTyped ==
  ASSUME Typed, recordings # 0, NEW b \in BOOLEAN, Initialize(b),
         peeked' = peeked, UNCHANGED visualVars
  PROVE  CaptureTypeOK'
PROOF
  <1>1. /\ queue' \in Seq(Messages) /\ Len(queue') <= QUEUE_CAPACITY
        /\ armed' \in BOOLEAN /\ lost' \in BOOLEAN
    BY PushHolds, PlainIsMessage DEF Typed, Initialize, Push
  <1> QED
    BY <1>1 DEF Typed, RecTypeOK, CaptureTypeOK, GameTypeOK, Initialize,
                visualVars

LEMMA FailTyped ==
  ASSUME Typed, recordings # 0, Fail, peeked' = peeked, UNCHANGED hookVars,
         pending' = pending, rendered' \in BOOLEAN
  PROVE  CaptureTypeOK'
PROOF
  <1>1. /\ queue' \in Seq(Messages) /\ Len(queue') <= QUEUE_CAPACITY
        /\ armed' \in BOOLEAN /\ lost' \in BOOLEAN
    BY FailHolds DEF Typed
  <1> QED
    BY <1>1 DEF Typed, RecTypeOK, CaptureTypeOK, hookVars

LEMMA FlushTyped ==
  ASSUME Typed, pending # NoMessage, Flush, peeked' = peeked,
         UNCHANGED hookVars
  PROVE  CaptureTypeOK' /\ camera' \in BOOLEAN
PROOF
  <1>1. pending \in Ticks /\ shown \in 0..MaxTick
    BY DEF Typed, RecTypeOK, CaptureTypeOK, GameTypeOK
  <1>2. [pending EXCEPT !.frame = shown] \in Messages
    BY <1>1 DEF Ticks, Messages
  <1>3. pending.last \in BOOLEAN
    BY <1>1 DEF Ticks
  <1>4. /\ queue' \in Seq(Messages) /\ Len(queue') <= QUEUE_CAPACITY
        /\ armed' \in BOOLEAN /\ lost' \in BOOLEAN
    BY <1>2, <1>3, PushHolds DEF Typed, Flush
  <1> QED
    BY <1>3, <1>4 DEF Typed, RecTypeOK, CaptureTypeOK, GameTypeOK, Flush,
                      hookVars

LEMMA SampleTyped ==
  ASSUME Typed, recordings # 0, Sample, peeked' = peeked,
         UNCHANGED <<initialized, awaiting>>
  PROVE  CaptureTypeOK' /\ fast' \in BOOLEAN
PROOF
  <1> DEFINE last == entered /\ stage # "fighting"
             m == Transition(tick, last, NoFrame)
  <1>1. last \in BOOLEAN /\ m \in Ticks
    BY RecordingAssumption
       DEF RecordingAssumption, Typed, RecTypeOK, GameTypeOK, CaptureTypeOK,
           WorkerTypeOK, Transition, Ticks, NoFrame
  <1>2. m \in Messages
    BY <1>1 DEF Messages
  <1>3. lastTick' = tick /\ entered' = (entered \/ stage = "fighting")
    BY DEF Sample
  <1>4. lastTick' \in 0..MaxTick /\ entered' \in BOOLEAN
    BY <1>3 DEF Typed, RecTypeOK, GameTypeOK, CaptureTypeOK
  <1>5. CASE camera
    BY <1>1, <1>4, <1>5
       DEF Sample, Typed, RecTypeOK, GameTypeOK, CaptureTypeOK, queueVars
  <1>6. CASE ~ camera
    <2>1. PushKeeping(m, ~ last) /\ fast' \in BOOLEAN /\ UNCHANGED visualVars
      BY <1>6 DEF Sample, Typed, RecTypeOK, GameTypeOK
    <2> HIDE DEF m, last
    <2>2. /\ queue' \in Seq(Messages) /\ Len(queue') <= QUEUE_CAPACITY
          /\ armed' \in BOOLEAN /\ lost' \in BOOLEAN
      BY <1>1, <1>2, <2>1, PushHolds DEF Typed
    <2> QED
      BY <1>4, <2>1, <2>2 DEF Typed, RecTypeOK, CaptureTypeOK, visualVars
  <1> QED
    BY <1>5, <1>6

LEMMA CaptureStands ==
  ASSUME CaptureTypeOK, UNCHANGED <<queueVars, hookVars, visualVars>>
  PROVE  CaptureTypeOK'
PROOF
  BY DEF CaptureTypeOK, queueVars, hookVars, visualVars

LEMMA GameStands ==
  ASSUME GameTypeOK, UNCHANGED <<gameVars, screenVars>>
  PROVE  GameTypeOK'
PROOF
  BY DEF GameTypeOK, gameVars, screenVars

LEMMA HooksLeaveWorker ==
  ASSUME WorkerTypeOK, Hooks
  PROVE  WorkerTypeOK' /\ peeked' = peeked /\ worker' = worker
         /\ recordings' = recordings
PROOF
  BY WorkerStands DEF Hooks, FinishDeploy, UpdateBegin, UpdateEnd, Settle,
                      PostRender, MatchUpdate

LEMMA HooksTyped ==
  ASSUME Typed, Hooks
  PROVE  GameTypeOK' /\ CaptureTypeOK'
PROOF
  <1> USE DEF Typed, RecTypeOK, Begun
  <1>0. peeked' = peeked
    BY HooksLeaveWorker
  <1>1. CASE FinishDeploy
    <2>1. GameTypeOK'
      BY <1>1 DEF FinishDeploy, GameTypeOK, screenVars
    <2>2. CaptureTypeOK'
      BY <1>0, <1>1, InitializeTyped, FailTyped, CaptureStands
         DEF FinishDeploy, visualVars, CaptureTypeOK
    <2> QED
      BY <2>1, <2>2
  <1>2. CASE UpdateBegin
    <2>1. CaptureTypeOK' /\ camera' \in BOOLEAN
      <3>1. CASE Flush /\ pending # NoMessage /\ UNCHANGED hookVars
        BY <1>0, <3>1, FlushTyped
      <3>2. CASE armed /\ FlushFails /\ UNCHANGED hookVars
        BY <1>0, <3>2, FailTyped DEF FlushFails, GameTypeOK
      <3>3. CASE /\ armed /\ UNCHANGED <<camera, visualVars>>
                 /\ Initialize(FALSE) \/ (Fail /\ UNCHANGED hookVars)
        BY <1>0, <3>3, InitializeTyped, FailTyped
           DEF GameTypeOK, CaptureTypeOK, visualVars
      <3>4. CASE UNCHANGED <<queueVars, hookVars, camera, visualVars>>
        BY <3>4, CaptureStands DEF GameTypeOK
      <3> QED
        BY <1>2, <3>1, <3>2, <3>3, <3>4 DEF UpdateBegin
    <2>2. tick' \in 0..MaxTick
      BY <1>2, RecordingAssumption
         DEF RecordingAssumption, UpdateBegin, GameTypeOK
    <2>3. GameTypeOK'
      BY <1>2, <2>1, <2>2 DEF UpdateBegin, GameTypeOK
    <2> QED
      BY <2>1, <2>3
  <1>3. CASE UpdateEnd
    <2>1. CaptureTypeOK' /\ fast' \in BOOLEAN
      <3>1. CASE UNCHANGED <<queueVars, hookVars, visualVars, fast>>
        BY <3>1, CaptureStands DEF GameTypeOK
      <3>2. CASE armed /\ Fail /\ UNCHANGED <<hookVars, visualVars, fast>>
        BY <1>0, <3>2, FailTyped DEF visualVars, GameTypeOK, CaptureTypeOK
      <3>3. CASE armed /\ Initialize(TRUE) /\ UNCHANGED <<visualVars, fast>>
        BY <1>0, <3>3, InitializeTyped DEF GameTypeOK
      <3>4. CASE /\ entered' \in BOOLEAN /\ lastTick' \in 0..MaxTick
                 /\ UNCHANGED <<initialized, awaiting, queueVars, visualVars,
                                fast>>
        BY <3>4 DEF CaptureTypeOK, GameTypeOK, queueVars, visualVars
      <3>5. CASE armed /\ Sample /\ UNCHANGED <<initialized, awaiting>>
        BY <1>0, <3>5, SampleTyped
      <3>6. /\ (entered \/ stage = "fighting") \in BOOLEAN
            /\ entered \in BOOLEAN
            /\ tick \in 0..MaxTick /\ lastTick \in 0..MaxTick
        BY DEF CaptureTypeOK, GameTypeOK
      <3> QED
        BY <1>3, <3>1, <3>2, <3>3, <3>4, <3>5, <3>6 DEF UpdateEnd
    <2>2. GameTypeOK'
      BY <1>3, <2>1 DEF UpdateEnd, GameTypeOK
    <2> QED
      BY <2>1, <2>2
  <1>4. CASE Settle
    <2>1. GameTypeOK'
      BY <1>4 DEF Settle, GameTypeOK, screenVars
    <2>2. CASE armed /\ Push(Plain("settlement"))
      <3>1. /\ queue' \in Seq(Messages) /\ Len(queue') <= QUEUE_CAPACITY
            /\ armed' \in BOOLEAN /\ lost' \in BOOLEAN
        BY <1>0, <2>2, PushHolds, PlainIsMessage DEF Push
      <3>2. UNCHANGED <<hookVars, visualVars>>
        BY <1>4 DEF Settle
      <3> QED
        BY <2>1, <3>1, <3>2 DEF CaptureTypeOK, hookVars, visualVars
    <2>3. CASE armed /\ Fail
      BY <1>0, <1>4, <2>1, <2>3, FailTyped
         DEF Settle, visualVars, CaptureTypeOK
    <2>4. CASE UNCHANGED queueVars
      BY <1>4, <2>1, <2>4, CaptureStands DEF Settle
    <2> QED
      BY <1>4, <2>1, <2>2, <2>3, <2>4 DEF Settle
  <1>5. CASE PostRender
    <2>1. GameTypeOK'
      BY <1>5 DEF PostRender, GameTypeOK, gameVars
    <2>2. CaptureTypeOK'
      BY <1>5 DEF PostRender, CaptureTypeOK, hookVars, queueVars
    <2> QED
      BY <2>1, <2>2
  <1>6. CASE MatchUpdate
    <2>1. CaptureTypeOK' /\ camera' \in BOOLEAN
      <3>1. CASE Flush
        BY <1>0, <1>6, <3>1, FlushTyped DEF MatchUpdate
      <3>2. CASE FlushFails
        BY <1>0, <1>6, <3>2, FailTyped DEF MatchUpdate, FlushFails, GameTypeOK
      <3> QED
        BY <1>6, <3>1, <3>2 DEF MatchUpdate
    <2>2. GameTypeOK'
      BY <1>6, <2>1 DEF MatchUpdate, GameTypeOK, gameVars
    <2> QED
      BY <2>1, <2>2
  <1> QED
    BY <1>1, <1>2, <1>3, <1>4, <1>5, <1>6 DEF Hooks

-----------------------------------------------------------------------------
(* The game keeps them, and so does the worker.                            *)

LEMMA GameMovesTyped ==
  ASSUME RecTypeOK, Game
  PROVE  /\ RecTypeOK'
         /\ UNCHANGED <<armed, worker, recordings>>
PROOF
  <1> USE DEF RecTypeOK
  <1>1. UNCHANGED <<screenVars, hookVars, visualVars, queueVars, drainVars,
                    workVars, fileVars, flagVars>>
    BY DEF Game, EnterFight, NextRound, FightReturns, LeaveMatch
  <1>2. GameTypeOK'
    <2>1. CASE EnterFight
      BY <1>1, <2>1 DEF EnterFight, GameTypeOK, screenVars
    <2>2. CASE NextRound
      BY <1>1, <2>2, RecordingAssumption
         DEF RecordingAssumption, NextRound, GameTypeOK, screenVars
    <2>3. CASE FightReturns
      BY <1>1, <2>3 DEF FightReturns, GameTypeOK, screenVars
    <2>4. CASE LeaveMatch
      BY <1>1, <2>4 DEF LeaveMatch, GameTypeOK, screenVars
    <2> QED
      BY <2>1, <2>2, <2>3, <2>4 DEF Game
  <1> QED
    BY <1>1, <1>2, CaptureStands, WorkerStands DEF queueVars

(* A recording begins with empty files and an empty writer.                *)
LEMMA OperationTyped ==
  ASSUME WorkerTypeOK, NEW o \in Recorded, recordings < MaxRecordings,
         NewOperation(o),
         worker' \in {"idle", "drain"}, answer' \in {"none", "failed"}
  PROVE  WorkerTypeOK' /\ recordings' \in 1..MaxRecordings
PROOF
  <1>1. <<>> \in Seq(0..MaxTick)
    OBVIOUS
  <1>2. recordings' \in 1..MaxRecordings
    BY RecordingAssumption
       DEF RecordingAssumption, NewOperation, WorkerTypeOK
  <1>3. /\ wrote' \in Seq(0..MaxTick) /\ frames' \in Seq(0..MaxTick)
        /\ mcfr' \in Seq(0..MaxTick) /\ mov' \in Seq(0..MaxTick)
    BY <1>1 DEF NewOperation, NoFile
  <1>4. /\ header' \in BOOLEAN /\ settled' \in BOOLEAN
        /\ terminalSeen' \in BOOLEAN
        /\ peeked' \in Messages \cup {NoMessage}
        /\ op' \in Recorded
    BY DEF NewOperation
  <1>5. /\ drained' \in {"no", "published", "refused", "failed"}
        /\ abandoned' \in BOOLEAN /\ late' \in BOOLEAN
    BY DEF NewOperation
  <1> QED
    BY <1>2, <1>3, <1>4, <1>5 DEF WorkerTypeOK

LEMMA ReplaysTakeNoVideo ==
  ASSUME NEW o \in Recorded
  PROVE  o.video \in BOOLEAN /\ (o.mode = "replay" => ~ o.video)
PROOF
  <1>1. CASE o = [mode |-> "replay", video |-> FALSE, speed |-> FALSE]
    <2>1. o.video = FALSE
      BY <1>1
    <2> QED
      BY <2>1
  <1>2. CASE o \in {[mode |-> "training", video |-> v, speed |-> s] :
                      v \in BOOLEAN, s \in BOOLEAN}
    <2>1. PICK v \in BOOLEAN, s \in BOOLEAN :
            o = [mode |-> "training", video |-> v, speed |-> s]
      BY <1>2
    <2>2. o.video = v /\ o.mode = "training"
      BY <2>1
    <2> QED
      BY <2>2
  <1> QED
    BY <1>1, <1>2 DEF Recorded

LEMMA ResetTyped ==
  ASSUME Reset, armed' \in BOOLEAN, awaiting' \in BOOLEAN,
         queue' \in Seq(Messages), Len(queue') <= QUEUE_CAPACITY
  PROVE  CaptureTypeOK'
PROOF
  <1>1. initialized' \in BOOLEAN /\ entered' \in BOOLEAN
    BY DEF Reset
  <1>2. rendered' \in BOOLEAN /\ lost' \in BOOLEAN
    BY DEF Reset
  <1>3. lastTick' \in 0..MaxTick
    BY RecordingAssumption DEF RecordingAssumption, Reset
  <1>4. pending' \in Ticks \cup {NoMessage}
    BY DEF Reset
  <1> QED
    BY <1>1, <1>2, <1>3, <1>4 DEF CaptureTypeOK

LEMMA BeginTyped ==
  ASSUME Typed, Begin
  PROVE  Typed'
PROOF
  <1> USE DEF Typed, RecTypeOK, Begun
  <1>1. PICK o \in Recorded :
          StartRefused(o) \/ StartFails(o) \/ StartCapture(o)
    BY DEF Begin
  <1>2. WorkerTypeOK' /\ recordings' \in 1..MaxRecordings
    BY <1>1, OperationTyped DEF StartRefused, StartFails, StartCapture
  <1>3. CASE StartRefused(o)
    BY <1>2, <1>3, CaptureStands, GameStands DEF StartRefused
  <1>4. <<>> \in Seq(Messages) /\ Len(<<>>) = 0
    OBVIOUS
  <1>5. CASE StartFails(o)
    <2> DEFINE f == [kind |-> "failure", of |-> recordings + 1]
    <2>1. f \in Messages
      BY <1>2, <1>5 DEF StartFails, NewOperation, Messages
    <2>2. queue' = <<>> \/ queue' = Append(<<>>, f)
      BY <1>5 DEF StartFails, QueueCleared
    <2> HIDE DEF f
    <2>3. Append(<<>>, f) \in Seq(Messages) /\ Len(Append(<<>>, f)) = 1
      BY <1>4, <2>1, AppendProperties
    <2>4. queue' \in Seq(Messages) /\ Len(queue') <= QUEUE_CAPACITY
      <3>1. 0 <= QUEUE_CAPACITY /\ 1 <= QUEUE_CAPACITY
        BY RecordingAssumption DEF RecordingAssumption
      <3>2. CASE queue' = <<>>
        BY <1>4, <3>1, <3>2
      <3>3. CASE queue' = Append(<<>>, f)
        BY <2>3, <3>1, <3>3
      <3> QED
        BY <2>2, <3>2, <3>3
    <2>5. /\ Reset /\ armed' = FALSE /\ awaiting' \in BOOLEAN
          /\ fast' = FALSE /\ camera' = FALSE
          /\ UNCHANGED <<gameVars, shown>>
      BY <1>5 DEF StartFails
    <2>6. CaptureTypeOK'
      BY <2>4, <2>5, ResetTyped
    <2>7. fast' \in BOOLEAN /\ camera' \in BOOLEAN
      BY <2>5
    <2>8. GameTypeOK'
      BY <2>5, <2>7 DEF GameTypeOK, gameVars
    <2> QED
      BY <1>2, <2>6, <2>8
  <1>6. CASE StartCapture(o)
    <2>1. o.video \in BOOLEAN /\ ScalesTime(o) \in BOOLEAN
      <3>1. o.video \in BOOLEAN
        BY ReplaysTakeNoVideo
      <3>2. ScalesTime(o) \in BOOLEAN
        BY Zenon DEF ScalesTime
      <3> QED
        BY <3>1, <3>2
    <2>2. /\ Reset /\ armed' = TRUE /\ awaiting' \in BOOLEAN
          /\ queue' = <<>> /\ fast' \in BOOLEAN /\ camera' \in BOOLEAN
          /\ tick' = 0 /\ UNCHANGED <<inside, shown>>
          /\ stage' \in {"deploy", "ready"} /\ asked' \in BOOLEAN
          /\ fight' \in {"running", "none"}
      BY <1>6, <2>1 DEF StartCapture, QueueCleared
    <2>3. CaptureTypeOK'
      <3>1. Len(<<>>) <= QUEUE_CAPACITY /\ armed' \in BOOLEAN
        BY <1>4, <2>2, RecordingAssumption DEF RecordingAssumption
      <3> QED
        BY <1>4, <2>2, <3>1, ResetTyped
    <2>4. tick' \in 0..MaxTick
      BY <2>2, RecordingAssumption DEF RecordingAssumption
    <2>5. GameTypeOK'
      BY <2>2, <2>4 DEF GameTypeOK
    <2> QED
      BY <1>2, <2>3, <2>5
  <1> QED
    BY <1>1, <1>3, <1>5, <1>6

LEMMA DrainTyped ==
  ASSUME Typed, Drain
  PROVE  Typed'
PROOF
  <1> USE DEF Typed, RecTypeOK
  <1>1. UNCHANGED <<gameVars, screenVars, hookVars, visualVars>>
        /\ UNCHANGED <<armed, lost, op, answer, recordings, fileVars, flagVars>>
    BY DEF Drain, DrainGivesUp, DrainHeader, DrainTick, DrainSettlement,
           DrainFails, DrainEmpty, AfterEmpty, Recheck, Reads, queueVars
  <1>2. GameTypeOK'
    BY <1>1, GameStands
  <1>3. worker # "idle" /\ recordings # 0 /\ recordings' = recordings
    BY <1>1 DEF Begun, Drain, DrainGivesUp, DrainHeader, DrainTick,
                DrainSettlement, DrainFails, DrainEmpty, AfterEmpty, Recheck,
                Reads
  <1>4. Begun'
    BY <1>3 DEF Begun
  <1>5. ASSUME queue' \in Seq(Messages), Len(queue') <= QUEUE_CAPACITY
        PROVE  CaptureTypeOK'
    BY <1>1, <1>5 DEF CaptureTypeOK, hookVars, visualVars
  <1>6. CASE DrainGivesUp \/ DrainEmpty \/ AfterEmpty
    <2>1. CaptureTypeOK'
      BY <1>5, <1>6 DEF DrainGivesUp, DrainEmpty, AfterEmpty, queueVars,
                        CaptureTypeOK
    <2>2. /\ UNCHANGED drainVars
          /\ worker' \in {"abort", "empty", "drain", "recheck"}
          /\ drained' \in {"failed", drained}
      BY <1>6 DEF DrainGivesUp, DrainEmpty, AfterEmpty, LooksAgain
    <2>3. WorkerTypeOK'
      BY <1>1, <2>2 DEF WorkerTypeOK, drainVars, fileVars, flagVars
    <2> QED
      BY <1>2, <1>4, <2>1, <2>3
  <1>7. CASE DrainHeader \/ DrainTick \/ DrainSettlement \/ DrainFails
    <2>1. Reads
      BY <1>7 DEF DrainHeader, DrainTick, DrainSettlement, DrainFails
    <2>2. CaptureTypeOK'
      BY <1>5, <2>1, ReadsHolds
    <2>3. wrote' \in Seq(0..MaxTick) /\ frames' \in Seq(0..MaxTick)
      <3>1. CASE DrainTick
        <4>1. Front \in Ticks
          BY <2>1, <3>1, ReadsHolds DEF DrainTick, Messages
        <4>2. Front.n \in 0..MaxTick /\ Front.frame \in 0..MaxTick
          BY <4>1 DEF Ticks
        <4> QED
          BY <3>1, <4>2, AppendProperties DEF DrainTick, WorkerTypeOK
      <3>2. CASE ~ DrainTick
        BY <1>7, <3>2
           DEF DrainHeader, DrainSettlement, DrainFails, WorkerTypeOK
      <3> QED
        BY <3>1, <3>2
    <2>4. terminalSeen' \in BOOLEAN
      <3>1. CASE DrainTick
        BY <3>1 DEF DrainTick
      <3>2. CASE ~ DrainTick
        BY <1>7, <3>2
           DEF DrainHeader, DrainSettlement, DrainFails, WorkerTypeOK
      <3> QED
        BY <3>1, <3>2
    <2>5. /\ worker' \in {"drain", "video", "abort"}
          /\ drained' \in {"failed", drained}
          /\ header' \in BOOLEAN /\ settled' \in BOOLEAN
      BY <1>7, <2>1 DEF DrainHeader, DrainTick, DrainSettlement, DrainFails,
                        Reads, WorkerTypeOK
    <2>6. WorkerTypeOK'
      BY <1>1, <2>1, <2>3, <2>4, <2>5, ReadsHolds
         DEF WorkerTypeOK, fileVars, flagVars
    <2> QED
      BY <1>2, <1>4, <2>2, <2>6
  <1>8. CASE Recheck
    <2>1. CASE queue # <<>>
      <3>1. queue' = Tail(queue) /\ peeked' = Head(queue)
        BY <1>8, <2>1 DEF Recheck
      <3>2. CaptureTypeOK' /\ peeked' \in Messages
        BY <1>5, <2>1, <3>1, TailHolds
      <3>3. WorkerTypeOK'
        BY <1>1, <1>8, <2>1, <3>2
           DEF Recheck, WorkerTypeOK, fileVars, flagVars
      <3> QED
        BY <1>2, <1>4, <3>2, <3>3
    <2>2. CASE queue = <<>>
      <3>1. CaptureTypeOK'
        BY <1>5, <1>8, <2>2 DEF Recheck, CaptureTypeOK
      <3>2. WorkerTypeOK'
        BY <1>1, <1>8, <2>2 DEF Recheck, WorkerTypeOK, fileVars, flagVars
      <3> QED
        BY <1>2, <1>4, <3>1, <3>2
    <2> QED
      BY <2>1, <2>2
  <1> QED
    BY <1>6, <1>7, <1>8 DEF Drain

LEMMA EndTyped ==
  ASSUME Typed, Publish \/ End \/ StopCapture
  PROVE  Typed'
PROOF
  <1> USE DEF Typed, RecTypeOK
  <1>1. worker # "idle" /\ recordings # 0 /\ recordings' = recordings
    BY DEF Begun, Publish, FinishVideo, FinishMcfr, End, Abort, Join,
           StopCapture
  <1>2. Begun'
    BY <1>1 DEF Begun
  <1>3. peeked' = peeked
    BY DEF Publish, FinishVideo, FinishMcfr, End, Abort, Join, StopCapture,
           drainVars
  <1>4. CASE FinishVideo
    <2>1. WorkerTypeOK'
      BY <1>4 DEF FinishVideo, WorkerTypeOK, drainVars, flagVars
    <2> QED
      BY <1>2, <1>4, <2>1, GameStands, CaptureStands DEF FinishVideo
  <1>5. CASE FinishMcfr
    <2>1. <<>> \in Seq(0..MaxTick)
      OBVIOUS
    <2>2. mov' \in Seq(0..MaxTick) /\ mcfr' \in Seq(0..MaxTick)
      BY <1>5, <2>1 DEF FinishMcfr, VideoRemoved, NoFile, WorkerTypeOK
    <2>3. WorkerTypeOK'
      BY <1>5, <2>2 DEF FinishMcfr, WorkerTypeOK, drainVars, flagVars
    <2> QED
      BY <1>2, <1>5, <2>3, GameStands, CaptureStands DEF FinishMcfr
  <1>6. CASE Abort
    <2>1. WorkerTypeOK'
      BY <1>6 DEF Abort, WorkerTypeOK, drainVars, fileVars, flagVars
    <2>2. CaptureTypeOK'
      BY <1>1, <1>3, <1>6, FailTyped DEF Abort, visualVars, CaptureTypeOK
    <2> QED
      BY <1>2, <1>6, <2>1, <2>2, GameStands DEF Abort
  <1>7. CASE Join
    <2>1. worker' \in {"stop", "idle"} /\ answer' \in {answer, "ok", "failed"}
      BY <1>7 DEF Join, Answered
    <2>2. WorkerTypeOK'
      BY <1>7, <2>1 DEF Join, WorkerTypeOK, drainVars, fileVars, flagVars
    <2>3. CaptureTypeOK'
      BY <1>1, <1>3, <1>7, FailTyped, CaptureStands
         DEF Join, visualVars, CaptureTypeOK
    <2> QED
      BY <1>2, <1>7, <2>2, <2>3, GameStands DEF Join
  <1>8. CASE StopCapture
    <2>1. WorkerTypeOK'
      BY <1>8 DEF StopCapture, Answered, WorkerTypeOK, drainVars, fileVars,
                  flagVars
    <2>2. CaptureTypeOK'
      BY <1>8 DEF StopCapture, Stopped, CaptureTypeOK, hookVars
    <2>3. GameTypeOK'
      BY <1>8 DEF StopCapture, Stopped, GameTypeOK, gameVars
    <2> QED
      BY <1>2, <2>1, <2>2, <2>3
  <1> QED
    BY <1>4, <1>5, <1>6, <1>7, <1>8 DEF Publish, End

(* No hook arms a capture.                                                 *)
LEMMA HooksDisarm ==
  ASSUME Hooks, armed'
  PROVE  armed
PROOF
  <1> USE DEF queueVars
  <1>1. CASE FinishDeploy
    BY <1>1 DEF FinishDeploy
  <1>2. CASE UpdateBegin
    BY <1>2 DEF UpdateBegin
  <1>3. CASE UpdateEnd
    BY <1>3 DEF UpdateEnd
  <1>4. CASE Settle
    BY <1>4 DEF Settle
  <1>5. CASE PostRender
    BY <1>5 DEF PostRender
  <1>6. CASE MatchUpdate
    BY <1>6 DEF MatchUpdate
  <1> QED
    BY <1>1, <1>2, <1>3, <1>4, <1>5, <1>6 DEF Hooks

LEMMA TypedStep == Typed /\ [RecNext]_recVars => Typed'
PROOF
  <1> SUFFICES ASSUME Typed, [RecNext]_recVars PROVE Typed'
    OBVIOUS
  <1>1. CASE Hooks
    <2>1. RecTypeOK' /\ worker' = worker /\ recordings' = recordings
      BY <1>1, HooksTyped, HooksLeaveWorker DEF Typed, RecTypeOK
    <2>2. armed' => armed
      BY <1>1, HooksDisarm
    <2> QED
      BY <2>1, <2>2 DEF Typed, Begun
  <1>2. CASE Game
    BY <1>2, GameMovesTyped DEF Typed, Begun
  <1>3. CASE SetAbandon \/ Deadline
    <2>1. UNCHANGED <<gameVars, screenVars, hookVars, visualVars, queueVars,
                      drainVars, workVars, fileVars>>
      BY <1>3 DEF SetAbandon, Deadline
    <2>2. abandoned' \in BOOLEAN /\ late' \in BOOLEAN
      BY <1>3 DEF SetAbandon, Deadline, Typed, RecTypeOK, WorkerTypeOK
    <2>3. WorkerTypeOK' /\ UNCHANGED <<worker, recordings>>
      BY <2>1, <2>2
         DEF Typed, RecTypeOK, WorkerTypeOK, drainVars, workVars, fileVars
    <2> QED
      BY <2>1, <2>3, GameStands, CaptureStands
         DEF Typed, RecTypeOK, Begun, queueVars
  <1>4. CASE UNCHANGED recVars
    BY <1>4, GameStands, CaptureStands, WorkerStands
       DEF Typed, RecTypeOK, Begun, recVars, queueVars
  <1> QED
    BY <1>1, <1>2, <1>3, <1>4, BeginTyped, DrainTyped, EndTyped DEF RecNext

-----------------------------------------------------------------------------
(* What a step pushes is of this recording, releases the game if it is the *)
(* last tick, and shows the tick it is if it has a frame.                  *)

New(m) ==
  /\ m.of = recordings
  /\ m \in Ticks => (m.last => Released') /\ (op.video => m.frame = m.n)

(* The queue's part of the invariant, for every step of a recording.       *)
LEMMA QueueStep ==
  ASSUME RecInv,
         \A m \in Queued' : m \in Queued \/ m = NoMessage \/ New(m),
         worker' # "idle" => worker # "idle",
         op' = op, recordings' = recordings,
         terminalSeen' => terminalSeen \/ Released,
         Released => Released'
  PROVE  /\ LastReleases' /\ Own'
         /\ worker' # "idle" /\ op'.video =>
              \A m \in Ticks \cap Queued' : m.frame = m.n
PROOF
  <1>1. NoMessage \notin Ticks
    BY DEF NoMessage, Ticks
  <1>2. LastReleases'
    BY <1>1 DEF RecInv, LastReleases, New
  <1>3. Own'
    BY DEF RecInv, Own, New
  <1>4. worker' # "idle" /\ op'.video =>
          \A m \in Ticks \cap Queued' : m.frame = m.n
    BY <1>1 DEF RecInv, InStep, New
  <1> QED
    BY <1>2, <1>3, <1>4

LEMMA FailAdds ==
  ASSUME RecInv, recordings # 0, Fail, peeked' = peeked
  PROVE  \A m \in Queued' : m \in Queued \/ New(m)
PROOF
  BY FailHolds, PlainIsMessage DEF RecInv, Typed, New

LEMMA PlainAdds ==
  ASSUME RecInv, recordings # 0, peeked' = peeked,
         NEW k \in {"initial", "settlement"}, Push(Plain(k))
  PROVE  \A m \in Queued' : m \in Queued \/ New(m)
PROOF
  <1>1. Plain(k) \in Messages \ Ticks /\ Plain(k).of = recordings
    BY PlainIsMessage DEF RecInv, Typed
  <1>2. Queued' \subseteq Queued \cup {Plain(k)}
    BY <1>1, PushHolds DEF RecInv, Typed, Push
  <1> QED
    BY <1>1, <1>2 DEF New

(* A flush pushes the pending tick with the frame of that tick.            *)
LEMMA FlushAdds ==
  ASSUME RecInv, armed, camera, pending # NoMessage, rendered, Flush,
         peeked' = peeked, fast' = fast
  PROVE  \A m \in Queued' : m \in Queued \/ New(m)
PROOF
  <1> DEFINE m == [pending EXCEPT !.frame = shown]
  <1>1. pending \in Ticks /\ shown \in 0..MaxTick
    BY DEF RecInv, Typed, RecTypeOK, CaptureTypeOK, GameTypeOK
  <1>2. /\ m \in Ticks /\ m.frame = shown
        /\ m.n = pending.n /\ m.last = pending.last /\ m.of = pending.of
    BY <1>1 DEF Ticks
  <1>3. m.of = recordings /\ m.frame = m.n
    BY <1>2 DEF RecInv, OnScreen, InStep
  <1>4. m.last => Released'
    <2>1. ~ fast /\ ~ fast'
      BY DEF RecInv, OnScreen
    <2>2. PushKeeping(m, ~ pending.last)
      BY DEF Flush
    <2>3. pending.last => ~ armed'
      BY <2>2 DEF PushKeeping
    <2>4. pending.last => ~ camera' /\ pending' = NoMessage
      BY DEF Flush
    <2> QED
      BY <1>2, <2>1, <2>3, <2>4 DEF Released
  <1>5. New(m)
    BY <1>3, <1>4 DEF New
  <1>6. Queued' \subseteq Queued \cup {m}
    <2>1. (~ pending.last) \in BOOLEAN /\ m \in Messages
      BY <1>1, <1>2 DEF Ticks, Messages
    <2>2. PushKeeping(m, ~ pending.last)
      BY DEF Flush
    <2> HIDE DEF m
    <2> QED
      BY <2>1, <2>2, PushHolds DEF RecInv, Typed
  <1> QED
    BY <1>5, <1>6

(* A tick pushed at once has no frame, and no video asks for one.          *)
LEMMA SampleAdds ==
  ASSUME RecInv, armed, ~ camera, Sample, peeked' = peeked,
         camera' = camera, UNCHANGED <<initialized, awaiting>>
  PROVE  \A m \in Queued' : m \in Queued \/ New(m)
PROOF
  <1> DEFINE last == entered /\ stage # "fighting"
             m == Transition(tick, last, NoFrame)
  <1>1. recordings # 0
    BY DEF RecInv, Typed, Begun
  <1>2. last \in BOOLEAN /\ m \in Ticks
    BY <1>1, RecordingAssumption
       DEF RecordingAssumption, RecInv, Typed, RecTypeOK, GameTypeOK,
           CaptureTypeOK, WorkerTypeOK, Transition, Ticks, NoFrame
  <1>3. m.of = recordings /\ m.last = last
    BY DEF Transition
  <1>4. ~ op.video
    BY DEF RecInv, InStep
  <1>5. /\ PushKeeping(m, ~ last)
        /\ fast' = (fast /\ ~ (last /\ HasRoom))
        /\ pending' = pending
    BY DEF Sample, visualVars
  <1>6. pending = NoMessage
    BY DEF RecInv, OnScreen
  <1> HIDE DEF m, last
  <1>7. Queued' = IF HasRoom THEN Queued \cup {m} ELSE Queued
    BY <1>2, <1>5, PushHolds DEF RecInv, Typed, Messages
  <1>8. HasRoom /\ last => Released'
    <2>1. last => ~ armed'
      BY <1>5 DEF PushKeeping
    <2>2. HasRoom /\ last => ~ fast'
      BY <1>5
    <2> QED
      BY <1>5, <1>6, <2>1, <2>2 DEF Released
  <1>9. HasRoom => New(m)
    BY <1>3, <1>4, <1>8 DEF New
  <1> QED
    BY <1>7, <1>9

-----------------------------------------------------------------------------
(* The hooks.                                                              *)

LEMMA HooksAdd ==
  ASSUME RecInv, Hooks
  PROVE  \A m \in Queued' : m \in Queued \/ New(m)
PROOF
  <1> USE DEF RecInv, Typed
  <1>0. peeked' = peeked
    BY HooksLeaveWorker DEF RecTypeOK
  <1>1. armed => recordings # 0
    BY DEF Begun
  <1>2. UNCHANGED queueVars => Queued' = Queued
    BY <1>0 DEF queueVars, Queued
  <1>3. ASSUME armed, Fail
        PROVE  \A m \in Queued' : m \in Queued \/ New(m)
    BY <1>0, <1>1, <1>3, FailAdds
  <1>4. ASSUME NEW b \in BOOLEAN, armed, Initialize(b)
        PROVE  \A m \in Queued' : m \in Queued \/ New(m)
    BY <1>0, <1>1, <1>4, PlainAdds DEF Initialize
  <1>5. CASE FinishDeploy
    BY <1>2, <1>3, <1>4, <1>5 DEF FinishDeploy
  <1>6. CASE UpdateBegin
    <2>1. CASE armed /\ camera /\ pending # NoMessage
      <3>1. rendered /\ fast' = fast
        BY <1>6, <2>1 DEF UpdateBegin, Barrier
      <3>2. Flush \/ Fail
        BY <1>6, <2>1 DEF UpdateBegin, FlushFails
      <3> QED
        BY <1>0, <1>3, <2>1, <3>1, <3>2, FlushAdds
    <2>2. CASE ~ (armed /\ camera /\ pending # NoMessage)
      BY <1>2, <1>3, <1>4, <1>6, <2>2 DEF UpdateBegin
    <2> QED
      BY <2>1, <2>2
  <1>7. CASE UpdateEnd
    <2>1. CASE armed /\ Sample /\ UNCHANGED <<initialized, awaiting>>
      <3>1. CASE camera
        BY <1>2, <2>1, <3>1 DEF Sample
      <3>2. CASE ~ camera
        <4>1. camera' = camera
          BY <1>7 DEF UpdateEnd
        <4> QED
          BY <1>0, <2>1, <3>2, <4>1, SampleAdds
      <3> QED
        BY <3>1, <3>2
    <2>2. CASE UNCHANGED queueVars \/ (armed /\ (Fail \/ Initialize(TRUE)))
      BY <1>2, <1>3, <1>4, <2>2
    <2> QED
      BY <1>7, <2>1, <2>2 DEF UpdateEnd
  <1>8. CASE Settle
    BY <1>0, <1>1, <1>2, <1>3, <1>8, PlainAdds DEF Settle
  <1>9. CASE PostRender
    BY <1>2, <1>9 DEF PostRender
  <1>10. CASE MatchUpdate
    <2>1. /\ armed /\ camera /\ pending # NoMessage /\ rendered
          /\ fast' = fast
      BY <1>10 DEF MatchUpdate
    <2>2. Flush \/ Fail
      BY <1>10 DEF MatchUpdate, FlushFails
    <2> QED
      BY <1>0, <1>3, <2>1, <2>2, FlushAdds
  <1> QED
    BY <1>5, <1>6, <1>7, <1>8, <1>9, <1>10 DEF Hooks

(* What a hook leaves on the screen and pending.                           *)
Screen ==
  /\ armed' => armed
  /\ fast' => fast
  /\ camera' => camera
  /\ armed' /\ camera => camera'
  /\ pending' # NoMessage => camera' /\ pending'.of = recordings
  /\ armed' /\ pending' # NoMessage =>
       pending'.n = tick' /\ (rendered' => shown' = tick')

LEMMA FlushScreen ==
  ASSUME RecInv, armed, camera, pending # NoMessage, fast' = fast,
         Flush \/ FlushFails
  PROVE  Screen
PROOF
  <1>1. pending \in Ticks
    BY DEF RecInv, Typed, RecTypeOK, CaptureTypeOK
  <1>2. CASE Flush
    <2>1. pending' = NoMessage /\ camera' = (camera /\ ~ pending.last)
      BY <1>2 DEF Flush
    <2>2. armed' => ~ pending.last
      BY <1>2 DEF Flush, PushKeeping
    <2> QED
      BY <2>1, <2>2 DEF Screen
  <1>3. CASE FlushFails
    BY <1>3 DEF FlushFails, Fail, Screen, RecInv, OnScreen
  <1> QED
    BY <1>2, <1>3

LEMMA HooksScreen ==
  ASSUME RecInv, Hooks
  PROVE  Screen
PROOF
  <1>1. armed' => armed
    BY HooksDisarm
  <1>2. CASE FinishDeploy
    BY <1>1, <1>2
       DEF FinishDeploy, screenVars, visualVars, RecInv, OnScreen, InStep, Screen
  <1>3. CASE UpdateBegin
    <2>1. CASE armed /\ camera /\ pending # NoMessage
      <3>1. fast' = fast /\ (Flush \/ FlushFails)
        BY <1>3, <2>1 DEF UpdateBegin
      <3> QED
        BY <2>1, <3>1, FlushScreen
    <2>2. CASE ~ (armed /\ camera /\ pending # NoMessage)
      <3>1. armed => pending = NoMessage
        BY <2>2 DEF RecInv, OnScreen
      <3>2. UNCHANGED <<camera, visualVars, fast>>
        BY <1>3, <2>2 DEF UpdateBegin
      <3> QED
        BY <1>1, <3>1, <3>2 DEF visualVars, RecInv, OnScreen, Screen
    <2> QED
      BY <2>1, <2>2
  <1>4. CASE UpdateEnd
    <2>1. UNCHANGED <<camera, tick, shown>>
      BY <1>4 DEF UpdateEnd
    <2>2. CASE UNCHANGED <<visualVars, fast>>
      BY <1>1, <2>1, <2>2 DEF visualVars, RecInv, OnScreen, InStep, Screen
    <2>3. CASE Sample
      <3>1. CASE camera
        <4>1. /\ pending' = Transition(tick, entered /\ stage # "fighting",
                                       NoFrame)
              /\ rendered' = FALSE /\ fast' = fast
          BY <2>3, <3>1 DEF Sample
        <4>2. pending'.of = recordings /\ pending'.n = tick
          BY <4>1 DEF Transition
        <4> QED
          BY <1>1, <2>1, <3>1, <4>1, <4>2 DEF Screen
      <3>2. CASE ~ camera
        <4>1. UNCHANGED visualVars /\ (fast' => fast)
          BY <2>3, <3>2 DEF Sample
        <4> QED
          BY <1>1, <2>1, <3>2, <4>1
             DEF visualVars, RecInv, OnScreen, InStep, Screen
      <3> QED
        BY <3>1, <3>2
    <2> QED
      BY <1>4, <2>2, <2>3 DEF UpdateEnd
  <1>5. CASE Settle
    BY <1>1, <1>5
       DEF Settle, screenVars, visualVars, RecInv, OnScreen, InStep, Screen
  <1>6. CASE PostRender
    BY <1>1, <1>6
       DEF PostRender, gameVars, RecInv, OnScreen, InStep, Screen
  <1>7. CASE MatchUpdate
    <2>1. /\ armed /\ camera /\ pending # NoMessage /\ fast' = fast
          /\ Flush \/ FlushFails
      BY <1>7 DEF MatchUpdate
    <2> QED
      BY <2>1, FlushScreen
  <1> QED
    BY <1>2, <1>3, <1>4, <1>5, <1>6, <1>7 DEF Hooks

LEMMA HooksKeep ==
  ASSUME RecInv, Hooks
  PROVE  RecInv'
PROOF
  <1>1. Typed'
    BY TypedStep DEF RecInv, RecNext
  <1>2. UNCHANGED <<drainVars, workVars, fileVars, flagVars, fight>>
    BY DEF Hooks, FinishDeploy, UpdateBegin, UpdateEnd, Settle, PostRender,
           MatchUpdate, gameVars
  <1>3. /\ UNCHANGED <<worker, op, drained, recordings, wrote, frames>>
        /\ UNCHANGED <<terminalSeen, mov>>
    BY <1>2 DEF drainVars, workVars, fileVars
  <1>4. Screen
    BY HooksScreen
  <1>5. Released => Released'
    BY <1>4 DEF Released, Screen
  <1>6. /\ LastReleases' /\ Own'
        /\ worker' # "idle" /\ op'.video =>
             \A m \in Ticks \cap Queued' : m.frame = m.n
    BY <1>3, <1>5, HooksAdd, QueueStep DEF RecInv
  <1>7. OnScreen'
    BY <1>3, <1>4 DEF RecInv, OnScreen, Screen
  <1>8. WaysOut'
    BY <1>2, <1>3 DEF RecInv, WaysOut, Replayed
  <1>9. GivenBack'
    BY <1>3, <1>5 DEF RecInv, GivenBack, Released
  <1>10. InStep'
    <2>1. worker' \in {"idle", "stop"} => fight' # "running"
      BY <1>2, <1>3 DEF RecInv, InStep
    <2>2. armed' => (camera' <=> op'.video)
      BY <1>3, <1>4 DEF RecInv, InStep, Screen
    <2>3. armed' /\ pending' # NoMessage =>
            pending'.n = tick' /\ (rendered' => shown' = tick')
      BY <1>4 DEF Screen
    <2>4. /\ op'.video => frames' = wrote'
          /\ mov' # NoFile =>
               /\ mov' = frames'
               /\ worker' \notin {"drain", "empty", "recheck", "video"}
      BY <1>3 DEF RecInv, InStep
    <2> QED
      BY <1>6, <2>1, <2>2, <2>3, <2>4 DEF InStep
  <1> QED
    BY <1>1, <1>6, <1>7, <1>8, <1>9, <1>10 DEF RecInv

-----------------------------------------------------------------------------
(* The game, the worker and the clock.                                     *)

(* A step that leaves the capture and the screen alone releases nothing    *)
(* and takes nothing.                                                      *)
LEMMA ScreenStands ==
  ASSUME RecInv, UNCHANGED <<screenVars, visualVars, queueVars, peeked>>,
         recordings' = recordings
  PROVE  /\ Queued' = Queued /\ Released' = Released
         /\ OnScreen'
PROOF
  BY DEF screenVars, visualVars, queueVars, Queued, Released, RecInv, OnScreen

LEMMA GameKeeps ==
  ASSUME RecInv, Game
  PROVE  RecInv'
PROOF
  <1>1. Typed'
    BY TypedStep DEF RecInv, RecNext
  <1>2. UNCHANGED <<screenVars, visualVars, queueVars, drainVars, workVars,
                    fileVars>>
    BY DEF Game, EnterFight, NextRound, FightReturns, LeaveMatch
  <1>3. /\ UNCHANGED <<worker, op, drained, recordings, wrote, frames>>
        /\ UNCHANGED <<terminalSeen, mov, peeked>>
        /\ UNCHANGED <<armed, fast, camera, pending, rendered, shown>>
    BY <1>2 DEF drainVars, workVars, fileVars, screenVars, visualVars,
                queueVars
  <1>4. Queued' = Queued /\ Released' = Released /\ OnScreen'
    BY <1>2, <1>3, ScreenStands
  <1>5. /\ LastReleases' /\ Own'
        /\ worker' # "idle" /\ op'.video =>
             \A m \in Ticks \cap Queued' : m.frame = m.n
    BY <1>3, <1>4, QueueStep DEF RecInv
  <1>6. GivenBack'
    BY <1>3 DEF RecInv, GivenBack
  <1>7. fight' # fight => fight = "running" /\ fight' \in {"ok", "failed"}
    BY DEF Game, EnterFight, NextRound, FightReturns, LeaveMatch
  <1>8. WaysOut'
    BY <1>3, <1>7 DEF RecInv, WaysOut, Replayed
  <1>9. tick' # tick => ~ (armed /\ pending # NoMessage)
    <2>1. tick' # tick => fight = "running"
      BY DEF Game, EnterFight, NextRound, FightReturns, LeaveMatch
    <2>2. fight = "running" => worker # "idle"
      BY DEF RecInv, InStep
    <2>3. fight = "running" => ~ op.video
      BY <2>2, ReplaysTakeNoVideo
         DEF RecInv, Typed, RecTypeOK, WorkerTypeOK, WaysOut, Replayed
    <2> QED
      BY <2>1, <2>3 DEF RecInv, InStep, OnScreen
  <1>10. InStep'
    <2>1. armed' /\ pending' # NoMessage =>
            pending'.n = tick' /\ (rendered' => shown' = tick')
      BY <1>3, <1>9 DEF RecInv, InStep
    <2>2. /\ worker' \in {"idle", "stop"} => fight' # "running"
          /\ armed' => (camera' <=> op'.video)
      BY <1>3, <1>7 DEF RecInv, InStep
    <2>3. /\ op'.video => frames' = wrote'
          /\ mov' # NoFile =>
               /\ mov' = frames'
               /\ worker' \notin {"drain", "empty", "recheck", "video"}
      BY <1>3 DEF RecInv, InStep
    <2> QED
      BY <1>5, <2>1, <2>2, <2>3 DEF InStep
  <1> QED
    BY <1>1, <1>4, <1>5, <1>6, <1>8, <1>10 DEF RecInv

LEMMA BeginKeeps ==
  ASSUME RecInv, Begin
  PROVE  RecInv'
PROOF
  <1>1. Typed'
    BY TypedStep DEF RecInv, RecNext
  <1>2. PICK o \in Recorded :
          StartRefused(o) \/ StartFails(o) \/ StartCapture(o)
    BY DEF Begin
  <1>3. /\ op' = o /\ wrote' = <<>> /\ frames' = <<>>
        /\ terminalSeen' = FALSE /\ peeked' = NoMessage /\ mov' = NoFile
        /\ worker = "idle" /\ Released /\ fight # "running"
    BY <1>2 DEF StartRefused, StartFails, StartCapture, NewOperation, RecInv,
                GivenBack, InStep, Released
  <1>4. CASE StartRefused(o) \/ StartFails(o)
    <2>1. worker' = "idle" /\ Released' /\ fight' = fight
      BY <1>3, <1>4 DEF StartRefused, StartFails, Reset, Released, gameVars,
                        screenVars, visualVars, queueVars
    <2>2. OnScreen' /\ LastReleases' /\ GivenBack' /\ Own'
      BY <2>1 DEF OnScreen, LastReleases, GivenBack, Own, Released
    <2>3. WaysOut'
      BY <2>1 DEF WaysOut
    <2>4. InStep'
      BY <1>3, <2>1 DEF InStep, Released
    <2> QED
      BY <1>1, <2>2, <2>3, <2>4 DEF RecInv
  <1>5. CASE StartCapture(o)
    <2>1. /\ worker' = "drain" /\ queue' = <<>> /\ pending' = NoMessage
          /\ camera' = o.video /\ fast' = ScalesTime(o)
          /\ fight' = IF o.mode = "replay" THEN "running" ELSE "none"
      BY <1>5 DEF StartCapture, QueueCleared, Reset
    <2>2. Queued' = {NoMessage}
      <3>1. Len(<<>>) = 0
        OBVIOUS
      <3> QED
        BY <1>3, <2>1, <3>1 DEF Queued
    <2>3. NoMessage \notin Ticks
      BY DEF NoMessage, Ticks
    <2>4. LastReleases' /\ Own' /\ GivenBack'
      BY <1>3, <2>1, <2>2, <2>3 DEF LastReleases, Own, GivenBack
    <2>5. OnScreen'
      BY <2>1 DEF OnScreen, ScalesTime
    <2>6. WaysOut'
      BY <1>3, <2>1 DEF WaysOut, Replayed
    <2>7. InStep'
      BY <1>3, <2>1, <2>2, <2>3 DEF InStep
    <2> QED
      BY <1>1, <2>4, <2>5, <2>6, <2>7 DEF RecInv
  <1> QED
    BY <1>2, <1>4, <1>5

LEMMA DrainKeeps ==
  ASSUME RecInv, Drain
  PROVE  RecInv'
PROOF
  <1>1. Typed'
    BY TypedStep DEF RecInv, RecNext
  <1>2. UNCHANGED <<gameVars, screenVars, visualVars, armed, op, recordings,
                    fileVars>>
    BY DEF Drain, DrainGivesUp, DrainHeader, DrainTick, DrainSettlement,
           DrainFails, DrainEmpty, AfterEmpty, Recheck, Reads, queueVars
  <1>3. /\ UNCHANGED <<fight, tick, fast, camera, shown, pending, rendered>>
        /\ UNCHANGED <<armed, op, recordings, mov>>
    BY <1>2 DEF gameVars, screenVars, visualVars, fileVars
  <1>4. worker \in {"drain", "empty", "recheck"} /\ worker' # "idle"
        /\ worker' # "stop"
    BY DEF Drain, DrainGivesUp, DrainHeader, DrainTick, DrainSettlement,
           DrainFails, DrainEmpty, AfterEmpty, Recheck, Reads, LooksAgain
  <1>5. Released' = Released /\ OnScreen' /\ GivenBack'
    BY <1>3, <1>4 DEF Released, RecInv, OnScreen, GivenBack
  <1>6. Queued' \subseteq Queued \cup {NoMessage}
    <2>1. CASE Reads
      BY <2>1, ReadsHolds DEF RecInv, Typed
    <2>2. CASE Recheck /\ queue # <<>>
      BY <2>2, TailHolds DEF RecInv, Typed, Recheck, Queued
    <2>3. CASE UNCHANGED <<queue, peeked>>
      BY <2>3 DEF Queued
    <2> QED
      BY <2>1, <2>2, <2>3
         DEF Drain, DrainGivesUp, DrainHeader, DrainTick, DrainSettlement,
             DrainFails, DrainEmpty, AfterEmpty, Recheck, queueVars, drainVars
  <1>7. CASE DrainTick
    <2>1. Front \in Ticks \cap Queued
      BY <1>7, ReadsHolds DEF DrainTick, RecInv, Typed, Messages, Ticks
    <2>2. terminalSeen' => terminalSeen \/ Released
      BY <1>7, <2>1 DEF DrainTick, RecInv, LastReleases
    <2>3. /\ LastReleases' /\ Own'
          /\ worker' # "idle" /\ op'.video =>
               \A m \in Ticks \cap Queued' : m.frame = m.n
      BY <1>3, <1>4, <1>5, <1>6, <2>2, QueueStep
    <2>4. /\ worker' = "video" => terminalSeen'
          /\ worker' \in {"video", "drain"}
      BY <1>7 DEF DrainTick
    <2>5. WaysOut'
      BY <1>3, <1>4, <2>4 DEF RecInv, WaysOut, Replayed
    <2>6. op'.video => frames' = wrote'
      <3>1. op.video => Front.frame = Front.n
        BY <1>4, <2>1 DEF RecInv, InStep
      <3> QED
        BY <1>3, <1>7, <3>1 DEF DrainTick, RecInv, InStep
    <2>7. mov' = NoFile
      BY <1>3, <1>4 DEF RecInv, InStep
    <2>8. InStep'
      BY <1>3, <1>4, <2>3, <2>6, <2>7 DEF RecInv, InStep
    <2> QED
      BY <1>1, <1>5, <2>3, <2>5, <2>8 DEF RecInv
  <1>8. CASE ~ DrainTick
    <2>1. UNCHANGED <<wrote, frames, terminalSeen>>
      BY <1>8 DEF Drain, DrainGivesUp, DrainHeader, DrainSettlement,
                  DrainFails, DrainEmpty, AfterEmpty, Recheck, drainVars
    <2>2. /\ LastReleases' /\ Own'
          /\ worker' # "idle" /\ op'.video =>
               \A m \in Ticks \cap Queued' : m.frame = m.n
      BY <1>3, <1>4, <1>5, <1>6, <2>1, QueueStep
    <2>3. /\ worker' = "video" => terminalSeen \/ worker = "recheck"
          /\ worker' = "recheck" => FightDone
          /\ worker' = "abort" => drained' = "failed"
          /\ worker' \in {"drain", "empty", "recheck", "video", "abort"}
      BY <1>8 DEF Drain, DrainGivesUp, DrainHeader, DrainSettlement,
                  DrainFails, DrainEmpty, AfterEmpty, Recheck, Reads, LooksAgain
    <2>4. WaysOut'
      BY <1>3, <1>4, <2>1, <2>3 DEF RecInv, WaysOut, Replayed, FightDone
    <2>5. mov' = NoFile
      BY <1>3, <1>4 DEF RecInv, InStep
    <2>6. InStep'
      BY <1>3, <1>4, <2>1, <2>2, <2>5 DEF RecInv, InStep
    <2> QED
      BY <1>1, <1>5, <2>2, <2>4, <2>6 DEF RecInv
  <1> QED
    BY <1>7, <1>8

LEMMA EndKeeps ==
  ASSUME RecInv, Publish \/ End \/ StopCapture
  PROVE  RecInv'
PROOF
  <1>1. Typed'
    BY TypedStep DEF RecInv, RecNext
  <1>2. /\ UNCHANGED <<gameVars, shown, rendered, drainVars, op, recordings>>
        /\ worker # "idle"
    BY DEF Publish, FinishVideo, FinishMcfr, End, Abort, Join, StopCapture,
           screenVars, visualVars
  <1>3. /\ UNCHANGED <<fight, tick, shown, rendered, op, recordings>>
        /\ UNCHANGED <<wrote, frames, terminalSeen, peeked>>
    BY <1>2 DEF gameVars, drainVars
  <1>4. recordings # 0
    BY <1>2 DEF RecInv, Typed, Begun
  <1>5. /\ \A m \in Queued' : m \in Queued \/ New(m)
        /\ Released => Released'
        /\ OnScreen'
        /\ armed' => armed /\ camera' = camera /\ pending' = pending
    <2>1. CASE UNCHANGED <<screenVars, visualVars, queueVars>>
      <3>1. UNCHANGED <<armed, camera, pending>>
        BY <2>1 DEF screenVars, visualVars, queueVars
      <3> QED
        BY <1>3, <2>1, <3>1, ScreenStands
    <2>2. CASE Fail /\ UNCHANGED <<screenVars, visualVars>>
      <3>1. UNCHANGED <<fast, camera, pending>> /\ ~ armed'
        BY <2>2 DEF Fail, screenVars, visualVars
      <3> QED
        BY <1>3, <1>4, <2>2, <3>1, FailAdds
           DEF Released, RecInv, OnScreen
    <2>3. CASE StopCapture
      BY <1>3, <2>3 DEF StopCapture, Stopped, Released, OnScreen, Queued
    <2> QED
      BY <2>1, <2>2, <2>3
         DEF Publish, FinishVideo, FinishMcfr, End, Abort, Join
  <1>6. /\ LastReleases' /\ Own'
        /\ worker' # "idle" /\ op'.video =>
             \A m \in Ticks \cap Queued' : m.frame = m.n
    BY <1>2, <1>3, <1>5, QueueStep
  <1>7. GivenBack' /\ WaysOut'
    <2>1. CASE FinishVideo
      BY <1>3, <2>1 DEF FinishVideo, RecInv, GivenBack, WaysOut, Replayed
    <2>2. CASE FinishMcfr
      BY <1>3, <2>2 DEF FinishMcfr, RecInv, GivenBack, WaysOut, Replayed
    <2>3. CASE Abort
      BY <1>3, <2>3 DEF Abort, RecInv, GivenBack, WaysOut, Replayed
    <2>4. CASE Join /\ StopsAfter
      BY <1>3, <2>4 DEF Join, RecInv, GivenBack, WaysOut, Replayed
    <2>5. CASE Join /\ ~ StopsAfter
      <3>1. worker' = "idle"
        BY <2>5 DEF Join
      <3>2. terminalSeen
        BY <2>5 DEF Join, StopsAfter, RecInv, WaysOut
      <3>3. Released'
        BY <1>5, <3>2 DEF RecInv, LastReleases
      <3> QED
        BY <3>1, <3>3 DEF GivenBack, Released, WaysOut
    <2>6. CASE StopCapture
      BY <2>6 DEF StopCapture, Stopped, GivenBack, WaysOut
    <2> QED
      BY <2>1, <2>2, <2>3, <2>4, <2>5, <2>6 DEF Publish, End
  <1>8. InStep'
    <2>1. worker' \in {"idle", "stop"} => fight' # "running"
      BY <1>3 DEF Publish, FinishVideo, FinishMcfr, End, Abort, Join,
                  StopCapture, RecInv, InStep
    <2>2. /\ armed' => (camera' <=> op'.video)
          /\ armed' /\ pending' # NoMessage =>
               pending'.n = tick' /\ (rendered' => shown' = tick')
          /\ op'.video => frames' = wrote'
      BY <1>3, <1>5 DEF RecInv, InStep
    <2>3. mov' # NoFile =>
            /\ mov' = frames'
            /\ worker' \notin {"drain", "empty", "recheck", "video"}
      <3>1. CASE FinishVideo
        BY <1>3, <3>1 DEF FinishVideo, RecInv, InStep
      <3>2. CASE FinishMcfr
        BY <1>3, <3>2 DEF FinishMcfr, VideoRemoved, RecInv, InStep
      <3>3. CASE End \/ StopCapture
        <4>1. mov' = mov /\ worker' \in {"join", "stop", "idle"}
          BY <3>3 DEF End, Abort, Join, StopCapture, fileVars
        <4> QED
          BY <1>3, <4>1 DEF RecInv, InStep
      <3> QED
        BY <3>1, <3>2, <3>3 DEF Publish
    <2> QED
      BY <1>6, <2>1, <2>2, <2>3 DEF InStep
  <1> QED
    BY <1>1, <1>5, <1>6, <1>7, <1>8 DEF RecInv

LEMMA RecStep == RecInv /\ [RecNext]_recVars => RecInv'
PROOF
  <1> SUFFICES ASSUME RecInv, [RecNext]_recVars PROVE RecInv'
    OBVIOUS
  <1>1. CASE SetAbandon \/ Deadline \/ UNCHANGED recVars
    <2>1. Typed'
      BY TypedStep DEF RecInv
    <2>2. UNCHANGED <<gameVars, screenVars, visualVars, queueVars, drainVars,
                      workVars, fileVars>>
      BY <1>1 DEF SetAbandon, Deadline, recVars
    <2>3. /\ UNCHANGED <<worker, op, drained, recordings, wrote, frames>>
          /\ UNCHANGED <<terminalSeen, mov, peeked, fight, tick>>
          /\ UNCHANGED <<armed, fast, camera, pending, rendered, shown>>
      BY <2>2 DEF gameVars, drainVars, workVars, fileVars, screenVars,
                  visualVars, queueVars
    <2>4. Queued' = Queued /\ Released' = Released /\ OnScreen'
      BY <2>2, <2>3, ScreenStands
    <2>5. /\ LastReleases' /\ Own'
          /\ worker' # "idle" /\ op'.video =>
               \A m \in Ticks \cap Queued' : m.frame = m.n
      BY <2>3, <2>4, QueueStep
    <2>6. GivenBack' /\ WaysOut'
      BY <2>3 DEF RecInv, GivenBack, WaysOut, Replayed
    <2>7. InStep'
      BY <2>3, <2>5 DEF RecInv, InStep
    <2> QED
      BY <2>1, <2>4, <2>5, <2>6, <2>7 DEF RecInv
  <1> QED
    BY <1>1, HooksKeep, GameKeeps, BeginKeeps, DrainKeeps, EndKeeps DEF RecNext

LEMMA RecInitInv == RecInit => RecInv
PROOF
  <1> SUFFICES ASSUME RecInit PROVE RecInv
    OBVIOUS
  <1>1. /\ 0 \in 0..MaxTick /\ 0 \in 0..MaxRecordings
        /\ 0 <= QUEUE_CAPACITY
    BY RecordingAssumption DEF RecordingAssumption
  <1>2. /\ <<>> \in Seq(0..MaxTick) /\ <<>> \in Seq(Messages)
        /\ Len(<<>>) = 0
    OBVIOUS
  <1>3. Typed
    <2>1. GameTypeOK
      BY <1>1 DEF RecInit, GameTypeOK
    <2>2. CaptureTypeOK
      BY <1>1, <1>2 DEF RecInit, CaptureTypeOK
    <2>3. WorkerTypeOK
      BY <1>1, <1>2 DEF RecInit, WorkerTypeOK, NoFile
    <2> QED
      BY <2>1, <2>2, <2>3 DEF RecInit, Typed, RecTypeOK, Begun
  <1>4. Released
    BY DEF RecInit, Released
  <1> QED
    BY <1>3, <1>4 DEF RecInit, RecInv, OnScreen, LastReleases, WaysOut,
                      GivenBack, Own, InStep, Released

-----------------------------------------------------------------------------
THEOREM RecordingInvariance == RecSpec => []RecInv
PROOF
  BY RecInitInv, RecStep, PTL DEF RecSpec

(* Every variable of the game, the capture and the worker keeps its type:  *)
(* the queue never holds more than QUEUE_CAPACITY messages, each of them a *)
(* tick, a snapshot, a settlement or a failure of some recording.          *)
THEOREM RecordingTypeCorrect == RecSpec => []RecTypeOK
PROOF
  <1>1. RecInv => RecTypeOK
    BY DEF RecInv, Typed
  <1> QED
    BY <1>1, RecordingInvariance, PTL

(* The hooks are disarmed and the time scale and the camera are the game's *)
(* own whenever the worker is idle, in whatever order the terminal tick,   *)
(* an abort and the stop came.                                             *)
THEOREM GameIsGivenBack == RecSpec => []GivenBack
PROOF
  <1>1. RecInv => GivenBack
    BY DEF RecInv
  <1> QED
    BY <1>1, RecordingInvariance, PTL

(* The messages a recording drains were pushed for it, those an aborted    *)
(* one left in the queue notwithstanding.                                  *)
THEOREM MessagesAreOwn == RecSpec => []OwnMessages
PROOF
  <1>1. RecInv => OwnMessages
    <2> SUFFICES ASSUME RecInv, worker # "idle" PROVE
          /\ \A i \in 1..Len(queue) : queue[i].of = recordings
          /\ peeked # NoMessage => peeked.of = recordings
      BY DEF OwnMessages
    <2>1. \A i \in 1..Len(queue) : queue[i] \in Messages
      BY ElementOfSeq DEF RecInv, Typed, RecTypeOK, CaptureTypeOK
    <2>2. NoMessage \notin Messages
      BY DEF NoMessage, Messages, Ticks
    <2> QED
      BY <2>1, <2>2 DEF RecInv, Own, Queued
  <1> QED
    BY <1>1, RecordingInvariance, PTL

(* Whatever the two threads' speeds, the frames given to the video are the *)
(* ticks given to the recording, each rendered while that tick was shown.  *)
THEOREM VideoKeepsStep == RecSpec => []FramesInStep
PROOF
  <1>1. RecInv => FramesInStep
    BY DEF RecInv, InStep, FramesInStep
  <1> QED
    BY <1>1, RecordingInvariance, PTL

-----------------------------------------------------------------------------
(* What the two output paths hold, by how the drain ended; what was        *)
(* answered of it; and that nothing is published empty.                    *)
Written == terminalSeen \/ worker \in {"video", "mcfr"} => wrote # <<>>

Outputs ==
  /\ worker \in {"drain", "empty", "recheck", "video", "mcfr"}
       => drained = "no"
  /\ IF drained = "published"
     THEN mcfr = wrote /\ wrote # <<>> /\ mov = frames
     ELSE mcfr = NoFile
  /\ worker = "mcfr" => mov = frames
  /\ drained # "published" /\ worker # "mcfr" => mov = NoFile

Answers ==
  /\ answer # "none" => worker = "idle"
  /\ answer = "ok" => drained = "published"
  /\ answer = "failed" => drained # "published" \/ fight = "failed"

FileInv == RecInv /\ Written /\ Outputs /\ Answers

LEMMA FilesStand ==
  ASSUME FileInv,
         UNCHANGED <<worker, drained, answer, drainVars, fileVars>>,
         worker = "idle" => UNCHANGED fight
  PROVE  Written' /\ Outputs' /\ Answers'
PROOF
  <1>1. Written'
    BY DEF FileInv, Written, drainVars
  <1>2. Outputs'
    BY DEF FileInv, Outputs, drainVars, fileVars
  <1>3. Answers'
    BY DEF FileInv, Answers
  <1> QED
    BY <1>1, <1>2, <1>3

LEMMA AsideFiles ==
  ASSUME FileInv, Hooks \/ Game \/ SetAbandon \/ Deadline \/ UNCHANGED recVars
  PROVE  Written' /\ Outputs' /\ Answers'
PROOF
  <1>1. UNCHANGED <<drainVars, workVars, fileVars>>
    BY DEF Hooks, FinishDeploy, UpdateBegin, UpdateEnd, Settle, PostRender,
           MatchUpdate, Game, EnterFight, NextRound, FightReturns, LeaveMatch,
           SetAbandon, Deadline, recVars
  <1>2. fight' # fight => fight = "running"
    BY DEF Hooks, FinishDeploy, UpdateBegin, UpdateEnd, Settle, PostRender,
           MatchUpdate, Game, EnterFight, NextRound, FightReturns, LeaveMatch,
           SetAbandon, Deadline, recVars, gameVars
  <1>3. worker = "idle" => UNCHANGED fight
    BY <1>2 DEF FileInv, RecInv, InStep
  <1> QED
    BY <1>1, <1>3, FilesStand DEF workVars

LEMMA BeginFiles ==
  ASSUME FileInv, Begin
  PROVE  Written' /\ Outputs' /\ Answers'
PROOF
  <1>1. /\ ~ terminalSeen' /\ drained' = "no" /\ frames' = <<>>
        /\ mcfr' = NoFile /\ mov' = NoFile
        /\ \/ worker' = "drain" /\ answer' = "none"
           \/ worker' = "idle" /\ answer' = "failed"
    BY DEF Begin, StartRefused, StartFails, StartCapture, NewOperation
  <1> QED
    BY <1>1 DEF Written, Outputs, Answers

LEMMA DrainFiles ==
  ASSUME FileInv, Drain
  PROVE  Written' /\ Outputs' /\ Answers'
PROOF
  <1>1. /\ UNCHANGED <<answer, fileVars>>
        /\ worker \in {"drain", "empty", "recheck"} /\ drained = "no"
        /\ \/ drained' = "no"
           \/ drained' = "failed" /\ worker' = "abort"
        /\ worker' \in {"drain", "empty", "recheck", "video", "abort"}
    BY DEF Drain, DrainGivesUp, DrainHeader, DrainTick, DrainSettlement,
           DrainFails, DrainEmpty, AfterEmpty, Recheck, Reads, LooksAgain,
           FileInv, Outputs
  <1>2. Written'
    <2>1. CASE DrainTick
      <3>1. Front.n \in 0..MaxTick
        BY <2>1, ReadsHolds
        DEF DrainTick, FileInv, RecInv, Typed, Messages, Ticks
      <3>2. wrote' # <<>>
        BY <2>1, <3>1, AppendProperties
        DEF DrainTick, FileInv, RecInv, Typed, RecTypeOK, WorkerTypeOK
      <3> QED
        BY <3>2 DEF Written
    <2>2. CASE ~ DrainTick
      <3>1. UNCHANGED <<wrote, terminalSeen>>
        BY <2>2 DEF Drain, DrainGivesUp, DrainHeader, DrainSettlement,
                    DrainFails, DrainEmpty, AfterEmpty, Recheck, drainVars
      <3>2. worker' = "video" => terminalSeen \/ wrote # <<>>
        BY <1>1, <2>2 DEF Drain, DrainGivesUp, DrainHeader, DrainSettlement,
                          DrainFails, DrainEmpty, AfterEmpty, Recheck, Reads,
                          LooksAgain
      <3> QED
        BY <1>1, <3>1, <3>2 DEF FileInv, Written
    <2> QED
      BY <2>1, <2>2
  <1>3. Outputs'
    BY <1>1 DEF FileInv, Outputs, fileVars
  <1>4. Answers'
    BY <1>1 DEF FileInv, Answers
  <1> QED
    BY <1>2, <1>3, <1>4

LEMMA EndFiles ==
  ASSUME FileInv, Publish \/ End \/ StopCapture
  PROVE  Written' /\ Outputs' /\ Answers'
PROOF
  <1>1. UNCHANGED <<drainVars, gameVars>>
    BY DEF Publish, FinishVideo, FinishMcfr, End, Abort, Join, StopCapture
  <1>2. Written'
    BY <1>1 DEF Publish, FinishVideo, FinishMcfr, End, Abort, Join,
                StopCapture, FileInv, Written, drainVars
  <1>3. Outputs'
    <2>1. CASE FinishVideo
      BY <1>1, <2>1 DEF FinishVideo, FileInv, Outputs, drainVars
    <2>2. CASE FinishMcfr
      BY <1>1, <2>2
      DEF FinishMcfr, FileInv, Outputs, Written, drainVars, VideoRemoved
    <2>3. CASE End \/ StopCapture
      <3>1. /\ UNCHANGED <<drained, fileVars>>
            /\ worker \in {"abort", "join", "stop"}
            /\ worker' \in {"join", "stop", "idle"}
        BY <2>3 DEF End, Abort, Join, StopCapture
      <3> QED
        BY <1>1, <3>1 DEF FileInv, Outputs, drainVars, fileVars
    <2> QED
      BY <2>1, <2>2, <2>3 DEF Publish
  <1>4. Answers'
    <2>1. worker # "idle" /\ answer = "none"
      BY DEF Publish, FinishVideo, FinishMcfr, End, Abort, Join, StopCapture,
             FileInv, Answers
    <2>2. CASE answer' = answer
      BY <2>1, <2>2 DEF Answers
    <2>3. CASE answer' # answer
      <3>1. answer' = Answered /\ worker' = "idle" /\ drained' = drained
        BY <2>1, <2>3 DEF Publish, FinishVideo, FinishMcfr, End, Abort, Join,
                    StopCapture
      <3> QED
        BY <1>1, <3>1 DEF Answered, Answers, gameVars
    <2> QED
      BY <2>2, <2>3
  <1> QED
    BY <1>2, <1>3, <1>4

(* A client that is told its recording failed finds nothing at its paths,  *)
(* unless a replay's fight failed after it was published, and one that is  *)
(* told it succeeded finds all it asked for.                               *)
THEOREM FilesAreAnswered == RecSpec => []AnswerTellsFiles
PROOF
  <1>1. RecInit => FileInv
    BY RecInitInv DEF RecInit, FileInv, Written, Outputs, Answers
  <1>2. FileInv /\ [RecNext]_recVars => FileInv'
    <2> SUFFICES ASSUME FileInv, [RecNext]_recVars PROVE FileInv'
      OBVIOUS
    <2>1. RecInv'
      BY RecStep DEF FileInv
    <2>2. Written' /\ Outputs' /\ Answers'
      BY AsideFiles, BeginFiles, DrainFiles, EndFiles DEF RecNext
    <2> QED
      BY <2>1, <2>2 DEF FileInv
  <1>3. FileInv => AnswerTellsFiles
    BY DEF FileInv, Outputs, Answers, RecInv, InStep, NoFile, AnswerTellsFiles
  <1> QED
    BY <1>1, <1>2, <1>3, PTL DEF RecSpec

-----------------------------------------------------------------------------
(* The fight the capture is in: the round is the one to record, the main   *)
(* thread is in an update of a fight only, and an update that begins finds *)
(* no tick pending.                                                        *)
Rounds ==
  /\ worker # "idle" /\ ~ Replayed => asked
  /\ stage = "none" => ~ inside
  /\ FightDone => stage = "none"
  /\ initialized => asked
  /\ entered => initialized /\ stage \notin {"deploy", "ready"}
  /\ lost => ~ armed
  /\ armed /\ inside /\ camera => pending = NoMessage
  /\ armed /\ pending # NoMessage => initialized

(* The capture's tick is the game's, or the one before it in an update.    *)
Sampled ==
  /\ lastTick <= tick
  /\ ~ initialized => lastTick = 0
  /\ stage \in {"deploy", "ready"} => tick = 0
  /\ armed /\ ~ initialized /\ ~ RoundPending => tick = 0
  /\ armed /\ initialized =>
       tick <= lastTick + 1 /\ (~ inside => tick = lastTick)
  /\ armed /\ initialized /\ ~ entered =>
       lastTick = 0 \/ stage \in {"over", "none"}

Clock == Rounds /\ Sampled

(* What the two halves of the update hook do to the capture and its clock. *)
Begins ==
  /\ UNCHANGED <<stage, asked, fight, worker, op>>
  /\ inside' /\ ~ inside /\ stage # "none"
  /\ armed' => armed /\ ~ lost'
  /\ armed' /\ camera' => pending' = NoMessage
  /\ armed' => pending' \in {pending, NoMessage}
  /\ \/ /\ UNCHANGED <<initialized, entered, lastTick>>
        /\ armed' => initialized \/ RoundPending \/ stage = "deploy"
     \/ /\ armed /\ ~ initialized /\ ~ RoundPending
        /\ initialized' /\ ~ entered' /\ lastTick' = tick
  /\ tick' = tick \/ (stage = "fighting" /\ tick' = tick + 1)

Finishes ==
  /\ UNCHANGED <<stage, asked, fight, worker, op, tick, camera>>
  /\ inside /\ ~ inside'
  /\ armed' => armed /\ ~ lost'
  /\ \/ ~ armed' /\ UNCHANGED <<initialized, entered, lastTick>>
     \/ /\ RoundPending \/ (~ initialized /\ stage # "fighting")
        /\ UNCHANGED <<initialized, entered, lastTick, pending>>
     \/ /\ armed /\ ~ initialized /\ ~ RoundPending
        /\ stage = "fighting" /\ tick = 0
        /\ initialized' /\ entered' /\ lastTick' = tick
     \/ /\ initialized /\ initialized' /\ lastTick' = tick
        /\ entered' <=> (entered \/ stage = "fighting")

LEMMA UpdateBeginDoes ==
  ASSUME RecInv, Clock, UpdateBegin
  PROVE  Begins
PROOF
  <1> USE DEF Begins
  <1>1. /\ UNCHANGED <<stage, asked, fight, worker, op>>
        /\ inside' /\ ~ inside /\ stage # "none"
        /\ tick' = tick \/ (stage = "fighting" /\ tick' = tick + 1)
    BY DEF UpdateBegin, workVars
  <1>2. CASE armed /\ camera /\ pending # NoMessage
    <2>1. UNCHANGED <<initialized, entered, lastTick>>
      BY <1>2 DEF UpdateBegin, hookVars
    <2>2. initialized
      BY <1>2 DEF Clock, Rounds
    <2> QED
      BY <1>1, <1>2, <2>1, <2>2
      DEF UpdateBegin, Flush, FlushFails, PushKeeping, Fail, Clock, Rounds
  <1>3. CASE ~ (armed /\ camera /\ pending # NoMessage)
    <2>1. UNCHANGED <<camera, pending>>
      BY <1>3 DEF UpdateBegin, visualVars
    <2>2. CASE armed /\ ~ initialized /\ ~ RoundPending /\ Initialize(FALSE)
      BY <1>1, <1>3, <2>1, <2>2
      DEF Initialize, Push, PushKeeping, Clock, Rounds
    <2>3. CASE Fail /\ UNCHANGED hookVars
      BY <1>1, <2>3 DEF Fail, hookVars
    <2>4. CASE /\ ~ armed \/ initialized \/ RoundPending \/ stage = "deploy"
               /\ UNCHANGED <<queueVars, hookVars>>
      BY <1>1, <1>3, <2>1, <2>4 DEF queueVars, hookVars, Clock, Rounds
    <2> QED
      BY <1>3, <2>2, <2>3, <2>4 DEF UpdateBegin
  <1> QED
    BY <1>2, <1>3

LEMMA UpdateEndDoes ==
  ASSUME RecInv, Clock, UpdateEnd
  PROVE  Finishes
PROOF
  <1> USE DEF Finishes
  <1>1. /\ UNCHANGED <<stage, asked, fight, worker, op, tick, camera>>
        /\ inside /\ ~ inside'
    BY DEF UpdateEnd, workVars
  <1>2. armed' => armed /\ ~ lost'
    <2>1. CASE UNCHANGED queueVars
      BY <2>1 DEF queueVars, Clock, Rounds
    <2>2. CASE Fail
      BY <2>2 DEF Fail
    <2>3. CASE armed /\ Initialize(TRUE)
      BY <2>3 DEF Initialize, Push, PushKeeping, Clock, Rounds
    <2>4. CASE armed /\ Sample
      BY <2>1, <2>4 DEF Sample, PushKeeping, Clock, Rounds
    <2> QED
      BY <2>1, <2>2, <2>3, <2>4 DEF UpdateEnd
  <1>3. CASE ~ armed /\ UNCHANGED <<queueVars, hookVars>>
    BY <1>1, <1>2, <1>3 DEF queueVars, hookVars
  <1>4. CASE /\ RoundPending \/ (~ initialized /\ stage # "fighting")
             /\ UNCHANGED <<queueVars, hookVars, visualVars>>
    BY <1>1, <1>2, <1>4 DEF hookVars, visualVars
  <1>5. CASE Fail /\ UNCHANGED hookVars
    BY <1>1, <1>2, <1>5 DEF Fail, hookVars
  <1>6. CASE /\ armed /\ ~ initialized /\ ~ RoundPending
             /\ stage = "fighting" /\ tick = 0 /\ Initialize(TRUE)
    BY <1>1, <1>2, <1>6 DEF Initialize
  <1>7. CASE /\ initialized /\ lastTick' = tick
             /\ entered' <=> (entered \/ stage = "fighting")
             /\ initialized' = initialized
    BY <1>1, <1>2, <1>7
  <1>8. CASE /\ armed /\ initialized /\ tick # lastTick
             /\ entered \/ stage = "fighting"
             /\ Sample /\ UNCHANGED <<initialized, awaiting>>
    BY <1>7, <1>8 DEF Sample
  <1>9. CASE /\ initialized /\ tick = lastTick
              /\ entered' = (entered \/ stage = "fighting")
              /\ UNCHANGED <<initialized, lastTick>>
    BY <1>7, <1>9
  <1>10. CASE /\ initialized /\ ~ entered /\ stage # "fighting"
              /\ lastTick' = tick /\ UNCHANGED <<initialized, entered>>
    BY <1>7, <1>10
  <1> QED
    BY <1>3, <1>4, <1>5, <1>6, <1>8, <1>9, <1>10 DEF UpdateEnd

(* The clock is kept by the hooks, the game and the worker.                *)
LEMMA HooksRounds ==
  ASSUME RecInv, Clock, Hooks
  PROVE  Rounds'
PROOF
  <1> USE DEF Rounds
  <1>1. CASE FinishDeploy
    <2>1. /\ UNCHANGED <<asked, inside, fight, camera, pending, worker, op>>
          /\ stage = "deploy" /\ stage' = "ready"
      BY <1>1 DEF FinishDeploy, screenVars, visualVars, workVars
    <2>2. CASE armed /\ ~ RoundPending /\ Initialize(FALSE)
      <3>1. initialized' /\ ~ entered' /\ (armed' => ~ lost')
        BY <2>2 DEF Initialize, Push, PushKeeping, Clock
      <3>2. asked
        BY <2>2 DEF Clock, RoundPending, RecInv, GivenBack
      <3> QED
        BY <2>1, <2>2, <3>1, <3>2 DEF Clock, Replayed, FightDone
    <2>3. CASE Fail /\ UNCHANGED hookVars
      BY <2>1, <2>3 DEF Clock, Replayed, FightDone, Fail, hookVars
    <2>4. CASE UNCHANGED <<queueVars, hookVars>>
      BY <2>1, <2>4 DEF Clock, Replayed, FightDone, queueVars, hookVars
    <2> QED
      BY <1>1, <2>2, <2>3, <2>4 DEF FinishDeploy
  <1>2. CASE UpdateBegin
    <2>1. Begins
      BY <1>2, UpdateBeginDoes
    <2> QED
      BY <2>1 DEF Begins, Clock, Replayed, FightDone, RoundPending,
                  RecInv, GivenBack
  <1>3. CASE UpdateEnd
    <2>1. Finishes
      BY <1>3, UpdateEndDoes
    <2> QED
      BY <2>1 DEF Finishes, Clock, Replayed, FightDone, RoundPending,
                  RecInv, GivenBack
  <1>4. CASE Settle
    BY <1>4
    DEF Settle, RecInv, Clock, queueVars, hookVars, screenVars, visualVars,
        workVars, Replayed, Push, PushKeeping, Fail, FightDone
  <1>5. CASE PostRender
    BY <1>5
    DEF PostRender, RecInv, Clock, gameVars, queueVars, hookVars, workVars,
        Replayed, FightDone
  <1>6. CASE MatchUpdate
    BY <1>6
    DEF MatchUpdate, RecInv, Clock, gameVars, queueVars, hookVars, workVars,
        Replayed, FightDone, Flush, FlushFails, PushKeeping, Fail
  <1> QED
    BY <1>1, <1>2, <1>3, <1>4, <1>5, <1>6 DEF Hooks

LEMMA HooksSampled ==
  ASSUME RecInv, Clock, Hooks
  PROVE  Sampled'
PROOF
  <1> USE DEF Sampled
  <1>0. tick \in Nat /\ lastTick \in Nat
    BY RecordingAssumption
    DEF RecInv, Typed, RecTypeOK, GameTypeOK, CaptureTypeOK,
        RecordingAssumption
  <1>1. CASE FinishDeploy
    BY <1>0, <1>1
    DEF FinishDeploy, RecInv, Clock, queueVars, hookVars, workVars, Replayed,
        Initialize, Push, PushKeeping, Fail, RoundPending, Rounds
  <1>2. CASE UpdateBegin
    <2>1. Begins
      BY <1>2, UpdateBeginDoes
    <2>2. /\ stage' = stage /\ RoundPending' = RoundPending
          /\ armed' => armed
      BY <2>1 DEF Begins, Replayed, RoundPending
    <2>3. CASE UNCHANGED <<initialized, entered, lastTick>>
      <3>1. armed' => initialized \/ RoundPending \/ stage = "deploy"
        BY <2>1, <2>3 DEF Begins
      <3> QED
        BY <1>0, <2>1, <2>2, <2>3, <3>1 DEF Begins, Clock
    <2>4. CASE /\ armed /\ ~ initialized /\ ~ RoundPending
               /\ initialized' /\ ~ entered' /\ lastTick' = tick
      BY <1>0, <2>1, <2>2, <2>4 DEF Begins, Clock
    <2> QED
      BY <2>1, <2>3, <2>4 DEF Begins
  <1>3. CASE UpdateEnd
    <2>1. Finishes
      BY <1>3, UpdateEndDoes
    <2>2. /\ UNCHANGED <<stage, tick>>
          /\ initialized' = initialized => RoundPending' = RoundPending
          /\ inside /\ ~ inside' /\ (armed' => armed)
      BY <2>1 DEF Finishes, Replayed, RoundPending
    <2>3. CASE UNCHANGED <<initialized, entered, lastTick>>
      <3>1. ~ armed' \/ RoundPending \/ ~ initialized \/ lastTick' = tick
        BY <2>1, <2>3 DEF Finishes
      <3> QED
        BY <1>0, <2>2, <2>3, <3>1 DEF Clock, RoundPending
    <2>4. CASE /\ initialized' /\ entered' /\ lastTick' = tick /\ tick = 0
      BY <1>0, <2>2, <2>4 DEF Clock
    <2>5. CASE /\ initialized /\ initialized' /\ lastTick' = tick
               /\ entered' <=> (entered \/ stage = "fighting")
      <3>1. ~ entered' => tick = 0 \/ stage \in {"over", "none"}
        BY <2>5 DEF Clock, RecInv, Typed, RecTypeOK, GameTypeOK
      <3> QED
        BY <1>0, <2>2, <2>5, <3>1 DEF Clock
    <2> QED
      BY <2>1, <2>3, <2>4, <2>5 DEF Finishes
  <1>4. CASE Settle
    BY <1>0, <1>4
    DEF Settle, RecInv, Clock, queueVars, hookVars, workVars, Replayed, Push,
        PushKeeping, Fail, RoundPending
  <1>5. CASE PostRender
    BY <1>5
    DEF PostRender, RecInv, Clock, gameVars, queueVars, hookVars, workVars,
        Replayed, RoundPending
  <1>6. CASE MatchUpdate
    BY <1>6
    DEF MatchUpdate, RecInv, Clock, gameVars, hookVars, workVars, Replayed,
        RoundPending, Flush, FlushFails, PushKeeping, Fail
  <1> QED
    BY <1>1, <1>2, <1>3, <1>4, <1>5, <1>6 DEF Hooks

LEMMA GameClock ==
  ASSUME RecInv, Clock, Game
  PROVE  Clock'
PROOF
  <1>1. UNCHANGED <<screenVars, hookVars, visualVars, queueVars, workVars>>
    BY DEF Game, EnterFight, NextRound, FightReturns, LeaveMatch
  <1>2. Rounds'
    BY <1>1
    DEF Game, EnterFight, NextRound, FightReturns, LeaveMatch, screenVars,
        hookVars, visualVars, queueVars, workVars, Clock, Rounds, Replayed,
        FightDone, RecInv, InStep
  <1>3. Sampled'
    BY <1>1
    DEF Game, EnterFight, NextRound, FightReturns, LeaveMatch, hookVars,
        queueVars, workVars, Clock, Rounds, Sampled, Replayed, RoundPending
  <1> QED
    BY <1>2, <1>3 DEF Clock

LEMMA BeginClock ==
  ASSUME RecInv, Clock, Begin
  PROVE  Clock'
PROOF
  <1>0. PICK o \in Recorded :
          StartRefused(o) \/ StartFails(o) \/ StartCapture(o)
    BY DEF Begin
  <1>1. worker = "idle" /\ ~ armed
    BY <1>0 DEF StartRefused, StartFails, StartCapture, RecInv, GivenBack
  <1>2. Rounds'
    BY <1>0, <1>1
    DEF StartRefused, StartFails, StartCapture, NewOperation, Reset, gameVars,
        screenVars, hookVars, visualVars, queueVars, Clock, Rounds, Replayed,
        FightDone
  <1>3. Sampled'
    <2>1. tick \in Nat
      BY RecordingAssumption
      DEF RecInv, Typed, RecTypeOK, GameTypeOK, RecordingAssumption
    <2> QED
    BY <1>0, <1>1, <2>1
    DEF StartRefused, StartFails, StartCapture, NewOperation, Reset, gameVars,
        hookVars, queueVars, Clock, Rounds, Sampled, Replayed, RoundPending
  <1> QED
    BY <1>2, <1>3 DEF Clock

LEMMA WorkClock ==
  ASSUME RecInv, Clock,
         \/ Drain \/ Publish \/ End \/ StopCapture
         \/ SetAbandon \/ Deadline \/ UNCHANGED recVars
  PROVE  Clock'
PROOF
  <1>1. /\ UNCHANGED <<gameVars, hookVars, op>>
        /\ armed' => armed /\ ~ lost'
        /\ camera' => camera
        /\ pending' \in {pending, NoMessage}
        /\ worker = "idle" => worker' = "idle"
    BY DEF Drain, DrainGivesUp, DrainHeader, DrainTick, DrainSettlement,
           DrainFails, DrainEmpty, AfterEmpty, Recheck, Reads, Publish,
           FinishVideo, FinishMcfr, End, Abort, Join, StopCapture, Stopped,
           SetAbandon, Deadline, recVars, queueVars, screenVars, visualVars,
           workVars, Fail, Clock, Rounds
  <1>2. Rounds'
    BY <1>1 DEF Clock, Rounds, gameVars, hookVars, Replayed, FightDone
  <1>3. Sampled'
    BY <1>1 DEF Clock, Sampled, gameVars, hookVars, Replayed, RoundPending
  <1> QED
    BY <1>2, <1>3 DEF Clock

-----------------------------------------------------------------------------
(* The ticks from the one that is due to the last one sampled are waiting, *)
(* in the queue, in hand or pending, each once and in order.               *)
Waiting == Ticks \cap (Queued \cup {pending})
Numbers == {m.n : m \in Waiting}
Due == Len(wrote) + 1
Top == IF entered THEN lastTick ELSE 0

Gapless ==
  /\ wrote = UpTo(Len(wrote)) /\ Len(wrote) <= Top
  /\ Numbers \subseteq Due..Top
  /\ \A n \in Numbers : Due..n \subseteq Numbers
  /\ armed => Due..Top \subseteq Numbers

InOrder ==
  /\ \A i, j \in 1..Len(queue) :
       i < j /\ queue[i] \in Ticks /\ queue[j] \in Ticks
         => queue[i].n < queue[j].n
  /\ peeked \in Ticks =>
       \A i \in 1..Len(queue) : queue[i] \in Ticks => peeked.n < queue[i].n
  /\ pending \in Ticks => \A m \in Ticks \cap Queued : m.n < pending.n

Stream == Gapless /\ InOrder

LEMMA NumbersAre ==
  ASSUME RecInv
  PROVE  /\ Top \in 0..MaxTick /\ Len(wrote) \in Nat /\ MaxTick \in Nat
         /\ \A m \in Ticks : m.n \in 0..MaxTick
         /\ NoMessage \notin Ticks
PROOF
  <1>1. MaxTick \in Nat
    BY RecordingAssumption DEF RecordingAssumption
  <1>2. Top \in 0..MaxTick
    BY <1>1 DEF Top, RecInv, Typed, RecTypeOK, CaptureTypeOK
  <1>3. Len(wrote) \in Nat
    BY LenProperties DEF RecInv, Typed, RecTypeOK, WorkerTypeOK
  <1>4. \A m \in Ticks : m.n \in 0..MaxTick
    BY DEF Ticks
  <1>5. NoMessage \notin Ticks
    BY DEF NoMessage, Ticks
  <1> QED
    BY <1>1, <1>2, <1>3, <1>4, <1>5

LEMMA OrderGrows ==
  ASSUME RecInv, InOrder, NEW m \in Messages, HasRoom,
         queue' = Append(queue, m), peeked' = peeked,
         pending' \in {pending, NoMessage},
         m \in Ticks => /\ pending' = NoMessage
                        /\ \A w \in Ticks \cap Queued : w.n < m.n
  PROVE  InOrder'
PROOF
  <1>1. /\ queue \in Seq(Messages) /\ Len(queue) \in Nat
        /\ Len(queue') = Len(queue) + 1
        /\ queue'[Len(queue) + 1] = m
        /\ \A i \in 1..Len(queue) : queue'[i] = queue[i]
    BY AppendProperties, LenProperties
    DEF RecInv, Typed, RecTypeOK, CaptureTypeOK
  <1>2. Queued' = Queued \cup {m}
    BY AppendHolds DEF RecInv, Typed
  <1>3. \A i \in 1..Len(queue) : queue[i] \in Queued
    BY DEF Queued
  <1>4. peeked \in Queued
    BY DEF Queued
  <1>5. ASSUME NEW i \in 1..Len(queue'), NEW j \in 1..Len(queue'), i < j,
               queue'[i] \in Ticks, queue'[j] \in Ticks
        PROVE  queue'[i].n < queue'[j].n
    <2>1. i \in 1..Len(queue) /\ queue'[i] = queue[i]
      BY <1>1, <1>5
    <2>2. CASE j \in 1..Len(queue)
      BY <1>1, <1>5, <2>1, <2>2 DEF InOrder
    <2>3. CASE j \notin 1..Len(queue)
      <3>1. queue'[j] = m
        BY <1>1, <1>5, <2>3
      <3> QED
        BY <1>3, <1>5, <2>1, <3>1
    <2> QED
      BY <2>2, <2>3
  <1>6. ASSUME peeked' \in Ticks, NEW i \in 1..Len(queue'), queue'[i] \in Ticks
        PROVE  peeked'.n < queue'[i].n
    <2>1. CASE i \in 1..Len(queue)
      BY <1>1, <1>6, <2>1 DEF InOrder
    <2>2. CASE i \notin 1..Len(queue)
      <3>1. queue'[i] = m
        BY <1>1, <1>6, <2>2
      <3> QED
        BY <1>4, <1>6, <3>1
    <2> QED
      BY <2>1, <2>2
  <1>7. ASSUME pending' \in Ticks, NEW w \in Ticks \cap Queued'
        PROVE  w.n < pending'.n
    <2>1. pending' = pending /\ m \notin Ticks
      BY <1>7, NumbersAre
    <2> QED
      BY <1>2, <1>7, <2>1 DEF InOrder
  <1> QED
    BY <1>5, <1>6, <1>7 DEF InOrder

(* What is not a tick leaves the stream as it is.                          *)
LEMMA StreamStands ==
  ASSUME Stream, UNCHANGED <<queue, peeked, pending, wrote>>, Top' = Top,
         armed' => armed
  PROVE  Stream'
PROOF
  <1>1. Waiting' = Waiting
    BY DEF Waiting, Queued
  <1>2. Gapless'
    BY <1>1 DEF Stream, Gapless, Numbers, Due
  <1>3. InOrder'
    BY DEF Stream, InOrder, Queued
  <1> QED
    BY <1>2, <1>3 DEF Stream

LEMMA AsideStream ==
  ASSUME RecInv, Stream, NEW m \in Messages \ Ticks,
         queue' = IF HasRoom THEN Append(queue, m) ELSE queue,
         UNCHANGED <<peeked, pending, wrote>>, Top' = Top, armed' => armed
  PROVE  Stream'
PROOF
  <1>1. CASE ~ HasRoom
    BY <1>1, StreamStands
  <1>2. CASE HasRoom
    <2>1. Waiting' = Waiting
      BY <1>2, AppendHolds DEF RecInv, Typed, Waiting
    <2>2. Gapless'
      BY <2>1 DEF Stream, Gapless, Numbers, Due
    <2>3. InOrder'
      BY <1>2, OrderGrows DEF Stream
    <2> QED
      BY <2>2, <2>3 DEF Stream
  <1> QED
    BY <1>1, <1>2

LEMMA PlainStream ==
  ASSUME RecInv, Stream, armed,
         Fail \/ \E k \in {"initial", "settlement"} : Push(Plain(k)),
         UNCHANGED <<peeked, pending, wrote>>, Top' = Top
  PROVE  Stream'
PROOF
  <1>1. RecTypeOK /\ recordings # 0
    BY DEF RecInv, Typed, Begun
  <1>2. CASE Fail
    BY <1>1, <1>2, PlainIsMessage, AsideStream DEF Fail
  <1>3. ASSUME NEW k \in {"initial", "settlement"}, Push(Plain(k))
        PROVE  Stream'
    BY <1>1, <1>3, PlainIsMessage, AsideStream DEF Push, PushKeeping
  <1> QED
    BY <1>2, <1>3

(* A flush moves the pending tick to the queue's end, or loses it with the *)
(* capture.                                                                *)
LEMMA FlushStream ==
  ASSUME RecInv, Stream, armed, pending # NoMessage, Flush,
         UNCHANGED <<peeked, wrote>>, Top' = Top
  PROVE  Stream'
PROOF
  <1> DEFINE m == [pending EXCEPT !.frame = shown]
  <1>1. pending \in Ticks /\ shown \in 0..MaxTick
    BY DEF RecInv, Typed, RecTypeOK, CaptureTypeOK, GameTypeOK
  <1>2. m \in Ticks /\ m \in Messages /\ m.n = pending.n
    BY <1>1 DEF Ticks, Messages
  <1>3. /\ queue' = IF HasRoom THEN Append(queue, m) ELSE queue
        /\ armed' => HasRoom
        /\ pending' = NoMessage
    BY DEF Flush, PushKeeping
  <1> HIDE DEF m
  <1>4. \A w \in Ticks \cap Queued : w.n < m.n
    BY <1>1, <1>2 DEF Stream, InOrder
  <1>5. CASE HasRoom
    <2>1. Queued' = Queued \cup {m}
      BY <1>2, <1>3, <1>5, AppendHolds DEF RecInv, Typed
    <2>2. Numbers' = Numbers
      BY <1>1, <1>2, <1>3, <2>1, NumbersAre DEF Numbers, Waiting
    <2>3. Gapless'
      BY <2>2 DEF Stream, Gapless, Due
    <2>4. InOrder'
      BY <1>2, <1>3, <1>4, <1>5, OrderGrows DEF Stream
    <2> QED
      BY <2>3, <2>4 DEF Stream
  <1>6. CASE ~ HasRoom
    <2>1. Queued' = Queued /\ ~ armed'
      BY <1>3, <1>6 DEF Queued
    <2>2. \A n \in Numbers' : n \in Numbers /\ n < pending.n
      BY <1>2, <1>3, <1>4, <2>1, NumbersAre DEF Numbers, Waiting
    <2>3. \A n \in Numbers : n < pending.n => n \in Numbers'
      <3> SUFFICES ASSUME NEW w \in Waiting, w.n < pending.n
                   PROVE  w.n \in Numbers'
        BY DEF Numbers
      <3>1. w # pending
        BY <1>1, NumbersAre
      <3> QED
        BY <2>1, <3>1 DEF Numbers, Waiting
    <2>4. Gapless'
      <3>1. Numbers' \subseteq Due..Top
        BY <2>2 DEF Stream, Gapless
      <3>2. ASSUME NEW n \in Numbers', NEW k \in Due..n
            PROVE  k \in Numbers'
        <4>1. k \in Numbers /\ k <= n /\ n < pending.n
          <5>1. n \in Numbers /\ n < pending.n
            BY <2>2, <3>2
          <5> QED
            BY <3>2, <5>1 DEF Stream, Gapless
        <4>2. n \in Int /\ k \in Int /\ pending.n \in Int
          <5>1. pending.n \in 0..MaxTick /\ MaxTick \in Nat
            BY <1>1, NumbersAre
          <5>2. n \in Due..Top
            BY <3>1
          <5> QED
            BY <3>2, <5>1, <5>2
        <4> QED
          BY <2>3, <4>1, <4>2
      <3> QED
        BY <2>1, <3>1, <3>2 DEF Stream, Gapless, Due
    <2>5. InOrder'
      BY <1>3, <1>6, <2>1, NumbersAre DEF Stream, InOrder
    <2> QED
      BY <2>4, <2>5 DEF Stream
  <1> QED
    BY <1>5, <1>6

(* A tick that is sampled is the next of the stream.                       *)
LEMMA GaplessGrows ==
  ASSUME RecInv, Gapless, armed, wrote' = wrote,
         Top' = Top + 1, Numbers' = Numbers \cup {Top'}
  PROVE  Gapless'
PROOF
  <1>1. Top \in Nat /\ Due \in Nat /\ Due' = Due /\ Due <= Top'
    BY NumbersAre DEF Due, Gapless
  <1>2. Due..Top' = (Due..Top) \cup {Top'}
    BY <1>1
  <1>3. Numbers = Due..Top
    BY DEF Gapless
  <1>4. Numbers' = Due'..Top'
    BY <1>1, <1>2, <1>3
  <1>5. ASSUME NEW n \in Numbers' PROVE Due'..n \subseteq Numbers'
    BY <1>1, <1>4, <1>5
  <1>6. wrote' = UpTo(Len(wrote')) /\ Len(wrote') <= Top'
    BY <1>1 DEF Gapless, Due
  <1> QED
    BY <1>4, <1>5, <1>6 DEF Gapless

LEMMA SampleStream ==
  ASSUME RecInv, Clock, Stream, UpdateEnd, armed, initialized,
         tick # lastTick, entered \/ stage = "fighting", Sample,
         initialized' = initialized
  PROVE  Stream'
PROOF
  <1> DEFINE last == entered /\ stage # "fighting"
             m == Transition(tick, last, NoFrame)
  <1>1. /\ inside /\ tick = lastTick + 1 /\ tick \in 0..MaxTick
        /\ lastTick \in 0..MaxTick /\ (~ entered => lastTick = 0)
    BY RecordingAssumption
    DEF RecordingAssumption, UpdateEnd, Clock, Rounds, Sampled, RecInv, Typed,
        RecTypeOK, GameTypeOK, CaptureTypeOK
  <1>2. UNCHANGED <<peeked, wrote, camera>>
    BY DEF UpdateEnd, drainVars
  <1>3. Top' = tick /\ tick = Top + 1
    <2>1. entered' /\ lastTick' = tick
      BY DEF Sample
    <2> QED
      BY <1>1, <2>1 DEF Top
  <1>4. m \in Ticks /\ m \in Messages /\ m.n = tick
    <2>1. recordings # 0 /\ recordings \in 0..MaxRecordings
      BY DEF RecInv, Typed, Begun, RecTypeOK, WorkerTypeOK
    <2>2. last \in BOOLEAN
      OBVIOUS
    <2> QED
      BY <1>1, <2>1, <2>2, RecordingAssumption
      DEF RecordingAssumption, Transition, Ticks, NoFrame, Messages
  <1>5. pending = NoMessage
    BY <1>1 DEF Clock, Rounds, RecInv, OnScreen
  <1>6. \A w \in Ticks \cap Queued : w.n < m.n
    BY <1>1, <1>3, <1>4, NumbersAre DEF Stream, Gapless, Numbers, Waiting
  <1>7. CASE camera
    <2>1. pending' = m /\ queue' = queue /\ armed' = armed
      BY <1>7 DEF Sample, queueVars
    <2> HIDE DEF m
    <2>2. Queued' = Queued
      BY <1>2, <2>1 DEF Queued
    <2>3. Numbers' = Numbers \cup {tick}
      BY <1>4, <1>5, <2>1, <2>2, NumbersAre DEF Numbers, Waiting
    <2>4. Gapless'
      BY <1>2, <1>3, <2>3, GaplessGrows DEF Stream
    <2>5. InOrder'
      BY <1>2, <1>6, <2>1, <2>2 DEF Stream, InOrder
    <2> QED
      BY <2>4, <2>5 DEF Stream
  <1>8. CASE ~ camera
    <2>1. /\ queue' = IF HasRoom THEN Append(queue, m) ELSE queue
          /\ pending' = pending
          /\ armed' => HasRoom
      BY <1>8 DEF Sample, PushKeeping, visualVars
    <2> HIDE DEF m
    <2>2. CASE HasRoom
      <3>1. Queued' = Queued \cup {m}
        BY <1>2, <1>4, <2>1, <2>2, AppendHolds DEF RecInv, Typed
      <3>2. Numbers' = Numbers \cup {tick}
        BY <1>4, <1>5, <2>1, <3>1, NumbersAre DEF Numbers, Waiting
      <3>3. Gapless'
        BY <1>2, <1>3, <3>2, GaplessGrows DEF Stream
      <3>4. InOrder'
        BY <1>2, <1>4, <1>5, <1>6, <2>1, <2>2, OrderGrows DEF Stream
      <3> QED
        BY <3>3, <3>4 DEF Stream
    <2>3. CASE ~ HasRoom
      <3>1. Queued' = Queued /\ Numbers' = Numbers /\ ~ armed'
        BY <1>2, <2>1, <2>3 DEF Queued, Numbers, Waiting
      <3>2. Gapless'
        BY <1>1, <1>2, <1>3, <3>1, NumbersAre DEF Stream, Gapless, Due
      <3>3. InOrder'
        BY <1>2, <2>1, <2>3, <3>1 DEF Stream, InOrder
      <3> QED
        BY <3>2, <3>3 DEF Stream
    <2> QED
      BY <2>2, <2>3
  <1> QED
    BY <1>7, <1>8

(* So the hooks keep the stream, whatever they push or lose.               *)
LEMMA HooksStream ==
  ASSUME RecInv, Clock, Stream, Hooks
  PROVE  Stream'
PROOF
  <1>0. UNCHANGED <<peeked, wrote>> /\ (armed' => armed)
    BY HooksDisarm DEF Hooks, FinishDeploy, UpdateBegin, UpdateEnd, Settle,
                       PostRender, MatchUpdate, drainVars
  <1>1. ~ initialized \/ stage = "deploy" => ~ entered
    BY DEF Clock, Rounds
  <1>2. ASSUME UNCHANGED <<queueVars, hookVars, pending>>
        PROVE  Stream'
    BY <1>0, <1>2, StreamStands DEF queueVars, hookVars, Top
  <1>3. ASSUME armed, Fail, UNCHANGED <<hookVars, pending>>
        PROVE  Stream'
    BY <1>0, <1>3, PlainStream DEF hookVars, Top
  <1>4. ASSUME NEW b \in BOOLEAN, armed, ~ entered, Initialize(b),
               b => tick = 0, pending' = pending
        PROVE  Stream'
    <2>1. Top = 0 /\ Top' = 0 /\ Push(Plain("initial"))
      BY <1>4 DEF Initialize, Top
    <2> QED
      BY <1>0, <1>4, <2>1, PlainStream
  <1>5. CASE FinishDeploy
    BY <1>1, <1>2, <1>3, <1>4, <1>5 DEF FinishDeploy, visualVars
  <1>6. CASE UpdateBegin
    <2>1. CASE armed /\ camera /\ pending # NoMessage
      <3>1. hookVars' = hookVars
        BY <1>6, <2>1 DEF UpdateBegin
      <3>2. CASE Flush
        BY <1>0, <2>1, <3>1, <3>2, FlushStream DEF hookVars, Top
      <3>3. CASE FlushFails
        BY <1>3, <2>1, <3>1, <3>3 DEF FlushFails
      <3> QED
        BY <1>6, <2>1, <3>2, <3>3 DEF UpdateBegin
    <2>2. CASE ~ (armed /\ camera /\ pending # NoMessage)
      BY <1>1, <1>2, <1>3, <1>4, <1>6, <2>2 DEF UpdateBegin, visualVars
    <2> QED
      BY <2>1, <2>2
  <1>7. CASE UpdateEnd
    <2>1. CASE /\ armed /\ initialized /\ tick # lastTick
               /\ entered \/ stage = "fighting"
               /\ Sample /\ UNCHANGED <<initialized, awaiting>>
      BY <1>7, <2>1, SampleStream
    <2>2. CASE UNCHANGED <<queueVars, hookVars, visualVars>>
      BY <1>2, <2>2 DEF visualVars
    <2>3. CASE armed /\ Fail /\ UNCHANGED <<hookVars, visualVars>>
      BY <1>3, <2>3 DEF visualVars
    <2>4. CASE /\ armed /\ ~ initialized /\ tick = 0 /\ Initialize(TRUE)
               /\ UNCHANGED visualVars
      BY <1>1, <1>4, <2>4 DEF visualVars
    <2>5. CASE /\ armed /\ initialized
               /\ tick = lastTick /\ entered' = (entered \/ stage = "fighting")
               /\ UNCHANGED <<lastTick, queueVars, visualVars>>
      <3>1. Top' = Top
        BY <2>5 DEF Clock, Sampled, Top
      <3> QED
        BY <1>0, <2>5, <3>1, StreamStands DEF queueVars, visualVars
    <2>6. CASE /\ ~ entered /\ entered' = entered
               /\ UNCHANGED <<queueVars, visualVars>>
      BY <1>0, <2>6, StreamStands DEF queueVars, visualVars, Top
    <2> QED
      BY <1>7, <2>1, <2>2, <2>3, <2>4, <2>5, <2>6 DEF UpdateEnd
  <1>8. CASE Settle
    <2>1. UNCHANGED <<hookVars, pending>> /\ Top' = Top
      BY <1>8 DEF Settle, visualVars, hookVars, Top
    <2>2. CASE armed /\ (Push(Plain("settlement")) \/ Fail)
      BY <1>0, <2>1, <2>2, PlainStream
    <2>3. CASE UNCHANGED queueVars
      BY <1>2, <2>1, <2>3
    <2> QED
      BY <1>8, <2>2, <2>3 DEF Settle
  <1>9. CASE PostRender
    BY <1>2, <1>9 DEF PostRender
  <1>10. CASE MatchUpdate
    <2>1. CASE Flush
      BY <1>0, <1>10, <2>1, FlushStream DEF MatchUpdate, hookVars, Top
    <2>2. CASE FlushFails
      BY <1>3, <1>10, <2>2 DEF MatchUpdate, FlushFails
    <2> QED
      BY <1>10, <2>1, <2>2 DEF MatchUpdate
  <1> QED
    BY <1>5, <1>6, <1>7, <1>8, <1>9, <1>10 DEF Hooks

-----------------------------------------------------------------------------
(* What the drain reads is the first of the stream.                        *)

(* The queue without its first message, or with it in hand.                *)
LEMMA TailOrder ==
  ASSUME RecInv, InOrder, queue # <<>>, queue' = Tail(queue),
         pending' = pending, peeked = NoMessage,
         peeked' \in {NoMessage, Head(queue)}
  PROVE  /\ InOrder'
         /\ Head(queue) \in Queued
         /\ Queued \subseteq Queued' \cup {Head(queue), NoMessage}
         /\ Queued' \subseteq Queued \cup {NoMessage}
         /\ \A i \in 1..Len(queue') :
              Head(queue) \in Ticks /\ queue'[i] \in Ticks
              => Head(queue).n < queue'[i].n
PROOF
  <1>1. /\ Tail(queue) \in Seq(Messages)
        /\ Len(Tail(queue)) = Len(queue) - 1
        /\ \A i \in 1..Len(Tail(queue)) : Tail(queue)[i] = queue[i + 1]
    BY HeadTailProperties DEF RecInv, Typed, RecTypeOK, CaptureTypeOK
  <1>2. Len(queue) \in Nat \ {0}
    BY LenProperties, EmptySeq DEF RecInv, Typed, RecTypeOK, CaptureTypeOK
  <1>3. Head(queue) = queue[1]
    OBVIOUS
  <1>4. Head(queue) \in Queued /\ Queued' \subseteq Queued \cup {NoMessage}
    BY <1>1, <1>2, <1>3 DEF Queued
  <1>5. Queued \subseteq Queued' \cup {Head(queue), NoMessage}
    <2> SUFFICES ASSUME NEW i \in 1..Len(queue), queue[i] # Head(queue)
                 PROVE  queue[i] \in Queued'
      BY DEF Queued
    <2>1. i - 1 \in 1..Len(queue') /\ queue'[i - 1] = queue[i]
      BY <1>1, <1>2, <1>3
    <2> QED
      BY <2>1 DEF Queued
  <1>6. ASSUME NEW i \in 1..Len(queue'), Head(queue) \in Ticks,
               queue'[i] \in Ticks
        PROVE  Head(queue).n < queue'[i].n
    <2>1. 1 \in 1..Len(queue) /\ i + 1 \in 1..Len(queue) /\ 1 < i + 1
          /\ queue'[i] = queue[i + 1]
      BY <1>1, <1>2
    <2> QED
      BY <1>3, <1>6, <2>1 DEF InOrder
  <1>7. InOrder'
    <2>1. ASSUME NEW i \in 1..Len(queue'), NEW j \in 1..Len(queue'), i < j,
                 queue'[i] \in Ticks, queue'[j] \in Ticks
          PROVE  queue'[i].n < queue'[j].n
      <3>1. /\ i + 1 \in 1..Len(queue) /\ j + 1 \in 1..Len(queue)
            /\ i + 1 < j + 1
            /\ queue'[i] = queue[i + 1] /\ queue'[j] = queue[j + 1]
        BY <1>1, <1>2, <2>1
      <3> QED
        BY <2>1, <3>1 DEF InOrder
    <2>2. ASSUME peeked' \in Ticks, NEW i \in 1..Len(queue'),
                 queue'[i] \in Ticks
          PROVE  peeked'.n < queue'[i].n
      BY <1>6, <2>2, NumbersAre
    <2>3. ASSUME pending' \in Ticks, NEW w \in Ticks \cap Queued'
          PROVE  w.n < pending'.n
      BY <1>4, <2>3, NumbersAre DEF InOrder
    <2> QED
      BY <2>1, <2>2, <2>3 DEF InOrder
  <1> QED
    BY <1>4, <1>5, <1>6, <1>7

LEMMA ReadOrder ==
  ASSUME RecInv, InOrder, Reads
  PROVE  /\ InOrder'
         /\ Front \in Queued /\ Front \in Messages
         /\ Queued \subseteq Queued' \cup {Front, NoMessage}
         /\ Queued' \subseteq Queued \cup {NoMessage}
         /\ Front \in Ticks => \A w \in Waiting' : Front.n < w.n
PROOF
  <1>1. /\ Front \in Queued /\ Front \in Messages
        /\ pending' = pending /\ peeked' = NoMessage
    BY ReadsHolds DEF RecInv, Typed, Reads, visualVars
  <1>2. CASE peeked # NoMessage
    <2>1. queue' = queue /\ Front = peeked
      BY <1>2 DEF Reads, Front
    <2>2. /\ Queued \subseteq Queued' \cup {Front, NoMessage}
          /\ Queued' \subseteq Queued \cup {NoMessage}
      BY <1>1, <2>1 DEF Queued
    <2>3. ASSUME Front \in Ticks, NEW w \in Waiting' PROVE Front.n < w.n
      <3>1. CASE w = pending
        BY <1>1, <2>3, <3>1 DEF InOrder, Waiting
      <3>2. CASE w # pending
        <4>1. w \in Ticks /\ w \in Queued' /\ w # NoMessage
          BY <1>1, <2>3, <3>2, NumbersAre DEF Waiting
        <4>2. PICK i \in 1..Len(queue) : w = queue[i]
          BY <1>1, <2>1, <4>1 DEF Queued
        <4> QED
          BY <2>1, <2>3, <4>1, <4>2 DEF InOrder
      <3> QED
        BY <3>1, <3>2
    <2>4. InOrder'
      BY <1>1, <2>1, <2>2, NumbersAre DEF InOrder
    <2> QED
      BY <1>1, <2>2, <2>3, <2>4
  <1>3. CASE peeked = NoMessage
    <2>1. queue # <<>> /\ queue' = Tail(queue) /\ Front = Head(queue)
      BY <1>3 DEF Reads, Front
    <2>2. /\ InOrder'
          /\ Queued \subseteq Queued' \cup {Front, NoMessage}
          /\ Queued' \subseteq Queued \cup {NoMessage}
          /\ \A i \in 1..Len(queue') : Front \in Ticks /\ queue'[i] \in Ticks
               => Front.n < queue'[i].n
      BY <1>1, <1>3, <2>1, TailOrder
    <2>3. ASSUME Front \in Ticks, NEW w \in Waiting' PROVE Front.n < w.n
      <3>1. CASE w = pending
        BY <1>1, <2>3, <3>1 DEF InOrder, Waiting
      <3>2. CASE w # pending
        <4>1. w \in Ticks /\ w \in Queued' /\ w # NoMessage
          BY <1>1, <2>3, <3>2, NumbersAre DEF Waiting
        <4>2. PICK i \in 1..Len(queue') : w = queue'[i]
          BY <1>1, <4>1 DEF Queued
        <4> QED
          BY <2>2, <2>3, <4>1, <4>2
      <3> QED
        BY <3>1, <3>2
    <2> QED
      BY <1>1, <2>2, <2>3
  <1> QED
    BY <1>2, <1>3

-----------------------------------------------------------------------------
(* The end of the stream: the last tick is the fight's, and a capture that *)
(* is no longer armed says why, or was lost.                               *)
Settling == stage \in {"over", "none"} /\ asked
Told == \E m \in Queued : m.kind = "failure" \/ (m \in Ticks /\ m.last)

Closing ==
  /\ \A m \in Waiting : m.last => m.n = tick /\ Settling
  /\ terminalSeen => Len(wrote) = tick /\ Settling
  /\ armed \/ lost \/ terminalSeen \/ Told

(* What a hook adds to the stream.                                         *)
Tells ==
  /\ Queued \subseteq Queued'
  /\ lost => lost'
  /\ armed => armed' \/ lost' \/ Told'
  /\ \A m \in Waiting' : m.last =>
       \/ \E w \in Waiting : w.last /\ w.n = m.n
       \/ m.n = tick /\ Settling

LEMMA TellsNothing ==
  ASSUME UNCHANGED <<queueVars, peeked, pending>>
  PROVE  Tells
PROOF
  <1>1. Queued' = Queued /\ Waiting' = Waiting
    BY DEF queueVars, Queued, Waiting
  <1> QED
    BY <1>1 DEF queueVars, Tells

LEMMA TellsPlain ==
  ASSUME RecInv, armed, UNCHANGED <<peeked, pending>>,
         Fail \/ \E k \in {"initial", "settlement"} : Push(Plain(k))
  PROVE  Tells
PROOF
  <1>1. RecTypeOK /\ recordings # 0
    BY DEF RecInv, Typed, Begun
  <1>2. PICK k \in {"initial", "settlement", "failure"} :
          /\ queue' = IF HasRoom THEN Append(queue, Plain(k)) ELSE queue
          /\ lost' = (lost \/ ~ HasRoom)
          /\ k = "failure" \/ armed' = HasRoom
    BY DEF Fail, Push, PushKeeping
  <1>3. Plain(k) \in Messages \ Ticks /\ Plain(k).kind = k
    BY <1>1, PlainIsMessage DEF Plain
  <1>4. CASE HasRoom
    <2>1. Queued' = Queued \cup {Plain(k)}
      BY <1>1, <1>2, <1>3, <1>4, AppendHolds
    <2>2. Waiting' = Waiting
      BY <1>3, <2>1 DEF Waiting
    <2>3. k = "failure" => Told'
      BY <1>3, <2>1 DEF Told
    <2> QED
      BY <1>2, <1>4, <2>1, <2>2, <2>3 DEF Tells
  <1>5. CASE ~ HasRoom
    <2>1. Queued' = Queued /\ Waiting' = Waiting
      BY <1>2, <1>5 DEF Queued, Waiting
    <2> QED
      BY <1>2, <1>5, <2>1 DEF Tells
  <1> QED
    BY <1>4, <1>5

(* A tick that is pushed.                                                  *)
LEMMA TellsTick ==
  ASSUME RecInv, NEW m \in Ticks, NEW last \in BOOLEAN, m.last = last,
         PushKeeping(m, ~ last), peeked' = peeked,
         pending' \in {pending, NoMessage},
         last => \/ \E w \in Waiting : w.last /\ w.n = m.n
                 \/ m.n = tick /\ Settling
  PROVE  Tells
PROOF
  <1>1. m \in Messages
    BY DEF Messages
  <1>2. Queued' = IF HasRoom THEN Queued \cup {m} ELSE Queued
    BY <1>1, PushHolds DEF RecInv, Typed
  <1>3. Waiting' \subseteq Waiting \cup {m}
    BY <1>2, NumbersAre DEF Waiting
  <1>4. lost' = (lost \/ ~ HasRoom) /\ armed' = (~ last /\ HasRoom)
    BY DEF PushKeeping
  <1>5. HasRoom /\ last => Told'
    BY <1>2 DEF Told
  <1>6. \A w \in Waiting' : w.last =>
          \/ \E v \in Waiting : v.last /\ v.n = w.n
          \/ w.n = tick /\ Settling
    BY <1>3
  <1> QED
    BY <1>2, <1>4, <1>5, <1>6 DEF Tells

LEMMA TellsFlush ==
  ASSUME RecInv, armed, pending # NoMessage, peeked' = peeked,
         Flush \/ FlushFails
  PROVE  Tells
PROOF
  <1>1. CASE Flush
    <2> DEFINE m == [pending EXCEPT !.frame = shown]
    <2>1. pending \in Ticks /\ shown \in 0..MaxTick
      BY DEF RecInv, Typed, RecTypeOK, CaptureTypeOK, GameTypeOK
    <2>2. /\ m \in Ticks /\ m.n = pending.n /\ m.last = pending.last
          /\ pending.last \in BOOLEAN
      BY <2>1 DEF Ticks
    <2>3. PushKeeping(m, ~ pending.last) /\ pending' = NoMessage
      BY <1>1 DEF Flush
    <2>4. pending \in Waiting
      BY <2>1 DEF Waiting
    <2> HIDE DEF m
    <2> QED
      BY <2>2, <2>3, <2>4, TellsTick
  <1>2. CASE FlushFails
    BY <1>2, TellsPlain DEF FlushFails
  <1> QED
    BY <1>1, <1>2

LEMMA TellsSample ==
  ASSUME RecInv, Clock, armed, initialized, Sample, peeked' = peeked,
         inside
  PROVE  Tells
PROOF
  <1> DEFINE last == entered /\ stage # "fighting"
             m == Transition(tick, last, NoFrame)
  <1>1. m \in Ticks /\ m.n = tick /\ m.last = last
    <2>1. recordings # 0 /\ recordings \in 0..MaxRecordings
          /\ tick \in 0..MaxTick
      BY DEF RecInv, Typed, Begun, RecTypeOK, WorkerTypeOK, GameTypeOK
    <2>2. last \in BOOLEAN
      OBVIOUS
    <2> QED
      BY <2>1, <2>2, RecordingAssumption
      DEF RecordingAssumption, Transition, Ticks, NoFrame
  <1>2. last => Settling
    BY DEF Clock, Rounds, Settling, RecInv, Typed, RecTypeOK, GameTypeOK
  <1>3. pending = NoMessage
    BY DEF Clock, Rounds, RecInv, OnScreen
  <1>4. last \in BOOLEAN
    OBVIOUS
  <1>5. CASE camera
    <2>1. pending' = m /\ queue' = queue /\ lost' = lost /\ armed' = armed
      BY <1>5 DEF Sample, queueVars
    <2> HIDE DEF m, last
    <2>2. Queued' = Queued /\ Waiting' \subseteq Waiting \cup {m}
      BY <2>1 DEF Queued, Waiting
    <2> QED
      BY <1>1, <1>2, <2>1, <2>2 DEF Tells
  <1>6. CASE ~ camera
    <2>1. PushKeeping(m, ~ last) /\ pending' = pending
      BY <1>6 DEF Sample, visualVars
    <2> HIDE DEF m, last
    <2> QED
      BY <1>1, <1>2, <1>4, <2>1, TellsTick
  <1> QED
    BY <1>5, <1>6

LEMMA HooksTell ==
  ASSUME RecInv, Clock, Hooks
  PROVE  Tells
PROOF
  <1>0. peeked' = peeked
    BY DEF Hooks, FinishDeploy, UpdateBegin, UpdateEnd, Settle, PostRender,
           MatchUpdate, drainVars
  <1>1. ASSUME UNCHANGED <<queueVars, pending>>
        PROVE  Tells
    BY <1>0, <1>1, TellsNothing
  <1>2. ASSUME armed, Fail \/ (\E b \in BOOLEAN : Initialize(b)),
               pending' = pending
        PROVE  Tells
    BY <1>0, <1>2, TellsPlain DEF Initialize
  <1>3. CASE FinishDeploy
    BY <1>1, <1>2, <1>3 DEF FinishDeploy, visualVars
  <1>4. CASE UpdateBegin
    <2>1. CASE armed /\ camera /\ pending # NoMessage
      BY <1>0, <1>4, <2>1, TellsFlush DEF UpdateBegin
    <2>2. CASE ~ (armed /\ camera /\ pending # NoMessage)
      BY <1>1, <1>2, <1>4, <2>2 DEF UpdateBegin, visualVars
    <2> QED
      BY <2>1, <2>2
  <1>5. CASE UpdateEnd
    <2>1. CASE armed /\ initialized /\ Sample
      BY <1>0, <1>5, <2>1, TellsSample DEF UpdateEnd
    <2>2. CASE ~ (armed /\ initialized /\ Sample)
      BY <1>1, <1>2, <1>5, <2>2 DEF UpdateEnd, visualVars
    <2> QED
      BY <2>1, <2>2
  <1>6. CASE Settle
    BY <1>0, <1>1, <1>6, TellsPlain DEF Settle, visualVars
  <1>7. CASE PostRender
    BY <1>1, <1>7 DEF PostRender
  <1>8. CASE MatchUpdate
    BY <1>0, <1>8, TellsFlush DEF MatchUpdate
  <1> QED
    BY <1>3, <1>4, <1>5, <1>6, <1>7, <1>8 DEF Hooks

-----------------------------------------------------------------------------
(* A published recording is the whole fight.                               *)
Whole ==
  /\ wrote = UpTo(Len(wrote)) /\ settled
  /\ lost \/ Len(wrote) = tick
  /\ Settling

WholeInv ==
  /\ FileInv
  /\ Clock
  /\ worker = "recheck" => FightDone
  /\ worker \in {"empty", "recheck"} => peeked = NoMessage
  /\ Draining => Stream /\ Closing
  /\ worker \in {"video", "mcfr"} \/ drained = "published" => Whole

(* Once over, the fight that is recorded stays so.                         *)
LEMMA SettlingStays ==
  ASSUME Settling, Hooks \/ Game
  PROVE  Settling' /\ tick' = tick
PROOF
  BY DEF Settling, Hooks, FinishDeploy, UpdateBegin, UpdateEnd, Settle,
         PostRender, MatchUpdate, Game, EnterFight, NextRound, FightReturns,
         LeaveMatch, gameVars

(* Each step keeps the whole.                                              *)
LEMMA HooksWhole ==
  ASSUME WholeInv, Hooks
  PROVE  WholeInv'
PROOF
  <1>0. RecInv /\ Clock /\ FileInv
    BY DEF WholeInv, FileInv
  <1>1. /\ UNCHANGED <<drainVars, workVars, fileVars, fight>>
        /\ UNCHANGED <<peeked, wrote, settled, terminalSeen, worker, drained>>
    BY DEF Hooks, FinishDeploy, UpdateBegin, UpdateEnd, Settle, PostRender,
           MatchUpdate, drainVars, workVars, gameVars
  <1>2. FileInv'
    <2>1. RecInv'
      BY <1>0, RecStep DEF RecNext
    <2> QED
      BY <1>0, <2>1, AsideFiles DEF FileInv
  <1>3. Clock'
    BY <1>0, HooksRounds, HooksSampled DEF Clock
  <1>4. Tells
    BY <1>0, HooksTell
  <1>5. lost => lost'
    BY <1>4 DEF Tells
  <1>6. Draining' => Stream' /\ Closing'
    <2> SUFFICES ASSUME Draining PROVE Stream' /\ Closing'
      BY <1>1 DEF Draining
    <2>1. Stream /\ Closing
      BY DEF WholeInv
    <2>2. Stream'
      BY <1>0, <2>1, HooksStream
    <2>3. ASSUME NEW m \in Waiting', m.last PROVE m.n = tick' /\ Settling'
      <3>1. m.n = tick /\ Settling
        BY <1>4, <2>1, <2>3 DEF Tells, Closing
      <3> QED
        BY <3>1, SettlingStays
    <2>4. terminalSeen' => Len(wrote') = tick' /\ Settling'
      BY <1>1, <2>1, SettlingStays DEF Closing
    <2>5. Told => Told'
      BY <1>4 DEF Told, Tells
    <2>6. armed' \/ lost' \/ terminalSeen' \/ Told'
      BY <1>1, <1>4, <2>1, <2>5 DEF Closing, Tells
    <2> QED
      BY <2>2, <2>3, <2>4, <2>6 DEF Closing
  <1>7. worker' \in {"video", "mcfr"} \/ drained' = "published" => Whole'
    <2> SUFFICES ASSUME Whole PROVE Whole'
      BY <1>1 DEF WholeInv
    <2> QED
      BY <1>1, <1>5, SettlingStays DEF Whole
  <1> QED
    BY <1>1, <1>2, <1>3, <1>6, <1>7 DEF WholeInv, FightDone

LEMMA GameWhole ==
  ASSUME WholeInv, Game
  PROVE  WholeInv'
PROOF
  <1>0. RecInv /\ Clock /\ FileInv
    BY DEF WholeInv, FileInv
  <1>1. /\ UNCHANGED <<hookVars, visualVars, queueVars, drainVars, workVars>>
        /\ UNCHANGED <<peeked, wrote, settled, terminalSeen, worker, drained>>
        /\ UNCHANGED <<queue, armed, lost, pending, entered, lastTick>>
        /\ FightDone => FightDone'
    BY DEF Game, EnterFight, NextRound, FightReturns, LeaveMatch, hookVars,
           visualVars, queueVars, drainVars, workVars, FightDone
  <1>2. FileInv'
    <2>1. RecInv'
      BY <1>0, RecStep DEF RecNext
    <2> QED
      BY <1>0, <2>1, AsideFiles DEF FileInv
  <1>3. Clock'
    BY <1>0, GameClock
  <1>4. Draining' => Stream' /\ Closing'
    <2> SUFFICES ASSUME Draining PROVE Stream' /\ Closing'
      BY <1>1 DEF Draining
    <2>1. Stream /\ Closing
      BY DEF WholeInv
    <2>2. Stream'
      BY <1>1, <2>1, StreamStands DEF Top
    <2>3. Queued' = Queued /\ Waiting' = Waiting
      BY <1>1 DEF Queued, Waiting
    <2>4. Closing'
      BY <1>1, <2>1, <2>3, SettlingStays DEF Closing, Told
    <2> QED
      BY <2>2, <2>4
  <1>5. worker' \in {"video", "mcfr"} \/ drained' = "published" => Whole'
    <2> SUFFICES ASSUME Whole PROVE Whole'
      BY <1>1 DEF WholeInv
    <2> QED
      BY <1>1, SettlingStays DEF Whole
  <1> QED
    BY <1>1, <1>2, <1>3, <1>4, <1>5 DEF WholeInv

LEMMA BeginWhole ==
  ASSUME WholeInv, Begin
  PROVE  WholeInv'
PROOF
  <1>0. RecInv /\ Clock /\ FileInv
    BY DEF WholeInv, FileInv
  <1>1. FileInv'
    <2>1. RecInv'
      BY <1>0, RecStep DEF RecNext
    <2> QED
      BY <1>0, <2>1, BeginFiles DEF FileInv
  <1>2. Clock'
    BY <1>0, BeginClock
  <1>3. PICK o \in Recorded :
          StartRefused(o) \/ StartFails(o) \/ StartCapture(o)
    BY DEF Begin
  <1>4. /\ drained' = "no" /\ peeked' = NoMessage
        /\ wrote' = <<>> /\ terminalSeen' = FALSE
        /\ worker = "idle"
    BY <1>3 DEF StartRefused, StartFails, StartCapture, NewOperation
  <1>5. CASE StartRefused(o) \/ StartFails(o)
    <2>1. worker' = "idle"
      BY <1>4, <1>5 DEF StartRefused, StartFails
    <2> QED
      BY <1>1, <1>2, <1>4, <2>1 DEF WholeInv, Draining
  <1>6. CASE StartCapture(o)
    <2>1. /\ worker' = "drain" /\ armed' /\ queue' = <<>>
          /\ pending' = NoMessage /\ ~ entered'
      BY <1>6 DEF StartCapture, QueueCleared, Reset
    <2>2. Len(<<>>) = 0 /\ 1..Len(queue') = {} /\ NoMessage \notin Ticks
      BY <1>0, <2>1, NumbersAre
    <2>3. Queued' = {NoMessage} /\ Waiting' = {} /\ Numbers' = {} /\ Top' = 0
      <3>1. Queued' = {NoMessage}
        BY <1>4, <2>2 DEF Queued
      <3>2. Waiting' = {}
        BY <2>1, <2>2, <3>1 DEF Waiting
      <3> QED
        BY <2>1, <3>1, <3>2 DEF Numbers, Top
    <2>4. Gapless'
      <3>1. <<>> = UpTo(0)
        BY DEF UpTo
      <3> QED
        BY <1>4, <2>2, <2>3, <3>1 DEF Gapless, Due
    <2>5. InOrder'
      BY <1>4, <2>1, <2>2 DEF InOrder
    <2>6. Closing'
      BY <1>4, <2>1, <2>3 DEF Closing
    <2> QED
      BY <1>1, <1>2, <1>4, <2>1, <2>4, <2>5, <2>6
      DEF WholeInv, Draining, Stream
  <1> QED
    BY <1>3, <1>5, <1>6

(* A message that is read that is no tick leaves the ticks as they are.    *)
LEMMA ReadsPlain ==
  ASSUME RecInv, Stream, Reads, Front \notin Ticks, wrote' = wrote
  PROVE  Stream' /\ Waiting' = Waiting
PROOF
  <1>1. Waiting' = Waiting /\ pending' = pending
    BY ReadOrder, NumbersAre DEF Stream, Waiting, Reads, visualVars
  <1>2. Top' = Top /\ armed' = armed
    BY DEF Reads, hookVars, Top
  <1>3. Gapless'
    BY <1>1, <1>2 DEF Stream, Gapless, Numbers, Due
  <1> QED
    BY <1>1, <1>3, ReadOrder DEF Stream

(* A tick that is read is the one that is due.                             *)
LEMMA ReadsTick ==
  ASSUME RecInv, Stream, Reads, Front \in Ticks,
         wrote' = Append(wrote, Front.n)
  PROVE  /\ Stream'
         /\ Front \in Waiting /\ Front.n = Due /\ Len(wrote') = Due
         /\ Waiting \subseteq Waiting' \cup {Front}
         /\ Waiting' \subseteq Waiting
PROOF
  <1>1. /\ Front \in Waiting /\ pending' = pending
        /\ Waiting \subseteq Waiting' \cup {Front}
        /\ Waiting' \subseteq Waiting
        /\ \A w \in Waiting' : Front.n < w.n
    <2>1. pending' = pending
      BY DEF Reads, visualVars
    <2> QED
      BY <2>1, ReadOrder, NumbersAre DEF Stream, Waiting
  <1>2. Top' = Top /\ armed' = armed
    BY DEF Reads, hookVars, Top
  <1>3. Top \in Nat /\ Due \in Nat /\ Front.n \in Nat /\ Len(wrote) \in Nat
    BY NumbersAre DEF Due
  <1>4. Front.n \in Numbers /\ Front.n \in Due..Top
    BY <1>1 DEF Numbers, Stream, Gapless
  <1>5. Due \in Numbers
    BY <1>3, <1>4 DEF Stream, Gapless
  <1>6. Front.n = Due
    <2>1. PICK w \in Waiting : w.n = Due
      BY <1>5 DEF Numbers
    <2> QED
      BY <1>1, <1>3, <1>4, <2>1
  <1>7. Numbers' = Numbers \ {Due}
    BY <1>1, <1>3, <1>6 DEF Numbers
  <1>8. /\ wrote \in Seq(0..MaxTick) /\ Len(wrote') = Due
        /\ wrote' = UpTo(Due)
    <2>1. wrote \in Seq(0..MaxTick) /\ Front.n \in 0..MaxTick
      BY NumbersAre DEF RecInv, Typed, RecTypeOK, WorkerTypeOK
    <2>2. /\ wrote' \in Seq(0..MaxTick) /\ Len(wrote') = Len(wrote) + 1
          /\ wrote'[Len(wrote) + 1] = Front.n
          /\ \A i \in 1..Len(wrote) : wrote'[i] = wrote[i]
      BY <2>1, AppendProperties
    <2>3. \A i \in 1..Len(wrote) : wrote[i] = i
      BY DEF Stream, Gapless, UpTo
    <2>4. \A i \in 1..Due : wrote'[i] = i
      BY <1>3, <1>6, <2>2, <2>3 DEF Due
    <2>5. wrote' = [i \in 1..Due |-> wrote'[i]]
      BY <2>2, LenProperties DEF Due
    <2> QED
      BY <2>1, <2>2, <2>4, <2>5 DEF UpTo, Due
  <1>9. Gapless'
    <2>1. Due' = Due + 1 /\ wrote' = UpTo(Len(wrote')) /\ Len(wrote') <= Top'
      BY <1>2, <1>3, <1>4, <1>6, <1>8 DEF Due
    <2>2. Numbers' \subseteq Due'..Top'
      BY <1>2, <1>3, <1>7, <2>1 DEF Stream, Gapless
    <2>3. ASSUME NEW n \in Numbers' PROVE Due'..n \subseteq Numbers'
      <3>1. n \in Numbers
        BY <1>7
      <3>2. Due..n \subseteq Numbers
        BY <3>1 DEF Stream, Gapless
      <3> QED
        BY <1>3, <1>7, <2>1, <3>2
    <2>4. armed' => Due'..Top' \subseteq Numbers'
      BY <1>2, <1>3, <1>7, <2>1 DEF Stream, Gapless
    <2> QED
      BY <2>1, <2>2, <2>3, <2>4 DEF Gapless
  <1> QED
    BY <1>1, <1>6, <1>8, <1>9, ReadOrder DEF Stream

LEMMA DrainWhole ==
  ASSUME WholeInv, Drain
  PROVE  WholeInv'
PROOF
  <1>0. /\ RecInv /\ Clock /\ FileInv /\ Draining /\ drained = "no"
        /\ Stream /\ Closing
    <2>1. Draining
      BY DEF Drain, DrainGivesUp, DrainHeader, DrainTick, DrainSettlement,
             DrainFails, DrainEmpty, AfterEmpty, Recheck, Reads, Draining
    <2>2. RecInv /\ Clock /\ FileInv /\ Stream /\ Closing
      BY <2>1 DEF WholeInv, FileInv
    <2>3. drained = "no"
      BY <2>1, <2>2 DEF Draining, FileInv, Outputs
    <2> QED
      BY <2>1, <2>2, <2>3
  <1>1. FileInv'
    <2>1. RecInv'
      BY <1>0, RecStep DEF RecNext
    <2> QED
      BY <1>0, <2>1, DrainFiles DEF FileInv
  <1>2. Clock'
    BY <1>0, WorkClock
  <1>3. /\ UNCHANGED <<gameVars, hookVars, visualVars, armed, lost, op>>
        /\ UNCHANGED <<stage, asked, tick, fight, entered, lastTick, pending>>
        /\ drained' \in {"no", "failed"}
        /\ drained' = "failed" => worker' = "abort"
    BY <1>0 DEF Drain, DrainGivesUp, DrainHeader, DrainTick, DrainSettlement,
            DrainFails, DrainEmpty, AfterEmpty, Recheck, Reads, gameVars,
            hookVars, visualVars, queueVars
  <1>4. CASE worker' = "abort"
    BY <1>1, <1>2, <1>3, <1>4 DEF WholeInv, Draining
  <1>5. ASSUME Stream', Closing', worker' # "abort",
               worker' = "recheck" => FightDone /\ peeked' = NoMessage,
               worker' = "empty" => peeked' = NoMessage,
               worker' = "video" => settled' /\ (lost' \/ terminalSeen'),
               worker' = "video" => Settling'
        PROVE  WholeInv'
    <2>1. worker' # "mcfr" /\ drained' # "published"
      BY <1>1, <1>3 DEF FileInv, Outputs, Drain, DrainGivesUp, DrainHeader,
         DrainTick, DrainSettlement, DrainFails, DrainEmpty, AfterEmpty,
         Recheck, LooksAgain, Reads
    <2>2. worker' = "video" => Whole'
      BY <1>5 DEF Stream, Gapless, Closing, Whole
    <2> QED
      BY <1>1, <1>2, <1>3, <1>5, <2>1, <2>2 DEF WholeInv, FightDone
  <1>6. ASSUME Reads, Front \notin Ticks, Front.kind # "failure",
               UNCHANGED <<wrote, terminalSeen>>
        PROVE  Stream' /\ Closing'
    <2>1. Stream' /\ Waiting' = Waiting
      BY <1>0, <1>6, ReadsPlain
    <2>2. Told => Told'
      <3>1. NoMessage.kind # "failure" /\ NoMessage \notin Ticks
        BY <1>0, NumbersAre DEF NoMessage
      <3>2. Queued \subseteq Queued' \cup {Front, NoMessage}
        BY <1>0, <1>6, ReadOrder DEF Stream
      <3> QED
        BY <1>6, <3>1, <3>2 DEF Told
    <2> QED
      BY <1>0, <1>3, <1>6, <2>1, <2>2 DEF Closing, Settling
  <1>7. CASE DrainHeader
    <2>1. Front \notin Ticks
      BY <1>7 DEF DrainHeader, Ticks
    <2>2. /\ Reads /\ Front.kind = "initial" /\ worker' = "drain"
          /\ UNCHANGED <<wrote, terminalSeen>>
      BY <1>7 DEF DrainHeader, Reads
    <2> QED
      BY <1>5, <1>6, <2>1, <2>2
  <1>8. CASE DrainSettlement
    <2>1. Front \notin Ticks
      BY <1>8 DEF DrainSettlement, Ticks
    <2>2. /\ Reads /\ Front.kind = "settlement" /\ settled'
          /\ worker' = IF terminalSeen THEN "video" ELSE "drain"
          /\ UNCHANGED <<wrote, terminalSeen>>
      BY <1>8 DEF DrainSettlement
    <2>3. Stream' /\ Closing'
      BY <1>6, <2>1, <2>2
    <2> QED
      BY <1>5, <2>2, <2>3 DEF Closing
  <1>9. CASE DrainTick
    <2>1. /\ Reads /\ Front.kind = "tick" /\ wrote' = Append(wrote, Front.n)
          /\ terminalSeen' = (terminalSeen \/ Front.last)
          /\ worker' = IF terminalSeen' /\ settled THEN "video" ELSE "drain"
          /\ settled' = settled
      BY <1>9 DEF DrainTick
    <2>2. Front \in Ticks
      BY <1>0, <2>1, ReadOrder DEF Stream, Messages
    <2>3. /\ Stream' /\ Front \in Waiting /\ Front.n = Due
          /\ Len(wrote') = Due /\ Waiting' \subseteq Waiting
      BY <1>0, <2>1, <2>2, ReadsTick
    <2>4. ~ terminalSeen
      <3>1. Due <= Top
        BY <2>3, <1>0, NumbersAre DEF Stream, Gapless, Numbers
      <3>2. Top <= tick
        BY <1>0 DEF Clock, Sampled, Top, RecInv, Typed, RecTypeOK, GameTypeOK
      <3> QED
        BY <1>0, <3>1, <3>2, NumbersAre DEF Due, Closing, RecInv, Typed,
           RecTypeOK, GameTypeOK
    <2>5. Front.last => Len(wrote') = tick /\ Settling
      BY <1>0, <2>3 DEF Closing
    <2>6. Told => Told' \/ Front.last
      <3>1. NoMessage.kind # "failure" /\ NoMessage \notin Ticks
        BY <1>0, NumbersAre DEF NoMessage
      <3>2. Queued \subseteq Queued' \cup {Front, NoMessage}
        BY <1>0, <2>1, ReadOrder DEF Stream
      <3> QED
        BY <2>1, <3>1, <3>2 DEF Told
    <2>7. Closing'
      <3>1. \A m \in Waiting' : m.last => m.n = tick' /\ Settling'
        BY <1>0, <1>3, <2>3 DEF Closing, Settling
      <3>2. terminalSeen' => Len(wrote') = tick' /\ Settling'
        BY <1>3, <2>1, <2>4, <2>5 DEF Settling
      <3>3. armed' \/ lost' \/ terminalSeen' \/ Told'
        BY <1>0, <1>3, <2>1, <2>6 DEF Closing
      <3> QED
        BY <3>1, <3>2, <3>3 DEF Closing
    <2> QED
      BY <1>5, <2>1, <2>3, <2>7 DEF Closing
  <1>10. CASE DrainEmpty \/ AfterEmpty
    <2>1. /\ UNCHANGED <<queue, peeked, wrote, terminalSeen>>
          /\ worker' \in {"drain", "empty", "recheck"}
          /\ worker' = "empty" => peeked = NoMessage
          /\ worker' = "recheck" => worker = "empty" /\ FightDone
      BY <1>10 DEF DrainEmpty, AfterEmpty, queueVars, drainVars, LooksAgain
    <2>2. worker' = "recheck" => peeked' = NoMessage
      BY <2>1 DEF WholeInv
    <2>3. Stream'
      BY <1>0, <1>3, <2>1, StreamStands DEF Top
    <2>4. Queued' = Queued /\ Waiting' = Waiting
      BY <1>3, <2>1 DEF Queued, Waiting
    <2>5. Closing'
      BY <1>0, <1>3, <2>1, <2>4 DEF Closing, Told, Settling
    <2> QED
      BY <1>5, <2>1, <2>2, <2>3, <2>5
  <1>11. CASE Recheck
    <2>1. /\ worker = "recheck" /\ peeked = NoMessage /\ FightDone
          /\ UNCHANGED <<wrote, terminalSeen, settled>>
      BY <1>11 DEF Recheck, WholeInv
    <2>2. CASE queue # <<>>
      <3>1. /\ queue' = Tail(queue) /\ peeked' = Head(queue)
            /\ worker' = "drain"
        BY <1>11, <2>2 DEF Recheck
      <3>2. /\ InOrder' /\ Head(queue) \in Queued
            /\ Queued \subseteq Queued' \cup {Head(queue), NoMessage}
            /\ Queued' \subseteq Queued \cup {NoMessage}
        BY <1>0, <1>3, <2>1, <2>2, <3>1, TailOrder DEF Stream
      <3>3. Head(queue) \in Queued'
        BY <3>1 DEF Queued
      <3>4. /\ NoMessage.kind # "failure" /\ NoMessage \notin Ticks
        BY <1>0, NumbersAre DEF NoMessage
      <3>5. Waiting' = Waiting
        BY <1>3, <3>2, <3>3, <3>4 DEF Waiting
      <3>6. Told => Told'
        BY <3>2, <3>3, <3>4 DEF Told
      <3>7. Stream'
        BY <1>0, <1>3, <2>1, <3>2, <3>5
        DEF Stream, Gapless, Numbers, Due, Top
      <3>8. Closing'
        BY <1>0, <1>3, <2>1, <3>5, <3>6 DEF Closing, Settling
      <3> QED
        BY <1>5, <3>1, <3>7, <3>8
    <2>3. CASE queue = <<>> /\ header /\ wrote # <<>> /\ settled
      <3>1. worker' = "video" /\ UNCHANGED <<peeked, queue>>
        BY <1>11, <2>3 DEF Recheck
      <3>2. Stream'
        BY <1>0, <1>3, <2>1, <3>1, StreamStands DEF Top
      <3>3. Queued' = Queued /\ Waiting' = Waiting
        BY <1>3, <3>1 DEF Queued, Waiting
      <3>4. Closing'
        BY <1>0, <1>3, <2>1, <3>3 DEF Closing, Told, Settling
      <3>5. Queued = {NoMessage} /\ NoMessage.kind # "failure"
            /\ NoMessage \notin Ticks
        BY <1>0, <2>1, <2>3, NumbersAre DEF Queued, NoMessage
      <3>6. armed \/ lost \/ terminalSeen
        BY <1>0, <3>5 DEF Closing, Told
      <3>7. stage = "none" /\ ~ inside
        BY <1>0, <2>1 DEF Clock, Rounds
      <3>8. Len(wrote) > 0 /\ Len(wrote) <= Top
        BY <1>0, <2>3, NumbersAre, EmptySeq
        DEF Stream, Gapless, RecInv, Typed, RecTypeOK, WorkerTypeOK
      <3>9. entered /\ initialized /\ asked /\ Top = lastTick
        <4>1. entered
          BY <3>8, <1>0, NumbersAre DEF Top
        <4> QED
          BY <1>0, <4>1 DEF Clock, Rounds, Top
      <3>10. Settling
        BY <3>7, <3>9 DEF Settling
      <3>11. armed => Len(wrote) = tick
        <4> SUFFICES ASSUME armed PROVE Len(wrote) = tick
          OBVIOUS
        <4>1. pending = NoMessage
          BY <1>0, <2>1, ReplaysTakeNoVideo
          DEF RecInv, WaysOut, Replayed, InStep, OnScreen, Typed, RecTypeOK,
              WorkerTypeOK
        <4>2. Numbers = {}
          BY <3>5, <4>1 DEF Numbers, Waiting
        <4>3. Due..Top = {}
          BY <1>0, <4>2 DEF Stream, Gapless
        <4>4. Len(wrote) = Top
          BY <1>0, <3>8, <4>3, NumbersAre DEF Due
        <4>5. lastTick = tick
          BY <1>0, <3>7, <3>9 DEF Clock, Sampled
        <4> QED
          BY <3>9, <4>4, <4>5
      <3>12. Whole'
        BY <1>0, <1>3, <2>1, <2>3, <3>2, <3>4, <3>6, <3>10, <3>11
        DEF Whole, Settling, Stream, Gapless, Closing
      <3> QED
        BY <1>1, <1>2, <1>3, <3>1, <3>12 DEF WholeInv, Draining
    <2>4. CASE queue = <<>> /\ ~ (header /\ wrote # <<>> /\ settled)
      BY <1>4, <1>11, <2>4 DEF Recheck
    <2> QED
      BY <2>2, <2>3, <2>4
  <1>12. CASE DrainGivesUp \/ DrainFails
    BY <1>4, <1>12 DEF DrainGivesUp, DrainFails
  <1> QED
    BY <1>7, <1>8, <1>9, <1>10, <1>11, <1>12 DEF Drain

LEMMA EndWhole ==
  ASSUME WholeInv, Publish \/ End \/ StopCapture
  PROVE  WholeInv'
PROOF
  <1>0. RecInv /\ Clock /\ FileInv
    BY DEF WholeInv, FileInv
  <1>1. FileInv'
    <2>1. RecInv'
      BY <1>0, RecStep DEF RecNext
    <2> QED
      BY <1>0, <2>1, EndFiles DEF FileInv
  <1>2. Clock'
    BY <1>0, WorkClock
  <1>3. /\ UNCHANGED <<wrote, settled, stage, asked, tick>>
        /\ lost => lost'
        /\ worker' \in {"mcfr", "abort", "join", "stop", "idle"}
        /\ worker' = "mcfr" => worker = "video"
        /\ drained' = "published" => worker = "mcfr" \/ drained = "published"
    <2>1. CASE Publish
      BY <2>1 DEF Publish, FinishVideo, FinishMcfr, gameVars, drainVars,
                  queueVars
    <2>2. CASE End
      BY <2>2 DEF End, Abort, Join, Fail, gameVars, drainVars, queueVars
    <2>3. CASE StopCapture
      BY <2>3 DEF StopCapture, gameVars, drainVars
    <2> QED
      BY <2>1, <2>2, <2>3
  <1>4. worker' \in {"video", "mcfr"} \/ drained' = "published" => Whole'
    <2> SUFFICES ASSUME Whole PROVE Whole'
      BY <1>3 DEF WholeInv
    <2> QED
      BY <1>3 DEF Whole, Settling
  <1> QED
    BY <1>1, <1>2, <1>3, <1>4 DEF WholeInv, Draining

LEMMA FlagsWhole ==
  ASSUME WholeInv, SetAbandon \/ Deadline \/ UNCHANGED recVars
  PROVE  WholeInv'
PROOF
  <1>0. RecInv /\ Clock /\ FileInv
    BY DEF WholeInv, FileInv
  <1>1. FileInv'
    <2>1. RecInv'
      BY <1>0, RecStep DEF RecNext
    <2> QED
      BY <1>0, <2>1, AsideFiles DEF FileInv
  <1>2. Clock'
    BY <1>0, WorkClock
  <1>3. UNCHANGED <<gameVars, hookVars, visualVars, queueVars, drainVars,
                    workVars>>
    BY DEF SetAbandon, Deadline, recVars
  <1>4. /\ UNCHANGED <<peeked, wrote, settled, terminalSeen, worker, drained>>
        /\ UNCHANGED <<queue, armed, lost, pending, entered, lastTick>>
        /\ UNCHANGED <<stage, asked, tick, fight>>
    BY <1>3 DEF gameVars, hookVars, visualVars, queueVars, drainVars, workVars
  <1>5. Draining => Stream' /\ Closing'
    <2> SUFFICES ASSUME Draining PROVE Stream' /\ Closing'
      OBVIOUS
    <2>1. Stream /\ Closing
      BY DEF WholeInv
    <2>2. Stream'
      BY <1>4, <2>1, StreamStands DEF Top
    <2>3. Queued' = Queued /\ Waiting' = Waiting
      BY <1>4 DEF Queued, Waiting
    <2> QED
      BY <1>4, <2>1, <2>2, <2>3 DEF Closing, Told, Settling
  <1>6. Draining' = Draining /\ FightDone' = FightDone /\ Whole' = Whole
    <2>1. lost' = lost
      BY <1>3 DEF queueVars
    <2> QED
      BY <1>4, <2>1 DEF Draining, FightDone, Whole, Settling
  <1> QED
    BY <1>1, <1>2, <1>4, <1>5, <1>6 DEF WholeInv

(* However the fight ends and however far behind it the drain is, a        *)
(* recording that is published holds every tick of it once, in order and   *)
(* settled; one whose queue overflowed may only end early.                 *)
THEOREM WholeIsPublished == RecSpec => []PublishedWhole
PROOF
  <1>1. RecInit => WholeInv
    <2> SUFFICES ASSUME RecInit PROVE WholeInv
      OBVIOUS
    <2>1. FileInv
      BY RecInitInv DEF RecInit, FileInv, Written, Outputs, Answers
    <2>2. Clock
      BY DEF RecInit, Clock, Rounds, Sampled, FightDone
    <2> QED
      BY <2>1, <2>2 DEF RecInit, WholeInv, Draining
  <1>2. WholeInv /\ [RecNext]_recVars => WholeInv'
    BY HooksWhole, GameWhole, BeginWhole, DrainWhole, EndWhole, FlagsWhole
    DEF RecNext
  <1>3. WholeInv => PublishedWhole
    BY DEF WholeInv, FileInv, Outputs, Whole, PublishedWhole
  <1> QED
    BY <1>1, <1>2, <1>3, PTL DEF RecSpec
=============================================================================
