------------------------------ MODULE Recording ------------------------------
(***************************************************************************)
(* One recorded fight: crates/adapter/src/capture.rs, the hooks the game's *)
(* main thread runs, and the recording series of runtime.rs, which the     *)
(* worker runs.  They share CaptureState under its mutex: the hooks push   *)
(* messages, the worker drains them into an MCFR and, with video_output,   *)
(* a video.  A Training Ground fight goes on frame by frame beside the     *)
(* worker; a replay is fought inside one main-thread call that a third     *)
(* thread waits for.                                                       *)
(*                                                                         *)
(* The game is the environment: its rounds, its logic ticks and its two    *)
(* ways to end a fight, inside FightController.Update or, out of time,     *)
(* outside it.  A snapshot is the number of the tick it was taken at.      *)
(*                                                                         *)
(* A critical section is one action.  The hooks that settle a fight run    *)
(* one after the other, and are one; EnterDeployment's read is FinishDe-   *)
(* ploy's, which fails without it.  Every native read may fail; what sets  *)
(* the game back (the time scale, the camera) is taken to work.            *)
(***************************************************************************)
EXTENDS Integers, Sequences

CONSTANTS
  QUEUE_CAPACITY, (* messages the queue holds                              *)
  MaxTick,        (* bound on the ticks of a fight                         *)
  MaxRecordings   (* bound on the recordings asked for                     *)

ASSUME RecordingAssumption ==
  /\ QUEUE_CAPACITY \in Nat \ {0}
  /\ MaxTick \in Nat
  /\ MaxRecordings \in Nat

VARIABLES
  (* The game.                                                             *)
  stage,        (* of the current fight                                    *)
  asked,        (* whether its round is the one to record                  *)
  tick,         (* its native logic tick                                   *)
  inside,       (* the main thread is inside FightController.Update        *)
  fight,        (* the replay's fight thread                               *)
  fast,         (* Time.timeScale is RECORDING_TIME_SCALE                  *)
  camera,       (* the camera and screen are the calibrated ones           *)
  shown,        (* the tick the last completed render shows                *)
  (* CaptureState.                                                         *)
  armed, initialized, entered,
  awaiting,     (* await_replay_deployment                                 *)
  lastTick,     (* last_native_tick                                        *)
  queue,
  pending,      (* pending_visual                                          *)
  rendered,     (* render_completed                                        *)
  (* The worker's.                                                         *)
  worker,       (* where it stands                                         *)
  op,           (* what is recorded, and how                               *)
  header,       (* the writer exists                                       *)
  wrote,        (* the ticks it was given                                  *)
  frames,       (* what the frames given to the video show                 *)
  settled, terminalSeen,
  peeked,       (* `pending` of drain_recording                            *)
  drained,      (* how reading the capture ended                           *)
  abandoned,    (* ABANDON is set                                          *)
  late,         (* RECORDING_TIMEOUT has passed                            *)
  mcfr, mov,    (* what the two output paths hold                          *)
  answer,
  (* History.                                                              *)
  recordings,   (* how many were asked for: the number of this one         *)
  lost          (* the full queue refused a message of this recording      *)

gameVars == <<stage, asked, tick, inside, fight>>
screenVars == <<fast, camera, shown>>
hookVars == <<initialized, entered, awaiting, lastTick>>
visualVars == <<pending, rendered>>
queueVars == <<armed, queue, lost>>
drainVars == <<header, wrote, frames, settled, terminalSeen, peeked>>
workVars == <<worker, op, drained, answer, recordings>>
fileVars == <<mcfr, mov>>
flagVars == <<abandoned, late>>
recVars == <<gameVars, screenVars, hookVars, visualVars, queueVars, drainVars,
             workVars, fileVars, flagVars>>

(* A recording in the Training Ground scales time or takes video or        *)
(* neither; a replay is fought without a scene and does neither.           *)
Modes == {"training", "replay"}
Recorded ==
  {[mode |-> "training", video |-> v, speed |-> s] :
     v \in BOOLEAN, s \in BOOLEAN}
  \cup {[mode |-> "replay", video |-> FALSE, speed |-> FALSE]}
ScalesTime(o) == o.speed /\ ~ o.video
Replayed == op.mode = "replay"

(* CaptureMessage.  "of" is the recording it was pushed for.               *)
NoFrame == 0
Plain(k) == [kind |-> k, of |-> recordings]
Transition(n, last, f) ==
  [kind |-> "tick", of |-> recordings, n |-> n, last |-> last, frame |-> f]
Ticks == [kind : {"tick"}, of : 1..MaxRecordings, n : 0..MaxTick,
          last : BOOLEAN, frame : 0..MaxTick]
Messages ==
  [kind : {"initial", "settlement", "failure"}, of : 1..MaxRecordings]
  \cup Ticks

NoMessage == [kind |-> "none"]
NoFile == <<>>
UpTo(n) == [i \in 1..n |-> i]

GameTypeOK ==
  /\ stage \in {"none", "deploy", "ready", "fighting", "over"}
  /\ asked \in BOOLEAN /\ tick \in 0..MaxTick /\ inside \in BOOLEAN
  /\ fight \in {"none", "running", "ok", "failed"}
  /\ fast \in BOOLEAN /\ camera \in BOOLEAN /\ shown \in 0..MaxTick

CaptureTypeOK ==
  /\ armed \in BOOLEAN /\ initialized \in BOOLEAN /\ entered \in BOOLEAN
  /\ awaiting \in BOOLEAN /\ lastTick \in 0..MaxTick
  /\ queue \in Seq(Messages) /\ Len(queue) <= QUEUE_CAPACITY
  /\ pending \in Ticks \cup {NoMessage} /\ rendered \in BOOLEAN
  /\ lost \in BOOLEAN

WorkerTypeOK ==
  /\ worker \in {"idle", "drain", "empty", "recheck", "video", "mcfr",
                 "abort", "join", "stop"}
  /\ op \in Recorded
  /\ header \in BOOLEAN /\ settled \in BOOLEAN /\ terminalSeen \in BOOLEAN
  /\ wrote \in Seq(0..MaxTick) /\ frames \in Seq(0..MaxTick)
  /\ peeked \in Messages \cup {NoMessage}
  /\ drained \in {"no", "published", "refused", "failed"}
  /\ abandoned \in BOOLEAN /\ late \in BOOLEAN
  /\ mcfr \in Seq(0..MaxTick) /\ mov \in Seq(0..MaxTick)
  /\ answer \in {"none", "ok", "failed"}
  /\ recordings \in 0..MaxRecordings

RecTypeOK == GameTypeOK /\ CaptureTypeOK /\ WorkerTypeOK

RecInit ==
  /\ stage = "none" /\ asked = FALSE /\ tick = 0 /\ inside = FALSE
  /\ fight = "none" /\ fast = FALSE /\ camera = FALSE /\ shown = 0
  /\ armed = FALSE /\ initialized = FALSE /\ entered = FALSE
  /\ awaiting = FALSE /\ lastTick = 0
  /\ queue = <<>> /\ pending = NoMessage /\ rendered = FALSE
  /\ worker = "idle" /\ op \in Recorded
  /\ header = FALSE /\ settled = FALSE /\ terminalSeen = FALSE
  /\ wrote = <<>> /\ frames = <<>> /\ peeked = NoMessage
  /\ drained = "no" /\ abandoned = FALSE /\ late = FALSE
  /\ mcfr = NoFile /\ mov = NoFile
  /\ answer = "none" /\ recordings = 0 /\ lost = FALSE

-----------------------------------------------------------------------------
(* CaptureState's methods.                                                 *)

HasRoom == Len(queue) < QUEUE_CAPACITY

(* fail(): disarm, and say why if there is room to.                        *)
Fail ==
  /\ armed' = FALSE
  /\ queue' = IF HasRoom THEN Append(queue, Plain("failure")) ELSE queue
  /\ lost' = (lost \/ ~ HasRoom)

(* push(): a full queue disarms, and its error finds no room to be said.   *)
PushKeeping(m, stays) ==
  /\ queue' = IF HasRoom THEN Append(queue, m) ELSE queue
  /\ armed' = (stays /\ HasRoom)
  /\ lost' = (lost \/ ~ HasRoom)
Push(m) == PushKeeping(m, TRUE)

(* flush_visual_frame(): the pending tick goes out with what the screen    *)
(* shows; the terminal one disarms and gives the camera back.              *)
Flush ==
  /\ PushKeeping([pending EXCEPT !.frame = shown], ~ pending.last)
  /\ camera' = (camera /\ ~ pending.last)
  /\ pending' = NoMessage
  /\ rendered' = FALSE

(* The readback fails.                                                     *)
FlushFails == Fail /\ rendered' = FALSE /\ UNCHANGED <<camera, pending>>

(* stop(), on the main thread.                                             *)
Stopped ==
  /\ armed' = FALSE
  /\ fast' = FALSE
  /\ camera' = FALSE
  /\ pending' = NoMessage

-----------------------------------------------------------------------------
(* The hooks.                                                              *)

(* replay_round_pending(): a replay is not captured before its round.      *)
RoundPending == Replayed /\ ~ initialized /\ ~ asked

(* The first snapshot, with the layout, before the fight.                  *)
Initialize(inFight) ==
  /\ Push(Plain("initial"))
  /\ initialized' = TRUE
  /\ awaiting' = FALSE
  /\ entered' = inFight
  /\ lastTick' = tick

(* player_finish_deploy_hook: the final player's call samples the          *)
(* deployment before the game leaves it.                                   *)
FinishDeploy ==
  /\ stage = "deploy"
  /\ stage' = "ready"
  /\ \/ /\ armed /\ awaiting /\ ~ RoundPending
        /\ \/ Initialize(FALSE)
           \/ Fail /\ UNCHANGED hookVars
     \/ UNCHANGED <<queueVars, hookVars>>
  /\ UNCHANGED <<asked, tick, inside, fight, screenVars, visualVars,
                 drainVars, workVars, fileVars, flagVars>>

NoBarrier == FALSE  (* slip: the update does not wait *)

(* The render barrier: an update waits for the pending tick's render.      *)
Barrier == armed /\ camera /\ pending # NoMessage /\ ~ rendered

(* update_hook before the original, which may advance the fight one tick.  *)
UpdateBegin ==
  /\ stage # "none"
  /\ ~ inside
  /\ ~ Barrier
  /\ inside' = TRUE
  /\ IF armed /\ camera /\ pending # NoMessage
     THEN (Flush \/ FlushFails)
          /\ UNCHANGED hookVars
     ELSE /\ UNCHANGED <<camera, visualVars>>
          /\ \/ /\ armed /\ ~ initialized /\ ~ RoundPending
                /\ \/ (awaiting => stage = "ready") /\ Initialize(FALSE)
                   \/ Fail /\ UNCHANGED hookVars
             \/ /\ \/ ~ armed \/ initialized \/ RoundPending
                   \/ awaiting /\ stage = "deploy"
                /\ UNCHANGED <<queueVars, hookVars>>
  /\ \/ UNCHANGED tick
     \/ stage = "fighting" /\ tick < MaxTick /\ tick' = tick + 1
  /\ UNCHANGED <<stage, asked, fight, fast, shown, drainVars, workVars, fileVars,
                 flagVars>>

(* A tick to write: at once, or with video once it has been rendered.      *)
Sample ==
  LET last == entered /\ stage # "fighting"
      m == Transition(tick, last, NoFrame)
  IN  /\ lastTick' = tick
      /\ entered' = (entered \/ stage = "fighting")
      /\ IF camera
         THEN /\ pending' = m
              /\ rendered' = FALSE
              /\ UNCHANGED <<queueVars, fast>>
         ELSE /\ PushKeeping(m, ~ last)
              /\ fast' = (fast /\ ~ (last /\ HasRoom))
              /\ UNCHANGED visualVars

(* update_hook after the original.                                         *)
UpdateEnd ==
  /\ inside
  /\ inside' = FALSE
  /\ \/ /\ ~ armed \/ RoundPending \/ (~ initialized /\ stage # "fighting")
        /\ UNCHANGED <<queueVars, hookVars, visualVars, fast>>
     \/ /\ armed /\ ~ RoundPending
        /\ Fail
        /\ UNCHANGED <<hookVars, visualVars, fast>>
     \/ /\ armed /\ ~ RoundPending /\ ~ initialized
        /\ stage = "fighting" /\ awaiting /\ tick = 0
        /\ Initialize(TRUE)
        /\ UNCHANGED <<visualVars, fast>>
     \/ /\ armed /\ initialized /\ tick = lastTick
        /\ entered' = (entered \/ stage = "fighting")
        /\ UNCHANGED <<initialized, awaiting, lastTick, queueVars, visualVars,
                       fast>>
     \/ /\ armed /\ initialized /\ tick # lastTick
        /\ ~ entered /\ stage # "fighting"
        /\ lastTick' = tick
        /\ UNCHANGED <<initialized, awaiting, entered, queueVars, visualVars,
                       fast>>
     \/ /\ armed /\ initialized /\ tick # lastTick
        /\ entered \/ stage = "fighting"
        /\ Sample
        /\ UNCHANGED <<initialized, awaiting>>
  /\ UNCHANGED <<stage, asked, tick, fight, camera, shown, drainVars,
                 workVars, fileVars, flagVars>>

(* calculate_score_hook for both teams and calculate_result_hook: the      *)
(* fight is over, in its last update or out of time.                       *)
Settle ==
  /\ stage = "fighting"
  /\ tick > 0
  /\ stage' = "over"
  /\ IF armed /\ initialized
     THEN Push(Plain("settlement")) \/ Fail
     ELSE UNCHANGED queueVars
  /\ UNCHANGED <<asked, tick, inside, fight, screenVars, hookVars, visualVars,
                 drainVars, workVars, fileVars, flagVars>>

(* The main camera renders; post_render_hook releases the barrier.         *)
PostRender ==
  /\ ~ inside
  /\ camera
  /\ shown' = tick
  /\ rendered' = (rendered \/ (armed /\ pending # NoMessage))
  /\ UNCHANGED <<gameVars, fast, camera, hookVars, pending, queueVars,
                 drainVars, workVars, fileVars, flagVars>>

(* match_update_hook: the terminal tick, when no update follows it.        *)
MatchUpdate ==
  /\ ~ inside
  /\ armed /\ camera /\ pending # NoMessage /\ rendered
  /\ pending.last
  /\ Flush \/ FlushFails
  /\ UNCHANGED <<gameVars, fast, shown, hookVars, drainVars, workVars,
                 fileVars, flagVars>>

-----------------------------------------------------------------------------
(* The game, where no hook is.                                             *)

(* Deployed, the fight begins, between two updates or in one.              *)
EnterFight ==
  /\ stage = "ready"
  /\ stage' = "fighting"
  /\ UNCHANGED <<asked, tick, inside, fight, screenVars, hookVars, visualVars,
                 queueVars, drainVars, workVars, fileVars, flagVars>>

(* The headless match goes on to its next round.                           *)
NextRound ==
  /\ fight = "running" /\ ~ asked
  /\ stage = "over" /\ ~ inside
  /\ stage' = "deploy"
  /\ asked' = TRUE
  /\ tick' = 0
  /\ UNCHANGED <<inside, fight, screenVars, hookVars, visualVars, queueVars,
                 drainVars, workVars, fileVars, flagVars>>

(* The main-thread call returns: the match is over, or it broke.           *)
FightReturns ==
  /\ fight = "running" /\ ~ inside
  /\ \/ stage = "over" /\ fight' = "ok"
     \/ fight' = "failed"
  /\ stage' = "none"
  /\ UNCHANGED <<asked, tick, inside, screenVars, hookVars, visualVars,
                 queueVars, drainVars, workVars, fileVars, flagVars>>

(* A Training Ground is left between two recordings.                       *)
LeaveMatch ==
  /\ worker = "idle"
  /\ stage # "none" /\ ~ inside
  /\ stage' = "none"
  /\ UNCHANGED <<asked, tick, inside, fight, screenVars, hookVars, visualVars,
                 queueVars, drainVars, workVars, fileVars, flagVars>>

-----------------------------------------------------------------------------
(* The worker: execute_recording_series().                                 *)

QueueKept == queue      (* slip: reset_session() leaves the queue *)
QueueCleared == <<>>

(* reset_session(), for a recording at paths that are free.                *)
Reset ==
  /\ initialized' = FALSE /\ entered' = FALSE /\ lastTick' = 0
  /\ rendered' = FALSE /\ pending' = NoMessage
  /\ lost' = FALSE

NewOperation(o) ==
  /\ op' = o
  /\ recordings' = recordings + 1
  /\ header' = FALSE /\ settled' = FALSE /\ terminalSeen' = FALSE
  /\ wrote' = <<>> /\ frames' = <<>> /\ peeked' = NoMessage
  /\ drained' = "no"
  /\ abandoned' = FALSE /\ late' = FALSE
  /\ mcfr' = NoFile /\ mov' = NoFile

(* StartCapture refuses: a capture is armed, or the game is not where the  *)
(* recording needs it.                                                     *)
StartRefused(o) ==
  /\ worker = "idle" /\ recordings < MaxRecordings
  /\ NewOperation(o)
  /\ answer' = "failed"
  /\ UNCHANGED <<worker, gameVars, screenVars, hookVars, visualVars,
                 queueVars>>

(* It fails once the session is reset, and is stopped.                     *)
StartFails(o) ==
  /\ worker = "idle" /\ recordings < MaxRecordings
  /\ stage = "none" /\ ~ armed
  /\ NewOperation(o)
  /\ Reset /\ armed' = FALSE /\ fast' = FALSE /\ camera' = FALSE
  /\ awaiting' = (o.mode = "replay")
  /\ queue' \in {QueueCleared,
                 Append(QueueCleared,
                        [kind |-> "failure", of |-> recordings + 1])}
  /\ answer' = "failed"
  /\ UNCHANGED <<worker, gameVars, shown>>

(* It arms; the Training Ground is sent into its fight, the replay's       *)
(* thread is started.                                                      *)
StartCapture(o) ==
  /\ worker = "idle" /\ recordings < MaxRecordings
  /\ stage = "none" /\ ~ armed
  /\ NewOperation(o)
  /\ Reset /\ armed' = TRUE
  /\ fast' = ScalesTime(o) /\ camera' = o.video
  /\ awaiting' = (o.mode = "replay")
  /\ queue' = QueueCleared
  /\ tick' = 0
  /\ IF o.mode = "replay"
     THEN stage' = "deploy" /\ asked' \in BOOLEAN /\ fight' = "running"
     ELSE stage' = "ready" /\ asked' = TRUE /\ fight' = "none"
  /\ worker' = "drain"
  /\ answer' = "none"
  /\ UNCHANGED <<inside, shown>>

NeverLate == abandoned  (* slip: no deadline *)

(* drain_recording(): what it looks at before it reads a message.          *)
GivesUp == abandoned \/ late

DrainGivesUp ==
  /\ worker = "drain"
  /\ GivesUp
  /\ drained' = "failed" /\ worker' = "abort"
  /\ UNCHANGED <<gameVars, screenVars, hookVars, visualVars, queueVars,
                 drainVars, op, answer, recordings, fileVars, flagVars>>

(* The next message, the peeked one first.                                 *)
Front == IF peeked # NoMessage THEN peeked ELSE Head(queue)

Reads ==
  /\ worker = "drain"
  /\ ~ GivesUp
  /\ IF peeked # NoMessage
     THEN queue' = queue
     ELSE queue # <<>> /\ queue' = Tail(queue)
  /\ peeked' = NoMessage
  /\ UNCHANGED <<gameVars, screenVars, hookVars, visualVars, armed, lost,
                 op, answer, recordings, fileVars, flagVars>>

DrainHeader ==
  /\ Reads
  /\ Front.kind = "initial" /\ ~ header
  /\ header' = TRUE
  /\ UNCHANGED <<wrote, frames, settled, terminalSeen, worker, drained>>

DrainTick ==
  /\ Reads
  /\ Front.kind = "tick" /\ header
  /\ op.video <=> Front.frame # NoFrame
  /\ wrote' = Append(wrote, Front.n)
  /\ frames' = IF op.video THEN Append(frames, Front.frame) ELSE frames
  /\ terminalSeen' = (terminalSeen \/ Front.last)
  /\ worker' = IF terminalSeen' /\ settled THEN "video" ELSE "drain"
  /\ UNCHANGED <<header, settled, drained>>

DrainSettlement ==
  /\ Reads
  /\ Front.kind = "settlement" /\ ~ settled
  /\ settled' = TRUE
  /\ worker' = IF terminalSeen THEN "video" ELSE "drain"
  /\ UNCHANGED <<header, wrote, frames, terminalSeen, drained>>

(* A failure, a message out of order, a second header or settlement, or a  *)
(* writer that cannot be created or appended to.                           *)
DrainFails ==
  /\ Reads
  /\ Front.kind = "settlement" => settled
  /\ drained' = "failed" /\ worker' = "abort"
  /\ UNCHANGED <<header, wrote, frames, settled, terminalSeen>>

(* Nothing to read.                                                        *)
DrainEmpty ==
  /\ worker = "drain"
  /\ ~ GivesUp
  /\ peeked = NoMessage /\ queue = <<>>
  /\ worker' = "empty"
  /\ UNCHANGED <<gameVars, screenVars, hookVars, visualVars, queueVars,
                 drainVars, op, drained, answer, recordings, fileVars,
                 flagVars>>

FightDone == fight \in {"ok", "failed"}
LooksOnce == "video"  (* slip: what was pushed meanwhile is not read *)
LooksAgain == "recheck"

(* The fight's thread is looked at after the queue was: what the fight     *)
(* pushed in between is still there.                                       *)
AfterEmpty ==
  /\ worker = "empty"
  /\ worker' = IF ~ FightDone THEN "drain" ELSE LooksAgain
  /\ UNCHANGED <<gameVars, screenVars, hookVars, visualVars, queueVars,
                 drainVars, op, drained, answer, recordings, fileVars,
                 flagVars>>

Recheck ==
  /\ worker = "recheck"
  /\ IF queue # <<>>
     THEN /\ peeked' = Head(queue) /\ queue' = Tail(queue)
          /\ worker' = "drain"
          /\ UNCHANGED drained
     ELSE /\ UNCHANGED <<peeked, queue>>
          /\ IF header /\ wrote # <<>> /\ settled
             THEN worker' = "video" /\ UNCHANGED drained
             ELSE worker' = "abort" /\ drained' = "failed"
  /\ UNCHANGED <<gameVars, screenVars, hookVars, visualVars, armed, lost,
                 header, wrote, frames, settled, terminalSeen, op, answer,
                 recordings, fileVars, flagVars>>

(* MovWriter::finish, and McfrWriter::finish after it.                     *)
FinishVideo ==
  /\ worker = "video"
  /\ \/ worker' = "mcfr" /\ mov' = frames /\ UNCHANGED drained
     \/ /\ op.video
        /\ worker' = "abort" /\ drained' = "failed" /\ UNCHANGED mov
  /\ UNCHANGED <<gameVars, screenVars, hookVars, visualVars, queueVars,
                 drainVars, op, answer, recordings, mcfr, flagVars>>

VideoLeft == mov  (* slip: the video stays without its recording *)
VideoRemoved == NoFile

FinishMcfr ==
  /\ worker = "mcfr"
  /\ worker' = "join"
  /\ \/ /\ op.video => Len(frames) = Len(wrote)
        /\ mcfr' = wrote /\ drained' = "published" /\ UNCHANGED mov
     \/ drained' = "refused" /\ mov' = VideoRemoved /\ UNCHANGED mcfr
  /\ UNCHANGED <<gameVars, screenVars, hookVars, visualVars, queueVars,
                 drainVars, op, answer, recordings, flagVars>>

(* A failed recording stops capturing before it waits for the fight.       *)
Abort ==
  /\ worker = "abort"
  /\ Fail
  /\ worker' = "join"
  /\ UNCHANGED <<gameVars, screenVars, hookVars, visualVars, drainVars, op,
                 drained, answer, recordings, fileVars, flagVars>>

(* What the recording is answered.                                         *)
Answered ==
  IF drained = "published" /\ fight # "failed" THEN "ok" ELSE "failed"

StopsFailed == drained = "failed"  (* slip: a published replay is left *)

(* The fight is waited for.  Its failure and the recording's abort once    *)
(* more and stop the capture; so does a replay that was published, for a   *)
(* fight that ran out of time leaves it armed.                             *)
StopsAfter == Replayed \/ drained = "failed"

Join ==
  /\ worker = "join"
  /\ fight # "running"
  /\ IF fight = "failed" \/ drained = "failed" THEN Fail
                                              ELSE UNCHANGED queueVars
  /\ IF StopsAfter THEN worker' = "stop" /\ UNCHANGED answer
                   ELSE worker' = "idle" /\ answer' = Answered
  /\ UNCHANGED <<gameVars, screenVars, hookVars, visualVars, drainVars, op,
                 drained, recordings, fileVars, flagVars>>

StopCapture ==
  /\ worker = "stop"
  /\ ~ inside
  /\ Stopped
  /\ worker' = "idle" /\ answer' = Answered
  /\ UNCHANGED <<gameVars, shown, hookVars, rendered, queue, lost, drainVars,
                 op, drained, recordings, fileVars, flagVars>>

(* ABANDON is set, or the deadline passes, while the drain looks at them.  *)
Draining == worker \in {"drain", "empty", "recheck"}
SetAbandon ==
  /\ Draining /\ ~ abandoned /\ abandoned' = TRUE
  /\ UNCHANGED <<gameVars, screenVars, hookVars, visualVars, queueVars,
                 drainVars, workVars, fileVars, late>>
Deadline ==
  /\ Draining /\ ~ late /\ late' = TRUE
  /\ UNCHANGED <<gameVars, screenVars, hookVars, visualVars, queueVars,
                 drainVars, workVars, fileVars, abandoned>>

Hooks ==
  \/ FinishDeploy \/ UpdateBegin \/ UpdateEnd \/ Settle \/ PostRender
  \/ MatchUpdate
Game == EnterFight \/ NextRound \/ FightReturns \/ LeaveMatch
Begin ==
  \E o \in Recorded : StartRefused(o) \/ StartFails(o) \/ StartCapture(o)
Drain ==
  \/ DrainGivesUp \/ DrainHeader \/ DrainTick \/ DrainSettlement
  \/ DrainFails \/ DrainEmpty \/ AfterEmpty \/ Recheck
Publish == FinishVideo \/ FinishMcfr
End == Abort \/ Join

RecNext ==
  \/ Hooks \/ Game
  \/ Begin \/ Drain \/ Publish \/ End \/ StopCapture
  \/ SetAbandon \/ Deadline

RecSpec == RecInit /\ [][RecNext]_recVars

(* The worker's thread runs, the clock reaches the deadline, an update     *)
(* that began ends, the main queue is served between two updates and the   *)
(* headless call returns.  Nothing is asked of the fight itself.           *)
RecFairness ==
  /\ WF_recVars(Drain \/ Publish \/ End)
  /\ WF_recVars(Deadline)
  /\ WF_recVars(UpdateEnd)
  /\ SF_recVars(StopCapture)
  /\ SF_recVars(FightReturns)

RecFairSpec == RecSpec /\ RecFairness
-----------------------------------------------------------------------------
(* "Published atomically": a file at the output path holds every tick of   *)
(* the fight from S(1) to its last, once and in order, and the settlement, *)
(* whichever way the fight ended and however far behind it the drain was.  *)
(* Where the queue overflowed, it may end early and never has a hole.      *)
PublishedWhole ==
  mcfr # NoFile =>
    /\ mcfr = UpTo(Len(mcfr))
    /\ settled
    /\ lost \/ Len(mcfr) = tick

(* A recording takes the game's time scale, camera and hooks and gives     *)
(* them all back by the time it is answered, whoever of the terminal tick, *)
(* the failure and the stop comes first.                                   *)
GivenBack ==
  worker = "idle" => ~ armed /\ ~ fast /\ ~ camera /\ pending = NoMessage

(* The render barrier: every frame of a video shows the tick it is the     *)
(* frame of, and a video is only ever published whole.                     *)
FramesInStep ==
  /\ op.video => frames = wrote
  /\ mov # NoFile => mov = frames /\ worker \notin {"drain", "empty"}

(* The answer tells what is on the disk: a recording that failed left      *)
(* nothing there, unless its replay failed after it was published, and one *)
(* that succeeded left all it was asked for.                               *)
AnswerTellsFiles ==
  /\ answer = "ok" => mcfr # NoFile /\ (op.video => mov # NoFile)
  /\ answer = "failed" /\ fight # "failed" => mcfr = NoFile /\ mov = NoFile

(* A recording reads its own capture's messages and no other's, whatever   *)
(* one that was aborted left in the queue.                                 *)
OwnMessages ==
  worker # "idle" =>
    /\ \A i \in 1..Len(queue) : queue[i].of = recordings
    /\ peeked # NoMessage => peeked.of = recordings

(* A recording that began is answered: no barrier, fight or hook that      *)
(* never comes holds it past its deadline.                                 *)
RecordingEnds == worker # "idle" ~> worker = "idle"
=============================================================================
