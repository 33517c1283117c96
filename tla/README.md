# A verification project for mechcore

mechcore plays, records and re-computes fights of one game. The game has a
single process, a single main thread and a single scene, and everything that
wants something of it goes through one library inside that process, the
*adapter*. Around it stand the programs that need no game: a match played from
files, the transition from one round to the next, the recomputation of a fight,
and the container a fight is recorded in. This directory holds TLA+ models of
the parts where state is shared or lasts, configurations that check them on
small instances, and proofs that hold for every instance.

The models are written from the source under `src/`; where the documents in
`docs/spec` say something else, the model follows the code, and a run shows the
difference (see *Where the code and its documents part*).

Contents: [the system](#the-system) ·
[modules](#the-modules) · [runs](#the-runs) ·
[disagreements](#where-the-code-and-its-documents-part) · [proofs](#the-proofs) ·
[limits](#what-is-not-modelled) · [plan](#plan)

## The system

Three processes can meet: any number of `mechcore` commands, the game, and,
inside the game, the adapter's threads. A command finds or starts the game
(*acquisition*), connects to a Unix socket, claims a name and a level, and sends
one request per line. A *greeter* thread admits claims, a *reader* per
connection admits requests, and one *worker* serves them, most of them on the
game's main thread. A recording adds *hooks* that the game's main thread runs,
and for a replay a fight thread.

| component | state it keeps | operations | talks to |
|---|---|---|---|
| scheduler (`adapter/scheduler.rs`) | connections with the time of their last scene request, the line, the running request, the lease, tallies, the idle clock | connect, close, enqueue, next, start, finish, drain | called by all adapter threads under one mutex |
| runtime (`adapter/runtime.rs`) | writers, `stopping`, `scene_left`, `ABANDON`, `QUITTING` | greet, admit, next_work, serve, revoke, stop, linger | scheduler; clients by socket; the game's main thread by calls that wait |
| recording (`adapter/capture.rs`, `runtime.rs`, `video.rs`) | CaptureState under its own mutex: armed, the queue, the pending visual; the worker's writer, frames and deadline | start, hooks, poll/drain, abort, stop, finish | hooks push, the worker drains, MCFR and video files |
| acquisition (`mechcore/acquire.rs`, `adapter.rs`, `session.rs`) | none of its own: the process list, the socket path, the probe's answer | probe, wait, retire, launch, join | other commands, through the operating system only |
| operations (`adapter/operations.rs`, `headless.rs`, `offline.rs`, `il2cpp.rs`) | the native game | load, apply, toggle, quit match, replay fight | native calls |
| watch, tournament (`adapter/watch.rs`, `tournament.rs`) | the live match | poll, enter, leave | native calls |
| probes (`adapter/rvo.rs`, `selector.rs`, `statistics.rs`, ...) | one tick's readings | sample | capture |
| match play (`mechcore/match.rs`, `turn.rs`) | the match document, the turn file beside it with both sides' undisclosed decisions, its lock | new, join, show, wait, act, undo, commit | processes of the two players, through these files only |
| deployment (`document/transition.rs`, `ledger.rs`, `landing.rs`) | one side's position: purse, allowances, formations, devices, panel, stock | every decision, opening a round, predict, settle | match play above, fights below |
| MCFR (`mcfr`) | an unfinished file: row buffers, members, tick hashes | create, append, finish; read, number | recording, player, simulation |
| fight (`simulation/fight`) | units, rebirths, shots, creators, towers of one fight | one tick, module by module, and its end | documents in, MCFR out |
| documents, other (`document`) | layouts, replays | normalization, conversion | the commands |
| layout, modifiers (`simulation`) | none: functions of a layout and of tables | load, look up | fight |
| commands (`mechcore`) | one session each | match, turn, play, arena, verify, convert, query | acquisition, adapter, documents, simulation |
| player (`player`) | none that outlives a frame | project | MCFR |

What is hard here, and what makes each component correct:

* **Scheduler.** Long sequences of calls that each take something away from
  three places. *Correct:* a lease excludes; no request is lost or counted
  twice; equals take turns; the published order is the served one; the idle
  clock runs exactly when nobody wants the game.
* **Runtime.** One process-wide flag, set by readers under the mutex and polled
  by the worker outside it, says that *the running request* is to stop, while
  requests come and go; an evicted client's reader goes on for a while; requests
  race `quit_game` and the linger. *Correct:* the flag is never another
  request's and never missing; a turn starts at the main menu; everybody gets an
  answer; a game nobody wants goes.
* **Recording.** Two or three threads and a bounded queue; three things that
  fail independently and one answer; a frame read an update after its tick.
  *Correct:* what is published is whole, the video is in step, the answer tells
  what is on disk, the game's time scale, camera and hooks are given back, and
  every recording ends.
* **Acquisition.** No lock: every look at the world is stale when it is used,
  and the path outlives or predeceases the process. *Correct:* one instance, a
  game is found where it is, a wait is really waited out, a command gets the
  kind of game it asked for, and every acquisition ends.
* **Match play.** Each operation is a process of its own; it may be killed
  between any two of its writes, and the turn file is written in place.
  *Correct:* nothing of a round is disclosed before it is over; what was sealed
  is fought; one seat each; what was played stays; a wait is answered.
* **Deployment.** Long sequences of legal decisions over allocators, allowances
  and a board, and one position computed twice, by a prediction and by a
  settlement. *Correct:* nothing overlaps, is overdrawn or is numbered twice; a
  round opens with what its document states; the two computations agree.
* **MCFR writer.** Buffers that fail halfway, a verification and a rename, and
  targets that are shared. *Correct:* what is published reads back as it was
  appended and stands; what broke is not published.
* **Fight.** One tick asks three times who still stands, each time of other
  state. *Correct:* the end comes once it is decided and never before, every
  fallen tower is told of once, and whoever rises will.

`PROJECT.json` lists every hazard at its line, with the properties that would
notice it.

## The modules

    Scheduler --+-- SchedulerTurns      history: who went in front of whom
                +-- Adapter -- AdapterRefinement -- (INSTANCE) OneGame
                                     |
                               AdapterProofs, of these and of SchedulerTurns
    Recording -- RecordingProofs
    Acquire ---- AcquireProofs
    MatchPlay -+-- MatchRetry           history: the round an operation began in
               +-- MatchPlayProofs
    McfrWriter - McfrWriterProofs
    FightEnd --- FightEndProofs
    Deployment - DeploymentProofs
    FoldFacts                           facts about finite sets, folds and sums,
                                        under the proofs that need them

`MC*` modules only give constants their values. The components meet at
narrow places: `Adapter` contains the whole of `Scheduler`; `Recording` is what
happens inside one of `Adapter`'s `serve` steps; `Acquire` sees of `Adapter`
only whether a game is serving, told somebody it is leaving, or gone. `McfrWriter`
is what `Recording` takes as one step, its `finish()`; `Deployment` is what
`MatchPlay` takes as a change of the document, and `FightEnd` what both take as
an outcome.

**Scheduler.** One action per method, each atomic because the runtime's mutex is
held (`Connect`, `Close`, `Enqueue`, `Start`, `Drop`, `Finish`, `Drain`,
`BecomeReady`), and operators for the methods that only look (`Chosen`,
`RevokeDue`: `next()`; `Order`: `order()`; `OutranksRunning`). The line is a set
of numbered requests, because the vector keeps the order of the numbers. An
`Instant` is an age saturated at the one bound it is compared with.
`SchedSpec` calls the methods as their contract allows. The linger clock, the
lease clock and the counters are the code's.

**Adapter.** Extends `Scheduler` with the threads. A critical section is one
action; what the worker does outside the mutex is one or more, so readers run in
between: `Take*` are the branches of `next_work()` in their order, `End*`,
`ServeDone`, `EnterWatch`, `LeaveWatch`, `Abandon`, `BeginQuit` what follows
outside it. `Admit*` are the branches of `admit()`; `StreamEnds` is the end of a
reader; `Greet`, `TellLeaving` the greeter. What an operation does to the game is
folded into the scene it needs and leaves (`menu`, `match`, ...). Clients
pipeline and hang up at any time.

**OneGame / AdapterRefinement.** What the clients are promised, in seven actions
and without a scheduler: one request at a time, nobody else's under a lease,
each request waits once, is served at most once and answered at most once, and a
stopped game starts nothing. `AdapterRefinement` maps the adapter to it: a
request of a connection that has gone waits for nobody, and a request is being
served until it is answered.

**Recording.** The hooks (`FinishDeploy`, `UpdateBegin`, `UpdateEnd`, `Settle`,
`PostRender`, `MatchUpdate`), the worker (`StartCapture` and its failures, the
`Drain*` steps, `Recheck`, `FinishVideo`, `FinishMcfr`, `Abort`, `Join`,
`StopCapture`), and the game as environment (`EnterFight`, `NextRound`,
`FightReturns`, `LeaveMatch`). Every native read may fail. A snapshot is the
number of the tick it was taken at; that is enough to say that none is missing,
doubled, late or shown in the wrong frame.

**Acquire.** Each look at the world is an action: the probe of the path
(`FirstProbe`, `WaitProbe`), the process list (`WaitLook`, `RetireLook`,
`Look*`), the two requests of a retirement (`AskQueue`, `AskQuit`), the spawn and
the poll after it. A game binds in three steps (`BindLook`, `BindClear`, `Bind`),
lingers, quits, exits (which unlinks the path, whatever it names) and goes, and
may be killed anywhere. An offline game is not in the process list until
`sandbox-exec` has become it (`Exec`).

**MatchPlay.** A process opens the turn file (`Start`), takes its lock and decides
everything in memory (`Take*`, one for each operation), makes its writes one at
a time (`WriteDocument`, `WriteTurn`, `RemoveTurn`), and answers. It may die
before any of them (`Die`) or in the middle of the turn file (`DieWriting`), which
then reads as nothing; the lock dies with it. The document is replaced whole.
Files are inodes, because an operation may hold the lock of a turn file that
another has unlinked. `Settled`, `RunOut` and `Fought` are what every operation
does first: settle what is due, end what is late. The clock is the flag `late`.
**MatchRetry** adds which round each operation began in.

**Deployment.** One action per decision of `transition.rs`; its guards are the
code's refusals. `FightRound` chooses an outcome (`Outcomes`: what the fight may
earn, take or destroy) and opens the next round with `Settle`; `Predict` is the
same round computed from the decisions alone. A draw from a side stream is a
choice, so both are sets of positions.

**McfrWriter.** `Create`, `AppendTick`, `AppendHash`, `AppendInstrument`,
`FinishPacks`, `FinishHashes`, `Publish` and the ways each is refused or fails. An
append writes its rows to buffers and, at the end of a row group, to the
members, and may break off between two tables (`Flushes`); `Opens` and `Reads`
are what the reader accepts.

**FightEnd.** A tick is the sequence of its modules: `Open` (what strikes by
itself, summons that join), `Update` of each side, `StepProjectiles`,
`StepSupportUnits`, `StepDead` (dead effects, rebirths, important units), and
`Close` or `Finish`. Each part may kill any of the units it could reach: who hits
whom is left open, and what then decides the end is not. `StopFight` is the time
limit.

## The runs

Nine runs pass and three find a sentence of the repository's own violated. With
two workers each takes between a second and three minutes.

| run | expects | instance | what it shows |
|---|---|---|---|
| `Scheduler` | pass, 865,049 states | 3 connections of 2 clients on 2 levels, 4 requests, a turn, a lease and a scene operation, clocks of 1 tick | exclusion, conservation, idle clock, published order, fairness among equals |
| `Adapter` | pass, 744,181 | 2 clients, the second outranking the first, 2 and 1 lines, all seven kinds of request, the main menu may fail to return | the ABANDON flag, answers at a stop, and the adapter implements `OneGame` |
| `AdapterLive` | pass, 171,795 | 2 clients of one level, one may hold the lease for ever | a turn starts at the menu, and whatever waits is answered |
| `Recording` | pass, 339,327 | queue of 3, fights of up to 3 ticks, 2 recordings in any mode | wholeness, step, answer, giving back, own messages, termination |
| `Acquire` | pass, 389,743 | a process that launches or joins and one, of another build, that attaches; 2 games beside the player's | one instance, reachability, waiting out, fitness, termination; no deadlock |
| `MatchPlay` | pass, 702,982 | 2 players, rounds 0 and 1, 1 decision a side, 1 death, operations after the end by one of them | secrecy, seals, seats, result, an append-only record, waits answered; no deadlock |
| `McfrWriter` | pass, 3,800,300 | a writer of 3 ticks and one of 1 that share a target, one that keeps hashes alone; row groups of 2 ticks, one failure each | reading back, broken writers stay unpublished, the target stays |
| `Deployment` | pass, 520,151 | 5 main spots and a flank, 2 units, 4 officers, one row of most tables, 2 decisions in round 1 and one in round 2, 3 rounds | what a position may hold, the seams between rounds, prediction against settlement |
| `FightEnd` | pass, 649,313 | a unit that rises and an important one that surfaces against 2 pilots that follow each other; a summon, a shot, a skill and a tower that can fall | settled ends, no early end, no lost rebirth, and that a decided fight ends; no deadlock |
| `OrphanKeepsGame` | violation | 2 clients | see below |
| `CommitAgain` | violation | 2 callers that commit, 1 death | see below |
| `RisenLosesTowers` | violation | the instance of `FightEnd` | see below |

**Why these bounds.** The scheduler compares at most a holder, a running request
and two that wait, and turns are counted per client: three connections of two
clients give a client that asks twice, an equal and a higher level. Ages are only
compared with one bound, so a clock of one tick has every outcome of every
comparison. In the adapter the interesting overlaps are of one eviction or
closing with one request in flight, and one client that pipelines two. In the
recording, three messages fill a queue that a recording puts five or more into,
so it overflows, runs dry and is read ahead; three ticks have a first, an inner
and a last; two recordings make one find what the other left. Two claimants
suffice for every pair of overlapping looks, two games for one that is going and
one that comes. A match of two rounds has the opening, which has no clock, a
round with an offer and a clock, and the end; two processes are all that a lock
tells apart, and one death may fall between any two writes of any operation.
Three ticks in row groups of two give a full group and a short last one; a
failure on any of them breaks off in either table. In `Deployment` three rounds
let a delivery, a debt, a cooldown and a crossing be made in one round, paid in
the next and seen in the third; prices are in units of 50, of which all the rows
taken are multiples. In `FightEnd` a rebirth takes two updates and a creator lives
two, so that each can be interrupted; only one side's tower can be shot, which
leaves both orders of a fall and of the end. The proofs remove these bounds
where they reach.

**Fairness.** Weak fairness of the worker and of each reader (threads that are
ready run, and every operation the worker starts returns: the code gives each a
timeout), of the clock, and of the game reaching its menu after it boots. Nothing
is asked of clients: they may hold a lease or say nothing for ever. In
`Recording`, of the worker, the deadline and the end of an update that has begun;
strong fairness only for two steps that need the main thread between two
updates, which it is infinitely often: `StopCapture`, and `FightReturns`, the end
of the synchronous simulation call. The code waits for that call without a limit,
so `RecordingEnds` rests on the game's own loop ending; of anything inside the
fight, of a render or of a hook nothing is asked. In `Acquire`, of the claimants' own
steps, of their deadlines and of `sandbox-exec`; nothing of the game, which may
stand still for ever. In `MatchPlay`, of a process's own steps and of time; strong
fairness for taking the lock, which a waiting process is free to take again and
again (`wait` lets go of it between two polls). Nobody is made to begin an
operation. In `FightEnd`, of the loop: some part of a tick is always possible (the
run has no deadlock) and each changes `stage`, so weak fairness under the
subscript `stage` is fairness of the loop. Strong fairness of `Lands` says that
every shot in flight hits or is gone in time.

**Deadlock** is checked in `Acquire`, `MatchPlay`, `CommitAgain`, `FightEnd` and
`RisenLosesTowers`; in the fights the step `Over` stands for the program after the
end. The other configurations turn it off since the adapter really stops (the
game quits), and the instances stop when their requests, recordings, ticks or
rounds are used up.

## Where the code and its documents part

Each violation run checks one sentence of the repository's own.

* `OrphanKeepsGame` (`UnwantedGameQuits`). A reader may admit a request that was
  buffered when its connection was evicted. `enqueue()` clears the idle clock for
  it, `start()` drops it without settling that clock, and the game never lingers
  out again.
* `CommitAgain` (`SealsItsRound`). `commit` settles before it seals. Where the
  process that committed last died before it settled, a commit tried again by
  the other side settles that round and then seals the one after it, without a
  decision.
* `RisenLosesTowers` (`StandersKeepTowers`). A tick counts a side's living units
  before its rebirths and asks only at its end who rises. A side whose last unit
  stands up on the tick the other side loses its last is counted empty and no
  longer rising, wins, and loses its towers.

Met on the way, visible in the models, and where a property excepts them, named
there:

* The idle age of a lease is counted from the holder's connection or last scene
  request, never from the grant: a lease long waited for can be taken back at
  once.
* The published order ignores a held lease, though the document calls it "would
  be served now" (`OrderKept` is stated for a free lease only).
* A `status` of the holder that arrives after the drain is queued and never
  answered (`StopAnswersAll` says so); nor is a second `quit_game`.
* An abandoned watch leaves the game in its match, and a failed return to the
  menu is only logged; the next turn starts elsewhere. `TurnAtMenu` is claimed
  without watches and with `MenuReturns` `TRUE`; `KeepsPromise` with both.
* A replay whose fight breaks after its last tick was drained leaves a published
  file behind a failed answer, against adapter.md; `AnswerTellsFiles` excepts it.
* `launch()` takes the first game that answers for the one it started. Of two
  overlapping launches the offline one can be answered with the online game;
  `OneInstance`, `Reachable` and `ServedAsAsked` hold for one launching process at a
  time.
* A retirement asks `queue` and then `quit_game`, and a client may connect in
  between; a claim that probes while another's game boots, or during its exit
  without having been told to wait, is told there is a foreign game.
* An append that follows one the storage refused clears what `finish()` would have
  refused the file for. No caller in the repository goes on after a refusal;
  `ReadsBack` and `BrokenStaysUnpublished` except it (`healed`).
* A fight that destroys a contraption frees ground on which a delivery may land
  elsewhere than predicted, or at all; `PredictedIsSettled` compares landings only
  where none was destroyed.
* A surfacing unit that dies before its creator's only update leaves the creator,
  which nothing takes away, and the fight runs to the time limit; underground.md
  says that creator lasts one update. `FightEnds` excepts it (`Orphaned`).

## The proofs

Eight modules, `FoldFacts`, `AdapterProofs` (the scheduler's proofs included),
`RecordingProofs`, `AcquireProofs`, `MatchPlayProofs`, `McfrWriterProofs`,
`DeploymentProofs` and `FightEndProofs`, are checked to the last leaf by TLAPS. They
assume the named assumption of each module (`SchedulerAssumption` and so on: what the
constants are) and, where a bullet says so, one hypothesis more that the theorem
states itself. They hold for any number of connections, clients, requests, ticks,
recordings, claimants, games, players' processes, rounds, decisions, tables, deaths,
writers and units. No bound of the runs is used. The
type invariant of every module is proved; those of the modules whose runs ask other
questions (`SchedTypeOK`, `RecTypeOK`, `AcqTypeOK`, `MatchTypeOK`, `McfrTypeOK`)
are therefore no property of a run.

* **FoldFacts**: what the community modules' `MapThenFoldSet`, and with it a sum
  over a finite set, returns. The library's induction theorems take an operator as a
  parameter, which no prover here can instantiate; the facts are stated with a *set*
  of subsets instead (a set that holds the empty set and is closed under adding one
  element holds every finite set), which they can.

* **Scheduler**: `TypeCorrect`, `LeaseIsExclusive`, `SceneNeedsLease`,
  `IdleIsExact`, `OrphansNeverWait`. The invariant comes in two layers.
  `LeaseInv` (types, a finite line, `LeaseExcludes`, `SceneUnderLease`) is kept by
  every method whoever calls it, and is reused for the adapter, which does *not*
  respect the scheduler's contract: an evicted client's request is put in line.
  `SchedInv` adds what needs the contract (`OnlyOpenWait`, `IdleExactly`). That the
  line is finite is needed because what a close adds to a tally is a difference of
  sizes. On top of it: `OrderIsKept` (`OrderKept`); `NothingLost` (`AllCounted`, for
  finitely many clients), where each method moves a request from one term of the
  sum to another; and `ClientsTakeTurns` (`NoneGoesTwice`), over the history of
  `SchedulerTurns`: whoever had a turn in front of a waiting client was served after
  it (`TurnsInv`), so the pick does not fall on him again.
* **Adapter**: `NoStrayAbandon`, `NoLostAbandon`, `AdapterLeaseExcludes`,
  `AdapterSceneUnderLease`, `AdapterTypeCorrect`, `TurnsStartAtMenu` (`TurnAtMenu`,
  of an adapter without watches whose return to the menu works). `AdapterInv` adds to `LeaseInv` that the worker is busy
  exactly when a request runs, and that a claim not yet greeted has asked for
  nothing. The argument: a reader sets the flag in the critical section that gives
  the reason, the worker clears it only where nothing runs, in the critical section
  that starts the next request, and `next()` never starts a request somebody
  waiting outranks.
* **Adapter refinement**: `PromiseKept` (the refinement `KeepsPromise` of
  `OneGame`), over `PromiseInvariance`, and `StopIsAnswered` (`StopAnswersAll`).
  `PromiseInv` says that a line a client has written is in at most one place,
  not yet parsed, in line, running or remembered as the `quit_game`, and has had no
  answer while it is in one of them (`Fresh`, `Waiters`, `Runner`, `Quitter`): that
  is why each step that answers, begins or drops a line is *one* step of `OneGame`.
  `Alone` adds that the linger clock runs only with nobody connected, so a game that
  quits of itself owes no answer. For the stop, `StopInv` adds that what a client
  was last told is so (`Heard`), and that a game that stops has drained its line and
  lets only a status in it, or has nobody connected and greets nobody more (`Late`).
* **Recording**: `RecordingTypeCorrect`, `GameIsGivenBack`, `MessagesAreOwn`,
  `VideoKeepsStep`, `FilesAreAnswered`, `WholeIsPublished`. `GivenBack` alone is not inductive: a recording that ends
  without a stop relies on its terminal tick having given everything back, so
  `RecInv` says that whoever holds a last tick, in the queue or in hand, finds the
  game released (`LastReleases`), and by which ways a recording can reach its end
  (`WaysOut`). For the video, that the pending tick is the game's own until it is
  pushed, that what is rendered meanwhile is that tick, and that the queued frames
  are right already (`InStep`). For the files, that what each path holds is what the
  end of the drain leaves there (`Outputs`), that nothing is published that was not
  written (`Written`), and what the answer has heard of the fight (`Answers`).
  `WholeIsPublished` is the long one. `Clock` ties the capture's last tick to the
  game's: equal between two updates, at most one behind inside one, and zero until
  the fight is entered. `Stream` says that the ticks from the one that is due to the
  last one sampled are in hand, queued or pending, each once and in order, so what is
  read next is the one that is due. `Closing` says that a last tick is the fight's
  last, and that a capture that is no longer armed has overflowed or has its failure
  or its last tick still to be read: the second look at the queue after the fight's
  thread has ended cannot miss a tick.
* **Acquisition**: `AcquireTypeCorrect`, `WaitIsWaitedOut`, the latter with launches
  that overlap; `OneGameRuns` (`OneInstance`), `GameIsReachable` (`Reachable`) and
  `LaunchIsServedAsAsked` (`ServedAsAsked`) for any claimant that launches alone: that
  launches which overlap break all three is what the code does. `WaitInv` adds that a game that told a claim to wait can only go on
  to its exit, and that a claimant that retired a game it waited for has seen every
  process gone.
* **Match play**: `MatchTypeCorrect`, `DecisionsStaySecret`, `ResultIsSound`. That the document
  discloses nothing is not inductive while writes are pending: `DiskOK` says it of
  the document, and `ProcOK` of every document a process has decided to write.
  The rest is that `Settled`, `RunOut` and every operation lead from such
  documents to such documents, whatever the turn file holds. For the result,
  both say too that it agrees with the document's end (`Agrees`): a concession
  is recorded, and a round fought, only in a match where both cores still stand.
  `RoundsStay` (`PlayedStays`), `SealsHold` (`SealedIsFought`) and `SeatsAreTaken`
  (`OneSeatEach`) need more, since the document, the turn file and the seats are
  written one after another and a process may die in between. `PlayInv` says that
  what the holder of the lock still has to write is a script, every prefix of which
  leaves files that agree (`Scripts`); that whoever is past the lock holds it
  (`Busy`); that, until the match is over, there is one turn file and so one holder
  at a time (`Alone`); that a seat taken is the same in the file and in what is to
  be written (`Seats`); and that a sealed side's decisions are the document's
  (`Pledges`).
* **MCFR writer**: `BrokenIsUnpublished`, `PublishedForGood`, `PublishedReadsBack`,
  `McfrTypeCorrect`.
  The invariant: the storage's list of ticks is the writer's own as long as no
  append broke off (`InListOrder`), a writer remembers a failure until something
  clears it (`Remembers`), what is packed has been verified (`Verified`), and what
  was published is what stands (`Stands`). That what is read back is what was appended
  (`ReadsBack`) is `RowsInv`: while no append has broken off, the disk and the
  buffers together hold the rows of exactly the accepted ticks, each tick's under its
  own places (`RowsOK`, `Numbered`, `Covered`), and packing keeps them (`Kept`).
* **Deployment**: `DeployTypeCorrect` (`DeployTypeOK`), `SeamsAreKept` (`SeamsHold`)
  and `PredictionHolds` (`PredictedIsSettled`), for any board, deal, offers and fights, and any tables of which
  `TablesAssumption` and `DeploymentAssumption` hold: prices are whole numbers, no
  officer or item takes from an income, and the tower skills of a round together
  owe no more than the next one pays. The shipped `config/` is such: only Rapid
  Resupply owes, 300, and round 2 pays 400. `DeployInv` says that a position is
  `Good`: what it holds lies below its allocators, and every formation stands clear of
  the other formations, the constructions and the contraptions that collide, at
  most its slots worn, and crossing only on a flank. Each operator that changes a
  position is shown once to lead from `Good` to `Good` (`ResetGood`, `ArrivedGood`,
  `FoughtGood`, and by folds over sequences of sets of positions the deliveries),
  and to lose nothing that a seam keeps. What makes a purse end above zero is the
  decision's own `Affordable`, and at an opening the assumption on what is owed;
  what makes indices unique is that the allocators only rise. The prediction is a
  simulation between two folds over sequences of sets of positions. `Rel` relates a
  predicted position to a settled one: they agree in what the fight does not decide
  (`Agree`), and the settled board has the predicted one's room, and more of it only
  where a contraption was destroyed. The fight makes such a pair (`FoughtRel`), the
  opening of a round and each officer's delivery keep it (`ResetRel`, `DeliverRel`),
  and since every predicted position has the same room (`Matched`), a delivery that
  finds none on one finds none on any, and the prediction is empty.
* **Fight**: `Settled` (`EndIsSettled`) and `OneSideLeft` (`NotWhileBothStand`).
  `FightInv` adds, for every moment of a tick, that a tower that is down has been
  told of once unless it was torn down as the last tick ended (`Count`), and that
  none is left to tell of once the tick has begun (`Kept`); `OneSideLeft` follows
  from what `Finish` asks alone, whoever has died and risen before it.
  `FightTypeCorrect` (`FightTypeOK`) and `RisersAreTasked` (`RisingIsTasked`) go
  through the folds of the dead and of the reborn: every order in which a tick's
  dead are taken keeps the types and leaves each riser one task.

Every inductive invariant was first checked by TLC on instances like those of the
runs.

Model-checked only: the liveness properties (`EveryTurnComes`, `RecordingEnds`,
`AcquireEnds`, `WaitEnds`, `FightEnds`), which need fairness, out of the prover's
reach. Every safety property of the passing runs is proved.

## What is not modelled

* The contents of snapshots and layouts, JSON framing, peer credentials, and the
  wording of errors: data that no property here tells apart.
* Time inside a critical section: that a client that does not read blocks a write
  under the mutex for up to 30 s, and that one silent claim holds the greeter.
* In `Adapter`: what an operation does to the game apart from the scene; the
  asynchronous load of `start_test` is part of it.
* In `Recording`: setters that restore the time scale or the camera are taken to
  work; the instrument channels; a crash of the game between the publication of
  the video and of the MCFR, which leaves the video alone. An overflow of the
  queue may truncate a published replay; with the real capacity of 4096, and rounds
  that run out of time at tick 2360, it is out of reach, and `PublishedWhole` says so (`lost`).
* In `Acquire`: the wait for readiness of a session that has connected; a
  `sandbox-exec` that outlasts the launch timeout.
* In `MatchPlay`: a decision is one of four kinds, which is what the phases tell
  apart; names, views and dry runs; writes that fail in a process that lives on;
  `fork`, and a `new` that is refused after it created the turn file.
* In `Deployment`: spots have one size and the order a landing prefers them in, so
  that shapes, rotation and the frame of the other side are out; officers change
  every unit alike; rows without a price are out; what a side stream draws is a
  choice; targets of a release are abstracted to the order of their release. One
  side is modelled, since no decision of a side reads the other's position. Giving
  up is in `MatchPlay`. The deal of openings and offers is a constant.
* In `McfrWriter`: the columns of the tables, the writer in memory, the renumbering
  of a producer's units. All tables of objects are one.
* In `FightEnd`: who hits whom, motion, search, skills and every number of a hit;
  units that are controlled, turned, switched off, travelling or sacrifice
  themselves; the collisions a crystal still owes; one tower a side; production
  lines make a bounded number of units. The order of the dead of one tick is left
  open.
* The operations, watches and probes of the adapter are calls into the game, whose
  code is not here. The columns of the storage, the tables of units, technologies
  and modifiers, the conversion of layouts and replays, and the kinematics of a
  fight are data and arithmetic over large numbers: most of the repository's lines,
  out of a model checker's reach, and checked by the repository against recordings
  of the game, tick by tick. That is why the models map a small share of all
  lines.
* Player, configuration, scripts and assets.

## Plan

Done: the scheduler, the adapter and its refinement, recording, acquisition, match
play, the MCFR writer, the deployment and the end of a fight, with the proofs above.

What is left, in this order:

1. **LayoutNormal** (`document/normalize.rs`): normalization as an operator, checked
   to be a fixed point that keeps what a layout means on small boards.
2. **FightSkills** (`simulation/fight/skill`, `motion`): the state machines of a skill
   and of a move between two ticks, with an interrupted cast and a target that dies.
3. `Adapter`: the asynchronous scene load, and the greeter's backlog.
4. `McfrWriter` composed with `Recording` in place of its one-step `FinishMcfr`, and
   `Deployment` with `MatchPlay` in place of its documents.

Proofs to come: with each of these modules, its type invariant and safety
properties.
