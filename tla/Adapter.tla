------------------------------- MODULE Adapter -------------------------------
(***************************************************************************)
(* The adapter inside the game: crates/adapter/src/runtime.rs around the   *)
(* Scheduler.  A greeter thread admits claims, one reader thread per       *)
(* connection admits requests, and one worker thread gives out the turns   *)
(* and owns the game.  What a thread does with the mutex held is one       *)
(* action; what the worker does outside it is one or more of its own, so   *)
(* the readers run in between.                                             *)
(*                                                                         *)
(* The clients are the environment: they send, pipeline and hang up as     *)
(* they like.  A line a client has written is a number; which operation it *)
(* asks for is chosen when the reader parses it.                           *)
(*                                                                         *)
(* State.writers is not a variable: a writer is put in with its connection *)
(* and taken out with it, in one critical section each, so the connections *)
(* with a writer are the open ones.                                        *)
(***************************************************************************)
EXTENDS Scheduler

CONSTANTS
  MaxAsked,   (* bound on the lines each connection sends                  *)
  MenuReturns (* whether the game always comes back to its main menu       *)

ASSUME AdapterAssumption ==
  MaxAsked \in [Conn -> Nat] /\ MenuReturns \in BOOLEAN

VARIABLES
  socket,     (* each connection's stream, as its reader finds it          *)
  asked,      (* lines each client has written                             *)
  unread,     (* how many of them its reader has not parsed                *)
  reply,      (* what each request has been answered, by number            *)
  worker,     (* where the worker thread stands                            *)
  evictee,    (* the connection the worker is shutting down                *)
  outcome,    (* how the request that ran has ended                        *)
  abandon,    (* ABANDON: why the running request is to stop               *)
  byLevel,    (* ABANDON_LEVEL                                             *)
  stopping,   (* who asked quit_game, and with which request               *)
  quitting,   (* QUITTING: the game has started to quit                    *)
  sceneLeft,  (* a lease ended where its holder left the scene             *)
  statusDue,  (* the game has not been asked its status for an interval    *)
  scene       (* where the game is                                         *)

adapterVars == <<socket, asked, unread, reply, worker, evictee, outcome,
                 abandon, byLevel, stopping, quitting, sceneLeft,
                 statusDue, scene>>
vars == <<schedVars, adapterVars>>

(* Groups of variables an action leaves alone.                             *)
flagVars == <<abandon, byLevel>>
gameVars == <<scene, quitting>>
workVars == <<worker, evictee, outcome>>
lineVars == <<socket, asked, unread>>

NoStop == [conn |-> NoConn, id |-> 0]
Requests(c) == 1..MaxAsked[c]

(* "none" has been told nothing; "waiting" is a quit_game that was taken;  *)
(* "queued" and "started" announce a turn; the others are responses.       *)
Announced == {"none", "waiting", "queued", "started"}
Responses == {"ok", "failed", "invalid", "no_lease", "evicted", "cancelled",
              "game_stopped"}

AdapterTypeOK ==
  /\ SchedTypeOK
  /\ socket \in [Conn -> {"new", "open", "hung", "shut", "gone"}]
  /\ \A c \in Conn : asked[c] \in 0..MaxAsked[c] /\ unread[c] \in 0..asked[c]
  /\ \A c \in Conn :
       reply[c] \in [Requests(c) -> Announced \cup Responses]
  /\ worker \in {"free", "menu", "status", "revoke", "serve", "watching",
                 "finish", "stop", "quit", "over"}
  /\ evictee \in Conn \cup {NoConn}
  /\ outcome \in BOOLEAN
  /\ abandon \in {"keep", "outranked", "disconnected", "stopped"}
  /\ byLevel \in 0..MAX_LEVEL
  /\ stopping \in [conn : Conn, id : Nat] \cup {NoStop}
  /\ quitting \in BOOLEAN
  /\ sceneLeft \in BOOLEAN
  /\ statusDue \in BOOLEAN
  /\ scene \in {"boot", "menu", "training", "watch"}

AdapterInit ==
  /\ SchedInit
  /\ socket = [c \in Conn |-> "new"]
  /\ asked = [c \in Conn |-> 0]
  /\ unread = [c \in Conn |-> 0]
  /\ reply = [c \in Conn |-> [i \in Requests(c) |-> "none"]]
  /\ worker = "free"
  /\ evictee = NoConn
  /\ outcome = FALSE
  /\ abandon = "keep"
  /\ byLevel = 0
  /\ stopping = NoStop
  /\ quitting = FALSE
  /\ sceneLeft = FALSE
  /\ statusDue = TRUE
  /\ scene = "boot"

(* answer(): a client is told only while there is a writer for it.         *)
Told(c, i, what) ==
  IF c \in connections THEN [reply EXCEPT ![c][i] = what] ELSE reply

-----------------------------------------------------------------------------
(* The greeter.                                                            *)

(* A claim is greeted, unless the game has started to quit.                *)
Greet(c) ==
  /\ worker # "over"
  /\ socket[c] = "new"
  /\ ~ quitting
  /\ Connect(c)
  /\ socket' = [socket EXCEPT ![c] = "open"]
  /\ UNCHANGED <<asked, unread, reply, workVars, flagVars, gameVars,
                 stopping, sceneLeft, statusDue>>

TellLeaving(c) ==
  /\ worker # "over"
  /\ socket[c] = "new"
  /\ quitting
  /\ socket' = [socket EXCEPT ![c] = "gone"]
  /\ UNCHANGED <<schedVars, asked, unread, reply, workVars,
                 flagVars, gameVars, stopping, sceneLeft, statusDue>>

-----------------------------------------------------------------------------
(* The clients.                                                            *)

Send(c) ==
  /\ socket[c] = "open"
  /\ asked[c] < MaxAsked[c]
  /\ asked' = [asked EXCEPT ![c] = @ + 1]
  /\ unread' = [unread EXCEPT ![c] = @ + 1]
  /\ UNCHANGED <<schedVars, socket, reply, workVars, flagVars,
                 gameVars, stopping, sceneLeft, statusDue>>

HangUp(c) ==
  /\ socket[c] = "open"
  /\ socket' = [socket EXCEPT ![c] = "hung"]
  /\ UNCHANGED <<schedVars, asked, unread, reply, workVars,
                 flagVars, gameVars, stopping, sceneLeft, statusDue>>

-----------------------------------------------------------------------------
(* A connection's reader: read_requests() and admit().                     *)

(* The reader parses the next line.  A stream the adapter shut down still  *)
(* yields the lines its BufReader holds.                                   *)
Parses(c, i) ==
  /\ worker # "over"
  /\ socket[c] \in {"open", "hung", "shut"}
  /\ unread[c] > 0
  /\ i = asked[c] - unread[c] + 1
  /\ unread' = [unread EXCEPT ![c] = @ - 1]
  /\ UNCHANGED <<socket, asked, workVars, gameVars, sceneLeft,
                 statusDue>>

Holder(c) == lease = c

(* Slip: a stopping game goes on putting requests in line.                 *)
RefusesNothing(op) == FALSE

(* A stopping game takes nothing but what it answers at once.              *)
Refuses(op) == stopping # NoStop /\ op \notin Immediate

(* Answered at once: queue, status of a client that does not hold the      *)
(* game, and a lease its holder already has.                               *)
AdmitAtOnce(c, op) ==
  \E i \in Requests(c) :
    /\ Parses(c, i)
    /\ \/ op = "queue"
       \/ op = "status" /\ ~ Holder(c)
       \/ op = "lease" /\ Holder(c) /\ ~ Refuses(op)
    /\ reply' = Told(c, i, "ok")
    /\ UNCHANGED <<schedVars, flagVars, stopping>>

(* A line that is no request is answered so.                               *)
AdmitInvalid(c) ==
  \E i \in Requests(c) :
    /\ Parses(c, i)
    /\ reply' = Told(c, i, "invalid")
    /\ UNCHANGED <<schedVars, flagVars, stopping>>

(* Refused: the game is stopping, or a scene operation without the lease.  *)
AdmitRefused(c, op) ==
  \E i \in Requests(c) :
    /\ Parses(c, i)
    /\ \/ Refuses(op) /\ reply' = Told(c, i, "game_stopped")
       \/ /\ ~ Refuses(op) /\ op \in Leased /\ ~ Holder(c)
          /\ reply' = Told(c, i, "no_lease")
    /\ UNCHANGED <<schedVars, flagVars, stopping>>

(* quit_game: the first one is remembered and stops whatever runs.         *)
AdmitQuit(c, op) ==
  \E i \in Requests(c) :
    /\ Parses(c, i)
    /\ op = "quit_game"
    /\ IF stopping = NoStop
       THEN stopping' = [conn |-> c, id |-> i] /\ abandon' = "stopped"
       ELSE UNCHANGED <<stopping, abandon>>
    /\ reply' = Told(c, i, "waiting")
    /\ UNCHANGED <<schedVars, byLevel>>

(* Everything else goes in line, and may stop the running request.         *)
AdmitInLine(c, op) ==
  \E i \in Requests(c) :
    /\ Parses(c, i)
    /\ sequence < MaxSequence
    /\ ~ Refuses(op)
    /\ \/ op \in {"status"} \cup Leased /\ Holder(c)
       \/ op = "lease" /\ ~ Holder(c)
       \/ op \in Turn \ {"lease"}
    /\ Enqueue(c, op, i)
    /\ reply' = Told(c, i, "queued")
    /\ IF OutranksRunning(c)
       THEN abandon' = "outranked" /\ byLevel' = LevelOf[c]
       ELSE UNCHANGED flagVars
    /\ UNCHANGED stopping

Admit(c) ==
  \/ AdmitInvalid(c)
  \/ \E op \in Ops :
       \/ AdmitAtOnce(c, op)
       \/ AdmitRefused(c, op)
       \/ AdmitQuit(c, op)
       \/ AdmitInLine(c, op)

LeavesNoScene(c) == FALSE  (* slip: only an eviction owes a main menu        *)
LeavesScene(c) == lease = c

(* The stream ends: the connection leaves the line, unless a revocation    *)
(* already took it out.                                                    *)
StreamEnds(c) ==
  /\ worker # "over"
  /\ \/ socket[c] = "hung" /\ unread[c] = 0
     \/ socket[c] = "shut"
  /\ socket' = [socket EXCEPT ![c] = "gone"]
  /\ IF c \in connections THEN Close(c) ELSE UNCHANGED schedVars
  /\ abandon' = IF c \in connections /\ running.conn = c
                THEN "disconnected" ELSE abandon
  /\ sceneLeft' = (sceneLeft \/ LeavesScene(c))
  /\ UNCHANGED <<asked, unread, reply, workVars, byLevel, gameVars, stopping,
                 statusDue>>

-----------------------------------------------------------------------------
(* The worker: next_work() under the mutex, in the order it asks.          *)

Free == worker = "free"
AsksScheduler ==
  Free /\ stopping = NoStop /\ ~ sceneLeft /\ ~ statusDue

(* Work::Stop: everything waiting is answered game_stopped.                *)
TakeStop ==
  /\ Free
  /\ stopping # NoStop
  /\ Drain
  /\ reply' = [c \in Conn |-> [i \in Requests(c) |->
       IF c \in connections /\ \E w \in queue : w.conn = c /\ w.id = i
       THEN "game_stopped" ELSE reply[c][i]]]
  /\ worker' = "stop"
  /\ UNCHANGED <<lineVars, evictee, outcome, flagVars, gameVars,
                 stopping, sceneLeft, statusDue>>

(* Work::ReturnToMenu: the next turn is owed a main menu.                  *)
TakeMenu ==
  /\ Free
  /\ stopping = NoStop
  /\ sceneLeft
  /\ sceneLeft' = FALSE
  /\ abandon' = "keep"
  /\ worker' = "menu"
  /\ UNCHANGED <<schedVars, lineVars, reply, evictee, outcome,
                 byLevel, gameVars, stopping, statusDue>>

(* Work::ReadStatus.                                                       *)
TakeStatus ==
  /\ Free
  /\ stopping = NoStop
  /\ ~ sceneLeft
  /\ statusDue
  /\ worker' = "status"
  /\ UNCHANGED <<schedVars, lineVars, reply, evictee, outcome,
                 flagVars, gameVars, stopping, sceneLeft, statusDue>>

AbandonStands == UNCHANGED abandon  (* slip: the flag of the last request    *)
AbandonForgotten == abandon' = "keep"

(* Work::Run: whatever abandoned the last request is not this one's.       *)
TakeTurn(w) ==
  /\ AsksScheduler
  /\ Start(w)
  /\ AbandonForgotten
  /\ reply' = Told(w.conn, w.id, "started")
  /\ worker' = "serve"
  /\ UNCHANGED <<lineVars, evictee, outcome, byLevel, gameVars,
                 stopping, sceneLeft, statusDue>>

(* next() drops a request nobody is connected for, and the worker waits.   *)
TakeNothing(w) ==
  /\ AsksScheduler
  /\ Drop(w)
  /\ UNCHANGED adapterVars

(* Work::Revoke: the holder is closed here, and told outside the mutex.    *)
TakeLeaseBack ==
  /\ AsksScheduler
  /\ RevokeDue
  /\ Close(lease)
  /\ sceneLeft' = TRUE
  /\ evictee' = lease
  /\ worker' = "revoke"
  /\ UNCHANGED <<lineVars, reply, outcome, flagVars, gameVars, stopping,
                 statusDue>>

(* Work::Quit: nobody has wanted the game for its linger time.             *)
TakeQuit ==
  /\ AsksScheduler
  /\ ~ RevokeDue
  /\ \A w \in queue : ~ Chosen(w)
  /\ idleFor >= Linger
  /\ quitting' = TRUE
  /\ worker' = "stop"
  /\ UNCHANGED <<schedVars, lineVars, reply, evictee, outcome,
                 flagVars, scene, stopping, sceneLeft, statusDue>>

-----------------------------------------------------------------------------
(* The worker outside the mutex.                                           *)

(* return_to_main_menu() for the next turn.  A game that does not come     *)
(* back is only logged.                                                    *)
EndMenu ==
  /\ worker = "menu"
  /\ scene' \in IF MenuReturns THEN {"menu"} ELSE {"menu", scene}
  /\ worker' = "free"
  /\ UNCHANGED <<schedVars, lineVars, reply, evictee, outcome,
                 flagVars, quitting, stopping, sceneLeft, statusDue>>

(* The first main menu the game reports makes it ready.                    *)
EndStatus ==
  /\ worker = "status"
  /\ IF scene = "menu" THEN BecomeReady ELSE UNCHANGED schedVars
  /\ statusDue' = FALSE
  /\ worker' = "free"
  /\ UNCHANGED <<lineVars, reply, evictee, outcome, flagVars,
                 gameVars, stopping, sceneLeft>>

(* The evicted holder is told, and its stream shut down.                   *)
EndRevoke ==
  /\ worker = "revoke"
  /\ socket' = [c \in Conn |->
       IF c = evictee /\ socket[c] = "open" THEN "shut" ELSE socket[c]]
  /\ evictee' = NoConn
  /\ worker' = "free"
  /\ UNCHANGED <<schedVars, asked, unread, reply, outcome, flagVars,
                 gameVars, stopping, sceneLeft, statusDue>>

(* The operations that poll ABANDON while they wait.                       *)
Polls == {"record_replay_round", "record_watch_replay", "tournament",
          "apply_layout", "record_fight"}

(* Where an operation finds the game it needs.  The others do not look.    *)
Needs(op) ==
  CASE op \in {"record_replay_round", "record_watch_replay", "start_test"} ->
         {"menu"}
    [] op \in {"apply_layout", "record_fight"} -> {"training"}
    [] op \in {"toggle_fight", "speed_up", "quit_match"} ->
         {"training", "watch"}
    [] OTHER -> {"menu", "training", "watch"}

(* Where it leaves the game when it succeeds, the load folded in.          *)
Leaves(op) ==
  CASE op = "start_test" -> "training"
    [] op = "quit_match" -> "menu"
    [] OTHER -> scene

(* serve() answers the request with what became of it, to the writer it    *)
(* was started with.                                                       *)
Ends(ok, what) ==
  /\ outcome' = ok
  /\ reply' = [reply EXCEPT ![running.conn][running.id] = what]
  /\ worker' = "finish"
  /\ UNCHANGED <<schedVars, lineVars, evictee, flagVars, quitting,
                 stopping, sceneLeft, statusDue>>

(* The operation does what it was asked, a watch that finds no eligible    *)
(* match included.                                                         *)
ServeDone ==
  /\ worker = "serve"
  /\ scene \in Needs(running.op)
  /\ scene' = Leaves(running.op)
  /\ Ends(TRUE, "ok")

(* It fails, for want of the scene it needs or for any reason of its own;  *)
(* the game stays where it is.                                             *)
ServeFailed ==
  /\ worker = "serve"
  /\ running.op \notin {"lease", "status"}
  /\ UNCHANGED scene
  /\ Ends(FALSE, "failed")

(* A watched match: entered from the main menu, and left when it is saved  *)
(* or the entry has failed.                                                *)
EnterWatch ==
  /\ worker = "serve"
  /\ running.op = "record_watch_replay"
  /\ scene = "menu"
  /\ scene' = "watch"
  /\ worker' = "watching"
  /\ UNCHANGED <<schedVars, lineVars, reply, evictee, outcome,
                 flagVars, quitting, stopping, sceneLeft, statusDue>>

LeaveWatch ==
  /\ worker = "watching"
  /\ \/ scene' = "menu" /\ \E ok \in BOOLEAN :
          Ends(ok, IF ok THEN "ok" ELSE "failed")
     \/ ~ MenuReturns /\ UNCHANGED scene /\ Ends(FALSE, "failed")

(* A polling point reads ABANDON: the operation stops where it is.         *)
AbandonCode ==
  CASE abandon = "outranked" -> "evicted"
    [] abandon = "stopped" -> "game_stopped"
    [] OTHER -> "cancelled"

Abandon ==
  /\ worker \in {"serve", "watching"}
  /\ running.op \in Polls
  /\ abandon # "keep"
  /\ UNCHANGED scene
  /\ Ends(FALSE, AbandonCode)

EndServe ==
  /\ worker = "finish"
  /\ Finish(outcome)
  /\ statusDue' = TRUE
  /\ worker' = "free"
  /\ UNCHANGED <<lineVars, reply, evictee, outcome, flagVars,
                 gameVars, stopping, sceneLeft>>

(* quit(): from here on every claim is told the game is leaving.           *)
BeginQuit ==
  /\ worker = "stop"
  /\ quitting' = TRUE
  /\ abandon' = "keep"
  /\ worker' = "quit"
  /\ UNCHANGED <<schedVars, lineVars, reply, evictee, outcome,
                 byLevel, scene, stopping, sceneLeft, statusDue>>

(* The asker is answered and the process ends, by Unity or, where the main *)
(* menu was not reached, by force.                                         *)
EndQuit ==
  /\ worker = "quit"
  /\ \E what \in IF MenuReturns THEN {"ok"} ELSE {"ok", "failed"} :
       reply' = IF stopping = NoStop THEN reply
                ELSE Told(stopping.conn, stopping.id, what)
  /\ worker' = "over"
  /\ UNCHANGED <<schedVars, lineVars, evictee, outcome, flagVars,
                 gameVars, stopping, sceneLeft, statusDue>>

-----------------------------------------------------------------------------
(* The game reaches its main menu, and time passes.                        *)

Boot ==
  /\ scene = "boot"
  /\ scene' = "menu"
  /\ UNCHANGED <<schedVars, lineVars, reply, workVars, flagVars,
                 quitting, stopping, sceneLeft, statusDue>>

(* A tick is long beside the time the worker takes to ask for its next     *)
(* work: STATUS_INTERVAL at the least.                                     *)
HasWork ==
  \/ stopping # NoStop \/ sceneLeft \/ statusDue
  \/ RevokeDue \/ \E w \in queue : Chosen(w)
  \/ idleFor >= Linger

Tick ==
  /\ worker # "over"
  /\ worker = "free" => ~ HasWork
  /\ TickSched
  /\ statusDue' = TRUE
  /\ UNCHANGED <<lineVars, reply, workVars, flagVars, gameVars,
                 stopping, sceneLeft>>

Greeter == \E c \in Conn : Greet(c) \/ TellLeaving(c)
Clients == \E c \in Conn : Send(c) \/ HangUp(c)
Reader(c) == Admit(c) \/ StreamEnds(c)
Take ==
  \/ TakeStop \/ TakeMenu \/ TakeStatus \/ TakeLeaseBack \/ TakeQuit
  \/ \E w \in queue : TakeTurn(w) \/ TakeNothing(w)
Outside ==
  \/ EndMenu \/ EndStatus \/ EndRevoke \/ ServeDone \/ ServeFailed
  \/ EnterWatch \/ LeaveWatch \/ Abandon \/ EndServe \/ BeginQuit \/ EndQuit

AdapterNext ==
  \/ Greeter
  \/ Clients
  \/ \E c \in Conn : Reader(c)
  \/ Take
  \/ Outside
  \/ Boot
  \/ Tick

AdapterSpec == AdapterInit /\ [][AdapterNext]_vars

(* The threads run: the worker takes what there is and every operation it  *)
(* starts returns, a reader parses what has come, the clock ticks, and the *)
(* game reaches its main menu.  Nothing is asked of the clients.           *)
AdapterFairness ==
  /\ WF_vars(Take) /\ WF_vars(Outside)
  /\ \A c \in Conn : WF_vars(Reader(c))
  /\ WF_vars(Tick)
  /\ WF_vars(Boot)

FairSpec == AdapterSpec /\ AdapterFairness

-----------------------------------------------------------------------------
(* A request is only ever told to stop for a reason that is its own: a     *)
(* level above the one it runs at, its own connection closed, or quit_game *)
(* asked.  The flag a past request was stopped by is not this one's.       *)
AbandonJustified ==
  running # NoRun =>
    /\ abandon = "outranked" => byLevel > running.level
    /\ abandon = "disconnected" => running.conn \notin connections
    /\ abandon = "stopped" => stopping # NoStop

(* And it is told whenever there is one: a request that runs on unwarned   *)
(* is outranked by nobody waiting, its client is there, and nobody has     *)
(* asked the game to quit since it started.                                *)
NoneToldTooLate ==
  running # NoRun /\ abandon = "keep" =>
    /\ \A w \in queue : w.conn \in connections => LevelOf[w.conn] <= running.level
    /\ running.conn \in connections
    /\ stopping = NoStop

(* A turn given while nobody holds the lease starts at the main menu,      *)
(* wherever the holder before it left the game, and whether it left, hung  *)
(* up in the middle of a request or was evicted.                           *)
TurnAtMenu ==
  [][\A w \in queue : TakeTurn(w) /\ lease = NoConn => scene = "menu"]_vars

(* quit_game: "every waiting one is answered game_stopped"; none is left   *)
(* waiting on an open connection by a game that has gone, but the status   *)
(* of the lease holder, which a stopping game goes on putting in a line    *)
(* that nobody reads any more.                                             *)
StopAnswersAll ==
  worker = "over" =>
    \A c \in connections : \A i \in Requests(c) :
      reply[c][i] \in {"queued", "started"} =>
        \E w \in queue : w.conn = c /\ w.id = i /\ w.op = "status"

(* A request that waits in line is answered in the end, whoever holds the  *)
(* lease, unless its client goes or the game does.                         *)
EveryTurnComes ==
  \A c \in Conn : \A i \in Requests(c) :
    reply[c][i] = "queued" ~>
      (reply[c][i] \in Responses \/ c \notin connections \/ worker = "over")

(* A game that no client is left to want quits itself.                     *)
UnwantedGameQuits ==
  (\A c \in Conn : socket[c] = "gone") ~> worker = "over"
=============================================================================
